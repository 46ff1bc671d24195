---------------------------- MODULE Transactions ----------------------------
(***************************************************************************)
(* What src/src/transaction promises to the program that starts a          *)
(* transaction, whatever becomes of its coroutine, timer and events: its   *)
(* commands are done one by one, it ends, the outcome is reported once and *)
(* only then is anything undone, and it is gone after that.  A start may   *)
(* be refused, and then nothing has been done.                             *)
(***************************************************************************)
EXTENDS Naturals, Sequences

CONSTANT Tran

VARIABLES life,     \* how far each transaction is
          did,      \* the commands that succeeded, in that order
          outcome,  \* what was reported
          undid     \* the commands undone, in that order

promises == <<life, did, outcome, undid>>

Passes(t, from, to) == life[t] = from /\ life' = [life EXCEPT ![t] = to]

Backwards(s, n) == [k \in 1..n |-> s[n + 1 - k]]

PromiseInit ==
  /\ life = [t \in Tran |-> "new"]
  /\ did = [t \in Tran |-> <<>>]
  /\ outcome = [t \in Tran |-> "none"]
  /\ undid = [t \in Tran |-> <<>>]

Begin(t) == Passes(t, "new", "running") /\ UNCHANGED <<did, outcome, undid>>

Refuse(t) == Passes(t, "new", "refused") /\ UNCHANGED <<did, outcome, undid>>

DoNext(t) ==
  /\ life[t] = "running"
  /\ did' = [did EXCEPT ![t] = Append(@, Len(@))]
  /\ UNCHANGED <<life, outcome, undid>>

End(t) == Passes(t, "running", "ended") /\ UNCHANGED <<did, outcome, undid>>

Report(t) ==
  /\ Passes(t, "ended", "reported")
  /\ \E o \in {"success", "fail", "abort"} : outcome' = [outcome EXCEPT ![t] = o]
  /\ UNCHANGED <<did, undid>>

\* How many commands, from the last one back, a release may undo: after a
\* failure all or none, as is_need_undo_ says; an abort may leave the last done.
MayUndo(t) ==
  CASE outcome[t] = "success" -> {0}
    [] outcome[t] = "fail"    -> {0, Len(did[t])}
    [] outcome[t] = "abort"   -> {n \in 0..Len(did[t]) : n = 0 \/ n + 1 >= Len(did[t])}

Release(t) ==
  /\ Passes(t, "reported", "released")
  /\ \E n \in MayUndo(t) : undid' = [undid EXCEPT ![t] = Backwards(did[t], n)]
  /\ UNCHANGED <<did, outcome>>

PromiseNext == \E t \in Tran : \/ Begin(t) \/ Refuse(t) \/ DoNext(t)
                               \/ End(t) \/ Report(t) \/ Release(t)

\* What was begun comes to its end.
Finishes(t) == life[t] = "running" ~> life[t] = "released"

SafePromise == PromiseInit /\ [][PromiseNext]_promises

Promise == SafePromise /\ \A t \in Tran : Finishes(t)
=============================================================================
