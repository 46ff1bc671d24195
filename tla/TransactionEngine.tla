-------------------------- MODULE TransactionEngine --------------------------
(***************************************************************************)
(* src/src/transaction: transactions that run their commands in coroutines *)
(* of CoroutineScheduler, wait there for events or a timeout, and are      *)
(* reported and destroyed later by the main routine.                       *)
(*                                                                         *)
(* A step is what the engine executes between two points where it gives    *)
(* control away: to a callback of the embedding application (OnStart, Do,  *)
(* OnRecvMsgEvent, OnTimeout, OnSuccess, OnFail, OnAbort, Undo, Finally),  *)
(* whose result is a free choice, or to another routine.  Each step is one *)
(* step of the scheduler or leaves the scheduler alone.                    *)
(***************************************************************************)
EXTENDS Naturals, Sequences

CONSTANTS
  TranId,     \* GUIDs; an instance and the coroutine it creates share one
  Main, Null, \* as in CoroutineScheduler
  Addr,       \* addresses operator new can return, positive and ordered
  TimerId,    \* ids RegisterTimer can return, positive
  Event,      \* the application's event ids (none of the reserved ones)
  TranType,   \* registered transaction types
  Cmds,       \* per type, cmd_array_ as the bags of events its commands await
  NeedUndo,   \* per type, is_need_undo_
  AppDoes     \* what the embedding application does besides the minimum

Abilities ==
  {"update",    \* calls TranInstMgr::Update from its main loop
   "nested",    \* starts transactions inside coroutine callbacks
   "peer",      \* sends events and aborts to others inside such callbacks
   "reenter",   \* calls the engine inside OnSuccess/OnFail/OnAbort/Finally
   "stray",     \* sends events the receiver does not await
   "abort",     \* aborts a transaction (once each)
   "complete",  \* calls complete() before the last command
   "retry",     \* overrides OnTimeout to return 0
   "refuse"}    \* runs where memory for timers or coroutines can run out

ASSUME EngineAssumption ==
  /\ Main \notin TranId /\ Null \notin TranId \cup {Main}
  /\ Addr \subseteq Nat \ {0} /\ TimerId \subseteq Nat \ {0}
  /\ Cmds \in [TranType -> Seq([Event -> Nat])]
  /\ NeedUndo \in [TranType -> BOOLEAN]
  /\ "TIMEOUT" \notin Event /\ "ABORT" \notin Event
  /\ AppDoes \subseteq Abilities

\* -1 is no index.
ASSUME NullIsNoIndex == Null \notin Nat

\* Timers do not run out of ids: when all other transactions hold one, one is left.
ASSUME TimersSuffice ==
  \A S \in SUBSET TranId : S # TranId =>
    \A f \in [S -> TimerId] : \E i \in TimerId : \A t \in S : f[t] # i

VARIABLES
  curr, coroutines, state, context, cpu,  \* of CoroutineScheduler
  trans_map,     \* keys of TranInstMgr::trans_map_
  destroy_list,  \* TranInstMgr::destroy_list_, a set of addresses
  upd,           \* where main is in the loop of TranInstMgr::Update
  inst,          \* the fields of each TransactionInstance
  pc,            \* where the code working for each instance is
  pending,       \* WaitForEvent's local events of each coroutine
  timers,        \* live timers: the tran_id each carries, Null if free
  result,        \* history: the outcome HandleResult reported
  done,          \* history: the commands whose DoAndWait returned 0
  undone         \* history: the commands Undo was called on

schedVars == <<curr, coroutines, state, context, cpu>>
mgrVars   == <<trans_map, destroy_list, upd>>
history   == <<result, done, undone>>
vars      == <<schedVars, mgrVars, inst, pc, pending, timers, history>>

Sched == INSTANCE CoroutineScheduler WITH CoId <- TranId

NoTimer  == 0              \* INVALID_TIMER_ID
NoCo     == Null           \* coroutine_id_ = 0
NoEvents == [e \in Event |-> 0]
DefaultEvent == {"TIMEOUT", "ABORT"}

IsDefaultEvent(msg)  == msg \in DefaultEvent
SetEventArg(r, type) == [r EXCEPT !.event_type = type]

\* The code working for an instance is: not there yet; in StartTransaction
\* ("added" to the map, "created" its coroutine); in its coroutine about to
\* call OnStart ("boot") or Do ("do"), "suspended" in Wait, "resumed" from it,
\* or in the "tail" of RealStart; "exited" and not yet reported; or over, the
\* instance deleted after it was reported ("released") or when its start
\* failed ("failed").  Only module TransactionResume has the rest: "lost" in a
\* crash, its coroutine "prepared" again, and "reentered".
Pc == {"none", "added", "created", "boot", "do", "suspended", "resumed", "tail",
       "exited", "released", "failed", "lost", "prepared", "reentered"}

Running   == {"boot", "do", "resumed", "tail"}
Allocated == Pc \ {"none", "released", "failed"}

\* curr_index and its kin count from 0, -1 (here Null) is "not set".
Instance == [type : TranType \cup {Null}, addr : Addr \cup {0},
             coroutine_id : TranId \cup {NoCo}, timer_id : TimerId \cup {NoTimer},
             curr_index : Nat \cup {Null}, waiting_index : Nat \cup {Null},
             fail_index : Nat \cup {Null}, fail_reason : {"OK", "ERROR", "ABORT"},
             events : [Event -> Nat], event_type : Event \cup DefaultEvent \cup {Null},
             is_complete : BOOLEAN, is_delay_destroying : BOOLEAN]

NoInstance == [type |-> Null, addr |-> 0, coroutine_id |-> NoCo, timer_id |-> NoTimer,
               curr_index |-> Null, waiting_index |-> Null, fail_index |-> Null,
               fail_reason |-> "OK", events |-> NoEvents, event_type |-> Null,
               is_complete |-> FALSE, is_delay_destroying |-> FALSE]

TypeOK ==
  /\ Sched!TypeOK
  /\ trans_map \subseteq TranId
  /\ destroy_list \subseteq Addr
  /\ upd \in [at : Addr \cup {0}, handling : BOOLEAN]
  /\ inst \in [TranId -> Instance]
  /\ pc \in [TranId -> Pc]
  /\ pending \in [TranId -> [Event -> Nat]]
  /\ timers \in [TimerId -> TranId \cup {Null}]
  /\ result \in [TranId -> {"none", "success", "fail", "abort"}]
  /\ done \in [TranId -> Seq(Nat)]
  /\ undone \in [TranId -> Seq(Nat)]

CmdsOf(t) == Cmds[inst[t].type]
IsFailed(r) == r.fail_reason # "OK"

-----------------------------------------------------------------------------
(* Who may call the engine.                                                *)

NotUpdating == upd = [at |-> 0, handling |-> FALSE]

Starting == \E t \in TranId : pc[t] \in {"added", "created"}

\* The main routine is in application code: in its loop, or in a callback of
\* HandleResult.
AppInMain == /\ cpu = Main /\ ~Starting
             /\ NotUpdating \/ (upd.handling /\ "reenter" \in AppDoes)

\* The coroutine of t is in application code.
AppInCoroutine(t) ==
  /\ cpu = t /\ ~Starting
  /\ \/ pc[t] \in {"boot", "do"}
     \/ pc[t] = "resumed" /\ inst[t].event_type # "ABORT"

\* The coroutine of t executes at p, and has no call of StartTransaction open.
RunsAt(t, p) == pc[t] = p /\ cpu = t /\ ~Starting

-----------------------------------------------------------------------------
(* TransactionServer::StartTransaction and Transaction::Start.             *)

AddTranInst(t) ==
  /\ trans_map' = trans_map \cup {t}
  /\ UNCHANGED <<destroy_list, upd>>

\* Where a new instance may lie: an address is free again once it is deleted.
FreeAddr == Addr \ {inst[u].addr : u \in TranId}

\* StartCommonTransaction allocates the instance, StartTransaction maps it.
StartCommonTransaction(t) ==
  /\ pc[t] = "none"
  /\ \E a \in FreeAddr, ty \in TranType :
       inst' = [inst EXCEPT ![t] = [NoInstance EXCEPT !.type = ty, !.addr = a]]
  /\ AddTranInst(t)
  /\ pc' = [pc EXCEPT ![t] = "added"]
  /\ UNCHANGED <<schedVars, pending, timers, history>>

\* RemoveTranInst and mem_guard's delete when Start returned an error.
GiveUpStart(t) ==
  /\ trans_map' = trans_map \ {t}
  /\ inst' = [inst EXCEPT ![t] = NoInstance]
  /\ pc' = [pc EXCEPT ![t] = "failed"]
  /\ UNCHANGED <<destroy_list, upd, pending, timers, history>>

CreateCoroutine(t) ==
  /\ pc[t] = "added"
  /\ Sched!CreateWorkRoutine(t)
  /\ inst' = [inst EXCEPT ![t].coroutine_id = t]
  /\ pc' = [pc EXCEPT ![t] = "created"]
  /\ UNCHANGED <<mgrVars, pending, timers, history>>

CreateCoroutineFails(t) ==
  /\ "refuse" \in AppDoes
  /\ pc[t] = "added"
  /\ GiveUpStart(t)
  /\ UNCHANGED schedVars

EnterCoroutine(t) ==
  /\ pc[t] = "created"
  /\ Sched!SwapToWorkRoutine(inst[t].coroutine_id)
  /\ pc' = [pc EXCEPT ![t] = "boot"]
  /\ UNCHANGED <<mgrVars, inst, pending, timers, history>>

\* Mutants: the coroutine that could not be entered is forgotten, or the
\* calling one is destroyed in its place.
EnterCoroutineFails_Leaks(t) ==
  /\ pc[t] = "created"
  /\ ~Sched!CanSwapToWorkRoutine(inst[t].coroutine_id)
  /\ GiveUpStart(t)
  /\ UNCHANGED schedVars

EnterCoroutineFails_DestroysCurr(t) ==
  /\ pc[t] = "created"
  /\ ~Sched!CanSwapToWorkRoutine(inst[t].coroutine_id)
  /\ Sched!DestroyWorkRoutine(curr)
  /\ GiveUpStart(t)

\* SwapToWorkRoutine refuses, as it does inside a coroutine.
EnterCoroutineFails(t) ==
  /\ pc[t] = "created"
  /\ ~Sched!CanSwapToWorkRoutine(inst[t].coroutine_id)
  /\ Sched!DestroyWorkRoutine(inst[t].coroutine_id)
  /\ GiveUpStart(t)

-----------------------------------------------------------------------------
(* In the coroutine: RealStart, RunCommandOnInstance, Command::DoAndWait.  *)

\* Mutant: only the index of the failed command is kept, as RealResume does.
FailedAt_IndexOnly(r, err) == [r EXCEPT !.fail_index = r.curr_index]

\* A failed command's index, and its error unless one is kept already.
FailedAt(r, err) == [r EXCEPT !.fail_index = r.curr_index,
                              !.fail_reason = IF @ = "OK" THEN err ELSE @]

\* RunCommandOnInstance after DoAndWait of the current command returned err,
\* r being the instance's fields by then.
CommandReturned(t, r, err) ==
  LET failed == err # "OK" \/ IsFailed(r)
      over   == r.is_complete \/ r.curr_index + 1 = Len(CmdsOf(t))
  IN /\ inst' = [inst EXCEPT ![t] =
                   IF failed THEN FailedAt(r, err)
                   ELSE IF over THEN r
                   ELSE [r EXCEPT !.curr_index = @ + 1]]
     /\ pc' = [pc EXCEPT ![t] = IF failed \/ over THEN "tail" ELSE "do"]
     /\ done' = IF err = "OK" THEN [done EXCEPT ![t] = Append(@, r.curr_index)] ELSE done
     /\ UNCHANGED <<schedVars, mgrVars, pending, timers, result, undone>>

FreeTimer == CHOOSE i \in TimerId : timers[i] = Null

\* Mutant: events_ keeps the events of the wait before.
Armed_StaleEvents(r, events) ==
  [r EXCEPT !.timer_id = FreeTimer, !.waiting_index = r.curr_index,
            !.events = IF @ = NoEvents THEN events ELSE @]

\* The fields that Wait sets when it has registered a timer.
Armed(r, events) ==
  [r EXCEPT !.timer_id = FreeTimer, !.waiting_index = r.curr_index, !.events = events]

\* TransactionInstance::Wait.  A timer that is still set keeps its wait.
Suspend(t, r, events) ==
  LET arm == r.timer_id = NoTimer
  IN /\ inst' = [inst EXCEPT ![t] = IF arm THEN Armed(r, events) ELSE r]
     /\ timers' = IF arm THEN [timers EXCEPT ![FreeTimer] = t] ELSE timers
     /\ pending' = [pending EXCEPT ![t] = events]
     /\ pc' = [pc EXCEPT ![t] = "suspended"]
     /\ Sched!SwapToMain
     /\ UNCHANGED <<mgrVars, history>>

\* One turn of WaitForEvent's loop, with its local events: nothing left to
\* wait for, a wait, or a wait refused by RegisterTimer.
WaitForEvent(t, r, events) ==
  \/ events = NoEvents /\ CommandReturned(t, r, "OK")
  \/ events # NoEvents /\ Suspend(t, r, events)
  \/ events # NoEvents /\ "refuse" \in AppDoes /\ CommandReturned(t, r, "ERROR")

\* The instance's fields after a callback that may have called complete().
AfterCallback(t) ==
  {[inst[t] EXCEPT !.is_complete = @ \/ b] :
     b \in IF "complete" \in AppDoes THEN BOOLEAN ELSE {FALSE}}

OnStart(t) ==
  /\ RunsAt(t, "boot")
  /\ \E r \in AfterCallback(t) :
       \/ /\ inst' = [inst EXCEPT ![t] = [r EXCEPT !.fail_reason = "ERROR"]]
          /\ pc' = [pc EXCEPT ![t] = "tail"]
       \/ LET none == CmdsOf(t) = <<>>
          IN /\ inst' = [inst EXCEPT ![t] = IF none THEN r ELSE [r EXCEPT !.curr_index = 0]]
             /\ pc' = [pc EXCEPT ![t] = IF none THEN "tail" ELSE "do"]
  /\ UNCHANGED <<schedVars, mgrVars, pending, timers, history>>

\* Do fails (as Wait does for a command without events), or has nothing to
\* wait for, or its command waits.
Do(t) ==
  /\ RunsAt(t, "do")
  /\ \E r \in AfterCallback(t) :
       \/ CommandReturned(t, r, "ERROR")
       \/ CommandReturned(t, r, "OK")
       \/ /\ CmdsOf(t)[r.curr_index + 1] # NoEvents
          /\ WaitForEvent(t, r, CmdsOf(t)[r.curr_index + 1])

\* WaitForEvent woken by an awaited event: OnRecvMsgEvent, then the event is
\* struck off.
OnRecvMsgEvent(t) ==
  LET e == inst[t].event_type
  IN /\ RunsAt(t, "resumed")
     /\ e \in Event /\ pending[t][e] > 0
     /\ \E r \in AfterCallback(t) :
          \/ CommandReturned(t, r, "ERROR")
          \/ WaitForEvent(t, r, [pending[t] EXCEPT ![e] = @ - 1])

\* ProcDefaultEvents: an abort marks the instance failed and the loop waits on.
OnAbortEvent(t) ==
  /\ RunsAt(t, "resumed")
  /\ inst[t].event_type = "ABORT"
  /\ WaitForEvent(t, [inst[t] EXCEPT !.fail_reason = "ABORT"], pending[t])

\* Mutant: a timeout is ignored, and the command waits on.
OnTimeout_Ignored(t) ==
  /\ RunsAt(t, "resumed")
  /\ inst[t].event_type = "TIMEOUT"
  /\ Suspend(t, inst[t], pending[t])

\* ProcDefaultEvents: OnTimeout fails the command unless it is overridden.
OnTimeout(t) ==
  /\ RunsAt(t, "resumed")
  /\ inst[t].event_type = "TIMEOUT"
  /\ \E r \in AfterCallback(t) :
       \/ CommandReturned(t, r, "ERROR")
       \/ "retry" \in AppDoes /\ WaitForEvent(t, r, pending[t])

\* The end of RealStart: what has not failed is complete.
Completed(r) == [r EXCEPT !.is_complete = @ \/ ~IsFailed(r)]

\* RealStart ends, MarkTranInstDelayDestroy and the coroutine's exit.
Exit(t) ==
  /\ RunsAt(t, "tail")
  /\ LET r == Completed(inst[t])
     IN IF r.is_delay_destroying
        THEN /\ inst' = [inst EXCEPT ![t] = r]
             /\ UNCHANGED <<destroy_list, trans_map>>
        ELSE /\ inst' = [inst EXCEPT ![t] = [r EXCEPT !.is_delay_destroying = TRUE]]
             /\ destroy_list' = destroy_list \cup {r.addr}
             /\ trans_map' = trans_map \ {t}
  /\ pc' = [pc EXCEPT ![t] = "exited"]
  /\ pending' = [pending EXCEPT ![t] = NoEvents]
  /\ Sched!WorkRoutineExit
  /\ UNCHANGED <<upd, timers, history>>

-----------------------------------------------------------------------------
(* Events: TransactionInstance::SendMsgEvent, Abort, TransactionOnTimeout. *)

\* Mutant: a timeout leaves timer_id_ set, and the next Wait believes it.
Deliver_KeepsTimerId(t, msg) ==
  /\ inst' = [inst EXCEPT ![t] = [@ EXCEPT !.event_type = msg,
                                            !.timer_id = IF msg = "TIMEOUT" THEN @ ELSE NoTimer]]
  /\ Sched!SwapToWorkRoutine(inst[t].coroutine_id)
  /\ pc' = [pc EXCEPT ![t] = "resumed"]

\* The common end of SendMsgEvent: a message that is not awaited is refused;
\* otherwise it becomes the instance's event, and the coroutine is entered
\* unless the scheduler refuses, as it does inside another coroutine.
Deliver(t, msg) ==
  LET r       == [inst[t] EXCEPT !.timer_id = NoTimer]
      awaited == IsDefaultEvent(msg) \/ r.events[msg] > 0
  IN /\ inst' = [inst EXCEPT ![t] = IF awaited THEN SetEventArg(r, msg) ELSE r]
     /\ IF awaited /\ Sched!CanSwapToWorkRoutine(r.coroutine_id)
        THEN /\ Sched!SwapToWorkRoutine(r.coroutine_id)
             /\ pc' = [pc EXCEPT ![t] = "resumed"]
        ELSE UNCHANGED <<schedVars, pc>>

\* Mutant: the timer runs on.
SendMsgEvent_KeepsTimer(t, msg) ==
  /\ Deliver(t, msg)
  /\ UNCHANGED <<mgrVars, pending, timers, history>>

\* SendMsgEvent of any message but TIMEOUT: the wait's timer is destroyed
\* before anything else is looked at.
SendMsgEvent(t, msg) ==
  /\ timers' = [i \in TimerId |-> IF i = inst[t].timer_id THEN Null ELSE timers[i]]
  /\ Deliver(t, msg)
  /\ UNCHANGED <<mgrVars, pending, history>>

\* TransactionServer::SendMsgEventToTran finds the instance first; so does
\* whoever aborts one.
SendMsgEventToTran(t, msg) == t \in trans_map /\ SendMsgEvent(t, msg)

\* TimerMgr::Proc fires a one-shot timer, and TransactionOnTimeout sends
\* TIMEOUT to the instance it names, if that is still mapped.
TimerFires(i) ==
  LET t == timers[i]
  IN /\ cpu = Main /\ ~Starting /\ NotUpdating
     /\ t # Null
     /\ timers' = [timers EXCEPT ![i] = Null]
     /\ IF t \in trans_map THEN Deliver(t, "TIMEOUT") ELSE UNCHANGED <<schedVars, inst, pc>>
     /\ UNCHANGED <<mgrVars, pending, history>>

-----------------------------------------------------------------------------
(* TranInstMgr::Update and Transaction::HandleResult.                      *)

\* The elements of destroy_list_ that the loop's iterator has yet to reach.
Ahead == {a \in destroy_list : a > upd.at}

InstAt(a) == CHOOSE t \in TranId : inst[t].addr = a

\* The callback HandleResult calls (none inside a coroutine).
Outcome(r) == IF curr # Main THEN "none"
              ELSE IF r.is_complete THEN "success"
              ELSE IF r.fail_reason = "ABORT" THEN "abort"
              ELSE "fail"

\* Mutants: the failed command is undone too, or the order is that of Do.
UndoList_WithFailed(t) ==
  LET last == inst[t].fail_index
  IN IF result[t] \in {"fail", "abort"} /\ NeedUndo[inst[t].type] /\ last # Null
     THEN [k \in 1..(last + 1) |-> last + 1 - k]
     ELSE <<>>

UndoList_FirstFirst(t) ==
  LET last == inst[t].fail_index
  IN IF result[t] \in {"fail", "abort"} /\ NeedUndo[inst[t].type] /\ last # Null
     THEN [k \in 1..last |-> k - 1]
     ELSE <<>>

\* The commands Undo calls back, last first.
UndoList(t) ==
  LET last == inst[t].fail_index
  IN IF result[t] \in {"fail", "abort"} /\ NeedUndo[inst[t].type] /\ last # Null
     THEN [k \in 1..last |-> last - k]
     ELSE <<>>

\* Mutant: the loop does not go in the order of the set.
UpdateTakesNext_AnyOrder ==
  /\ cpu = Main /\ ~Starting /\ ~upd.handling
  /\ NotUpdating => "update" \in AppDoes
  /\ \E a \in Ahead :
       LET t == InstAt(a)
       IN /\ Sched!DestroyWorkRoutine(inst[t].coroutine_id)
          /\ inst' = [inst EXCEPT ![t].coroutine_id = NoCo]
          /\ result' = [result EXCEPT ![t] = Outcome(inst[t])]
          /\ upd' = [at |-> a, handling |-> TRUE]
  /\ UNCHANGED <<trans_map, destroy_list, pc, pending, timers, done, undone>>

\* The loop takes the next instance, destroys its coroutine and enters
\* HandleResult, which reports the outcome.
UpdateTakesNext ==
  /\ cpu = Main /\ ~Starting /\ ~upd.handling
  /\ NotUpdating => "update" \in AppDoes
  /\ \E a \in Ahead :
       LET t == InstAt(a)
       IN /\ \A b \in Ahead : a <= b
          /\ IF inst[t].coroutine_id # NoCo
             THEN Sched!DestroyWorkRoutine(inst[t].coroutine_id)
             ELSE UNCHANGED schedVars
          /\ inst' = [inst EXCEPT ![t].coroutine_id = NoCo]
          /\ result' = [result EXCEPT ![t] = Outcome(inst[t])]
          /\ upd' = [at |-> a, handling |-> TRUE]
  /\ UNCHANGED <<trans_map, destroy_list, pc, pending, timers, done, undone>>

\* The rest of HandleResult (Undo, Finally), then SafeRelease.
UpdateReleases ==
  LET t == InstAt(upd.at)
  IN /\ cpu = Main /\ ~Starting /\ upd.handling
     /\ undone' = [undone EXCEPT ![t] = @ \o UndoList(t)]
     /\ inst' = [inst EXCEPT ![t] = NoInstance]
     /\ pc' = [pc EXCEPT ![t] = "released"]
     /\ upd' = [upd EXCEPT !.handling = FALSE]
     /\ UNCHANGED <<schedVars, trans_map, destroy_list, pending, timers, result, done>>

\* Mutant: the list is not cleared.
UpdateEnds_KeepsList ==
  /\ cpu = Main /\ ~upd.handling /\ ~NotUpdating
  /\ Ahead = {}
  /\ upd' = [at |-> 0, handling |-> FALSE]
  /\ UNCHANGED <<schedVars, trans_map, destroy_list, inst, pc, pending, timers, history>>

UpdateEnds ==
  /\ cpu = Main /\ ~upd.handling /\ ~NotUpdating
  /\ Ahead = {}
  /\ destroy_list' = {}
  /\ upd' = [at |-> 0, handling |-> FALSE]
  /\ UNCHANGED <<schedVars, trans_map, inst, pc, pending, timers, history>>

-----------------------------------------------------------------------------
(* The application.                                                        *)

AppStarts(t) ==
  /\ AppInMain \/ ("nested" \in AppDoes /\ \E u \in TranId : AppInCoroutine(u))
  /\ StartCommonTransaction(t)

AppSends(t) ==
  /\ AppInMain
  /\ \E e \in Event : /\ inst[t].events[e] > 0 \/ "stray" \in AppDoes
                      /\ SendMsgEventToTran(t, e)

\* The commands "start" and "invoke" of the demo's clients.  It refuses others,
\* and types and events it does not know.
CallGM(t) == AppStarts(t) \/ AppSends(t)

AppAborts(t) ==
  /\ "abort" \in AppDoes
  /\ AppInMain
  /\ inst[t].fail_reason # "ABORT"
  /\ SendMsgEventToTran(t, "ABORT")

\* To another instance: a message a coroutine sends to its own instance is
\* always refused and changes nothing that is read again.
PeerSends(t) ==
  /\ "peer" \in AppDoes
  /\ \E u \in TranId \ {t} : AppInCoroutine(u)
  /\ \E msg \in Event \cup {"ABORT"} : SendMsgEventToTran(t, msg)

\* Every GUID of this model is used up and its instance is gone.
AllOver == /\ \A t \in TranId : pc[t] \in {"released", "failed"}
           /\ NotUpdating
           /\ UNCHANGED vars

-----------------------------------------------------------------------------

Init ==
  /\ Sched!Init
  /\ trans_map = {}
  /\ destroy_list = {}
  /\ upd = [at |-> 0, handling |-> FALSE]
  /\ inst = [t \in TranId |-> NoInstance]
  /\ pc = [t \in TranId |-> "none"]
  /\ pending = [t \in TranId |-> NoEvents]
  /\ timers = [i \in TimerId |-> Null]
  /\ result = [t \in TranId |-> "none"]
  /\ done = [t \in TranId |-> <<>>]
  /\ undone = [t \in TranId |-> <<>>]

StartStep(t) == \/ CreateCoroutine(t) \/ CreateCoroutineFails(t)
                \/ EnterCoroutine(t) \/ EnterCoroutineFails(t)

CoroutineStep(t) == \/ OnStart(t) \/ Do(t) \/ OnRecvMsgEvent(t) \/ OnAbortEvent(t)
                    \/ OnTimeout(t) \/ Exit(t)

AppStep(t) == CallGM(t) \/ AppAborts(t) \/ PeerSends(t)

UpdateStep == UpdateTakesNext \/ UpdateReleases \/ UpdateEnds

Next == \/ \E t \in TranId : StartStep(t) \/ CoroutineStep(t) \/ AppStep(t)
        \/ \E i \in TimerId : TimerFires(i)
        \/ UpdateStep
        \/ AllOver

Spec == Init /\ [][Next]_vars

\* Callbacks return, the main loop keeps calling TransactionServer::OnTick and,
\* if it calls it at all, TranInstMgr::Update.  Proc fires every timer whose
\* time has come, and main comes back to it only now and then: strong fairness.
\* An OnTimeout that is overridden does not ignore timeouts for ever.
GivesUp(t) == OnTimeout(t) /\ pc'[t] = "tail"

Fairness ==
  /\ \A t \in TranId : /\ WF_vars(StartStep(t))
                       /\ WF_vars(CoroutineStep(t))
                       /\ SF_vars(GivesUp(t))
                       /\ SF_vars(\E i \in TimerId : timers[i] = t /\ TimerFires(i))
  /\ SF_vars(UpdateStep)

FairSpec == Spec /\ Fairness

-----------------------------------------------------------------------------
(* Properties.                                                             *)

\* Every engine step, with whatever the application does in callbacks, uses
\* the scheduler as it may be used; above all no routine is destroyed while
\* it executes.
UsesSchedulerRightly == Sched!Spec

\* Timer handles and timers match one to one, and only a suspended wait owns
\* a timer: no timer is left over from an earlier wait to end a later one.
TimersOwned ==
  /\ \A i \in TimerId : timers[i] # Null =>
       pc[timers[i]] = "suspended" /\ inst[timers[i]].timer_id = i
  /\ \A t \in TranId : inst[t].timer_id # NoTimer => timers[inst[t].timer_id] = t

\* A suspended transaction can be woken by what it waits for and by nothing
\* else: it is mapped, its coroutine can be resumed, and the events_ that
\* SendMsgEvent admits are those its command still awaits, under the index a
\* restart would resume from.
SuspendedCanBeWoken ==
  \A t \in TranId : pc[t] = "suspended" =>
    /\ t \in trans_map
    /\ inst[t].coroutine_id = t /\ t \in coroutines /\ state[t] = "SUSPEND"
    /\ inst[t].events = pending[t] /\ pending[t] # NoEvents
    /\ inst[t].waiting_index = inst[t].curr_index

\* A suspended transaction has a live timer, so that its wait ends even if no
\* event ever comes (timer_id_ "handles the timeout", transaction_instance.h:103).
SuspendedHasTimer ==
  \A t \in TranId : pc[t] = "suspended" => \E i \in TimerId : timers[i] = t

\* An instance that is over, deleted after its report or because its start
\* failed (even inside a coroutine), leaves nothing behind: no map entry, no
\* coroutine, no timer.  And the other way round: every coroutine has an
\* instance that destroys it, and one not entered yet will find its instance in
\* the map (its entry function leaves without OnWorkRoutineExit if it does not).
NothingLeftBehind ==
  /\ \A t \in TranId : pc[t] \in {"failed", "released"} =>
       /\ t \notin trans_map /\ t \notin coroutines
       /\ \A i \in TimerId : timers[i] # t
  /\ \A c \in coroutines : /\ inst[c].coroutine_id = c
                           /\ state[c] = "READY" => c \in trans_map

\* A transaction whose coroutine has exited is still ahead of Update's
\* iterator (or the one it is at), so that it will be reported and released.
FinishedWillBeHandled ==
  \A t \in TranId : pc[t] = "exited" =>
    \/ inst[t].addr \in Ahead
    \/ upd = [at |-> inst[t].addr, handling |-> TRUE]

\* Update never meets a pointer to a deleted instance: what its iterator has
\* yet to reach are finished instances, whatever callbacks start, finish or
\* allocate meanwhile.
UpdateMeetsLiveInstances ==
  \A a \in Ahead : \E t \in TranId : inst[t].addr = a /\ pc[t] = "exited"

\* HandleResult reports an instance at most once, in the main routine, after
\* its coroutine is destroyed, and an instance is released only when reported.
ReportedOnceInMain ==
  [][\A t \in TranId :
       /\ result'[t] # result[t] =>
            result[t] = "none" /\ cpu = Main /\ curr = Main /\ t \notin coroutines'
       /\ pc'[t] = "released" => result[t] # "none"]_vars

\* Success is reported only if every command returned 0 and nothing failed,
\* failure or abort only if something did.
ResultIsHonest ==
  \A t \in TranId : upd = [at |-> inst[t].addr, handling |-> TRUE] =>
    IF result[t] = "success"
    THEN ~IsFailed(inst[t]) /\ Len(done[t]) = Len(CmdsOf(t))
    ELSE IsFailed(inst[t])

LastFirst(s, n) == [k \in 1..n |-> s[n + 1 - k]]

\* When a transaction that needs undo is released as failed, exactly the
\* commands that returned 0 have been undone, once each, last first; one that
\* succeeded has undone nothing.
FailureIsUndone ==
  [][\A t \in TranId : pc'[t] = "released" /\ pc[t] # "released" /\ result[t] # "abort" =>
       undone'[t] = IF result[t] = "fail" /\ NeedUndo[inst[t].type]
                    THEN LastFirst(done[t], Len(done[t]))
                    ELSE <<>>]_vars

\* However a transaction ends, Undo is called only on commands that returned 0,
\* once each, last first, and never after success was reported.
UndoOnlyWhatWasDone ==
  \A t \in TranId :
    /\ \E n \in 0..Len(done[t]) : undone[t] = LastFirst(done[t], n)
    /\ result[t] \in {"none", "success"} => undone[t] = <<>>

\* An abort ends the wait of the coroutine it is delivered to
\* (E_TRANSACTION_EVENT_TYPE_ABORT "force-stops the coroutine",
\* transaction_comm.h:18).
AbortEndsWait ==
  \A t \in TranId : pc[t] = "suspended" => inst[t].fail_reason # "ABORT"

\* Seen from outside, an instance is new until its coroutine is entered, runs
\* until that exits, and ends as Update reports and releases it.
LifeOf(p, r) ==
  IF p \in {"none", "added", "created"} THEN "new"
  ELSE IF p = "failed" THEN "refused"
  ELSE IF p = "released" THEN "released"
  ELSE IF p # "exited" THEN "running"
  ELSE IF r = "none" THEN "ended" ELSE "reported"

Life == [t \in TranId |-> LifeOf(pc[t], result[t])]

Promised == INSTANCE Transactions
              WITH Tran <- TranId, life <- Life, did <- done, outcome <- result, undid <- undone

\* The engine keeps its promise to each transaction: commands done in order and
\* only while it runs, one report, undo after the report and of nothing else;
\* and every transaction whose coroutine was entered is at last reported and
\* released, even if the events it waits for never come.
ImplementsTransactions == Promised!Promise
=============================================================================
