------------------------ MODULE AsymmetricCoroutines ------------------------
(***************************************************************************)
(* What src/src/coroutine promises to the code above it: one thread of     *)
(* control shared by a main routine and any number of work routines, which *)
(* passes only between main and one work routine (boost_coroutine.h:6-8).  *)
(* A work routine gets control only after it was spawned or has yielded,   *)
(* never while it already has it and never once it has returned.           *)
(***************************************************************************)

CONSTANTS CoId,   \* ids of work routines
          Main    \* the main routine

VARIABLES running,    \* the routine that has control
          resumable   \* the work routines that main may pass control to

Init == /\ running = Main
        /\ resumable = {}

Spawn(c) == /\ c \notin resumable
            /\ c # running
            /\ resumable' = resumable \cup {c}
            /\ UNCHANGED running

Transfer(c) == /\ running = Main
               /\ c \in resumable
               /\ running' = c
               /\ resumable' = resumable \ {c}

Yield == /\ running # Main
         /\ running' = Main
         /\ resumable' = resumable \cup {running}

Return == /\ running # Main
          /\ running' = Main
          /\ UNCHANGED resumable

\* A routine that can still be resumed may be thrown away.
Discard(c) == /\ c \in resumable
              /\ resumable' = resumable \ {c}
              /\ UNCHANGED running

Next == \/ \E c \in CoId : Spawn(c) \/ Transfer(c) \/ Discard(c)
        \/ Yield
        \/ Return

Spec == Init /\ [][Next]_<<running, resumable>>
=============================================================================
