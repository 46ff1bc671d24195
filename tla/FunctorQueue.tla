---------------------------- MODULE FunctorQueue ----------------------------
(***************************************************************************)
(* What an EventLoop promises to whoever hands it functors: a functor that *)
(* is queued runs once, in the order of the queue, unless the loop ends    *)
(* first; a functor that the loop's own thread passes to runInLoop runs at *)
(* once, ahead of the queue.  The loop has no other say: which thread      *)
(* queues, when the loop sleeps and who wakes it are the implementation's. *)
(***************************************************************************)
EXTENDS Sequences

CONSTANT Functors

VARIABLES waiting,  \* the functors queued and not begun, oldest first
          ran,      \* the functors begun, in the order they began
          open      \* FALSE once the loop object is gone

fqVars == <<waiting, ran, open>>

FQInit == waiting = <<>> /\ ran = <<>> /\ open = TRUE

Queue(f) == open /\ waiting' = Append(waiting, f) /\ UNCHANGED <<ran, open>>

RunNext ==
  /\ waiting # <<>>
  /\ ran' = Append(ran, Head(waiting))
  /\ waiting' = Tail(waiting)
  /\ UNCHANGED open

RunNow(f) == ran' = Append(ran, f) /\ UNCHANGED <<waiting, open>>

\* What still waits is destroyed with the loop.
Close == open /\ open' = FALSE /\ waiting' = <<>> /\ UNCHANGED ran

FQNext == RunNext \/ Close \/ \E f \in Functors : Queue(f) \/ RunNow(f)

FQSpec == FQInit /\ [][FQNext]_fqVars /\ WF_fqVars(RunNext)
=============================================================================
