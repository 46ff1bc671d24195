------------------------------ MODULE EventLoop ------------------------------
(***************************************************************************)
(* One EventLoop (src/network/EventLoop.cpp), the thread that runs it and  *)
(* the threads that use it.                                                *)
(*                                                                         *)
(* The loop is either the one of an EventLoopThread, started by            *)
(* startLoop() and ended by the destructor of the EventLoopThread, or the  *)
(* base loop of a program that calls OnTick() from its own main loop       *)
(* (src/demo/trans_server.cpp); "ticked" tells which and never changes.    *)
(*                                                                         *)
(* Steps are cut where another thread can see a difference: a section      *)
(* under m_mutex is one step, the write of the eventfd that follows it is  *)
(* another.  A functor is an element of Functors and is handed over once;  *)
(* while it runs it may queue or run another functor or quit the loop.     *)
(***************************************************************************)
EXTENDS Naturals, Sequences, SequencesExt

CONSTANTS Functors,  \* functors, each handed to the loop at most once
          Callers,   \* threads, not the loop's own, that hand over functors
          Modes      \* which kinds of loop exist: a subset of BOOLEAN

ASSUME ModesAssumption == Modes \subseteq BOOLEAN

VARIABLES
  ticked,      \* the loop is driven by OnTick() and not by loop()
  thread,      \* where the loop's thread is
  owner,       \* where the thread that holds the EventLoopThread is
  call,        \* call[c]: where caller c is in runInLoop()
  m_loop,      \* EventLoopThread::m_loop is set
  m_tid,       \* Thread::m_tid is known
  m_quit, m_callingPendingFunctors,
  m_pendingFunctors,
  funcs,       \* the local vector of doPendingFunctors()
  active,      \* m_activeChannels: "wakeup" and one of a connection, "io"
  eventfd,     \* the eventfd is readable
  ran,         \* history: the functors begun, in order
  unwoken,     \* history: functors that the loop's thread queued where no
               \* doPendingFunctors() follows before the next poll
  selfQuit,    \* history: a functor or a handler called quit()
  quitLost     \* history: loop() cleared an m_quit that was set

loopVars == <<m_quit, m_callingPendingFunctors, m_pendingFunctors, funcs,
              active, eventfd>>
ownerVars == <<owner, m_loop, m_tid>>
history == <<ran, unwoken, selfQuit, quitLost>>
vars == <<ticked, thread, call, loopVars, ownerVars, history>>

ThreadPcs == {"none", "created", "init", "publish", "enter", "test", "between", "poll",
              "handling", "swap", "run", "functor", "leaving",
              "unlocking", "ended"}
OwnerPcs == {"new", "starting", "waiting", "up", "quitting", "waking",
             "joining", "gone"}

\* The loop object exists: it is a local variable of threadFunc().
LoopExists == thread \notin {"none", "created", "ended"}

\* A functor nobody handed over yet.
Fresh == Functors \ (Range(ran) \cup Range(funcs) \cup Range(m_pendingFunctors))

-----------------------------------------------------------------------------
(* The constructors: of EventLoopThread, or of the base loop of the demo. *)
Init ==
  /\ ticked \in Modes
  /\ thread = IF ticked THEN "between" ELSE "none"
  /\ owner = IF ticked THEN "up" ELSE "new"
  /\ call = [c \in Callers |-> "idle"]
  /\ m_loop = FALSE /\ m_tid = ticked
  /\ m_quit = FALSE /\ m_callingPendingFunctors = FALSE
  /\ m_pendingFunctors = <<>> /\ funcs = <<>> /\ active = {}
  /\ eventfd = FALSE
  /\ ran = <<>> /\ unwoken = {} /\ selfQuit = FALSE /\ quitLost = FALSE

-----------------------------------------------------------------------------
(* The helpers of the loop. *)

\* The section of queueInLoop() under m_mutex.
Push(f) == m_pendingFunctors' = Append(m_pendingFunctors, f)

\* wakeup(): a write to the eventfd makes it readable.
Wakeup == eventfd' = TRUE

\* Mutant: the loop's own thread never wakes the loop.
QueueFromLoop_NoWake(f) == Push(f) /\ UNCHANGED eventfd

\* queueInLoop() called by the loop's own thread.
QueueFromLoop(f) ==
  /\ Push(f)
  /\ IF m_callingPendingFunctors THEN Wakeup ELSE UNCHANGED eventfd

\* quit() called by the loop's own thread.
QuitFromLoop == m_quit' = TRUE /\ selfQuit' = TRUE

\* What code called by the loop's thread may do to the loop: nothing,
\* queueInLoop(), runInLoop() or quit().
UserCode(followed) ==
  \/ UNCHANGED <<m_pendingFunctors, eventfd, m_quit, history>>
  \/ \E f \in Fresh :
       /\ QueueFromLoop(f)
       /\ unwoken' = IF followed THEN unwoken ELSE unwoken \cup {f}
       /\ UNCHANGED <<m_quit, ran, selfQuit, quitLost>>
  \/ \E f \in Fresh :
       /\ ran' = Append(ran, f)
       /\ UNCHANGED <<m_pendingFunctors, eventfd, m_quit, unwoken, selfQuit, quitLost>>
  \/ /\ QuitFromLoop
     /\ UNCHANGED <<m_pendingFunctors, eventfd, ran, unwoken, quitLost>>

-----------------------------------------------------------------------------
(* The loop's thread: Thread::start()'s lambda, threadFunc(), loop(). *)

ThreadBegins ==
  /\ thread = "created" /\ thread' = "init"
  /\ m_tid' = TRUE
  /\ UNCHANGED <<ticked, owner, m_loop, call, loopVars, history>>

\* threadFunc() calls m_threadInitCallback, then publishes the loop.
InitCallback ==
  /\ thread = "init"
  /\ UserCode(FALSE)
  /\ thread' = "publish"
  /\ UNCHANGED <<ticked, ownerVars, call, m_callingPendingFunctors, funcs, active>>

\* Mutant: the loop is not published before it runs.
Publish_Later ==
  /\ thread = "publish" /\ thread' = "enter"
  /\ UNCHANGED <<ticked, owner, m_loop, m_tid, call, loopVars, history>>

Publish ==
  /\ thread = "publish" /\ thread' = "enter"
  /\ m_loop' = TRUE
  /\ UNCHANGED <<ticked, owner, m_tid, call, loopVars, history>>

EnterLoop ==
  /\ thread = "enter" /\ thread' = "test"
  /\ m_quit' = FALSE
  /\ quitLost' = (quitLost \/ m_quit)
  /\ UNCHANGED <<ticked, ownerVars, call, m_callingPendingFunctors, m_pendingFunctors,
                 funcs, active, eventfd, ran, unwoken, selfQuit>>

LoopTest ==
  /\ thread = "test" /\ thread' = IF m_quit THEN "leaving" ELSE "poll"
  /\ UNCHANGED <<ticked, ownerVars, call, loopVars, history>>

\* Between two ticks the base loop's thread runs the rest of its program.
BetweenTicks ==
  /\ thread = "between"
  /\ UserCode(FALSE)
  /\ UNCHANGED <<ticked, thread, ownerVars, call, m_callingPendingFunctors, funcs, active>>

OnTick ==
  /\ thread = "between" /\ ~m_quit /\ thread' = "poll"
  /\ UNCHANGED <<ticked, ownerVars, call, loopVars, history>>

\* epoll_wait() returns with what is ready, nothing after a timeout.
PollReturns ==
  /\ thread = "poll" /\ thread' = "handling"
  /\ active' \in {a \in SUBSET {"wakeup", "io"} : "wakeup" \in a <=> eventfd}
  /\ UNCHANGED <<ticked, ownerVars, call, m_quit, m_callingPendingFunctors,
                 m_pendingFunctors, funcs, eventfd, history>>

\* EventLoop::handleRead(), the read callback of the wakeup channel.
HandleRead ==
  /\ thread = "handling" /\ "wakeup" \in active
  /\ active' = active \ {"wakeup"}
  /\ eventfd' = FALSE
  /\ UNCHANGED <<ticked, thread, ownerVars, call, m_quit, m_callingPendingFunctors,
                 m_pendingFunctors, funcs, history>>

\* The handler of a connection's channel.
HandleEvent ==
  /\ thread = "handling" /\ "io" \in active
  /\ active' = active \ {"io"}
  /\ UserCode(TRUE)
  /\ UNCHANGED <<ticked, thread, ownerVars, call, m_callingPendingFunctors, funcs>>

BeginPending ==
  /\ thread = "handling" /\ active = {} /\ thread' = "swap"
  /\ m_callingPendingFunctors' = TRUE
  /\ UNCHANGED <<ticked, ownerVars, call, m_quit, m_pendingFunctors, funcs, active,
                 eventfd, history>>

\* Mutant: the queue is copied.
Swap_Copies ==
  /\ thread = "swap" /\ thread' = "run"
  /\ funcs' = m_pendingFunctors
  /\ UNCHANGED <<ticked, ownerVars, call, m_quit, m_callingPendingFunctors,
                 m_pendingFunctors, active, eventfd, history>>

Swap ==
  /\ thread = "swap" /\ thread' = "run"
  /\ funcs' = m_pendingFunctors
  /\ m_pendingFunctors' = <<>>
  /\ UNCHANGED <<ticked, ownerVars, call, m_quit, m_callingPendingFunctors, active,
                 eventfd, history>>

BeginFunctor ==
  /\ thread = "run" /\ funcs # <<>> /\ thread' = "functor"
  /\ ran' = Append(ran, Head(funcs))
  /\ funcs' = Tail(funcs)
  /\ UNCHANGED <<ticked, ownerVars, call, m_quit, m_callingPendingFunctors,
                 m_pendingFunctors, active, eventfd, unwoken, selfQuit, quitLost>>

\* The body of the functor, and its return.
RunFunctor ==
  /\ thread = "functor" /\ thread' = "run"
  /\ UserCode(TRUE)
  /\ UNCHANGED <<ticked, ownerVars, call, m_callingPendingFunctors, funcs, active>>

EndPending ==
  /\ thread = "run" /\ funcs = <<>>
  /\ thread' = IF ticked THEN "between" ELSE "test"
  /\ m_callingPendingFunctors' = FALSE
  /\ UNCHANGED <<ticked, ownerVars, call, m_quit, m_pendingFunctors, funcs, active,
                 eventfd, history>>

\* Mutant: m_loop keeps pointing to the loop.
LeaveLoop_KeepsPointer ==
  /\ thread = "leaving" /\ thread' = "unlocking"
  /\ UNCHANGED <<ticked, ownerVars, call, loopVars, history>>

\* The end of threadFunc(): under the lock m_loop is reset; the mutex, which
\* belongs to the EventLoopThread, is released; then the loop is destroyed,
\* and the functors still queued with it.
LeaveLoop ==
  /\ thread = "leaving" /\ thread' = "unlocking"
  /\ m_loop' = FALSE
  /\ UNCHANGED <<ticked, owner, m_tid, call, loopVars, history>>

EndThread ==
  /\ thread = "unlocking" /\ thread' = "ended"
  /\ m_pendingFunctors' = <<>>
  /\ UNCHANGED <<ticked, ownerVars, call, m_quit, m_callingPendingFunctors, funcs,
                 active, eventfd, history>>

ThreadStep == \/ ThreadBegins \/ InitCallback \/ Publish \/ EnterLoop \/ LoopTest
              \/ PollReturns \/ HandleRead \/ HandleEvent \/ BeginPending \/ Swap
              \/ BeginFunctor \/ RunFunctor \/ EndPending \/ LeaveLoop \/ EndThread
              \/ OnTick

-----------------------------------------------------------------------------
(* The thread that owns the EventLoopThread. *)

OwnerGoes(from, to) ==
  /\ owner = from /\ owner' = to
  /\ UNCHANGED <<ticked, call, history>>

\* startLoop() begins: Thread::start() creates the thread ...
StartLoop ==
  /\ OwnerGoes("new", "starting")
  /\ thread' = "created"
  /\ UNCHANGED <<loopVars, m_loop, m_tid>>

\* ... and waits on its semaphore ...
ThreadStarted ==
  /\ m_tid
  /\ OwnerGoes("starting", "waiting")
  /\ UNCHANGED <<thread, loopVars, m_loop, m_tid>>

\* ... then startLoop() waits for m_loop.
StartLoopReturns ==
  /\ m_loop
  /\ OwnerGoes("waiting", "up")
  /\ UNCHANGED <<thread, loopVars, m_loop, m_tid>>

\* ~EventLoopThread() reads m_loop without the lock, and joins only a thread
\* whose loop it finds.
Destroy ==
  /\ ~ticked
  /\ \A c \in Callers : call[c] = "idle"
  /\ OwnerGoes("up", IF m_loop THEN "quitting" ELSE "gone")
  /\ UNCHANGED <<thread, loopVars, m_loop, m_tid>>

\* quit() called by another thread than the loop's.
Quit ==
  /\ OwnerGoes("quitting", "waking")
  /\ m_quit' = TRUE
  /\ UNCHANGED <<thread, m_callingPendingFunctors, m_pendingFunctors, funcs, active,
                 eventfd, m_loop, m_tid>>

QuitWakes ==
  /\ OwnerGoes("waking", "joining")
  /\ Wakeup
  /\ UNCHANGED <<thread, m_quit, m_callingPendingFunctors, m_pendingFunctors, funcs,
                 active, m_loop, m_tid>>

\* Mutant: the thread is not waited for.
Join_AtOnce ==
  /\ OwnerGoes("joining", "gone")
  /\ UNCHANGED <<thread, loopVars, m_loop, m_tid>>

Join ==
  /\ thread = "ended"
  /\ OwnerGoes("joining", "gone")
  /\ UNCHANGED <<thread, loopVars, m_loop, m_tid>>

OwnerStep == \/ ThreadStarted \/ StartLoopReturns \/ Quit \/ QuitWakes \/ Join

-----------------------------------------------------------------------------
(* A thread that got the loop from startLoop() and hands it a functor:     *)
(* runInLoop() by another thread is queueInLoop(). *)

RunInLoop(c) ==
  /\ call[c] = "idle" /\ owner = "up" /\ LoopExists
  /\ \E f \in Fresh : Push(f)
  /\ call' = [call EXCEPT ![c] = "wakeup"]
  /\ UNCHANGED <<ticked, thread, ownerVars, m_quit, m_callingPendingFunctors, funcs,
                 active, eventfd, history>>

CallerWakes(c) ==
  /\ call[c] = "wakeup"
  /\ Wakeup
  /\ call' = [call EXCEPT ![c] = "idle"]
  /\ UNCHANGED <<ticked, thread, ownerVars, m_quit, m_callingPendingFunctors,
                 m_pendingFunctors, funcs, active, history>>

-----------------------------------------------------------------------------
Next == \/ ThreadStep \/ BetweenTicks \/ OwnerStep \/ StartLoop \/ Destroy
        \/ \E c \in Callers : RunInLoop(c) \/ CallerWakes(c)

\* The threads are scheduled, a poll times out, the code that the loop calls
\* returns; nobody has to start or end a loop, to hand over a functor or to
\* do anything between two ticks but to come to the next.
Fairness == /\ WF_vars(ThreadStep)
            /\ WF_vars(OwnerStep)
            /\ \A c \in Callers : WF_vars(CallerWakes(c))

Spec == Init /\ [][Next]_vars /\ Fairness

-----------------------------------------------------------------------------
(* What makes the loop correct. *)

\* The values the fields of the loop, of its thread and of its users take; a
\* published m_loop points to a loop that exists.
TypeOK ==
  /\ ticked \in BOOLEAN /\ m_loop \in BOOLEAN /\ m_tid \in BOOLEAN
  /\ m_loop => LoopExists
  /\ thread \in ThreadPcs /\ owner \in OwnerPcs
  /\ call \in [Callers -> {"idle", "wakeup"}]
  /\ m_quit \in BOOLEAN /\ m_callingPendingFunctors \in BOOLEAN
  /\ eventfd \in BOOLEAN
  /\ m_pendingFunctors \in Seq(Functors) /\ funcs \in Seq(Functors)
  /\ active \subseteq {"wakeup", "io"}
  /\ ran \in Seq(Functors) /\ unwoken \subseteq Functors
  /\ selfQuit \in BOOLEAN /\ quitLost \in BOOLEAN

\* The loop does not sleep on work: while it polls, with nothing in the
\* eventfd to end the poll, every functor in the queue either belongs to a
\* caller who has yet to write the eventfd, or was queued by the loop's own
\* thread before the loop or between two ticks, where queueInLoop() does not
\* wake it (such a functor waits for the poll to time out).  Nor does it sleep
\* on a quit(), but for the moment until the quitting thread has written the
\* eventfd (or when loop() cleared m_quit after it was set).
SleepsOnlyWithoutWork ==
  (thread = "poll" /\ ~eventfd) =>
     /\ \/ Range(m_pendingFunctors) \subseteq unwoken
        \/ \E c \in Callers : call[c] = "wakeup"
     /\ owner = "joining" => quitLost

\* The EventLoopThread, with the mutex and the thread object in it, is
\* destroyed only after its thread is done with them, unless the loop was
\* ended from within: then the destructor may see m_loop reset and leave
\* while the thread still has the mutex.
DtorWaitsForThread ==
  owner = "gone" => (thread = "ended" \/ selfQuit)

\* startLoop() and the destructor return: the one because the loop is
\* published before it runs, the other because a quit() always ends the loop.
\* Excepted are a loop that ended itself before startLoop() saw it, and a
\* quit() so early that loop() cleared it.
OwnerReturns ==
  (owner \notin {"new", "up", "gone"}) ~>
     (owner \in {"up", "gone"} \/ selfQuit \/ quitLost)

\* The loop is a functor queue: every functor handed over runs once, in the
\* order of the queue, or is dropped: with the loop when its thread ends, or
\* by OnTick(), which does nothing once the loop was told to quit.
Stopped == thread = "ended" \/ (thread = "between" /\ m_quit)
Waiting == IF Stopped THEN <<>> ELSE funcs \o m_pendingFunctors
Queued == INSTANCE FunctorQueue WITH waiting <- Waiting, open <- ~Stopped
ImplementsFunctorQueue == Queued!FQSpec
=============================================================================
