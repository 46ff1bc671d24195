--------------------------- MODULE EventLoop_proofs ---------------------------
(***************************************************************************)
(* Proofs about EventLoop, for any number of functors and of threads that  *)
(* hand them over: the loop does not sleep on work, and the destructor     *)
(* waits for the thread, and the loop is a FunctorQueue.  All rest on what *)
(* holds wherever the threads are, above all that a functor in the queue   *)
(* is followed by a wakeup unless the swap that takes it is still to come. *)
(***************************************************************************)
EXTENDS EventLoop, TLAPS

\* Where the loop's thread may be while m_loop points to the loop, and before.
InLoop == {"enter", "test", "poll", "handling", "swap", "run", "functor", "leaving"}
Before == {"none", "created", "init", "publish"}
After  == {"leaving", "unlocking", "ended"}

\* The fields that tell where the threads are.
Places ==
  /\ m_loop <=> ~ticked /\ thread \in InLoop
  /\ m_callingPendingFunctors <=> thread \in {"swap", "run", "functor"}
  /\ owner = "new" => thread = "none"
  /\ ticked => owner = "up" /\ thread \notin Before \cup After \cup {"enter", "test"}
  /\ thread = "between" => ticked
  /\ thread \notin {"run", "functor"} => funcs = <<>>
  /\ owner \in {"up", "quitting", "waking", "joining"} => thread \notin Before

\* A functor in the queue is about to be swapped out, or somebody has woken or
\* will wake the poll, or it is one of those that nobody need wake.
Awake ==
  thread \notin {"handling", "swap"} =>
     \/ Range(m_pendingFunctors) \subseteq unwoken
     \/ eventfd
     \/ \E c \in Callers : call[c] = "wakeup"

\* The loop quits because of itself or of its owner, and a quit() of the owner
\* stays until loop() clears it; it finds the poll awake.
QuitSeen ==
  /\ m_quit \/ thread \in After => selfQuit \/ owner \in {"waking", "joining", "gone"}
  /\ owner \in {"waking", "joining"} => m_quit \/ quitLost
  /\ owner = "joining" /\ thread = "poll" => eventfd \/ quitLost
  /\ owner = "gone" => thread = "ended" \/ selfQuit

LoopInv == TypeOK /\ Places /\ Awake /\ QuitSeen

LEMMA RangeAppend ==
  ASSUME NEW S, NEW s \in Seq(S), NEW e \in S
  PROVE  Range(Append(s, e)) = Range(s) \cup {e}
<1>1. Range(Append(s, e)) \subseteq Range(s) \cup {e}
  BY DEF Range
<1>2. ASSUME NEW i \in DOMAIN s
      PROVE  i \in DOMAIN Append(s, e) /\ Append(s, e)[i] = s[i]
  OBVIOUS
<1>3. Len(s) + 1 \in DOMAIN Append(s, e) /\ Append(s, e)[Len(s) + 1] = e
  OBVIOUS
<1> QED
  BY <1>1, <1>2, <1>3 DEF Range

LEMMA FreshIsFunctor == Fresh \subseteq Functors
  BY DEF Fresh

\* What the code that the loop's thread calls does to the loop's flags.
LEMMA UserCodeFlags ==
  ASSUME TypeOK, NEW followed \in BOOLEAN, UserCode(followed)
  PROVE  /\ m_pendingFunctors' \in Seq(Functors) /\ ran' \in Seq(Functors)
         /\ unwoken' \subseteq Functors
         /\ eventfd' \in BOOLEAN /\ m_quit' \in BOOLEAN
         /\ selfQuit' \in BOOLEAN /\ quitLost' = quitLost
         /\ eventfd => eventfd'
         /\ m_quit' => m_quit \/ selfQuit'
         /\ m_quit => m_quit'
         /\ selfQuit => selfQuit'
<1> USE FreshIsFunctor DEF TypeOK, UserCode, history, QueueFromLoop, QuitFromLoop, Push, Wakeup
<1>1. CASE UNCHANGED <<m_pendingFunctors, eventfd, m_quit, history>>
  BY <1>1
<1>2. CASE \E f \in Fresh :
             /\ QueueFromLoop(f)
             /\ unwoken' = IF followed THEN unwoken ELSE unwoken \cup {f}
             /\ UNCHANGED <<m_quit, ran, selfQuit, quitLost>>
  <2>1. PICK f \in Fresh : /\ QueueFromLoop(f)
                           /\ unwoken' = IF followed THEN unwoken ELSE unwoken \cup {f}
                           /\ UNCHANGED <<m_quit, ran, selfQuit, quitLost>>
    BY <1>2
  <2>2. unwoken' \subseteq Functors
    BY <2>1
  <2>3. eventfd' \in BOOLEAN /\ (eventfd => eventfd')
    BY <2>1
  <2> QED
    BY <2>1, <2>2, <2>3
<1>3. CASE \E f \in Fresh :
             /\ ran' = Append(ran, f)
             /\ UNCHANGED <<m_pendingFunctors, eventfd, m_quit, unwoken, selfQuit, quitLost>>
  BY <1>3
<1>4. CASE /\ QuitFromLoop
           /\ UNCHANGED <<m_pendingFunctors, eventfd, ran, unwoken, quitLost>>
  BY <1>4
<1> QED
  BY <1>1, <1>2, <1>3, <1>4

\* It wakes the loop for what it queues while pending functors are called, and
\* where nothing follows counts as unwoken.
LEMMA UserCodeWakes ==
  ASSUME TypeOK, NEW followed \in BOOLEAN, UserCode(followed),
         m_callingPendingFunctors \/ ~followed,
         Range(m_pendingFunctors) \subseteq unwoken
  PROVE  eventfd' \/ Range(m_pendingFunctors') \subseteq unwoken'
<1>1. CASE UNCHANGED <<m_pendingFunctors, unwoken>>
  BY <1>1
<1>2. ASSUME NEW f \in Fresh, QueueFromLoop(f),
             unwoken' = IF followed THEN unwoken ELSE unwoken \cup {f}
      PROVE  eventfd' \/ Range(m_pendingFunctors') \subseteq unwoken'
  <2>1. CASE m_callingPendingFunctors
    BY <1>2, <2>1 DEF QueueFromLoop, Wakeup
  <2>2. CASE ~followed
    <3>1. Range(m_pendingFunctors') = Range(m_pendingFunctors) \cup {f}
      BY <1>2, RangeAppend, FreshIsFunctor DEF QueueFromLoop, Push, TypeOK
    <3> QED
      BY <1>2, <2>2, <3>1
  <2> QED
    BY <2>1, <2>2
<1> QED
  BY <1>1, <1>2 DEF UserCode, history

-----------------------------------------------------------------------------
LEMMA InitEstablishesLoopInv == Init => LoopInv
<1> SUFFICES ASSUME Init
             PROVE  LoopInv
  OBVIOUS
<1> USE DEF Init
<1>1. TypeOK
  <2>1. ticked \in BOOLEAN
    BY ModesAssumption
  <2>2. thread \in {"none", "between"} /\ owner \in {"new", "up"}
    OBVIOUS
  <2>3. m_loop \in BOOLEAN /\ m_tid \in BOOLEAN /\ m_quit \in BOOLEAN
        /\ m_callingPendingFunctors \in BOOLEAN /\ eventfd \in BOOLEAN
        /\ selfQuit \in BOOLEAN /\ quitLost \in BOOLEAN
    BY <2>1
  <2>4. m_pendingFunctors \in Seq(Functors) /\ funcs \in Seq(Functors) /\ ran \in Seq(Functors)
    OBVIOUS
  <2> QED
    BY <2>1, <2>2, <2>3, <2>4 DEF TypeOK, ThreadPcs, OwnerPcs
<1>2. Places
  BY DEF Places, InLoop, Before, After
<1>3. Awake
  BY DEF Awake, Range
<1>4. QuitSeen
  BY DEF QuitSeen, After
<1> QED
  BY <1>1, <1>2, <1>3, <1>4 DEF LoopInv

LEMMA ThreadKeepsTypes ==
  ASSUME LoopInv, ThreadStep \/ BetweenTicks
  PROVE  TypeOK'
<1> USE DEF LoopInv, TypeOK, Places, ThreadPcs, LoopExists, InLoop, loopVars, ownerVars, history
<1>1. CASE ThreadBegins
  BY <1>1 DEF ThreadBegins
<1>2. CASE Publish
  BY <1>2 DEF Publish
<1>3. CASE EnterLoop
  BY <1>3 DEF EnterLoop
<1>4. CASE LoopTest
  BY <1>4 DEF LoopTest
<1>5. CASE OnTick
  BY <1>5 DEF OnTick
<1>6. CASE BeginPending
  BY <1>6 DEF BeginPending
<1>7. CASE PollReturns
  BY <1>7 DEF PollReturns
<1>8. CASE HandleRead
  BY <1>8 DEF HandleRead
<1>9. CASE Swap
  BY <1>9 DEF Swap
<1>10. CASE BeginFunctor
  BY <1>10 DEF BeginFunctor
<1>11. CASE EndPending
  BY <1>11 DEF EndPending
<1>12. CASE LeaveLoop
  BY <1>12 DEF LeaveLoop
<1>13. CASE EndThread
  BY <1>13 DEF EndThread
<1>14. CASE InitCallback
  BY <1>14, UserCodeFlags DEF InitCallback
<1>15. CASE BetweenTicks
  BY <1>15, UserCodeFlags DEF BetweenTicks
<1>16. CASE HandleEvent
  BY <1>16, UserCodeFlags DEF HandleEvent
<1>17. CASE RunFunctor
  BY <1>17, UserCodeFlags DEF RunFunctor
<1> QED
  BY <1>1, <1>2, <1>3, <1>4, <1>5, <1>6, <1>7, <1>8, <1>9,
     <1>10, <1>11, <1>12, <1>13, <1>14, <1>15, <1>16, <1>17 DEF ThreadStep

LEMMA OthersKeepTypes ==
  ASSUME LoopInv, \/ OwnerStep \/ StartLoop \/ Destroy
                  \/ \E c \in Callers : RunInLoop(c) \/ CallerWakes(c)
  PROVE  TypeOK'
<1> USE FreshIsFunctor
        DEF LoopInv, TypeOK, Places, ThreadPcs, OwnerPcs, LoopExists, InLoop,
            loopVars, ownerVars, history, OwnerGoes, Wakeup, Push
<1>1. CASE ThreadStarted
  BY <1>1 DEF ThreadStarted
<1>2. CASE StartLoopReturns
  BY <1>2 DEF StartLoopReturns
<1>3. CASE Quit
  BY <1>3 DEF Quit
<1>4. CASE QuitWakes
  BY <1>4 DEF QuitWakes
<1>5. CASE Join
  BY <1>5 DEF Join
<1>6. CASE StartLoop
  BY <1>6 DEF StartLoop
<1>7. CASE Destroy
  BY <1>7 DEF Destroy
<1>8. CASE \E c \in Callers : RunInLoop(c)
  BY <1>8 DEF RunInLoop
<1>9. CASE \E c \in Callers : CallerWakes(c)
  BY <1>9 DEF CallerWakes
<1> QED
  BY <1>1, <1>2, <1>3, <1>4, <1>5, <1>6, <1>7, <1>8, <1>9 DEF OwnerStep

-----------------------------------------------------------------------------
LEMMA ThreadKeepsPlaces ==
  ASSUME LoopInv, ThreadStep \/ BetweenTicks
  PROVE  Places'
<1> USE DEF LoopInv, Places, InLoop, Before, After, loopVars, ownerVars, history
<1>1. CASE ThreadBegins
  BY <1>1 DEF ThreadBegins
<1>2. CASE InitCallback
  BY <1>2 DEF InitCallback
<1>3. CASE Publish
  BY <1>3 DEF Publish
<1>4. CASE EnterLoop
  BY <1>4 DEF EnterLoop
<1>5. CASE LoopTest
  BY <1>5 DEF LoopTest
<1>6. CASE OnTick
  BY <1>6 DEF OnTick
<1>7. CASE BetweenTicks
  BY <1>7 DEF BetweenTicks
<1>8. CASE PollReturns
  BY <1>8 DEF PollReturns
<1>9. CASE HandleRead
  BY <1>9 DEF HandleRead
<1>10. CASE HandleEvent
  BY <1>10 DEF HandleEvent
<1>11. CASE BeginPending
  BY <1>11 DEF BeginPending
<1>12. CASE Swap
  BY <1>12 DEF Swap
<1>13. CASE BeginFunctor
  BY <1>13 DEF BeginFunctor
<1>14. CASE RunFunctor
  BY <1>14 DEF RunFunctor
<1>15. CASE EndPending
  BY <1>15 DEF EndPending
<1>16. CASE LeaveLoop
  BY <1>16 DEF LeaveLoop
<1>17. CASE EndThread
  BY <1>17 DEF EndThread
<1> QED
  BY <1>1, <1>2, <1>3, <1>4, <1>5, <1>6, <1>7, <1>8, <1>9,
     <1>10, <1>11, <1>12, <1>13, <1>14, <1>15, <1>16, <1>17 DEF ThreadStep

LEMMA OthersKeepPlaces ==
  ASSUME LoopInv, \/ OwnerStep \/ StartLoop \/ Destroy
                  \/ \E c \in Callers : RunInLoop(c) \/ CallerWakes(c)
  PROVE  Places'
<1> USE DEF LoopInv, Places, InLoop, Before, After, loopVars, ownerVars, history, OwnerGoes
<1>1. CASE OwnerStep
  BY <1>1 DEF OwnerStep, ThreadStarted, StartLoopReturns, Quit, QuitWakes, Join
<1>2. CASE StartLoop \/ Destroy
  BY <1>2 DEF StartLoop, Destroy
<1>3. CASE \E c \in Callers : RunInLoop(c) \/ CallerWakes(c)
  BY <1>3 DEF RunInLoop, CallerWakes
<1> QED
  BY <1>1, <1>2, <1>3

-----------------------------------------------------------------------------
LEMMA ThreadKeepsAwake ==
  ASSUME LoopInv, ThreadStep \/ BetweenTicks
  PROVE  Awake'
<1> USE DEF LoopInv, Awake, loopVars, ownerVars, history
<1>1. CASE ThreadBegins \/ Publish \/ EnterLoop \/ LoopTest \/ OnTick \/ BeginFunctor
             \/ EndPending \/ LeaveLoop
  BY <1>1 DEF ThreadBegins, Publish, EnterLoop, LoopTest, OnTick, BeginFunctor, EndPending, LeaveLoop
<1>2. CASE PollReturns \/ HandleRead \/ HandleEvent \/ BeginPending
  BY <1>2 DEF PollReturns, HandleRead, HandleEvent, BeginPending
<1>3. CASE Swap \/ EndThread
  <2>1. m_pendingFunctors' = <<>> /\ Range(<<>>) = {}
    BY <1>3 DEF Swap, EndThread, Range
  <2> QED
    BY <2>1
<1>4. CASE InitCallback
  BY <1>4, UserCodeFlags, UserCodeWakes DEF InitCallback
<1>5. CASE BetweenTicks
  BY <1>5, UserCodeFlags, UserCodeWakes DEF BetweenTicks
<1>6. CASE RunFunctor
  BY <1>6, UserCodeFlags, UserCodeWakes DEF RunFunctor, Places
<1> QED
  BY <1>1, <1>2, <1>3, <1>4, <1>5, <1>6 DEF ThreadStep

LEMMA OthersKeepAwake ==
  ASSUME LoopInv, \/ OwnerStep \/ StartLoop \/ Destroy
                  \/ \E c \in Callers : RunInLoop(c) \/ CallerWakes(c)
  PROVE  Awake'
<1> USE DEF LoopInv, TypeOK, Awake, loopVars, ownerVars, history, OwnerGoes
<1>1. CASE OwnerStep
  BY <1>1 DEF OwnerStep, ThreadStarted, StartLoopReturns, Quit, QuitWakes, Join, Wakeup
<1>2. CASE StartLoop \/ Destroy
  BY <1>2 DEF StartLoop, Destroy, Places
<1>3. CASE \E c \in Callers : RunInLoop(c) \/ CallerWakes(c)
  BY <1>3 DEF RunInLoop, CallerWakes, Wakeup
<1> QED
  BY <1>1, <1>2, <1>3

-----------------------------------------------------------------------------
LEMMA ThreadKeepsQuitSeen ==
  ASSUME LoopInv, ThreadStep \/ BetweenTicks
  PROVE  QuitSeen'
<1> USE DEF LoopInv, QuitSeen, After, loopVars, ownerVars, history
<1>1. CASE ThreadBegins \/ Publish \/ LoopTest \/ OnTick \/ LeaveLoop \/ EndThread
  BY <1>1 DEF ThreadBegins, Publish, LoopTest, OnTick, LeaveLoop, EndThread, Places
<1>2. CASE EnterLoop
  BY <1>2 DEF EnterLoop
<1>3. CASE PollReturns \/ HandleRead \/ BeginPending \/ Swap \/ BeginFunctor \/ EndPending
  BY <1>3 DEF PollReturns, HandleRead, BeginPending, Swap, BeginFunctor, EndPending, Places
<1>4. CASE InitCallback
  BY <1>4, UserCodeFlags DEF InitCallback
<1>5. CASE BetweenTicks
  BY <1>5, UserCodeFlags DEF BetweenTicks
<1>6. CASE HandleEvent
  BY <1>6, UserCodeFlags DEF HandleEvent
<1>7. CASE RunFunctor
  BY <1>7, UserCodeFlags DEF RunFunctor
<1> QED
  BY <1>1, <1>2, <1>3, <1>4, <1>5, <1>6, <1>7 DEF ThreadStep

LEMMA OthersKeepQuitSeen ==
  ASSUME LoopInv, \/ OwnerStep \/ StartLoop \/ Destroy
                  \/ \E c \in Callers : RunInLoop(c) \/ CallerWakes(c)
  PROVE  QuitSeen'
<1> USE DEF LoopInv, QuitSeen, After, loopVars, ownerVars, history, OwnerGoes, Wakeup
<1>1. CASE OwnerStep
  BY <1>1 DEF OwnerStep, ThreadStarted, StartLoopReturns, Quit, QuitWakes, Join
<1>2. CASE StartLoop \/ Destroy
  BY <1>2 DEF StartLoop, Destroy, Places, InLoop, Before, TypeOK, ThreadPcs
<1>3. CASE \E c \in Callers : RunInLoop(c) \/ CallerWakes(c)
  BY <1>3 DEF RunInLoop, CallerWakes
<1> QED
  BY <1>1, <1>2, <1>3

-----------------------------------------------------------------------------
LEMMA StepKeepsLoopInv == LoopInv /\ [Next]_vars => LoopInv'
<1> SUFFICES ASSUME LoopInv, [Next]_vars
             PROVE  LoopInv'
  OBVIOUS
<1>1. CASE ThreadStep \/ BetweenTicks
  BY <1>1, ThreadKeepsTypes, ThreadKeepsPlaces, ThreadKeepsAwake, ThreadKeepsQuitSeen DEF LoopInv
<1>2. CASE \/ OwnerStep \/ StartLoop \/ Destroy
           \/ \E c \in Callers : RunInLoop(c) \/ CallerWakes(c)
  BY <1>2, OthersKeepTypes, OthersKeepPlaces, OthersKeepAwake, OthersKeepQuitSeen DEF LoopInv
<1>3. CASE UNCHANGED vars
  BY <1>3 DEF vars, loopVars, ownerVars, history, LoopInv, TypeOK, LoopExists, Places, Awake, QuitSeen
<1> QED
  BY <1>1, <1>2, <1>3 DEF Next

LEMMA LoopInvHolds == Spec => []LoopInv
  BY InitEstablishesLoopInv, StepKeepsLoopInv, PTL DEF Spec

\* The fields keep their types, and a published m_loop points to a live loop.
THEOREM LoopTypes == Spec => []TypeOK
<1>1. LoopInv => TypeOK
  BY DEF LoopInv
<1> QED
  BY <1>1, LoopInvHolds, PTL

\* Whatever queues and whoever wakes, the loop never sleeps on work or on a
\* quit() that loop() has not cleared.
THEOREM LoopIsAwake == Spec => []SleepsOnlyWithoutWork
<1>1. LoopInv => SleepsOnlyWithoutWork
  BY DEF LoopInv, Awake, QuitSeen, SleepsOnlyWithoutWork
<1> QED
  BY <1>1, LoopInvHolds, PTL

\* The destructor of EventLoopThread leaves no running thread behind, unless
\* the loop was ended from within.
THEOREM DtorWaits == Spec => []DtorWaitsForThread
<1>1. LoopInv => DtorWaitsForThread
  BY DEF LoopInv, QuitSeen, DtorWaitsForThread
<1> QED
  BY <1>1, LoopInvHolds, PTL

-----------------------------------------------------------------------------
(* The loop implements FunctorQueue, as far as safety goes. *)

LEMMA ConcatAppend ==
  ASSUME NEW S, NEW s \in Seq(S), NEW t \in Seq(S), NEW e \in S
  PROVE  s \o Append(t, e) = Append(s \o t, e)
  OBVIOUS

LEMMA ConcatTail ==
  ASSUME NEW S, NEW s \in Seq(S), NEW t \in Seq(S), s # <<>>
  PROVE  /\ s \o t # <<>>
         /\ Head(s \o t) = Head(s)
         /\ Tail(s \o t) = Tail(s) \o t
<1>1. s \o t # <<>>
  OBVIOUS
<1>2. Head(s \o t) = Head(s)
  OBVIOUS
<1>3. Tail(s \o t) = Tail(s) \o t
  OBVIOUS
<1> QED
  BY <1>1, <1>2, <1>3

LEMMA ConcatEmpty ==
  ASSUME NEW S, NEW s \in Seq(S)
  PROVE  s \o <<>> = s /\ <<>> \o s = s
  OBVIOUS

\* A functor put into m_pendingFunctors is queued, if the loop still runs.
LEMMA PushQueues ==
  ASSUME LoopInv, NEW f \in Functors, Push(f), UNCHANGED <<funcs, ran>>, Stopped' = Stopped
  PROVE  [Queued!FQNext]_(Queued!fqVars)
<1>1. funcs \o m_pendingFunctors' = Append(funcs \o m_pendingFunctors, f)
  BY ConcatAppend DEF Push, LoopInv, TypeOK
<1>2. CASE Stopped
  BY <1>2 DEF Waiting, Queued!fqVars
<1>3. CASE ~Stopped
  BY <1>1, <1>3 DEF Waiting, Queued!FQNext, Queued!Queue
<1> QED
  BY <1>2, <1>3

\* The code that the loop's thread calls queues, runs one at once or stops.
LEMMA UserCodeQueues ==
  ASSUME LoopInv, NEW followed \in BOOLEAN, UserCode(followed), UNCHANGED funcs,
         \/ thread = "between" /\ UNCHANGED thread
         \/ thread # "between" /\ thread' \notin {"between", "ended"} /\ thread # "ended"
  PROVE  [Queued!FQNext]_(Queued!fqVars)
<1>1. CASE UNCHANGED <<m_pendingFunctors, eventfd, m_quit, history>>
  BY <1>1 DEF history, Stopped, Waiting, Queued!fqVars
<1>2. CASE \E f \in Fresh :
             /\ QueueFromLoop(f)
             /\ unwoken' = IF followed THEN unwoken ELSE unwoken \cup {f}
             /\ UNCHANGED <<m_quit, ran, selfQuit, quitLost>>
  <2>1. Stopped' = Stopped
    BY <1>2 DEF Stopped
  <2> QED
    BY <1>2, <2>1, PushQueues, FreshIsFunctor DEF QueueFromLoop
<1>3. CASE \E f \in Fresh :
             /\ ran' = Append(ran, f)
             /\ UNCHANGED <<m_pendingFunctors, eventfd, m_quit, unwoken, selfQuit, quitLost>>
  BY <1>3, FreshIsFunctor DEF Stopped, Waiting, Queued!FQNext, Queued!RunNow
<1>4. CASE /\ QuitFromLoop
           /\ UNCHANGED <<m_pendingFunctors, eventfd, ran, unwoken, quitLost>>
  BY <1>4 DEF QuitFromLoop, Stopped, Waiting, Queued!FQNext, Queued!Close, Queued!fqVars
<1> QED
  BY <1>1, <1>2, <1>3, <1>4 DEF UserCode

\* Steps that neither move functors nor stop the loop.
LEMMA NothingMoves ==
  ASSUME UNCHANGED <<funcs, m_pendingFunctors, ran>>, Stopped' = Stopped
  PROVE  [Queued!FQNext]_(Queued!fqVars)
  BY DEF Waiting, Queued!fqVars

LEMMA ThreadQueues ==
  ASSUME LoopInv, ThreadStep \/ BetweenTicks
  PROVE  [Queued!FQNext]_(Queued!fqVars)
<1> USE DEF loopVars, ownerVars, history
<1>1. CASE ThreadBegins \/ Publish \/ EnterLoop \/ LoopTest \/ OnTick \/ LeaveLoop
  <2>1. Stopped' = Stopped
    BY <1>1 DEF Stopped, ThreadBegins, Publish, EnterLoop, LoopTest, OnTick, LeaveLoop
  <2> QED
    BY <1>1, <2>1, NothingMoves DEF ThreadBegins, Publish, EnterLoop, LoopTest, OnTick, LeaveLoop
<1>2. CASE PollReturns \/ HandleRead \/ BeginPending
  <2>1. Stopped' = Stopped
    BY <1>2 DEF Stopped, PollReturns, HandleRead, BeginPending
  <2> QED
    BY <1>2, <2>1, NothingMoves DEF PollReturns, HandleRead, BeginPending
<1>3. CASE InitCallback \/ BetweenTicks \/ HandleEvent \/ RunFunctor
  BY <1>3, UserCodeQueues DEF InitCallback, BetweenTicks, HandleEvent, RunFunctor
<1>4. CASE Swap
  <2>1. funcs = <<>> /\ m_pendingFunctors \in Seq(Functors)
    BY <1>4 DEF Swap, LoopInv, Places, TypeOK
  <2>2. funcs' \o m_pendingFunctors' = funcs \o m_pendingFunctors
    BY <1>4, <2>1, ConcatEmpty DEF Swap
  <2> QED
    BY <1>4, <2>2 DEF Swap, Stopped, Waiting, Queued!fqVars
<1>5. CASE BeginFunctor
  <2>1. /\ funcs \in Seq(Functors) /\ m_pendingFunctors \in Seq(Functors)
        /\ funcs # <<>> /\ ran' = Append(ran, Head(funcs)) /\ funcs' = Tail(funcs)
        /\ UNCHANGED m_pendingFunctors
    BY <1>5 DEF BeginFunctor, LoopInv, TypeOK
  <2>2. ~Stopped /\ ~Stopped'
    BY <1>5 DEF BeginFunctor, Stopped
  <2> QED
    BY <2>1, <2>2, ConcatTail DEF Waiting, Queued!FQNext, Queued!RunNext
<1>6. CASE EndPending
  <2>1. ~Stopped /\ funcs = <<>> /\ UNCHANGED <<funcs, m_pendingFunctors, ran>>
    BY <1>6 DEF EndPending, Stopped
  <2>2. CASE Stopped'
    BY <2>1, <2>2 DEF Waiting, Queued!FQNext, Queued!Close
  <2>3. CASE ~Stopped'
    <3>1. Stopped' = Stopped
      BY <2>1, <2>3 DEF Stopped
    <3> QED
      BY <2>1, <3>1, NothingMoves
  <2> QED
    BY <2>2, <2>3
<1>7. CASE EndThread
  <2>1. ~Stopped /\ Stopped' /\ UNCHANGED ran
    BY <1>7 DEF EndThread, Stopped
  <2> QED
    BY <2>1 DEF Waiting, Queued!FQNext, Queued!Close
<1> QED
  BY <1>1, <1>2, <1>3, <1>4, <1>5, <1>6, <1>7 DEF ThreadStep

LEMMA OthersQueue ==
  ASSUME LoopInv, \/ OwnerStep \/ StartLoop \/ Destroy
                  \/ \E c \in Callers : RunInLoop(c) \/ CallerWakes(c)
  PROVE  [Queued!FQNext]_(Queued!fqVars)
<1> USE DEF loopVars, ownerVars, history, OwnerGoes
<1>1. CASE OwnerStep
  <2>1. Stopped' = Stopped
    BY <1>1 DEF Stopped, OwnerStep, ThreadStarted, StartLoopReturns, Quit, QuitWakes, Join,
                LoopInv, Places
  <2> QED
    BY <1>1, <2>1, NothingMoves
       DEF OwnerStep, ThreadStarted, StartLoopReturns, Quit, QuitWakes, Join
<1>2. CASE StartLoop \/ Destroy
  <2>1. Stopped' = Stopped
    BY <1>2 DEF Stopped, StartLoop, Destroy, LoopInv, Places
  <2> QED
    BY <1>2, <2>1, NothingMoves DEF StartLoop, Destroy
<1>3. CASE \E c \in Callers : RunInLoop(c)
  BY <1>3, PushQueues, FreshIsFunctor DEF RunInLoop, Stopped
<1>4. CASE \E c \in Callers : CallerWakes(c)
  BY <1>4, NothingMoves DEF CallerWakes, Stopped
<1> QED
  BY <1>1, <1>2, <1>3, <1>4

\* Whoever queues, whatever functors queue in their turn, and however the loop
\* ends, functors begin in the order of the queue and each once.
THEOREM LoopIsFunctorQueue ==
  Spec => Queued!FQInit /\ [][Queued!FQNext]_(Queued!fqVars)
<1>1. Init => Queued!FQInit
  BY DEF Init, Queued!FQInit, Waiting, Stopped
<1>2. LoopInv /\ [Next]_vars => [Queued!FQNext]_(Queued!fqVars)
  <2> SUFFICES ASSUME LoopInv, [Next]_vars
               PROVE  [Queued!FQNext]_(Queued!fqVars)
    OBVIOUS
  <2>1. CASE UNCHANGED vars
    <3>1. UNCHANGED <<funcs, m_pendingFunctors, ran, thread, m_quit>>
      BY <2>1 DEF vars, loopVars, history
    <3> QED
      BY <3>1, NothingMoves DEF Stopped
  <2> QED
    BY <2>1, ThreadQueues, OthersQueue DEF Next
<1> QED
  BY <1>1, <1>2, LoopInvHolds, PTL DEF Spec
=============================================================================
