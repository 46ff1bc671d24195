---------------------- MODULE CoroutineScheduler_proofs ----------------------
(***************************************************************************)
(* The invariants of CoroutineScheduler and its refinement of              *)
(* AsymmetricCoroutines, for every set of coroutine ids.                   *)
(***************************************************************************)
EXTENDS CoroutineScheduler, TLAPS

\* What the invariants need besides themselves: the running work routine is in
\* the map (so that its id is not given out again and its exit finds it).
RunningIsMapped == cpu # Main => cpu \in coroutines

\* ... and an id outside the map belongs to no live or dead routine.
RegisteredIffInited == \A c \in CoId : c \in coroutines <=> state[c] # "UNINIT"

IInv == /\ TypeOK
        /\ BooksMatchCpu
        /\ ContextsResumable
        /\ RunningIsMapped
        /\ RegisteredIffInited

\* The scheduler starts with its books right: main alone exists and runs.
LEMMA InitEstablishesIInv == Init => IInv
  BY RoutineAssumption
     DEF Init, CreateMainRountine, IInv, TypeOK, BooksMatchCpu, ContextsResumable, RunningIsMapped,
         RegisteredIffInited, Routine, State, Resumable

\* Creating a routine needs an id that is not in the map: it is not running.
LEMMA CreateKeepsIInv ==
  ASSUME IInv, NEW c \in CoId, CreateWorkRoutine(c)
  PROVE  IInv'
<1> USE RoutineAssumption
        DEF CreateWorkRoutine, CreateBoostCoroutine, Prepare, MakeContext, IInv, TypeOK, Routine
<1>1. c # cpu
  BY DEF RunningIsMapped
<1>2. TypeOK'
  BY DEF State
<1>3. BooksMatchCpu'
  BY <1>1 DEF BooksMatchCpu
<1>4. ContextsResumable'
  BY DEF ContextsResumable, Resumable
<1>5. RunningIsMapped'
  BY DEF RunningIsMapped
<1>6. RegisteredIffInited'
  BY DEF RegisteredIffInited
<1> QED
  BY <1>2, <1>3, <1>4, <1>5, <1>6

\* Destroying a routine that does not execute leaves the books right.
LEMMA DestroyKeepsIInv ==
  ASSUME IInv, NEW c \in CoId, c # cpu, DestroyWorkRoutine(c)
  PROVE  IInv'
<1> USE RoutineAssumption DEF DestroyWorkRoutine, Destroy, IInv, TypeOK, Routine
<1>1. TypeOK'
  BY DEF State
<1>2. BooksMatchCpu'
  BY DEF BooksMatchCpu
<1>3. ContextsResumable'
  BY DEF ContextsResumable, Resumable
<1>4. RunningIsMapped'
  BY DEF RunningIsMapped
<1>5. RegisteredIffInited'
  BY DEF RegisteredIffInited
<1> QED
  BY <1>1, <1>2, <1>3, <1>4, <1>5

\* A swap to a work routine continues its own context and leaves main resumable.
LEMMA SwapToWorkKeepsIInv ==
  ASSUME IInv, NEW c \in CoId, SwapToWorkRoutine(c)
  PROVE  IInv'
<1> USE RoutineAssumption
        DEF SwapToWorkRoutine, CanSwapToWorkRoutine, ResumeRoutine, JumpContext,
            IInv, TypeOK, Routine
<1>1. cpu = Main /\ c # Main /\ context[c] = c /\ cpu' = c
  BY DEF BooksMatchCpu, ContextsResumable
<1>2. TypeOK'
  BY <1>1 DEF State
<1>3. BooksMatchCpu'
  BY <1>1 DEF BooksMatchCpu
<1>4. ContextsResumable'
  BY <1>1 DEF ContextsResumable, Resumable
<1>5. RunningIsMapped'
  BY <1>1 DEF RunningIsMapped
<1>6. RegisteredIffInited'
  BY <1>1 DEF RegisteredIffInited
<1> QED
  BY <1>2, <1>3, <1>4, <1>5, <1>6

\* A swap to main continues main and leaves the work routine resumable.
LEMMA SwapToMainKeepsIInv ==
  ASSUME IInv, SwapToMain
  PROVE  IInv'
<1> USE RoutineAssumption
        DEF SwapToMain, ResumeRoutine, JumpContext, IInv, TypeOK, Routine
<1>1. cpu = curr /\ curr \in CoId /\ context[Main] = Main /\ cpu' = Main
  BY DEF BooksMatchCpu, ContextsResumable
<1>2. TypeOK'
  BY <1>1 DEF State
<1>3. BooksMatchCpu'
  BY <1>1 DEF BooksMatchCpu
<1>4. ContextsResumable'
  BY <1>1 DEF ContextsResumable, Resumable
<1>5. RunningIsMapped'
  BY <1>1 DEF RunningIsMapped
<1>6. RegisteredIffInited'
  BY <1>1 DEF RegisteredIffInited
<1> QED
  BY <1>2, <1>3, <1>4, <1>5, <1>6

\* The exit of a work routine closes its books and continues main.
LEMMA ExitKeepsIInv ==
  ASSUME IInv, WorkRoutineExit
  PROVE  IInv'
<1> USE RoutineAssumption
        DEF WorkRoutineExit, OnWorkRoutineExit, IInv, TypeOK, Routine
<1>1. cpu = curr /\ curr \in coroutines /\ context[Main] = Main /\ cpu' = Main
  BY DEF BooksMatchCpu, ContextsResumable, RunningIsMapped, Resumable
<1>2. TypeOK'
  BY <1>1 DEF State
<1>3. BooksMatchCpu'
  BY <1>1 DEF BooksMatchCpu
<1>4. ContextsResumable'
  BY <1>1 DEF ContextsResumable, Resumable
<1>5. RunningIsMapped'
  BY <1>1 DEF RunningIsMapped
<1>6. RegisteredIffInited'
  BY <1>1 DEF RegisteredIffInited
<1> QED
  BY <1>2, <1>3, <1>4, <1>5, <1>6

\* Every step of the scheduler keeps the inductive invariant.
LEMMA StepKeepsIInv == IInv /\ [Next]_vars => IInv'
<1> SUFFICES ASSUME IInv, [Next]_vars
             PROVE  IInv'
  OBVIOUS
<1>1. ASSUME NEW c \in CoId, CreateWorkRoutine(c)
      PROVE  IInv'
  BY <1>1, CreateKeepsIInv
<1>2. ASSUME NEW c \in CoId, c # cpu, DestroyWorkRoutine(c)
      PROVE  IInv'
  BY <1>2, DestroyKeepsIInv
<1>3. ASSUME NEW c \in CoId, SwapToWorkRoutine(c)
      PROVE  IInv'
  BY <1>3, SwapToWorkKeepsIInv
<1>4. CASE SwapToMain
  BY <1>4, SwapToMainKeepsIInv
<1>5. CASE WorkRoutineExit
  BY <1>5, ExitKeepsIInv
<1>6. CASE UNCHANGED vars
  BY <1>6 DEF vars, IInv, TypeOK, BooksMatchCpu, ContextsResumable, RunningIsMapped,
              RegisteredIffInited
<1> QED
  BY <1>1, <1>2, <1>3, <1>4, <1>5, <1>6 DEF Next

\* The inductive invariant holds in every state the scheduler reaches.
LEMMA InductiveInvariant == Spec => []IInv
  BY InitEstablishesIInv, StepKeepsIInv, PTL DEF Spec

\* Every variable of the scheduler keeps its type; in particular the processor
\* never continues a stale context.
THEOREM TypeCorrect == Spec => []TypeOK
<1>1. IInv => TypeOK
  BY DEF IInv
<1> QED
  BY <1>1, InductiveInvariant, PTL

\* curr_routine_id_ and the RUN state always name the routine that executes.
THEOREM BooksAreRight == Spec => []BooksMatchCpu
<1>1. IInv => BooksMatchCpu
  BY DEF IInv
<1> QED
  BY <1>1, InductiveInvariant, PTL

\* Every routine that Resume accepts can be continued on its own stack.
THEOREM SwapsAreSafe == Spec => []ContextsResumable
<1>1. IInv => ContextsResumable
  BY DEF IInv
<1> QED
  BY <1>1, InductiveInvariant, PTL

\* A returned work routine never executes again: DEAD is not a state that
\* Resume accepts, and the other two swaps go to main.
THEOREM DeadStaysDead == Spec => DeadNeverRuns
<1> DEFINE DeadKept(c) == state[c] = "DEAD" => state'[c] \in {"DEAD", "UNINIT"} /\ cpu' # c
<1>1. ASSUME IInv, [Next]_vars, NEW c \in CoId
      PROVE  DeadKept(c)
  <2> SUFFICES ASSUME state[c] = "DEAD"
               PROVE  state'[c] \in {"DEAD", "UNINIT"} /\ cpu' # c
    OBVIOUS
  <2> USE RoutineAssumption, <1>1 DEF IInv, TypeOK, Routine
  <2>1. cpu # c /\ curr = cpu /\ c # Main
    BY DEF BooksMatchCpu
  <2>2. ASSUME NEW d \in CoId, CreateWorkRoutine(d) \/ DestroyWorkRoutine(d)
        PROVE  state'[c] \in {"DEAD", "UNINIT"} /\ cpu' # c
    <3>1. CASE CreateWorkRoutine(d) /\ d = c
      BY <3>1 DEF CreateWorkRoutine, CreateBoostCoroutine, Prepare, MakeContext, RegisteredIffInited
    <3>2. CASE CreateWorkRoutine(d) /\ d # c
      BY <2>1, <3>2 DEF CreateWorkRoutine, CreateBoostCoroutine, Prepare, MakeContext
    <3>3. CASE DestroyWorkRoutine(d)
      BY <2>1, <3>3 DEF DestroyWorkRoutine, Destroy
    <3> QED
      BY <2>2, <3>1, <3>2, <3>3
  <2>3. ASSUME NEW d \in CoId, SwapToWorkRoutine(d)
        PROVE  state'[c] \in {"DEAD", "UNINIT"} /\ cpu' # c
    BY <2>1, <2>3 DEF SwapToWorkRoutine, CanSwapToWorkRoutine, ResumeRoutine, JumpContext,
                      ContextsResumable, Resumable
  <2>4. CASE SwapToMain
    BY <2>1, <2>4 DEF SwapToMain, ResumeRoutine, JumpContext, ContextsResumable
  <2>5. CASE WorkRoutineExit
    BY <2>1, <2>5 DEF WorkRoutineExit, OnWorkRoutineExit, ContextsResumable, Resumable
  <2>6. CASE UNCHANGED vars
    BY <2>1, <2>6 DEF vars
  <2> QED
    BY <2>2, <2>3, <2>4, <2>5, <2>6 DEF Next
<1>2. IInv /\ [Next]_vars => [\A c \in CoId : DeadKept(c)]_vars
  BY <1>1
<1> QED
  BY <1>2, InductiveInvariant, PTL DEF Spec, DeadNeverRuns

-----------------------------------------------------------------------------

\* The scheduler implements AsymmetricCoroutines: each of its actions is the
\* abstract action of the same meaning, or a stutter (destroying a dead
\* routine).
THEOREM Refinement == Spec => ImplementsCoroutines
<1> DEFINE Live == {c \in CoId : state[c] \in Resumable}
<1>1. Init => Coroutines!Init
  BY RoutineAssumption DEF Init, CreateMainRountine, Coroutines!Init, Routine, Resumable
<1>2. ASSUME IInv, IInv', [Next]_vars
      PROVE  [Coroutines!Next]_<<cpu, Live>>
  <2> USE RoutineAssumption, <1>2 DEF IInv, TypeOK, Routine
  <2>1. ASSUME NEW c \in CoId, CreateWorkRoutine(c)
        PROVE  Coroutines!Spawn(c)
    <3>1. c # cpu /\ c \notin Live
      BY <2>1 DEF CreateWorkRoutine, CreateBoostCoroutine, Prepare, MakeContext,
                  RunningIsMapped, RegisteredIffInited, Resumable
    <3>2. Live' = Live \cup {c}
      BY <2>1 DEF CreateWorkRoutine, CreateBoostCoroutine, Prepare, MakeContext, Resumable
    <3> QED
      BY <2>1, <3>1, <3>2 DEF CreateWorkRoutine, CreateBoostCoroutine, Prepare, MakeContext, Coroutines!Spawn
  <2>2. ASSUME NEW c \in CoId, c # cpu, DestroyWorkRoutine(c)
        PROVE  Coroutines!Discard(c) \/ UNCHANGED <<cpu, Live>>
    <3>1. Live' = Live \ {c} /\ cpu' = cpu
      BY <2>2 DEF DestroyWorkRoutine, Destroy, Resumable
    <3> QED
      BY <3>1 DEF Coroutines!Discard
  <2>3. ASSUME NEW c \in CoId, SwapToWorkRoutine(c)
        PROVE  Coroutines!Transfer(c)
    <3> USE <2>3 DEF SwapToWorkRoutine, CanSwapToWorkRoutine, ResumeRoutine, JumpContext
    <3>1. cpu = Main /\ c \in Live /\ cpu' = c
      BY DEF BooksMatchCpu, ContextsResumable
    <3>2. Live' = Live \ {c}
      BY DEF Resumable
    <3> QED
      BY <3>1, <3>2 DEF Coroutines!Transfer
  <2>4. ASSUME SwapToMain
        PROVE  Coroutines!Yield
    <3> USE <2>4 DEF SwapToMain, ResumeRoutine, JumpContext
    <3>1. cpu = curr /\ cpu \in CoId /\ cpu' = Main
      BY DEF BooksMatchCpu, ContextsResumable
    <3>2. Live' = Live \cup {cpu}
      BY <3>1 DEF Resumable
    <3> QED
      BY <3>1, <3>2 DEF Coroutines!Yield
  <2>5. ASSUME WorkRoutineExit
        PROVE  Coroutines!Return
    <3> USE <2>5 DEF WorkRoutineExit, OnWorkRoutineExit
    <3>1. cpu = curr /\ cpu' = Main /\ state[cpu] = "RUN"
      BY DEF BooksMatchCpu, ContextsResumable, Resumable
    <3>2. Live' = Live
      BY <3>1 DEF Resumable
    <3> QED
      BY <3>1, <3>2 DEF Coroutines!Return
  <2>6. CASE UNCHANGED vars
    BY <2>6 DEF vars
  <2> QED
    BY <2>1, <2>2, <2>3, <2>4, <2>5, <2>6 DEF Next, Coroutines!Next
<1> QED
  BY <1>1, <1>2, InductiveInvariant, PTL DEF Spec, ImplementsCoroutines, Coroutines!Spec
=============================================================================
