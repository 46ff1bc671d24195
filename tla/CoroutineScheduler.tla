-------------------------- MODULE CoroutineScheduler --------------------------
(***************************************************************************)
(* src/src/coroutine: CoroutineScheduler and the BoostCoroutine objects it *)
(* owns.  The scheduler's books (curr_routine_id_, coroutines_map_ and the *)
(* state_ and context_ of every routine) are kept apart from cpu, the      *)
(* routine whose stack the processor really executes on: only JumpContext  *)
(* moves cpu, and the books are right only if they say the same.           *)
(*                                                                         *)
(* A call the code refuses (SwapToMain in main, SwapToWorkRoutine in a     *)
(* work routine, an unknown id, a routine in the wrong state) restores     *)
(* whatever it had set and returns an error: it is a stuttering step.      *)
(* Coroutine ids are fresh GUIDs; an id absent from the map stands for one *)
(* that was never used.                                                    *)
(***************************************************************************)

CONSTANTS CoId,   \* ids of work routines (the keys of coroutines_map_)
          Main,   \* main_coroutine_, which curr_routine_id_ calls 0
          Null    \* a context_ that holds no saved execution

ASSUME RoutineAssumption == Main \notin CoId /\ Null \notin CoId \cup {Main}

VARIABLES curr,         \* curr_routine_id_
          coroutines,   \* the keys of coroutines_map_
          state,        \* state_ of each routine
          context,      \* whose execution context_ would continue
          cpu           \* the routine really executing

vars == <<curr, coroutines, state, context, cpu>>

Routine == CoId \cup {Main}

State == {"UNINIT", "READY", "RUN", "SUSPEND", "DEAD"}

\* Mutant: the guard lets a returned routine in.
Resumable_OrDead == {"READY", "SUSPEND", "DEAD"}

\* The states that BoostCoroutine::Resume accepts.
Resumable == {"READY", "SUSPEND"}

TypeOK == /\ curr \in Routine
          /\ coroutines \subseteq CoId
          /\ state \in [Routine -> State]
          /\ context \in [Routine -> Routine \cup {Null}]
          /\ cpu \in Routine

-----------------------------------------------------------------------------

\* Mutant: the execution that is left is not saved.
JumpContext_Unsaved(old, r) ==
  /\ cpu' = context[r]
  /\ context' = [context EXCEPT ![r] = Null]

\* JumpContext saves the running execution in old's context_ and continues the
\* one saved in r's.  Continuing an execution uses its saved frame up: the
\* pointer that context_ still holds is stale from then on.
JumpContext(old, r) ==
  /\ cpu' = context[r]
  /\ context' = [context EXCEPT ![old] = cpu, ![r] = Null]

\* BoostCoroutine::Resume, with the states it checks and sets.
ResumeRoutine(r, old) ==
  /\ state[r] \in Resumable
  /\ (r = Main) # (old = Main)
  /\ state' = [state EXCEPT ![r] = "RUN", ![old] = "SUSPEND"]
  /\ JumpContext(old, r)

\* Mutant: MakeContext is left out.
Prepare_NoContext(c) ==
  /\ state' = [state EXCEPT ![c] = "READY"]
  /\ UNCHANGED context

\* The contexts after MakeContext laid a frame on c's stack, from which the first
\* jump enters c's entry function.
MakeContext(c) == [context EXCEPT ![c] = c]

\* BoostCoroutine::Prepare: a new stack with such a context on it.
Prepare(c) ==
  /\ state' = [state EXCEPT ![c] = "READY"]
  /\ context' = MakeContext(c)

\* BoostCoroutine::CreateWorkRoutine, which no inited object may be given to.
CreateBoostCoroutine(c) == state[c] = "UNINIT" /\ Prepare(c)

\* CoroutineScheduler::CreateWorkRoutine; the object is new if the id is.
CreateWorkRoutine(c) ==
  /\ c \notin coroutines
  /\ coroutines' = coroutines \cup {c}
  /\ CreateBoostCoroutine(c)
  /\ UNCHANGED <<curr, cpu>>

\* BoostCoroutine::Destroy and the delete after it, which end the stack and the
\* object whatever state the routine is in.
Destroy(c) ==
  /\ state' = [state EXCEPT ![c] = "UNINIT"]
  /\ context' = [context EXCEPT ![c] = Null]

DestroyWorkRoutine(c) ==
  /\ c \in coroutines
  /\ coroutines' = coroutines \ {c}
  /\ Destroy(c)
  /\ UNCHANGED <<curr, cpu>>

SwapToMain ==
  /\ curr \in coroutines
  /\ curr' = Main
  /\ ResumeRoutine(Main, curr)
  /\ UNCHANGED coroutines

\* Mutant: a work routine may enter another.
CanSwapToWorkRoutine_Nested(c) == c \in coroutines /\ state[c] \in Resumable

\* The condition under which SwapToWorkRoutine(c) returns 0.
CanSwapToWorkRoutine(c) ==
  /\ curr = Main
  /\ c \in coroutines
  /\ state[c] \in Resumable

SwapToWorkRoutine(c) ==
  /\ CanSwapToWorkRoutine(c)
  /\ curr' = c
  /\ ResumeRoutine(c, Main)
  /\ UNCHANGED coroutines

\* Mutant: curr_routine_id_ is not reset.
OnWorkRoutineExit_KeepsCurr ==
  /\ state' = [state EXCEPT ![curr] = "DEAD", ![Main] = "RUN"]
  /\ UNCHANGED curr

\* OnWorkRoutineExit: the books are closed while the routine still executes.
OnWorkRoutineExit ==
  /\ state' = [r \in Routine |-> IF r = Main THEN "RUN"
                                 ELSE IF r = curr /\ r \in coroutines THEN "DEAD"
                                 ELSE state[r]]
  /\ curr' = Main

\* The end of TransactionCoroutineEntry: OnWorkRoutineExit, then a jump to
\* main's context that saves the dead execution where nobody looks for it.
WorkRoutineExit ==
  /\ cpu # Main
  /\ OnWorkRoutineExit
  /\ cpu' = context[Main]
  /\ context' = [context EXCEPT ![Main] = Null]
  /\ UNCHANGED coroutines

-----------------------------------------------------------------------------

\* The states that CreateMainRountine leaves: main runs, nothing else exists.
CreateMainRountine == [r \in Routine |-> IF r = Main THEN "RUN" ELSE "UNINIT"]

Init == /\ curr = Main
        /\ coroutines = {}
        /\ state = CreateMainRountine
        /\ context = [r \in Routine |-> Null]
        /\ cpu = Main

\* The callers never destroy the routine they run on: Transaction::Start
\* destroys one it could not enter, TranInstMgr::Update waits until main runs.
Next == \/ \E c \in CoId : \/ CreateWorkRoutine(c)
                           \/ c # cpu /\ DestroyWorkRoutine(c)
                           \/ SwapToWorkRoutine(c)
        \/ SwapToMain
        \/ WorkRoutineExit

Spec == Init /\ [][Next]_vars

-----------------------------------------------------------------------------

\* Whenever the library's code runs, its books name the routine that really
\* executes: curr_routine_id_ is that routine and it alone is in state RUN
\* (IsInCoroutine, SwapToMain and OnWorkRoutineExit all decide by these).
BooksMatchCpu ==
  /\ curr = cpu
  /\ \A r \in Routine : state[r] = "RUN" <=> r = cpu

\* Every routine that Resume accepts holds a saved execution of its own, not
\* yet continued: no swap can jump to a stale frame or onto another stack.
\* While a work routine executes, main is such a routine, so that both a swap
\* and the exit of the work routine find their way back.
ContextsResumable ==
  /\ \A r \in Routine : state[r] \in Resumable => context[r] = r
  /\ cpu # Main => state[Main] = "SUSPEND"

\* A work routine that has returned is never entered again and can only be
\* destroyed (DEAD is refused by Resume).
DeadNeverRuns ==
  [][\A c \in CoId : state[c] = "DEAD" => state'[c] \in {"DEAD", "UNINIT"} /\ cpu' # c]_vars

\* The scheduler gives the code above it what AsymmetricCoroutines promises.
Coroutines == INSTANCE AsymmetricCoroutines WITH
                running <- cpu,
                resumable <- {c \in CoId : state[c] \in Resumable}

ImplementsCoroutines == Coroutines!Spec
=============================================================================
