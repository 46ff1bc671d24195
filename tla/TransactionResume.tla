-------------------------- MODULE TransactionResume --------------------------
(***************************************************************************)
(* TransactionEngine with crashes, and what CoroutineScheduler::Resume and *)
(* TranInstMgr::Resume make of the transactions afterwards.                *)
(*                                                                         *)
(* Nothing in the repository calls these two; they are written for an      *)
(* embedding program that keeps the objects of the engine (instances,      *)
(* maps, timers, coroutine objects) where they outlive the process.  Only  *)
(* stacks, and with them every saved context and local variable, are lost. *)
(* A crash comes between two steps, but not inside TranInstMgr::Update,    *)
(* which keeps pointers to instances already deleted in destroy_list_ and  *)
(* cannot be run again.  The program then calls the scheduler's Resume     *)
(* first and the manager's next, before anything else.                     *)
(***************************************************************************)
EXTENDS TransactionEngine

CONSTANT MaxCrashes  \* bound

ASSUME CrashAssumption == MaxCrashes \in Nat

VARIABLES alive,     \* the process runs
          toResume,  \* the instances TranInstMgr::Resume has yet to come to
          rewait,    \* the instances whose RealResume is in Command::Wait
          crashes

crashVars  == <<alive, toResume, rewait, crashes>>
resumeVars == <<vars, crashVars>>

-----------------------------------------------------------------------------
(* The crash, and the calls of a program that starts again.                *)

Crash ==
  /\ alive /\ NotUpdating
  /\ crashes < MaxCrashes
  /\ alive' = FALSE /\ crashes' = crashes + 1
  /\ UNCHANGED <<vars, toResume, rewait>>

\* Mutant: main's state is left as the crash found it.
SchedResume_KeepsState ==
  /\ curr' = Main /\ cpu' = Main
  /\ context' = [r \in TranId \cup {Main} |-> Null]
  /\ UNCHANGED <<coroutines, state>>

\* BoostCoroutine::RestartMainRoutine, in a process that executes on its first
\* stack: what any context would have continued is gone with the old ones.
RestartMainRoutine ==
  /\ context' = [r \in TranId \cup {Main} |-> Null]
  /\ state' = [state EXCEPT ![Main] = "RUN"]

\* CoroutineScheduler::Resume.
SchedResume ==
  /\ curr' = Main /\ cpu' = Main
  /\ RestartMainRoutine
  /\ UNCHANGED coroutines

\* TranInstMgr::Resume begins with a copy of the map.
Restart ==
  /\ ~alive /\ alive' = TRUE
  /\ SchedResume
  /\ toResume' = trans_map
  /\ rewait' = {}
  /\ pc' = [t \in TranId |-> IF t \in trans_map THEN "lost" ELSE pc[t]]
  /\ pending' = [t \in TranId |-> NoEvents]
  /\ UNCHANGED <<mgrVars, inst, timers, history, crashes>>

-----------------------------------------------------------------------------
(* TransactionInstance::Resume and Transaction::Resume, by main.           *)

\* RestartWorkRoutine prepares a coroutine again that was waiting, or had not
\* been entered, and no other: the one that ran may have caused the crash.
CanRestart(t) == /\ inst[t].coroutine_id \in coroutines
                 /\ state[inst[t].coroutine_id] \in {"READY", "SUSPEND"}

Resuming(t, p) == alive /\ cpu = Main /\ t \in toResume /\ pc[t] = p

\* No other instance is between its two steps of Transaction::Resume.
RestartCoroutine(t) ==
  /\ Resuming(t, "lost") /\ \A u \in TranId : pc[u] # "prepared"
  /\ CanRestart(t)
  /\ Sched!Prepare(inst[t].coroutine_id)
  /\ pc' = [pc EXCEPT ![t] = "prepared"]
  /\ UNCHANGED <<curr, coroutines, cpu, mgrVars, inst, pending, timers, history, crashVars>>

ReenterCoroutine(t) ==
  /\ Resuming(t, "prepared")
  /\ Sched!SwapToWorkRoutine(inst[t].coroutine_id)
  /\ pc' = [pc EXCEPT ![t] = "reentered"]
  /\ toResume' = toResume \ {t}
  /\ UNCHANGED <<mgrVars, inst, pending, timers, history, alive, rewait, crashes>>

\* Mutant: the instance stays in the map.
RestartFails_Forgets(t) ==
  /\ Resuming(t, "lost") /\ \A u \in TranId : pc[u] # "prepared"
  /\ ~CanRestart(t)
  /\ inst' = [inst EXCEPT ![t] = [@ EXCEPT !.fail_index = inst[t].curr_index,
                                            !.fail_reason = "ERROR"]]
  /\ toResume' = toResume \ {t}
  /\ pc' = [pc EXCEPT ![t] = "exited"]
  /\ UNCHANGED <<schedVars, mgrVars, pending, timers, history, alive, rewait, crashes>>

\* The transaction fails, and MarkTranInstDelayDestroy.
RestartFails(t) ==
  /\ Resuming(t, "lost") /\ \A u \in TranId : pc[u] # "prepared"
  /\ ~CanRestart(t)
  /\ inst' = [inst EXCEPT ![t] = [@ EXCEPT !.fail_index = inst[t].curr_index,
                                            !.fail_reason = "ERROR",
                                            !.is_delay_destroying = TRUE]]
  /\ destroy_list' = destroy_list \cup {inst[t].addr}
  /\ trans_map' = trans_map \ {t}
  /\ toResume' = toResume \ {t}
  /\ pc' = [pc EXCEPT ![t] = "exited"]
  /\ UNCHANGED <<schedVars, upd, pending, timers, history, alive, rewait, crashes>>

-----------------------------------------------------------------------------
(* In the coroutine: RealResume.                                           *)

\* Mutant: the command that waited is done again from the start.
WaitedFor_DoesAgain(t, r, err) ==
  LET over == err # "OK" \/ r.curr_index + 1 = Len(CmdsOf(t))
  IN /\ inst' = [inst EXCEPT ![t] =
                   IF err # "OK"
                   THEN [r EXCEPT !.fail_index = r.waiting_index, !.fail_reason = err]
                   ELSE r]
     /\ pc' = [pc EXCEPT ![t] = IF over THEN "tail" ELSE "do"]
     /\ done' = IF err = "OK" THEN [done EXCEPT ![t] = Append(@, r.curr_index)] ELSE done
     /\ UNCHANGED <<schedVars, mgrVars, pending, timers, result, undone>>

\* Mutant: the error of Wait is not recorded.
WaitedFor_DropsError(t, r, err) ==
  LET over == err # "OK" \/ r.curr_index + 1 = Len(CmdsOf(t))
  IN /\ inst' = [inst EXCEPT ![t] =
                   IF err # "OK" THEN [r EXCEPT !.fail_index = r.waiting_index]
                   ELSE IF over THEN r
                   ELSE [r EXCEPT !.curr_index = @ + 1]]
     /\ pc' = [pc EXCEPT ![t] = IF over THEN "tail" ELSE "do"]
     /\ done' = IF err = "OK" THEN [done EXCEPT ![t] = Append(@, r.curr_index)] ELSE done
     /\ UNCHANGED <<schedVars, mgrVars, pending, timers, result, undone>>

\* RealResume after Wait returned err: it goes on with the next command, and
\* looks neither at fail_reason_, which an abort may have set during the wait,
\* nor at is_complete_.
WaitedFor(t, r, err) ==
  LET over == err # "OK" \/ r.curr_index + 1 = Len(CmdsOf(t))
  IN /\ inst' = [inst EXCEPT ![t] =
                   IF err # "OK"
                   THEN [r EXCEPT !.fail_index = r.waiting_index, !.fail_reason = err]
                   ELSE IF over THEN r
                   ELSE [r EXCEPT !.curr_index = @ + 1]]
     /\ pc' = [pc EXCEPT ![t] = IF over THEN "tail" ELSE "do"]
     /\ done' = IF err = "OK" THEN [done EXCEPT ![t] = Append(@, r.curr_index)] ELSE done
     /\ UNCHANGED <<schedVars, mgrVars, pending, timers, result, undone>>

\* WaitForEvent as RealResume calls it.  RegisterTimer, which may refuse, is
\* called only if the timer of before the crash is gone.
WaitAgain(t, r, events) ==
  \/ events = NoEvents /\ WaitedFor(t, r, "OK")
  \/ events # NoEvents /\ Suspend(t, r, events)
  \/ /\ events # NoEvents /\ r.timer_id = NoTimer /\ "refuse" \in AppDoes
     /\ WaitedFor(t, r, "ERROR")

\* RealResume waits for all the events of the command, those that had come
\* before the crash too.  An instance that had not run a command yet has -1 in
\* both indices, which compared with a size is large: it leaves the function
\* like a transaction that has done everything.
RealResume(t) ==
  LET r == inst[t]
  IN /\ RunsAt(t, "reentered")
     /\ IF r.waiting_index # r.curr_index
        THEN /\ inst' = [inst EXCEPT ![t].fail_index = r.curr_index]
             /\ pc' = [pc EXCEPT ![t] = "tail"]
             /\ UNCHANGED <<schedVars, mgrVars, pending, timers, history, rewait>>
        ELSE IF r.waiting_index = Null
        THEN /\ pc' = [pc EXCEPT ![t] = "tail"]
             /\ UNCHANGED <<schedVars, mgrVars, inst, pending, timers, history, rewait>>
        ELSE /\ WaitAgain(t, r, CmdsOf(t)[r.waiting_index + 1])
             /\ rewait' = rewait \cup {t}

\* WaitForEvent's loop as in TransactionEngine, up to what it returns to.
WokenAgain(t) ==
  LET e == inst[t].event_type
  IN /\ t \in rewait
     /\ RunsAt(t, "resumed")
     /\ \/ /\ e \in Event /\ pending[t][e] > 0
           /\ \E r \in AfterCallback(t) :
                \/ WaitedFor(t, r, "ERROR")
                \/ WaitAgain(t, r, [pending[t] EXCEPT ![e] = @ - 1])
        \/ /\ e = "ABORT"
           /\ WaitAgain(t, [inst[t] EXCEPT !.fail_reason = "ABORT"], pending[t])
        \/ /\ e = "TIMEOUT"
           /\ \E r \in AfterCallback(t) :
                \/ WaitedFor(t, r, "ERROR")
                \/ "retry" \in AppDoes /\ WaitAgain(t, r, pending[t])
     /\ rewait' = IF pc'[t] = "suspended" THEN rewait ELSE rewait \ {t}

-----------------------------------------------------------------------------
ResumeInit == /\ Init
              /\ alive = TRUE /\ toResume = {} /\ rewait = {} /\ crashes = 0

ResumeStep(t) == RestartCoroutine(t) \/ ReenterCoroutine(t) \/ RestartFails(t)

InCoroutine(t) ==
  /\ alive
  /\ \/ RealResume(t)
     \/ WokenAgain(t)
     \/ (t \in rewait => pc[t] # "resumed") /\ CoroutineStep(t) /\ UNCHANGED rewait
  /\ UNCHANGED <<alive, toResume, crashes>>

\* Everything else waits for TranInstMgr::Resume to return.
Engine(A) == /\ alive /\ (toResume = {} \/ cpu # Main)
             /\ A
             /\ UNCHANGED crashVars

ResumeNext ==
  \/ Crash \/ Restart
  \/ \E t \in TranId : \/ ResumeStep(t) \/ InCoroutine(t)
                       \/ Engine(StartStep(t)) \/ Engine(AppStep(t))
  \/ \E i \in TimerId : Engine(TimerFires(i))
  \/ Engine(UpdateStep)
  \/ Engine(AllOver)

\* The steps that the process takes by itself: nobody has to call or to send.
OwnStep == \E t \in TranId : ResumeStep(t) \/ InCoroutine(t) \/ Engine(StartStep(t))

\* As in TransactionEngine, and the program starts again after a crash.
ResumeFairness ==
  /\ WF_resumeVars(Restart)
  /\ WF_resumeVars(OwnStep)
  /\ \A t \in TranId :
       SF_resumeVars(\E i \in TimerId : timers[i] = t /\ Engine(TimerFires(i)))
  /\ SF_resumeVars(Engine(UpdateStep))

ResumeSpec == ResumeInit /\ [][ResumeNext]_resumeVars /\ ResumeFairness

-----------------------------------------------------------------------------
(* Properties.                                                             *)

\* Whatever crashes come and whatever is resumed, no command of a transaction
\* is done twice and none is passed over, and Undo is called only on commands
\* that were done, once each, last first.
CommandsDoneOnce ==
  \A t \in TranId :
    /\ done[t] = [k \in 1..Len(done[t]) |-> k - 1]
    /\ \E n \in 0..Len(done[t]) : undone[t] = LastFirst(done[t], n)

\* While the program is up and no instance is left to be resumed, every
\* coroutine that a swap would enter has a context on a stack of this process,
\* and every suspended transaction has a timer and is woken only by events it
\* awaits.
ResumedCanBeWoken ==
  alive /\ toResume = {} =>
    /\ Sched!ContextsResumable
    /\ \A t \in TranId : pc[t] = "suspended" =>
         /\ t \in trans_map /\ state[inst[t].coroutine_id] = "SUSPEND"
         /\ \E i \in TimerId : timers[i] = t
         /\ inst[t].events # NoEvents
         /\ \A e \in Event : inst[t].events[e] <= pending[t][e]

\* A transaction is reported as a success only if nothing failed and every
\* command was done, or if the crash came before its coroutine was entered:
\* then RealResume reports a success of which nothing was done.
ResumedSuccess ==
  \A t \in TranId : upd = [at |-> inst[t].addr, handling |-> TRUE] /\ result[t] = "success" =>
    /\ ~IsFailed(inst[t])
    /\ \/ Len(done[t]) = Len(CmdsOf(t))
       \/ crashes > 0 /\ inst[t].curr_index = Null

\* Every transaction that a crash interrupts is reported and released in the
\* end: it waits again, with a timer that is still alive, or fails.
InterruptedEnds == \A t \in TranId : pc[t] = "lost" ~> pc[t] = "released"
=============================================================================
