---------------------- MODULE TransactionEngine_proofs ----------------------
(***************************************************************************)
(* The invariants of TransactionEngine for every set of transactions, that *)
(* it uses the scheduler as the scheduler's proofs assume, and that it     *)
(* implements Transactions; then those of TransactionResume, where the     *)
(* process crashes and resumes, which need an invariant of their own.  The *)
(* theorems about Spec use nothing of what TransactionResume adds.         *)
(***************************************************************************)
EXTENDS TransactionResume, TLAPS

SP == INSTANCE CoroutineScheduler_proofs WITH CoId <- TranId

-----------------------------------------------------------------------------
(* The scheduler, as the engine sees it.                                   *)

\* What the scheduler's invariant says of its books.
LEMMA BooksSay ==
  ASSUME SP!IInv
  PROVE  /\ curr = cpu /\ cpu \in TranId \cup {Main}
         /\ Sched!TypeOK
         /\ cpu # Main => cpu \in coroutines
         /\ coroutines \subseteq TranId
         /\ \A t \in TranId : (t \in coroutines <=> state[t] # "UNINIT")
                              /\ (state[t] = "RUN" <=> cpu = t)
BY DEF SP!IInv, SP!BooksMatchCpu, SP!TypeOK, SP!Routine, SP!RunningIsMapped,
       SP!RegisteredIffInited, Sched!TypeOK, Sched!Routine, Sched!State, SP!State

\* A swap to main suspends the routine that executes.
LEMMA ToMain ==
  ASSUME SP!IInv, Sched!SwapToMain
  PROVE  /\ cpu \in TranId /\ cpu' = Main /\ coroutines' = coroutines
         /\ state'[cpu] = "SUSPEND"
         /\ \A u \in TranId : u # cpu => state'[u] = state[u]
BY EngineAssumption
   DEF Sched!SwapToMain, Sched!ResumeRoutine, Sched!JumpContext, SP!IInv, SP!BooksMatchCpu,
       SP!ContextsResumable, SP!TypeOK, SP!Routine, SP!Resumable

\* A swap into a coroutine leaves main for it.
LEMMA ToWork ==
  ASSUME SP!IInv, NEW t \in TranId, Sched!SwapToWorkRoutine(t)
  PROVE  /\ cpu = Main /\ cpu' = t /\ coroutines' = coroutines /\ t \in coroutines
         /\ \A u \in TranId : u # t => state'[u] = state[u]
BY EngineAssumption
   DEF Sched!SwapToWorkRoutine, Sched!CanSwapToWorkRoutine, Sched!ResumeRoutine,
       Sched!JumpContext, Sched!Resumable, SP!IInv, SP!BooksMatchCpu,
       SP!ContextsResumable, SP!TypeOK, SP!Routine, SP!Resumable

\* Main may enter a coroutine that waits or was not entered yet.
LEMMA MainCanEnter ==
  ASSUME SP!IInv, NEW t \in TranId
  PROVE  Sched!CanSwapToWorkRoutine(t) <=>
           cpu = Main /\ t \in coroutines /\ state[t] \in {"READY", "SUSPEND"}
BY DEF Sched!CanSwapToWorkRoutine, Sched!Resumable, SP!IInv, SP!BooksMatchCpu

\* A coroutine that ends is dead, and main goes on.
LEMMA ToExit ==
  ASSUME SP!IInv, Sched!WorkRoutineExit
  PROVE  /\ cpu \in TranId /\ cpu' = Main /\ coroutines' = coroutines
         /\ state'[cpu] = "DEAD"
         /\ \A u \in TranId : u # cpu => state'[u] = state[u]
BY EngineAssumption
   DEF Sched!WorkRoutineExit, Sched!OnWorkRoutineExit, Sched!Routine, SP!IInv, SP!BooksMatchCpu,
       SP!ContextsResumable, SP!TypeOK, SP!Routine, SP!Resumable, SP!RunningIsMapped

LEMMA Creates ==
  ASSUME SP!IInv, NEW t \in TranId, Sched!CreateWorkRoutine(t)
  PROVE  /\ cpu' = cpu /\ coroutines' = coroutines \cup {t} /\ t \notin coroutines
         /\ state'[t] = "READY"
         /\ \A u \in TranId : u # t => state'[u] = state[u]
BY EngineAssumption
   DEF Sched!CreateWorkRoutine, Sched!CreateBoostCoroutine, Sched!Prepare, SP!IInv,
       SP!TypeOK, SP!Routine

LEMMA Destroys ==
  ASSUME SP!IInv, NEW t \in TranId, Sched!DestroyWorkRoutine(t)
  PROVE  /\ cpu' = cpu /\ coroutines' = coroutines \ {t}
         /\ \A u \in TranId : u # t => state'[u] = state[u]
BY EngineAssumption
   DEF Sched!DestroyWorkRoutine, Sched!Destroy, SP!IInv, SP!TypeOK, SP!Routine

\* The steps of the two instances of the scheduler are the same.
LEMMA SameScheduler ==
  /\ Sched!Init => SP!Init
  /\ [Sched!Next]_(Sched!vars) => [SP!Next]_(SP!vars)
BY DEF Sched!Init, SP!Init, Sched!CreateMainRountine, SP!CreateMainRountine, Sched!Routine,
       SP!Routine, Sched!Next, SP!Next, Sched!vars, SP!vars,
       Sched!CreateWorkRoutine, SP!CreateWorkRoutine, Sched!CreateBoostCoroutine,
       SP!CreateBoostCoroutine, Sched!Prepare, SP!Prepare, Sched!MakeContext, SP!MakeContext,
       Sched!DestroyWorkRoutine, SP!DestroyWorkRoutine, Sched!Destroy, SP!Destroy,
       Sched!SwapToMain, SP!SwapToMain, Sched!SwapToWorkRoutine, SP!SwapToWorkRoutine,
       Sched!CanSwapToWorkRoutine, SP!CanSwapToWorkRoutine, Sched!ResumeRoutine,
       SP!ResumeRoutine, Sched!Resumable, SP!Resumable, Sched!JumpContext, SP!JumpContext,
       Sched!WorkRoutineExit, SP!WorkRoutineExit, Sched!OnWorkRoutineExit, SP!OnWorkRoutineExit

-----------------------------------------------------------------------------
(* The inductive invariant.                                                *)

\* An instance is in trans_map_ from its start to its exit, ...
Mapped == {"added", "created", "boot", "do", "suspended", "resumed", "tail"}

\* ... and has a coroutine after the first step of that.
Begun == Mapped \ {"added"}

\* Where the code of t is agrees with the map and with the scheduler's books.
Placed(t) ==
  /\ pc[t] \in Mapped \cup {"none", "exited", "released", "failed"}
  /\ pc[t] \in Running <=> cpu = t
  /\ t \in trans_map <=> pc[t] \in Mapped
  /\ pc[t] \in Begun => t \in coroutines
  /\ t \in coroutines => pc[t] \in Begun \cup {"exited"}
  /\ pc[t] = "created" <=> state[t] = "READY"
  /\ pc[t] = "suspended" <=> state[t] = "SUSPEND"

\* So do the fields of its instance, which is deleted when t is over.
Recorded(t) ==
  /\ inst[t].coroutine_id = IF t \in coroutines THEN t ELSE NoCo
  /\ inst[t].is_delay_destroying <=> pc[t] = "exited"
  /\ pc[t] \in Allocated => inst[t].addr \in Addr /\ inst[t].type \in TranType
  /\ pc[t] \notin Allocated => inst[t] = NoInstance
  /\ pc[t] \in {"do", "suspended", "resumed"} =>
       inst[t].curr_index \in Nat /\ inst[t].curr_index < Len(CmdsOf(t))

\* What a suspended transaction waits for.
Awaits(t) ==
  pc[t] = "suspended" =>
    /\ inst[t].events = pending[t] /\ pending[t] # NoEvents
    /\ inst[t].waiting_index = inst[t].curr_index

\* The outcome is there from HandleResult on.
Reported(t) ==
  result[t] # "none" <=>
    pc[t] = "released" \/ (pc[t] = "exited" /\ upd.handling /\ upd.at = inst[t].addr)

Local(t) == Placed(t) /\ Recorded(t) /\ Awaits(t) /\ Reported(t)

Addresses ==
  \A t, u \in TranId :
    pc[t] \in Allocated /\ pc[u] \in Allocated /\ inst[t].addr = inst[u].addr => t = u

\* HandleResult works on an instance whose coroutine is destroyed.
HandlesOne ==
  upd.handling => \E t \in TranId : inst[t].addr = upd.at /\ pc[t] = "exited" /\ t \notin coroutines

EInv ==
  /\ SP!IInv
  /\ TypeOK
  /\ \A t \in TranId : Local(t)
  /\ TimersOwned
  /\ Addresses
  /\ UpdateMeetsLiveInstances
  /\ HandlesOne

LEMMA InitEstablishes == Init => EInv
<1> SUFFICES ASSUME Init PROVE EInv
  OBVIOUS
<1>1. SP!IInv
  BY EngineAssumption, SameScheduler, SP!InitEstablishesIInv DEF Init
<1>2. TypeOK
  BY <1>1, BooksSay DEF Init, TypeOK, NoInstance, Instance, Pc, NoEvents, NoCo, NoTimer, DefaultEvent
<1>3. \A t \in TranId : Local(t)
  BY EngineAssumption
     DEF Init, Local, Placed, Recorded, Awaits, Reported, Mapped, Begun, Running, Allocated,
         NoInstance, NoCo, Sched!Init, Sched!CreateMainRountine, Sched!Routine
<1>4. TimersOwned /\ Addresses /\ UpdateMeetsLiveInstances /\ HandlesOne
  BY DEF Init, TimersOwned, Addresses, Allocated, UpdateMeetsLiveInstances, Ahead, HandlesOne,
         NoInstance
<1> QED BY <1>1, <1>2, <1>3, <1>4 DEF EInv

-----------------------------------------------------------------------------
(* Steps of one transaction.                                               *)

\* A step changes nothing that the other transactions' part of the invariant
\* speaks of.
OnlyChanges(t) ==
  \A u \in TranId \ {t} :
    /\ inst'[u] = inst[u] /\ pc'[u] = pc[u] /\ pending'[u] = pending[u]
    /\ result'[u] = result[u] /\ state'[u] = state[u]
    /\ u \in coroutines' <=> u \in coroutines
    /\ u \in trans_map' <=> u \in trans_map
    /\ cpu' = u <=> cpu = u

LEMMA OthersKeep ==
  ASSUME NEW t \in TranId, NEW u \in TranId \ {t}, OnlyChanges(t), Local(u)
  PROVE  /\ Placed(u)' /\ Recorded(u)' /\ Awaits(u)'
         /\ upd' = upd => Local(u)'
BY DEF OnlyChanges, Local, Placed, Recorded, Awaits, Reported, CmdsOf

\* Such a step, outside Update, keeps the invariant if it does so for t.
LEMMA StepOf ==
  ASSUME EInv, SP!IInv', NEW t \in TranId, OnlyChanges(t), UNCHANGED <<destroy_list, upd>>,
         TypeOK', Local(t)', TimersOwned',
         pc[t] # "exited", pc'[t] # "exited",
         pc'[t] \in Allocated =>
           \A u \in TranId \ {t} : pc[u] \in Allocated => inst[u].addr # inst'[t].addr
  PROVE  EInv'
<1>1. \A u \in TranId : Local(u)'
  BY OthersKeep DEF EInv
<1>2. Addresses'
  BY DEF EInv, Addresses, OnlyChanges
<1>3. UpdateMeetsLiveInstances' /\ HandlesOne'
  BY DEF EInv, UpdateMeetsLiveInstances, HandlesOne, Ahead, OnlyChanges
<1> QED BY <1>1, <1>2, <1>3 DEF EInv

\* The address of an instance that stays where it is is nobody else's.
LEMMA StaysApart ==
  ASSUME EInv, NEW t \in TranId, pc[t] \in Allocated, inst'[t].addr = inst[t].addr
  PROVE  \A u \in TranId \ {t} : pc[u] \in Allocated => inst[u].addr # inst'[t].addr
BY DEF EInv, Addresses

\* Timers stay owned when one that does not wait takes a step.
LEMMA TimersUntouched ==
  ASSUME EInv, NEW t \in TranId, OnlyChanges(t), timers' = timers,
         pc[t] # "suspended", inst'[t].timer_id = NoTimer
  PROVE  TimersOwned'
<1>1. ASSUME NEW i \in TimerId, timers[i] # Null
      PROVE  pc'[timers[i]] = "suspended" /\ inst'[timers[i]].timer_id = i
  <2>1. timers[i] \in TranId /\ timers[i] # t
    BY <1>1 DEF EInv, TimersOwned, TypeOK
  <2> QED BY <1>1, <2>1 DEF EInv, TimersOwned, OnlyChanges
<1>2. ASSUME NEW u \in TranId, inst'[u].timer_id # NoTimer
      PROVE  timers[inst'[u].timer_id] = u
  BY <1>2 DEF EInv, TimersOwned, OnlyChanges
<1> QED BY <1>1, <1>2 DEF TimersOwned

\* Only a suspended transaction has a timer.
LEMMA NoTimerElsewhere ==
  ASSUME EInv, NEW t \in TranId, pc[t] # "suspended"
  PROVE  inst[t].timer_id = NoTimer
<1>1. inst[t].timer_id \in TimerId \cup {NoTimer}
  BY DEF EInv, TypeOK, Instance
<1>2. CASE inst[t].timer_id # NoTimer
  BY <1>1, <1>2, EngineAssumption DEF EInv, TimersOwned
<1> QED BY <1>2

\* The scheduler's variables keep their types with its invariant; the others
\* have to be looked at one by one.
LEMMA TypesKept ==
  ASSUME SP!IInv',
         trans_map' \subseteq TranId, destroy_list' \subseteq Addr,
         upd' \in [at : Addr \cup {0}, handling : BOOLEAN],
         inst' \in [TranId -> Instance], pc' \in [TranId -> Pc],
         pending' \in [TranId -> [Event -> Nat]], timers' \in [TimerId -> TranId \cup {Null}],
         result' \in [TranId -> {"none", "success", "fail", "abort"}],
         done' \in [TranId -> Seq(Nat)], undone' \in [TranId -> Seq(Nat)]
  PROVE  TypeOK'
BY DEF TypeOK, SP!IInv, SP!TypeOK, SP!Routine, SP!State, Sched!TypeOK, Sched!Routine, Sched!State

-----------------------------------------------------------------------------
(* Starting.                                                               *)

LEMMA NewInstance ==
  ASSUME NEW a \in Addr, NEW ty \in TranType
  PROVE  LET r == [NoInstance EXCEPT !.type = ty, !.addr = a]
         IN /\ r \in Instance
            /\ r.type = ty /\ r.addr = a /\ r.coroutine_id = NoCo /\ r.timer_id = NoTimer
            /\ ~r.is_delay_destroying
BY DEF NoInstance, Instance, NoEvents, NoCo, NoTimer, DefaultEvent

LEMMA StartKeeps ==
  ASSUME EInv, SP!IInv', NEW t \in TranId, StartCommonTransaction(t)
  PROVE  EInv'
<1>1. PICK a \in FreeAddr, ty \in TranType :
        inst' = [inst EXCEPT ![t] = [NoInstance EXCEPT !.type = ty, !.addr = a]]
  BY DEF StartCommonTransaction
<1>2. /\ pc[t] = "none" /\ pc' = [pc EXCEPT ![t] = "added"] /\ trans_map' = trans_map \cup {t}
      /\ UNCHANGED <<curr, coroutines, state, context, cpu, destroy_list, upd, pending, timers,
                     result, done, undone>>
  BY DEF StartCommonTransaction, AddTranInst, schedVars, history
<1>3. /\ inst \in [TranId -> Instance] /\ pc \in [TranId -> Pc] /\ a \in Addr
      /\ \A u \in TranId : a # inst[u].addr
  BY DEF EInv, TypeOK, FreeAddr
<1> DEFINE r == [NoInstance EXCEPT !.type = ty, !.addr = a]
<1>4. /\ r \in Instance
      /\ r.type = ty /\ r.addr = a /\ r.coroutine_id = NoCo /\ r.timer_id = NoTimer
      /\ ~r.is_delay_destroying
  BY <1>3, NewInstance
<1> HIDE DEF r
<1>5. inst' = [inst EXCEPT ![t] = r] /\ inst'[t] = r /\ pc'[t] = "added" /\ OnlyChanges(t)
  BY <1>1, <1>2, <1>3 DEF r, OnlyChanges
<1>6. TypeOK'
  BY <1>2, <1>3, <1>4, <1>5 DEF EInv, TypeOK, Sched!TypeOK, Pc
<1>7. Local(t)
  BY DEF EInv
<1>8. Placed(t)' /\ Awaits(t)' /\ Reported(t)'
  BY <1>2, <1>5, <1>7 DEF Local, Placed, Mapped, Begun, Running, Awaits, Reported
<1>9. Recorded(t)'
  BY <1>2, <1>3, <1>4, <1>5, <1>7 DEF Local, Placed, Recorded, Allocated, Begun, Mapped, Pc
<1>10. TimersOwned'
  BY <1>2, <1>4, <1>5, TimersUntouched
<1> QED
  BY <1>2, <1>3, <1>4, <1>5, <1>6, <1>8, <1>9, <1>10, StepOf DEF Local

LEMMA CoroutineNamed ==
  ASSUME NEW r \in Instance, NEW t \in TranId
  PROVE  LET q == [r EXCEPT !.coroutine_id = t]
         IN /\ q \in Instance /\ q.coroutine_id = t
            /\ q.type = r.type /\ q.addr = r.addr /\ q.timer_id = r.timer_id
            /\ q.is_delay_destroying = r.is_delay_destroying
BY DEF Instance

LEMMA CreateKeeps ==
  ASSUME EInv, SP!IInv', NEW t \in TranId, CreateCoroutine(t)
  PROVE  EInv'
<1>1. /\ pc[t] = "added" /\ pc' = [pc EXCEPT ![t] = "created"]
      /\ inst' = [inst EXCEPT ![t] = [inst[t] EXCEPT !.coroutine_id = t]]
      /\ UNCHANGED <<trans_map, destroy_list, upd, pending, timers, result, done, undone>>
  BY DEF CreateCoroutine, mgrVars, history
<1>2. /\ cpu' = cpu /\ coroutines' = coroutines \cup {t} /\ state'[t] = "READY"
      /\ \A u \in TranId : u # t => state'[u] = state[u]
  BY Creates DEF CreateCoroutine, EInv
<1>3. inst \in [TranId -> Instance] /\ pc \in [TranId -> Pc]
  BY DEF EInv, TypeOK
<1> DEFINE r == [inst[t] EXCEPT !.coroutine_id = t]
<1>4. /\ r \in Instance /\ r.coroutine_id = t
      /\ r.type = inst[t].type /\ r.addr = inst[t].addr /\ r.timer_id = inst[t].timer_id
      /\ r.is_delay_destroying = inst[t].is_delay_destroying
  BY <1>3, CoroutineNamed
<1> HIDE DEF r
<1>5. inst' = [inst EXCEPT ![t] = r] /\ inst'[t] = r /\ pc'[t] = "created" /\ OnlyChanges(t)
  BY <1>1, <1>2, <1>3 DEF r, OnlyChanges
<1>6. TypeOK'
  <2>1. inst' \in [TranId -> Instance]
    BY <1>3, <1>4, <1>5
  <2>2. pc' \in [TranId -> Pc]
    BY <1>1, <1>3 DEF Pc
  <2> QED
    BY <1>1, <2>1, <2>2, TypesKept DEF EInv, TypeOK
<1>7. Local(t)
  BY DEF EInv
<1>8. Placed(t)' /\ Awaits(t)' /\ Reported(t)'
  BY <1>1, <1>2, <1>5, <1>7 DEF Local, Placed, Mapped, Begun, Running, Awaits, Reported
<1>9. Recorded(t)'
  BY <1>1, <1>2, <1>4, <1>5, <1>7 DEF Local, Placed, Recorded, Allocated, Begun, Mapped, Pc
<1>10. TimersOwned'
  BY <1>1, <1>4, <1>5, TimersUntouched, NoTimerElsewhere
<1>11. pc[t] \in Allocated
  BY <1>1 DEF Allocated, Pc
<1> QED
  BY <1>1, <1>4, <1>5, <1>6, <1>8, <1>9, <1>10, <1>11, StepOf, StaysApart DEF Local

\* What GiveUpStart leaves of t, its coroutine being destroyed or never made.
LEMMA GiveUpKeeps ==
  ASSUME EInv, SP!IInv', NEW t \in TranId, GiveUpStart(t),
         pc[t] \in {"added", "created"},
         cpu' = cpu, coroutines' = coroutines \ {t},
         \A u \in TranId : u # t => state'[u] = state[u]
  PROVE  EInv'
<1>1. /\ pc' = [pc EXCEPT ![t] = "failed"] /\ inst' = [inst EXCEPT ![t] = NoInstance]
      /\ trans_map' = trans_map \ {t}
      /\ UNCHANGED <<destroy_list, upd, pending, timers, result, done, undone>>
  BY DEF GiveUpStart, history
<1>2. inst \in [TranId -> Instance] /\ pc \in [TranId -> Pc]
  BY DEF EInv, TypeOK
<1>3. NoInstance \in Instance /\ NoInstance.timer_id = NoTimer /\ NoInstance.coroutine_id = NoCo
      /\ ~NoInstance.is_delay_destroying
  BY DEF NoInstance, Instance, NoEvents, NoCo, NoTimer, DefaultEvent
<1>4. inst'[t] = NoInstance /\ pc'[t] = "failed" /\ OnlyChanges(t)
  BY <1>1, <1>2 DEF OnlyChanges
<1>5. TypeOK'
  <2>1. inst' \in [TranId -> Instance]
    BY <1>1, <1>2, <1>3
  <2>2. pc' \in [TranId -> Pc]
    BY <1>1, <1>2 DEF Pc
  <2> QED
    BY <1>1, <2>1, <2>2, TypesKept DEF EInv, TypeOK
<1>6. Local(t)
  BY DEF EInv
<1>7. state'[t] = "UNINIT"
  BY DEF SP!IInv, SP!RegisteredIffInited
<1>8. Placed(t)' /\ Awaits(t)' /\ Reported(t)'
  BY <1>1, <1>4, <1>6, <1>7 DEF Local, Placed, Mapped, Begun, Running, Awaits, Reported
<1>9. Recorded(t)'
  BY <1>3, <1>4 DEF Recorded, Allocated
<1>10. TimersOwned'
  BY <1>1, <1>3, <1>4, TimersUntouched
<1> QED
  BY <1>1, <1>4, <1>5, <1>8, <1>9, <1>10, StepOf DEF Local, Allocated

LEMMA CreateFailsKeeps ==
  ASSUME EInv, SP!IInv', NEW t \in TranId, CreateCoroutineFails(t)
  PROVE  EInv'
<1>1. pc[t] = "added" /\ GiveUpStart(t) /\ UNCHANGED <<cpu, coroutines, state>>
  BY DEF CreateCoroutineFails, schedVars
<1>2. t \notin coroutines
  BY <1>1 DEF EInv, Local, Placed, Begun, Mapped
<1> QED BY <1>1, <1>2, GiveUpKeeps

LEMMA EnterKeeps ==
  ASSUME EInv, SP!IInv', NEW t \in TranId, EnterCoroutine(t)
  PROVE  EInv'
<1>1. Local(t) /\ pc[t] = "created" /\ inst[t].coroutine_id = t
  BY DEF EInv, EnterCoroutine, Local, Placed, Recorded, Begun, Mapped
<1>2. /\ Sched!SwapToWorkRoutine(t) /\ pc' = [pc EXCEPT ![t] = "boot"]
      /\ UNCHANGED <<trans_map, destroy_list, upd, inst, pending, timers, result, done, undone>>
  BY <1>1 DEF EnterCoroutine, mgrVars, history
<1>3. /\ cpu = Main /\ cpu' = t /\ coroutines' = coroutines
      /\ \A u \in TranId : u # t => state'[u] = state[u]
  BY <1>2, ToWork DEF EInv
<1>4. pc \in [TranId -> Pc] /\ pc'[t] = "boot" /\ OnlyChanges(t)
  BY <1>2, <1>3, EngineAssumption DEF EInv, TypeOK, OnlyChanges
<1>5. TypeOK'
  <2>1. pc' \in [TranId -> Pc]
    BY <1>2, <1>4 DEF Pc
  <2> QED
    BY <1>2, <2>1, TypesKept DEF EInv, TypeOK
<1>6. state'[t] = "RUN"
  BY <1>3 DEF SP!IInv, SP!BooksMatchCpu, SP!Routine
<1>7. Placed(t)' /\ Awaits(t)' /\ Reported(t)'
  BY <1>1, <1>2, <1>3, <1>4, <1>6 DEF Local, Placed, Mapped, Begun, Running, Awaits, Reported
<1>8. Recorded(t)'
  BY <1>1, <1>2, <1>3, <1>4 DEF Local, Recorded, Allocated, Pc
<1>9. TimersOwned'
  BY <1>1, <1>2, <1>4, TimersUntouched, NoTimerElsewhere
<1>10. pc[t] \in Allocated
  BY <1>1 DEF Allocated, Pc
<1> QED
  BY <1>1, <1>2, <1>4, <1>5, <1>7, <1>8, <1>9, <1>10, StepOf, StaysApart DEF Local

LEMMA EnterFailsKeeps ==
  ASSUME EInv, SP!IInv', NEW t \in TranId, EnterCoroutineFails(t)
  PROVE  EInv'
<1>1. Local(t) /\ pc[t] = "created" /\ inst[t].coroutine_id = t
  BY DEF EInv, EnterCoroutineFails, Local, Placed, Recorded, Begun, Mapped
<1>2. GiveUpStart(t) /\ Sched!DestroyWorkRoutine(t)
  BY <1>1 DEF EnterCoroutineFails
<1> QED BY <1>1, <1>2, Destroys, GiveUpKeeps DEF EInv

-----------------------------------------------------------------------------
(* In the coroutine.                                                       *)

\* r is what inst[t] may be after a callback: what matters elsewhere is kept.
Like(r, s) ==
  /\ r \in Instance
  /\ r.type = s.type /\ r.addr = s.addr /\ r.coroutine_id = s.coroutine_id
  /\ r.timer_id = s.timer_id /\ r.is_delay_destroying = s.is_delay_destroying

\* A step of the coroutine of t that does not swap, and leaves it at p.
LEMMA RunningKeeps ==
  ASSUME EInv, SP!IInv', NEW t \in TranId, NEW r, NEW p \in {"do", "tail"},
         pc[t] \in Running, Like(r, inst[t]),
         inst' = [inst EXCEPT ![t] = r], pc' = [pc EXCEPT ![t] = p],
         p = "do" => r.curr_index \in Nat /\ r.curr_index < Len(CmdsOf(t)),
         UNCHANGED <<curr, coroutines, state, context, cpu, trans_map, destroy_list, upd, pending,
                     timers, result, undone>>,
         done' \in [TranId -> Seq(Nat)]
  PROVE  EInv'
<1>1. inst \in [TranId -> Instance] /\ pc \in [TranId -> Pc]
  BY DEF EInv, TypeOK
<1>2. inst'[t] = r /\ pc'[t] = p /\ OnlyChanges(t)
  BY <1>1 DEF OnlyChanges
<1>3. TypeOK'
  <2>1. inst' \in [TranId -> Instance]
    BY <1>1 DEF Like
  <2>2. pc' \in [TranId -> Pc]
    BY <1>1 DEF Pc
  <2> QED
    BY <2>1, <2>2, TypesKept DEF EInv, TypeOK
<1>4. Local(t)
  BY DEF EInv
<1>5. Placed(t)' /\ Awaits(t)' /\ Reported(t)'
  BY <1>2, <1>4 DEF Local, Placed, Mapped, Begun, Running, Awaits, Reported
<1>6. Recorded(t)'
  BY <1>2, <1>4 DEF Local, Recorded, Allocated, Pc, Running, Like, CmdsOf
<1>7. TimersOwned'
  BY <1>2, TimersUntouched, NoTimerElsewhere DEF Running, Like
<1>8. pc[t] \in Allocated /\ pc[t] # "exited"
  BY DEF Allocated, Pc, Running
<1> QED
  BY <1>2, <1>3, <1>5, <1>6, <1>7, <1>8, StepOf, StaysApart DEF Local, Like

LEMMA CallbackLike ==
  ASSUME NEW t \in TranId, inst[t] \in Instance, NEW r \in AfterCallback(t)
  PROVE  Like(r, inst[t]) /\ r.curr_index = inst[t].curr_index
<1>1. PICK b \in BOOLEAN : r = [inst[t] EXCEPT !.is_complete = inst[t].is_complete \/ b]
  BY DEF AfterCallback
<1>2. inst[t].is_complete \/ b \in BOOLEAN
  BY DEF Instance
<1> QED BY <1>1, <1>2 DEF Like, Instance

LEMMA FailedLike ==
  ASSUME NEW r \in Instance, NEW err \in {"OK", "ERROR"}
  PROVE  Like(FailedAt(r, err), r)
<1> DEFINE reason == IF r.fail_reason = "OK" THEN err ELSE r.fail_reason
<1>1. FailedAt(r, err) = [r EXCEPT !.fail_index = r.curr_index, !.fail_reason = reason]
  BY DEF FailedAt
<1>2. reason \in {"OK", "ERROR", "ABORT"}
  BY DEF Instance
<1> HIDE DEF reason
<1> QED BY <1>1, <1>2 DEF Like, Instance

LEMMA StepIndexLike ==
  ASSUME NEW r \in Instance, r.curr_index \in Nat
  PROVE  LET q == [r EXCEPT !.curr_index = r.curr_index + 1]
         IN Like(q, r) /\ q.curr_index = r.curr_index + 1
BY DEF Like, Instance

LEMMA CommandReturnedKeeps ==
  ASSUME EInv, SP!IInv', NEW t \in TranId, NEW r, NEW err \in {"OK", "ERROR"},
         pc[t] \in {"do", "resumed"}, Like(r, inst[t]), r.curr_index = inst[t].curr_index,
         CommandReturned(t, r, err)
  PROVE  EInv'
<1>1. /\ r \in Instance /\ r.curr_index \in Nat
      /\ Len(CmdsOf(t)) \in Nat /\ r.curr_index < Len(CmdsOf(t))
  <2>1. Local(t) /\ pc[t] \in Allocated
    BY DEF EInv, Allocated, Pc
  <2>2. Cmds[inst[t].type] \in Seq([Event -> Nat])
    BY <2>1, EngineAssumption DEF Local, Recorded
  <2> QED BY <2>1, <2>2 DEF Local, Recorded, Like, CmdsOf
<1> DEFINE failed == err # "OK" \/ IsFailed(r)
           over   == r.is_complete \/ r.curr_index + 1 = Len(CmdsOf(t))
           q      == IF failed THEN FailedAt(r, err) ELSE IF over THEN r
                     ELSE [r EXCEPT !.curr_index = r.curr_index + 1]
           p      == IF failed \/ over THEN "tail" ELSE "do"
<1>2. /\ inst' = [inst EXCEPT ![t] = q] /\ pc' = [pc EXCEPT ![t] = p]
      /\ UNCHANGED <<curr, coroutines, state, context, cpu, trans_map, destroy_list, upd, pending,
                     timers, result, undone>>
      /\ done' = IF err = "OK" THEN [done EXCEPT ![t] = Append(@, r.curr_index)] ELSE done
  BY DEF CommandReturned, schedVars, mgrVars
<1>3. Like(q, r) /\ (p = "do" => q.curr_index \in Nat /\ q.curr_index < Len(CmdsOf(t)))
  <2>1. CASE failed
    BY <1>1, <2>1, FailedLike
  <2>2. CASE ~failed /\ over
    BY <1>1, <2>2 DEF Like
  <2>3. CASE ~failed /\ ~over
    BY <1>1, <2>3, StepIndexLike
  <2> QED BY <2>1, <2>2, <2>3
<1>4. p \in {"do", "tail"}
  OBVIOUS
<1>5. done' \in [TranId -> Seq(Nat)]
  BY <1>1, <1>2 DEF EInv, TypeOK
<1> HIDE DEF q, p
<1>6. Like(q, inst[t])
  BY <1>3 DEF Like
<1> QED
  BY <1>2, <1>3, <1>4, <1>5, <1>6, RunningKeeps DEF Running

\* There are enough timers: RegisterTimer always has an id for a wait.
LEMMA TimerLeft ==
  ASSUME EInv, NEW t \in TranId, pc[t] # "suspended"
  PROVE  FreeTimer \in TimerId /\ timers[FreeTimer] = Null
<1> DEFINE S == {u \in TranId : inst[u].timer_id # NoTimer}
           f == [u \in S |-> inst[u].timer_id]
<1>1. f \in [S -> TimerId]
  <2>1. \A u \in TranId : inst[u].timer_id \in TimerId \cup {NoTimer}
    BY DEF EInv, TypeOK, Instance
  <2> QED BY <2>1
<1>2. S \in SUBSET TranId /\ S # TranId
  BY NoTimerElsewhere
<1>3. PICK i \in TimerId : \A u \in S : f[u] # i
  BY <1>1, <1>2, TimersSuffice
<1>4. timers[i] = Null
  <2>1. ASSUME timers[i] # Null PROVE FALSE
    <3>1. timers[i] \in TranId /\ inst[timers[i]].timer_id = i
      BY <2>1 DEF EInv, TypeOK, TimersOwned
    <3>2. i # NoTimer
      BY EngineAssumption DEF NoTimer
    <3> QED BY <1>3, <3>1, <3>2
  <2> QED BY <2>1
<1> QED BY <1>4 DEF FreeTimer

LEMMA ArmedLike ==
  ASSUME NEW r \in Instance, NEW events \in [Event -> Nat], FreeTimer \in TimerId
  PROVE  LET q == Armed(r, events)
         IN /\ q \in Instance /\ q.timer_id = FreeTimer /\ q.events = events
            /\ q.waiting_index = r.curr_index /\ q.curr_index = r.curr_index
            /\ q.type = r.type /\ q.addr = r.addr /\ q.coroutine_id = r.coroutine_id
            /\ q.is_delay_destroying = r.is_delay_destroying
BY DEF Armed, Instance

LEMMA SuspendKeeps ==
  ASSUME EInv, SP!IInv', NEW t \in TranId, NEW r, NEW events \in [Event -> Nat],
         events # NoEvents, cpu = t,
         pc[t] \in {"do", "resumed"}, Like(r, inst[t]), r.curr_index = inst[t].curr_index,
         Suspend(t, r, events)
  PROVE  EInv'
<1>1. r.timer_id = NoTimer /\ r \in Instance
  BY NoTimerElsewhere DEF Like
<1>2. FreeTimer \in TimerId /\ timers[FreeTimer] = Null
  BY TimerLeft
<1>3. /\ inst' = [inst EXCEPT ![t] = Armed(r, events)] /\ timers' = [timers EXCEPT ![FreeTimer] = t]
      /\ pending' = [pending EXCEPT ![t] = events] /\ pc' = [pc EXCEPT ![t] = "suspended"]
      /\ Sched!SwapToMain
      /\ UNCHANGED <<trans_map, destroy_list, upd, result, done, undone>>
  BY <1>1 DEF Suspend, mgrVars, history
<1> DEFINE q == Armed(r, events)
<1>4. /\ q \in Instance /\ q.timer_id = FreeTimer /\ q.events = events
      /\ q.waiting_index = r.curr_index /\ q.curr_index = r.curr_index
      /\ q.type = r.type /\ q.addr = r.addr /\ q.coroutine_id = r.coroutine_id
      /\ q.is_delay_destroying = r.is_delay_destroying
  BY <1>1, <1>2, ArmedLike
<1> HIDE DEF q
<1>5. /\ inst \in [TranId -> Instance] /\ pc \in [TranId -> Pc]
      /\ pending \in [TranId -> [Event -> Nat]] /\ timers \in [TimerId -> TranId \cup {Null}]
  BY DEF EInv, TypeOK
<1>6. /\ cpu' = Main /\ coroutines' = coroutines /\ state'[t] = "SUSPEND"
      /\ \A u \in TranId : u # t => state'[u] = state[u]
  BY <1>3, ToMain DEF EInv
<1>7. /\ inst'[t] = q /\ pc'[t] = "suspended" /\ pending'[t] = events /\ OnlyChanges(t)
      /\ inst' = [inst EXCEPT ![t] = q]
  BY <1>3, <1>5, <1>6, EngineAssumption DEF OnlyChanges, q
<1>8. TypeOK'
  <2>1. inst' \in [TranId -> Instance] /\ pending' \in [TranId -> [Event -> Nat]]
    BY <1>3, <1>4, <1>5, <1>7
  <2>2. pc' \in [TranId -> Pc]
    BY <1>3, <1>5 DEF Pc
  <2>3. timers' \in [TimerId -> TranId \cup {Null}]
    BY <1>3, <1>5
  <2> QED
    BY <1>3, <2>1, <2>2, <2>3, TypesKept DEF EInv, TypeOK
<1>9. Local(t)
  BY DEF EInv
<1>10. Placed(t)' /\ Reported(t)'
  BY <1>3, <1>6, <1>7, <1>9, EngineAssumption
     DEF Local, Placed, Mapped, Begun, Running, Reported
<1>11. Recorded(t)'
  BY <1>4, <1>6, <1>7, <1>9 DEF Local, Recorded, Allocated, Pc, Like, CmdsOf
<1>12. Awaits(t)'
  BY <1>4, <1>7 DEF Awaits
<1>13. TimersOwned'
  <2>1. ASSUME NEW i \in TimerId, timers'[i] # Null
        PROVE  pc'[timers'[i]] = "suspended" /\ inst'[timers'[i]].timer_id = i
    <3>1. CASE i = FreeTimer
      BY <1>2, <1>3, <1>4, <1>5, <1>7, <3>1
    <3>2. CASE i # FreeTimer
      <4>1. timers'[i] = timers[i] /\ timers[i] \in TranId
        BY <1>3, <1>5, <2>1, <3>2
      <4>2. pc[timers[i]] = "suspended" /\ inst[timers[i]].timer_id = i /\ timers[i] # t
        BY <2>1, <4>1 DEF EInv, TimersOwned
      <4> QED BY <1>7, <4>1, <4>2 DEF OnlyChanges
    <3> QED BY <3>1, <3>2
  <2>2. ASSUME NEW u \in TranId, inst'[u].timer_id # NoTimer
        PROVE  timers'[inst'[u].timer_id] = u
    <3>1. CASE u = t
      BY <1>2, <1>3, <1>4, <1>5, <1>7, <3>1
    <3>2. CASE u # t
      <4>1. inst'[u] = inst[u] /\ timers[inst[u].timer_id] = u
        BY <1>7, <2>2, <3>2 DEF OnlyChanges, EInv, TimersOwned
      <4>2. inst[u].timer_id # FreeTimer
        BY <1>2, <4>1, EngineAssumption
      <4>3. inst[u].timer_id \in TimerId
        BY <1>5, <2>2, <4>1 DEF Instance
      <4> QED BY <1>3, <1>5, <4>1, <4>2, <4>3
    <3> QED BY <3>1, <3>2
  <2> QED BY <2>1, <2>2 DEF TimersOwned
<1>14. pc[t] \in Allocated /\ pc[t] # "exited"
  BY DEF Allocated, Pc
<1> QED
  BY <1>3, <1>4, <1>7, <1>8, <1>10, <1>11, <1>12, <1>13, <1>14, StepOf, StaysApart
     DEF Local, Like

\* One turn of WaitForEvent returns or suspends.
LEMMA WaitForEventKeeps ==
  ASSUME EInv, SP!IInv', NEW t \in TranId, NEW r, NEW events \in [Event -> Nat], cpu = t,
         pc[t] \in {"do", "resumed"}, Like(r, inst[t]), r.curr_index = inst[t].curr_index,
         WaitForEvent(t, r, events)
  PROVE  EInv'
BY CommandReturnedKeeps, SuspendKeeps DEF WaitForEvent

LEMMA OnStartKeeps ==
  ASSUME EInv, SP!IInv', NEW t \in TranId, OnStart(t)
  PROVE  EInv'
<1>1. /\ Local(t) /\ pc[t] = "boot" /\ inst[t] \in Instance
      /\ UNCHANGED <<curr, coroutines, state, context, cpu, trans_map, destroy_list, upd, pending,
                     timers, result, done, undone>>
      /\ done' \in [TranId -> Seq(Nat)]
  BY DEF EInv, OnStart, RunsAt, TypeOK, schedVars, mgrVars, history
<1>2. PICK r \in AfterCallback(t) :
        \/ /\ inst' = [inst EXCEPT ![t] = [r EXCEPT !.fail_reason = "ERROR"]]
           /\ pc' = [pc EXCEPT ![t] = "tail"]
        \/ LET none == CmdsOf(t) = <<>>
           IN /\ inst' = [inst EXCEPT ![t] = IF none THEN r ELSE [r EXCEPT !.curr_index = 0]]
              /\ pc' = [pc EXCEPT ![t] = IF none THEN "tail" ELSE "do"]
  BY DEF OnStart
<1>3. Like(r, inst[t])
  BY <1>1, CallbackLike
<1>4. r \in Instance /\ pc[t] \in Running
  BY <1>1, <1>3 DEF Like, Running
<1> DEFINE failed == [r EXCEPT !.fail_reason = "ERROR"]
           first  == [r EXCEPT !.curr_index = 0]
<1>5. Like(failed, inst[t]) /\ Like(first, inst[t]) /\ first.curr_index = 0
  BY <1>3, <1>4 DEF Like, Instance
<1>6. CmdsOf(t) # <<>> => 0 < Len(CmdsOf(t))
  <2>1. pc[t] \in Allocated
    BY <1>1 DEF Allocated, Pc
  <2>2. Cmds[inst[t].type] \in Seq([Event -> Nat])
    BY <1>1, <2>1, EngineAssumption DEF Local, Recorded
  <2> QED BY <2>2 DEF CmdsOf
<1>7. CASE inst' = [inst EXCEPT ![t] = failed] /\ pc' = [pc EXCEPT ![t] = "tail"]
  <2> HIDE DEF failed
  <2> QED BY <1>1, <1>4, <1>5, <1>7, RunningKeeps
<1>8. CASE /\ CmdsOf(t) = <<>>
           /\ inst' = [inst EXCEPT ![t] = r] /\ pc' = [pc EXCEPT ![t] = "tail"]
  BY <1>1, <1>3, <1>4, <1>8, RunningKeeps
<1>9. CASE /\ CmdsOf(t) # <<>>
           /\ inst' = [inst EXCEPT ![t] = first] /\ pc' = [pc EXCEPT ![t] = "do"]
  <2>1. first.curr_index \in Nat /\ first.curr_index < Len(CmdsOf(t))
    BY <1>5, <1>6, <1>9
  <2> HIDE DEF first
  <2> QED BY <1>1, <1>4, <1>5, <1>9, <2>1, RunningKeeps
<1> QED BY <1>2, <1>7, <1>8, <1>9

LEMMA DoKeeps ==
  ASSUME EInv, SP!IInv', NEW t \in TranId, Do(t)
  PROVE  EInv'
<1>1. /\ Local(t) /\ pc[t] = "do" /\ cpu = t /\ inst[t] \in Instance
  BY DEF EInv, Do, RunsAt, TypeOK
<1>2. PICK r \in AfterCallback(t) :
       \/ CommandReturned(t, r, "ERROR")
       \/ CommandReturned(t, r, "OK")
       \/ WaitForEvent(t, r, CmdsOf(t)[r.curr_index + 1])
  BY DEF Do
<1>3. Like(r, inst[t]) /\ r.curr_index = inst[t].curr_index
  BY <1>1, CallbackLike
<1>4. CmdsOf(t)[r.curr_index + 1] \in [Event -> Nat]
  <2>1. pc[t] \in Allocated
    BY <1>1 DEF Allocated, Pc
  <2>2. Cmds[inst[t].type] \in Seq([Event -> Nat])
    BY <1>1, <2>1, EngineAssumption DEF Local, Recorded
  <2> QED BY <1>1, <1>3, <2>2 DEF Local, Recorded, CmdsOf
<1> QED BY <1>1, <1>2, <1>3, <1>4, CommandReturnedKeeps, WaitForEventKeeps

LEMMA OnRecvKeeps ==
  ASSUME EInv, SP!IInv', NEW t \in TranId, OnRecvMsgEvent(t)
  PROVE  EInv'
<1> DEFINE e    == inst[t].event_type
           left == [pending[t] EXCEPT ![e] = pending[t][e] - 1]
<1>1. /\ pc[t] = "resumed" /\ cpu = t /\ inst[t] \in Instance /\ e \in Event /\ pending[t][e] > 0
      /\ pending[t] \in [Event -> Nat]
  BY DEF EInv, OnRecvMsgEvent, RunsAt, TypeOK
<1>2. left \in [Event -> Nat]
  BY <1>1
<1>3. PICK r \in AfterCallback(t) : CommandReturned(t, r, "ERROR") \/ WaitForEvent(t, r, left)
  BY DEF OnRecvMsgEvent
<1>4. Like(r, inst[t]) /\ r.curr_index = inst[t].curr_index
  BY <1>1, CallbackLike
<1> HIDE DEF left
<1> QED BY <1>1, <1>2, <1>3, <1>4, CommandReturnedKeeps, WaitForEventKeeps

LEMMA OnAbortKeeps ==
  ASSUME EInv, SP!IInv', NEW t \in TranId, OnAbortEvent(t)
  PROVE  EInv'
<1> DEFINE r == [inst[t] EXCEPT !.fail_reason = "ABORT"]
<1>1. /\ pc[t] = "resumed" /\ cpu = t /\ inst[t] \in Instance
      /\ pending[t] \in [Event -> Nat] /\ WaitForEvent(t, r, pending[t])
  BY DEF EInv, OnAbortEvent, RunsAt, TypeOK
<1>2. Like(r, inst[t]) /\ r.curr_index = inst[t].curr_index
  BY <1>1 DEF Like, Instance
<1> HIDE DEF r
<1> QED BY <1>1, <1>2, WaitForEventKeeps

LEMMA OnTimeoutKeeps ==
  ASSUME EInv, SP!IInv', NEW t \in TranId, OnTimeout(t)
  PROVE  EInv'
<1>1. /\ pc[t] = "resumed" /\ cpu = t /\ inst[t] \in Instance /\ pending[t] \in [Event -> Nat]
  BY DEF EInv, OnTimeout, RunsAt, TypeOK
<1>2. PICK r \in AfterCallback(t) :
        CommandReturned(t, r, "ERROR") \/ WaitForEvent(t, r, pending[t])
  BY DEF OnTimeout
<1>3. Like(r, inst[t]) /\ r.curr_index = inst[t].curr_index
  BY <1>1, CallbackLike
<1> QED BY <1>1, <1>2, <1>3, CommandReturnedKeeps, WaitForEventKeeps

LEMMA ExitedLike ==
  ASSUME NEW s \in Instance
  PROVE  LET r == [Completed(s) EXCEPT !.is_delay_destroying = TRUE]
         IN /\ r \in Instance /\ r.is_delay_destroying
            /\ r.type = s.type /\ r.addr = s.addr /\ r.coroutine_id = s.coroutine_id
            /\ r.timer_id = s.timer_id /\ Completed(s).addr = s.addr
            /\ Completed(s).is_delay_destroying = s.is_delay_destroying
<1>1. PICK b \in BOOLEAN : Completed(s) = [s EXCEPT !.is_complete = b]
  <2>1. (s.is_complete \/ ~IsFailed(s)) \in BOOLEAN
    BY DEF Instance, IsFailed
  <2> QED BY <2>1 DEF Completed
<1> QED BY <1>1 DEF Instance

LEMMA ExitKeeps ==
  ASSUME EInv, SP!IInv', NEW t \in TranId, Exit(t)
  PROVE  EInv'
<1>1. Local(t) /\ pc[t] = "tail" /\ cpu = t /\ inst[t] \in Instance /\ pc[t] \in Allocated
  BY DEF EInv, Exit, RunsAt, TypeOK, Allocated, Pc
<1>2. ~inst[t].is_delay_destroying /\ inst[t].addr \in Addr
  BY <1>1 DEF Local, Recorded
<1> DEFINE r == [Completed(inst[t]) EXCEPT !.is_delay_destroying = TRUE]
<1>3. /\ r \in Instance /\ r.is_delay_destroying
      /\ r.type = inst[t].type /\ r.addr = inst[t].addr /\ r.coroutine_id = inst[t].coroutine_id
      /\ r.timer_id = inst[t].timer_id /\ Completed(inst[t]).addr = inst[t].addr
      /\ ~Completed(inst[t]).is_delay_destroying
  BY <1>1, <1>2, ExitedLike
<1>4. /\ inst' = [inst EXCEPT ![t] = r] /\ pc' = [pc EXCEPT ![t] = "exited"]
      /\ destroy_list' = destroy_list \cup {inst[t].addr} /\ trans_map' = trans_map \ {t}
      /\ pending' = [pending EXCEPT ![t] = NoEvents]
      /\ Sched!WorkRoutineExit
      /\ UNCHANGED <<upd, timers, result, done, undone>>
  BY <1>3 DEF Exit, history
<1> HIDE DEF r
<1>5. /\ cpu' = Main /\ coroutines' = coroutines /\ state'[t] = "DEAD"
      /\ \A u \in TranId : u # t => state'[u] = state[u]
  BY <1>1, <1>4, ToExit DEF EInv
<1>6. /\ inst \in [TranId -> Instance] /\ pc \in [TranId -> Pc]
      /\ pending \in [TranId -> [Event -> Nat]]
  BY DEF EInv, TypeOK
<1>7. inst'[t] = r /\ pc'[t] = "exited" /\ OnlyChanges(t)
  BY <1>1, <1>4, <1>5, <1>6, EngineAssumption DEF OnlyChanges
<1>8. TypeOK'
  <2>1. inst' \in [TranId -> Instance] /\ pending' \in [TranId -> [Event -> Nat]]
    BY <1>3, <1>4, <1>6 DEF NoEvents
  <2>2. pc' \in [TranId -> Pc]
    BY <1>4, <1>6 DEF Pc
  <2> QED
    BY <1>2, <1>4, <2>1, <2>2, TypesKept DEF EInv, TypeOK
<1>9. ~(upd.handling /\ upd.at = inst[t].addr)
  BY <1>1 DEF EInv, HandlesOne, Addresses, Allocated, Pc
<1>10. Placed(t)' /\ Awaits(t)' /\ Reported(t)'
  BY <1>1, <1>3, <1>4, <1>5, <1>7, <1>9, EngineAssumption
     DEF Local, Placed, Mapped, Begun, Running, Awaits, Reported
<1>11. Recorded(t)'
  BY <1>1, <1>3, <1>5, <1>7 DEF Local, Recorded, Allocated, Pc
<1>12. \A u \in TranId : Local(u)'
  BY <1>4, <1>7, <1>10, <1>11, OthersKeep DEF EInv, Local
<1>13. TimersOwned'
  BY <1>1, <1>3, <1>4, <1>7, TimersUntouched, NoTimerElsewhere
<1>14. Addresses'
  BY <1>1, <1>3, <1>7 DEF EInv, Addresses, OnlyChanges
<1>15. UpdateMeetsLiveInstances' /\ HandlesOne'
  BY <1>1, <1>3, <1>4, <1>5, <1>7 DEF EInv, UpdateMeetsLiveInstances, HandlesOne, Ahead, OnlyChanges
<1> QED BY <1>8, <1>12, <1>13, <1>14, <1>15 DEF EInv

-----------------------------------------------------------------------------
(* Events.                                                                 *)

\* A message reaches an instance that is neither starting nor executing: it is
\* suspended.
LEMMA ReceiverWaits ==
  ASSUME EInv, NEW t \in TranId, t \in trans_map, ~Starting, cpu # t
  PROVE  pc[t] = "suspended"
BY DEF EInv, Local, Placed, Mapped, Running, Starting

LEMMA DeliveredLike ==
  ASSUME NEW s \in Instance, NEW msg \in Event \cup DefaultEvent, NEW b \in BOOLEAN
  PROVE  LET r == IF b THEN [[s EXCEPT !.timer_id = NoTimer] EXCEPT !.event_type = msg]
                  ELSE [s EXCEPT !.timer_id = NoTimer]
         IN /\ r \in Instance /\ r.timer_id = NoTimer /\ r.events = s.events
            /\ r.waiting_index = s.waiting_index /\ r.curr_index = s.curr_index
            /\ r.type = s.type /\ r.addr = s.addr /\ r.coroutine_id = s.coroutine_id
            /\ r.is_delay_destroying = s.is_delay_destroying
<1>1. CASE b
  BY <1>1 DEF Instance, NoTimer
<1>2. CASE ~b
  BY <1>2 DEF Instance, NoTimer
<1> QED BY <1>1, <1>2

\* Deliver, once the timer of the wait is gone.
LEMMA DeliverKeeps ==
  ASSUME EInv, SP!IInv', NEW t \in TranId, NEW msg \in Event \cup DefaultEvent,
         pc[t] = "suspended",
         timers' = [i \in TimerId |-> IF i = inst[t].timer_id THEN Null ELSE timers[i]],
         Deliver(t, msg),
         UNCHANGED <<mgrVars, pending, history>>
  PROVE  EInv'
<1> DEFINE b == msg \in DefaultEvent \/ inst[t].events[msg] > 0
           r == IF b THEN [[inst[t] EXCEPT !.timer_id = NoTimer] EXCEPT !.event_type = msg]
                ELSE [inst[t] EXCEPT !.timer_id = NoTimer]
<1>1. /\ inst \in [TranId -> Instance] /\ pc \in [TranId -> Pc]
      /\ timers \in [TimerId -> TranId \cup {Null}]
  BY DEF EInv, TypeOK
<1>2. /\ r \in Instance /\ r.timer_id = NoTimer /\ r.events = inst[t].events
      /\ r.waiting_index = inst[t].waiting_index /\ r.curr_index = inst[t].curr_index
      /\ r.type = inst[t].type /\ r.addr = inst[t].addr /\ r.coroutine_id = inst[t].coroutine_id
      /\ r.is_delay_destroying = inst[t].is_delay_destroying
  <2>1. b \in BOOLEAN /\ inst[t] \in Instance
    BY <1>1
  <2> HIDE DEF b
  <2> QED BY <2>1, DeliveredLike
<1>3. [inst[t] EXCEPT !.timer_id = NoTimer].events = inst[t].events
      /\ [inst[t] EXCEPT !.timer_id = NoTimer].coroutine_id = inst[t].coroutine_id
  BY <1>1 DEF Instance
<1>4. inst' = [inst EXCEPT ![t] = r]
  BY <1>3 DEF Deliver, IsDefaultEvent, SetEventArg
<1>5. \/ Sched!SwapToWorkRoutine(inst[t].coroutine_id) /\ pc' = [pc EXCEPT ![t] = "resumed"]
      \/ UNCHANGED <<curr, coroutines, state, context, cpu, pc>>
  BY <1>3 DEF Deliver, IsDefaultEvent, SetEventArg, schedVars
<1>6. UNCHANGED <<trans_map, destroy_list, upd, pending, result, done, undone>>
  BY DEF mgrVars, history
<1> HIDE DEF r
<1>7. Local(t) /\ inst[t].coroutine_id = t /\ pc[t] \in Allocated
  BY DEF EInv, Local, Placed, Recorded, Begun, Mapped, Allocated, Pc
<1>8. /\ inst'[t] = r /\ coroutines' = coroutines
      /\ \/ pc'[t] = "resumed" /\ cpu = Main /\ cpu' = t
         \/ pc'[t] = "suspended" /\ cpu' = cpu /\ state' = state
      /\ pc' \in [TranId -> Pc]
      /\ OnlyChanges(t)
  <2>1. CASE /\ Sched!SwapToWorkRoutine(inst[t].coroutine_id)
             /\ pc' = [pc EXCEPT ![t] = "resumed"]
    <3>1. /\ cpu = Main /\ cpu' = t /\ coroutines' = coroutines
          /\ \A u \in TranId : u # t => state'[u] = state[u]
      BY <1>7, <2>1, ToWork DEF EInv
    <3>2. pc' \in [TranId -> Pc]
      BY <1>1, <2>1 DEF Pc
    <3> QED BY <1>1, <1>4, <1>6, <2>1, <3>1, <3>2, EngineAssumption DEF OnlyChanges
  <2>2. CASE UNCHANGED <<curr, coroutines, state, context, cpu, pc>>
    BY <1>1, <1>4, <1>6, <2>2 DEF OnlyChanges
  <2> QED BY <1>5, <2>1, <2>2
<1>9. TypeOK'
  <2>1. inst' \in [TranId -> Instance] /\ timers' \in [TimerId -> TranId \cup {Null}]
    BY <1>1, <1>2, <1>4
  <2> QED BY <1>6, <1>8, <2>1, TypesKept DEF EInv, TypeOK
<1>10. Placed(t)'
  <2>1. cpu' = t => state'[t] = "RUN"
    BY DEF SP!IInv, SP!BooksMatchCpu, SP!Routine
  <2> QED
    BY <1>6, <1>7, <1>8, <2>1 DEF Local, Placed, Mapped, Begun, Running
<1>11. Recorded(t)' /\ Awaits(t)' /\ Reported(t)'
  BY <1>2, <1>6, <1>7, <1>8 DEF Local, Recorded, Allocated, Pc, CmdsOf, Awaits, Reported
<1>12. TimersOwned'
  <2>1. ASSUME NEW i \in TimerId, timers'[i] # Null
        PROVE  pc'[timers'[i]] = "suspended" /\ inst'[timers'[i]].timer_id = i
    <3>1. timers'[i] = timers[i] /\ i # inst[t].timer_id /\ timers[i] \in TranId
      BY <1>1, <2>1
    <3>2. pc[timers[i]] = "suspended" /\ inst[timers[i]].timer_id = i /\ timers[i] # t
      BY <2>1, <3>1 DEF EInv, TimersOwned
    <3> QED BY <1>8, <3>1, <3>2 DEF OnlyChanges
  <2>2. ASSUME NEW u \in TranId, inst'[u].timer_id # NoTimer
        PROVE  timers'[inst'[u].timer_id] = u
    <3>1. u # t /\ inst'[u] = inst[u]
      BY <1>2, <1>8, <2>2 DEF OnlyChanges
    <3>2. timers[inst[u].timer_id] = u /\ inst[u].timer_id \in TimerId
      BY <1>1, <2>2, <3>1 DEF EInv, TimersOwned, Instance
    <3>3. inst[u].timer_id # inst[t].timer_id
      <4>1. CASE inst[t].timer_id # NoTimer
        BY <3>1, <3>2, <4>1 DEF EInv, TimersOwned
      <4> QED BY <2>2, <3>1, <4>1
    <3> QED BY <3>1, <3>2, <3>3
  <2> QED BY <2>1, <2>2 DEF TimersOwned
<1>13. pc[t] # "exited" /\ pc'[t] # "exited"
  BY <1>8
<1> QED
  BY <1>2, <1>6, <1>7, <1>8, <1>9, <1>10, <1>11, <1>12, <1>13, StepOf, StaysApart DEF Local

LEMMA SendKeeps ==
  ASSUME EInv, SP!IInv', NEW t \in TranId, NEW msg \in Event \cup DefaultEvent,
         ~Starting, cpu # t, SendMsgEventToTran(t, msg)
  PROVE  EInv'
BY ReceiverWaits, DeliverKeeps DEF SendMsgEventToTran, SendMsgEvent

LEMMA AppStepKeeps ==
  ASSUME EInv, SP!IInv', NEW t \in TranId, AppStep(t)
  PROVE  EInv'
<1>1. CASE AppStarts(t)
  BY <1>1, StartKeeps DEF AppStarts
<1>2. CASE AppSends(t)
  BY <1>2, SendKeeps, EngineAssumption DEF AppSends, AppInMain
<1>3. CASE AppAborts(t)
  BY <1>3, SendKeeps, EngineAssumption DEF AppAborts, AppInMain, DefaultEvent
<1>4. CASE PeerSends(t)
  BY <1>4, SendKeeps DEF PeerSends, AppInCoroutine, DefaultEvent
<1> QED BY <1>1, <1>2, <1>3, <1>4 DEF AppStep, CallGM

LEMMA TimerFiresKeeps ==
  ASSUME EInv, SP!IInv', NEW i \in TimerId, TimerFires(i)
  PROVE  EInv'
<1> DEFINE t == timers[i]
<1>1. t \in TranId /\ pc[t] = "suspended" /\ inst[t].timer_id = i
  BY DEF TimerFires, EInv, TypeOK, TimersOwned
<1>2. t \in trans_map
  BY <1>1 DEF EInv, Local, Placed, Mapped
<1>3. timers' = [j \in TimerId |-> IF j = inst[t].timer_id THEN Null ELSE timers[j]]
  BY <1>1 DEF TimerFires, EInv, TypeOK
<1>4. Deliver(t, "TIMEOUT") /\ UNCHANGED <<mgrVars, pending, history>>
  BY <1>2 DEF TimerFires
<1> HIDE DEF t
<1> QED BY <1>1, <1>3, <1>4, DeliverKeeps DEF DefaultEvent

-----------------------------------------------------------------------------
(* Update.                                                                 *)

\* An address is the one instance's that lies there.
LEMMA InstanceThere ==
  ASSUME EInv, NEW t \in TranId, pc[t] \in Allocated
  PROVE  InstAt(inst[t].addr) = t
<1>1. inst[t].addr \in Addr
  BY DEF EInv, Local, Recorded
<1>2. ASSUME NEW u \in TranId, inst[u].addr = inst[t].addr
      PROVE  u = t
  <2>1. pc[u] \in Allocated
    BY <1>1, <1>2, EngineAssumption DEF EInv, Local, Recorded, NoInstance
  <2> QED BY <1>2, <2>1 DEF EInv, Addresses
<1>3. \E u \in TranId : inst[u].addr = inst[t].addr
  OBVIOUS
<1>4. InstAt(inst[t].addr) \in TranId /\ inst[InstAt(inst[t].addr)].addr = inst[t].addr
  BY <1>3 DEF InstAt
<1> QED BY <1>2, <1>4

LEMMA OutcomeIsSome ==
  ASSUME EInv, cpu = Main, NEW r
  PROVE  Outcome(r) \in {"success", "abort", "fail"}
BY BooksSay DEF EInv, Outcome

\* The fields of an instance, its coroutine taken away.
LEMMA ForgetsCoroutine ==
  ASSUME NEW s \in Instance
  PROVE  LET r == [s EXCEPT !.coroutine_id = NoCo]
         IN /\ r \in Instance /\ r.coroutine_id = NoCo /\ r.timer_id = s.timer_id
            /\ r.addr = s.addr /\ r.type = s.type /\ r.is_delay_destroying = s.is_delay_destroying
BY DEF Instance, NoCo

LEMMA UpdateTakesNextKeeps ==
  ASSUME EInv, SP!IInv', UpdateTakesNext
  PROVE  EInv'
<1>1. PICK a \in Ahead :
        LET t == InstAt(a)
        IN /\ \A b \in Ahead : a <= b
           /\ IF inst[t].coroutine_id # NoCo
              THEN Sched!DestroyWorkRoutine(inst[t].coroutine_id)
              ELSE UNCHANGED schedVars
           /\ inst' = [inst EXCEPT ![t].coroutine_id = NoCo]
           /\ result' = [result EXCEPT ![t] = Outcome(inst[t])]
           /\ upd' = [at |-> a, handling |-> TRUE]
  BY DEF UpdateTakesNext
<1>2. PICK t \in TranId : inst[t].addr = a /\ pc[t] = "exited"
  BY DEF EInv, UpdateMeetsLiveInstances
<1>3. InstAt(a) = t
  BY <1>2, InstanceThere DEF Allocated, Pc
<1>4. /\ inst \in [TranId -> Instance] /\ pc \in [TranId -> Pc] /\ destroy_list \subseteq Addr
      /\ result \in [TranId -> {"none", "success", "fail", "abort"}] /\ upd.at \in Nat
      /\ a \in Addr /\ a \in destroy_list /\ a > upd.at /\ Addr \subseteq Nat
  <2>1. TypeOK /\ a \in destroy_list /\ a > upd.at
    BY DEF EInv, Ahead
  <2>2. upd \in [at : Addr \cup {0}, handling : BOOLEAN] /\ Addr \subseteq Nat
    BY <2>1, EngineAssumption DEF TypeOK
  <2>3. upd.at \in Addr \cup {0}
    BY <2>2
  <2>4. /\ inst \in [TranId -> Instance] /\ pc \in [TranId -> Pc] /\ destroy_list \subseteq Addr
        /\ result \in [TranId -> {"none", "success", "fail", "abort"}]
    BY <2>1 DEF TypeOK
  <2>5. upd.at \in Nat
    <3>1. CASE upd.at = 0
      BY <3>1
    <3>2. CASE upd.at \in Addr
      BY <3>2, EngineAssumption
    <3> QED BY <2>3, <3>1, <3>2
  <2> QED BY <2>1, <2>2, <2>4, <2>5
<1>5. /\ cpu = Main /\ ~upd.handling
      /\ UNCHANGED <<trans_map, destroy_list, pc, pending, timers, done, undone>>
  BY DEF UpdateTakesNext
<1> DEFINE r == [inst[t] EXCEPT !.coroutine_id = NoCo]
<1>6. /\ inst' = [inst EXCEPT ![t] = r]
      /\ result' = [result EXCEPT ![t] = Outcome(inst[t])]
      /\ upd' = [at |-> a, handling |-> TRUE]
  BY <1>1, <1>3
<1>7. /\ r \in Instance /\ r.coroutine_id = NoCo /\ r.timer_id = inst[t].timer_id
      /\ r.addr = a /\ r.type = inst[t].type /\ r.is_delay_destroying = inst[t].is_delay_destroying
  <2>1. inst[t] \in Instance
    BY <1>4
  <2> QED BY <1>2, <2>1, ForgetsCoroutine
<1> HIDE DEF r
<1>8. Local(t) /\ cpu # t /\ t \in TranId
  BY <1>5, EngineAssumption DEF EInv
<1>9. /\ cpu' = cpu /\ t \notin coroutines'
      /\ \A u \in TranId : u # t => (u \in coroutines' <=> u \in coroutines) /\ state'[u] = state[u]
  <2>1. CASE t \in coroutines
    <3>1. Sched!DestroyWorkRoutine(t)
      BY <1>1, <1>3, <1>8, <2>1, EngineAssumption DEF Local, Recorded, NoCo
    <3> QED BY <3>1, Destroys DEF EInv
  <2>2. CASE t \notin coroutines
    <3>1. UNCHANGED schedVars
      BY <1>1, <1>3, <1>8, <2>2 DEF Local, Recorded
    <3> QED BY <2>2, <3>1 DEF schedVars
  <2> QED BY <2>1, <2>2
<1>10. state'[t] = "UNINIT"
  BY <1>9, BooksSay DEF SP!IInv, SP!RegisteredIffInited
<1>11. inst'[t] = r /\ result'[t] = Outcome(inst[t]) /\ OnlyChanges(t)
  BY <1>4, <1>5, <1>6, <1>8, <1>9 DEF OnlyChanges
<1>12. Outcome(inst[t]) \in {"success", "abort", "fail"}
  BY <1>5, OutcomeIsSome
<1>13. TypeOK'
  <2>1. inst' \in [TranId -> Instance]
    BY <1>4, <1>6, <1>7
  <2>2. result' \in [TranId -> {"none", "success", "fail", "abort"}]
    BY <1>4, <1>6, <1>12
  <2>3. upd' \in [at : Addr \cup {0}, handling : BOOLEAN]
    BY <1>4, <1>6
  <2> QED BY <1>5, <2>1, <2>2, <2>3, TypesKept DEF EInv, TypeOK
<1>14. ASSUME NEW u \in TranId PROVE Local(u)'
  <2>1. CASE u = t
    <3>1. Placed(t)'
      BY <1>2, <1>5, <1>8, <1>9, <1>10 DEF Local, Placed, Mapped, Begun, Running
    <3>2. Recorded(t)' /\ Awaits(t)'
      BY <1>2, <1>5, <1>7, <1>8, <1>9, <1>11, EngineAssumption
         DEF Local, Recorded, Awaits, Allocated, Pc, CmdsOf, NoCo
    <3>3. Reported(t)'
      BY <1>2, <1>5, <1>6, <1>7, <1>11, <1>12 DEF Reported
    <3> QED BY <2>1, <3>1, <3>2, <3>3 DEF Local
  <2>2. CASE u # t
    <3>1. Placed(u)' /\ Recorded(u)' /\ Awaits(u)'
      BY <1>11, <2>2, OthersKeep DEF EInv
    <3>2. pc[u] = "exited" => inst[u].addr # a
      BY <1>2, <2>2 DEF EInv, Addresses, Allocated, Pc
    <3>3. Reported(u)'
      BY <1>5, <1>6, <1>11, <2>2, <3>2 DEF EInv, Local, Reported, OnlyChanges
    <3> QED BY <3>1, <3>3 DEF Local
  <2> QED BY <2>1, <2>2
<1>15. TimersOwned'
  <2>1. inst[t].timer_id = NoTimer
    BY <1>2, NoTimerElsewhere
  <2> QED BY <1>2, <1>5, <1>7, <1>11, <2>1, TimersUntouched
<1>16. Addresses'
  BY <1>2, <1>5, <1>7, <1>11 DEF EInv, Addresses, OnlyChanges
<1>17. UpdateMeetsLiveInstances'
  <2>1. \A x \in Ahead' : x \in Ahead
    <3>1. ASSUME NEW x \in Ahead' PROVE x \in destroy_list /\ x > a
      BY <1>5, <1>6 DEF Ahead
    <3>2. ASSUME NEW x \in destroy_list, x > a PROVE x > upd.at
      BY <1>4, <3>2
    <3> QED BY <3>1, <3>2 DEF Ahead
  <2>2. \A u \in TranId : inst'[u].addr = inst[u].addr
    BY <1>2, <1>7, <1>11 DEF OnlyChanges
  <2> QED BY <1>5, <2>1, <2>2 DEF EInv, UpdateMeetsLiveInstances
<1>18. HandlesOne'
  BY <1>2, <1>5, <1>6, <1>7, <1>9, <1>11 DEF HandlesOne
<1> QED BY <1>13, <1>14, <1>15, <1>16, <1>17, <1>18 DEF EInv

LEMMA UpdateReleasesKeeps ==
  ASSUME EInv, SP!IInv', UpdateReleases
  PROVE  EInv'
<1>1. PICK t \in TranId : inst[t].addr = upd.at /\ pc[t] = "exited" /\ t \notin coroutines
  BY DEF EInv, HandlesOne, UpdateReleases
<1>2. InstAt(upd.at) = t
  BY <1>1, InstanceThere DEF Allocated, Pc
<1>3. /\ cpu = Main /\ upd.handling
      /\ undone' = [undone EXCEPT ![t] = @ \o UndoList(t)]
      /\ inst' = [inst EXCEPT ![t] = NoInstance]
      /\ pc' = [pc EXCEPT ![t] = "released"]
      /\ upd' = [upd EXCEPT !.handling = FALSE]
      /\ UNCHANGED <<schedVars, trans_map, destroy_list, pending, timers, result, done>>
  BY <1>2 DEF UpdateReleases
<1>4. /\ inst \in [TranId -> Instance] /\ pc \in [TranId -> Pc] /\ undone \in [TranId -> Seq(Nat)]
      /\ upd \in [at : Addr \cup {0}, handling : BOOLEAN] /\ Local(t)
  BY DEF EInv, TypeOK
<1>5. /\ inst'[t] = NoInstance /\ pc'[t] = "released" /\ upd'.at = upd.at /\ ~upd'.handling
      /\ UNCHANGED <<curr, coroutines, state, context, cpu>>
      /\ OnlyChanges(t)
  BY <1>3, <1>4 DEF schedVars, OnlyChanges
<1>6. NoInstance \in Instance /\ NoInstance.timer_id = NoTimer /\ NoInstance.addr = 0
      /\ NoInstance.coroutine_id = NoCo /\ ~NoInstance.is_delay_destroying
  BY DEF NoInstance, Instance, NoEvents, NoCo, NoTimer
<1>7. TypeOK'
  <2>1. inst' \in [TranId -> Instance] /\ pc' \in [TranId -> Pc]
    BY <1>3, <1>4, <1>6 DEF Pc
  <2>2. upd' \in [at : Addr \cup {0}, handling : BOOLEAN]
    BY <1>3, <1>4
  <2>3. UndoList(t) \in Seq(Nat)
    <3>1. inst[t].fail_index \in Nat \cup {Null}
      BY <1>4 DEF Instance
    <3>2. CASE inst[t].fail_index = Null
      BY <3>2 DEF UndoList
    <3>3. CASE inst[t].fail_index \in Nat
      <4>1. [k \in 1..inst[t].fail_index |-> inst[t].fail_index - k] \in Seq(Nat)
        BY <3>3
      <4> QED BY <4>1 DEF UndoList
    <3> QED BY <3>1, <3>2, <3>3
  <2>4. undone' \in [TranId -> Seq(Nat)]
    <3>1. undone[t] \o UndoList(t) \in Seq(Nat)
      BY <1>4, <2>3
    <3>2. undone' = [undone EXCEPT ![t] = undone[t] \o UndoList(t)]
      BY <1>3
    <3> HIDE DEF UndoList
    <3> QED BY <1>4, <3>1, <3>2
  <2> QED BY <1>3, <1>5, <2>1, <2>2, <2>4, TypesKept DEF EInv, TypeOK
<1>8. ASSUME NEW u \in TranId PROVE Local(u)'
  <2>1. CASE u = t
    <3>1. Placed(t)' /\ Recorded(t)'
      BY <1>1, <1>3, <1>4, <1>5, <1>6
         DEF Local, Placed, Recorded, Mapped, Begun, Running, Allocated
    <3>2. Awaits(t)' /\ Reported(t)'
      BY <1>1, <1>3, <1>4, <1>5 DEF Local, Awaits, Reported
    <3> QED BY <2>1, <3>1, <3>2 DEF Local
  <2>2. CASE u # t
    <3>1. Placed(u)' /\ Recorded(u)' /\ Awaits(u)'
      BY <1>5, <2>2, OthersKeep DEF EInv
    <3>2. pc[u] = "exited" => inst[u].addr # upd.at
      BY <1>1, <2>2 DEF EInv, Addresses, Allocated, Pc
    <3>3. Reported(u)'
      BY <1>3, <1>5, <2>2, <3>2 DEF EInv, Local, Reported, OnlyChanges
    <3> QED BY <3>1, <3>3 DEF Local
  <2> QED BY <2>1, <2>2
<1>9. TimersOwned'
  BY <1>1, <1>3, <1>5, <1>6, TimersUntouched
<1>10. Addresses'
  BY <1>5 DEF EInv, Addresses, OnlyChanges, Allocated
<1>11. UpdateMeetsLiveInstances'
  <2>1. ASSUME NEW x \in Ahead'
        PROVE  \E u \in TranId : inst'[u].addr = x /\ pc'[u] = "exited"
    <3>1. x \in Ahead /\ x # upd.at
      BY <1>3, <1>5, EngineAssumption DEF EInv, TypeOK, Ahead
    <3>2. PICK u \in TranId : inst[u].addr = x /\ pc[u] = "exited"
      BY <3>1 DEF EInv, UpdateMeetsLiveInstances
    <3>3. u # t
      BY <1>1, <3>1, <3>2
    <3> QED BY <1>5, <3>2, <3>3 DEF OnlyChanges
  <2> QED BY <2>1 DEF UpdateMeetsLiveInstances
<1>12. HandlesOne'
  BY <1>5 DEF HandlesOne
<1> QED BY <1>7, <1>8, <1>9, <1>10, <1>11, <1>12 DEF EInv

LEMMA UpdateEndsKeeps ==
  ASSUME EInv, SP!IInv', UpdateEnds
  PROVE  EInv'
<1>1. /\ ~upd.handling /\ destroy_list' = {} /\ upd' = [at |-> 0, handling |-> FALSE]
      /\ UNCHANGED <<curr, coroutines, state, context, cpu, trans_map, inst, pc, pending, timers,
                     result, done, undone>>
  BY DEF UpdateEnds, schedVars, history
<1>2. TypeOK'
  BY <1>1, TypesKept DEF EInv, TypeOK
<1>3. ASSUME NEW u \in TranId PROVE Local(u)'
  <2>1. Local(u)
    BY DEF EInv
  <2>2. Placed(u)' /\ Recorded(u)' /\ Awaits(u)'
    BY <1>1, <2>1 DEF Local, Placed, Recorded, Awaits, CmdsOf
  <2>3. Reported(u)'
    BY <1>1, <2>1 DEF Local, Reported
  <2> QED BY <2>2, <2>3 DEF Local
<1>4. TimersOwned' /\ Addresses'
  BY <1>1 DEF EInv, TimersOwned, Addresses
<1>5. UpdateMeetsLiveInstances' /\ HandlesOne'
  BY <1>1 DEF UpdateMeetsLiveInstances, Ahead, HandlesOne
<1> QED BY <1>2, <1>3, <1>4, <1>5 DEF EInv

LEMMA StutterKeeps ==
  ASSUME EInv, UNCHANGED vars
  PROVE  EInv'
<1>1. UNCHANGED <<curr, coroutines, state, context, cpu, trans_map, destroy_list, upd, inst, pc,
                  pending, timers, result, done, undone>>
  BY DEF vars, schedVars, mgrVars, history
<1>2. SP!IInv'
  BY <1>1 DEF EInv, SP!IInv, SP!TypeOK, SP!BooksMatchCpu, SP!RunningIsMapped,
              SP!RegisteredIffInited, SP!ContextsResumable, SP!Resumable, SP!Routine
<1>3. TypeOK'
  BY <1>1, <1>2, TypesKept DEF EInv, TypeOK
<1>4. \A u \in TranId : Local(u)'
  BY <1>1 DEF EInv, Local, Placed, Recorded, Awaits, Reported, CmdsOf
<1>5. TimersOwned' /\ Addresses' /\ UpdateMeetsLiveInstances' /\ HandlesOne'
  BY <1>1 DEF EInv, TimersOwned, Addresses, UpdateMeetsLiveInstances, Ahead, HandlesOne
<1> QED BY <1>2, <1>3, <1>4, <1>5 DEF EInv

-----------------------------------------------------------------------------
(* All steps.                                                              *)

\* A step of the engine is one of the scheduler, which destroys no routine
\* that executes, or none.
LEMMA SchedulerRespected == EInv /\ [Next]_vars => [Sched!Next]_(Sched!vars)
<1> SUFFICES ASSUME EInv, [Next]_vars
             PROVE  Sched!Next \/ UNCHANGED schedVars
  BY DEF Sched!vars, schedVars
<1> USE DEF Sched!Next
<1>1. ASSUME NEW t \in TranId, StartStep(t) PROVE Sched!Next \/ UNCHANGED schedVars
  <2>1. CASE pc[t] = "created"
    <3>1. inst[t].coroutine_id = t /\ cpu # t
      BY <2>1 DEF EInv, Local, Placed, Recorded, Mapped, Begun, Running
    <3> QED
      BY <1>1, <2>1, <3>1 DEF StartStep, CreateCoroutine, CreateCoroutineFails, EnterCoroutine,
                              EnterCoroutineFails
  <2>2. CASE pc[t] # "created"
    BY <1>1, <2>2 DEF StartStep, CreateCoroutine, CreateCoroutineFails, EnterCoroutine,
                      EnterCoroutineFails
  <2> QED BY <2>1, <2>2
<1>2. ASSUME NEW t \in TranId, NEW r, NEW err, CommandReturned(t, r, err)
      PROVE  UNCHANGED schedVars
  BY <1>2 DEF CommandReturned
<1>3. ASSUME NEW t \in TranId, NEW r, NEW events, WaitForEvent(t, r, events)
      PROVE  Sched!Next \/ UNCHANGED schedVars
  BY <1>2, <1>3 DEF WaitForEvent, Suspend
<1>4. ASSUME NEW t \in TranId, CoroutineStep(t) PROVE Sched!Next \/ UNCHANGED schedVars
  BY <1>2, <1>3, <1>4
     DEF CoroutineStep, OnStart, Do, OnRecvMsgEvent, OnAbortEvent, OnTimeout, Exit
<1>5. ASSUME NEW t \in TranId, NEW msg, pc[t] = "suspended", Deliver(t, msg)
      PROVE  Sched!Next \/ UNCHANGED schedVars
  <2>1. inst[t] \in Instance /\ inst[t].coroutine_id = t
    BY <1>5 DEF EInv, TypeOK, Local, Placed, Recorded, Begun, Mapped
  <2>2. [inst[t] EXCEPT !.timer_id = NoTimer].coroutine_id = t
    BY <2>1 DEF Instance
  <2> QED BY <1>5, <2>2 DEF Deliver, IsDefaultEvent, SetEventArg
<1>6. ASSUME NEW t \in TranId, AppStep(t) PROVE Sched!Next \/ UNCHANGED schedVars
  <2>1. CASE AppStarts(t)
    BY <2>1 DEF AppStarts, StartCommonTransaction
  <2>2. ASSUME NEW msg, ~Starting, cpu # t, SendMsgEventToTran(t, msg)
        PROVE  Sched!Next \/ UNCHANGED schedVars
    BY <1>5, <2>2, ReceiverWaits DEF SendMsgEventToTran, SendMsgEvent
  <2>3. CASE AppSends(t) \/ AppAborts(t)
    BY <2>2, <2>3, EngineAssumption DEF AppSends, AppAborts, AppInMain
  <2>4. CASE PeerSends(t)
    BY <2>2, <2>4 DEF PeerSends, AppInCoroutine
  <2> QED BY <1>6, <2>1, <2>3, <2>4 DEF AppStep, CallGM
<1>7. ASSUME NEW i \in TimerId, TimerFires(i) PROVE Sched!Next \/ UNCHANGED schedVars
  <2>1. timers[i] \in TranId /\ pc[timers[i]] = "suspended"
    BY <1>7 DEF TimerFires, EInv, TypeOK, TimersOwned
  <2> QED BY <1>5, <1>7, <2>1 DEF TimerFires
<1>8. CASE UpdateStep
  <2>1. CASE UpdateTakesNext
    <3>1. PICK a \in Ahead :
            \/ inst[InstAt(a)].coroutine_id = NoCo /\ UNCHANGED schedVars
            \/ /\ inst[InstAt(a)].coroutine_id # NoCo
               /\ Sched!DestroyWorkRoutine(inst[InstAt(a)].coroutine_id)
      BY <2>1 DEF UpdateTakesNext
    <3>2. PICK t \in TranId : inst[t].addr = a /\ pc[t] = "exited"
      BY DEF EInv, UpdateMeetsLiveInstances
    <3>3. InstAt(a) = t
      BY <3>2, InstanceThere DEF Allocated, Pc
    <3>4. inst[t].coroutine_id \in {t, NoCo} /\ cpu # t
      BY <2>1, EngineAssumption DEF EInv, Local, Recorded, UpdateTakesNext
    <3> QED BY <3>1, <3>3, <3>4
  <2> QED BY <1>8, <2>1 DEF UpdateStep, UpdateReleases, UpdateEnds
<1> QED BY <1>1, <1>4, <1>6, <1>7, <1>8 DEF Next, AllOver, vars

LEMMA NextKeeps == EInv /\ [Next]_vars => EInv'
<1> SUFFICES ASSUME EInv, [Next]_vars
             PROVE  EInv'
  OBVIOUS
<1>1. SP!IInv'
  <2>1. [SP!Next]_(SP!vars)
    BY SchedulerRespected, SameScheduler
  <2> QED BY <2>1, SP!StepKeepsIInv, EngineAssumption DEF EInv
<1>2. ASSUME NEW t \in TranId, StartStep(t) PROVE EInv'
  BY <1>1, <1>2, CreateKeeps, CreateFailsKeeps, EnterKeeps, EnterFailsKeeps DEF StartStep
<1>3. ASSUME NEW t \in TranId, CoroutineStep(t) PROVE EInv'
  BY <1>1, <1>3, OnStartKeeps, DoKeeps, OnRecvKeeps, OnAbortKeeps, OnTimeoutKeeps, ExitKeeps
     DEF CoroutineStep
<1>4. ASSUME NEW t \in TranId, AppStep(t) PROVE EInv'
  BY <1>1, <1>4, AppStepKeeps
<1>5. ASSUME NEW i \in TimerId, TimerFires(i) PROVE EInv'
  BY <1>1, <1>5, TimerFiresKeeps
<1>6. CASE UpdateStep
  BY <1>1, <1>6, UpdateTakesNextKeeps, UpdateReleasesKeeps, UpdateEndsKeeps DEF UpdateStep
<1>7. CASE UNCHANGED vars
  BY <1>7, StutterKeeps
<1> QED BY <1>2, <1>3, <1>4, <1>5, <1>6, <1>7 DEF Next, AllOver

\* The invariant holds in every state the engine reaches.
LEMMA EngineInvariant == Spec => []EInv
  BY InitEstablishes, NextKeeps, PTL DEF Spec

-----------------------------------------------------------------------------
(* What follows.                                                           *)

\* Every variable of the engine and of the scheduler below it keeps its type,
\* whatever the callbacks do.
THEOREM EngineTypeCorrect == Spec => []TypeOK
<1>1. EInv => TypeOK
  BY DEF EInv
<1> QED BY <1>1, EngineInvariant, PTL

\* The engine uses the scheduler as the scheduler's own theorems assume: it
\* destroys no routine that executes, neither from HandleResult nor when the
\* start of a transaction inside a coroutine fails.
THEOREM SchedulerUsedRightly == Spec => UsesSchedulerRightly
<1>1. Init => Sched!Init
  BY DEF Init
<1> QED
  BY <1>1, EngineInvariant, SchedulerRespected, PTL DEF Spec, UsesSchedulerRightly, Sched!Spec

\* Timer handles and timers match one to one, so that no timer of an earlier
\* wait ends a later one.
THEOREM TimersAreOwned == Spec => []TimersOwned
<1>1. EInv => TimersOwned
  BY DEF EInv
<1> QED BY <1>1, EngineInvariant, PTL

\* A suspended transaction is mapped, its coroutine can be resumed, and what
\* SendMsgEvent admits is what its command still awaits.
THEOREM WaitsCanEnd == Spec => []SuspendedCanBeWoken
<1>1. EInv => SuspendedCanBeWoken
  <2> SUFFICES ASSUME EInv, NEW t \in TranId, pc[t] = "suspended"
               PROVE  /\ t \in trans_map
                      /\ inst[t].coroutine_id = t /\ t \in coroutines /\ state[t] = "SUSPEND"
                      /\ inst[t].events = pending[t] /\ pending[t] # NoEvents
                      /\ inst[t].waiting_index = inst[t].curr_index
    BY DEF SuspendedCanBeWoken
  <2>1. Local(t)
    BY DEF EInv
  <2> QED BY <2>1 DEF Local, Placed, Recorded, Awaits, Mapped, Begun
<1> QED BY <1>1, EngineInvariant, PTL

\* An instance that is over leaves no map entry, coroutine or timer behind, and
\* every coroutine has an instance that destroys it.
THEOREM NothingIsLeftBehind == Spec => []NothingLeftBehind
<1>1. EInv => NothingLeftBehind
  <2> SUFFICES ASSUME EInv
               PROVE  NothingLeftBehind
    OBVIOUS
  <2>1. ASSUME NEW t \in TranId, pc[t] \in {"failed", "released"}
        PROVE  /\ t \notin trans_map /\ t \notin coroutines
               /\ \A i \in TimerId : timers[i] # t
    <3>1. Local(t)
      BY DEF EInv
    <3>2. t \notin trans_map /\ t \notin coroutines
      BY <2>1, <3>1 DEF Local, Placed, Mapped, Begun
    <3>3. ASSUME NEW i \in TimerId PROVE timers[i] # t
      BY <2>1, EngineAssumption DEF EInv, TimersOwned
    <3> QED BY <3>2, <3>3
  <2>2. ASSUME NEW c \in coroutines
        PROVE  inst[c].coroutine_id = c /\ (state[c] = "READY" => c \in trans_map)
    <3>1. c \in TranId /\ Local(c)
      BY BooksSay DEF EInv
    <3> QED BY <3>1 DEF Local, Placed, Recorded, Mapped
  <2> QED BY <2>1, <2>2 DEF NothingLeftBehind
<1> QED BY <1>1, EngineInvariant, PTL

\* Update's iterator never reaches a pointer to a deleted instance, even if
\* callbacks start, finish and allocate instances meanwhile.
THEOREM UpdateIsSafe == Spec => []UpdateMeetsLiveInstances
<1>1. EInv => UpdateMeetsLiveInstances
  BY DEF EInv
<1> QED BY <1>1, EngineInvariant, PTL

\* HandleResult reports an instance at most once, in the main routine, after
\* its coroutine is destroyed, and an instance is released only when reported.
THEOREM ReportsAreOnce == Spec => ReportedOnceInMain
<1> DEFINE Step == \A t \in TranId :
                     /\ result'[t] # result[t] =>
                          result[t] = "none" /\ cpu = Main /\ curr = Main /\ t \notin coroutines'
                     /\ pc'[t] = "released" => result[t] # "none"
<1>1. EInv /\ EInv' /\ [Next]_vars => [Step]_vars
  <2> SUFFICES ASSUME EInv, EInv', Next, NEW t \in TranId
               PROVE  /\ result'[t] # result[t] =>
                           result[t] = "none" /\ cpu = Main /\ curr = Main /\ t \notin coroutines'
                      /\ pc'[t] = "released" => result[t] # "none"
    OBVIOUS
  <2>1. Local(t) /\ Local(t)'
    BY DEF EInv
  <2>2. result' = result \/ UpdateTakesNext
    <3>1. ASSUME NEW u \in TranId, StartStep(u) PROVE result' = result
      BY <3>1 DEF StartStep, CreateCoroutine, CreateCoroutineFails, EnterCoroutine,
                  EnterCoroutineFails, GiveUpStart, history
    <3>2. ASSUME NEW u \in TranId, CoroutineStep(u) PROVE result' = result
      <4>1. ASSUME NEW r, NEW err, CommandReturned(u, r, err) PROVE result' = result
        BY <4>1 DEF CommandReturned
      <4>2. ASSUME NEW r, NEW events, WaitForEvent(u, r, events) PROVE result' = result
        BY <4>1, <4>2 DEF WaitForEvent, Suspend, history
      <4> QED
        BY <3>2, <4>1, <4>2
           DEF CoroutineStep, OnStart, Do, OnRecvMsgEvent, OnAbortEvent, OnTimeout, Exit, history
    <3>3. ASSUME NEW u \in TranId, AppStep(u) PROVE result' = result
      BY <3>3 DEF AppStep, CallGM, AppStarts, StartCommonTransaction, AppSends, AppAborts,
                  PeerSends, SendMsgEventToTran, SendMsgEvent, history
    <3>4. ASSUME NEW i \in TimerId, TimerFires(i) PROVE result' = result
      BY <3>4 DEF TimerFires, history
    <3>5. CASE UpdateStep
      BY <3>5 DEF UpdateStep, UpdateReleases, UpdateEnds, history
    <3>6. CASE AllOver
      BY <3>6 DEF AllOver, vars, history
    <3> QED BY <3>1, <3>2, <3>3, <3>4, <3>5, <3>6 DEF Next
  <2>3. CASE result' = result
    BY <2>1, <2>3 DEF Local, Reported
  <2>4. CASE UpdateTakesNext
    <3>1. PICK a \in Ahead :
            /\ result' = [result EXCEPT ![InstAt(a)] = Outcome(inst[InstAt(a)])]
            /\ upd' = [at |-> a, handling |-> TRUE]
      BY <2>4 DEF UpdateTakesNext
    <3>2. PICK u \in TranId : inst[u].addr = a /\ pc[u] = "exited"
      BY DEF EInv, UpdateMeetsLiveInstances
    <3>3. InstAt(a) = u
      BY <3>2, InstanceThere DEF Allocated, Pc
    <3>4. cpu = Main /\ curr = Main /\ ~upd.handling /\ pc' = pc
      BY <2>4, BooksSay DEF UpdateTakesNext, EInv
    <3>5. pc'[t] = "released" => result[t] # "none"
      BY <2>1, <3>4 DEF Local, Reported
    <3>6. result'[t] # result[t] => t = u
      BY <3>1, <3>3 DEF EInv, TypeOK
    <3>7. t = u => result[t] = "none"
      BY <2>1, <3>2, <3>4 DEF Local, Reported
    <3>8. t = u => t \notin coroutines'
      <4>1. PICK v \in TranId : inst'[v].addr = a /\ pc'[v] = "exited" /\ v \notin coroutines'
        BY <3>1 DEF EInv, HandlesOne
      <4>2. inst'[u].addr = a
        BY <2>4, <3>2 DEF UpdateTakesNext, EInv, TypeOK, Instance
      <4>3. v = u
        BY <3>2, <3>4, <4>1, <4>2 DEF EInv, Addresses, Allocated, Pc
      <4> QED BY <4>1, <4>3
    <3> QED BY <3>4, <3>5, <3>6, <3>7, <3>8
  <2> QED BY <2>2, <2>3, <2>4
<1> QED BY <1>1, EngineInvariant, PTL DEF Spec, ReportedOnceInMain

-----------------------------------------------------------------------------
(* What is finished stays ahead of Update.                                 *)

\* While Update is in its loop, nothing else of the engine is under way.
UpdateAlone == NotUpdating \/ (cpu = Main /\ ~Starting)

FInv == EInv /\ UpdateAlone /\ FinishedWillBeHandled

\* No step but Exit finishes an instance or touches one that is finished.
FinishesNone ==
  /\ UNCHANGED <<destroy_list, upd>>
  /\ \A u \in TranId : pc'[u] = "exited" => pc[u] = "exited" /\ inst'[u].addr = inst[u].addr

LEMMA OnlyExitFinishes ==
  ASSUME EInv, Next, ~UpdateStep, \A t \in TranId : ~Exit(t)
  PROVE  FinishesNone
<1>1. pc \in [TranId -> Pc] /\ inst \in [TranId -> Instance]
  BY DEF EInv, TypeOK
<1>2. ASSUME NEW t \in TranId, NEW p, NEW r, p # "exited",
             pc' = [pc EXCEPT ![t] = p], inst' = [inst EXCEPT ![t] = r],
             UNCHANGED <<destroy_list, upd>>
      PROVE  FinishesNone
  BY <1>1, <1>2 DEF FinishesNone
<1>3. ASSUME NEW t \in TranId, StartStep(t) PROVE FinishesNone
  <2>1. CASE EnterCoroutine(t)
    BY <1>1, <2>1 DEF EnterCoroutine, mgrVars, FinishesNone
  <2>2. CASE CreateCoroutine(t)
    BY <1>2, <2>2 DEF CreateCoroutine, mgrVars
  <2>3. CASE CreateCoroutineFails(t) \/ EnterCoroutineFails(t)
    BY <1>2, <2>3 DEF CreateCoroutineFails, EnterCoroutineFails, GiveUpStart
  <2> QED BY <1>3, <2>1, <2>2, <2>3 DEF StartStep
<1>4. ASSUME NEW t \in TranId, NEW r, NEW err, CommandReturned(t, r, err) PROVE FinishesNone
  <2>1. PICK q, p : /\ p # "exited" /\ pc' = [pc EXCEPT ![t] = p] /\ inst' = [inst EXCEPT ![t] = q]
                    /\ UNCHANGED <<destroy_list, upd>>
    <3>1. PICK b \in {"tail", "do"} : pc' = [pc EXCEPT ![t] = b]
      BY <1>4 DEF CommandReturned
    <3>2. \E q : inst' = [inst EXCEPT ![t] = q]
      BY <1>4 DEF CommandReturned
    <3> QED BY <1>4, <3>1, <3>2 DEF CommandReturned, mgrVars
  <2> QED BY <1>2, <2>1
<1>5. ASSUME NEW t \in TranId, NEW r, NEW events, Suspend(t, r, events) PROVE FinishesNone
  BY <1>2, <1>5 DEF Suspend, mgrVars
<1>6. ASSUME NEW t \in TranId, NEW r, NEW events, WaitForEvent(t, r, events) PROVE FinishesNone
  BY <1>4, <1>5, <1>6 DEF WaitForEvent
<1>7. ASSUME NEW t \in TranId, CoroutineStep(t) PROVE FinishesNone
  <2>1. CASE OnStart(t)
    <3>1. PICK r \in AfterCallback(t) :
            \/ /\ inst' = [inst EXCEPT ![t] = [r EXCEPT !.fail_reason = "ERROR"]]
               /\ pc' = [pc EXCEPT ![t] = "tail"]
            \/ LET none == CmdsOf(t) = <<>>
               IN /\ inst' = [inst EXCEPT ![t] = IF none THEN r ELSE [r EXCEPT !.curr_index = 0]]
                  /\ pc' = [pc EXCEPT ![t] = IF none THEN "tail" ELSE "do"]
      BY <2>1 DEF OnStart
    <3>2. UNCHANGED <<destroy_list, upd>>
      BY <2>1 DEF OnStart, mgrVars
    <3>3. CASE CmdsOf(t) = <<>>
      BY <1>2, <3>1, <3>2, <3>3
    <3>4. CASE CmdsOf(t) # <<>>
      BY <1>2, <3>1, <3>2, <3>4
    <3> QED BY <3>3, <3>4
  <2>2. CASE ~OnStart(t)
    BY <1>4, <1>6, <1>7, <2>2 DEF CoroutineStep, Do, OnRecvMsgEvent, OnAbortEvent, OnTimeout
  <2> QED BY <2>1, <2>2
<1>8. ASSUME NEW t \in TranId, NEW msg, pc[t] = "suspended", Deliver(t, msg),
             UNCHANGED mgrVars
      PROVE  FinishesNone
  <2>1. pc' = [pc EXCEPT ![t] = "resumed"] \/ pc' = pc
    BY <1>8 DEF Deliver, IsDefaultEvent, SetEventArg
  <2>2. \A u \in TranId \ {t} : inst'[u] = inst[u]
    BY <1>1, <1>8 DEF Deliver, IsDefaultEvent, SetEventArg
  <2> QED BY <1>1, <1>8, <2>1, <2>2 DEF FinishesNone, mgrVars
<1>9. ASSUME NEW t \in TranId, AppStep(t) PROVE FinishesNone
  <2>1. CASE AppStarts(t)
    BY <1>2, <2>1 DEF AppStarts, StartCommonTransaction, AddTranInst
  <2>2. ASSUME NEW msg, ~Starting, cpu # t, SendMsgEventToTran(t, msg)
        PROVE  FinishesNone
    BY <1>8, <2>2, ReceiverWaits DEF SendMsgEventToTran, SendMsgEvent
  <2>3. CASE AppSends(t) \/ AppAborts(t)
    BY <2>2, <2>3, EngineAssumption DEF AppSends, AppAborts, AppInMain
  <2>4. CASE PeerSends(t)
    BY <2>2, <2>4 DEF PeerSends, AppInCoroutine
  <2> QED BY <1>9, <2>1, <2>3, <2>4 DEF AppStep, CallGM
<1>10. ASSUME NEW i \in TimerId, TimerFires(i) PROVE FinishesNone
  <2>1. timers[i] \in TranId /\ pc[timers[i]] = "suspended"
    BY <1>10 DEF TimerFires, EInv, TypeOK, TimersOwned
  <2>2. timers[i] \in trans_map
    BY <2>1 DEF EInv, Local, Placed, Mapped
  <2> QED BY <1>8, <1>10, <2>1, <2>2 DEF TimerFires
<1>11. CASE AllOver
  BY <1>11 DEF AllOver, FinishesNone, vars, mgrVars
<1> QED BY <1>3, <1>7, <1>9, <1>10, <1>11 DEF Next

\* Callbacks of HandleResult that leave the engine alone leave Update alone.
LEMMA UpdateStaysAlone ==
  ASSUME "reenter" \notin AppDoes, EInv, UpdateAlone, Next, ~NotUpdating
  PROVE  UpdateStep
<1>1. cpu = Main /\ ~Starting /\ ~AppInMain /\ \A t \in TranId : cpu # t
  BY EngineAssumption DEF UpdateAlone, AppInMain
<1>2. \A t \in TranId : ~StartStep(t)
  BY <1>1 DEF Starting, StartStep, CreateCoroutine, CreateCoroutineFails, EnterCoroutine,
              EnterCoroutineFails
<1>3. \A t \in TranId : ~CoroutineStep(t)
  BY <1>1 DEF CoroutineStep, OnStart, Do, OnRecvMsgEvent, OnAbortEvent, OnTimeout, Exit, RunsAt
<1>4. \A t \in TranId : ~AppStep(t)
  BY <1>1 DEF AppStep, CallGM, AppStarts, AppSends, AppAborts, PeerSends, AppInCoroutine
<1> QED BY <1>2, <1>3, <1>4 DEF Next, TimerFires, AllOver

LEMMA UpdateTakesNextAwaited ==
  ASSUME FInv, EInv', UpdateTakesNext
  PROVE  FInv'
<1>1. PICK a \in Ahead :
        /\ \A b \in Ahead : a <= b
        /\ IF inst[InstAt(a)].coroutine_id # NoCo
           THEN Sched!DestroyWorkRoutine(inst[InstAt(a)].coroutine_id)
           ELSE UNCHANGED schedVars
        /\ inst' = [inst EXCEPT ![InstAt(a)].coroutine_id = NoCo]
        /\ upd' = [at |-> a, handling |-> TRUE]
  BY DEF UpdateTakesNext
<1>2. /\ cpu = Main /\ ~Starting /\ ~upd.handling
      /\ UNCHANGED <<destroy_list, pc>>
  BY DEF UpdateTakesNext
<1>3. inst \in [TranId -> Instance] /\ destroy_list \subseteq Addr /\ Addr \subseteq Nat
  BY EngineAssumption DEF FInv, EInv, TypeOK
<1>4. UpdateAlone'
  <2>1. cpu' = cpu
    BY <1>1 DEF Sched!DestroyWorkRoutine, schedVars
  <2> QED BY <1>2, <2>1 DEF UpdateAlone, Starting
<1>5. ASSUME NEW t \in TranId, pc'[t] = "exited"
      PROVE  inst'[t].addr \in Ahead' \/ upd' = [at |-> inst'[t].addr, handling |-> TRUE]
  <2>1. inst'[t].addr = inst[t].addr
    <3>1. inst[t] \in Instance
      BY <1>3
    <3>2. [inst[t] EXCEPT !.coroutine_id = NoCo].addr = inst[t].addr
      BY <3>1 DEF Instance
    <3> QED BY <1>1, <1>3, <3>2
  <2>2. inst[t].addr \in Ahead
    BY <1>2, <1>5 DEF FInv, FinishedWillBeHandled
  <2>3. inst[t].addr \in Nat /\ a \in Nat /\ a <= inst[t].addr /\ inst[t].addr \in destroy_list
    BY <1>1, <1>3, <2>2 DEF Ahead
  <2>4. CASE inst[t].addr = a
    BY <1>1, <2>1, <2>4
  <2>5. CASE inst[t].addr # a
    <3>1. inst[t].addr > a
      BY <2>3, <2>5
    <3> QED BY <1>1, <1>2, <2>1, <2>3, <3>1 DEF Ahead
  <2> QED BY <2>4, <2>5
<1> QED BY <1>4, <1>5 DEF FInv, FinishedWillBeHandled

LEMMA UpdateReleasesAwaited ==
  ASSUME FInv, EInv', UpdateReleases
  PROVE  FInv'
<1>1. PICK t \in TranId : inst[t].addr = upd.at /\ pc[t] = "exited"
  BY DEF FInv, EInv, HandlesOne, UpdateReleases
<1>2. InstAt(upd.at) = t
  BY <1>1, InstanceThere DEF FInv, Allocated, Pc
<1>3. /\ cpu = Main /\ ~Starting
      /\ inst' = [inst EXCEPT ![t] = NoInstance]
      /\ pc' = [pc EXCEPT ![t] = "released"]
      /\ upd' = [upd EXCEPT !.handling = FALSE]
      /\ UNCHANGED <<cpu, destroy_list>>
  BY <1>2 DEF UpdateReleases, schedVars
<1>4. /\ inst \in [TranId -> Instance] /\ pc \in [TranId -> Pc]
      /\ upd \in [at : Addr \cup {0}, handling : BOOLEAN]
  BY DEF FInv, EInv, TypeOK
<1>5. upd'.at = upd.at
  BY <1>3, <1>4
<1>6. UpdateAlone'
  <2>1. \A u \in TranId : pc'[u] \in {"added", "created"} => pc[u] \in {"added", "created"}
    BY <1>3, <1>4
  <2> QED BY <1>3, <2>1 DEF UpdateAlone, Starting
<1>7. ASSUME NEW u \in TranId, pc'[u] = "exited"
      PROVE  inst'[u].addr \in Ahead'
  <2>1. u # t /\ pc[u] = "exited" /\ inst'[u] = inst[u]
    BY <1>3, <1>4, <1>7
  <2>2. inst[u].addr # upd.at
    BY <1>1, <2>1 DEF FInv, EInv, Addresses, Allocated, Pc
  <2>3. inst[u].addr \in Ahead
    BY <2>1, <2>2 DEF FInv, FinishedWillBeHandled
  <2> QED BY <1>3, <1>5, <2>1, <2>3 DEF Ahead
<1> QED BY <1>6, <1>7 DEF FInv, FinishedWillBeHandled

LEMMA StaysAwaited ==
  ASSUME "reenter" \notin AppDoes, FInv, EInv', [Next]_vars
  PROVE  FInv'
<1>1. CASE UpdateTakesNext
  BY <1>1, UpdateTakesNextAwaited
<1>2. CASE UpdateReleases
  BY <1>2, UpdateReleasesAwaited
<1>3. CASE UpdateEnds
  <2>1. UpdateAlone'
    BY <1>3 DEF UpdateEnds, UpdateAlone, NotUpdating
  <2>2. \A t \in TranId : pc'[t] # "exited"
    BY <1>3 DEF UpdateEnds, FInv, FinishedWillBeHandled
  <2> QED BY <2>1, <2>2 DEF FInv, FinishedWillBeHandled
<1>4. ASSUME NEW t \in TranId, Exit(t)
      PROVE  FInv'
  <2>1. NotUpdating /\ upd' = upd /\ Local(t) /\ inst[t] \in Instance
    BY <1>4, EngineAssumption DEF Exit, RunsAt, FInv, UpdateAlone, EInv, TypeOK
  <2>2. UpdateAlone'
    BY <2>1 DEF UpdateAlone, NotUpdating
  <2>3. inst'[t].addr \in destroy_list' /\ destroy_list \subseteq destroy_list'
    <3> DEFINE r == Completed(inst[t])
               q == [r EXCEPT !.is_delay_destroying = TRUE]
    <3>1. r.addr = inst[t].addr /\ q.addr = inst[t].addr /\ ~r.is_delay_destroying
      BY <1>4, <2>1, ExitedLike DEF Exit, RunsAt, Local, Recorded
    <3>2. inst' = [inst EXCEPT ![t] = q] /\ destroy_list' = destroy_list \cup {r.addr}
      BY <1>4, <3>1 DEF Exit
    <3> HIDE DEF r, q
    <3> QED BY <3>1, <3>2 DEF FInv, EInv, TypeOK
  <2>4. /\ inst'[t].addr \in Nat /\ inst'[t].addr > 0
        /\ \A u \in TranId \ {t} : pc'[u] = pc[u] /\ inst'[u] = inst[u]
    <3>1. inst'[t].addr \in Addr
      BY <2>3 DEF EInv, TypeOK
    <3>2. \A u \in TranId \ {t} : pc'[u] = pc[u] /\ inst'[u] = inst[u]
      BY <1>4 DEF Exit, FInv, EInv, TypeOK
    <3>3. ASSUME NEW a \in Addr PROVE a \in Nat /\ a > 0
      <4>1. a \in Nat /\ a # 0
        BY EngineAssumption
      <4> QED BY <4>1
    <3>4. inst'[t].addr \in Nat /\ inst'[t].addr > 0
      BY <3>1, <3>3
    <3> QED BY <3>2, <3>4
  <2>5. ASSUME NEW u \in TranId, pc'[u] = "exited" PROVE inst'[u].addr \in Ahead'
    <3>1. CASE u = t
      BY <2>1, <2>3, <2>4, <3>1 DEF Ahead, NotUpdating
    <3>2. CASE u # t
      BY <2>1, <2>3, <2>4, <2>5, <3>2 DEF Ahead, NotUpdating, FInv, FinishedWillBeHandled
    <3> QED BY <3>1, <3>2
  <2> QED BY <2>2, <2>5 DEF FInv, FinishedWillBeHandled
<1>5. CASE UNCHANGED vars
  BY <1>5 DEF FInv, FinishedWillBeHandled, Ahead, UpdateAlone, NotUpdating, Starting,
              vars, schedVars, mgrVars
<1>6. CASE Next /\ ~UpdateStep /\ \A t \in TranId : ~Exit(t)
  <2>1. FinishesNone /\ NotUpdating
    BY <1>6, OnlyExitFinishes, UpdateStaysAlone DEF FInv
  <2> QED
    BY <2>1 DEF FinishesNone, FInv, FinishedWillBeHandled, Ahead, UpdateAlone, NotUpdating
<1> QED BY <1>1, <1>2, <1>3, <1>4, <1>5, <1>6 DEF UpdateStep

\* A transaction whose coroutine has exited is still ahead of Update, and so
\* reported and released, as long as the callbacks of HandleResult do not call
\* the engine again.
THEOREM FinishedIsHandled ==
  ASSUME "reenter" \notin AppDoes
  PROVE  Spec => []FinishedWillBeHandled
<1>1. Init => FInv
  BY InitEstablishes DEF Init, FInv, UpdateAlone, NotUpdating, FinishedWillBeHandled
<1>2. EInv' /\ FInv /\ [Next]_vars => FInv'
  BY StaysAwaited
<1>3. FInv => FinishedWillBeHandled
  BY DEF FInv
<1> QED BY <1>1, <1>2, <1>3, EngineInvariant, PTL DEF Spec

-----------------------------------------------------------------------------
(* Waits keep their timers.                                                *)

\* Whoever is delivered to is resumed, if the message is awaited and main sends
\* it; the other waits keep their timers.
LEMMA DeliveredWakes ==
  ASSUME EInv, SuspendedHasTimer, NEW t \in TranId, NEW msg, pc[t] = "suspended", cpu = Main,
         msg \in DefaultEvent \/ inst[t].events[msg] > 0,
         timers' = [i \in TimerId |-> IF i = inst[t].timer_id THEN Null ELSE timers[i]],
         Deliver(t, msg)
  PROVE  SuspendedHasTimer'
<1>1. /\ inst[t] \in Instance /\ pc \in [TranId -> Pc]
      /\ timers \in [TimerId -> TranId \cup {Null}] /\ Local(t)
  BY DEF EInv, TypeOK
<1>2. [inst[t] EXCEPT !.timer_id = NoTimer].events = inst[t].events
      /\ [inst[t] EXCEPT !.timer_id = NoTimer].coroutine_id = inst[t].coroutine_id
  BY <1>1 DEF Instance
<1>3. inst[t].coroutine_id = t /\ t \in coroutines /\ state[t] = "SUSPEND"
  BY <1>1 DEF Local, Placed, Recorded, Begun, Mapped
<1>4. Sched!CanSwapToWorkRoutine(t)
  BY <1>3, MainCanEnter DEF EInv
<1>5. pc' = [pc EXCEPT ![t] = "resumed"]
  BY <1>2, <1>3, <1>4 DEF Deliver, IsDefaultEvent, SetEventArg
<1>6. ASSUME NEW u \in TranId, pc'[u] = "suspended"
      PROVE  \E i \in TimerId : timers'[i] = u
  <2>1. u # t /\ pc[u] = "suspended"
    BY <1>1, <1>5, <1>6
  <2>2. PICK i \in TimerId : timers[i] = u
    BY <2>1 DEF SuspendedHasTimer
  <2>3. i # inst[t].timer_id
    BY <2>1, <2>2, EngineAssumption DEF EInv, TimersOwned, NoTimer
  <2> QED BY <2>2, <2>3
<1> QED BY <1>6 DEF SuspendedHasTimer

LEMMA WaitsKeepTimers ==
  ASSUME "stray" \notin AppDoes, "peer" \notin AppDoes, EInv, SuspendedHasTimer, [Next]_vars
  PROVE  SuspendedHasTimer'
<1>1. pc \in [TranId -> Pc] /\ timers \in [TimerId -> TranId \cup {Null}]
  BY DEF EInv, TypeOK
<1>2. ASSUME NEW t \in TranId, NEW p, p # "suspended",
             pc' = [pc EXCEPT ![t] = p], timers' = timers
      PROVE  SuspendedHasTimer'
  BY <1>1, <1>2 DEF SuspendedHasTimer
<1>3. ASSUME pc' = pc, timers' = timers
      PROVE  SuspendedHasTimer'
  BY <1>3 DEF SuspendedHasTimer
<1>4. ASSUME NEW t \in TranId, StartStep(t) PROVE SuspendedHasTimer'
  BY <1>2, <1>4 DEF StartStep, CreateCoroutine, CreateCoroutineFails, EnterCoroutine,
                    EnterCoroutineFails, GiveUpStart
<1>5. ASSUME NEW t \in TranId, NEW r, NEW err, CommandReturned(t, r, err)
      PROVE  SuspendedHasTimer'
  <2>1. PICK p \in {"tail", "do"} : pc' = [pc EXCEPT ![t] = p]
    BY <1>5 DEF CommandReturned
  <2> QED BY <1>2, <1>5, <2>1 DEF CommandReturned
<1>6. ASSUME NEW t \in TranId, NEW r, NEW events, pc[t] # "suspended",
             r.timer_id = inst[t].timer_id, Suspend(t, r, events)
      PROVE  SuspendedHasTimer'
  <2>1. FreeTimer \in TimerId /\ timers[FreeTimer] = Null
    BY <1>6, TimerLeft
  <2>2. timers' = [timers EXCEPT ![FreeTimer] = t] /\ pc' = [pc EXCEPT ![t] = "suspended"]
    BY <1>6, NoTimerElsewhere DEF Suspend
  <2>3. ASSUME NEW u \in TranId, pc'[u] = "suspended"
        PROVE  \E i \in TimerId : timers'[i] = u
    <3>1. CASE u = t
      BY <1>1, <2>1, <2>2, <3>1
    <3>2. CASE u # t
      <4>1. PICK i \in TimerId : timers[i] = u
        BY <1>1, <2>2, <2>3, <3>2 DEF SuspendedHasTimer
      <4>2. i # FreeTimer
        BY <2>1, <4>1, EngineAssumption
      <4> QED BY <1>1, <2>2, <4>1, <4>2
    <3> QED BY <3>1, <3>2
  <2> QED BY <2>3 DEF SuspendedHasTimer
<1>7. ASSUME NEW t \in TranId, NEW r, NEW events, pc[t] # "suspended",
             r.timer_id = inst[t].timer_id, WaitForEvent(t, r, events)
      PROVE  SuspendedHasTimer'
  BY <1>5, <1>6, <1>7 DEF WaitForEvent
<1>8. ASSUME NEW t \in TranId, CoroutineStep(t) PROVE SuspendedHasTimer'
  <2>1. inst[t] \in Instance
    BY DEF EInv, TypeOK
  <2>2. ASSUME NEW r \in AfterCallback(t) PROVE r.timer_id = inst[t].timer_id
    BY <2>1, CallbackLike DEF Like
  <2>3. [inst[t] EXCEPT !.fail_reason = "ABORT"].timer_id = inst[t].timer_id
    BY <2>1 DEF Instance
  <2>4. CASE OnStart(t)
    <3>1. PICK p \in {"tail", "do"} : pc' = [pc EXCEPT ![t] = p]
      BY <2>4 DEF OnStart
    <3> QED BY <1>2, <2>4, <3>1 DEF OnStart
  <2>5. CASE Do(t)
    BY <1>5, <1>7, <2>2, <2>5 DEF Do, RunsAt
  <2>6. CASE OnRecvMsgEvent(t)
    BY <1>5, <1>7, <2>2, <2>6 DEF OnRecvMsgEvent, RunsAt
  <2>7. CASE OnAbortEvent(t)
    BY <1>7, <2>3, <2>7 DEF OnAbortEvent, RunsAt
  <2>8. CASE OnTimeout(t)
    BY <1>5, <1>7, <2>2, <2>8 DEF OnTimeout, RunsAt
  <2>9. CASE Exit(t)
    BY <1>2, <2>9 DEF Exit
  <2> QED BY <1>8, <2>4, <2>5, <2>6, <2>7, <2>8, <2>9 DEF CoroutineStep
<1>9. ASSUME NEW t \in TranId, AppStep(t) PROVE SuspendedHasTimer'
  <2>1. CASE AppStarts(t)
    BY <1>2, <2>1 DEF AppStarts, StartCommonTransaction
  <2>2. ASSUME NEW msg, ~Starting, cpu = Main, SendMsgEventToTran(t, msg),
               msg \in DefaultEvent \/ inst[t].events[msg] > 0
        PROVE  SuspendedHasTimer'
    <3>1. pc[t] = "suspended"
      BY <2>2, ReceiverWaits, EngineAssumption DEF SendMsgEventToTran
    <3> QED BY <2>2, <3>1, DeliveredWakes DEF SendMsgEventToTran, SendMsgEvent
  <2>3. CASE AppSends(t)
    BY <2>2, <2>3 DEF AppSends, AppInMain
  <2>4. CASE AppAborts(t)
    BY <2>2, <2>4 DEF AppAborts, AppInMain, DefaultEvent
  <2> QED BY <1>9, <2>1, <2>3, <2>4 DEF AppStep, CallGM, PeerSends
<1>10. ASSUME NEW i \in TimerId, TimerFires(i) PROVE SuspendedHasTimer'
  <2>1. /\ timers[i] \in TranId /\ pc[timers[i]] = "suspended" /\ inst[timers[i]].timer_id = i
    BY <1>10 DEF TimerFires, EInv, TypeOK, TimersOwned
  <2>2. timers[i] \in trans_map
    BY <2>1 DEF EInv, Local, Placed, Mapped
  <2>3. timers' = [j \in TimerId |-> IF j = inst[timers[i]].timer_id THEN Null ELSE timers[j]]
    BY <1>1, <1>10, <2>1 DEF TimerFires
  <2>4. Deliver(timers[i], "TIMEOUT") /\ cpu = Main
    BY <1>10, <2>2 DEF TimerFires
  <2> QED BY <2>1, <2>3, <2>4, DeliveredWakes DEF DefaultEvent
<1>11. CASE UpdateStep
  <2>1. CASE UpdateReleases
    BY <1>1, <2>1 DEF UpdateReleases, SuspendedHasTimer
  <2> QED BY <1>3, <1>11, <2>1 DEF UpdateStep, UpdateTakesNext, UpdateEnds
<1>12. CASE UNCHANGED vars
  BY <1>3, <1>12 DEF vars
<1> QED BY <1>4, <1>8, <1>9, <1>10, <1>11, <1>12 DEF Next, AllOver

\* Under a program that sends nothing that is not awaited, and nothing from
\* inside a coroutine, a wait always has a timer to end it.
THEOREM WaitsHaveTimers ==
  ASSUME "stray" \notin AppDoes, "peer" \notin AppDoes
  PROVE  Spec => []SuspendedHasTimer
<1>1. Init => SuspendedHasTimer
  BY DEF Init, SuspendedHasTimer
<1>2. EInv /\ SuspendedHasTimer /\ [Next]_vars => SuspendedHasTimer'
  BY WaitsKeepTimers
<1> QED BY <1>1, <1>2, EngineInvariant, PTL DEF Spec

-----------------------------------------------------------------------------
(* Results and undo.                                                       *)

\* What is recorded of a transaction that goes on.
Going(r) ==
  /\ r.fail_index = Null /\ r.fail_reason # "ERROR"
  /\ r.is_complete => "complete" \in AppDoes

\* What is recorded of one that has ended, n commands of cs being done.
Ended(r, n, cs) ==
  /\ r.fail_index \in Nat => r.fail_index <= n /\ n <= r.fail_index + 1
  /\ r.fail_reason = "ERROR" => IF r.fail_index = Null THEN n = 0 ELSE r.fail_index = n
  /\ r.fail_reason = "OK" => "complete" \in AppDoes \/ n = Len(cs)

\* The outcome that HandleResult takes from an instance in main.
OutcomeInMain(r) == IF r.is_complete THEN "success"
                    ELSE IF r.fail_reason = "ABORT" THEN "abort" ELSE "fail"

\* The commands are done in order, as many as curr_index says, ...
Progress(t) ==
  /\ \A k \in 1..Len(done[t]) : done[t][k] = k - 1
  /\ pc[t] \in {"none", "added", "created", "boot", "failed"} => done[t] = <<>>
  /\ pc[t] \in {"added", "created", "boot", "do", "suspended", "resumed"} => Going(inst[t])
  /\ pc[t] \in {"do", "suspended", "resumed"} => Len(done[t]) = inst[t].curr_index

\* ... the instance says truly how the transaction ended, ...
Outcomes(t) ==
  /\ pc[t] \in {"tail", "exited"} => Ended(inst[t], Len(done[t]), CmdsOf(t))
  /\ pc[t] = "tail" => (inst[t].is_complete => "complete" \in AppDoes)
  /\ pc[t] = "exited" =>
       /\ inst[t].is_complete \/ IsFailed(inst[t])
       /\ inst[t].is_complete => ~IsFailed(inst[t]) \/ "complete" \in AppDoes
       /\ result[t] # "none" => result[t] = OutcomeInMain(inst[t])

\* ... and what is undone was done.
Undone(t) ==
  /\ pc[t] # "released" => undone[t] = <<>>
  /\ \E n \in 0..Len(done[t]) : undone[t] = LastFirst(done[t], n)
  /\ result[t] \in {"none", "success"} => undone[t] = <<>>

RInv == EInv /\ \A t \in TranId : Progress(t) /\ Outcomes(t) /\ Undone(t)

\* A step that leaves the history of u alone.
Apart(u) ==
  /\ inst'[u] = inst[u] /\ pc'[u] = pc[u] /\ done'[u] = done[u] /\ undone'[u] = undone[u]
  /\ result'[u] = result[u]

LEMMA ApartKeeps ==
  ASSUME NEW u \in TranId, Apart(u), Progress(u), Outcomes(u), Undone(u)
  PROVE  Progress(u)' /\ Outcomes(u)' /\ Undone(u)'
BY DEF Apart, Progress, Outcomes, Undone, CmdsOf

\* Going on, or ending, without a new command being done.
LEMMA UndoneKept ==
  ASSUME NEW t \in TranId, Undone(t), pc[t] # "released", pc'[t] # "released",
         UNCHANGED <<result, undone>>, done'[t] \in Seq(Nat)
  PROVE  Undone(t)'
<1>1. undone[t] = <<>> /\ undone'[t] = <<>> /\ Len(done'[t]) \in Nat
  BY DEF Undone
<1>2. LastFirst(done'[t], 0) = <<>>
  BY DEF LastFirst
<1> QED BY <1>1, <1>2 DEF Undone

\* What is done in order stays so.
LEMMA NextInOrder ==
  ASSUME NEW s \in Seq(Nat), \A k \in 1..Len(s) : s[k] = k - 1
  PROVE  /\ Append(s, Len(s)) \in Seq(Nat) /\ Len(Append(s, Len(s))) = Len(s) + 1
         /\ \A k \in 1..Len(Append(s, Len(s))) : Append(s, Len(s))[k] = k - 1
OBVIOUS

\* A step of t that records r and goes to p.
LEMMA RecordKeeps ==
  ASSUME RInv, EInv', NEW t \in TranId, NEW r, NEW p,
         inst' = [inst EXCEPT ![t] = r], pc' = [pc EXCEPT ![t] = p],
         UNCHANGED <<result, undone>>, pc[t] # "released", p # "released",
         done' = done \/ \E x : done' = [done EXCEPT ![t] = x],
         Progress(t)', Outcomes(t)'
  PROVE  RInv'
<1>1. /\ inst \in [TranId -> Instance] /\ pc \in [TranId -> Pc] /\ done \in [TranId -> Seq(Nat)]
      /\ done' \in [TranId -> Seq(Nat)]
  BY DEF RInv, EInv, TypeOK
<1>2. \A u \in TranId : u # t => Apart(u)
  BY <1>1 DEF Apart
<1>3. Undone(t)'
  BY <1>1, UndoneKept DEF RInv
<1> QED BY <1>2, <1>3, ApartKeeps DEF RInv

LEMMA ReturnEnds ==
  ASSUME NEW r \in Instance, Going(r), NEW err \in {"OK", "ERROR"}, r.curr_index \in Nat,
         err # "OK" \/ IsFailed(r), NEW cs
  PROVE  LET q == FailedAt(r, err)
             n == IF err = "OK" THEN r.curr_index + 1 ELSE r.curr_index
         IN Ended(q, n, cs) /\ q.is_complete = r.is_complete
<1> DEFINE reason == IF r.fail_reason = "OK" THEN err ELSE r.fail_reason
           q      == [r EXCEPT !.fail_index = r.curr_index, !.fail_reason = reason]
<1>1. FailedAt(r, err) = q
  BY DEF FailedAt
<1>2. reason # "OK" /\ (reason = "ERROR" => err # "OK")
  BY DEF Going, IsFailed
<1> HIDE DEF reason
<1>3. q.fail_index = r.curr_index /\ q.fail_reason = reason /\ q.is_complete = r.is_complete
  BY DEF Instance
<1> HIDE DEF q
<1>4. CASE err = "OK"
  BY <1>1, <1>2, <1>3, <1>4, NullIsNoIndex DEF Ended
<1>5. CASE err # "OK"
  BY <1>1, <1>2, <1>3, <1>5, NullIsNoIndex DEF Ended
<1> QED BY <1>4, <1>5

LEMMA CommandReturnedRecords ==
  ASSUME RInv, EInv', NEW t \in TranId, NEW r \in Instance, NEW err \in {"OK", "ERROR"},
         pc[t] \in {"do", "resumed"}, Going(r),
         r.curr_index = inst[t].curr_index, r.type = inst[t].type,
         CommandReturned(t, r, err)
  PROVE  RInv'
<1> DEFINE failed == err # "OK" \/ IsFailed(r)
           over   == r.is_complete \/ r.curr_index + 1 = Len(CmdsOf(t))
           q      == IF failed THEN FailedAt(r, err) ELSE IF over THEN r
                     ELSE [r EXCEPT !.curr_index = r.curr_index + 1]
           p      == IF failed \/ over THEN "tail" ELSE "do"
           d      == IF err = "OK" THEN Append(done[t], r.curr_index) ELSE done[t]
<1>1. /\ inst \in [TranId -> Instance] /\ pc \in [TranId -> Pc] /\ done \in [TranId -> Seq(Nat)]
  BY DEF RInv, EInv, TypeOK
<1>2. /\ inst' = [inst EXCEPT ![t] = q] /\ pc' = [pc EXCEPT ![t] = p]
      /\ UNCHANGED <<result, undone>> /\ done' = [done EXCEPT ![t] = d]
  BY <1>1 DEF CommandReturned
<1>3. /\ Len(done[t]) = r.curr_index /\ done[t] \in Seq(Nat) /\ r.curr_index \in Nat
      /\ \A k \in 1..Len(done[t]) : done[t][k] = k - 1
  BY <1>1 DEF RInv, Progress
<1>4. /\ d \in Seq(Nat) /\ Len(d) = IF err = "OK" THEN r.curr_index + 1 ELSE r.curr_index
      /\ \A k \in 1..Len(d) : d[k] = k - 1
  <2>1. CASE err = "OK"
    BY <1>3, <2>1, NextInOrder
  <2>2. CASE err # "OK"
    BY <1>3, <2>2
  <2> QED BY <2>1, <2>2
<1>5. q.type = inst[t].type
  <2>1. CASE failed
    BY <2>1, FailedLike DEF Like
  <2>2. CASE ~failed /\ over
    BY <2>2
  <2>3. CASE ~failed /\ ~over
    BY <1>3, <2>3, StepIndexLike DEF Like
  <2> QED BY <2>1, <2>2, <2>3
<1>6. /\ p = "tail" => /\ Ended(q, Len(d), CmdsOf(t))
                       /\ q.is_complete => "complete" \in AppDoes
      /\ p = "do" => Going(q) /\ Len(d) = q.curr_index
      /\ p \in {"tail", "do"}
  <2>1. CASE failed
    <3>1. q = FailedAt(r, err) /\ p = "tail"
      BY <2>1
    <3> HIDE DEF q, p, d
    <3>2. Ended(FailedAt(r, err), Len(d), CmdsOf(t)) /\ FailedAt(r, err).is_complete = r.is_complete
      BY <1>3, <1>4, <2>1, ReturnEnds
    <3> QED BY <3>1, <3>2 DEF Going
  <2>2. CASE ~failed /\ over
    <3>1. q = r /\ p = "tail" /\ r.fail_reason = "OK" /\ r.fail_index = Null
          /\ Len(d) = r.curr_index + 1
      BY <1>4, <2>2 DEF IsFailed, Going
    <3> HIDE DEF q, p, d
    <3> QED BY <2>2, <3>1, NullIsNoIndex DEF Ended, Going, CmdsOf
  <2>3. CASE ~failed /\ ~over
    <3>1. q = [r EXCEPT !.curr_index = r.curr_index + 1] /\ p = "do"
      BY <2>3
    <3>2. Len(d) = r.curr_index + 1
      BY <1>4, <2>3
    <3> HIDE DEF q, p, d
    <3>3. Going(q) /\ q.curr_index = r.curr_index + 1
      BY <3>1 DEF Going, Instance
    <3> QED BY <3>1, <3>2, <3>3
  <2> QED BY <2>1, <2>2, <2>3
<1> HIDE DEF q, p, d
<1>7. inst'[t] = q /\ pc'[t] = p /\ done'[t] = d
  BY <1>1, <1>2
<1>8. Progress(t)' /\ Outcomes(t)'
  BY <1>4, <1>5, <1>6, <1>7 DEF Progress, Outcomes, CmdsOf
<1> QED BY <1>2, <1>6, <1>8, RecordKeeps

\* Fields that a wait, an event or the start of a coroutine may change.
SameRecord(q, r) ==
  /\ q.fail_index = r.fail_index /\ q.fail_reason = r.fail_reason
  /\ q.is_complete = r.is_complete /\ q.curr_index = r.curr_index /\ q.type = r.type

\* A step of t, which goes on, that records nothing of what counts here.
LEMMA GoesOn ==
  ASSUME RInv, EInv', NEW t \in TranId, NEW r, NEW q, NEW p,
         inst' = [inst EXCEPT ![t] = q], pc' = [pc EXCEPT ![t] = p],
         SameRecord(q, r), Going(r), r.curr_index = inst[t].curr_index,
         UNCHANGED history,
         pc[t] \in {"do", "suspended", "resumed"}, p \in {"suspended", "resumed"}
  PROVE  RInv'
<1>1. inst \in [TranId -> Instance] /\ pc \in [TranId -> Pc]
  BY DEF RInv, EInv, TypeOK
<1>2. /\ inst'[t] = q /\ pc'[t] = p
      /\ UNCHANGED <<result, done, undone>>
  BY <1>1 DEF history
<1>3. Progress(t)' /\ Outcomes(t)'
  BY <1>2 DEF RInv, Progress, Outcomes, Going, SameRecord
<1> QED BY <1>2, <1>3, RecordKeeps

LEMMA WaitRecords ==
  ASSUME RInv, EInv', NEW t \in TranId, NEW r \in Instance, NEW events \in [Event -> Nat],
         pc[t] \in {"do", "resumed"}, Going(r),
         r.curr_index = inst[t].curr_index, r.type = inst[t].type,
         WaitForEvent(t, r, events)
  PROVE  RInv'
<1>1. CASE Suspend(t, r, events)
  <2> DEFINE q == IF r.timer_id = NoTimer THEN Armed(r, events) ELSE r
  <2>1. SameRecord(q, r)
    BY DEF SameRecord, Armed, Instance
  <2>2. inst' = [inst EXCEPT ![t] = q] /\ pc' = [pc EXCEPT ![t] = "suspended"]
        /\ UNCHANGED history
    BY <1>1 DEF Suspend
  <2> HIDE DEF q
  <2> QED BY <2>1, <2>2, GoesOn
<1>2. ASSUME NEW err \in {"OK", "ERROR"}, CommandReturned(t, r, err)
      PROVE  RInv'
  BY <1>2, CommandReturnedRecords
<1> QED BY <1>1, <1>2 DEF WaitForEvent

LEMMA CallbackGoing ==
  ASSUME NEW t \in TranId, inst[t] \in Instance, Going(inst[t]), NEW r \in AfterCallback(t)
  PROVE  /\ r \in Instance /\ Going(r) /\ r.type = inst[t].type
         /\ r.curr_index = inst[t].curr_index
<1>1. Like(r, inst[t]) /\ r.curr_index = inst[t].curr_index
  BY CallbackLike
<1>2. PICK b \in BOOLEAN : /\ r = [inst[t] EXCEPT !.is_complete = inst[t].is_complete \/ b]
                           /\ b => "complete" \in AppDoes
  BY DEF AfterCallback
<1>3. r.is_complete = (inst[t].is_complete \/ b) /\ r.fail_index = inst[t].fail_index
      /\ r.fail_reason = inst[t].fail_reason
  BY <1>2 DEF Instance
<1> QED BY <1>1, <1>2, <1>3 DEF Going, Like

LEMMA OnStartRecords ==
  ASSUME RInv, EInv', NEW t \in TranId, OnStart(t)
  PROVE  RInv'
<1>1. /\ pc[t] = "boot" /\ inst[t] \in Instance /\ Going(inst[t]) /\ done[t] = <<>>
      /\ UNCHANGED <<result, done, undone>>
      /\ inst \in [TranId -> Instance] /\ pc \in [TranId -> Pc]
  BY DEF OnStart, RunsAt, RInv, EInv, TypeOK, Progress, history
<1>2. PICK r \in AfterCallback(t) :
        \/ /\ inst' = [inst EXCEPT ![t] = [r EXCEPT !.fail_reason = "ERROR"]]
           /\ pc' = [pc EXCEPT ![t] = "tail"]
        \/ LET none == CmdsOf(t) = <<>>
           IN /\ inst' = [inst EXCEPT ![t] = IF none THEN r ELSE [r EXCEPT !.curr_index = 0]]
              /\ pc' = [pc EXCEPT ![t] = IF none THEN "tail" ELSE "do"]
  BY DEF OnStart
<1>3. r \in Instance /\ Going(r) /\ r.type = inst[t].type
  BY <1>1, CallbackGoing
<1>4. CASE /\ inst' = [inst EXCEPT ![t] = [r EXCEPT !.fail_reason = "ERROR"]]
           /\ pc' = [pc EXCEPT ![t] = "tail"]
  <2> DEFINE q == [r EXCEPT !.fail_reason = "ERROR"]
  <2>1. q.fail_reason = "ERROR" /\ q.fail_index = Null /\ (q.is_complete => "complete" \in AppDoes)
    BY <1>3 DEF Instance, Going
  <2> HIDE DEF q
  <2>2. inst' = [inst EXCEPT ![t] = q] /\ inst'[t] = q /\ pc'[t] = "tail"
    BY <1>1, <1>4 DEF q
  <2>3. Progress(t)' /\ Outcomes(t)'
    BY <1>1, <2>1, <2>2, NullIsNoIndex DEF Progress, Outcomes, Ended
  <2> QED BY <1>1, <1>4, <2>2, <2>3, RecordKeeps
<1>5. CASE /\ CmdsOf(t) = <<>>
           /\ inst' = [inst EXCEPT ![t] = r]
           /\ pc' = [pc EXCEPT ![t] = "tail"]
  <2>1. inst'[t] = r /\ pc'[t] = "tail" /\ CmdsOf(t)' = <<>>
    BY <1>1, <1>3, <1>5 DEF CmdsOf
  <2>2. Progress(t)' /\ Outcomes(t)'
    BY <1>1, <1>3, <2>1, NullIsNoIndex DEF Progress, Outcomes, Ended, Going
  <2> QED BY <1>1, <1>5, <2>2, RecordKeeps
<1>6. CASE /\ CmdsOf(t) # <<>>
           /\ inst' = [inst EXCEPT ![t] = [r EXCEPT !.curr_index = 0]]
           /\ pc' = [pc EXCEPT ![t] = "do"]
  <2> DEFINE q == [r EXCEPT !.curr_index = 0]
  <2>1. Going(q) /\ q.curr_index = 0
    BY <1>3 DEF Instance, Going
  <2> HIDE DEF q
  <2>2. inst' = [inst EXCEPT ![t] = q] /\ inst'[t] = q /\ pc'[t] = "do"
    BY <1>1, <1>6 DEF q
  <2>3. Progress(t)' /\ Outcomes(t)'
    BY <1>1, <2>1, <2>2 DEF Progress, Outcomes
  <2> QED BY <1>1, <1>6, <2>2, <2>3, RecordKeeps
<1> QED BY <1>2, <1>4, <1>5, <1>6

LEMMA RunningRecords ==
  ASSUME RInv, EInv', NEW t \in TranId,
         Do(t) \/ OnRecvMsgEvent(t) \/ OnAbortEvent(t) \/ OnTimeout(t)
  PROVE  RInv'
<1>1. /\ pc[t] \in {"do", "resumed"} /\ inst[t] \in Instance /\ Going(inst[t])
      /\ pending[t] \in [Event -> Nat] /\ Local(t)
  BY DEF Do, OnRecvMsgEvent, OnAbortEvent, OnTimeout, RunsAt, RInv, EInv, TypeOK, Progress
<1>2. ASSUME NEW r \in AfterCallback(t), NEW err \in {"OK", "ERROR"}, CommandReturned(t, r, err)
      PROVE  RInv'
  BY <1>1, <1>2, CallbackGoing, CommandReturnedRecords
<1>3. ASSUME NEW r \in AfterCallback(t), NEW events \in [Event -> Nat], WaitForEvent(t, r, events)
      PROVE  RInv'
  BY <1>1, <1>3, CallbackGoing, WaitRecords
<1>4. CASE Do(t)
  <2>1. ASSUME NEW r \in AfterCallback(t)
        PROVE  CmdsOf(t)[r.curr_index + 1] \in [Event -> Nat]
    <3>1. /\ inst[t].curr_index \in Nat /\ inst[t].curr_index < Len(CmdsOf(t))
          /\ inst[t].type \in TranType
      BY <1>1, <1>4 DEF Local, Recorded, Do, RunsAt, Allocated, Pc
    <3>2. CmdsOf(t) \in Seq([Event -> Nat])
      BY <3>1, EngineAssumption DEF CmdsOf
    <3>3. r.curr_index = inst[t].curr_index
      BY <1>1, CallbackLike
    <3> QED BY <3>1, <3>2, <3>3
  <2> QED BY <1>2, <1>3, <1>4, <2>1 DEF Do
<1>5. CASE OnRecvMsgEvent(t)
  <2> DEFINE e == inst[t].event_type
             rest == [pending[t] EXCEPT ![e] = @ - 1]
  <2>1. rest \in [Event -> Nat]
    BY <1>1, <1>5 DEF OnRecvMsgEvent
  <2>2. \E r \in AfterCallback(t) : CommandReturned(t, r, "ERROR") \/ WaitForEvent(t, r, rest)
    BY <1>5 DEF OnRecvMsgEvent
  <2> HIDE DEF rest
  <2> QED BY <1>2, <1>3, <2>1, <2>2
<1>6. CASE OnAbortEvent(t)
  <2> DEFINE r == [inst[t] EXCEPT !.fail_reason = "ABORT"]
  <2>1. r \in Instance /\ Going(r) /\ r.curr_index = inst[t].curr_index /\ r.type = inst[t].type
    BY <1>1 DEF Instance, Going
  <2>2. WaitForEvent(t, r, pending[t])
    BY <1>6 DEF OnAbortEvent
  <2> HIDE DEF r
  <2> QED BY <1>1, <2>1, <2>2, WaitRecords
<1>7. CASE OnTimeout(t)
  BY <1>1, <1>2, <1>3, <1>7 DEF OnTimeout
<1> QED BY <1>4, <1>5, <1>6, <1>7

LEMMA ExitRecords ==
  ASSUME RInv, EInv', NEW t \in TranId, Exit(t)
  PROVE  RInv'
<1> DEFINE r == Completed(inst[t])
           q == IF r.is_delay_destroying THEN r ELSE [r EXCEPT !.is_delay_destroying = TRUE]
<1>1. /\ pc[t] = "tail" /\ inst[t] \in Instance /\ Local(t)
      /\ inst' = [inst EXCEPT ![t] = q] /\ pc' = [pc EXCEPT ![t] = "exited"]
      /\ UNCHANGED <<result, done, undone>>
      /\ inst \in [TranId -> Instance] /\ pc \in [TranId -> Pc]
  BY DEF Exit, RunsAt, RInv, EInv, TypeOK, history
<1>2. /\ q.fail_index = inst[t].fail_index /\ q.fail_reason = inst[t].fail_reason
      /\ q.type = inst[t].type
      /\ q.is_complete = (inst[t].is_complete \/ ~IsFailed(inst[t]))
  <2>1. PICK b \in BOOLEAN : /\ r = [inst[t] EXCEPT !.is_complete = b]
                             /\ b = (inst[t].is_complete \/ ~IsFailed(inst[t]))
    <3>1. (inst[t].is_complete \/ ~IsFailed(inst[t])) \in BOOLEAN
      BY <1>1 DEF Instance, IsFailed
    <3> QED BY <3>1 DEF Completed
  <2> HIDE DEF r
  <2> QED BY <1>1, <2>1 DEF Instance
<1> HIDE DEF q
<1>3. inst'[t] = q /\ pc'[t] = "exited" /\ result[t] = "none"
  BY <1>1 DEF Local, Reported
<1>4. Progress(t)'
  BY <1>1, <1>3 DEF RInv, Progress
<1>5. Outcomes(t)'
  BY <1>1, <1>2, <1>3 DEF RInv, Outcomes, Ended, IsFailed, CmdsOf
<1> QED BY <1>1, <1>4, <1>5, RecordKeeps

LEMMA StartRecords ==
  ASSUME RInv, EInv', NEW t \in TranId, StartCommonTransaction(t) \/ StartStep(t)
  PROVE  RInv'
<1>1. /\ inst[t] \in Instance /\ Progress(t)
      /\ inst \in [TranId -> Instance] /\ pc \in [TranId -> Pc]
  BY DEF RInv, EInv, TypeOK
<1>2. ASSUME NEW q, NEW p, inst' = [inst EXCEPT ![t] = q], pc' = [pc EXCEPT ![t] = p],
             p \in {"added", "created", "boot", "failed"}, p # "failed" => Going(q),
             pc[t] \in {"none", "added", "created"}, UNCHANGED history
      PROVE  RInv'
  <2>1. inst'[t] = q /\ pc'[t] = p /\ UNCHANGED <<result, done, undone>> /\ done[t] = <<>>
    BY <1>1, <1>2 DEF history, Progress
  <2>2. Progress(t)' /\ Outcomes(t)'
    BY <1>2, <2>1 DEF Progress, Outcomes
  <2> QED BY <1>2, <2>1, <2>2, RecordKeeps
<1>3. CASE StartCommonTransaction(t)
  <2>1. PICK a, ty : inst' = [inst EXCEPT ![t] = [NoInstance EXCEPT !.type = ty, !.addr = a]]
    BY <1>3 DEF StartCommonTransaction
  <2>2. Going([NoInstance EXCEPT !.type = ty, !.addr = a])
    BY DEF Going, NoInstance
  <2> QED BY <1>2, <1>3, <2>1, <2>2 DEF StartCommonTransaction
<1>4. CASE CreateCoroutine(t)
  <2> DEFINE q == [inst[t] EXCEPT !.coroutine_id = t]
  <2>1. Going(q)
    BY <1>1, <1>4 DEF CreateCoroutine, Progress, Going, Instance
  <2>2. inst' = [inst EXCEPT ![t] = q]
    BY <1>4 DEF CreateCoroutine
  <2> HIDE DEF q
  <2> QED BY <1>2, <1>4, <2>1, <2>2 DEF CreateCoroutine
<1>5. CASE EnterCoroutine(t)
  <2>1. inst' = [inst EXCEPT ![t] = inst[t]] /\ Going(inst[t])
    BY <1>1, <1>5 DEF EnterCoroutine, Progress
  <2> QED BY <1>2, <1>5, <2>1 DEF EnterCoroutine
<1>6. CASE CreateCoroutineFails(t) \/ EnterCoroutineFails(t)
  BY <1>2, <1>6 DEF CreateCoroutineFails, EnterCoroutineFails, GiveUpStart
<1> QED BY <1>3, <1>4, <1>5, <1>6 DEF StartStep

LEMMA DeliverRecords ==
  ASSUME RInv, EInv', NEW t \in TranId, NEW msg, pc[t] = "suspended", Deliver(t, msg),
         UNCHANGED history
  PROVE  RInv'
<1>1. /\ inst[t] \in Instance /\ Progress(t)
      /\ inst \in [TranId -> Instance] /\ pc \in [TranId -> Pc]
  BY DEF RInv, EInv, TypeOK
<1> DEFINE r == [inst[t] EXCEPT !.timer_id = NoTimer]
           q == [r EXCEPT !.event_type = msg]
<1>2. SameRecord(r, inst[t]) /\ SameRecord(q, inst[t])
  BY <1>1 DEF SameRecord, Instance
<1>3. inst' = [inst EXCEPT ![t] = q] \/ inst' = [inst EXCEPT ![t] = r]
  BY DEF Deliver, IsDefaultEvent, SetEventArg
<1>4. PICK p \in {"suspended", "resumed"} : pc' = [pc EXCEPT ![t] = p]
  <2>1. pc' = pc \/ pc' = [pc EXCEPT ![t] = "resumed"]
    BY DEF Deliver, IsDefaultEvent, SetEventArg
  <2>2. pc = [pc EXCEPT ![t] = "suspended"]
    BY <1>1
  <2> QED BY <2>1, <2>2
<1>5. Going(inst[t])
  BY <1>1 DEF Progress
<1> HIDE DEF r, q
<1> QED BY <1>2, <1>3, <1>4, <1>5, GoesOn

LEMMA SendRecords ==
  ASSUME RInv, EInv', NEW t \in TranId, AppStep(t)
  PROVE  RInv'
<1>1. CASE AppStarts(t)
  BY <1>1, StartRecords DEF AppStarts
<1>2. ASSUME NEW msg, ~Starting, cpu # t, SendMsgEventToTran(t, msg)
      PROVE  RInv'
  BY <1>2, ReceiverWaits, DeliverRecords DEF RInv, SendMsgEventToTran, SendMsgEvent
<1>3. CASE AppSends(t) \/ AppAborts(t)
  BY <1>2, <1>3, EngineAssumption DEF AppSends, AppAborts, AppInMain
<1>4. CASE PeerSends(t)
  BY <1>2, <1>4 DEF PeerSends, AppInCoroutine
<1> QED BY <1>1, <1>3, <1>4 DEF AppStep, CallGM

LEMMA TimerRecords ==
  ASSUME RInv, EInv', NEW i \in TimerId, TimerFires(i)
  PROVE  RInv'
<1>1. timers[i] \in TranId /\ pc[timers[i]] = "suspended"
  BY DEF TimerFires, RInv, EInv, TypeOK, TimersOwned
<1>2. timers[i] \in trans_map
  BY <1>1 DEF RInv, EInv, Local, Placed, Mapped
<1>3. Deliver(timers[i], "TIMEOUT") /\ UNCHANGED history
  BY <1>2 DEF TimerFires
<1> QED BY <1>1, <1>3, DeliverRecords

LEMMA ReportRecords ==
  ASSUME RInv, EInv', UpdateTakesNext
  PROVE  RInv'
<1>1. PICK a \in Ahead :
        /\ inst' = [inst EXCEPT ![InstAt(a)].coroutine_id = NoCo]
        /\ result' = [result EXCEPT ![InstAt(a)] = Outcome(inst[InstAt(a)])]
  BY DEF UpdateTakesNext
<1>2. PICK t \in TranId : inst[t].addr = a /\ pc[t] = "exited"
  BY DEF RInv, EInv, UpdateMeetsLiveInstances
<1>3. InstAt(a) = t
  BY <1>2, InstanceThere DEF RInv, Allocated, Pc
<1>4. /\ cpu = Main /\ curr = Main /\ ~upd.handling /\ UNCHANGED <<pc, done, undone>>
  BY BooksSay DEF UpdateTakesNext, RInv, EInv
<1>5. /\ inst \in [TranId -> Instance] /\ inst[t] \in Instance
      /\ result \in [TranId -> {"none", "success", "fail", "abort"}]
      /\ Progress(t) /\ Outcomes(t) /\ Undone(t)
  BY DEF RInv, EInv, TypeOK
<1> DEFINE q == [inst[t] EXCEPT !.coroutine_id = NoCo]
<1>6. /\ q.fail_index = inst[t].fail_index /\ q.fail_reason = inst[t].fail_reason
      /\ q.is_complete = inst[t].is_complete /\ q.type = inst[t].type
  BY <1>5 DEF Instance
<1>7. inst'[t] = q /\ result'[t] = OutcomeInMain(inst[t])
  BY <1>1, <1>3, <1>4, <1>5 DEF Outcome, OutcomeInMain
<1> HIDE DEF q
<1>8. Progress(t)' /\ Outcomes(t)' /\ Undone(t)'
  BY <1>2, <1>4, <1>5, <1>6, <1>7 DEF Progress, Outcomes, Undone, Ended, CmdsOf, IsFailed, OutcomeInMain
<1>9. \A u \in TranId : u # t => Apart(u)
  BY <1>1, <1>3, <1>4, <1>5 DEF Apart
<1> QED BY <1>8, <1>9, ApartKeeps DEF RInv

\* The commands to undo are those done before the one that failed, last first.
LEMMA UndoListIs ==
  ASSUME RInv, NEW t \in TranId, pc[t] = "exited"
  PROVE  /\ \E n \in 0..Len(done[t]) : /\ UndoList(t) = LastFirst(done[t], n)
                                       /\ n = 0 \/ n + 1 >= Len(done[t])
         /\ result[t] \in {"none", "success"} => UndoList(t) = <<>>
         /\ result[t] # "abort" =>
              UndoList(t) = IF result[t] = "fail" /\ NeedUndo[inst[t].type]
                            THEN LastFirst(done[t], Len(done[t])) ELSE <<>>
<1> DEFINE last == inst[t].fail_index
<1>1. /\ done[t] \in Seq(Nat) /\ Len(done[t]) \in Nat /\ last \in Nat \cup {Null}
      /\ \A k \in 1..Len(done[t]) : done[t][k] = k - 1
      /\ result[t] \in {"none", "success", "fail", "abort"}
      /\ inst[t].fail_reason \in {"OK", "ERROR", "ABORT"}
  BY DEF RInv, EInv, TypeOK, Instance, Progress
<1>2. /\ last \in Nat => last <= Len(done[t]) /\ Len(done[t]) <= last + 1
      /\ inst[t].fail_reason = "ERROR" => IF last = Null THEN Len(done[t]) = 0 ELSE last = Len(done[t])
      /\ result[t] = "fail" => inst[t].fail_reason = "ERROR"
  BY <1>1 DEF RInv, Outcomes, Ended, OutcomeInMain, IsFailed
<1>3. ASSUME last \in Nat
      PROVE  [k \in 1..last |-> last - k] = LastFirst(done[t], last)
  <2>1. ASSUME NEW k \in 1..last PROVE last - k = done[t][last + 1 - k]
    <3>1. last + 1 - k \in 1..Len(done[t])
      BY <1>1, <1>2, <1>3, <2>1
    <3> QED BY <1>1, <1>3, <2>1, <3>1
  <2> QED BY <2>1 DEF LastFirst
<1>4. LastFirst(done[t], 0) = <<>> /\ 0 \in 0..Len(done[t])
  BY <1>1 DEF LastFirst
<1>5. CASE result[t] \in {"fail", "abort"} /\ NeedUndo[inst[t].type] /\ last # Null
  <2>1. /\ UndoList(t) = LastFirst(done[t], last) /\ last \in 0..Len(done[t])
        /\ last + 1 >= Len(done[t])
    BY <1>1, <1>2, <1>3, <1>5 DEF UndoList
  <2>2. result[t] # "abort" => last = Len(done[t])
    BY <1>2, <1>5
  <2> QED BY <1>5, <2>1, <2>2
<1>6. CASE ~(result[t] \in {"fail", "abort"} /\ NeedUndo[inst[t].type] /\ last # Null)
  <2>1. UndoList(t) = <<>>
    BY <1>6 DEF UndoList
  <2>2. result[t] = "fail" /\ NeedUndo[inst[t].type] => Len(done[t]) = 0
    BY <1>2, <1>6
  <2> QED BY <1>4, <2>1, <2>2
<1> QED BY <1>5, <1>6

LEMMA ReleasesFinished ==
  ASSUME RInv, UpdateReleases
  PROVE  \E t \in TranId :
           /\ pc[t] = "exited" /\ inst' = [inst EXCEPT ![t] = NoInstance]
           /\ pc' = [pc EXCEPT ![t] = "released"]
           /\ undone' = [undone EXCEPT ![t] = UndoList(t)]
           /\ UNCHANGED <<result, done>>
<1>1. PICK t \in TranId : inst[t].addr = upd.at /\ pc[t] = "exited"
  BY DEF RInv, EInv, HandlesOne, UpdateReleases
<1>2. InstAt(upd.at) = t
  BY <1>1, InstanceThere DEF RInv, Allocated, Pc
<1>3. /\ undone' = [undone EXCEPT ![t] = undone[t] \o UndoList(t)]
      /\ inst' = [inst EXCEPT ![t] = NoInstance]
      /\ pc' = [pc EXCEPT ![t] = "released"]
      /\ UNCHANGED <<result, done>>
  BY <1>2 DEF UpdateReleases
<1>4. undone[t] \o UndoList(t) = UndoList(t)
  <2>1. undone[t] = <<>>
    BY <1>1 DEF RInv, Undone
  <2>2. PICK n \in 0..Len(done[t]) : UndoList(t) = LastFirst(done[t], n)
    BY <1>1, UndoListIs
  <2>3. done[t] \in Seq(Nat) /\ n \in Nat /\ n <= Len(done[t])
    BY DEF RInv, EInv, TypeOK
  <2>4. LastFirst(done[t], n) \in Seq(Nat)
    BY <2>3 DEF LastFirst
  <2> HIDE DEF UndoList
  <2> QED BY <2>1, <2>2, <2>4
<1> QED BY <1>1, <1>3, <1>4

LEMMA ReleaseRecords ==
  ASSUME RInv, EInv', UpdateReleases
  PROVE  RInv'
<1>1. PICK t \in TranId :
           /\ pc[t] = "exited" /\ inst' = [inst EXCEPT ![t] = NoInstance]
           /\ pc' = [pc EXCEPT ![t] = "released"]
           /\ undone' = [undone EXCEPT ![t] = UndoList(t)]
           /\ UNCHANGED <<result, done>>
  BY ReleasesFinished
<1>2. /\ inst \in [TranId -> Instance] /\ pc \in [TranId -> Pc] /\ undone \in [TranId -> Seq(Nat)]
      /\ Progress(t)
  BY DEF RInv, EInv, TypeOK
<1>3. pc'[t] = "released" /\ undone'[t] = UndoList(t)
  BY <1>1, <1>2
<1>4. Progress(t)' /\ Outcomes(t)'
  BY <1>1, <1>2, <1>3 DEF Progress, Outcomes
<1>5. Undone(t)'
  <2> HIDE DEF UndoList
  <2> QED BY <1>1, <1>3, UndoListIs DEF Undone
<1>6. \A u \in TranId : u # t => Apart(u)
  BY <1>1, <1>2 DEF Apart
<1> QED BY <1>4, <1>5, <1>6, ApartKeeps DEF RInv

LEMMA RecordsKept == RInv /\ EInv' /\ [Next]_vars => RInv'
<1> SUFFICES ASSUME RInv, EInv', [Next]_vars
             PROVE  RInv'
  OBVIOUS
<1>1. ASSUME UNCHANGED <<inst, pc, result, done, undone>> PROVE RInv'
  BY <1>1, ApartKeeps DEF RInv, Apart
<1>2. ASSUME NEW t \in TranId, StartStep(t) PROVE RInv'
  BY <1>2, StartRecords
<1>3. ASSUME NEW t \in TranId, CoroutineStep(t) PROVE RInv'
  BY <1>3, OnStartRecords, RunningRecords, ExitRecords DEF CoroutineStep
<1>4. ASSUME NEW t \in TranId, AppStep(t) PROVE RInv'
  BY <1>4, SendRecords
<1>5. ASSUME NEW i \in TimerId, TimerFires(i) PROVE RInv'
  BY <1>5, TimerRecords
<1>6. CASE UpdateStep
  BY <1>1, <1>6, ReportRecords, ReleaseRecords DEF UpdateStep, UpdateEnds, history
<1>7. CASE UNCHANGED vars
  BY <1>1, <1>7 DEF vars, history
<1> QED BY <1>2, <1>3, <1>4, <1>5, <1>6, <1>7 DEF Next, AllOver

LEMMA RecordInvariant == Spec => []RInv
<1>1. Init => RInv
  <2> SUFFICES ASSUME Init, NEW t \in TranId
               PROVE  Progress(t) /\ Outcomes(t) /\ Undone(t)
    BY InitEstablishes DEF RInv
  <2>1. LastFirst(<<>>, 0) = <<>>
    BY DEF LastFirst
  <2> QED BY <2>1 DEF Init, Progress, Outcomes, Undone
<1> QED BY <1>1, RecordsKept, EngineInvariant, PTL DEF Spec

\* However a transaction ends, only commands that returned 0 are undone, once
\* each, last first, and none after a success.
THEOREM UndoneWasDone == Spec => []UndoOnlyWhatWasDone
<1>1. RInv => UndoOnlyWhatWasDone
  BY DEF RInv, Undone, UndoOnlyWhatWasDone
<1> QED BY <1>1, RecordInvariant, PTL

\* A failed transaction that needs undo has undone exactly what it had done.
THEOREM FailuresAreUndone == Spec => FailureIsUndone
<1> DEFINE Step == \A t \in TranId :
                     pc'[t] = "released" /\ pc[t] # "released" /\ result[t] # "abort" =>
                       undone'[t] = IF result[t] = "fail" /\ NeedUndo[inst[t].type]
                                    THEN LastFirst(done[t], Len(done[t]))
                                    ELSE <<>>
<1>1. RInv /\ [Next]_vars => [Step]_vars
  <2> SUFFICES ASSUME RInv, Next, NEW t \in TranId, pc'[t] = "released", pc[t] # "released",
                      result[t] # "abort"
               PROVE  undone'[t] = IF result[t] = "fail" /\ NeedUndo[inst[t].type]
                                   THEN LastFirst(done[t], Len(done[t]))
                                   ELSE <<>>
    OBVIOUS
  <2>1. UpdateReleases
    <3>1. pc \in [TranId -> Pc]
      BY DEF RInv, EInv, TypeOK
    <3>2. ASSUME NEW u \in TranId, StartStep(u) PROVE FALSE
      BY <3>1, <3>2 DEF StartStep, CreateCoroutine, CreateCoroutineFails, EnterCoroutine,
                        EnterCoroutineFails, GiveUpStart
    <3>3. ASSUME NEW u \in TranId, NEW r, NEW err, CommandReturned(u, r, err) PROVE FALSE
      BY <3>1, <3>3 DEF CommandReturned
    <3>4. ASSUME NEW u \in TranId, CoroutineStep(u) PROVE FALSE
      BY <3>1, <3>3, <3>4 DEF CoroutineStep, OnStart, Do, OnRecvMsgEvent, OnAbortEvent, OnTimeout,
                              Exit, WaitForEvent, Suspend
    <3>5. ASSUME NEW u \in TranId, AppStep(u) PROVE FALSE
      BY <3>1, <3>5 DEF AppStep, CallGM, AppStarts, StartCommonTransaction, AppSends, AppAborts,
                        PeerSends, SendMsgEventToTran, SendMsgEvent, Deliver
    <3>6. ASSUME NEW i \in TimerId, TimerFires(i) PROVE FALSE
      BY <3>1, <3>6 DEF TimerFires, Deliver, IsDefaultEvent, SetEventArg
    <3> QED
      BY <3>2, <3>4, <3>5, <3>6
         DEF Next, UpdateStep, UpdateTakesNext, UpdateEnds, AllOver, vars
  <2>2. PICK u \in TranId :
           /\ pc[u] = "exited" /\ pc' = [pc EXCEPT ![u] = "released"]
           /\ undone' = [undone EXCEPT ![u] = UndoList(u)]
    BY <2>1, ReleasesFinished
  <2>3. u = t /\ undone'[t] = UndoList(t)
    BY <2>2 DEF RInv, EInv, TypeOK
  <2> HIDE DEF UndoList
  <2> QED BY <2>2, <2>3, UndoListIs
<1>2. FailureIsUndone <=> [][Step]_vars
  BY PTL DEF FailureIsUndone
<1> QED BY <1>1, <1>2, RecordInvariant, PTL DEF Spec

\* Where nobody calls complete() early, success is reported only if every
\* command returned 0, and failure or abort only if something failed.
THEOREM ResultsAreHonest ==
  ASSUME "complete" \notin AppDoes
  PROVE  Spec => []ResultIsHonest
<1>1. RInv => ResultIsHonest
  <2> SUFFICES ASSUME RInv, NEW t \in TranId, upd = [at |-> inst[t].addr, handling |-> TRUE]
               PROVE  IF result[t] = "success"
                      THEN ~IsFailed(inst[t]) /\ Len(done[t]) = Len(CmdsOf(t))
                      ELSE IsFailed(inst[t])
    BY DEF ResultIsHonest
  <2>1. upd.at = inst[t].addr /\ upd.handling
    OBVIOUS
  <2>2. PICK u \in TranId : inst[u].addr = upd.at /\ pc[u] = "exited"
    BY <2>1 DEF RInv, EInv, HandlesOne
  <2>3. pc[t] \in Allocated
    <3>1. inst[t].addr \in Addr
      BY <2>1, <2>2 DEF RInv, EInv, Local, Recorded, Allocated, Pc
    <3>2. inst[t] # NoInstance
      BY <3>1, EngineAssumption DEF NoInstance
    <3> QED BY <3>2 DEF RInv, EInv, Local, Recorded
  <2>4. t = u
    BY <2>1, <2>2, <2>3 DEF RInv, EInv, Addresses, Allocated, Pc
  <2>5. result[t] # "none"
    BY <2>1, <2>2, <2>4 DEF RInv, EInv, Local, Reported
  <2>6. Outcomes(t) /\ pc[t] = "exited"
    BY <2>2, <2>4 DEF RInv
  <2> QED BY <2>5, <2>6 DEF Outcomes, OutcomeInMain, Ended, IsFailed
<1> QED BY <1>1, RecordInvariant, PTL

-----------------------------------------------------------------------------
(* The engine implements Transactions.                                     *)

Promises == Promised!PromiseNext \/ UNCHANGED <<Life, done, result, undone>>

\* The life of t is all that a step of t moves, ...
LEMMA LifeMoves ==
  ASSUME RInv, NEW t \in TranId, NEW p, pc' = [pc EXCEPT ![t] = p], result' = result
  PROVE  /\ Life[t] = LifeOf(pc[t], result[t])
         /\ Life' = [Life EXCEPT ![t] = LifeOf(p, result[t])]
         /\ LifeOf(p, result[t]) = LifeOf(pc[t], result[t]) => Life' = Life
<1>1. pc \in [TranId -> Pc]
  BY DEF RInv, EInv, TypeOK
<1> QED BY <1>1 DEF Life

\* ... if it does.
LEMMA LifeStays ==
  ASSUME RInv, NEW t \in TranId, NEW p, pc' = [pc EXCEPT ![t] = p], UNCHANGED history,
         \/ pc[t] \in {"none", "added"} /\ p \in {"added", "created"}
         \/ pc[t] \in {"boot", "do", "suspended", "resumed"} /\ p \in {"do", "suspended", "resumed", "tail"}
  PROVE  Promises
<1>1. LifeOf(p, result[t]) = LifeOf(pc[t], result[t])
  BY DEF LifeOf
<1>2. Life' = Life
  BY <1>1, LifeMoves DEF history
<1> QED BY <1>2 DEF Promises, history

LEMMA PassKeeps ==
  ASSUME RInv, NEW t \in TranId, NEW p, pc' = [pc EXCEPT ![t] = p], UNCHANGED history,
         \/ pc[t] \in {"added", "created"} /\ p \in {"boot", "failed"}
         \/ pc[t] = "tail" /\ p = "exited" /\ result[t] = "none"
  PROVE  Promises
<1>1. Life[t] = LifeOf(pc[t], result[t]) /\ Life' = [Life EXCEPT ![t] = LifeOf(p, result[t])]
  BY LifeMoves DEF history
<1>2. \/ LifeOf(pc[t], result[t]) = "new" /\ LifeOf(p, result[t]) = "running"
      \/ LifeOf(pc[t], result[t]) = "new" /\ LifeOf(p, result[t]) = "refused"
      \/ LifeOf(pc[t], result[t]) = "running" /\ LifeOf(p, result[t]) = "ended"
  BY DEF LifeOf
<1> QED
  BY <1>1, <1>2 DEF Promises, Promised!PromiseNext, Promised!Begin, Promised!Refuse,
                    Promised!End, Promised!Passes, history

LEMMA CommandKeepsPromise ==
  ASSUME RInv, NEW t \in TranId, NEW r, NEW err, CommandReturned(t, r, err),
         pc[t] \in {"do", "resumed"}, r.curr_index = inst[t].curr_index
  PROVE  Promises
<1>1. PICK p \in {"tail", "do"} : pc' = [pc EXCEPT ![t] = p]
  BY DEF CommandReturned
<1>2. UNCHANGED <<result, undone>>
  BY DEF CommandReturned
<1>3. CASE done' = done
  BY <1>1, <1>2, <1>3, LifeStays DEF history
<1>4. CASE done' = [done EXCEPT ![t] = Append(done[t], r.curr_index)]
  <2>1. r.curr_index = Len(done[t])
    BY DEF RInv, Progress
  <2>2. LifeOf(p, result[t]) = "running" /\ LifeOf(pc[t], result[t]) = "running"
    BY <1>1 DEF LifeOf
  <2>3. Life[t] = "running" /\ Life' = Life
    BY <1>1, <1>2, <2>2, LifeMoves
  <2> QED BY <1>2, <1>4, <2>1, <2>3 DEF Promises, Promised!PromiseNext, Promised!DoNext
<1> QED BY <1>3, <1>4 DEF CommandReturned

LEMMA WaitKeepsPromise ==
  ASSUME RInv, NEW t \in TranId, NEW r, NEW events, WaitForEvent(t, r, events),
         pc[t] \in {"do", "resumed"}, r.curr_index = inst[t].curr_index
  PROVE  Promises
<1>1. CASE Suspend(t, r, events)
  BY <1>1, LifeStays DEF Suspend
<1> QED BY <1>1, CommandKeepsPromise DEF WaitForEvent

LEMMA DeliverKeepsPromise ==
  ASSUME RInv, NEW t \in TranId, NEW msg, pc[t] = "suspended", Deliver(t, msg), UNCHANGED history
  PROVE  Promises
<1>1. pc \in [TranId -> Pc]
  BY DEF RInv, EInv, TypeOK
<1>2. pc' = [pc EXCEPT ![t] = "suspended"] \/ pc' = [pc EXCEPT ![t] = "resumed"]
  BY <1>1 DEF Deliver, IsDefaultEvent, SetEventArg
<1> QED BY <1>2, LifeStays

LEMMA CoroutineKeepsPromise ==
  ASSUME RInv, NEW t \in TranId, CoroutineStep(t)
  PROVE  Promises
<1>1. inst[t] \in Instance /\ Local(t)
  BY DEF RInv, EInv, TypeOK
<1>2. ASSUME NEW r \in AfterCallback(t) PROVE r.curr_index = inst[t].curr_index
  BY <1>1, CallbackLike
<1>3. [inst[t] EXCEPT !.fail_reason = "ABORT"].curr_index = inst[t].curr_index
  BY <1>1 DEF Instance
<1>4. CASE OnStart(t)
  <2>1. PICK p \in {"tail", "do"} : pc' = [pc EXCEPT ![t] = p]
    BY <1>4 DEF OnStart
  <2> QED BY <1>4, <2>1, LifeStays DEF OnStart, RunsAt
<1>5. CASE Do(t)
  BY <1>2, <1>5, CommandKeepsPromise, WaitKeepsPromise DEF Do, RunsAt
<1>6. CASE OnRecvMsgEvent(t)
  BY <1>2, <1>6, CommandKeepsPromise, WaitKeepsPromise DEF OnRecvMsgEvent, RunsAt
<1>7. CASE OnAbortEvent(t)
  BY <1>3, <1>7, WaitKeepsPromise DEF OnAbortEvent, RunsAt
<1>8. CASE OnTimeout(t)
  BY <1>2, <1>8, CommandKeepsPromise, WaitKeepsPromise DEF OnTimeout, RunsAt
<1>9. CASE Exit(t)
  <2>1. result[t] = "none"
    BY <1>1, <1>9 DEF Local, Reported, Exit, RunsAt
  <2> QED BY <1>9, <2>1, PassKeeps DEF Exit, RunsAt
<1> QED BY <1>4, <1>5, <1>6, <1>7, <1>8, <1>9 DEF CoroutineStep

LEMMA AppKeepsPromise ==
  ASSUME RInv, NEW t \in TranId, AppStep(t)
  PROVE  Promises
<1>1. CASE AppStarts(t)
  BY <1>1, LifeStays DEF AppStarts, StartCommonTransaction
<1>2. ASSUME NEW msg, ~Starting, cpu # t, SendMsgEventToTran(t, msg)
      PROVE  Promises
  BY <1>2, ReceiverWaits, DeliverKeepsPromise DEF RInv, SendMsgEventToTran, SendMsgEvent
<1>3. CASE AppSends(t) \/ AppAborts(t)
  BY <1>2, <1>3, EngineAssumption DEF AppSends, AppAborts, AppInMain
<1>4. CASE PeerSends(t)
  BY <1>2, <1>4 DEF PeerSends, AppInCoroutine
<1> QED BY <1>1, <1>3, <1>4 DEF AppStep, CallGM

LEMMA ReportKeepsPromise ==
  ASSUME RInv, UpdateTakesNext
  PROVE  Promises
<1>1. PICK a \in Ahead : result' = [result EXCEPT ![InstAt(a)] = Outcome(inst[InstAt(a)])]
  BY DEF UpdateTakesNext
<1>2. PICK t \in TranId : inst[t].addr = a /\ pc[t] = "exited"
  BY DEF RInv, EInv, UpdateMeetsLiveInstances
<1>3. InstAt(a) = t
  BY <1>2, InstanceThere DEF RInv, Allocated, Pc
<1>4. cpu = Main /\ ~upd.handling /\ UNCHANGED <<pc, done, undone>>
  BY DEF UpdateTakesNext
<1>5. PICK o \in {"success", "fail", "abort"} : result' = [result EXCEPT ![t] = o]
  BY <1>1, <1>3, <1>4, OutcomeIsSome DEF RInv
<1>6. result \in [TranId -> {"none", "success", "fail", "abort"}] /\ result[t] = "none"
  BY <1>2, <1>4 DEF RInv, EInv, TypeOK, Local, Reported
<1>7. Life[t] = "ended" /\ Life' = [Life EXCEPT ![t] = "reported"]
  BY <1>2, <1>4, <1>5, <1>6 DEF Life, LifeOf
<1> QED
  BY <1>4, <1>5, <1>7 DEF Promises, Promised!PromiseNext, Promised!Report, Promised!Passes

LEMMA ReleaseKeepsPromise ==
  ASSUME RInv, UpdateReleases
  PROVE  Promises
<1>1. PICK t \in TranId :
           /\ pc[t] = "exited" /\ pc' = [pc EXCEPT ![t] = "released"]
           /\ undone' = [undone EXCEPT ![t] = UndoList(t)]
           /\ UNCHANGED <<result, done>>
  BY ReleasesFinished
<1>2. PICK u \in TranId : inst[u].addr = upd.at /\ pc[u] = "exited"
  BY DEF RInv, EInv, HandlesOne, UpdateReleases
<1>3. u = t
  <2>1. InstAt(upd.at) = u
    BY <1>2, InstanceThere DEF RInv, Allocated, Pc
  <2>2. pc' = [pc EXCEPT ![u] = "released"]
    BY <2>1 DEF UpdateReleases
  <2> QED BY <1>1, <1>2, <2>2 DEF RInv, EInv, TypeOK
<1>4. result[t] \in {"success", "fail", "abort"}
  BY <1>1, <1>2, <1>3 DEF RInv, EInv, TypeOK, Local, Reported, UpdateReleases
<1>5. Life[t] = "reported" /\ Life' = [Life EXCEPT ![t] = "released"]
  <2>1. LifeOf("exited", result[t]) = "reported" /\ LifeOf("released", result[t]) = "released"
    BY <1>4 DEF LifeOf
  <2> QED BY <1>1, <2>1, LifeMoves
<1>6. \E n \in Promised!MayUndo(t) : UndoList(t) = Promised!Backwards(done[t], n)
  <2>1. \A n : Promised!Backwards(done[t], n) = LastFirst(done[t], n)
    BY DEF Promised!Backwards, LastFirst
  <2>2. LastFirst(done[t], 0) = <<>> /\ done[t] \in Seq(Nat)
    BY DEF LastFirst, RInv, EInv, TypeOK
  <2>3. 0 \in 0..Len(done[t])
    BY <2>2
  <2> HIDE DEF UndoList
  <2>4. CASE result[t] = "success"
    BY <1>1, <2>1, <2>2, <2>4, UndoListIs DEF Promised!MayUndo
  <2>5. CASE result[t] = "fail"
    BY <1>1, <2>1, <2>2, <2>5, UndoListIs DEF Promised!MayUndo
  <2>6. CASE result[t] = "abort"
    <3>1. PICK n \in 0..Len(done[t]) : /\ UndoList(t) = LastFirst(done[t], n)
                                       /\ n = 0 \/ n + 1 >= Len(done[t])
      BY <1>1, UndoListIs
    <3> QED BY <2>1, <2>6, <3>1 DEF Promised!MayUndo
  <2> QED BY <1>4, <2>4, <2>5, <2>6
<1> HIDE DEF UndoList
<1> QED
  BY <1>1, <1>5, <1>6 DEF Promises, Promised!PromiseNext, Promised!Release, Promised!Passes

LEMMA StepsKeepPromise == RInv /\ [Next]_vars => Promises
<1> SUFFICES ASSUME RInv, [Next]_vars
             PROVE  Promises
  OBVIOUS
<1>1. ASSUME NEW t \in TranId, StartStep(t) PROVE Promises
  <2>1. CASE CreateCoroutine(t)
    BY <2>1, LifeStays DEF CreateCoroutine
  <2>2. CASE EnterCoroutine(t)
    BY <2>2, PassKeeps DEF EnterCoroutine
  <2>3. CASE CreateCoroutineFails(t) \/ EnterCoroutineFails(t)
    BY <2>3, PassKeeps DEF CreateCoroutineFails, EnterCoroutineFails, GiveUpStart
  <2> QED BY <1>1, <2>1, <2>2, <2>3 DEF StartStep
<1>2. ASSUME NEW i \in TimerId, TimerFires(i) PROVE Promises
  <2>1. timers[i] \in TranId /\ pc[timers[i]] = "suspended"
    BY <1>2 DEF TimerFires, RInv, EInv, TypeOK, TimersOwned
  <2>2. timers[i] \in trans_map
    BY <2>1 DEF RInv, EInv, Local, Placed, Mapped
  <2> QED BY <1>2, <2>1, <2>2, DeliverKeepsPromise DEF TimerFires
<1>3. ASSUME UNCHANGED <<pc, done, result, undone>> PROVE Promises
  BY <1>3 DEF Promises, Life
<1>4. CASE UpdateStep
  BY <1>3, <1>4, ReportKeepsPromise, ReleaseKeepsPromise DEF UpdateStep, UpdateEnds, history
<1>5. CASE UNCHANGED vars
  BY <1>3, <1>5 DEF vars, history
<1> QED
  BY <1>1, <1>2, <1>4, <1>5, CoroutineKeepsPromise, AppKeepsPromise DEF Next, AllOver

\* Whatever the program does, the engine does what Transactions allows: it does
\* commands in order and only while the transaction runs, reports once, undoes
\* after the report and only what was done.
THEOREM PromisesAreKept == Spec => Promised!SafePromise
<1>1. Init => Promised!PromiseInit
  BY DEF Init, Promised!PromiseInit, Life, LifeOf
<1>2. RInv /\ [Next]_vars => [Promised!PromiseNext]_(Promised!promises)
  BY StepsKeepPromise DEF Promises, Promised!promises
<1> QED BY <1>1, <1>2, RecordInvariant, PTL DEF Spec, Promised!SafePromise

-----------------------------------------------------------------------------
(* Crashes: the inductive invariant of TransactionResume.                  *)

\* Where a transaction is that a crash has caught, until it goes on or fails.
Interrupted == {"lost", "prepared", "reentered"}

Executing == Running \cup {"reentered"}

\* What is left of the scheduler's invariant when crashes may leave coroutines
\* in state RUN that never run again: main and the one that executes are right.
SoundBooks ==
  /\ curr = cpu /\ state[cpu] = "RUN"
  /\ cpu # Main => cpu \in coroutines /\ state[Main] = "SUSPEND" /\ context[Main] = Main

\* Where the code of t is agrees with the maps and the scheduler's books, and
\* those that a swap may enter have a context on a stack of this process.
Stands(t) ==
  /\ pc[t] \in Executing <=> cpu = t
  /\ t \in trans_map <=> pc[t] \in Mapped \cup Interrupted
  /\ pc[t] \in Begun \cup {"prepared", "reentered"} => t \in coroutines
  /\ t \in coroutines => pc[t] \in Begun \cup Interrupted \cup {"exited"}
  /\ t \in coroutines <=> state[t] # "UNINIT"
  /\ pc[t] \in {"created", "prepared"} => state[t] = "READY"
  /\ pc[t] = "suspended" => state[t] = "SUSPEND"
  /\ state[t] = "READY" => pc[t] \in {"created", "prepared", "lost"}
  /\ state[t] = "SUSPEND" => pc[t] \in {"suspended", "lost"}
  /\ pc[t] \in {"created", "prepared", "suspended"} => context[t] = t
  /\ t \in toResume <=> pc[t] \in {"lost", "prepared"}

\* The interrupted transactions that RealResume sees or may still see.
Resumes(t) ==
  pc[t] \in {"prepared", "reentered"} \/ (pc[t] = "lost" /\ state[t] \in {"READY", "SUSPEND"})

\* The bag a is part of the bag b.
Within(a, b) == \A e \in Event : a[e] <= b[e]

\* What an instance says of its wait.  Whatever a crash leaves of it is enough
\* to wait again: one that waited, or was not entered yet, has the same index
\* in waiting_index and curr_index.
Waits(t) ==
  pc[t] \in Allocated \ {"exited"} =>
    /\ inst[t].curr_index # Null => inst[t].curr_index < Len(CmdsOf(t))
    /\ inst[t].waiting_index # Null =>
         /\ inst[t].waiting_index < Len(CmdsOf(t))
         /\ CmdsOf(t)[inst[t].waiting_index + 1] # NoEvents
    /\ pc[t] \in {"added", "created", "boot"} =>
         inst[t].curr_index = Null /\ inst[t].waiting_index = Null
    /\ inst[t].timer_id # NoTimer \/ pc[t] \in {"suspended", "resumed"} \/ Resumes(t) =>
         inst[t].waiting_index = inst[t].curr_index
    /\ inst[t].timer_id # NoTimer \/ pc[t] = "suspended" =>
         /\ inst[t].curr_index # Null /\ inst[t].events # NoEvents
         /\ Within(inst[t].events, CmdsOf(t)[inst[t].curr_index + 1])
    /\ pc[t] \in {"suspended", "resumed"} =>
         Within(pending[t], CmdsOf(t)[inst[t].curr_index + 1])
    /\ pc[t] = "suspended" =>
         /\ Within(inst[t].events, pending[t])
         /\ {"stray", "peer"} \cap AppDoes = {} => inst[t].timer_id # NoTimer

\* The commands done are the first ones, as many as the indices say.
Proceeds(t) ==
  /\ \A k \in 1..Len(done[t]) : done[t][k] = k - 1
  /\ pc[t] \in {"none", "failed"} => done[t] = <<>>
  /\ pc[t] \in Allocated =>
       IF inst[t].curr_index = Null THEN Len(done[t]) = 0
       ELSE Len(done[t]) \in {inst[t].curr_index, inst[t].curr_index + 1}
  /\ inst[t].fail_index # Null => inst[t].fail_index <= Len(done[t])
  /\ (pc[t] \in {"do", "suspended", "resumed"} \/ Resumes(t)) /\ inst[t].curr_index # Null =>
       Len(done[t]) = inst[t].curr_index
  /\ IF pc[t] # "released" THEN undone[t] = <<>>
     ELSE \E n \in 0..Len(done[t]) : undone[t] = LastFirst(done[t], n)

\* Every command was done, or a crash came before the first one.
Whole(t) ==
  Len(done[t]) = Len(CmdsOf(t)) \/ (crashes > 0 /\ inst[t].curr_index = Null)

\* What a success means where no callback completes a transaction early.
Honest(t) ==
  "complete" \notin AppDoes =>
    /\ pc[t] # "exited" => ~inst[t].is_complete
    /\ pc[t] = "tail" => IsFailed(inst[t]) \/ Whole(t)
    /\ pc[t] = "exited" /\ inst[t].is_complete => ~IsFailed(inst[t]) /\ Whole(t)
    /\ pc[t] = "exited" /\ result[t] = "success" => inst[t].is_complete

Each(t) == /\ Stands(t) /\ Recorded(t) /\ Reported(t) /\ Waits(t) /\ Proceeds(t) /\ Honest(t)
           /\ pc[t] \in Interrupted => crashes > 0

\* A timer belongs to a transaction that waits or is to wait again, or to one
\* that is over: the failed attempt to resume an instance leaves its timer.
TimersHeld ==
  /\ \A i \in TimerId : timers[i] # Null =>
       /\ pc[timers[i]] \in Interrupted \cup {"suspended", "exited", "released"}
       /\ pc[timers[i]] \in Interrupted \cup {"suspended"} => inst[timers[i]].timer_id = i
  /\ \A i, j \in TimerId : timers[i] # Null /\ timers[i] = timers[j] => i = j
  /\ \A t \in TranId : inst[t].timer_id # NoTimer /\ pc[t] # "exited" =>
       pc[t] \in Interrupted \cup {"suspended"} /\ timers[inst[t].timer_id] = t

Process == /\ alive \in BOOLEAN /\ crashes \in Nat /\ toResume \subseteq TranId
           /\ ~alive => crashes > 0

CrashInv ==
  /\ TypeOK /\ Process /\ SoundBooks
  /\ \A t \in TranId : Each(t)
  /\ TimersHeld
  /\ Addresses
  /\ UpdateMeetsLiveInstances
  /\ HandlesOne

-----------------------------------------------------------------------------
(* The scheduler, after crashes too.                                       *)

LEMMA LeavesForMain ==
  ASSUME SoundBooks, Sched!TypeOK, Sched!SwapToMain
  PROVE  /\ cpu \in TranId /\ cpu' = Main /\ coroutines' = coroutines
         /\ state'[cpu] = "SUSPEND" /\ context'[cpu] = cpu
         /\ \A u \in TranId : u # cpu => state'[u] = state[u] /\ context'[u] = context[u]
         /\ SoundBooks' /\ Sched!TypeOK'
BY EngineAssumption
   DEF SoundBooks, Sched!SwapToMain, Sched!ResumeRoutine, Sched!JumpContext, Sched!TypeOK,
       Sched!Routine, Sched!State, Sched!Resumable

LEMMA MainEnters ==
  ASSUME SoundBooks, Sched!TypeOK, NEW t \in TranId, context[t] = t, Sched!SwapToWorkRoutine(t)
  PROVE  /\ cpu = Main /\ cpu' = t /\ coroutines' = coroutines /\ t \in coroutines
         /\ state'[t] = "RUN"
         /\ \A u \in TranId : u # t => state'[u] = state[u] /\ context'[u] = context[u]
         /\ SoundBooks' /\ Sched!TypeOK'
BY EngineAssumption
   DEF SoundBooks, Sched!SwapToWorkRoutine, Sched!CanSwapToWorkRoutine, Sched!ResumeRoutine,
       Sched!JumpContext, Sched!TypeOK, Sched!Routine, Sched!State, Sched!Resumable

LEMMA ExitsToMain ==
  ASSUME SoundBooks, Sched!TypeOK, Sched!WorkRoutineExit
  PROVE  /\ cpu \in TranId /\ cpu' = Main /\ coroutines' = coroutines
         /\ state'[cpu] = "DEAD"
         /\ \A u \in TranId : u # cpu => state'[u] = state[u] /\ context'[u] = context[u]
         /\ SoundBooks' /\ Sched!TypeOK'
BY EngineAssumption
   DEF SoundBooks, Sched!WorkRoutineExit, Sched!OnWorkRoutineExit, Sched!TypeOK, Sched!Routine,
       Sched!State

LEMMA Spawns ==
  ASSUME SoundBooks, Sched!TypeOK, NEW t \in TranId, Sched!CreateWorkRoutine(t)
  PROVE  /\ cpu' = cpu /\ coroutines' = coroutines \cup {t}
         /\ state'[t] = "READY" /\ context'[t] = t
         /\ \A u \in TranId : u # t => state'[u] = state[u] /\ context'[u] = context[u]
         /\ SoundBooks' /\ Sched!TypeOK'
BY EngineAssumption
   DEF SoundBooks, Sched!CreateWorkRoutine, Sched!CreateBoostCoroutine, Sched!Prepare,
       Sched!MakeContext, Sched!TypeOK, Sched!Routine, Sched!State

LEMMA Removes ==
  ASSUME SoundBooks, Sched!TypeOK, NEW t \in TranId, t # cpu, Sched!DestroyWorkRoutine(t)
  PROVE  /\ cpu' = cpu /\ coroutines' = coroutines \ {t} /\ state'[t] = "UNINIT"
         /\ \A u \in TranId : u # t => state'[u] = state[u] /\ context'[u] = context[u]
         /\ SoundBooks' /\ Sched!TypeOK'
BY EngineAssumption
   DEF SoundBooks, Sched!DestroyWorkRoutine, Sched!Destroy, Sched!TypeOK, Sched!Routine,
       Sched!State

LEMMA PreparesAgain ==
  ASSUME SoundBooks, Sched!TypeOK, NEW t \in TranId, t # cpu, Sched!Prepare(t),
         UNCHANGED <<curr, coroutines, cpu>>
  PROVE  /\ state'[t] = "READY" /\ context'[t] = t
         /\ \A u \in TranId : u # t => state'[u] = state[u] /\ context'[u] = context[u]
         /\ SoundBooks' /\ Sched!TypeOK'
BY EngineAssumption
   DEF SoundBooks, Sched!Prepare, Sched!MakeContext, Sched!TypeOK, Sched!Routine, Sched!State

LEMMA BooksUntouched ==
  ASSUME SoundBooks, Sched!TypeOK, UNCHANGED <<curr, coroutines, state, context, cpu>>
  PROVE  SoundBooks' /\ Sched!TypeOK'
BY DEF SoundBooks, Sched!TypeOK, Sched!Routine, Sched!State

\* Of the routines in main's reach, those can be entered that wait or are new.
LEMMA MainEntersThose ==
  ASSUME SoundBooks, NEW t \in TranId
  PROVE  Sched!CanSwapToWorkRoutine(t) <=>
           cpu = Main /\ t \in coroutines /\ state[t] \in {"READY", "SUSPEND"}
BY DEF SoundBooks, Sched!CanSwapToWorkRoutine, Sched!Resumable

-----------------------------------------------------------------------------
(* Steps of one transaction.                                               *)

\* As OnlyChanges, for the larger state.
OnlyTouches(t) ==
  /\ OnlyChanges(t)
  /\ \A u \in TranId \ {t} :
       /\ context'[u] = context[u] /\ done'[u] = done[u] /\ undone'[u] = undone[u]
       /\ u \in toResume' <=> u \in toResume
  /\ crashes' = crashes

LEMMA OthersKeepTheRest ==
  ASSUME NEW t \in TranId, NEW u \in TranId \ {t}, OnlyTouches(t), Each(u)
  PROVE  /\ Stands(u)' /\ (pc'[u] \in Interrupted => crashes' > 0) /\ Recorded(u)'
         /\ Waits(u)' /\ Proceeds(u)' /\ Honest(u)'
<1>1. /\ inst'[u] = inst[u] /\ pc'[u] = pc[u] /\ pending'[u] = pending[u]
      /\ result'[u] = result[u] /\ state'[u] = state[u] /\ context'[u] = context[u]
      /\ done'[u] = done[u] /\ undone'[u] = undone[u]
      /\ u \in coroutines' <=> u \in coroutines
      /\ u \in trans_map' <=> u \in trans_map
      /\ cpu' = u <=> cpu = u
      /\ u \in toResume' <=> u \in toResume
      /\ crashes' = crashes
  BY DEF OnlyTouches, OnlyChanges
<1>2. Stands(u)' /\ (pc'[u] \in Interrupted => crashes' > 0)
  BY <1>1 DEF Each, Stands
<1>3. Recorded(u)'
  BY <1>1 DEF Each, Recorded, CmdsOf
<1>4. Waits(u)'
  BY <1>1 DEF Each, Waits, Resumes, CmdsOf
<1>5. Proceeds(u)'
  BY <1>1 DEF Each, Proceeds, Resumes
<1>6. Honest(u)'
  BY <1>1 DEF Each, Honest, Whole, CmdsOf
<1> QED BY <1>2, <1>3, <1>4, <1>5, <1>6

LEMMA OthersStay ==
  ASSUME NEW t \in TranId, NEW u \in TranId \ {t}, OnlyTouches(t), Each(u), upd' = upd
  PROVE  Each(u)'
<1>1. Reported(u)'
  BY DEF Each, Reported, OnlyTouches, OnlyChanges
<1> QED BY <1>1, OthersKeepTheRest DEF Each

\* A step that neither ends t nor is one of Update keeps the invariant if it
\* does so for t and for what all share.
LEMMA OneStep ==
  ASSUME CrashInv, NEW t \in TranId, OnlyTouches(t),
         UNCHANGED <<destroy_list, upd, alive>>, toResume' \subseteq toResume,
         TypeOK', SoundBooks', Each(t)', TimersHeld',
         pc[t] # "exited", pc'[t] # "exited",
         pc'[t] \in Allocated =>
           \A u \in TranId \ {t} : pc[u] \in Allocated => inst[u].addr # inst'[t].addr
  PROVE  CrashInv'
<1>1. \A u \in TranId : Each(u)'
  BY OthersStay DEF CrashInv
<1>2. Addresses'
  BY DEF CrashInv, Addresses, OnlyTouches, OnlyChanges
<1>3. UpdateMeetsLiveInstances'
  BY DEF CrashInv, UpdateMeetsLiveInstances, Ahead, OnlyTouches, OnlyChanges
<1>4. HandlesOne'
  BY DEF CrashInv, HandlesOne, OnlyTouches, OnlyChanges
<1>5. Process'
  BY DEF CrashInv, Process, OnlyTouches
<1> QED BY <1>1, <1>2, <1>3, <1>4, <1>5 DEF CrashInv

\* A step that ends t hands its instance to Update.
LEMMA EndStep ==
  ASSUME CrashInv, NEW t \in TranId, OnlyTouches(t),
         UNCHANGED <<upd, alive>>, toResume' \subseteq toResume,
         destroy_list' = destroy_list \cup {inst[t].addr},
         TypeOK', SoundBooks', Each(t)', TimersHeld',
         pc[t] \in Allocated \ {"exited"}, pc'[t] = "exited", inst'[t].addr = inst[t].addr
  PROVE  CrashInv'
<1>1. \A u \in TranId : Each(u)'
  BY OthersStay DEF CrashInv
<1>2. Addresses'
  BY DEF CrashInv, Addresses, OnlyTouches, OnlyChanges
<1>3. UpdateMeetsLiveInstances'
  BY DEF CrashInv, UpdateMeetsLiveInstances, Ahead, OnlyTouches, OnlyChanges
<1>4. HandlesOne'
  BY DEF CrashInv, HandlesOne, OnlyTouches, OnlyChanges
<1>5. Process'
  BY DEF CrashInv, Process, OnlyTouches
<1> QED BY <1>1, <1>2, <1>3, <1>4, <1>5 DEF CrashInv

\* The address of an instance that stays where it is is nobody else's.
LEMMA KeepsAddress ==
  ASSUME CrashInv, NEW t \in TranId, pc[t] \in Allocated, inst'[t].addr = inst[t].addr
  PROVE  \A u \in TranId \ {t} : pc[u] \in Allocated => inst[u].addr # inst'[t].addr
BY DEF CrashInv, Addresses

\* Timers that are not touched are held as before.
LEMMA TimersStay ==
  ASSUME CrashInv, NEW t \in TranId, OnlyTouches(t), timers' = timers,
         \A i \in TimerId : timers[i] = t =>
           /\ pc'[t] \in Interrupted \cup {"suspended", "exited", "released"}
           /\ pc'[t] \in Interrupted \cup {"suspended"} => inst'[t].timer_id = i,
         inst'[t].timer_id # NoTimer /\ pc'[t] # "exited" =>
           pc'[t] \in Interrupted \cup {"suspended"} /\ timers[inst'[t].timer_id] = t
  PROVE  TimersHeld'
<1>1. ASSUME NEW i \in TimerId, timers[i] # Null
      PROVE  /\ pc'[timers[i]] \in Interrupted \cup {"suspended", "exited", "released"}
             /\ pc'[timers[i]] \in Interrupted \cup {"suspended"} => inst'[timers[i]].timer_id = i
  <2>1. timers[i] \in TranId
    BY <1>1 DEF CrashInv, TypeOK
  <2>2. CASE timers[i] = t
    BY <2>2
  <2>3. CASE timers[i] # t
    BY <1>1, <2>1, <2>3 DEF CrashInv, TimersHeld, OnlyTouches, OnlyChanges
  <2> QED BY <2>2, <2>3
<1>2. ASSUME NEW u \in TranId, inst'[u].timer_id # NoTimer, pc'[u] # "exited"
      PROVE  pc'[u] \in Interrupted \cup {"suspended"} /\ timers[inst'[u].timer_id] = u
  <2>1. CASE u = t
    BY <1>2, <2>1
  <2>2. CASE u # t
    BY <1>2, <2>2 DEF CrashInv, TimersHeld, OnlyTouches, OnlyChanges
  <2> QED BY <2>1, <2>2
<1> QED BY <1>1, <1>2 DEF CrashInv, TimersHeld

\* One that executes in its coroutine has no timer but on entry after a crash.
LEMMA HoldsNoTimer ==
  ASSUME CrashInv, NEW t \in TranId, pc[t] \notin {"exited", "released", "suspended"},
         pc[t] \notin Interrupted
  PROVE  inst[t].timer_id = NoTimer /\ \A i \in TimerId : timers[i] # t
BY EngineAssumption DEF CrashInv, TimersHeld

-----------------------------------------------------------------------------
(* The first state, and steps that concern no transaction.                 *)

LEMMA ResumeInitEstablishes == ResumeInit => CrashInv
<1> SUFFICES ASSUME ResumeInit PROVE CrashInv
  OBVIOUS
<1>1. Init /\ alive = TRUE /\ toResume = {} /\ crashes = 0
  BY DEF ResumeInit
<1>2. EInv
  BY <1>1, InitEstablishes
<1>3. TypeOK /\ Addresses /\ UpdateMeetsLiveInstances /\ HandlesOne /\ Process
  BY <1>1, <1>2 DEF EInv, Process
<1>4. SoundBooks
  BY <1>1 DEF Init, Sched!Init, Sched!CreateMainRountine, Sched!Routine, SoundBooks
<1>5. TimersHeld
  BY <1>1 DEF Init, TimersHeld, NoInstance
<1>6. ASSUME NEW t \in TranId PROVE Each(t)
  <2>1. /\ pc[t] = "none" /\ inst[t] = NoInstance /\ done[t] = <<>> /\ undone[t] = <<>>
        /\ t # cpu /\ t \notin trans_map /\ t \notin coroutines /\ state[t] = "UNINIT"
        /\ Local(t)
    BY <1>1, <1>2, EngineAssumption
       DEF EInv, Init, Sched!Init, Sched!CreateMainRountine, Sched!Routine
  <2>2. Stands(t) /\ pc[t] \notin Interrupted
    BY <1>1, <2>1 DEF Stands, Interrupted, Executing, Running, Mapped, Begun
  <2>3. Waits(t) /\ Proceeds(t) /\ Honest(t)
    BY <2>1 DEF Waits, Proceeds, Honest, Allocated, NoInstance, Resumes
  <2> QED BY <2>1, <2>2, <2>3 DEF Each, Local
<1> QED BY <1>3, <1>4, <1>5, <1>6 DEF CrashInv

\* A step that changes no more than the timers, and may crash.
LEMMA QuietStep ==
  ASSUME CrashInv,
         UNCHANGED <<curr, coroutines, state, context, cpu, trans_map, destroy_list, upd, inst, pc,
                     pending, result, done, undone, toResume>>,
         timers' \in [TimerId -> TranId \cup {Null}], TimersHeld', Process', crashes' >= crashes
  PROVE  CrashInv'
<1>1. SoundBooks' /\ TypeOK'
  BY BooksUntouched DEF CrashInv, TypeOK
<1>2. ASSUME NEW t \in TranId PROVE Each(t)'
  <2>1. Each(t) /\ crashes \in Nat /\ crashes' \in Nat
    BY DEF CrashInv, Process
  <2>2. Stands(t)' /\ Recorded(t)' /\ Reported(t)'
    BY <2>1 DEF Each, Stands, Recorded, Reported, CmdsOf
  <2>3. Waits(t)' /\ Proceeds(t)'
    BY <2>1 DEF Each, Waits, Proceeds, Resumes, CmdsOf
  <2>4. Honest(t)' /\ (pc'[t] \in Interrupted => crashes' > 0)
    BY <2>1 DEF Each, Honest, Whole, CmdsOf
  <2> QED BY <2>2, <2>3, <2>4 DEF Each
<1>3. Addresses' /\ UpdateMeetsLiveInstances' /\ HandlesOne'
  BY DEF CrashInv, Addresses, UpdateMeetsLiveInstances, Ahead, HandlesOne
<1> QED BY <1>1, <1>2, <1>3 DEF CrashInv

LEMMA CrashIsQuiet ==
  ASSUME CrashInv, Crash \/ UNCHANGED resumeVars
  PROVE  CrashInv'
<1>1. UNCHANGED <<curr, coroutines, state, context, cpu, trans_map, destroy_list, upd, inst, pc,
                  pending, timers, result, done, undone, toResume>>
  BY DEF Crash, resumeVars, crashVars, vars, schedVars, mgrVars, history
<1>2. (alive' = FALSE /\ crashes' = crashes + 1) \/ UNCHANGED <<alive, crashes>>
  BY DEF Crash, resumeVars, crashVars
<1>3. Process' /\ crashes' >= crashes
  <2>1. Process /\ toResume' = toResume
    BY <1>1 DEF CrashInv
  <2>2. crashes' \in Nat /\ crashes' >= crashes
    BY <1>2, <2>1 DEF Process
  <2>3. CASE alive' = FALSE /\ crashes' = crashes + 1
    <3>1. alive' \in BOOLEAN
      BY <2>3, Zenon
    <3>2. crashes' > 0
      BY <2>1, <2>3 DEF Process
    <3> QED BY <2>1, <2>2, <3>1, <3>2 DEF Process
  <2>4. CASE UNCHANGED <<alive, crashes>>
    BY <2>1, <2>2, <2>4 DEF Process
  <2> QED BY <1>2, <2>2, <2>3, <2>4
<1>4. timers' \in [TimerId -> TranId \cup {Null}]
  BY <1>1 DEF CrashInv, TypeOK
<1>5. TimersHeld'
  BY <1>1 DEF CrashInv, TimersHeld
<1> QED BY <1>1, <1>3, <1>4, <1>5, QuietStep

-----------------------------------------------------------------------------
(* Starting, in a program that may crash.                                  *)

LEMMA StartStands ==
  ASSUME CrashInv, NEW t \in TranId, StartCommonTransaction(t), UNCHANGED crashVars
  PROVE  CrashInv'
<1>1. PICK a \in FreeAddr, ty \in TranType :
        inst' = [inst EXCEPT ![t] = [NoInstance EXCEPT !.type = ty, !.addr = a]]
  BY DEF StartCommonTransaction
<1>2. /\ pc[t] = "none" /\ pc' = [pc EXCEPT ![t] = "added"] /\ trans_map' = trans_map \cup {t}
      /\ UNCHANGED <<curr, coroutines, state, context, cpu, destroy_list, upd, pending, timers,
                     result, done, undone, alive, toResume, crashes>>
  BY DEF StartCommonTransaction, AddTranInst, schedVars, history, crashVars
<1>3. /\ inst \in [TranId -> Instance] /\ pc \in [TranId -> Pc] /\ a \in Addr
      /\ \A u \in TranId : a # inst[u].addr
  BY DEF CrashInv, TypeOK, FreeAddr
<1> DEFINE r == [NoInstance EXCEPT !.type = ty, !.addr = a]
<1>4. /\ r \in Instance
      /\ r.type = ty /\ r.addr = a /\ r.coroutine_id = NoCo /\ r.timer_id = NoTimer
      /\ ~r.is_delay_destroying
  BY <1>3, NewInstance
<1>5. r.curr_index = Null /\ r.waiting_index = Null /\ r.fail_index = Null /\ ~r.is_complete
  BY DEF NoInstance
<1> HIDE DEF r
<1>6. inst' = [inst EXCEPT ![t] = r] /\ inst'[t] = r /\ pc'[t] = "added" /\ OnlyTouches(t)
  BY <1>1, <1>2, <1>3 DEF r, OnlyTouches, OnlyChanges
<1>7. TypeOK' /\ SoundBooks'
  BY <1>2, <1>3, <1>4, <1>6, BooksUntouched DEF CrashInv, TypeOK, Pc
<1>8. Each(t)
  BY DEF CrashInv
<1>9. Stands(t)' /\ Reported(t)'
  BY <1>2, <1>6, <1>8 DEF Each, Stands, Mapped, Begun, Executing, Running, Interrupted, Reported
<1>10. Recorded(t)'
  BY <1>2, <1>3, <1>4, <1>6, <1>8
     DEF Each, Stands, Recorded, Allocated, Begun, Mapped, Interrupted, Pc
<1>11. Waits(t)' /\ Honest(t)' /\ pc'[t] \notin Interrupted
  BY <1>4, <1>5, <1>6 DEF Waits, Resumes, Honest, Interrupted
<1>12. Proceeds(t)'
  BY <1>2, <1>5, <1>6, <1>8 DEF Each, Proceeds, Resumes, Allocated, Pc
<1>13. TimersHeld'
  <2>1. \A i \in TimerId : timers[i] # t
    BY <1>2, HoldsNoTimer DEF Interrupted
  <2> QED BY <1>2, <1>4, <1>6, <2>1, TimersStay
<1> QED
  BY <1>2, <1>3, <1>4, <1>6, <1>7, <1>9, <1>10, <1>11, <1>12, <1>13, OneStep DEF Each

LEMMA CreateStands ==
  ASSUME CrashInv, NEW t \in TranId, CreateCoroutine(t), UNCHANGED crashVars
  PROVE  CrashInv'
<1>1. /\ pc[t] = "added" /\ pc' = [pc EXCEPT ![t] = "created"]
      /\ inst' = [inst EXCEPT ![t] = [inst[t] EXCEPT !.coroutine_id = t]]
      /\ UNCHANGED <<trans_map, destroy_list, upd, pending, timers, result, done, undone,
                     alive, toResume, crashes>>
  BY DEF CreateCoroutine, mgrVars, history, crashVars
<1>2. /\ cpu' = cpu /\ coroutines' = coroutines \cup {t}
      /\ state'[t] = "READY" /\ context'[t] = t
      /\ \A u \in TranId : u # t => state'[u] = state[u] /\ context'[u] = context[u]
      /\ SoundBooks' /\ Sched!TypeOK'
  BY Spawns DEF CreateCoroutine, CrashInv, TypeOK
<1>3. inst \in [TranId -> Instance] /\ pc \in [TranId -> Pc]
  BY DEF CrashInv, TypeOK
<1> DEFINE r == [inst[t] EXCEPT !.coroutine_id = t]
<1>4. /\ r \in Instance /\ r.coroutine_id = t
      /\ r.type = inst[t].type /\ r.addr = inst[t].addr /\ r.timer_id = inst[t].timer_id
      /\ r.is_delay_destroying = inst[t].is_delay_destroying
  BY <1>3, CoroutineNamed
<1>5. /\ r.curr_index = inst[t].curr_index /\ r.waiting_index = inst[t].waiting_index
      /\ r.fail_index = inst[t].fail_index /\ r.is_complete = inst[t].is_complete
  BY <1>3 DEF Instance
<1> HIDE DEF r
<1>6. inst' = [inst EXCEPT ![t] = r] /\ inst'[t] = r /\ pc'[t] = "created" /\ OnlyTouches(t)
  BY <1>1, <1>2, <1>3 DEF r, OnlyTouches, OnlyChanges
<1>7. TypeOK'
  <2>1. inst' \in [TranId -> Instance]
    BY <1>3, <1>4, <1>6
  <2>2. pc' \in [TranId -> Pc]
    BY <1>1, <1>3 DEF Pc
  <2> QED BY <1>1, <1>2, <2>1, <2>2 DEF CrashInv, TypeOK
<1>8. Each(t) /\ pc[t] \in Allocated /\ inst[t].timer_id = NoTimer
      /\ \A i \in TimerId : timers[i] # t
  BY <1>1, HoldsNoTimer DEF CrashInv, Allocated, Pc, Interrupted
<1>9. Stands(t)' /\ Reported(t)'
  BY <1>1, <1>2, <1>6, <1>8
     DEF Each, Stands, Mapped, Begun, Executing, Running, Interrupted, Reported
<1>10. Recorded(t)'
  BY <1>1, <1>2, <1>4, <1>6, <1>8 DEF Each, Recorded, Allocated, Pc
<1>11. Waits(t)' /\ Honest(t)' /\ pc'[t] \notin Interrupted
  BY <1>1, <1>4, <1>5, <1>6, <1>8 DEF Each, Waits, Resumes, Honest, Interrupted, CmdsOf, Allocated
<1>12. Proceeds(t)'
  BY <1>1, <1>5, <1>6, <1>8 DEF Each, Waits, Proceeds, Resumes, Allocated, Pc
<1>13. TimersHeld'
  BY <1>1, <1>4, <1>6, <1>8, TimersStay
<1> QED
  BY <1>1, <1>2, <1>4, <1>6, <1>7, <1>8, <1>9, <1>10, <1>11, <1>12, <1>13, OneStep, KeepsAddress
     DEF Each

\* What GiveUpStart leaves of t, its coroutine being destroyed or never made.
LEMMA GiveUpStands ==
  ASSUME CrashInv, NEW t \in TranId, GiveUpStart(t), UNCHANGED crashVars,
         pc[t] \in {"added", "created"},
         cpu' = cpu, coroutines' = coroutines \ {t}, state'[t] = "UNINIT",
         \A u \in TranId : u # t => state'[u] = state[u] /\ context'[u] = context[u],
         SoundBooks', Sched!TypeOK'
  PROVE  CrashInv'
<1>1. /\ pc' = [pc EXCEPT ![t] = "failed"] /\ inst' = [inst EXCEPT ![t] = NoInstance]
      /\ trans_map' = trans_map \ {t}
      /\ UNCHANGED <<destroy_list, upd, pending, timers, result, done, undone,
                     alive, toResume, crashes>>
  BY DEF GiveUpStart, history, crashVars
<1>2. inst \in [TranId -> Instance] /\ pc \in [TranId -> Pc]
  BY DEF CrashInv, TypeOK
<1>3. NoInstance \in Instance /\ NoInstance.timer_id = NoTimer /\ NoInstance.coroutine_id = NoCo
      /\ ~NoInstance.is_delay_destroying /\ NoInstance.fail_index = Null
      /\ ~NoInstance.is_complete
  BY DEF NoInstance, Instance, NoEvents, NoCo, NoTimer, DefaultEvent
<1>4. inst'[t] = NoInstance /\ pc'[t] = "failed" /\ OnlyTouches(t)
  BY <1>1, <1>2 DEF OnlyTouches, OnlyChanges
<1>5. TypeOK'
  BY <1>1, <1>2, <1>3 DEF CrashInv, TypeOK, Pc
<1>6. Each(t) /\ inst[t].timer_id = NoTimer /\ \A i \in TimerId : timers[i] # t
  BY HoldsNoTimer DEF CrashInv, Interrupted
<1>7. Stands(t)' /\ Reported(t)'
  BY <1>1, <1>4, <1>6 DEF Each, Stands, Mapped, Begun, Executing, Running, Interrupted, Reported
<1>8. Recorded(t)'
  BY <1>3, <1>4 DEF Recorded, Allocated
<1>9. Waits(t)' /\ Honest(t)' /\ pc'[t] \notin Interrupted
  BY <1>3, <1>4 DEF Waits, Honest, Interrupted, Allocated
<1>10. Proceeds(t)'
  <2>1. Len(done[t]) = 0 /\ done[t] \in Seq(Nat)
    BY <1>6 DEF Each, Waits, Proceeds, CrashInv, TypeOK, Allocated, Pc
  <2>2. done[t] = <<>>
    BY <2>1
  <2> QED BY <1>1, <1>3, <1>4, <1>6, <2>1, <2>2 DEF Each, Proceeds, Resumes, Allocated
<1>11. TimersHeld'
  BY <1>1, <1>3, <1>4, <1>6, TimersStay
<1> QED
  BY <1>1, <1>4, <1>5, <1>7, <1>8, <1>9, <1>10, <1>11, OneStep DEF Each, Allocated

LEMMA EnterStands ==
  ASSUME CrashInv, NEW t \in TranId, EnterCoroutine(t), UNCHANGED crashVars
  PROVE  CrashInv'
<1>1. /\ Each(t) /\ pc[t] = "created" /\ inst[t].coroutine_id = t /\ context[t] = t
  BY DEF CrashInv, EnterCoroutine, Each, Stands, Recorded, Begun, Mapped
<1>2. /\ Sched!SwapToWorkRoutine(t) /\ pc' = [pc EXCEPT ![t] = "boot"]
      /\ UNCHANGED <<trans_map, destroy_list, upd, inst, pending, timers, result, done, undone,
                     alive, toResume, crashes>>
  BY <1>1 DEF EnterCoroutine, mgrVars, history, crashVars
<1>3. /\ cpu = Main /\ cpu' = t /\ coroutines' = coroutines /\ state'[t] = "RUN"
      /\ \A u \in TranId : u # t => state'[u] = state[u] /\ context'[u] = context[u]
      /\ SoundBooks' /\ Sched!TypeOK'
  BY <1>1, <1>2, MainEnters DEF CrashInv, TypeOK
<1>4. pc \in [TranId -> Pc] /\ pc'[t] = "boot" /\ OnlyTouches(t)
  BY <1>2, <1>3, EngineAssumption DEF CrashInv, TypeOK, OnlyTouches, OnlyChanges
<1>5. TypeOK'
  BY <1>2, <1>3, <1>4 DEF CrashInv, TypeOK, Pc
<1>6. pc[t] \in Allocated /\ inst[t].timer_id = NoTimer /\ \A i \in TimerId : timers[i] # t
  BY <1>1, HoldsNoTimer DEF Allocated, Pc, Interrupted
<1>7. Stands(t)' /\ Reported(t)'
  BY <1>1, <1>2, <1>3, <1>4
     DEF Each, Stands, Mapped, Begun, Executing, Running, Interrupted, Reported
<1>8. Recorded(t)'
  BY <1>1, <1>2, <1>3, <1>4 DEF Each, Recorded, Allocated, Pc
<1>9. Waits(t)' /\ Honest(t)' /\ pc'[t] \notin Interrupted
  BY <1>1, <1>2, <1>4, <1>6 DEF Each, Waits, Resumes, Honest, Interrupted, CmdsOf
<1>10. Proceeds(t)'
  BY <1>1, <1>2, <1>4, <1>6 DEF Each, Proceeds, Resumes
<1>11. TimersHeld'
  BY <1>2, <1>4, <1>6, TimersStay
<1> QED
  BY <1>1, <1>2, <1>3, <1>4, <1>5, <1>6, <1>7, <1>8, <1>9, <1>10, <1>11, OneStep, KeepsAddress
     DEF Each

LEMMA StartStepStands ==
  ASSUME CrashInv, NEW t \in TranId, StartStep(t), UNCHANGED crashVars
  PROVE  CrashInv'
<1>1. SoundBooks /\ Sched!TypeOK /\ Each(t)
  BY DEF CrashInv, TypeOK
<1>2. CASE CreateCoroutineFails(t)
  <2>1. /\ pc[t] = "added" /\ GiveUpStart(t)
        /\ UNCHANGED <<curr, coroutines, state, context, cpu>>
    BY <1>2 DEF CreateCoroutineFails, schedVars
  <2>2. t \notin coroutines /\ state[t] = "UNINIT"
    BY <1>1, <2>1 DEF Each, Stands, Begun, Mapped, Interrupted
  <2> QED BY <1>1, <2>1, <2>2, BooksUntouched, GiveUpStands
<1>3. CASE EnterCoroutineFails(t)
  <2>1. pc[t] = "created" /\ inst[t].coroutine_id = t /\ t # cpu
    BY <1>1, <1>3 DEF EnterCoroutineFails, Each, Stands, Recorded, Begun, Mapped, Executing, Running
  <2>2. GiveUpStart(t) /\ Sched!DestroyWorkRoutine(t)
    BY <1>3, <2>1 DEF EnterCoroutineFails
  <2> QED BY <1>1, <2>1, <2>2, Removes, GiveUpStands
<1> QED BY <1>2, <1>3, CreateStands, EnterStands DEF StartStep

-----------------------------------------------------------------------------
(* In the coroutine, in a program that may crash.                          *)

\* Of an instance the engine passes to a callback, r may come back: at most it
\* is complete, where callbacks complete transactions, or aborted.
Called(r, s) ==
  /\ Like(r, s)
  /\ r.curr_index = s.curr_index /\ r.waiting_index = s.waiting_index
  /\ r.fail_index = s.fail_index /\ r.events = s.events
  /\ "complete" \notin AppDoes => (r.is_complete <=> s.is_complete)

LEMMA CallbackCalls ==
  ASSUME NEW t \in TranId, inst[t] \in Instance, NEW r \in AfterCallback(t)
  PROVE  Called(r, inst[t])
<1>1. PICK b \in IF "complete" \in AppDoes THEN BOOLEAN ELSE {FALSE} :
        r = [inst[t] EXCEPT !.is_complete = inst[t].is_complete \/ b]
  BY DEF AfterCallback
<1>2. /\ r.curr_index = inst[t].curr_index /\ r.waiting_index = inst[t].waiting_index
      /\ r.fail_index = inst[t].fail_index /\ r.events = inst[t].events
  BY <1>1 DEF Instance
<1>3. r.is_complete = (inst[t].is_complete \/ b)
  BY <1>1 DEF Instance
<1>4. "complete" \notin AppDoes => (r.is_complete <=> inst[t].is_complete)
  <2>1. SUFFICES ASSUME "complete" \notin AppDoes PROVE r.is_complete <=> inst[t].is_complete
    OBVIOUS
  <2>2. b = FALSE
    BY <2>1
  <2> QED BY <1>3, <2>2, Zenon
<1> QED BY <1>2, <1>4, CallbackLike DEF Called

\* A step of the coroutine of t that does not swap, and leaves it at p.
LEMMA RunStands ==
  ASSUME CrashInv, NEW t \in TranId, NEW q, NEW p \in {"do", "tail"},
         pc[t] \in Executing, Like(q, inst[t]), q.timer_id = NoTimer,
         inst' = [inst EXCEPT ![t] = q], pc' = [pc EXCEPT ![t] = p],
         p = "do" => q.curr_index \in Nat /\ q.curr_index < Len(CmdsOf(t)),
         UNCHANGED <<curr, coroutines, state, context, cpu, trans_map, destroy_list, upd, pending,
                     timers, result, undone, alive, toResume, crashes>>,
         done' \in [TranId -> Seq(Nat)],
         \A u \in TranId \ {t} : done'[u] = done[u],
         Waits(t)', Proceeds(t)', Honest(t)'
  PROVE  CrashInv'
<1>1. inst \in [TranId -> Instance] /\ pc \in [TranId -> Pc]
  BY DEF CrashInv, TypeOK
<1>2. inst'[t] = q /\ pc'[t] = p /\ OnlyTouches(t)
  BY <1>1 DEF OnlyTouches, OnlyChanges
<1>3. TypeOK' /\ SoundBooks'
  <2>1. inst' \in [TranId -> Instance]
    BY <1>1 DEF Like
  <2>2. pc' \in [TranId -> Pc]
    BY <1>1 DEF Pc
  <2>3. SoundBooks' /\ Sched!TypeOK'
    BY BooksUntouched DEF CrashInv, TypeOK
  <2> QED BY <2>1, <2>2, <2>3 DEF CrashInv, TypeOK
<1>4. Each(t) /\ pc[t] \in Allocated /\ pc[t] # "exited"
  BY DEF CrashInv, Executing, Running, Allocated, Pc
<1>5. Stands(t)' /\ Reported(t)'
  BY <1>2, <1>4 DEF Each, Stands, Mapped, Begun, Executing, Running, Interrupted, Reported
<1>6. Recorded(t)'
  BY <1>2, <1>4 DEF Each, Recorded, Allocated, Pc, Like, CmdsOf
<1>7. TimersHeld'
  <2>1. inst[t].timer_id = NoTimer /\ pc[t] \in Executing
    BY DEF Like
  <2>2. ASSUME NEW i \in TimerId, timers[i] = t PROVE FALSE
    <3>1. timers[i] # Null /\ i # NoTimer
      BY <2>2, EngineAssumption DEF NoTimer
    <3>2. /\ pc[t] \in Interrupted \cup {"suspended", "exited", "released"}
          /\ pc[t] \in Interrupted \cup {"suspended"} => inst[t].timer_id = i
      BY <2>2, <3>1 DEF CrashInv, TimersHeld
    <3> QED BY <2>1, <3>1, <3>2 DEF Executing, Running, Interrupted
  <2> QED BY <1>2, <2>2, TimersStay
<1>8. pc'[t] \notin Interrupted /\ pc'[t] # "exited"
  BY <1>2 DEF Interrupted
<1> QED
  BY <1>2, <1>3, <1>4, <1>5, <1>6, <1>7, <1>8, OneStep, KeepsAddress DEF Each, Like

LEMMA OnStartStands ==
  ASSUME CrashInv, NEW t \in TranId, OnStart(t), UNCHANGED <<alive, toResume, crashes>>
  PROVE  CrashInv'
<1>1. /\ Each(t) /\ pc[t] = "boot" /\ inst[t] \in Instance /\ inst[t].timer_id = NoTimer
      /\ UNCHANGED <<curr, coroutines, state, context, cpu, trans_map, destroy_list, upd, pending,
                     timers, result, done, undone>>
      /\ done' \in [TranId -> Seq(Nat)] /\ pc[t] \in Executing /\ pc \in [TranId -> Pc]
      /\ inst \in [TranId -> Instance]
  BY HoldsNoTimer
     DEF CrashInv, OnStart, RunsAt, TypeOK, schedVars, mgrVars, history, Executing, Running,
         Interrupted
<1>2. PICK r \in AfterCallback(t) :
        \/ /\ inst' = [inst EXCEPT ![t] = [r EXCEPT !.fail_reason = "ERROR"]]
           /\ pc' = [pc EXCEPT ![t] = "tail"]
        \/ LET none == CmdsOf(t) = <<>>
           IN /\ inst' = [inst EXCEPT ![t] = IF none THEN r ELSE [r EXCEPT !.curr_index = 0]]
              /\ pc' = [pc EXCEPT ![t] = IF none THEN "tail" ELSE "do"]
  BY DEF OnStart
<1>3. Called(r, inst[t]) /\ r \in Instance
  BY <1>1, CallbackCalls DEF Called, Like
<1> DEFINE failed == [r EXCEPT !.fail_reason = "ERROR"]
           first  == [r EXCEPT !.curr_index = 0]
<1>4. /\ Like(failed, inst[t]) /\ Like(first, inst[t]) /\ Like(r, inst[t])
      /\ failed.curr_index = r.curr_index /\ first.curr_index = 0
      /\ failed.waiting_index = r.waiting_index /\ first.waiting_index = r.waiting_index
      /\ failed.fail_index = r.fail_index /\ first.fail_index = r.fail_index
      /\ failed.is_complete = r.is_complete /\ first.is_complete = r.is_complete
      /\ IsFailed(failed)
  BY <1>3 DEF Called, Like, Instance, IsFailed
<1> HIDE DEF failed, first
<1>5. /\ r.curr_index = Null /\ r.waiting_index = Null /\ r.fail_index = inst[t].fail_index
      /\ Len(done[t]) = 0 /\ pc[t] \in Allocated
      /\ inst[t].fail_index # Null => inst[t].fail_index <= 0
      /\ \A k \in 1..Len(done[t]) : done[t][k] = k - 1
      /\ undone[t] = <<>>
      /\ "complete" \notin AppDoes => ~r.is_complete
  BY <1>1, <1>3 DEF Each, Waits, Proceeds, Honest, Called, Allocated, Pc
<1>6. Cmds[inst[t].type] \in Seq([Event -> Nat])
  BY <1>1, <1>5, EngineAssumption DEF Each, Recorded
<1>7. CASE inst' = [inst EXCEPT ![t] = failed] /\ pc' = [pc EXCEPT ![t] = "tail"]
  <2>1. inst'[t] = failed /\ pc'[t] = "tail" /\ failed.timer_id = NoTimer
        /\ failed.type = inst[t].type
    BY <1>1, <1>4, <1>7 DEF Like
  <2>2. Waits(t)' /\ Proceeds(t)' /\ Honest(t)'
    BY <1>1, <1>4, <1>5, <2>1 DEF Waits, Proceeds, Honest, Resumes
  <2> QED BY <1>1, <1>4, <1>7, <2>1, <2>2, RunStands
<1>8. CASE /\ CmdsOf(t) = <<>>
           /\ inst' = [inst EXCEPT ![t] = r] /\ pc' = [pc EXCEPT ![t] = "tail"]
  <2>1. inst'[t] = r /\ pc'[t] = "tail" /\ r.timer_id = NoTimer /\ r.type = inst[t].type
    BY <1>1, <1>4, <1>8 DEF Like
  <2>2. Waits(t)' /\ Proceeds(t)'
    BY <1>1, <1>4, <1>5, <2>1 DEF Waits, Proceeds, Resumes
  <2>3. Honest(t)'
    BY <1>1, <1>5, <1>8, <2>1 DEF Honest, Whole, CmdsOf
  <2> QED BY <1>1, <1>4, <1>8, <2>1, <2>2, <2>3, RunStands
<1>9. CASE /\ CmdsOf(t) # <<>>
           /\ inst' = [inst EXCEPT ![t] = first] /\ pc' = [pc EXCEPT ![t] = "do"]
  <2>1. /\ inst'[t] = first /\ pc'[t] = "do" /\ first.timer_id = NoTimer
        /\ first.type = inst[t].type
    BY <1>1, <1>4, <1>9 DEF Like
  <2>2. 0 < Len(CmdsOf(t))
    BY <1>6, <1>9 DEF CmdsOf
  <2>3. Waits(t)' /\ Proceeds(t)' /\ Honest(t)'
    BY <1>1, <1>4, <1>5, <2>1, <2>2, NullIsNoIndex DEF Waits, Proceeds, Honest, Resumes, CmdsOf
  <2>4. first.curr_index \in Nat /\ first.curr_index < Len(CmdsOf(t))
    BY <1>4, <2>2
  <2> QED BY <1>1, <1>4, <1>9, <2>1, <2>3, <2>4, RunStands
<1> QED BY <1>2, <1>7, <1>8, <1>9 DEF failed, first

\* A command of r returned err, and left q to continue at p: it failed, or it
\* was the last or to be the last, or the next one's turn has come.
ReturnsTo(t, r, q, p, err) ==
  /\ Like(q, r) /\ q.waiting_index = r.waiting_index /\ q.is_complete = r.is_complete
  /\ \/ /\ p = "tail" /\ IsFailed(q)
        /\ q.curr_index = r.curr_index /\ q.fail_index = r.curr_index
     \/ /\ p = "tail" /\ err = "OK" /\ q = r
        /\ r.is_complete \/ r.curr_index + 1 = Len(CmdsOf(t))
     \/ /\ p = "do" /\ err = "OK" /\ q.fail_index = r.fail_index
        /\ q.curr_index = r.curr_index + 1 /\ q.curr_index < Len(CmdsOf(t))

LEMMA ReturnStands ==
  ASSUME CrashInv, NEW t \in TranId, NEW r, NEW q, NEW p, NEW err \in {"OK", "ERROR"},
         pc[t] \in {"do", "resumed", "reentered"}, Called(r, inst[t]), r.timer_id = NoTimer,
         r.curr_index # Null, ReturnsTo(t, r, q, p, err),
         inst' = [inst EXCEPT ![t] = q], pc' = [pc EXCEPT ![t] = p],
         done' = IF err = "OK" THEN [done EXCEPT ![t] = Append(@, r.curr_index)] ELSE done,
         UNCHANGED <<curr, coroutines, state, context, cpu, trans_map, destroy_list, upd, pending,
                     timers, result, undone, alive, toResume, crashes>>
  PROVE  CrashInv'
<1>1. /\ inst \in [TranId -> Instance] /\ pc \in [TranId -> Pc] /\ done \in [TranId -> Seq(Nat)]
      /\ Each(t) /\ pc[t] \in Executing /\ pc[t] \in Allocated \ {"exited"}
  BY DEF CrashInv, TypeOK, Executing, Running, Allocated, Pc
<1>2. /\ Like(q, inst[t]) /\ q.timer_id = NoTimer /\ q.type = inst[t].type /\ p \in {"do", "tail"}
      /\ q \in Instance /\ r \in Instance
  BY DEF Called, Like, ReturnsTo
<1>3. /\ r.curr_index \in Nat /\ r.curr_index < Len(CmdsOf(t))
      /\ Len(done[t]) = r.curr_index /\ r.curr_index = inst[t].curr_index
  <2>1. r.curr_index = inst[t].curr_index
    BY DEF Called
  <2>2. inst[t].curr_index \in Nat
    BY <1>1, <2>1 DEF Instance
  <2> QED BY <1>1, <2>1, <2>2 DEF Each, Waits, Proceeds, Resumes
<1>4. inst'[t] = q /\ pc'[t] = p
  BY <1>1
<1> DEFINE now == IF err = "OK" THEN Append(done[t], Len(done[t])) ELSE done[t]
<1>5. /\ done'[t] = now /\ done' \in [TranId -> Seq(Nat)]
      /\ \A u \in TranId \ {t} : done'[u] = done[u]
  BY <1>1, <1>3
<1>6. /\ now \in Seq(Nat) /\ \A k \in 1..Len(now) : now[k] = k - 1
      /\ Len(now) = IF err = "OK" THEN r.curr_index + 1 ELSE r.curr_index
  <2>1. done[t] \in Seq(Nat) /\ \A k \in 1..Len(done[t]) : done[t][k] = k - 1
    BY <1>1 DEF Each, Proceeds
  <2> QED BY <1>3, <2>1, NextInOrder
<1> HIDE DEF now
<1>7. p = "do" => q.curr_index \in Nat /\ q.curr_index < Len(CmdsOf(t))
  BY <1>3 DEF ReturnsTo
<1>8. Waits(t)'
  BY <1>1, <1>2, <1>3, <1>4 DEF Waits, Each, Resumes, ReturnsTo, CmdsOf, Called
<1>9. Proceeds(t)'
  <2>1. /\ inst[t].fail_index # Null => inst[t].fail_index <= Len(done[t])
        /\ inst[t].fail_index \in Nat \cup {Null} /\ undone[t] = <<>>
        /\ r.fail_index = inst[t].fail_index
    BY <1>1 DEF Each, Proceeds, Called, Instance
  <2>2. q.fail_index # Null => q.fail_index <= Len(now)
    BY <1>3, <1>6, <2>1 DEF ReturnsTo
  <2>3. /\ q.curr_index \in Nat /\ Len(now) \in {q.curr_index, q.curr_index + 1}
        /\ p = "do" => Len(now) = q.curr_index
    BY <1>3, <1>6 DEF ReturnsTo
  <2> QED
    BY <1>2, <1>4, <1>5, <1>6, <2>1, <2>2, <2>3, NullIsNoIndex
       DEF Proceeds, Allocated, Resumes
<1>10. Honest(t)'
  <2>1. "complete" \notin AppDoes => ~q.is_complete /\ ~r.is_complete
    BY <1>1 DEF Each, Honest, Called, ReturnsTo
  <2>2. "complete" \notin AppDoes /\ p = "tail" => IsFailed(q) \/ Len(now) = Len(CmdsOf(t))
    BY <1>3, <1>6, <2>1 DEF ReturnsTo
  <2>3. CmdsOf(t)' = CmdsOf(t)
    BY <1>2, <1>4 DEF CmdsOf
  <2> QED BY <1>2, <1>4, <1>5, <2>1, <2>2, <2>3 DEF Honest, Whole
<1> QED
  BY <1>1, <1>2, <1>4, <1>5, <1>7, <1>8, <1>9, <1>10, RunStands

LEMMA CommandReturnedStands ==
  ASSUME CrashInv, NEW t \in TranId, NEW r, NEW err \in {"OK", "ERROR"},
         pc[t] \in {"do", "resumed"}, Called(r, inst[t]), CommandReturned(t, r, err),
         UNCHANGED <<alive, toResume, crashes>>
  PROVE  CrashInv'
<1> DEFINE failed == err # "OK" \/ IsFailed(r)
           over   == r.is_complete \/ r.curr_index + 1 = Len(CmdsOf(t))
           q      == IF failed THEN FailedAt(r, err) ELSE IF over THEN r
                     ELSE [r EXCEPT !.curr_index = r.curr_index + 1]
           p      == IF failed \/ over THEN "tail" ELSE "do"
<1>1. /\ inst' = [inst EXCEPT ![t] = q] /\ pc' = [pc EXCEPT ![t] = p]
      /\ UNCHANGED <<curr, coroutines, state, context, cpu, trans_map, destroy_list, upd, pending,
                     timers, result, undone>>
      /\ done' = IF err = "OK" THEN [done EXCEPT ![t] = Append(@, r.curr_index)] ELSE done
  BY DEF CommandReturned, schedVars, mgrVars
<1>2. r \in Instance /\ r.curr_index = inst[t].curr_index /\ r.timer_id = inst[t].timer_id
      /\ r.type = inst[t].type
  BY DEF Called, Like
<1>3. /\ r.timer_id = NoTimer /\ r.curr_index \in Nat /\ r.curr_index < Len(CmdsOf(t))
      /\ Len(CmdsOf(t)) \in Nat
  <2>1. Each(t) /\ pc[t] \in Allocated
    BY DEF CrashInv, Allocated, Pc
  <2>2. Cmds[inst[t].type] \in Seq([Event -> Nat])
    BY <2>1, EngineAssumption DEF Each, Recorded
  <2>3. inst[t].timer_id = NoTimer
    BY HoldsNoTimer DEF Interrupted
  <2> QED BY <1>2, <2>1, <2>2, <2>3 DEF Each, Recorded, CmdsOf
<1>4. ReturnsTo(t, r, q, p, err)
  <2>1. CASE failed
    <3> DEFINE reason == IF r.fail_reason = "OK" THEN err ELSE r.fail_reason
    <3>1. FailedAt(r, err) = [r EXCEPT !.fail_index = r.curr_index, !.fail_reason = reason]
      BY DEF FailedAt
    <3>2. reason # "OK"
      BY <2>1 DEF IsFailed
    <3> HIDE DEF reason
    <3>3. /\ FailedAt(r, err).fail_index = r.curr_index
          /\ FailedAt(r, err).curr_index = r.curr_index
          /\ FailedAt(r, err).waiting_index = r.waiting_index
          /\ FailedAt(r, err).is_complete = r.is_complete
          /\ IsFailed(FailedAt(r, err))
      BY <1>2, <3>1, <3>2 DEF Instance, IsFailed
    <3> QED BY <1>2, <2>1, <3>3, FailedLike DEF ReturnsTo
  <2>2. CASE ~failed /\ over
    BY <1>2, <2>2 DEF ReturnsTo, Like
  <2>3. CASE ~failed /\ ~over
    <3>1. /\ Like(q, r) /\ q.curr_index = r.curr_index + 1 /\ q.fail_index = r.fail_index
          /\ q.waiting_index = r.waiting_index /\ q.is_complete = r.is_complete
      BY <1>2, <1>3, <2>3, StepIndexLike DEF Instance
    <3>2. q.curr_index < Len(CmdsOf(t)) /\ p = "do" /\ err = "OK"
      BY <1>3, <2>3, <3>1
    <3> QED BY <3>1, <3>2 DEF ReturnsTo
  <2> QED BY <2>1, <2>2, <2>3
<1> HIDE DEF q, p
<1> QED BY <1>1, <1>3, <1>4, ReturnStands, NullIsNoIndex

\* The same of RealResume, which keeps the index of the command that waited.
LEMMA WaitedForStands ==
  ASSUME CrashInv, NEW t \in TranId, NEW r, NEW err \in {"OK", "ERROR"},
         pc[t] \in {"resumed", "reentered"}, Called(r, inst[t]), r.timer_id = NoTimer,
         r.curr_index # Null, WaitedFor(t, r, err),
         UNCHANGED <<alive, toResume, crashes>>
  PROVE  CrashInv'
<1> DEFINE over == err # "OK" \/ r.curr_index + 1 = Len(CmdsOf(t))
           q    == IF err # "OK"
                   THEN [r EXCEPT !.fail_index = r.waiting_index, !.fail_reason = err]
                   ELSE IF over THEN r ELSE [r EXCEPT !.curr_index = r.curr_index + 1]
           p    == IF over THEN "tail" ELSE "do"
<1>1. /\ inst' = [inst EXCEPT ![t] = q] /\ pc' = [pc EXCEPT ![t] = p]
      /\ UNCHANGED <<curr, coroutines, state, context, cpu, trans_map, destroy_list, upd, pending,
                     timers, result, undone>>
      /\ done' = IF err = "OK" THEN [done EXCEPT ![t] = Append(@, r.curr_index)] ELSE done
  BY DEF WaitedFor, schedVars, mgrVars
<1>2. /\ r \in Instance /\ r.curr_index = inst[t].curr_index
      /\ r.waiting_index = inst[t].waiting_index /\ r.type = inst[t].type
  BY DEF Called, Like
<1>3. /\ r.curr_index \in Nat /\ r.curr_index < Len(CmdsOf(t)) /\ r.waiting_index = r.curr_index
      /\ Len(CmdsOf(t)) \in Nat
  <2>1. Each(t) /\ pc[t] \in Allocated \ {"exited"}
    BY DEF CrashInv, Allocated, Pc
  <2>2. Cmds[inst[t].type] \in Seq([Event -> Nat])
    BY <2>1, EngineAssumption DEF Each, Recorded
  <2>3. r.curr_index \in Nat
    BY <1>2 DEF Instance
  <2> QED BY <1>2, <2>1, <2>2, <2>3 DEF Each, Waits, Resumes, CmdsOf
<1>4. ReturnsTo(t, r, q, p, err)
  <2>1. CASE err # "OK"
    <3>1. q = [r EXCEPT !.fail_index = r.curr_index, !.fail_reason = "ERROR"]
      BY <1>3, <2>1
    <3> HIDE DEF q
    <3>2. /\ Like(q, r) /\ q.fail_index = r.curr_index /\ q.curr_index = r.curr_index
          /\ q.waiting_index = r.waiting_index /\ q.is_complete = r.is_complete /\ IsFailed(q)
      BY <1>2, <3>1 DEF Instance, IsFailed, Like
    <3> QED BY <2>1, <3>2 DEF ReturnsTo
  <2>2. CASE err = "OK" /\ over
    BY <1>2, <2>2 DEF ReturnsTo, Like
  <2>3. CASE ~over
    <3>1. /\ Like(q, r) /\ q.curr_index = r.curr_index + 1 /\ q.fail_index = r.fail_index
          /\ q.waiting_index = r.waiting_index /\ q.is_complete = r.is_complete
      BY <1>2, <1>3, <2>3, StepIndexLike DEF Instance
    <3>2. q.curr_index < Len(CmdsOf(t)) /\ p = "do" /\ err = "OK"
      BY <1>3, <2>3, <3>1
    <3> QED BY <3>1, <3>2 DEF ReturnsTo
  <2> QED BY <2>1, <2>2, <2>3
<1> HIDE DEF q, p
<1> QED BY <1>1, <1>3, <1>4, ReturnStands

\* There are enough timers: those that are alive belong to others.
LEMMA TimerRemains ==
  ASSUME CrashInv, NEW t \in TranId, pc[t] \in {"do", "resumed", "reentered"},
         inst[t].timer_id = NoTimer
  PROVE  /\ FreeTimer \in TimerId /\ timers[FreeTimer] = Null /\ FreeTimer # NoTimer
         /\ \A i \in TimerId : timers[i] # t
<1>1. ASSUME NEW i \in TimerId, timers[i] = t PROVE FALSE
  <2>1. timers[i] # Null /\ i # NoTimer
    BY <1>1, EngineAssumption DEF NoTimer
  <2>2. /\ pc[t] \in Interrupted \cup {"suspended", "exited", "released"}
        /\ pc[t] \in Interrupted \cup {"suspended"} => inst[t].timer_id = i
    BY <1>1, <2>1 DEF CrashInv, TimersHeld
  <2> QED BY <2>1, <2>2 DEF Interrupted
<1> DEFINE S    == {u \in TranId : \E i \in TimerId : timers[i] = u}
           f    == [u \in S |-> CHOOSE i \in TimerId : timers[i] = u]
<1>2. S \in SUBSET TranId /\ S # TranId
  BY <1>1
<1>3. \A u \in S : f[u] \in TimerId /\ timers[f[u]] = u
  OBVIOUS
<1>4. f \in [S -> TimerId]
  BY <1>3
<1> HIDE DEF S, f
<1>5. PICK i \in TimerId : \A u \in S : f[u] # i
  BY <1>2, <1>4, TimersSuffice
<1>6. timers[i] = Null
  <2>1. ASSUME timers[i] # Null PROVE FALSE
    <3>1. timers[i] \in TranId
      BY <2>1 DEF CrashInv, TypeOK
    <3>2. timers[i] \in S
      BY <3>1 DEF S
    <3>3. f[timers[i]] \in TimerId /\ timers[f[timers[i]]] = timers[i] /\ f[timers[i]] # i
      BY <1>3, <1>5, <3>2
    <3> QED BY <2>1, <3>3 DEF CrashInv, TimersHeld
  <2> QED BY <2>1
<1>7. FreeTimer \in TimerId /\ timers[FreeTimer] = Null
  BY <1>6 DEF FreeTimer
<1> QED BY <1>1, <1>7, EngineAssumption DEF NoTimer

LEMMA WithinItself ==
  ASSUME NEW a \in [Event -> Nat]
  PROVE  Within(a, a)
<1>1. \A e \in Event : a[e] \in Nat
  OBVIOUS
<1> QED BY <1>1 DEF Within

LEMMA SuspendStands ==
  ASSUME CrashInv, NEW t \in TranId, NEW r, NEW events \in [Event -> Nat], cpu = t,
         pc[t] \in {"do", "resumed", "reentered"}, Called(r, inst[t]), r.curr_index # Null,
         events # NoEvents, Within(events, CmdsOf(t)[r.curr_index + 1]),
         CmdsOf(t)[r.curr_index + 1] # NoEvents,
         r.timer_id # NoTimer => Within(r.events, events),
         Suspend(t, r, events), UNCHANGED <<alive, toResume, crashes>>
  PROVE  CrashInv'
<1> DEFINE arm == r.timer_id = NoTimer
           q   == IF arm THEN Armed(r, events) ELSE r
<1>1. /\ inst' = [inst EXCEPT ![t] = q]
      /\ timers' = IF arm THEN [timers EXCEPT ![FreeTimer] = t] ELSE timers
      /\ pending' = [pending EXCEPT ![t] = events] /\ pc' = [pc EXCEPT ![t] = "suspended"]
      /\ Sched!SwapToMain
      /\ UNCHANGED <<trans_map, destroy_list, upd, result, done, undone>>
  BY DEF Suspend, mgrVars, history
<1>2. /\ inst \in [TranId -> Instance] /\ pc \in [TranId -> Pc] /\ Each(t)
      /\ pending \in [TranId -> [Event -> Nat]] /\ timers \in [TimerId -> TranId \cup {Null}]
      /\ pc[t] \in Allocated \ {"exited"}
  BY DEF CrashInv, TypeOK, Allocated, Pc
<1>3. /\ r \in Instance /\ r.type = inst[t].type /\ r.addr = inst[t].addr
      /\ r.coroutine_id = inst[t].coroutine_id /\ r.timer_id = inst[t].timer_id
      /\ r.is_delay_destroying = inst[t].is_delay_destroying
      /\ r.curr_index = inst[t].curr_index /\ r.waiting_index = inst[t].waiting_index
      /\ r.fail_index = inst[t].fail_index /\ r.events = inst[t].events
      /\ "complete" \notin AppDoes => (r.is_complete <=> inst[t].is_complete)
  BY DEF Called, Like
<1>4. /\ r.curr_index \in Nat /\ r.curr_index < Len(CmdsOf(t)) /\ Len(done[t]) = r.curr_index
      /\ r.timer_id # NoTimer => /\ r.waiting_index = r.curr_index /\ r.events # NoEvents
                                 /\ Within(r.events, CmdsOf(t)[r.curr_index + 1])
  <2>1. r.curr_index \in Nat
    BY <1>3 DEF Instance
  <2> QED BY <1>2, <1>3, <2>1 DEF Each, Waits, Proceeds, Resumes
<1>5. arm => /\ FreeTimer \in TimerId /\ timers[FreeTimer] = Null /\ FreeTimer # NoTimer
             /\ \A i \in TimerId : timers[i] # t
  BY <1>3, TimerRemains
<1>6. /\ q \in Instance /\ q.timer_id # NoTimer
      /\ q.timer_id = IF arm THEN FreeTimer ELSE inst[t].timer_id
      /\ q.waiting_index = r.curr_index /\ q.curr_index = r.curr_index
      /\ q.type = r.type /\ q.addr = r.addr /\ q.coroutine_id = r.coroutine_id
      /\ q.is_delay_destroying = r.is_delay_destroying
      /\ q.fail_index = r.fail_index /\ q.is_complete = r.is_complete
      /\ q.events = IF arm THEN events ELSE r.events
  <2>1. CASE arm
    <3>1. /\ q \in Instance /\ q.timer_id = FreeTimer /\ q.events = events
          /\ q.waiting_index = r.curr_index /\ q.curr_index = r.curr_index
          /\ q.type = r.type /\ q.addr = r.addr /\ q.coroutine_id = r.coroutine_id
          /\ q.is_delay_destroying = r.is_delay_destroying
      BY <1>3, <1>5, <2>1, ArmedLike
    <3>2. q.fail_index = r.fail_index /\ q.is_complete = r.is_complete
      BY <1>3, <2>1 DEF Armed, Instance
    <3> QED BY <1>5, <2>1, <3>1, <3>2
  <2>2. CASE ~arm
    BY <1>3, <1>4, <2>2
  <2> QED BY <2>1, <2>2
<1>7. q.events # NoEvents /\ Within(q.events, events)
      /\ Within(q.events, CmdsOf(t)[r.curr_index + 1])
  BY <1>4, <1>6, WithinItself
<1> HIDE DEF q
<1>8. /\ cpu' = Main /\ coroutines' = coroutines /\ state'[t] = "SUSPEND" /\ context'[t] = t
      /\ \A u \in TranId : u # t => state'[u] = state[u] /\ context'[u] = context[u]
      /\ SoundBooks' /\ Sched!TypeOK'
  BY <1>1, LeavesForMain DEF CrashInv, TypeOK
<1>9. /\ inst'[t] = q /\ pc'[t] = "suspended" /\ pending'[t] = events /\ OnlyTouches(t)
  BY <1>1, <1>2, <1>8, EngineAssumption DEF OnlyTouches, OnlyChanges
<1>10. TypeOK'
  <2>1. inst' \in [TranId -> Instance] /\ pending' \in [TranId -> [Event -> Nat]]
    BY <1>1, <1>2, <1>6
  <2>2. pc' \in [TranId -> Pc]
    BY <1>1, <1>2 DEF Pc
  <2>3. timers' \in [TimerId -> TranId \cup {Null}]
    BY <1>1, <1>2
  <2> QED BY <1>1, <1>8, <2>1, <2>2, <2>3 DEF CrashInv, TypeOK
<1>11. Stands(t)' /\ Reported(t)'
  BY <1>1, <1>2, <1>8, <1>9, EngineAssumption
     DEF Each, Stands, Mapped, Begun, Executing, Running, Interrupted, Reported
<1>12. Recorded(t)'
  BY <1>2, <1>3, <1>4, <1>6, <1>8, <1>9 DEF Each, Recorded, Allocated, Pc, CmdsOf
<1>13. Waits(t)' /\ pc'[t] \notin Interrupted
  <2>1. CmdsOf(t)' = CmdsOf(t)
    BY <1>3, <1>6, <1>9 DEF CmdsOf
  <2> QED BY <1>4, <1>6, <1>7, <1>9, <2>1, NullIsNoIndex DEF Waits, Interrupted
<1>14. Proceeds(t)' /\ Honest(t)'
  <2>1. "complete" \notin AppDoes => ~q.is_complete
    BY <1>2, <1>3, <1>6 DEF Each, Honest
  <2>2. Proceeds(t)'
    BY <1>1, <1>2, <1>3, <1>4, <1>6, <1>9 DEF Each, Proceeds, Resumes, Allocated
  <2> QED BY <1>9, <2>1, <2>2 DEF Honest
<1>15. TimersHeld'
  <2>1. CASE ~arm
    <3>1. \A i \in TimerId : timers[i] = t => inst'[t].timer_id = i
      <4>1. pc[t] \in Interrupted
        BY <1>2, <1>3, <2>1 DEF CrashInv, TimersHeld
      <4> QED BY <1>6, <1>9, <2>1, <4>1, EngineAssumption DEF CrashInv, TimersHeld
    <3>2. timers[inst'[t].timer_id] = t
      BY <1>2, <1>3, <1>6, <1>9, <2>1 DEF CrashInv, TimersHeld
    <3> QED BY <1>1, <1>9, <2>1, <3>1, <3>2, TimersStay
  <2>2. CASE arm
    <3>1. /\ timers' = [timers EXCEPT ![FreeTimer] = t] /\ timers'[FreeTimer] = t
          /\ \A i \in TimerId : i # FreeTimer => timers'[i] = timers[i]
          /\ inst'[t].timer_id = FreeTimer
      BY <1>1, <1>2, <1>5, <1>6, <1>9, <2>2
    <3>2. ASSUME NEW i \in TimerId, timers'[i] # Null
          PROVE  /\ pc'[timers'[i]] \in Interrupted \cup {"suspended", "exited", "released"}
                 /\ pc'[timers'[i]] \in Interrupted \cup {"suspended"} =>
                      inst'[timers'[i]].timer_id = i
      <4>1. CASE i = FreeTimer
        BY <1>9, <3>1, <4>1
      <4>2. CASE i # FreeTimer
        <5>1. timers'[i] = timers[i] /\ timers[i] \in TranId \ {t}
          BY <1>2, <1>5, <2>2, <3>1, <3>2, <4>2
        <5> QED BY <1>9, <3>2, <5>1 DEF CrashInv, TimersHeld, OnlyTouches, OnlyChanges
      <4> QED BY <4>1, <4>2
    <3>3. ASSUME NEW i \in TimerId, NEW j \in TimerId, timers'[i] # Null, timers'[i] = timers'[j]
          PROVE  i = j
      <4>1. CASE i # FreeTimer /\ j # FreeTimer
        BY <3>1, <3>3, <4>1 DEF CrashInv, TimersHeld
      <4>2. CASE i = FreeTimer \/ j = FreeTimer
        BY <1>5, <2>2, <3>1, <3>3, <4>2
      <4> QED BY <4>1, <4>2
    <3>4. ASSUME NEW u \in TranId, inst'[u].timer_id # NoTimer, pc'[u] # "exited"
          PROVE  pc'[u] \in Interrupted \cup {"suspended"} /\ timers'[inst'[u].timer_id] = u
      <4>1. CASE u = t
        BY <1>9, <3>1, <4>1
      <4>2. CASE u # t
        <5>1. inst'[u] = inst[u] /\ pc'[u] = pc[u]
          BY <1>9, <4>2 DEF OnlyTouches, OnlyChanges
        <5>2. pc[u] \in Interrupted \cup {"suspended"} /\ timers[inst[u].timer_id] = u
          BY <3>4, <5>1 DEF CrashInv, TimersHeld
        <5>3. inst[u].timer_id \in TimerId
          BY <1>2, <3>4, <5>1 DEF Instance
        <5>4. inst[u].timer_id # FreeTimer
          BY <1>5, <2>2, <5>2, EngineAssumption
        <5> QED BY <3>1, <5>1, <5>2, <5>3, <5>4
      <4> QED BY <4>1, <4>2
    <3> QED BY <3>2, <3>3, <3>4 DEF TimersHeld
  <2> QED BY <2>1, <2>2
<1>16. inst'[t].addr = inst[t].addr
  BY <1>3, <1>6, <1>9
<1> QED
  BY <1>1, <1>2, <1>8, <1>9, <1>10, <1>11, <1>12, <1>13, <1>14, <1>15, <1>16, OneStep, KeepsAddress
     DEF Each

\* The command that waits, or waited, awaits events.
LEMMA WaitingAwaits ==
  ASSUME CrashInv, NEW t \in TranId, pc[t] \in {"resumed", "reentered"},
         inst[t].curr_index # Null
  PROVE  /\ inst[t].waiting_index = inst[t].curr_index
         /\ CmdsOf(t)[inst[t].curr_index + 1] \in [Event -> Nat]
         /\ CmdsOf(t)[inst[t].curr_index + 1] # NoEvents
         /\ pc[t] = "resumed" => Within(pending[t], CmdsOf(t)[inst[t].curr_index + 1])
         /\ pc[t] = "reentered" /\ inst[t].timer_id # NoTimer =>
              Within(inst[t].events, CmdsOf(t)[inst[t].curr_index + 1])
<1>1. Each(t) /\ pc[t] \in Allocated \ {"exited"} /\ inst[t] \in Instance
  BY DEF CrashInv, TypeOK, Allocated, Pc
<1>2. /\ inst[t].waiting_index = inst[t].curr_index
      /\ inst[t].curr_index \in Nat /\ inst[t].curr_index < Len(CmdsOf(t))
      /\ CmdsOf(t)[inst[t].curr_index + 1] # NoEvents
      /\ pc[t] = "resumed" => Within(pending[t], CmdsOf(t)[inst[t].curr_index + 1])
      /\ pc[t] = "reentered" /\ inst[t].timer_id # NoTimer =>
           Within(inst[t].events, CmdsOf(t)[inst[t].curr_index + 1])
  <2>1. inst[t].curr_index \in Nat
    BY <1>1 DEF Instance
  <2> QED BY <1>1, <2>1 DEF Each, Waits, Resumes
<1>3. CmdsOf(t) \in Seq([Event -> Nat])
  BY <1>1, EngineAssumption DEF Each, Recorded, CmdsOf
<1> QED BY <1>2, <1>3

\* What WaitForEvent may be called with: r of inst[t], and events that the
\* command still awaits.
Awaited(t, r, events) ==
  /\ Called(r, inst[t]) /\ r.curr_index # Null
  /\ events \in [Event -> Nat] /\ Within(events, CmdsOf(t)[r.curr_index + 1])
  /\ CmdsOf(t)[r.curr_index + 1] # NoEvents
  /\ r.timer_id # NoTimer => Within(r.events, events)

LEMMA WaitForEventStands ==
  ASSUME CrashInv, NEW t \in TranId, NEW r, NEW events, cpu = t,
         pc[t] \in {"do", "resumed"}, Awaited(t, r, events), WaitForEvent(t, r, events),
         UNCHANGED <<alive, toResume, crashes>>
  PROVE  CrashInv'
BY CommandReturnedStands, SuspendStands DEF WaitForEvent, Awaited

LEMMA WaitAgainStands ==
  ASSUME CrashInv, NEW t \in TranId, NEW r, NEW events, cpu = t,
         pc[t] \in {"resumed", "reentered"}, Awaited(t, r, events), WaitAgain(t, r, events),
         events = NoEvents => r.timer_id = NoTimer,
         UNCHANGED <<alive, toResume, crashes>>
  PROVE  CrashInv'
BY WaitedForStands, SuspendStands DEF WaitAgain, Awaited

\* One that a message has woken awaits no more than before.
LEMMA WokenAwaits ==
  ASSUME CrashInv, NEW t \in TranId, pc[t] = "resumed", NEW r, Called(r, inst[t])
  PROVE  /\ r.timer_id = NoTimer /\ r.curr_index # Null /\ Awaited(t, r, pending[t])
         /\ \A e \in Event : pending[t][e] > 0 =>
              Awaited(t, r, [pending[t] EXCEPT ![e] = pending[t][e] - 1])
<1>1. /\ pending[t] \in [Event -> Nat] /\ inst[t].timer_id = NoTimer
      /\ inst[t].curr_index # Null
  BY HoldsNoTimer, NullIsNoIndex DEF CrashInv, TypeOK, Each, Recorded, Interrupted
<1>2. r.timer_id = NoTimer /\ r.curr_index = inst[t].curr_index
  BY <1>1 DEF Called, Like
<1>3. /\ CmdsOf(t)[r.curr_index + 1] \in [Event -> Nat]
      /\ CmdsOf(t)[r.curr_index + 1] # NoEvents
      /\ Within(pending[t], CmdsOf(t)[r.curr_index + 1])
  BY <1>1, <1>2, WaitingAwaits
<1>4. ASSUME NEW e \in Event, pending[t][e] > 0
      PROVE  /\ [pending[t] EXCEPT ![e] = pending[t][e] - 1] \in [Event -> Nat]
             /\ Within([pending[t] EXCEPT ![e] = pending[t][e] - 1], CmdsOf(t)[r.curr_index + 1])
  <2> DEFINE left == [pending[t] EXCEPT ![e] = pending[t][e] - 1]
  <2>1. left \in [Event -> Nat]
    BY <1>1, <1>4
  <2>2. ASSUME NEW d \in Event PROVE left[d] <= CmdsOf(t)[r.curr_index + 1][d]
    <3>1. /\ pending[t][d] <= CmdsOf(t)[r.curr_index + 1][d] /\ pending[t][d] \in Nat
          /\ CmdsOf(t)[r.curr_index + 1][d] \in Nat
      BY <1>1, <1>3 DEF Within
    <3>2. left[d] \in Nat /\ left[d] <= pending[t][d]
      BY <1>1, <2>1, <3>1
    <3> HIDE DEF left
    <3> QED BY <3>1, <3>2
  <2> HIDE DEF left
  <2> QED BY <2>1, <2>2 DEF Within, left
<1> QED BY <1>1, <1>2, <1>3, <1>4 DEF Awaited

LEMMA AbortCalls ==
  ASSUME NEW s \in Instance
  PROVE  Called([s EXCEPT !.fail_reason = "ABORT"], s)
BY DEF Called, Like, Instance

LEMMA DoStands ==
  ASSUME CrashInv, NEW t \in TranId, Do(t), UNCHANGED <<alive, toResume, crashes>>
  PROVE  CrashInv'
<1>1. /\ Each(t) /\ pc[t] = "do" /\ cpu = t /\ inst[t] \in Instance /\ pc[t] \in Allocated
      /\ inst[t].timer_id = NoTimer
  BY HoldsNoTimer DEF CrashInv, Do, RunsAt, TypeOK, Allocated, Pc, Interrupted
<1>2. PICK r \in AfterCallback(t) :
       \/ CommandReturned(t, r, "ERROR")
       \/ CommandReturned(t, r, "OK")
       \/ /\ CmdsOf(t)[r.curr_index + 1] # NoEvents
          /\ WaitForEvent(t, r, CmdsOf(t)[r.curr_index + 1])
  BY DEF Do
<1>3. Called(r, inst[t]) /\ r.curr_index = inst[t].curr_index /\ r.timer_id = NoTimer
  BY <1>1, CallbackCalls DEF Called, Like
<1>4. CmdsOf(t)[r.curr_index + 1] \in [Event -> Nat] /\ r.curr_index # Null
  <2>1. CmdsOf(t) \in Seq([Event -> Nat])
    BY <1>1, EngineAssumption DEF Each, Recorded, CmdsOf
  <2> QED BY <1>1, <1>3, <2>1, NullIsNoIndex DEF Each, Recorded
<1>5. CmdsOf(t)[r.curr_index + 1] # NoEvents => Awaited(t, r, CmdsOf(t)[r.curr_index + 1])
  BY <1>3, <1>4, WithinItself DEF Awaited
<1> QED BY <1>1, <1>2, <1>3, <1>5, CommandReturnedStands, WaitForEventStands

LEMMA OnRecvStands ==
  ASSUME CrashInv, NEW t \in TranId, OnRecvMsgEvent(t), UNCHANGED <<alive, toResume, crashes>>
  PROVE  CrashInv'
<1> DEFINE e    == inst[t].event_type
           left == [pending[t] EXCEPT ![e] = pending[t][e] - 1]
<1>1. /\ pc[t] = "resumed" /\ cpu = t /\ inst[t] \in Instance /\ e \in Event /\ pending[t][e] > 0
  BY DEF CrashInv, OnRecvMsgEvent, RunsAt, TypeOK
<1>2. PICK r \in AfterCallback(t) : CommandReturned(t, r, "ERROR") \/ WaitForEvent(t, r, left)
  BY DEF OnRecvMsgEvent
<1>3. Called(r, inst[t])
  BY <1>1, CallbackCalls
<1>4. Awaited(t, r, left)
  BY <1>1, <1>3, WokenAwaits
<1> HIDE DEF left
<1> QED BY <1>1, <1>2, <1>3, <1>4, CommandReturnedStands, WaitForEventStands

LEMMA OnAbortStands ==
  ASSUME CrashInv, NEW t \in TranId, OnAbortEvent(t), UNCHANGED <<alive, toResume, crashes>>
  PROVE  CrashInv'
<1> DEFINE r == [inst[t] EXCEPT !.fail_reason = "ABORT"]
<1>1. /\ pc[t] = "resumed" /\ cpu = t /\ inst[t] \in Instance /\ WaitForEvent(t, r, pending[t])
  BY DEF CrashInv, OnAbortEvent, RunsAt, TypeOK
<1>2. Called(r, inst[t])
  BY <1>1, AbortCalls
<1> HIDE DEF r
<1> QED BY <1>1, <1>2, WokenAwaits, WaitForEventStands

LEMMA OnTimeoutStands ==
  ASSUME CrashInv, NEW t \in TranId, OnTimeout(t), UNCHANGED <<alive, toResume, crashes>>
  PROVE  CrashInv'
<1>1. pc[t] = "resumed" /\ cpu = t /\ inst[t] \in Instance
  BY DEF CrashInv, OnTimeout, RunsAt, TypeOK
<1>2. PICK r \in AfterCallback(t) :
        CommandReturned(t, r, "ERROR") \/ WaitForEvent(t, r, pending[t])
  BY DEF OnTimeout
<1>3. Called(r, inst[t])
  BY <1>1, CallbackCalls
<1> QED BY <1>1, <1>2, <1>3, WokenAwaits, CommandReturnedStands, WaitForEventStands

\* WaitForEvent goes on for a command that RealResume took up again.
LEMMA WokenAgainStands ==
  ASSUME CrashInv, NEW t \in TranId, WokenAgain(t), UNCHANGED <<alive, toResume, crashes>>
  PROVE  CrashInv'
<1> DEFINE e    == inst[t].event_type
           left == [pending[t] EXCEPT ![e] = pending[t][e] - 1]
           ab   == [inst[t] EXCEPT !.fail_reason = "ABORT"]
<1>1. /\ pc[t] = "resumed" /\ cpu = t /\ inst[t] \in Instance
  BY DEF CrashInv, WokenAgain, RunsAt, TypeOK
<1>2. \/ /\ e \in Event /\ pending[t][e] > 0
         /\ \E r \in AfterCallback(t) : WaitedFor(t, r, "ERROR") \/ WaitAgain(t, r, left)
      \/ WaitAgain(t, ab, pending[t])
      \/ \E r \in AfterCallback(t) : WaitedFor(t, r, "ERROR") \/ WaitAgain(t, r, pending[t])
  BY DEF WokenAgain
<1>3. e \in Event /\ pending[t][e] > 0 => \A r : Called(r, inst[t]) => Awaited(t, r, left)
  BY <1>1, WokenAwaits
<1>4. Called(ab, inst[t])
  BY <1>1, AbortCalls
<1> HIDE DEF left, ab
<1>5. ASSUME NEW r, Called(r, inst[t]), WaitedFor(t, r, "ERROR") PROVE CrashInv'
  BY <1>1, <1>5, WokenAwaits, WaitedForStands
<1>6. ASSUME NEW r, Called(r, inst[t]), NEW events, Awaited(t, r, events), WaitAgain(t, r, events)
      PROVE  CrashInv'
  BY <1>1, <1>6, WokenAwaits, WaitAgainStands
<1>7. \A r \in AfterCallback(t) : Called(r, inst[t])
  BY <1>1, CallbackCalls
<1>8. \A r : Called(r, inst[t]) => Awaited(t, r, pending[t])
  BY <1>1, WokenAwaits
<1> QED BY <1>2, <1>3, <1>4, <1>5, <1>6, <1>7, <1>8

\* Two of RealResume's three ways occur: the indices are always equal.
LEMMA RealResumeStands ==
  ASSUME CrashInv, NEW t \in TranId, RealResume(t), UNCHANGED <<alive, toResume, crashes>>
  PROVE  CrashInv'
<1>1. /\ pc[t] = "reentered" /\ cpu = t /\ Each(t) /\ inst[t] \in Instance
      /\ pc[t] \in Allocated \ {"exited"} /\ inst \in [TranId -> Instance]
      /\ pc[t] \in Executing /\ done \in [TranId -> Seq(Nat)]
  BY DEF CrashInv, RealResume, RunsAt, TypeOK, Allocated, Pc, Executing
<1>2. inst[t].waiting_index = inst[t].curr_index
  BY <1>1 DEF Each, Waits, Resumes
<1>3. \/ /\ inst[t].curr_index = Null /\ pc' = [pc EXCEPT ![t] = "tail"]
         /\ UNCHANGED <<schedVars, mgrVars, inst, pending, timers, history, rewait>>
      \/ /\ inst[t].curr_index # Null
         /\ WaitAgain(t, inst[t], CmdsOf(t)[inst[t].curr_index + 1])
  BY <1>2 DEF RealResume
<1>4. Called(inst[t], inst[t])
  BY <1>1 DEF Called, Like
<1>5. CASE /\ inst[t].curr_index = Null /\ pc' = [pc EXCEPT ![t] = "tail"]
           /\ UNCHANGED <<schedVars, mgrVars, inst, pending, timers, history, rewait>>
  <2>1. /\ UNCHANGED <<curr, coroutines, state, context, cpu, trans_map, destroy_list, upd, pending,
                       timers, result, undone>>
        /\ inst' = inst /\ done' = done /\ inst' = [inst EXCEPT ![t] = inst[t]]
        /\ pc'[t] = "tail"
    BY <1>1, <1>5 DEF schedVars, mgrVars, history, CrashInv, TypeOK
  <2>2. inst[t].timer_id = NoTimer
    BY <1>1, <1>5 DEF Each, Waits
  <2>3. Waits(t)'
    BY <1>1, <1>2, <1>5, <2>1, <2>2 DEF Waits, Resumes
  <2>4. Proceeds(t)'
    BY <1>1, <1>5, <2>1 DEF Each, Proceeds, Resumes, Allocated
  <2>5. Honest(t)'
    BY <1>1, <1>5, <2>1 DEF Each, Honest, Whole, Interrupted
  <2>6. Like(inst[t], inst[t])
    BY <1>4 DEF Called
  <2>7. done' \in [TranId -> Seq(Nat)] /\ \A u \in TranId \ {t} : done'[u] = done[u]
    BY <1>1, <2>1
  <2> QED BY <1>1, <1>5, <2>1, <2>2, <2>3, <2>4, <2>5, <2>6, <2>7, RunStands
<1>6. CASE /\ inst[t].curr_index # Null
           /\ WaitAgain(t, inst[t], CmdsOf(t)[inst[t].curr_index + 1])
  <2>1. Awaited(t, inst[t], CmdsOf(t)[inst[t].curr_index + 1])
    BY <1>1, <1>4, <1>6, WaitingAwaits, WithinItself DEF Awaited
  <2> QED BY <1>1, <1>6, <2>1, WaitAgainStands DEF Awaited
<1> QED BY <1>3, <1>5, <1>6

LEMMA ExitStands ==
  ASSUME CrashInv, NEW t \in TranId, Exit(t), UNCHANGED <<alive, toResume, crashes>>
  PROVE  CrashInv'
<1>1. /\ Each(t) /\ pc[t] = "tail" /\ cpu = t /\ inst[t] \in Instance
      /\ pc[t] \in Allocated \ {"exited"}
  BY DEF CrashInv, Exit, RunsAt, TypeOK, Allocated, Pc
<1>2. ~inst[t].is_delay_destroying /\ inst[t].addr \in Addr
  BY <1>1 DEF Each, Recorded
<1> DEFINE r == [Completed(inst[t]) EXCEPT !.is_delay_destroying = TRUE]
<1>3. /\ r \in Instance /\ r.is_delay_destroying
      /\ r.type = inst[t].type /\ r.addr = inst[t].addr /\ r.coroutine_id = inst[t].coroutine_id
      /\ r.timer_id = inst[t].timer_id /\ Completed(inst[t]).addr = inst[t].addr
      /\ ~Completed(inst[t]).is_delay_destroying
  BY <1>1, <1>2, ExitedLike
<1>4. /\ r.curr_index = inst[t].curr_index /\ r.fail_index = inst[t].fail_index
      /\ r.fail_reason = inst[t].fail_reason
      /\ r.is_complete <=> inst[t].is_complete \/ ~IsFailed(inst[t])
  <2>1. PICK b \in BOOLEAN : /\ Completed(inst[t]) = [inst[t] EXCEPT !.is_complete = b]
                             /\ b <=> inst[t].is_complete \/ ~IsFailed(inst[t])
    <3>1. (inst[t].is_complete \/ ~IsFailed(inst[t])) \in BOOLEAN
      BY <1>1 DEF Instance, IsFailed
    <3> QED BY <3>1 DEF Completed
  <2>2. /\ r.curr_index = inst[t].curr_index /\ r.fail_index = inst[t].fail_index
        /\ r.fail_reason = inst[t].fail_reason
    BY <1>1, <2>1 DEF Instance
  <2>3. r.is_complete = b
    BY <1>1, <2>1 DEF Instance
  <2> QED BY <2>1, <2>2, <2>3
<1>5. /\ inst' = [inst EXCEPT ![t] = r] /\ pc' = [pc EXCEPT ![t] = "exited"]
      /\ destroy_list' = destroy_list \cup {inst[t].addr} /\ trans_map' = trans_map \ {t}
      /\ pending' = [pending EXCEPT ![t] = NoEvents]
      /\ Sched!WorkRoutineExit
      /\ UNCHANGED <<upd, timers, result, done, undone>>
  BY <1>3 DEF Exit, history
<1> HIDE DEF r
<1>6. /\ cpu' = Main /\ coroutines' = coroutines /\ state'[t] = "DEAD"
      /\ \A u \in TranId : u # t => state'[u] = state[u] /\ context'[u] = context[u]
      /\ SoundBooks' /\ Sched!TypeOK'
  BY <1>1, <1>5, ExitsToMain DEF CrashInv, TypeOK
<1>7. /\ inst \in [TranId -> Instance] /\ pc \in [TranId -> Pc]
      /\ pending \in [TranId -> [Event -> Nat]]
  BY DEF CrashInv, TypeOK
<1>8. inst'[t] = r /\ pc'[t] = "exited" /\ OnlyTouches(t)
  BY <1>1, <1>5, <1>6, <1>7, EngineAssumption DEF OnlyTouches, OnlyChanges
<1>9. TypeOK'
  <2>1. inst' \in [TranId -> Instance] /\ pending' \in [TranId -> [Event -> Nat]]
    BY <1>3, <1>5, <1>7 DEF NoEvents
  <2>2. pc' \in [TranId -> Pc]
    BY <1>5, <1>7 DEF Pc
  <2> QED BY <1>2, <1>5, <1>6, <2>1, <2>2 DEF CrashInv, TypeOK
<1>10. ~(upd.handling /\ upd.at = inst[t].addr)
  BY <1>1 DEF CrashInv, HandlesOne, Addresses, Allocated, Pc
<1>11. Stands(t)' /\ Reported(t)'
  BY <1>1, <1>3, <1>5, <1>6, <1>8, <1>10, EngineAssumption
     DEF Each, Stands, Mapped, Begun, Executing, Running, Interrupted, Reported
<1>12. Recorded(t)'
  BY <1>1, <1>3, <1>6, <1>8 DEF Each, Recorded, Allocated, Pc
<1>13. Waits(t)' /\ pc'[t] \notin Interrupted
  BY <1>8 DEF Waits, Interrupted
<1>14. Proceeds(t)'
  BY <1>1, <1>4, <1>5, <1>8 DEF Each, Proceeds, Resumes
<1>15. Honest(t)'
  <2>1. result'[t] = "none"
    BY <1>1, <1>5 DEF Each, Reported
  <2>2. "complete" \notin AppDoes => ~inst[t].is_complete /\ (IsFailed(inst[t]) \/ Whole(t))
    BY <1>1 DEF Each, Honest
  <2>3. (IsFailed(r) <=> IsFailed(inst[t])) /\ (Whole(t)' <=> Whole(t))
    BY <1>3, <1>4, <1>5, <1>8 DEF IsFailed, Whole, CmdsOf
  <2> QED BY <1>4, <1>8, <2>1, <2>2, <2>3 DEF Honest
<1>16. TimersHeld'
  <2>1. inst[t].timer_id = NoTimer /\ \A i \in TimerId : timers[i] # t
    BY <1>1, HoldsNoTimer DEF Interrupted
  <2> QED BY <1>3, <1>5, <1>8, <2>1, TimersStay
<1> QED
  BY <1>1, <1>3, <1>5, <1>6, <1>8, <1>9, <1>11, <1>12, <1>13, <1>14, <1>15, <1>16, EndStep DEF Each

LEMMA InCoroutineStands ==
  ASSUME CrashInv, NEW t \in TranId, InCoroutine(t)
  PROVE  CrashInv'
BY RealResumeStands, WokenAgainStands, OnStartStands, DoStands, OnRecvStands, OnAbortStands,
   OnTimeoutStands, ExitStands
   DEF InCoroutine, CoroutineStep

-----------------------------------------------------------------------------
(* Messages and timeouts, in a program that may crash.                     *)

\* A message reaches an instance that waits, or, if a coroutine sends it while
\* main is still resuming others, one that main has yet to resume.
LEMMA ReceiverStands ==
  ASSUME CrashInv, NEW t \in TranId, t \in trans_map, ~Starting, cpu # t,
         toResume = {} \/ cpu # Main
  PROVE  pc[t] = "suspended" \/ (pc[t] \in {"lost", "prepared"} /\ cpu # Main)
<1>1. /\ pc[t] \in Mapped \cup Interrupted /\ pc[t] \notin Executing
      /\ t \in toResume <=> pc[t] \in {"lost", "prepared"}
  BY DEF CrashInv, Each, Stands
<1>2. pc[t] \notin {"added", "created"}
  BY DEF Starting
<1> QED BY <1>1, <1>2 DEF Mapped, Interrupted, Executing, Running

\* Where nobody sends what is not awaited, and only main sends, every message
\* wakes its receiver.
Wakes(t, msg) ==
  {"stray", "peer"} \cap AppDoes = {} =>
    cpu = Main /\ (msg \in DefaultEvent \/ inst[t].events[msg] > 0)

\* Deliver, once the timer of the wait is gone.
LEMMA DeliverStands ==
  ASSUME CrashInv, NEW t \in TranId, NEW msg \in Event \cup DefaultEvent,
         pc[t] = "suspended" \/ (pc[t] \in {"lost", "prepared"} /\ cpu # Main),
         Wakes(t, msg),
         timers' = [i \in TimerId |-> IF i = inst[t].timer_id THEN Null ELSE timers[i]],
         Deliver(t, msg),
         UNCHANGED <<mgrVars, pending, history>>, UNCHANGED crashVars
  PROVE  CrashInv'
<1> DEFINE b == msg \in DefaultEvent \/ inst[t].events[msg] > 0
           r == IF b THEN [[inst[t] EXCEPT !.timer_id = NoTimer] EXCEPT !.event_type = msg]
                ELSE [inst[t] EXCEPT !.timer_id = NoTimer]
<1>1. /\ inst \in [TranId -> Instance] /\ pc \in [TranId -> Pc] /\ Each(t)
      /\ timers \in [TimerId -> TranId \cup {Null}] /\ pc[t] \in Allocated \ {"exited"}
      /\ SoundBooks /\ Sched!TypeOK
  BY DEF CrashInv, TypeOK, Allocated, Pc
<1>2. /\ r \in Instance /\ r.timer_id = NoTimer /\ r.events = inst[t].events
      /\ r.waiting_index = inst[t].waiting_index /\ r.curr_index = inst[t].curr_index
      /\ r.type = inst[t].type /\ r.addr = inst[t].addr /\ r.coroutine_id = inst[t].coroutine_id
      /\ r.is_delay_destroying = inst[t].is_delay_destroying
  <2>1. b \in BOOLEAN /\ inst[t] \in Instance
    BY <1>1
  <2> HIDE DEF b
  <2> QED BY <2>1, DeliveredLike
<1>3. r.fail_index = inst[t].fail_index /\ r.is_complete = inst[t].is_complete
  BY <1>1 DEF Instance
<1>4. /\ [inst[t] EXCEPT !.timer_id = NoTimer].events = inst[t].events
      /\ [inst[t] EXCEPT !.timer_id = NoTimer].coroutine_id = inst[t].coroutine_id
  BY <1>1 DEF Instance
<1>5. inst' = [inst EXCEPT ![t] = r]
  BY <1>4 DEF Deliver, IsDefaultEvent, SetEventArg
<1>6. IF b /\ Sched!CanSwapToWorkRoutine(inst[t].coroutine_id)
      THEN Sched!SwapToWorkRoutine(inst[t].coroutine_id) /\ pc' = [pc EXCEPT ![t] = "resumed"]
      ELSE UNCHANGED <<curr, coroutines, state, context, cpu, pc>>
  BY <1>4 DEF Deliver, IsDefaultEvent, SetEventArg, schedVars
<1>7. UNCHANGED <<trans_map, destroy_list, upd, pending, result, done, undone,
                  alive, toResume, crashes>>
  BY DEF mgrVars, history, crashVars
<1>8. b \in BOOLEAN /\ Wakes(t, msg) <=>
        b \in BOOLEAN /\ ({"stray", "peer"} \cap AppDoes = {} => cpu = Main /\ b)
  BY DEF Wakes
<1> HIDE DEF r, b
<1>9. \/ /\ pc[t] = "suspended" /\ pc' = [pc EXCEPT ![t] = "resumed"]
         /\ cpu = Main /\ cpu' = t /\ coroutines' = coroutines /\ state'[t] = "RUN"
         /\ \A u \in TranId : u # t => state'[u] = state[u] /\ context'[u] = context[u]
         /\ SoundBooks' /\ Sched!TypeOK'
      \/ /\ UNCHANGED <<curr, coroutines, state, context, cpu, pc>>
         /\ pc[t] = "suspended" => {"stray", "peer"} \cap AppDoes # {}
         /\ SoundBooks' /\ Sched!TypeOK'
  <2>1. pc[t] = "suspended" => /\ t \in coroutines /\ inst[t].coroutine_id = t
                               /\ state[t] = "SUSPEND" /\ context[t] = t
    BY <1>1 DEF Each, Stands, Recorded, Begun, Mapped
  <2>2. inst[t].coroutine_id = t \/ inst[t].coroutine_id = NoCo
    BY <1>1 DEF Each, Recorded
  <2>3. Sched!CanSwapToWorkRoutine(inst[t].coroutine_id) => cpu = Main
    BY <1>1 DEF Sched!CanSwapToWorkRoutine, SoundBooks
  <2>4. CASE b /\ Sched!CanSwapToWorkRoutine(inst[t].coroutine_id)
    <3>1. pc[t] = "suspended"
      BY <2>3, <2>4
    <3> QED BY <1>1, <1>6, <2>1, <2>4, <3>1, MainEnters
  <2>5. CASE ~(b /\ Sched!CanSwapToWorkRoutine(inst[t].coroutine_id))
    <3>1. UNCHANGED <<curr, coroutines, state, context, cpu, pc>>
      BY <1>6, <2>5
    <3>2. SoundBooks' /\ Sched!TypeOK'
      BY <1>1, <3>1, BooksUntouched
    <3>3. ASSUME pc[t] = "suspended", {"stray", "peer"} \cap AppDoes = {} PROVE FALSE
      <4>1. cpu = Main /\ b
        BY <3>3 DEF Wakes, b
      <4>2. Sched!CanSwapToWorkRoutine(t)
        BY <1>1, <2>1, <3>3, <4>1, MainEntersThose
      <4> QED BY <2>1, <2>5, <3>3, <4>1, <4>2
    <3> QED BY <3>1, <3>2, <3>3
  <2> QED BY <2>4, <2>5
<1>10. /\ inst'[t] = r /\ OnlyTouches(t) /\ pc' \in [TranId -> Pc] /\ coroutines' = coroutines
       /\ SoundBooks' /\ Sched!TypeOK' /\ pc'[t] # "exited"
       /\ \/ pc[t] = "suspended" /\ pc'[t] = "resumed" /\ cpu' = t /\ state'[t] = "RUN"
          \/ /\ pc'[t] = pc[t] /\ cpu' = cpu /\ state' = state /\ context' = context
             /\ pc[t] = "suspended" => {"stray", "peer"} \cap AppDoes # {}
  <2>1. CASE /\ pc[t] = "suspended" /\ pc' = [pc EXCEPT ![t] = "resumed"]
             /\ cpu = Main /\ cpu' = t /\ coroutines' = coroutines /\ state'[t] = "RUN"
             /\ \A u \in TranId : u # t => state'[u] = state[u] /\ context'[u] = context[u]
             /\ SoundBooks' /\ Sched!TypeOK'
    <3>1. pc' \in [TranId -> Pc]
      BY <1>1, <2>1 DEF Pc
    <3> QED BY <1>1, <1>5, <1>7, <2>1, <3>1, EngineAssumption DEF OnlyTouches, OnlyChanges
  <2>2. CASE /\ UNCHANGED <<curr, coroutines, state, context, cpu, pc>>
             /\ pc[t] = "suspended" => {"stray", "peer"} \cap AppDoes # {}
             /\ SoundBooks' /\ Sched!TypeOK'
    BY <1>1, <1>5, <1>7, <2>2 DEF OnlyTouches, OnlyChanges
  <2> QED BY <1>9, <2>1, <2>2
<1>11. TypeOK'
  <2>1. inst' \in [TranId -> Instance] /\ timers' \in [TimerId -> TranId \cup {Null}]
    BY <1>1, <1>2, <1>5
  <2> QED BY <1>7, <1>10, <2>1 DEF CrashInv, TypeOK
<1>12. Stands(t)' /\ (pc'[t] \in Interrupted => crashes' > 0)
  BY <1>1, <1>7, <1>10 DEF Each, Stands, Mapped, Begun, Executing, Running, Interrupted
<1>13. Recorded(t)' /\ Reported(t)'
  BY <1>1, <1>2, <1>7, <1>10 DEF Each, Recorded, Reported, Allocated, Pc, CmdsOf
<1>14. Waits(t)'
  BY <1>1, <1>2, <1>7, <1>10 DEF Each, Waits, Resumes, CmdsOf
<1>15. Proceeds(t)' /\ Honest(t)'
  BY <1>1, <1>2, <1>3, <1>7, <1>10 DEF Each, Proceeds, Resumes, Honest, Allocated
<1>16. TimersHeld'
  <2>1. ASSUME NEW i \in TimerId, timers'[i] # Null
        PROVE  timers'[i] = timers[i] /\ timers[i] \in TranId \ {t}
    <3>1. timers'[i] = timers[i] /\ i # inst[t].timer_id /\ timers[i] \in TranId
      BY <1>1, <2>1
    <3>2. timers[i] # t
      BY <2>1, <3>1 DEF CrashInv, TimersHeld, Interrupted
    <3> QED BY <3>1, <3>2
  <2>2. ASSUME NEW i \in TimerId, timers'[i] # Null
        PROVE  /\ pc'[timers'[i]] \in Interrupted \cup {"suspended", "exited", "released"}
               /\ pc'[timers'[i]] \in Interrupted \cup {"suspended"} =>
                    inst'[timers'[i]].timer_id = i
    BY <1>10, <2>1, <2>2 DEF CrashInv, TimersHeld, OnlyTouches, OnlyChanges
  <2>3. \A i, j \in TimerId : timers'[i] # Null /\ timers'[i] = timers'[j] => i = j
    BY <2>1 DEF CrashInv, TimersHeld
  <2>4. ASSUME NEW u \in TranId, inst'[u].timer_id # NoTimer, pc'[u] # "exited"
        PROVE  pc'[u] \in Interrupted \cup {"suspended"} /\ timers'[inst'[u].timer_id] = u
    <3>1. u # t /\ inst'[u] = inst[u] /\ pc'[u] = pc[u]
      BY <1>2, <1>10, <2>4 DEF OnlyTouches, OnlyChanges
    <3>2. /\ pc[u] \in Interrupted \cup {"suspended"} /\ timers[inst[u].timer_id] = u
          /\ inst[u].timer_id \in TimerId
      BY <1>1, <2>4, <3>1 DEF CrashInv, TimersHeld, Instance
    <3>3. inst[u].timer_id # inst[t].timer_id
      <4>1. CASE inst[t].timer_id # NoTimer
        BY <1>1, <3>1, <3>2, <4>1 DEF CrashInv, TimersHeld
      <4> QED BY <2>4, <3>1, <4>1
    <3> QED BY <3>1, <3>2, <3>3
  <2> QED BY <2>2, <2>3, <2>4 DEF TimersHeld
<1> QED
  BY <1>1, <1>2, <1>7, <1>10, <1>11, <1>12, <1>13, <1>14, <1>15, <1>16, OneStep, KeepsAddress
     DEF Each

LEMMA SendStands ==
  ASSUME CrashInv, NEW t \in TranId, NEW msg \in Event \cup DefaultEvent,
         ~Starting, cpu # t, toResume = {} \/ cpu # Main, Wakes(t, msg),
         SendMsgEventToTran(t, msg), UNCHANGED crashVars
  PROVE  CrashInv'
BY ReceiverStands, DeliverStands DEF SendMsgEventToTran, SendMsgEvent

LEMMA AppStepStands ==
  ASSUME CrashInv, NEW t \in TranId, Engine(AppStep(t))
  PROVE  CrashInv'
<1>1. AppStep(t) /\ UNCHANGED crashVars /\ (toResume = {} \/ cpu # Main)
  BY DEF Engine
<1>2. CASE AppStarts(t)
  BY <1>1, <1>2, StartStands DEF AppStarts
<1>3. CASE AppSends(t)
  <2>1. PICK e \in Event : /\ inst[t].events[e] > 0 \/ "stray" \in AppDoes
                           /\ SendMsgEventToTran(t, e)
    BY <1>3 DEF AppSends
  <2>2. ~Starting /\ cpu = Main /\ cpu # t
    BY <1>3, EngineAssumption DEF AppSends, AppInMain
  <2>3. Wakes(t, e)
    BY <2>1, <2>2 DEF Wakes
  <2> QED BY <1>1, <2>1, <2>2, <2>3, SendStands
<1>4. CASE AppAborts(t)
  <2>1. ~Starting /\ cpu = Main /\ cpu # t /\ SendMsgEventToTran(t, "ABORT")
    BY <1>4, EngineAssumption DEF AppAborts, AppInMain
  <2>2. Wakes(t, "ABORT")
    BY <2>1 DEF Wakes, DefaultEvent
  <2> QED BY <1>1, <2>1, <2>2, SendStands DEF DefaultEvent
<1>5. CASE PeerSends(t)
  <2>1. PICK msg \in Event \cup {"ABORT"} : SendMsgEventToTran(t, msg)
    BY <1>5 DEF PeerSends
  <2>2. ~Starting /\ cpu # t /\ "peer" \in AppDoes
    BY <1>5 DEF PeerSends, AppInCoroutine
  <2>3. Wakes(t, msg)
    BY <2>2 DEF Wakes
  <2> QED BY <1>1, <2>1, <2>2, <2>3, SendStands DEF DefaultEvent
<1> QED BY <1>1, <1>2, <1>3, <1>4, <1>5 DEF AppStep, CallGM

LEMMA TimerFiresStands ==
  ASSUME CrashInv, NEW i \in TimerId, Engine(TimerFires(i))
  PROVE  CrashInv'
<1> DEFINE t == timers[i]
<1>1. /\ TimerFires(i) /\ UNCHANGED crashVars /\ toResume = {}
      /\ cpu = Main /\ ~Starting /\ t # Null
  BY DEF Engine, TimerFires
<1>2. t \in TranId /\ t # cpu /\ timers \in [TimerId -> TranId \cup {Null}]
  BY <1>1, EngineAssumption DEF CrashInv, TypeOK
<1>3. /\ timers' = [timers EXCEPT ![i] = Null]
      /\ IF t \in trans_map THEN Deliver(t, "TIMEOUT") ELSE UNCHANGED <<schedVars, inst, pc>>
      /\ UNCHANGED <<mgrVars, pending, history>>
  BY <1>1 DEF TimerFires
<1>4. CASE t \in trans_map
  <2>1. pc[t] = "suspended"
    BY <1>1, <1>2, <1>4, ReceiverStands
  <2>2. inst[t].timer_id = i
    BY <1>1, <2>1 DEF CrashInv, TimersHeld
  <2>3. timers' = [j \in TimerId |-> IF j = inst[t].timer_id THEN Null ELSE timers[j]]
    BY <1>2, <1>3, <2>2
  <2>4. Wakes(t, "TIMEOUT") /\ "TIMEOUT" \in DefaultEvent
    BY <1>1 DEF Wakes, DefaultEvent
  <2> HIDE DEF t
  <2> QED BY <1>1, <1>2, <1>3, <1>4, <2>1, <2>3, <2>4, DeliverStands
<1>5. CASE t \notin trans_map
  <2>1. /\ UNCHANGED <<curr, coroutines, state, context, cpu, trans_map, destroy_list, upd, inst, pc,
                       pending, result, done, undone, toResume>>
        /\ UNCHANGED <<alive, crashes>>
    BY <1>1, <1>3, <1>5 DEF schedVars, mgrVars, history, crashVars
  <2>2. pc[t] \notin Interrupted \cup {"suspended"}
    BY <1>2, <1>5 DEF CrashInv, Each, Stands, Mapped
  <2>3. /\ timers' \in [TimerId -> TranId \cup {Null}]
        /\ \A j \in TimerId : timers'[j] = IF j = i THEN Null ELSE timers[j]
    BY <1>2, <1>3
  <2>4. TimersHeld'
    <3>1. ASSUME NEW j \in TimerId, timers'[j] # Null
          PROVE  /\ pc'[timers'[j]] \in Interrupted \cup {"suspended", "exited", "released"}
                 /\ pc'[timers'[j]] \in Interrupted \cup {"suspended"} =>
                      inst'[timers'[j]].timer_id = j
      BY <2>1, <2>3, <3>1 DEF CrashInv, TimersHeld
    <3>2. \A j, k \in TimerId : timers'[j] # Null /\ timers'[j] = timers'[k] => j = k
      BY <2>3 DEF CrashInv, TimersHeld
    <3>3. ASSUME NEW u \in TranId, inst[u].timer_id # NoTimer, pc[u] # "exited"
          PROVE  pc[u] \in Interrupted \cup {"suspended"} /\ timers'[inst[u].timer_id] = u
      <4>1. pc[u] \in Interrupted \cup {"suspended"} /\ timers[inst[u].timer_id] = u
        BY <3>3 DEF CrashInv, TimersHeld
      <4>2. inst[u].timer_id \in TimerId
        BY <3>3 DEF CrashInv, TypeOK, Instance
      <4>3. inst[u].timer_id # i
        BY <2>2, <4>1
      <4> QED BY <2>3, <4>1, <4>2, <4>3
    <3> QED BY <2>1, <3>1, <3>2, <3>3 DEF TimersHeld
  <2>5. Process' /\ crashes' >= crashes
    BY <2>1 DEF CrashInv, Process
  <2> QED BY <2>1, <2>3, <2>4, <2>5, QuietStep
<1> QED BY <1>4, <1>5

-----------------------------------------------------------------------------
(* Starting again.                                                         *)

\* The instance that main resumes, and what it may do with its coroutine.
LEMMA ResumedIsLost ==
  ASSUME CrashInv, NEW t \in TranId, Resuming(t, "lost") \/ Resuming(t, "prepared")
  PROVE  /\ Each(t) /\ cpu = Main /\ t # cpu /\ alive
         /\ inst \in [TranId -> Instance] /\ pc \in [TranId -> Pc] /\ inst[t] \in Instance
         /\ SoundBooks /\ Sched!TypeOK /\ pc[t] \in {"lost", "prepared"}
         /\ pc[t] \in Allocated \ {"exited"}
         /\ inst[t].coroutine_id \in coroutines <=> t \in coroutines
         /\ t \in coroutines => inst[t].coroutine_id = t
<1>1. /\ Each(t) /\ cpu = Main /\ alive /\ TypeOK /\ SoundBooks /\ pc[t] \in {"lost", "prepared"}
  BY DEF CrashInv, Resuming
<1>2. Null \notin coroutines /\ Sched!TypeOK /\ t # cpu
  BY <1>1, EngineAssumption DEF TypeOK, Sched!TypeOK
<1>3. inst[t].coroutine_id = IF t \in coroutines THEN t ELSE Null
  BY <1>1 DEF Each, Recorded, NoCo
<1>4. inst \in [TranId -> Instance] /\ pc \in [TranId -> Pc] /\ inst[t] \in Instance
  BY <1>1 DEF TypeOK
<1>5. pc[t] \in Allocated \ {"exited"}
  BY <1>1 DEF Allocated, Pc
<1> QED BY <1>1, <1>2, <1>3, <1>4, <1>5

LEMMA RestartCoroutineStands ==
  ASSUME CrashInv, NEW t \in TranId, RestartCoroutine(t)
  PROVE  CrashInv'
<1>1. /\ Resuming(t, "lost") /\ CanRestart(t) /\ pc[t] = "lost"
      /\ Sched!Prepare(inst[t].coroutine_id) /\ pc' = [pc EXCEPT ![t] = "prepared"]
      /\ UNCHANGED <<curr, coroutines, cpu, trans_map, destroy_list, upd, inst, pending, timers,
                     result, done, undone, alive, toResume, crashes>>
  BY DEF RestartCoroutine, Resuming, mgrVars, history, crashVars
<1>2. /\ Each(t) /\ cpu = Main /\ t # cpu /\ pc \in [TranId -> Pc]
      /\ SoundBooks /\ Sched!TypeOK /\ pc[t] \in Allocated \ {"exited"}
      /\ t \in coroutines /\ inst[t].coroutine_id = t /\ state[t] \in {"READY", "SUSPEND"}
  BY <1>1, ResumedIsLost DEF CanRestart
<1>3. /\ state'[t] = "READY" /\ context'[t] = t
      /\ \A u \in TranId : u # t => state'[u] = state[u] /\ context'[u] = context[u]
      /\ SoundBooks' /\ Sched!TypeOK'
  BY <1>1, <1>2, PreparesAgain
<1>4. pc'[t] = "prepared" /\ pc' \in [TranId -> Pc] /\ OnlyTouches(t)
  BY <1>1, <1>2, <1>3 DEF OnlyTouches, OnlyChanges, Pc
<1>5. TypeOK'
  BY <1>1, <1>3, <1>4 DEF CrashInv, TypeOK
<1>6. Stands(t)' /\ Reported(t)' /\ crashes' > 0
  BY <1>1, <1>2, <1>3, <1>4
     DEF Each, Stands, Mapped, Begun, Executing, Running, Interrupted, Reported
<1>7. Recorded(t)' /\ Waits(t)'
  BY <1>1, <1>2, <1>4 DEF Each, Recorded, Waits, Resumes, Allocated, Pc, CmdsOf
<1>8. Proceeds(t)' /\ Honest(t)'
  BY <1>1, <1>2, <1>4 DEF Each, Proceeds, Resumes, Honest, Allocated, Pc
<1>9. TimersHeld'
  BY <1>1, <1>2, <1>4, TimersStay DEF CrashInv, TimersHeld, Interrupted
<1> QED
  BY <1>1, <1>2, <1>3, <1>4, <1>5, <1>6, <1>7, <1>8, <1>9, OneStep, KeepsAddress DEF Each

LEMMA ReenterStands ==
  ASSUME CrashInv, NEW t \in TranId, ReenterCoroutine(t)
  PROVE  CrashInv'
<1>1. /\ Resuming(t, "prepared") /\ pc[t] = "prepared"
      /\ Sched!SwapToWorkRoutine(inst[t].coroutine_id) /\ pc' = [pc EXCEPT ![t] = "reentered"]
      /\ toResume' = toResume \ {t}
      /\ UNCHANGED <<trans_map, destroy_list, upd, inst, pending, timers,
                     result, done, undone, alive, crashes>>
  BY DEF ReenterCoroutine, Resuming, mgrVars, history
<1>2. /\ Each(t) /\ cpu = Main /\ t # cpu /\ pc \in [TranId -> Pc]
      /\ SoundBooks /\ Sched!TypeOK /\ pc[t] \in Allocated \ {"exited"}
      /\ t \in coroutines /\ inst[t].coroutine_id = t /\ context[t] = t
  BY <1>1, ResumedIsLost DEF Each, Stands
<1>3. /\ cpu' = t /\ coroutines' = coroutines /\ state'[t] = "RUN"
      /\ \A u \in TranId : u # t => state'[u] = state[u] /\ context'[u] = context[u]
      /\ SoundBooks' /\ Sched!TypeOK'
  BY <1>1, <1>2, MainEnters
<1>4. pc'[t] = "reentered" /\ pc' \in [TranId -> Pc] /\ OnlyTouches(t)
  BY <1>1, <1>2, <1>3, EngineAssumption DEF OnlyTouches, OnlyChanges, Pc
<1>5. TypeOK'
  BY <1>1, <1>3, <1>4 DEF CrashInv, TypeOK
<1>6. Stands(t)' /\ Reported(t)' /\ crashes' > 0
  BY <1>1, <1>2, <1>3, <1>4
     DEF Each, Stands, Mapped, Begun, Executing, Running, Interrupted, Reported
<1>7. Recorded(t)' /\ Waits(t)'
  BY <1>1, <1>2, <1>3, <1>4 DEF Each, Recorded, Waits, Resumes, Allocated, Pc, CmdsOf
<1>8. Proceeds(t)' /\ Honest(t)'
  BY <1>1, <1>2, <1>4 DEF Each, Proceeds, Resumes, Honest, Allocated, Pc
<1>9. TimersHeld'
  BY <1>1, <1>2, <1>4, TimersStay DEF CrashInv, TimersHeld, Interrupted
<1>10. toResume' \subseteq toResume
  BY <1>1
<1> QED
  BY <1>1, <1>2, <1>3, <1>4, <1>5, <1>6, <1>7, <1>8, <1>9, <1>10, OneStep, KeepsAddress DEF Each

\* The fields of an instance that could not be resumed.
LEMMA FailedToResume ==
  ASSUME NEW s \in Instance
  PROVE  LET q == [s EXCEPT !.fail_index = s.curr_index, !.fail_reason = "ERROR",
                            !.is_delay_destroying = TRUE]
         IN /\ q \in Instance /\ q.is_delay_destroying /\ q.fail_index = s.curr_index
            /\ q.addr = s.addr /\ q.type = s.type /\ q.coroutine_id = s.coroutine_id
            /\ q.timer_id = s.timer_id /\ q.curr_index = s.curr_index
            /\ q.is_complete = s.is_complete
<1> DEFINE a == [s EXCEPT !.fail_index = s.curr_index]
           b == [a EXCEPT !.fail_reason = "ERROR"]
           q == [b EXCEPT !.is_delay_destroying = TRUE]
<1>1. /\ a \in Instance /\ a.fail_index = s.curr_index
      /\ a.addr = s.addr /\ a.type = s.type /\ a.coroutine_id = s.coroutine_id
      /\ a.timer_id = s.timer_id /\ a.curr_index = s.curr_index /\ a.is_complete = s.is_complete
  BY DEF Instance
<1> HIDE DEF a
<1>2. /\ b \in Instance /\ b.fail_index = s.curr_index
      /\ b.addr = s.addr /\ b.type = s.type /\ b.coroutine_id = s.coroutine_id
      /\ b.timer_id = s.timer_id /\ b.curr_index = s.curr_index /\ b.is_complete = s.is_complete
  BY <1>1 DEF Instance
<1> HIDE DEF b
<1>3. q \in Instance /\ q.is_delay_destroying
  <2>1. q \in Instance
    BY <1>2 DEF Instance
  <2>2. q.is_delay_destroying = TRUE
    BY <1>2, Zenon DEF Instance
  <2> QED BY <2>1, <2>2
<1>4. /\ q.fail_index = b.fail_index /\ q.addr = b.addr /\ q.type = b.type
      /\ q.coroutine_id = b.coroutine_id /\ q.timer_id = b.timer_id
      /\ q.curr_index = b.curr_index /\ q.is_complete = b.is_complete
  BY <1>2 DEF Instance
<1> HIDE DEF q
<1>5. /\ q \in Instance /\ q.is_delay_destroying /\ q.fail_index = s.curr_index
      /\ q.addr = s.addr /\ q.type = s.type /\ q.coroutine_id = s.coroutine_id
      /\ q.timer_id = s.timer_id /\ q.curr_index = s.curr_index
      /\ q.is_complete = s.is_complete
  BY <1>2, <1>3, <1>4
<1> QED BY <1>5 DEF a, b, q

LEMMA RestartFailsStands ==
  ASSUME CrashInv, NEW t \in TranId, RestartFails(t)
  PROVE  CrashInv'
<1> DEFINE q == [inst[t] EXCEPT !.fail_index = inst[t].curr_index, !.fail_reason = "ERROR",
                                !.is_delay_destroying = TRUE]
<1>1. /\ Resuming(t, "lost") /\ ~CanRestart(t) /\ pc[t] = "lost"
      /\ inst' = [inst EXCEPT ![t] = q] /\ pc' = [pc EXCEPT ![t] = "exited"]
      /\ destroy_list' = destroy_list \cup {inst[t].addr} /\ trans_map' = trans_map \ {t}
      /\ toResume' = toResume \ {t}
      /\ UNCHANGED <<curr, coroutines, state, context, cpu, upd, pending, timers,
                     result, done, undone, alive, crashes>>
  BY DEF RestartFails, Resuming, schedVars, history
<1>2. /\ Each(t) /\ t # cpu /\ inst \in [TranId -> Instance] /\ pc \in [TranId -> Pc]
      /\ inst[t] \in Instance /\ SoundBooks /\ Sched!TypeOK
      /\ pc[t] \in Allocated \ {"exited"}
      /\ t \in coroutines => inst[t].coroutine_id = t /\ state[t] \notin {"READY", "SUSPEND"}
  BY <1>1, ResumedIsLost DEF CanRestart
<1>3. /\ q \in Instance /\ q.is_delay_destroying /\ q.fail_index = inst[t].curr_index
      /\ q.addr = inst[t].addr /\ q.type = inst[t].type
      /\ q.coroutine_id = inst[t].coroutine_id /\ q.curr_index = inst[t].curr_index
      /\ q.is_complete = inst[t].is_complete
  BY <1>2, FailedToResume
<1> HIDE DEF q
<1>4. inst'[t] = q /\ pc'[t] = "exited" /\ OnlyTouches(t)
  BY <1>1, <1>2 DEF OnlyTouches, OnlyChanges
<1>5. SoundBooks' /\ Sched!TypeOK'
  BY <1>1, <1>2, BooksUntouched
<1>6. TypeOK'
  <2>1. inst' \in [TranId -> Instance]
    BY <1>1, <1>2, <1>3
  <2>2. pc' \in [TranId -> Pc]
    BY <1>1, <1>2 DEF Pc
  <2>3. inst[t].addr \in Addr
    BY <1>2 DEF Each, Recorded
  <2> QED BY <1>1, <1>5, <2>1, <2>2, <2>3 DEF CrashInv, TypeOK
<1>7. ~(upd.handling /\ upd.at = inst[t].addr)
  BY <1>1, <1>2 DEF CrashInv, HandlesOne, Addresses, Allocated, Pc
<1>8. Stands(t)' /\ Reported(t)'
  <2>1. state[t] \notin {"READY", "SUSPEND"}
    BY <1>2 DEF Each, Stands
  <2> QED BY <1>1, <1>2, <1>3, <1>4, <1>7, <2>1
          DEF Each, Stands, Mapped, Begun, Executing, Running, Interrupted, Reported
<1>9. Recorded(t)'
  BY <1>1, <1>2, <1>3, <1>4 DEF Each, Recorded, Allocated, Pc
<1>10. Waits(t)' /\ pc'[t] \notin Interrupted
  BY <1>4 DEF Waits, Interrupted
<1>11. Proceeds(t)'
  <2>1. Len(done[t]) \in Nat /\ inst[t].curr_index \in Nat \cup {Null}
    BY <1>2 DEF CrashInv, TypeOK, Instance
  <2> QED BY <1>1, <1>2, <1>3, <1>4, <2>1, NullIsNoIndex DEF Each, Proceeds, Resumes
<1>12. Honest(t)'
  <2>1. result'[t] = "none"
    BY <1>1, <1>2 DEF Each, Reported
  <2>2. "complete" \notin AppDoes => ~inst[t].is_complete
    BY <1>1, <1>2 DEF Each, Honest
  <2> QED BY <1>3, <1>4, <2>1, <2>2 DEF Honest
<1>13. TimersHeld'
  BY <1>1, <1>4, TimersStay DEF Interrupted
<1>14. toResume' \subseteq toResume
  BY <1>1
<1> QED
  BY <1>1, <1>2, <1>3, <1>4, <1>5, <1>6, <1>8, <1>9, <1>10, <1>11, <1>12, <1>13, <1>14, EndStep
     DEF Each

LEMMA ResumeStepStands ==
  ASSUME CrashInv, NEW t \in TranId, ResumeStep(t)
  PROVE  CrashInv'
BY RestartCoroutineStands, ReenterStands, RestartFailsStands DEF ResumeStep

\* The scheduler's Resume: only main is left to execute, and nothing is saved.
LEMMA SchedulerRestarts ==
  ASSUME SoundBooks, Sched!TypeOK, SchedResume
  PROVE  /\ cpu' = Main /\ coroutines' = coroutines
         /\ \A u \in TranId : state'[u] = state[u]
         /\ SoundBooks' /\ Sched!TypeOK'
<1>1. /\ cpu' = Main /\ curr' = Main /\ coroutines' = coroutines
      /\ state' = [state EXCEPT ![Main] = "RUN"]
      /\ context' = [r \in TranId \cup {Main} |-> Null]
      /\ state \in [TranId \cup {Main} -> Sched!State] /\ coroutines \subseteq TranId
  BY DEF SchedResume, RestartMainRoutine, Sched!TypeOK, Sched!Routine
<1>2. /\ state' \in [TranId \cup {Main} -> Sched!State] /\ state'[Main] = "RUN"
      /\ \A u \in TranId : state'[u] = state[u]
  BY <1>1, EngineAssumption DEF Sched!State
<1>3. context' \in [TranId \cup {Main} -> TranId \cup {Main, Null}]
  BY <1>1
<1> QED BY <1>1, <1>2, <1>3 DEF SoundBooks, Sched!TypeOK, Sched!Routine, Sched!State

\* What the crash leaves of one transaction.
LEMMA RestartLeaves ==
  ASSUME CrashInv, Restart, NEW t \in TranId
  PROVE  /\ Each(t) /\ pc[t] \in Pc
         /\ IF pc[t] \in Mapped \cup Interrupted
            THEN t \in trans_map /\ t \in toResume' /\ pc'[t] = "lost"
            ELSE t \notin trans_map /\ t \notin toResume' /\ pc'[t] = pc[t]
         /\ pc[t] \in Mapped \cup Interrupted \cup {"none", "exited", "released", "failed"}
         /\ pending'[t] = NoEvents /\ state'[t] = state[t] /\ cpu' = Main /\ cpu' # t
         /\ UNCHANGED <<trans_map, destroy_list, upd, inst, timers, result, done, undone, crashes,
                        coroutines>>
         /\ crashes > 0
<1>1. /\ pc \in [TranId -> Pc] /\ Each(t) /\ SoundBooks /\ Sched!TypeOK
      /\ crashes > 0
  BY DEF CrashInv, TypeOK, Process, Restart
<1>2. /\ pc'[t] = IF t \in trans_map THEN "lost" ELSE pc[t]
      /\ pending'[t] = NoEvents /\ toResume' = trans_map
      /\ UNCHANGED <<trans_map, destroy_list, upd, inst, timers, result, done, undone, crashes>>
  BY <1>1 DEF Restart, mgrVars, history
<1>3. cpu' = Main /\ coroutines' = coroutines /\ state'[t] = state[t] /\ cpu' # t
  BY <1>1, SchedulerRestarts, EngineAssumption DEF Restart
<1>4. t \in trans_map <=> pc[t] \in Mapped \cup Interrupted
  BY <1>1 DEF Each, Stands
<1>5. pc[t] \in Mapped \cup Interrupted \cup {"none", "exited", "released", "failed"}
  BY <1>1 DEF Pc, Mapped, Interrupted
<1> QED BY <1>1, <1>2, <1>3, <1>4, <1>5

LEMMA RestartStandsFor ==
  ASSUME CrashInv, Restart, NEW t \in TranId
  PROVE  Each(t)'
<1>1. /\ Stands(t) /\ Recorded(t) /\ Reported(t) /\ Waits(t) /\ Proceeds(t) /\ Honest(t)
      /\ IF pc[t] \in Mapped \cup Interrupted
         THEN t \in trans_map /\ t \in toResume' /\ pc'[t] = "lost"
         ELSE t \notin trans_map /\ t \notin toResume' /\ pc'[t] = pc[t]
      /\ pc[t] \in Mapped \cup Interrupted \cup {"none", "exited", "released", "failed"}
      /\ pending'[t] = NoEvents /\ state'[t] = state[t] /\ cpu' # t
      /\ UNCHANGED <<trans_map, destroy_list, upd, inst, timers, result, done, undone, crashes,
                     coroutines>>
      /\ crashes > 0
  BY RestartLeaves DEF Each
<1>2. Resumes(t)' => pc[t] \in {"created", "suspended"} \/ Resumes(t)
  BY <1>1 DEF Resumes, Stands, Mapped, Interrupted
<1>3. Stands(t)'
  BY <1>1 DEF Stands, Mapped, Begun, Executing, Running, Interrupted
<1>4. Recorded(t)'
  BY <1>1 DEF Recorded, Allocated, Pc, Mapped, Interrupted, CmdsOf
<1>5. Reported(t)'
  BY <1>1 DEF Reported, Mapped, Interrupted
<1>6. pc'[t] \in Allocated \ {"exited"} => pc'[t] = "lost" /\ pc[t] \in Allocated \ {"exited"}
  BY <1>1 DEF Allocated, Pc, Mapped, Interrupted
<1>7. Waits(t)'
  BY <1>1, <1>2, <1>6 DEF Waits, CmdsOf
<1>8. Proceeds(t)'
  BY <1>1, <1>2, <1>6, NullIsNoIndex DEF Proceeds, Waits, Allocated, Pc, Mapped, Interrupted
<1>9. Honest(t)'
  BY <1>1 DEF Honest, Whole, CmdsOf, Mapped, Interrupted
<1> QED BY <1>1, <1>3, <1>4, <1>5, <1>7, <1>8, <1>9 DEF Each

LEMMA RestartStands ==
  ASSUME CrashInv, Restart
  PROVE  CrashInv'
<1>1. /\ UNCHANGED <<trans_map, destroy_list, upd, inst, timers, result, done, undone, crashes>>
      /\ pc' = [t \in TranId |-> IF t \in trans_map THEN "lost" ELSE pc[t]]
      /\ pending' = [t \in TranId |-> NoEvents]
      /\ toResume' = trans_map /\ SchedResume /\ ~alive
  BY DEF Restart, mgrVars, history
<1>2. TypeOK /\ Process /\ SoundBooks /\ Sched!TypeOK
  BY DEF CrashInv, TypeOK
<1>3. SoundBooks' /\ Sched!TypeOK'
  BY <1>1, <1>2, SchedulerRestarts
<1>4. TypeOK'
  <2>1. pc' \in [TranId -> Pc]
    BY <1>1, <1>2 DEF TypeOK, Pc
  <2>2. pending' \in [TranId -> [Event -> Nat]]
    BY <1>1 DEF NoEvents
  <2> QED BY <1>1, <1>2, <1>3, <2>1, <2>2 DEF TypeOK
<1>5. Process'
  <2>1. alive' \in BOOLEAN
    BY Zenon DEF Restart
  <2> QED BY <1>1, <1>2, <2>1 DEF Process, TypeOK
<1>6. ASSUME NEW t \in TranId
      PROVE  /\ pc'[t] \in Allocated => pc[t] \in Allocated
             /\ pc[t] = "exited" => pc'[t] = "exited"
             /\ pc[t] \in Interrupted \cup {"suspended"} => pc'[t] = "lost"
             /\ pc'[t] \in Interrupted => pc[t] \in Mapped \cup Interrupted
             /\ pc'[t] # "lost" => pc'[t] = pc[t]
  BY RestartLeaves DEF Allocated, Pc, Mapped, Interrupted
<1>7. Addresses'
  BY <1>1, <1>6 DEF CrashInv, Addresses
<1>8. UpdateMeetsLiveInstances'
  <2>1. Ahead' = Ahead
    BY <1>1 DEF Ahead
  <2> QED BY <1>1, <1>6, <2>1 DEF CrashInv, UpdateMeetsLiveInstances
<1>9. HandlesOne'
  <2>1. coroutines' = coroutines
    BY <1>1, <1>2, SchedulerRestarts
  <2> QED BY <1>1, <1>6, <2>1 DEF CrashInv, HandlesOne
<1>10. TimersHeld'
  <2>1. ASSUME NEW i \in TimerId, timers[i] # Null
        PROVE  /\ pc'[timers[i]] \in Interrupted \cup {"suspended", "exited", "released"}
               /\ pc'[timers[i]] \in Interrupted \cup {"suspended"} => inst[timers[i]].timer_id = i
    <3>1. timers[i] \in TranId
      BY <1>2, <2>1 DEF TypeOK
    <3>2. /\ pc[timers[i]] \in Interrupted \cup {"suspended", "exited", "released"}
          /\ pc[timers[i]] \in Interrupted \cup {"suspended"} => inst[timers[i]].timer_id = i
      BY <2>1 DEF CrashInv, TimersHeld
    <3>3. CASE pc[timers[i]] \in Interrupted \cup {"suspended"}
      BY <1>6, <3>1, <3>2, <3>3 DEF Interrupted
    <3>4. CASE pc[timers[i]] \in {"exited", "released"}
      <4>1. pc'[timers[i]] \in {"exited", "released"}
        BY <3>1, <3>4, RestartLeaves DEF Mapped, Interrupted
      <4> QED BY <4>1 DEF Interrupted
    <3> QED BY <3>2, <3>3, <3>4
  <2>2. ASSUME NEW u \in TranId, inst[u].timer_id # NoTimer, pc'[u] # "exited"
        PROVE  pc'[u] \in Interrupted \cup {"suspended"} /\ timers[inst[u].timer_id] = u
    <3>1. pc[u] \in Interrupted \cup {"suspended"} /\ timers[inst[u].timer_id] = u
      BY <1>6, <2>2 DEF CrashInv, TimersHeld
    <3> QED BY <1>6, <3>1 DEF Interrupted
  <2> QED BY <1>1, <2>1, <2>2 DEF CrashInv, TimersHeld
<1>11. \A t \in TranId : Each(t)'
  BY RestartStandsFor
<1> QED BY <1>3, <1>4, <1>5, <1>7, <1>8, <1>9, <1>10, <1>11 DEF CrashInv

-----------------------------------------------------------------------------
(* Update, in a program that may crash.                                    *)

\* As InstanceThere, where transactions may be interrupted.
LEMMA InstanceStands ==
  ASSUME CrashInv, NEW t \in TranId, pc[t] \in Allocated
  PROVE  InstAt(inst[t].addr) = t
<1>1. inst[t].addr \in Addr
  BY DEF CrashInv, Each, Recorded
<1>2. ASSUME NEW u \in TranId, inst[u].addr = inst[t].addr
      PROVE  u = t
  <2>1. pc[u] \in Allocated
    BY <1>1, <1>2, EngineAssumption DEF CrashInv, Each, Recorded, NoInstance
  <2> QED BY <1>2, <2>1 DEF CrashInv, Addresses
<1>3. \E u \in TranId : inst[u].addr = inst[t].addr
  OBVIOUS
<1>4. InstAt(inst[t].addr) \in TranId /\ inst[InstAt(inst[t].addr)].addr = inst[t].addr
  BY <1>3 DEF InstAt
<1> QED BY <1>2, <1>4

\* The fields that a report looks at are not touched when the coroutine goes.
LEMMA ReportedLike ==
  ASSUME NEW s \in Instance
  PROVE  LET r == [s EXCEPT !.coroutine_id = NoCo]
         IN /\ r.fail_index = s.fail_index /\ r.fail_reason = s.fail_reason
            /\ r.curr_index = s.curr_index /\ r.is_complete = s.is_complete
BY DEF Instance

LEMMA TakesNextStands ==
  ASSUME CrashInv, UpdateTakesNext, UNCHANGED crashVars
  PROVE  CrashInv'
<1>1. PICK a \in Ahead :
        LET t == InstAt(a)
        IN /\ \A b \in Ahead : a <= b
           /\ IF inst[t].coroutine_id # NoCo
              THEN Sched!DestroyWorkRoutine(inst[t].coroutine_id)
              ELSE UNCHANGED schedVars
           /\ inst' = [inst EXCEPT ![t].coroutine_id = NoCo]
           /\ result' = [result EXCEPT ![t] = Outcome(inst[t])]
           /\ upd' = [at |-> a, handling |-> TRUE]
  BY DEF UpdateTakesNext
<1>2. PICK t \in TranId : inst[t].addr = a /\ pc[t] = "exited"
  BY DEF CrashInv, UpdateMeetsLiveInstances
<1>3. InstAt(a) = t /\ pc[t] \in Allocated
  BY <1>2, InstanceStands DEF Allocated, Pc
<1>4. /\ inst \in [TranId -> Instance] /\ pc \in [TranId -> Pc] /\ destroy_list \subseteq Addr
      /\ result \in [TranId -> {"none", "success", "fail", "abort"}] /\ upd.at \in Nat
      /\ a \in Addr /\ a \in destroy_list /\ a > upd.at /\ Addr \subseteq Nat
  <2>1. TypeOK /\ a \in destroy_list /\ a > upd.at
    BY DEF CrashInv, Ahead
  <2>2. upd \in [at : Addr \cup {0}, handling : BOOLEAN] /\ Addr \subseteq Nat
    BY <2>1, EngineAssumption DEF TypeOK
  <2>3. upd.at \in Addr \cup {0}
    BY <2>2
  <2>4. /\ inst \in [TranId -> Instance] /\ pc \in [TranId -> Pc] /\ destroy_list \subseteq Addr
        /\ result \in [TranId -> {"none", "success", "fail", "abort"}]
    BY <2>1 DEF TypeOK
  <2>5. upd.at \in Nat
    <3>1. CASE upd.at = 0
      BY <3>1
    <3>2. CASE upd.at \in Addr
      BY <3>2, EngineAssumption
    <3> QED BY <2>3, <3>1, <3>2
  <2> QED BY <2>1, <2>2, <2>4, <2>5
<1>5. /\ cpu = Main /\ ~upd.handling /\ curr = Main
      /\ UNCHANGED <<trans_map, destroy_list, pc, pending, timers, done, undone,
                     alive, toResume, crashes>>
  BY DEF UpdateTakesNext, crashVars, CrashInv, SoundBooks
<1> DEFINE r == [inst[t] EXCEPT !.coroutine_id = NoCo]
<1>6. /\ inst' = [inst EXCEPT ![t] = r]
      /\ result' = [result EXCEPT ![t] = Outcome(inst[t])]
      /\ upd' = [at |-> a, handling |-> TRUE]
  BY <1>1, <1>3
<1>7. /\ r \in Instance /\ r.coroutine_id = NoCo /\ r.timer_id = inst[t].timer_id
      /\ r.addr = a /\ r.type = inst[t].type /\ r.is_delay_destroying = inst[t].is_delay_destroying
      /\ r.fail_index = inst[t].fail_index /\ r.fail_reason = inst[t].fail_reason
      /\ r.curr_index = inst[t].curr_index /\ r.is_complete = inst[t].is_complete
  <2>1. inst[t] \in Instance
    BY <1>4
  <2> HIDE DEF r
  <2> QED BY <1>2, <2>1, ForgetsCoroutine, ReportedLike DEF r
<1> HIDE DEF r
<1>8. Each(t) /\ cpu # t /\ SoundBooks /\ Sched!TypeOK
  BY <1>5, EngineAssumption DEF CrashInv, TypeOK
<1>9. /\ cpu' = cpu /\ t \notin coroutines' /\ state'[t] = "UNINIT"
      /\ \A u \in TranId : u # t => /\ u \in coroutines' <=> u \in coroutines
                                    /\ state'[u] = state[u] /\ context'[u] = context[u]
      /\ SoundBooks' /\ Sched!TypeOK'
  <2>1. CASE t \in coroutines
    <3>1. Sched!DestroyWorkRoutine(t)
      BY <1>1, <1>3, <1>8, <2>1, EngineAssumption DEF Each, Recorded, NoCo
    <3> QED BY <1>8, <3>1, Removes
  <2>2. CASE t \notin coroutines
    <3>1. UNCHANGED <<curr, coroutines, state, context, cpu>>
      BY <1>1, <1>3, <1>8, <2>2 DEF Each, Recorded, schedVars
    <3>2. SoundBooks' /\ Sched!TypeOK'
      BY <1>8, <3>1, BooksUntouched
    <3>3. state[t] = "UNINIT"
      BY <1>8, <2>2 DEF Each, Stands
    <3> QED BY <2>2, <3>1, <3>2, <3>3
  <2> QED BY <2>1, <2>2
<1>10. inst'[t] = r /\ result'[t] = Outcome(inst[t]) /\ OnlyTouches(t)
  BY <1>4, <1>5, <1>6, <1>8, <1>9 DEF OnlyTouches, OnlyChanges
<1>11. /\ Outcome(inst[t]) \in {"success", "abort", "fail"}
       /\ Outcome(inst[t]) = "success" => inst[t].is_complete
  BY <1>5 DEF Outcome
<1>12. TypeOK'
  <2>1. inst' \in [TranId -> Instance]
    BY <1>4, <1>6, <1>7
  <2>2. result' \in [TranId -> {"none", "success", "fail", "abort"}]
    BY <1>4, <1>6, <1>11
  <2>3. upd' \in [at : Addr \cup {0}, handling : BOOLEAN]
    BY <1>4, <1>6
  <2> QED BY <1>5, <1>9, <2>1, <2>2, <2>3 DEF CrashInv, TypeOK
<1>13. Each(t)'
  <2>1. Stands(t)'
    BY <1>2, <1>5, <1>8, <1>9
       DEF Each, Stands, Mapped, Begun, Executing, Running, Interrupted
  <2>2. Recorded(t)'
    BY <1>2, <1>4, <1>5, <1>7, <1>8, <1>9, <1>10 DEF Each, Recorded, Allocated, Pc
  <2>3. Reported(t)'
    BY <1>2, <1>5, <1>6, <1>7, <1>10, <1>11 DEF Reported
  <2>4. Waits(t)' /\ pc'[t] \notin Interrupted
    BY <1>2, <1>5 DEF Waits, Interrupted
  <2>5. Proceeds(t)'
    BY <1>2, <1>5, <1>7, <1>8, <1>10 DEF Each, Proceeds, Resumes
  <2>6. Honest(t)'
    BY <1>2, <1>5, <1>7, <1>8, <1>10, <1>11 DEF Each, Honest, Whole, IsFailed, CmdsOf
  <2> QED BY <2>1, <2>2, <2>3, <2>4, <2>5, <2>6 DEF Each
<1>14. ASSUME NEW u \in TranId PROVE Each(u)'
  <2>1. CASE u = t
    BY <1>13, <2>1
  <2>2. CASE u # t
    <3>1. pc[u] = "exited" => inst[u].addr # a
      BY <1>2, <1>3, <2>2 DEF CrashInv, Addresses, Allocated, Pc
    <3>2. Reported(u)'
      BY <1>5, <1>6, <1>10, <2>2, <3>1 DEF CrashInv, Each, Reported, OnlyTouches, OnlyChanges
    <3>3. Each(u) /\ u \in TranId \ {t}
      BY <2>2 DEF CrashInv
    <3>4. /\ Stands(u)' /\ (pc'[u] \in Interrupted => crashes' > 0) /\ Recorded(u)'
          /\ Waits(u)' /\ Proceeds(u)' /\ Honest(u)'
      BY <1>10, <3>3, OthersKeepTheRest
    <3> QED BY <3>2, <3>4 DEF Each
  <2> QED BY <2>1, <2>2
<1>15. TimersHeld'
  <2>1. pc'[t] = "exited"
    BY <1>2, <1>5
  <2> QED BY <1>5, <1>10, <2>1, TimersStay DEF Interrupted
<1>16. Addresses'
  BY <1>2, <1>5, <1>7, <1>10 DEF CrashInv, Addresses, OnlyTouches, OnlyChanges
<1>17. UpdateMeetsLiveInstances'
  <2>1. \A x \in Ahead' : x \in Ahead
    <3>1. ASSUME NEW x \in Ahead' PROVE x \in destroy_list /\ x > a
      BY <1>5, <1>6 DEF Ahead
    <3>2. ASSUME NEW x \in destroy_list, x > a PROVE x > upd.at
      BY <1>4, <3>2
    <3> QED BY <3>1, <3>2 DEF Ahead
  <2>2. \A u \in TranId : inst'[u].addr = inst[u].addr
    BY <1>2, <1>7, <1>10 DEF OnlyTouches, OnlyChanges
  <2> QED BY <1>5, <2>1, <2>2 DEF CrashInv, UpdateMeetsLiveInstances
<1>18. HandlesOne'
  BY <1>2, <1>5, <1>6, <1>7, <1>9, <1>10 DEF HandlesOne
<1>19. Process'
  BY <1>5 DEF CrashInv, Process
<1> QED BY <1>9, <1>12, <1>14, <1>15, <1>16, <1>17, <1>18, <1>19 DEF CrashInv

\* Undo is called on some of the commands done, the first so many, last first.
LEMMA UndoesWhatWasDone ==
  ASSUME CrashInv, NEW t \in TranId
  PROVE  /\ UndoList(t) \in Seq(Nat)
         /\ \E n \in 0..Len(done[t]) : UndoList(t) = LastFirst(done[t], n)
<1> DEFINE last == inst[t].fail_index
<1>1. /\ done[t] \in Seq(Nat) /\ Len(done[t]) \in Nat /\ last \in Nat \cup {Null}
      /\ \A k \in 1..Len(done[t]) : done[t][k] = k - 1
      /\ last # Null => last <= Len(done[t])
  BY DEF CrashInv, TypeOK, Instance, Each, Proceeds
<1>2. CASE result[t] \in {"fail", "abort"} /\ NeedUndo[inst[t].type] /\ last # Null
  <2>1. last \in Nat /\ last \in 0..Len(done[t])
    BY <1>1, <1>2
  <2>2. [k \in 1..last |-> last - k] = LastFirst(done[t], last)
    <3>1. ASSUME NEW k \in 1..last PROVE last - k = done[t][last + 1 - k]
      <4>1. last + 1 - k \in 1..Len(done[t])
        BY <1>1, <2>1, <3>1
      <4> QED BY <1>1, <2>1, <3>1, <4>1
    <3> QED BY <3>1 DEF LastFirst
  <2>3. [k \in 1..last |-> last - k] \in Seq(Nat)
    BY <2>1
  <2>4. UndoList(t) = [k \in 1..last |-> last - k]
    BY <1>2 DEF UndoList
  <2> QED BY <2>1, <2>2, <2>3, <2>4
<1>3. CASE ~(result[t] \in {"fail", "abort"} /\ NeedUndo[inst[t].type] /\ last # Null)
  <2>1. UndoList(t) = <<>>
    BY <1>3 DEF UndoList
  <2>2. LastFirst(done[t], 0) = <<>> /\ 0 \in 0..Len(done[t])
    BY <1>1 DEF LastFirst
  <2> QED BY <2>1, <2>2
<1> QED BY <1>2, <1>3

LEMMA ReleasesStands ==
  ASSUME CrashInv, UpdateReleases, UNCHANGED crashVars
  PROVE  CrashInv'
<1>1. PICK t \in TranId : inst[t].addr = upd.at /\ pc[t] = "exited" /\ t \notin coroutines
  BY DEF CrashInv, HandlesOne, UpdateReleases
<1>2. InstAt(upd.at) = t /\ pc[t] \in Allocated
  BY <1>1, InstanceStands DEF Allocated, Pc
<1>3. /\ cpu = Main /\ upd.handling
      /\ undone' = [undone EXCEPT ![t] = undone[t] \o UndoList(t)]
      /\ inst' = [inst EXCEPT ![t] = NoInstance]
      /\ pc' = [pc EXCEPT ![t] = "released"]
      /\ upd' = [upd EXCEPT !.handling = FALSE]
      /\ UNCHANGED <<curr, coroutines, state, context, cpu, trans_map, destroy_list, pending, timers,
                     result, done, alive, toResume, crashes>>
  BY <1>2 DEF UpdateReleases, schedVars, crashVars
<1>4. /\ inst \in [TranId -> Instance] /\ pc \in [TranId -> Pc] /\ undone \in [TranId -> Seq(Nat)]
      /\ upd \in [at : Addr \cup {0}, handling : BOOLEAN] /\ Each(t) /\ SoundBooks /\ Sched!TypeOK
      /\ cpu # t
  BY <1>3, EngineAssumption DEF CrashInv, TypeOK
<1>5. /\ UndoList(t) \in Seq(Nat) /\ undone[t] = <<>>
      /\ \E n \in 0..Len(done[t]) : UndoList(t) = LastFirst(done[t], n)
  BY <1>1, <1>4, UndoesWhatWasDone DEF Each, Proceeds
<1>6. undone' = [undone EXCEPT ![t] = UndoList(t)]
  <2>1. undone[t] \o UndoList(t) = UndoList(t)
    <3> HIDE DEF UndoList
    <3> QED BY <1>5
  <2> QED BY <1>3, <2>1
<1>7. /\ inst'[t] = NoInstance /\ pc'[t] = "released" /\ upd'.at = upd.at /\ ~upd'.handling
      /\ undone'[t] = UndoList(t) /\ OnlyTouches(t)
  <2>1. inst'[t] = NoInstance /\ pc'[t] = "released" /\ upd'.at = upd.at /\ ~upd'.handling
    BY <1>3, <1>4
  <2>2. undone'[t] = UndoList(t) /\ \A u \in TranId \ {t} : undone'[u] = undone[u]
    BY <1>4, <1>6
  <2>3. OnlyTouches(t)
    BY <1>3, <1>4, <2>2 DEF OnlyTouches, OnlyChanges
  <2> QED BY <2>1, <2>2, <2>3
<1>8. /\ NoInstance \in Instance /\ NoInstance.timer_id = NoTimer /\ NoInstance.addr = 0
      /\ NoInstance.coroutine_id = NoCo /\ ~NoInstance.is_delay_destroying
      /\ ~NoInstance.is_complete /\ NoInstance.fail_index = Null
  BY DEF NoInstance, Instance, NoEvents, NoCo, NoTimer, DefaultEvent
<1>9. SoundBooks' /\ Sched!TypeOK'
  BY <1>3, <1>4, BooksUntouched
<1>10. TypeOK'
  <2>1. inst' \in [TranId -> Instance] /\ pc' \in [TranId -> Pc]
    BY <1>3, <1>4, <1>8 DEF Pc
  <2>2. upd' \in [at : Addr \cup {0}, handling : BOOLEAN]
    BY <1>3, <1>4
  <2>3. undone' \in [TranId -> Seq(Nat)]
    <3> HIDE DEF UndoList
    <3> QED BY <1>4, <1>5, <1>6
  <2> QED BY <1>3, <1>9, <2>1, <2>2, <2>3 DEF CrashInv, TypeOK
<1>11. Each(t)'
  <2>1. Stands(t)'
    BY <1>1, <1>3, <1>4, <1>7
       DEF Each, Stands, Mapped, Begun, Executing, Running, Interrupted
  <2>2. Recorded(t)' /\ Reported(t)'
    BY <1>1, <1>3, <1>4, <1>7, <1>8 DEF Each, Recorded, Reported, Allocated
  <2>3. Waits(t)' /\ Honest(t)' /\ pc'[t] \notin Interrupted
    BY <1>7, <1>8 DEF Waits, Honest, Interrupted, Allocated
  <2>4. Proceeds(t)'
    <3> HIDE DEF UndoList
    <3> QED BY <1>3, <1>4, <1>5, <1>7, <1>8 DEF Each, Proceeds, Resumes, Allocated
  <2> QED BY <2>1, <2>2, <2>3, <2>4 DEF Each
<1>12. ASSUME NEW u \in TranId PROVE Each(u)'
  <2>1. CASE u = t
    BY <1>11, <2>1
  <2>2. CASE u # t
    <3>1. pc[u] = "exited" => inst[u].addr # upd.at
      BY <1>1, <1>2, <2>2 DEF CrashInv, Addresses, Allocated, Pc
    <3>2. Reported(u)'
      BY <1>3, <1>7, <2>2, <3>1 DEF CrashInv, Each, Reported, OnlyTouches, OnlyChanges
    <3>3. Each(u) /\ u \in TranId \ {t}
      BY <2>2 DEF CrashInv
    <3>4. /\ Stands(u)' /\ (pc'[u] \in Interrupted => crashes' > 0) /\ Recorded(u)'
          /\ Waits(u)' /\ Proceeds(u)' /\ Honest(u)'
      BY <1>7, <3>3, OthersKeepTheRest
    <3> QED BY <3>2, <3>4 DEF Each
  <2> QED BY <2>1, <2>2
<1>13. TimersHeld'
  BY <1>3, <1>7, <1>8, TimersStay DEF Interrupted
<1>14. Addresses'
  BY <1>7 DEF CrashInv, Addresses, OnlyTouches, OnlyChanges, Allocated
<1>15. UpdateMeetsLiveInstances'
  <2>1. ASSUME NEW x \in Ahead'
        PROVE  \E u \in TranId : inst'[u].addr = x /\ pc'[u] = "exited"
    <3>1. x \in Ahead /\ x # upd.at
      BY <1>3, <1>7, EngineAssumption DEF CrashInv, TypeOK, Ahead
    <3>2. PICK u \in TranId : inst[u].addr = x /\ pc[u] = "exited"
      BY <3>1 DEF CrashInv, UpdateMeetsLiveInstances
    <3>3. u # t
      BY <1>1, <3>1, <3>2
    <3> QED BY <1>7, <3>2, <3>3 DEF OnlyTouches, OnlyChanges
  <2> QED BY <2>1 DEF UpdateMeetsLiveInstances
<1>16. HandlesOne' /\ Process'
  BY <1>3, <1>7 DEF HandlesOne, CrashInv, Process
<1> QED BY <1>9, <1>10, <1>12, <1>13, <1>14, <1>15, <1>16 DEF CrashInv

LEMMA UpdateStepStands ==
  ASSUME CrashInv, UpdateStep, UNCHANGED crashVars
  PROVE  CrashInv'
<1>1. CASE UpdateEnds
  <2>1. /\ ~upd.handling /\ destroy_list' = {} /\ upd' = [at |-> 0, handling |-> FALSE]
        /\ UNCHANGED <<curr, coroutines, state, context, cpu, trans_map, inst, pc, pending, timers,
                       result, done, undone, alive, toResume, crashes>>
    BY <1>1 DEF UpdateEnds, schedVars, history, crashVars
  <2>2. SoundBooks' /\ Sched!TypeOK'
    BY <2>1, BooksUntouched DEF CrashInv, TypeOK
  <2>3. TypeOK'
    BY <2>1, <2>2 DEF CrashInv, TypeOK
  <2>4. ASSUME NEW u \in TranId PROVE Each(u)'
    <3>1. Each(u)
      BY DEF CrashInv
    <3>2. Reported(u)'
      BY <2>1, <3>1 DEF Each, Reported
    <3>3. Stands(u)' /\ Recorded(u)' /\ Waits(u)' /\ (pc'[u] \in Interrupted => crashes' > 0)
      BY <2>1, <3>1 DEF Each, Stands, Recorded, Waits, Resumes, CmdsOf
    <3>4. Proceeds(u)' /\ Honest(u)'
      BY <2>1, <3>1 DEF Each, Proceeds, Resumes, Honest, Whole, CmdsOf
    <3> QED BY <3>2, <3>3, <3>4 DEF Each
  <2>5. TimersHeld' /\ Addresses' /\ Process'
    BY <2>1 DEF CrashInv, TimersHeld, Addresses, Process
  <2>6. UpdateMeetsLiveInstances' /\ HandlesOne'
    BY <2>1 DEF UpdateMeetsLiveInstances, Ahead, HandlesOne
  <2> QED BY <2>2, <2>3, <2>4, <2>5, <2>6 DEF CrashInv
<1> QED BY <1>1, TakesNextStands, ReleasesStands DEF UpdateStep

-----------------------------------------------------------------------------
(* All steps, and what follows.                                            *)

LEMMA CrashInvKept == CrashInv /\ [ResumeNext]_resumeVars => CrashInv'
<1> SUFFICES ASSUME CrashInv, [ResumeNext]_resumeVars
             PROVE  CrashInv'
  OBVIOUS
<1>1. CASE Crash \/ UNCHANGED resumeVars
  BY <1>1, CrashIsQuiet
<1>2. CASE Restart
  BY <1>2, RestartStands
<1>3. ASSUME NEW t \in TranId, ResumeStep(t) \/ InCoroutine(t) PROVE CrashInv'
  BY <1>3, ResumeStepStands, InCoroutineStands
<1>4. ASSUME NEW t \in TranId, Engine(StartStep(t)) PROVE CrashInv'
  BY <1>4, StartStepStands DEF Engine
<1>5. ASSUME NEW t \in TranId, Engine(AppStep(t)) PROVE CrashInv'
  BY <1>5, AppStepStands
<1>6. ASSUME NEW i \in TimerId, Engine(TimerFires(i)) PROVE CrashInv'
  BY <1>6, TimerFiresStands
<1>7. CASE Engine(UpdateStep)
  BY <1>7, UpdateStepStands DEF Engine
<1>8. CASE Engine(AllOver)
  BY <1>8, CrashIsQuiet DEF Engine, AllOver, resumeVars
<1> QED BY <1>1, <1>2, <1>3, <1>4, <1>5, <1>6, <1>7, <1>8 DEF ResumeNext

\* In every reachable state, whatever crashes and restarts there were.
LEMMA CrashInvariant == ResumeSpec => []CrashInv
BY ResumeInitEstablishes, CrashInvKept, PTL DEF ResumeSpec

\* However often the process crashes and resumes, all variables of the engine
\* keep their types.
THEOREM ResumeTypeCorrect == ResumeSpec => []TypeOK
<1>1. CrashInv => TypeOK
  BY DEF CrashInv
<1> QED BY <1>1, CrashInvariant, PTL

\* No crash makes a command be done twice or be passed over, and Undo is called
\* only on commands that were done, once each, last first.
THEOREM CommandsAreDoneOnce == ResumeSpec => []CommandsDoneOnce
<1>1. CrashInv => CommandsDoneOnce
  <2> SUFFICES ASSUME CrashInv, NEW t \in TranId
               PROVE  /\ done[t] = [k \in 1..Len(done[t]) |-> k - 1]
                      /\ \E n \in 0..Len(done[t]) : undone[t] = LastFirst(done[t], n)
    BY DEF CommandsDoneOnce
  <2>1. done[t] \in Seq(Nat) /\ Proceeds(t)
    BY DEF CrashInv, TypeOK, Each
  <2>2. done[t] = [k \in 1..Len(done[t]) |-> done[t][k]]
    BY <2>1
  <2>3. done[t] = [k \in 1..Len(done[t]) |-> k - 1]
    BY <2>1, <2>2 DEF Proceeds
  <2>4. LastFirst(done[t], 0) = <<>> /\ 0 \in 0..Len(done[t])
    BY <2>1 DEF LastFirst
  <2>5. \E n \in 0..Len(done[t]) : undone[t] = LastFirst(done[t], n)
    BY <2>1, <2>4 DEF Proceeds
  <2> QED BY <2>3, <2>5
<1> QED BY <1>1, CrashInvariant, PTL

\* Once every instance is resumed, whatever a swap may enter has a context on a
\* stack of this process, whatever the application does.
LEMMA ResumedHaveContexts ==
  ASSUME CrashInv, toResume = {}
  PROVE  Sched!ContextsResumable
<1>1. ASSUME NEW c \in TranId, c \in coroutines, state[c] \in {"READY", "SUSPEND"}
      PROVE  context[c] = c
  <2>1. Each(c)
    BY DEF CrashInv
  <2> QED BY <1>1, <2>1 DEF Each, Stands
<1>2. /\ state[Main] \in {"READY", "SUSPEND"} => context[Main] = Main
      /\ cpu # Main => state[Main] = "SUSPEND"
  BY DEF CrashInv, SoundBooks
<1>3. \A c \in TranId : state[c] \in {"READY", "SUSPEND"} => c \in coroutines
  BY DEF CrashInv, Each, Stands
<1> QED BY <1>1, <1>2, <1>3 DEF Sched!ContextsResumable, Sched!Resumable, Sched!Routine

\* Where every message is one that its receiver awaits and comes from main, a
\* program that has resumed its instances can wake every one that waits: its
\* context is of this process, its timer lives, and events_ admits no more than
\* what the command still awaits.
THEOREM ResumedWaitsCanEnd ==
  ASSUME {"stray", "peer"} \cap AppDoes = {}
  PROVE  ResumeSpec => []ResumedCanBeWoken
<1>1. CrashInv => ResumedCanBeWoken
  <2> SUFFICES ASSUME CrashInv, toResume = {}
               PROVE  /\ Sched!ContextsResumable
                      /\ \A t \in TranId : pc[t] = "suspended" =>
                           /\ t \in trans_map /\ state[inst[t].coroutine_id] = "SUSPEND"
                           /\ \E i \in TimerId : timers[i] = t
                           /\ inst[t].events # NoEvents
                           /\ \A e \in Event : inst[t].events[e] <= pending[t][e]
    BY DEF ResumedCanBeWoken
  <2>1. Sched!ContextsResumable
    BY ResumedHaveContexts
  <2>2. ASSUME NEW t \in TranId, pc[t] = "suspended"
        PROVE  /\ t \in trans_map /\ state[inst[t].coroutine_id] = "SUSPEND"
               /\ \E i \in TimerId : timers[i] = t
               /\ inst[t].events # NoEvents
               /\ \A e \in Event : inst[t].events[e] <= pending[t][e]
    <3>1. Each(t) /\ inst[t] \in Instance /\ pc[t] \in Allocated \ {"exited"}
      BY <2>2 DEF CrashInv, TypeOK, Allocated, Pc
    <3>2. t \in trans_map /\ state[t] = "SUSPEND" /\ inst[t].coroutine_id = t
      BY <2>2, <3>1 DEF Each, Stands, Recorded, Mapped, Begun
    <3>3. /\ inst[t].timer_id # NoTimer /\ inst[t].events # NoEvents
          /\ Within(inst[t].events, pending[t])
      BY <2>2, <3>1 DEF Each, Waits
    <3>4. inst[t].timer_id \in TimerId /\ timers[inst[t].timer_id] = t
      BY <2>2, <3>1, <3>3 DEF CrashInv, TimersHeld, Instance
    <3> QED BY <3>2, <3>3, <3>4 DEF Within
  <2> QED BY <2>1, <2>2
<1> QED BY <1>1, CrashInvariant, PTL

\* Where no callback completes a transaction early, a success that is reported
\* is one of all commands; or a crash came before the coroutine was entered.
THEOREM ResumedSuccessIsHonest ==
  ASSUME "complete" \notin AppDoes
  PROVE  ResumeSpec => []ResumedSuccess
<1>1. CrashInv => ResumedSuccess
  <2> SUFFICES ASSUME CrashInv, NEW t \in TranId,
                      upd = [at |-> inst[t].addr, handling |-> TRUE], result[t] = "success"
               PROVE  /\ ~IsFailed(inst[t])
                      /\ \/ Len(done[t]) = Len(CmdsOf(t))
                         \/ crashes > 0 /\ inst[t].curr_index = Null
    BY DEF ResumedSuccess
  <2>1. upd.handling /\ upd.at = inst[t].addr
    OBVIOUS
  <2>2. PICK u \in TranId : inst[u].addr = upd.at /\ pc[u] = "exited"
    BY <2>1 DEF CrashInv, HandlesOne
  <2>3. pc[u] \in Allocated /\ inst[t].addr \in Addr
    BY <2>1, <2>2 DEF CrashInv, Each, Recorded, Allocated, Pc
  <2>4. pc[t] \in Allocated
    BY <2>3, EngineAssumption DEF CrashInv, Each, Recorded, NoInstance
  <2>5. pc[t] = "exited"
    BY <2>1, <2>2, <2>3, <2>4 DEF CrashInv, Addresses
  <2>6. Honest(t)
    BY DEF CrashInv, Each
  <2> QED BY <2>5, <2>6 DEF Honest, Whole
<1> QED BY <1>1, CrashInvariant, PTL

\* Whatever an application does: once every instance is resumed, each coroutine
\* that a swap would enter has a context on a stack of this process.
THEOREM ResumedContextsAreOwn ==
  ResumeSpec => [](toResume = {} => Sched!ContextsResumable)
<1>1. CrashInv => (toResume = {} => Sched!ContextsResumable)
  BY ResumedHaveContexts
<1> QED BY <1>1, CrashInvariant, PTL

\* What Update's iterator has yet to reach are finished instances, also of those
\* that a failed resume put into destroy_list_.
THEOREM UpdateIsSafeAfterCrashes == ResumeSpec => []UpdateMeetsLiveInstances
<1>1. CrashInv => UpdateMeetsLiveInstances
  BY DEF CrashInv
<1> QED BY <1>1, CrashInvariant, PTL

\* The outcome is reported at one point only, crashes or not.
LEMMA OnlyUpdateReports ==
  ASSUME [ResumeNext]_resumeVars
  PROVE  result' = result \/ (UpdateTakesNext /\ UNCHANGED crashVars)
<1>1. ASSUME NEW u \in TranId, Engine(StartStep(u)) PROVE result' = result
  BY <1>1 DEF Engine, StartStep, CreateCoroutine, CreateCoroutineFails, EnterCoroutine,
              EnterCoroutineFails, GiveUpStart, history
<1>2. ASSUME NEW u \in TranId, InCoroutine(u) PROVE result' = result
  <2>1. ASSUME NEW r, NEW err, CommandReturned(u, r, err) PROVE result' = result
    BY <2>1 DEF CommandReturned
  <2>2. ASSUME NEW r, NEW events, WaitForEvent(u, r, events) PROVE result' = result
    BY <2>1, <2>2 DEF WaitForEvent, Suspend, history
  <2>3. CASE CoroutineStep(u)
    BY <2>1, <2>2, <2>3
       DEF CoroutineStep, OnStart, Do, OnRecvMsgEvent, OnAbortEvent, OnTimeout, Exit, history
  <2>4. ASSUME NEW r, NEW err, WaitedFor(u, r, err) PROVE result' = result
    BY <2>4 DEF WaitedFor
  <2>5. ASSUME NEW r, NEW events, WaitAgain(u, r, events) PROVE result' = result
    BY <2>4, <2>5 DEF WaitAgain, Suspend, history
  <2>6. CASE RealResume(u)
    BY <2>5, <2>6 DEF RealResume, history
  <2>7. CASE WokenAgain(u)
    BY <2>4, <2>5, <2>7 DEF WokenAgain
  <2> QED BY <1>2, <2>3, <2>6, <2>7 DEF InCoroutine
<1>3. ASSUME NEW u \in TranId, Engine(AppStep(u)) PROVE result' = result
  BY <1>3 DEF Engine, AppStep, CallGM, AppStarts, StartCommonTransaction, AppSends, AppAborts,
              PeerSends, SendMsgEventToTran, SendMsgEvent, history
<1>4. ASSUME NEW i \in TimerId, Engine(TimerFires(i)) PROVE result' = result
  BY <1>4 DEF Engine, TimerFires, history
<1>5. CASE Engine(UpdateStep)
  BY <1>5 DEF Engine, UpdateStep, UpdateReleases, UpdateEnds, history
<1>6. CASE Engine(AllOver) \/ Crash \/ UNCHANGED resumeVars
  BY <1>6 DEF Engine, AllOver, Crash, resumeVars, vars, history
<1>7. CASE Restart
  BY <1>7 DEF Restart, history
<1>8. ASSUME NEW u \in TranId, ResumeStep(u) PROVE result' = result
  BY <1>8 DEF ResumeStep, RestartCoroutine, ReenterCoroutine, RestartFails, history
<1> QED BY <1>1, <1>2, <1>3, <1>4, <1>5, <1>6, <1>7, <1>8 DEF ResumeNext

\* However the process crashes and resumes, an outcome is reported once, by main
\* when the coroutine is gone, and no instance is released unreported.
THEOREM ResumedReportsAreOnce == ResumeSpec => ReportedOnceInMain
<1> DEFINE Step == \A t \in TranId :
                     /\ result'[t] # result[t] =>
                          result[t] = "none" /\ cpu = Main /\ curr = Main /\ t \notin coroutines'
                     /\ pc'[t] = "released" => result[t] # "none"
<1>1. CrashInv /\ CrashInv' /\ [ResumeNext]_resumeVars => [Step]_vars
  <2> SUFFICES ASSUME CrashInv, CrashInv', [ResumeNext]_resumeVars, NEW t \in TranId
               PROVE  /\ result'[t] # result[t] =>
                           result[t] = "none" /\ cpu = Main /\ curr = Main /\ t \notin coroutines'
                      /\ pc'[t] = "released" => result[t] # "none"
    OBVIOUS
  <2>1. Each(t) /\ Each(t)'
    BY DEF CrashInv
  <2>2. CASE result' = result
    BY <2>1, <2>2 DEF Each, Reported
  <2>3. CASE UpdateTakesNext
    <3>1. PICK a \in Ahead :
            /\ result' = [result EXCEPT ![InstAt(a)] = Outcome(inst[InstAt(a)])]
            /\ upd' = [at |-> a, handling |-> TRUE]
      BY <2>3 DEF UpdateTakesNext
    <3>2. PICK u \in TranId : inst[u].addr = a /\ pc[u] = "exited"
      BY DEF CrashInv, UpdateMeetsLiveInstances
    <3>3. InstAt(a) = u
      BY <3>2, InstanceStands DEF Allocated, Pc
    <3>4. cpu = Main /\ curr = Main /\ ~upd.handling /\ pc' = pc
      BY <2>3 DEF UpdateTakesNext, CrashInv, SoundBooks
    <3>5. pc'[t] = "released" => result[t] # "none"
      BY <2>1, <3>4 DEF Each, Reported
    <3>6. result'[t] # result[t] => t = u
      BY <3>1, <3>3 DEF CrashInv, TypeOK
    <3>7. t = u => result[t] = "none"
      BY <2>1, <3>2, <3>4 DEF Each, Reported
    <3>8. t = u => t \notin coroutines'
      <4>1. PICK v \in TranId : inst'[v].addr = a /\ pc'[v] = "exited" /\ v \notin coroutines'
        BY <3>1 DEF CrashInv, HandlesOne
      <4>2. inst'[u].addr = a
        BY <2>3, <3>2 DEF UpdateTakesNext, CrashInv, TypeOK, Instance
      <4>3. v = u
        BY <3>2, <3>4, <4>1, <4>2 DEF CrashInv, Addresses, Allocated, Pc
      <4> QED BY <4>1, <4>3
    <3> QED BY <3>4, <3>5, <3>6, <3>7, <3>8
  <2> QED BY <2>2, <2>3, OnlyUpdateReports
<1> QED BY <1>1, CrashInvariant, PTL DEF ResumeSpec, ReportedOnceInMain
=============================================================================
