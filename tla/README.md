# Verification of coroutine_transaction

The repository is a C++ library that runs *transactions*: short lists of commands
that send something out, wait for answers, and are undone when one of them fails.
Every transaction runs in a coroutine of its own, so that its code can wait in
the middle of a function; a timing wheel ends waits that are not answered.  A
small network library and a demo server use it.  This directory models the
library in TLA+, checks the models with TLC and proves what it can with TLAPS.
Paths in the tables are relative to the root of the repository.

## 1. Inventory

| part | sources | state | operations |
|---|---|---|---|
| coroutine scheduler | `src/coroutine/` | `curr_routine_id_`, `coroutines_map_`, `main_coroutine_`, and per routine `state_`, `context_`, stack | Init, CreateWorkRoutine, DestroyWorkRoutine, SwapToMain, SwapToWorkRoutine, OnWorkRoutineExit; Resume, RestartCoroutine after a crash |
| context switch | `src/coroutine/*_context.S` | the saved frame on a stack | make, jump |
| transaction engine | `src/transaction/transaction*.{h,cpp}` | `TranInstMgr::trans_map_`, `destroy_list_`; each `TransactionInstance` (ids, timer, command indexes, fail reason, `events_`, flags); each `Transaction` type's `cmd_array_` | Start, RealStart, RunCommandOnInstance, Wait, SendMsgEvent, Abort, MarkTranInstDelayDestroy, Update, HandleResult, Undo; Resume, RealResume after a crash |
| commands | `src/transaction/command.{h,cpp}` | the events a command awaits | DoAndWait, WaitForEvent, OnTimeout, Undo |
| transaction server | `src/transaction/transaction_server.*` | the parts above, the types | Init, StartTransaction, SendMsgEventToTran, OnTick |
| timer manager | `src/timer/` | `timers_`, three levels of slots with `cur`, `lasttick_`, `tick_`; the links of the slots' lists; the table of callback functions; the id of each `TimerWrapper` | RegisterTimer, DestroyTimer, Proc; Push, PushFront, Remove; RegisterTimerFunc; reset, release, cancel, move |
| GUIDs | `src/common/gen_guid.*` | second, sequence | GenGUID |
| event loop and its thread | `network/EventLoop*`, `network/EventLoopThread*` | `m_quit`, `m_looping`, pending functors, the wakeup descriptor; `m_loop` under a mutex | loop, quit, runInLoop, queueInLoop, startLoop, destructor |
| channels and poller | `network/Channel*`, `network/*Poller*` | interest sets, `m_index`, tie | update, remove, handleEvent |
| TCP server, connections | `network/Tcp*`, `network/Acceptor*`, `network/Socket*` | connection state, the server's map, the thread pool | connect, send, shutdown, close, destroy |
| buffer | `network/Buffer*` | bytes, two indexes | append, retrieve, make space, read |
| demo | `demo/` | peers and their free ids | commands start and invoke, the main loop |
| utilities | `src/common/`, `demo/utils.h` | none; `errno` for number parsing | calendar arithmetic, order of `uuid_t`, `strto` |
| logging, generated protocol, valgrind header | `network/Logger*`, `network/Timestamp*`, `src/proto/`, `src/thirdparty/` | none of interest | |

How they interact.  The embedding program's main loop calls
`TransactionServer::OnTick` (which runs `TimerMgr::Proc`) and ought to call
`TranInstMgr::Update`.  Starting a transaction creates a coroutine and swaps into
it; the coroutine runs commands until one waits, which registers a timer that
carries the transaction's id and swaps back to main.  An event from the program,
or the timer's callback, finds the instance by id in `trans_map_` and swaps into
its coroutine again.  A coroutine that ends puts its instance into
`destroy_list_`, closes the scheduler's books and jumps to main.  `Update` later
destroys the coroutine, reports the outcome, undoes and deletes the instance: a
coroutine cannot free the stack it stands on.  Everything happens in one thread
by design; the demo's I/O thread breaks that (section 7).

What is hard.
* *Re-entrancy.*  Every callback (OnStart, Do, OnRecvMsgEvent, OnTimeout, OnSuccess,
  OnFail, OnAbort, Undo, Finally, and the callbacks of timers) may call the library
  again, in a coroutine or in the middle of a loop of `Update` or `Proc`.
* *Books against reality.*  The scheduler's variables are set before the jump they
  announce, by code that continues in another coroutine.
* *Races of events.*  A timeout, an event and an abort compete for the same wait, and
  what is left of an earlier wait must not reach the next one.
* *Partial failure.*  Starting can fail after any of its steps; a command can fail in
  the middle; a timer or a coroutine may be refused.
* *Boundaries.*  Three levels of wheel, each with an off-by-one of its own, and a
  millisecond counter that is cut to 32 bits.
* *Crash and restart.*  Coroutines and instances can be laid out in memory that
  outlives the process; Resume and RestartCoroutine pick them up again.

`PROJECT.json` lists the hazards one by one, each at its line with the properties
that would catch it.

What makes each part correct.  Scheduler: its books name the routine that executes
and no jump goes to a stale context.  Engine: a wait can be ended, by what it waits
for and by nothing else, and is ended at last; an outcome is reported once, truly,
and what was done is undone; nothing is freed while used and nothing is left behind.
Wheel: timers and lists agree, a destroyed timer never fires, the others fire on
their tick.  GUIDs: no repetition.  Loop: a queued functor runs, quit ends the
loop.  Connections: one callback for each change, removal once.  Buffer: a byte
sequence, inside its vector.

## 2. Modules

| module | models | extends or instantiates |
|---|---|---|
| `AsymmetricCoroutines` | abstract: one thread of control that passes between main and one work routine | |
| `CoroutineScheduler` | `CoroutineScheduler`, `BoostCoroutine` | implements `AsymmetricCoroutines` |
| `Guid`, `GuidBits` | `GenGUID`; the bits of a GUID and how `GUIDStr` reads them | |
| `GuidCoroutines` | the scheduler with the ids it really takes | `CoroutineScheduler`, `Guid` |
| `Transactions` | abstract: what the engine promises to who starts a transaction | |
| `TransactionEngine` | transactions, commands, manager and server | instantiates `CoroutineScheduler`, implements `Transactions` |
| `TransactionResume` | crash, restart, both `Resume` and `RealResume` | `TransactionEngine` |
| `DemoTransactions` | the transaction types and events of the demo | |
| `LinkList` | the intrusive lists of the wheel | |
| `TimerWheel` | `TimerMgr` | `LinkList` |
| `TimerWrapper`, `TimerFuncs` | the owner of a timer; the table of callback functions | |
| `FunctorQueue` | abstract: what a loop promises to those who queue functors | |
| `EventLoop` | `EventLoop`, `EventLoopThread`, `Thread` | implements `FunctorQueue` |
| `Channel`, `Buffer`, `PeerMgr` | operators on a channel's fields, a buffer and the peers | |
| `TcpServer` | `TcpServer`, `Acceptor`, `TcpConnection`, the thread pool, the demo's callbacks | `Channel`, `Buffer`, `PeerMgr` |
| `DateTime`, `Strto`, `Uuid` | pure functions | |
| `MC...` (five) | instances for TLC | |
| `..._proofs` (eight) | theorems: `CoroutineScheduler`, `GuidCoroutines`, `TransactionEngine`, `LinkList`, `TimerWheel`, `EventLoop`, `TcpServer` (with its buffers), `Common` | the module proved about; the engine's extends `TransactionResume` and has the theorems without crashes and with them |

### CoroutineScheduler

The variables `curr`, `coroutines`, `state` and `context` are the fields of the
source.  `cpu`, which the program does not have, is the routine whose stack the
processor is on.  Only `JumpContext` and the jump at the end of `WorkRoutineExit`
move it, to whatever execution the target's `context` holds, and a
continued context is used up (`Null`).  So a jump to a stale frame would leave
`cpu` outside the routines, and books that do not agree with `cpu` are an error that the code
can make.  An operation the code refuses restores what it had set and is a
stuttering step.  `AsymmetricCoroutines` has the routine in control and the set
of those that may get it; the refinement maps them to `cpu` and to the routines in
READY or SUSPEND.

### Guid and GuidCoroutines

`last_s` and `cur_seq` are the static variables of `GenGUID`; the type in a GUID keeps kinds
apart and is left out, but the sequence is shared by all kinds, so `OtherGUID` lets
transactions and timers take numbers too.  The clock goes on or is set to any second.
`CreateWithGUID` is `CreateWorkRoutine` with the id it draws, and its refusal of an
id that is in the map.  `given`, `reused`, `used`, `setBack` and `wrapped` are history.

### TransactionEngine

`inst` holds the fields of each `TransactionInstance`, `trans_map` and
`destroy_list` those of the manager, and the scheduler's five variables
come in through `INSTANCE CoroutineScheduler`.  `pc` says where
the code working for each instance is, since a coroutine suspended in the middle of `WaitForEvent`
keeps its place on its stack; `pending` is that function's local list of events.
`upd` is the iterator of `Update`'s loop and whether it is inside `HandleResult`.
`result`, `done` and `undone` are history.

A step is what the engine executes between two points where it gives control away: to an
application callback, whose return value and calls are free choices, or to another
routine.  So `OnStart`, `Do`, `OnRecvMsgEvent`, `OnAbortEvent` and `OnTimeout` begin when
the callback returns and go on up to the next callback or swap; `AddTranInst`,
`CreateCoroutine`, `EnterCoroutine` are the steps of `StartTransaction`; `Exit` is the end of
`RealStart` and of the coroutine; `SendMsgEvent` is the whole handler up to the
swap; `UpdateTakesNext` goes up to the callback of `HandleResult`, `UpdateReleases`
does the rest, `UpdateEnds` clears the list.  The set `destroy_list_` is ordered by pointer
in the source, so addresses are numbers and the loop goes in their order: an
instance that enters below the iterator is not visited.

The timers are those of a manager that gives fresh one-shot timers and fires or
destroys each once; `TimerWheel` is where that is checked.  The time of firing is left
open, so that a timeout may come before, between or after any events.

`AppDoes` names what the embedding program does: the abilities are listed in the
module.  A property is often true under one program and false under
another, and the runs say of which.

`Transactions` is the engine without coroutines, timers, events and lists: a transaction begins or is refused,
does its commands one by one, ends, is reported, and is released with what is undone; `MayUndo` says how much that
may be.  `Life` maps `pc` and `result` to it: an instance is new until its coroutine is entered, runs until that
exits, and is reported and released by `Update`.

### TransactionResume

Nothing in the repository calls `Resume`, so the model states what a caller must
provide: instances, maps, timers and coroutine objects are kept in memory that outlives the
process, stacks and saved contexts are not; a crash comes between two steps of
the engine, but not inside `Update` (which keeps pointers to deleted instances in
`destroy_list_` and could not be run again); afterwards the program
calls the scheduler's `Resume`, then the manager's, before anything else.  `toResume` is what is left
of the map the manager copied.  `RestartCoroutine` prepares a coroutine that was READY or SUSPEND,
`RestartFails` marks any other transaction failed; `ReenterCoroutine` swaps into it, where
`RealResume` calls `Wait` for the command that waited, for all its events again, and then goes on with
the next.  A timer that survived is kept (`Wait` registers one only if the instance has none,
`transaction_instance.cpp:146`), so there `RegisterTimer` can refuse only where the timer is gone.
`rewait` tells a `Wait` called by `RealResume` from one called by `RunCommandOnInstance`,
since the two do different things with its result.

### LinkList, TimerWheel, TimerWrapper, TimerFuncs

A `LinkList` is the record of all `next`, `prev` and `owner` pointers and counts; `Push`, `PushFront`
and `Remove` are functions on it that translate each pointer assignment.  `TimerWheel` hangs its timers into these lists.

`cur` is the position of each level, `timers` the fields of each `Timer`,
`lasttick` and `registered` (`tick_`) the manager's; `proc` is the point in `Proc`
and `Fire`: `left` is the count of the slot taken before the loop, `running` the
timer whose `is_in_proc_` is set.  A step goes from one callback to the next.
`CalRemain`, `Reg` and `MoveDown` compute levels and slots as the code does, with
`Width` in place of 2^32.  `now` moves by an action of its own while the
application runs; with "stepback" it may also be set back.  The destructor of a timer
unlinks it, which is why an expired, repeated or destroyed timer is in no list.

`TimerWrapper` has the ids of all wrappers, the ids the application holds itself and the timers that exist;
its actions are the constructors, the move, reset, release, cancel and the destructor.  `TimerFuncs` is
a function from numbers to callback functions, and what the two registrations make of it.

### FunctorQueue and EventLoop

Steps are cut where another thread can see a difference: a section under `m_mutex`
is one step, the write of the eventfd after it another, and so are the read of `m_quit`, the
swap of the pending functors, each functor, and each of the reads and calls of the destructor of `EventLoopThread`.
`thread`, `owner` and `call[c]` are program counters.  `ticked` chooses between the
two ways of running a loop: a thread that calls `loop()`, or a main program that
calls `OnTick()`, which returns at once after `quit()`.  A functor, while it runs, may
queue or run another one or quit.  The refinement maps `funcs` followed by `m_pendingFunctors` to `FunctorQueue`'s
`waiting`, and nothing once the loop has stopped.

### TcpServer

`queue[l]` and `batch[l]` are the functors of each loop and how many of them the present
`doPendingFunctors` has taken; this is `FunctorQueue` with a named functor for
each call that crosses loops.  With no io threads the base loop does everything and the calls are direct, with one they
hop.  `conn[c]` holds the fields of a `TcpConnection` (state, channel, two buffers) and `sock[c]` the
kernel's end; `calls`, `owed` and `sent` are history.  A connection lives while the
map or a functor has a pointer to it (`Held`).  The destructor of the server goes over its map in no order one may count on, so `Destroy` queues its
calls in any.  A channel is its interest set, `m_index` and what the kernel watches;
a buffer is its indexes and the readable bytes.  Clients send, close and reset at
any time and come back from the same address.  The callbacks are the demo's, which keep `peer_map`.
A `write` takes one byte, or all, or (with `Refuses`) finds no room; the values
-1 that the code compares as unsigned are followed through (`LeftToSend`, `afterWrite`).

### Pure functions

`DateTime` has the arithmetic of days and weeks (C++ division, toward zero), `GuidBits` the shifts and masks as powers of two,
`Strto` the conversion of what a demo client typed, exceptions being results, with `errno`, `Uuid` the comparison operators.  No run has
them: the theorems of section 5 say for all arguments what bounded ones could show.

## 3. Runs

| run | distinct states | question |
|---|---|---|
| `scheduler` | 22,482 | do routines with ids from `GenGUID`, in every order of calls, keep the books right and implement the abstract coroutines, and is an id repeated only when the clock is set back or the sequence used up? |
| `engine_orderly` | 87,156 | under a program that calls the engine from its main loop for what is awaited, with starts inside coroutines, aborts, retried timeouts and refused resources: does every wait keep a timer, is every finished instance handled, are results and undo right, does the engine implement `Transactions`, so that every transaction ends? |
| `engine_wild` | 563,228 | whatever the program does, in callbacks too: do types, timers, coroutines, maps and memory stay consistent, is each outcome reported once in main, is no coroutine destroyed on its own stack? |
| `resume` | 166,962 | after up to two crashes, can every wait be woken, is no command done twice, is success honest, and does every interrupted transaction end? |
| `timer_wheel` | 1,756,965 | do timers fire on their tick, through a turn of every level and the wrap of the milliseconds, with Proc behind the clock? |
| `timer_wild` | 1,684,566 | do pointers, lists and timers agree, and are destroyed timers gone, whatever callbacks do and however the clock is set back? |
| `event_loop` | 57,747 | does the loop never sleep on work, does the destructor wait for the thread, do startLoop and destructor return, and is the loop a functor queue? |
| `connection` | 364,884 | in every order of closing, resetting, sending and destroying, over one loop and two: are connections established and destroyed once, the poller's pointers good, output complete and before the shutdown, ids distinct, and does everything settle? |

Four more runs (`engine_stray`, `engine_abort`, `engine_lost`, `connection_stream`) each
end in a violation; section 6 tells what they show.  The engine's three take the transaction types of the demo.

`UsesSchedulerRightly` composes two modules: every step of the engine is a step of
`CoroutineScheduler!Spec`, whose assumption is that nobody destroys the routine it
runs on (which section 5 proves for any number of transactions).  So the theorems there apply to the scheduler under the engine.
`ImplementsTransactions` and `ImplementsFunctorQueue` are refinements with liveness: every transaction that began is
released at last, and every queued functor runs while the loop does.

`FailureIsUndone` demands that after a failure exactly the commands that returned 0
are undone, last first, once each.  It leaves aborted transactions out: an aborted
transaction that sees its waiting command return 0 takes that command for the
failed one (`transaction.cpp:122`, with the comment at `:230`), so
that it is done and not undone.  `UndoOnlyWhatWasDone` bounds what happens then.
`ResultIsHonest` is checked where nobody calls `complete()` early: an instance
that did and then failed is reported as a success.  `SuspendedHasTimer` and
`FinishedWillBeHandled` are checked under the orderly program and refuted under
others (section 6).  The exceptions that `SleepsOnlyWithoutWork`, `DtorWaitsForThread`, `OwnerReturns`,
`IdsIdentifyClients` and `ResumedSuccess` make are what the code does, and each is explained at the property.

## 4. Bounds and fairness

*Scheduler.*  Two seconds and two sequence numbers: an id can be new, repeated after the
sequence wraps and repeated after the clock is set back.  At most three routines live at a time: one
to run, one suspended, one being created or destroyed.  The theorems hold for any number.

*Engine.*  Two transactions, two addresses and two timers: one transaction can start, wake, or
finish while the other is at any point, and an address or timer can be reused.
Types `trio` (three commands, of which the second awaits nothing and the third one
event twice, with undo) and `single` (one command that awaits two different events,
without undo) cover a failure in the first and in later commands, an event repeated,
events in both orders, and undo of none, one and two commands.  Every id is used once, GUIDs being taken as fresh.  Nothing counts up
without a bound but the history, which the number of commands bounds.  `AppAborts`
aborts an instance once, and the code treats a second abort as the first.

*Resume.*  Two transactions of a type whose first command awaits an event twice
(a crash may come between the two) and whose second awaits nothing, with undo; two crashes, so that
one may come while the first is being resumed from.

*Wheel.*  Levels of 3, 2 and 2 slots instead of 1000, 3600 and 24, so that all three turn
within twelve ticks; `MaxTime` stops the clock after such a turn; `Width` is
32 and `Epoch` near it, so that the counter wraps; `MaxLag` lets Proc be two ticks
behind.  Timeouts lie on both sides of each level's boundary and of the
clamps.  Two timers can share a slot, follow each other in it or lie on different levels, and one
callback can act on the other timer or on its own.  `timer_wild` has a shorter clock (four ticks, Proc one behind),
because there the callbacks are free.

*Event loop.*  Three functors (one running, one queued by it, one queued by another thread), two callers, both ways to run a loop.

*Connection.*  Two clients and two connections, so that a client can come back while its
old connection is still being destroyed; one message of a client unread, two answers in all; messages of three bytes in a buffer of
one prependable and four other bytes, so that it must move its bytes down and grow; zero and one io loops.
`Refuses` is FALSE but in `connection_stream`, as the run would otherwise stop at what section 6 reports.

*Deadlock* is checked in `scheduler`, `engine_orderly` and the wheel's runs, `AllOver` being the end of every transaction.  It is switched off
where the system may really stop: after the last functor, connection, or transaction of `event_loop`, `connection` and
`resume`, and in `engine_wild` and the violation runs of the engine, where a wait without a timer
may stop the model (this is what `engine_stray` shows).

*Fairness of the engine* (`FairSpec`).  Each instance's start and coroutine steps are weakly fair:
the code between two callbacks terminates, and callbacks are assumed to return.
A timer that exists fires unless it is destroyed first, since `Proc` is called on each
tick and fires all that have expired; but firing needs main's loop, which other steps
leave and re-enter, so strong fairness is what "the loop always comes back to
`OnTick`" means.  The same holds for `Update`, if the program calls it at all.
`GivesUp` is strongly fair: an `OnTimeout` that goes on waiting does not do so for ever.
No fairness is assumed of the application's events: a wait ends by its timer.
The liveness of `ImplementsTransactions` is checked where there are no stray events and no calls to the engine inside the
callbacks of `Update`, either of which can keep a transaction for ever.  `TransactionResume` adds that the program starts
again after a crash and that main goes on resuming.

*Fairness of the loops.*  The loop's thread, the owner's and each caller's second step are weakly fair: threads are scheduled,
a poll times out and functors return.  Nobody has to start, quit or queue anything.  In `TcpServer` each loop is weakly
fair, and so are the handlers of each channel, because epoll is used level-triggered and reports a
ready channel again on each poll.  Nothing is assumed of clients.

## 5. Proofs

All for every value of the constants, under the named assumptions of the modules.

*Scheduler* (`CoroutineScheduler_proofs`, from `RoutineAssumption`: main is no work
routine, `Null` is no routine).  `TypeCorrect`, `BooksAreRight`, `SwapsAreSafe`, the action
property `DeadStaysDead`, and `Refinement` (`Spec => ImplementsCoroutines`).  They rest on one inductive invariant, `IInv`:
the three invariants and two facts they need.  `RunningIsMapped` (the running work routine is in `coroutines_map_`)
is needed because `OnWorkRoutineExit` marks a routine DEAD only if it finds it in the map,
and because a new id must not be that of the running routine.  `RegisteredIffInited`
(an id is in the map exactly if its routine has a state) keeps unknown ids out of
READY and SUSPEND, and live ones in the map.  There is a lemma for the initial states and one for each action; the
refinement uses the invariant in each step to know which execution the jump continues.

*Ids* (`GuidCoroutines_proofs`).  `GuidsAreUnique`, from `GuidInv`: what was given lies before the
present second and sequence number unless the clock was set back or the sequence wrapped, and `used` counts the numbers of
this second.  `GuidsKeepScheduler`: `GuidSpec => Spec`, so the scheduler's theorems hold with these ids, repeated ones too.

*Engine* (`TransactionEngine_proofs`, from `EngineAssumption`, `TimersSuffice`: while a transaction has no timer, one is
free, and `NullIsNoIndex`).  Every property that the engine's passing runs check, but for the liveness.  Under any program:
`EngineTypeCorrect`, `TimersAreOwned`, `WaitsCanEnd`, `NothingIsLeftBehind`, `UpdateIsSafe`, `UndoneWasDone`,
the action properties `ReportsAreOnce` and `FailuresAreUndone`, and `SchedulerUsedRightly`.  `FinishedIsHandled` is for programs
that do not call the engine in the callbacks of `Update`, `WaitsHaveTimers` for those that send nothing that is not awaited and
nothing from inside a coroutine, `ResultsAreHonest` for those that do not call `complete()` early; without these
premises the first two are refuted (section 6) and the third is as section 3 says.
All rest on `EInv`.  Its first conjunct is the scheduler's `IInv`, taken over by an `INSTANCE` of the scheduler's proofs.
The others tie the engine to it for each transaction: `Placed` says in which of map and scheduler it is, and in which state, at each
point of its code; `Recorded` and `Awaits` do the same for the fields of its instance, `Reported` for its outcome.
`Addresses` (no two instances at one) and `HandlesOne` say that `InstAt` finds the instance the pointer meant.
The two halves lean on each other.  `Placed` implies that what the engine destroys is never the routine that executes
(`SchedulerRespected`), so the step is one of the scheduler's and keeps `IInv`; and `IInv` implies that a swap goes where
`Placed` says.  A step changes what one transaction's part speaks of, or nothing (`OnlyChanges`); there is a lemma for each
action.  `FInv` adds for `FinishedIsHandled` that while `Update` is in its loop nothing else is under way.  `RInv` adds for the
results what `done`, `curr_index_`, `fail_index_` and the fail reason say of each other: `Progress` while the commands run, `Outcomes`
once they have ended, `Undone` at the release, where `UndoListIs` shows that `Undo`'s countdown is the reverse of `done`.
`PromisesAreKept`, under any program, is the refinement of `Transactions` without its liveness: under `RInv` each step is one
of `Transactions` or leaves `Life` and the history as they are.

*Crashes* (the last part of the same module, about `ResumeSpec`, for any number of crashes).  `EInv` is false after a crash: coroutines that ran stay in
state RUN for ever, all saved contexts and main's are gone, instances stand where no engine left them, and an instance whose resume failed ends
with its timer still registered.  `CrashInv` is what is true instead, and TLC checked it on eight programs before it was proved.
`SoundBooks` is the part of the scheduler's invariant that survives: main and the routine that executes are right.  `Stands` says for each transaction, the
interrupted ones included, where it is in maps and scheduler, and that a swap from main enters only contexts of this process.
`Waits` says that what a crash leaves of an instance suffices to wait again: `RealResume` takes the command from
`waiting_index`, goes on from `curr_index_`, and is right only because the two agree for whatever it may see.  `Proceeds` ties `done` to the
indexes, `Honest` the flags to what was done, and `TimersHeld` allows the timers that outlive their wait.
`Recorded`, `Reported`, `Addresses` and `HandlesOne` are the engine's own.  Under any program: `ResumeTypeCorrect`, `CommandsAreDoneOnce`,
`ResumedReportsAreOnce` (`ReportedOnceInMain`, which `engine_wild` checks without crashes), `ResumedContextsAreOwn` (once all are resumed, what a swap may enter is on a stack of this process) and
`UpdateIsSafeAfterCrashes`.  `ResumedWaitsCanEnd` is for programs that send nothing that is not awaited and nothing from inside a coroutine, since a stray message takes
the timer of a wait without any crash (section 6); `ResumedSuccessIsHonest` for those that do not call `complete()` early.
The theorems about `Spec` use nothing that `TransactionResume` adds.

*Lists* (`LinkList_proofs`).  `PushSound`, `PushFrontSound` and `RemoveSound`: whatever node they are given, linked or not, all
`next` and `prev` pointers stay inverse to each other and inside one list.  `CountKept`: `count_` stays the number of nodes that the list owns.
The order takes more: `InOrder` says that the nodes of each list can be numbered from its head to its tail as `count_` says.  `PushOrder`
and `RemoveOrder` keep such a numbering (with one more at the end, or closed up), `WalkIsChain` says that a walk from `next` to `next` follows it,
and `ClearEmpties` that the destructor of a list lets go of all its nodes and of no others.  The last two speak of recursive functions along a
list of any length.  The library's induction theorem cannot be used here (it takes an operator), so `SetInduction` derives
induction for a *set* of numbers from the well-foundedness of inclusion among finite sets.

*Wheel* (`TimerWheel_proofs`, from the assumptions of `TimerWheel`, for any sizes of levels, timeouts and `Width`).  `WheelIsTyped`,
`ListsHoldLiveTimers` and `DestroyedTimersEnd` under any program; `TimersFireOnTime` and `TimersFireNearlyOnTime` under one whose callbacks leave
the other timers alone and whose clock is not set back (`AppDoes = {}`, the program of run `timer_wheel`), since section 6 tells how both go
wrong otherwise.  They rest on `WheelInv`: types; `Books`, which ties the point in `Proc` to the timer that runs and says which timers are in
a list; `Lists`, the `InOrder` of the lists; and, for the calm program, `Clock` and `Timing`.  `Timing` says where each timer hangs: in a slot of
level 1 it comes round at its tick, in one of level 2 or 3 its slot comes round before that, and then `Reg` finds a right slot again.
`RemainIsExact` is the arithmetic of `cal_remain`, `MoveDownKeeps` the loop over a slot, again by `SetInduction`.

*Event loop* (`EventLoop_proofs`).  `LoopTypes`, `LoopIsAwake` and `DtorWaits`, from `LoopInv`: types; `Places`,
which ties the program counters of loop and owner to `m_loop`, `m_tid` and `m_quit`; `Awake`, which says that a
functor in the queue while the loop is past its last swap has a wakeup written, or a caller about to write it, or was queued where
no wakeup is made; and `QuitSeen`, the same for quit.  `LoopIsFunctorQueue`: initial states and steps map to those of
`FunctorQueue` (its liveness part is left to TLC).

*Connections* (`TcpServer_proofs`).  `TypeCorrect`, `PollerIsSafe`, `CalledOnce` and `ClientsAreKnown` for any numbers of clients, connections,
messages and loops; `OutputIsKept` and `ShutdownWaits` while no write finds the socket full (`Refuses = FALSE`: run `connection_stream`
refutes them otherwise).  They rest on `IInv`.  `Fields` and `Started` are types and the state of server and acceptor.  `Queues` says what
the queues of the loops may hold: of one connection at most one `connectEstablished`, one `removeConnectionInLoop` and one
`connectDestoryed`, each in the loop it belongs to, the first before the last.  `Unborn` says that a connection not made yet has no trace anywhere.
`Lives` is the core: for each connection, `LifeOf` ties its state and channel and its counts of callbacks to what the map and the queues hold
of it, so that every step that could call twice, or let go of the last pointer with the channel still watched, is excluded by who else
would have to be there.  `Peered` and `Ups` are the same for the demo's ids of clients, and `Streams` relates the output buffer to what is owed.
A step changes one connection and perhaps one queue entry; there is one lemma per action, and `OneConn` and `UpsStep` carry over the rest.
The theorems on the buffer are in the same module: `AppendKeepsOrder`, `RetrieveIsTail` and `ReadFdKeepsOrder` say that the contents change as a
sequence does and the indexes stay in order and inside the vector, whether the bytes are moved down, the vector grows, or part of a read goes through the stack.

*Small parts* (`Common_proofs`).  `NoTimerIsLeaked` and `TimerHasOneOwner` of `TimerWrapper`, from `WrapperInv`, which adds types and that
ids not yet given out are in nobody's hands.  `FunctionsStay` and `WaitsCallTheirFunction`: a registered callback function is never replaced, and
the timer of a wait calls the one the server registered.  Of the pure functions: `DayContainsTime`, `WeekBeginsOnMonday`, `PassedDaysAgree` (days and weeks, for times since the epoch);
`GUIDStrReadsBack`; `StrtoSigned` and `StrtoUnsigned` (what is returned and what throws);
`StrtoFloatSeesOldErrno`; `UuidOrder` (a strict total order).

Every invariant and every action property of a passing run is stated by a theorem.  Only model-checked: all
liveness (`OwnerReturns`, `ConnectionsSettle`, `InterruptedEnds`, and that part of the refinements), which TLAPS cannot prove.

## 6. Where the code disagrees with what is said of it

1. `engine_stray`.  `TransactionInstance::SendMsgEvent` destroys the wait's timer
   before it checks that the message is awaited.  A message that is refused leaves the wait
   without a timeout.
2. `engine_abort`.  An abort, which `transaction_comm.h:18` says force-stops the coroutine,
   marks the instance failed and then waits for the same events again, under a new timer.
3. `engine_lost`.  A transaction that finishes inside a callback of `Update`, at an
   address the iterator has passed, is dropped by `destroy_list_.clear()`: never reported, never freed.
4. `connection_stream`.  When `write()` finds no room, `sendInLoop` takes its -1 for success, since
   `nwrote` is unsigned, and buffers one byte from before the message.

Seen while modelling, and not made runs:

* `OnTick` does not call `TranInstMgr::Update`, nor does the demo: there, finished
  transactions are never reported, undone or freed.
* A timer callback that destroys another timer of its own slot and registers one for exactly a turn of
  the first level makes the new one fire at once, since `Fire` counts its slot before the callbacks.
* `svr_timer.h:42` says a timer is registered again when `OnTimeout` returns 0; the result is only logged.
* When the 32-bit milliseconds wrap, `cal_remain` is one too small: a timer may fire a tick early or, if nothing remained,
  a turn of the first level late (`NearlyOnTime` states how much at most).  When the
  clock is set back and a timer is registered before `Proc` has noticed, the timer
  expires before `lasttick_`, `cal_remain` takes that for a wrap, and it waits for days.
* `quit()` before `loop()` is lost, because `loop()` clears `m_quit`; the destructor of an `EventLoopThread` may then
  join for ever (`quitLost`).  A loop that ends itself may leave its thread inside the mutex of an
  object being destroyed (`selfQuit`).
* A transaction interrupted before its coroutine was entered is resumed as one that has
  done everything, and reported as a success (`ResumedSuccess` names the case).  One that was aborted while it waited goes on
  with its next command after a restart.  A resumed command awaits all its events again.
* A client that comes back from its address while its old connection is being destroyed loses its
  peer id, which `connectDestoryed` removes a second time (`IdsIdentifyClients` names the case).
* After a reset, `handleError` fetches the error from the socket, so that `handleRead` reads an end of stream and closes.
* `strto` accepts "-1" for an unsigned 64-bit number, its floating form does not clear `errno`,
  and nothing in the demo catches what it throws.
* For times before the epoch, the start of the day lies after the time.

## 7. Not modelled, and why

* The demo's second thread: commands of clients run on the I/O thread and call the
  engine there, while main runs timers.  This is a data race on all of the
  engine's state, after which nothing can be promised; the models assume one thread for the engine.
* `send()` from a thread other than the loop's: whether its pointers live long enough is up to the caller, and the demo does not do it.
* A crash inside `Update` and the memory that outlives the process: the repository has no caller of `Resume` to take them from.
* `TimerMgr::Destroy`, which only ends the program's use of timers.
* Registers and stack layout in assembly: below the level of `context`.
* Socket options, addresses, the poller's growing array of events, time stamps.
* Logging, formatting, demangling, configuration, generated and vendored code: no state that a property is about.
  Of `strto`, NaN and the overload on streams.

## 8. Plan

What is left, if the code grows in these directions:

1. A caller of `Resume`: with one in the repository, the memory that outlives the process and a crash inside `Update` could be modelled from it.
2. The demo's I/O thread, once commands of clients are handed to main's loop: then `TcpServer`'s queues and the engine can be composed.
3. The abstract specification with crashes.  `Transactions` has none, and a transaction that is resumed before its first
   command, and so ends as a success with nothing done, is no behaviour of it.
