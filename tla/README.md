# Windows Driver Frameworks: a verification development

TLA+ models of the concurrent core of the framework library (KMDF/UMDF), TLC runs on small instances, and TLAPS proofs.
Paths are relative to the repository; `fxioqueue.cpp` is
`src/framework/shared/irphandlers/io/fxioqueue.cpp` and `fxioqueue.hpp` is
`src/framework/shared/inc/private/common/fxioqueue.hpp`.

## 1. Inventory

| Component | State | Operations | Talks to | What is hard | What makes it correct |
|---|---|---|---|---|---|
| I/O queue `FxIoQueue`, `FxIrpQueue` | queued IRPs, lists of driver-owned requests, gate bits, event registrations, power state, counters | queue, retrieve, requeue, forward, cancel, start/stop/purge/drain, ready notify, power down/up, dispose | requests, driver callbacks, `FxPkgIo`, power idle machine, DPC/work item | the spin lock is dropped around every callback; any thread runs the dispatch loop; IRP cancellation races everything | one owner per request, exact count, no callback without power, nothing left after purge, power-down and deletion; every accepted request ends |
| Request `FxRequest` | IRP, cancel and power-stop flags, list entries, completion callback | complete, mark cancelable, stop acknowledge, send | queue, I/O target | completion against cancellation against power notification | completed once, by its owner |
| I/O package `FxPkgIo` | list of queues, dispatch tables, shut-down and power flags | route an IRP, create/delete queue, stop/purge/resume/restart all queues | queues, power machines | queue creation and deletion during a transition; two-phase stop of all queues | all queues reach the state asked for |
| Power idle machine `FxPowerIdleMachine` | state, flags, I/O count, D0 event, timer | reference, dereference, power up/down, timer expiry, enable/disable, start/stop | power policy and PnP machine, queues, targets | timer DPC against reference against power down | no power down under a reference; who waits for D0 is released |
| PnP machine | state, pending IRP, event queue | start, query, cancel, stop, remove, surprise remove, failures | PnP manager, power policy machine, driver callbacks | IRPs, answers of the power policy machine and failure reports arrive in any order | every IRP answered; hardware released once and last |
| Power policy machine | state, event queue, requested IRPs, pending system IRP | start/stop, idle out, power up, sleep and wake with the system, settings | PnP and power machine, idle machine, power manager | what it decides on changes while the IRP it asked for is under way | device down before the system sleeps; back when used |
| Power machine | state, event queue, pending device IRP | implicit D0/D3, D0/Dx IRPs | driver callbacks, idle and power policy machine | seven steps up, each may fail; power downs go on when a step fails | callbacks paired and in order |
| Self managed I/O machine | state | start, suspend, flush, cleanup | power and PnP machine, driver callbacks | failing callbacks | called in order |
| Wake interrupt, device power request machines | state, event queue | table-driven events | power policy machine | wake racing power down | - |
| `FxEventQueue` | ring of events, worker flags | post, process | the three machines | bounded, priority events overtake | no event lost |
| I/O target `FxIoTarget` | state, lists of sent and pended requests, two events, I/O count | send, start, stop (3 actions), purge, cancel all, remove | requests, drivers below, timers | completion, timeout, cancellation, stop and removal meet over one request | completed once; who waits returns, when nothing is in flight; nothing uses a removed target |
| Sent request `FxRequestBase` | completion count, cancelled flag, timer | send, cancel, time out, complete, reuse | I/O target, driver | count and flag are used without a lock | whoever takes the count to zero completes it |
| USB continuous reader, interrupts, timers, work items, DMA, child lists | one small machine each | see `PROJECT.json` | driver callbacks | a callback racing stop or delete | no callback after stop returns |
| Object model `FxObject` | references, parent, children, state | reference, delete, dispose, add child | everything | deletion from parent and by handle at once, deferred disposal | destroyed once, children first |
| Support, WMI, verifier, version binding | - | - | - | sequential | - |

## 2. What is modelled

### `IoQueue.tla`

One queue and all the threads that run through it. The queue's state lives under its spin lock (`lock`), which the code drops
around driver callbacks, IRP completions and waits. A step of the model is what one thread does between two such points, or one
turn of the `while (TRUE)` of `DispatchEvents` with the lock held. `frame[t]` is where thread `t` is: `pc`, the continuation
`after` which a call of `DispatchEvents` returns to, the local `NewRequest` (`new`), the request a callback is about (`cur`), the
operation it is in (`op`), and the reason for being outside the lock (`why`).

* `Turn(t)` is the cascade of conditions of one turn (fxioqueue.cpp 2864-3083), and one action per outcome carries out the whole
  handler: cancelled requests, idle and purge completion, dropping the power reference, power events, deletion, ready
  notification, presenting. `InsertNewRequest` is the call each branch makes first.
* `ProcessPowerEvents` is one action per `case` (`StartingTransition` ... `PowerOn`). `CollectAcknowledged`,
  `ProcessAcknowledgedRequest` and `RequeueAcknowledged` are its `DriverNotified` case, which drops the lock per request.
* The I/O manager: an IRP arrives (`QueueRequest`), is cancelled (`CancelIrp`), and its cancel routine gets the lock later
  (`IrpCancelForQueue`, `IrpCancelForDriver`). `routineRunning` are IRPs whose routine the I/O manager took and that
  `FxIrpQueue` no longer returns.
* The driver is any driver that follows the contract: for a request it holds it may complete, mark or unmark cancelable, requeue,
  forward, or acknowledge a stop inside `EvtIoStop`; after being told of a cancellation it can only complete. It may call the
  queue's operations in any order within `Calls`.
* The DPC/work item (`DeferredDispatch`, `DeferredEnd`) and the power thread (`StartPowerTransitionOff` ... `StartPowerTransitionOn`),
  which is `FxPkgIo` walking one queue down in two phases, purging it, restarting it and bringing it up.

Data is abstracted: requests are model values, statuses are left out. `stopAcked` and `purgeReported` are history, read by
properties only. A forwarded or completed request counts as `done`. `Threads` must not contain the names of the request lists (`ThreadAssumption`).

`BeingDisposed` guards start, stop, restart after a power purge, the idle call and a second `Dispose`: the code relies on nobody making them while the queue is
being deleted (it ASSERTs at fxioqueue.cpp:520 that the queue did not start to accept after the purge of `Dispose`, and at 2811 that a deleted queue gets no
request), and does not enforce it. Without the guard a start that meets `Dispose` loses a request in a deleted queue.
The object model gives the guarantee: a queue is disposed once, after the operations that reference it. Operators marked "Mutant" are not part of the model; each
is a plausible wrong version of the definition after it, and shows that some property notices.

Not modelled: forward-progress (reserved) requests, zero-length completion, flush by file object, `m_TwoPhaseCompletions`,
a failing `PowerReference`, the presentation lock of a synchronization scope, configuration calls.

### `MCIoQueue.tla`, `MCIoQueueManual.tla`

`MCIoQueue` adds symmetry, fairness and liveness properties. `MCIoQueueManual` composes the queue with the driver that its ready
notification is made for: in the callback it retrieves until it gets nothing, and only then returns (`missed`).

### The device power machines

One device, its three machines, and everything that drives them. Paths are under `src/framework/shared/irphandlers/pnp/`.

| Module | Code | What it is |
|---|---|---|
| `PowerIdle` | `poweridlestatemachine.cpp` | the idle machine: a record, one operator per function of the class; and `IdleSpec`, the machine with the most general users that respect its tables |
| `SelfManagedIo` | `selfmanagediostatemachine.cpp` | each event as a set of outcomes |
| `FxPkgPnp` | `fxeventqueue.hpp`, `fxpkgpnp.*` | what the machines share: event queues, taking an event, entering a state, pairing callbacks |
| `Power` | `powerstatemachine.cpp` | the power machine, one action per entry function |
| `PowerPolicy` | `powerpolicystatemachine.cpp` | the power policy machine, likewise |
| `Pnp` | `pnpstatemachine.cpp`, `fxpkgfdo.cpp` | the PnP machine, likewise |
| `DevicePower` | `fdopower.cpp`, and the callers | the composition with PnP and power manager, IRPs, timer, I/O queue, driver thread and settings; the properties |
| `DriverCallbacks` | - | abstract: the order in which a driver is called; it stands for no code of its own, `ContractKept` ties it to the machines |
| `MCDevicePower` | - | the plans of the runs |

**How a machine runs.** `at[m]` is `m_CurrentState`, `queue[m]` the ring, `entering` the machines whose entry function has yet to run.
`...ProcessEventInner` takes an event when the state's queue is open or the event has priority, and follows the row of the table
(`PowerRows`, `PolicyRows`, `PnpRows`), or drops it. An entry function is one action, atomic: it runs under its machine's own state machine
lock, and what it does to others are posts (`PostAll`, in order) and calls of the idle machine, in the order of the code at its end. Two entry functions of different machines
interleave in every order of their steps; a callback that takes time delays its machine as any other delay does.
Where a callback or a request may fail there is one disjunct per outcome (`Works`, `Fails`).

**The device.** `device.up` are the stages started and not ended, `Begin` and `End` note in `misused` a `stage` started twice or ended when not up, `SelfManagedBecomes` an event that self managed I/O does not list (`smio`).
`irps.device` are the device power IRPs the power policy machine requested: `sent`, `pending` in the power machine, `released` and
on the way to the completion routine. `os` holds the two managers. `users` are the I/O queue (`referenced`, or holding requests `unreferenced`
because it was refused), the PnP machine's own reference, and the S0 idle setting. `waiter` is a thread in
`PowerReference(WaitForD0)`: counted under the lock (`pending`), then waiting for the event, released, looking again.

**Configuration modelled.** A KMDF FDO that owns its power policy, pageable, driver managed idle timeout, no wake from S0 or Sx, no wake
interrupts, no directed power, no children, `m_ReleaseHardwareAfterDescendantsOnFailure` FALSE (the default), not powered up on a system wake while idle.
The tables are cut down to its states. Rows no order of events of this configuration can take (`StoppedCompleteDx`, `StartedRemoving`, ejection) are
left out, and with them a removal without a query. The managers keep to what Windows does: one PnP IRP at a time, and none that does not follow the last;
no sleep in the middle of a PnP operation and no PnP IRP while the system is not in S0; a device that reported a failure is surprise removed.

**Abstract specifications.** `DriverCallbacks` is what the driver sees of all this: stages started in order and ended in the
reverse, self managed I/O running only with all of them up, nothing after cleanup. `CallbackContract` states that `DevicePower` implements it, with `up` as
`device.up` and `io` the self managed state; it is checked by `device_power` and proved (`ContractKept`). `IdleRefinement` states that the composed machines are users that `IdleSpec` allows: none gives
the idle machine an event that its state traps on.

### `IoTarget.tla`, `MCIoTarget.tla`

An I/O target and the requests a driver creates, sends to it and sends again (`targets/general/fxiotarget.cpp`, `core/fxrequestbase.cpp`, the pended queue of `core/fxirpqueue.cpp`).
`req[r].count` is `m_IrpCompletionReferenceCount`: one for the IRP that is under way and one for each thread that is cancelling it; the thread that takes it to zero
completes the request. Five kinds of threads meet: a sender, the driver below, the timer DPC (one of each per request), the driver cancelling, and the driver operating the target.
`thread[t].stack` holds the places a thread will return to, since all of them call `Cancel` and `RequestCompletionRoutine`. A step is what is done under the target's lock or between two
interlocked operations; `SubmitLocked` holds the lock over three steps (`SubmitAccept`, `SubmitCheckCanceled`, `SubmitSend` or `PendRequestLocked`) because `Cancel` runs without it.
The time between a request's last completion reference and the event, and between the callback and the I/O count (`complete`, `signal`, `dereference`), is kept as steps.

A driver makes one call on the target at a time, as fxiotarget.cpp:332-338 demands, and does not send after a removal. A request is sent again only after its callback, through `WdfRequestReuse` (`Reused`), which
without `WDF_REQUEST_REUSE_MUST_COMPLETE` (for requests that came from a queue, not modelled) leaves the target flags of the last use as they were (fxrequest.cpp:2405-2419).
Left out: send and forget, a timer that cannot be allocated, verifier checks, stack locations; the pended requests are a set, resent in any order.
Properties hold with what the code does in these corners, which a reader may not expect: a pended request that `Start` sends again has lost its timeout; a request that ignores the target's state and is let in during a
removal is waited for but not cancelled; the cancellation of a stop may hit a request that completed and was sent again; and a reused request may still carry a flag of its last use (section 3, "A stop waits for ever").

## 3. Runs

The queue runs have 2 requests (`queue_two_presented` 4), 2 worker threads, the power thread and the deferred thread. Bounds: `MaxCalls` (calls of start, stop, purge, drain,
dispose, ready notify) and `MaxPower` (power downs and purges). Two workers and the power thread give three simultaneous loops, which every
`m_Dispatching == 1` gate needs (one in a callback, one finding the gate, one changing the state); two requests give one with the driver and one queued, in hand or cancelled. Deadlock is not
checked: a queue with no IRPs left rightly stops.

| Run | Instance | Shows |
|---|---|---|
| `queue_power` | sequential, power managed, power cycles, power purge and a purge by the driver | `TypeOK`, `OneOwner`, `NoIoCallbackWithoutPower`, `OffMeansAcknowledged`, `ResumedMeansOn`, `PowerReferenceTracksIo`, `PurgedMeansEmpty` |
| `queue_mixed` | manual, power managed, `EvtIoCanceledOnQueue`, retrieve, requeue, forward, ready notify, stop-and-purge against start, early cancel | `PowerReferenceTracksIo`, `CountExact`, `OneCancelPath` |
| `queue_live` | sequential, power cycle | `TransitionStarts`, `CancelDelivered`, `PowerDownEnds`, `EveryRequestCompletes` |
| `queue_purge_live` | parallel, deferred dispatch, dispose | `DeletedMeansEmpty`, `PurgeCompletes`, `IdleCompletes`, `DisposeReturns` |
| `manual_live` | manual, power cycle, cancellation | `ReadyNotLost` |
| `queue_two_presented` | sequential, 4 requests, IRPs cancelled before they arrive | violates `PresentedBound` |
| `queue_off_in_flight` | sequential, `WdfIoQueueRetrieveNextRequest` while stopping | violates `OffMeansAcknowledged` |
| `device_power` | nine plans, S0 idling disabled and enabled, up to a stale timeout (`CONSTRAINT NoStaleTimeout`) | `TypeOK`, `NoAnswerDropped`, `CallbacksPaired`, `CountIsHolders`, `ReferenceKeepsDeviceUp`, `QueriedDeviceIsUp`, `SleepsPoweredDown`, `IdleRefinement`, `CallbackContract` |
| `device_live` | six plans, fair | `ManagersAnswered`, `WaiterReleased`, `ReferencePowersUp`, `IdleDevicePowersDown` |
| `device_query` | one failure, one PnP query | violates `ManagersAnswered` |
| `device_overflow` | a queue with a PnP query, with two sleeps, or with a sleep and a failure | violates `NoEventLost` |
| `io_target` | eleven plans, fair | `CompletedOnce`, `AssertionsHold`, `IoCountExact`, `WaitedMeansQuiet`, `DisposedMeansUnused`, `OperationsReturn`, `CancelCompletes` |

The properties of `queue_mixed` were also checked with a power cycle in place of the stop-and-purge (2.2 million states), and with a parallel queue of limit 1 and both (2.4 million).
`OffMeansAcknowledged` holds in `queue_power` because that driver neither retrieves by itself nor forwards while power goes down.
The four runs that expect a violation are disagreements between code and documentation; `PROJECT.json` quotes the lines.
A fifth is known and not run: the purge of a power down passes no completion callback, so `m_CancelDispatchedRequests` stays set, and `ResetStateForRestart` (fxioqueue.cpp:6190) lets the queue accept again without
clearing it, until the driver starts the queue, though fxioqueue.hpp:455-459 says it is cleared when "there are no more driver owned requests".

**Plans.** A plan bounds a behaviour of `DevicePower`: how many callbacks and requests fail, how often the system sleeps, how many PnP
operations follow the start, how often the driver changes its idle settings, and who takes references. A behaviour picks one of the run's plans. References,
idling out and powering up are not bounded, and neither are the steps that follow a failure or a query. A hazard here takes two or three actors
that meet (a failure in a power up that a reference caused while a query waits), so `SafetyPlans` holds a plan for every two of failure, sleep, PnP
operation, setting and user, and some triples, but for sleep with setting. `LivePlans` are smaller, as a liveness check costs more.
`CHECK_DEADLOCK FALSE`: a removed device rightly stops, and so may one nobody uses.

**Plans of the I/O target.** A plan lists, for each of two requests, the options of its successive sends, how many cancellations the driver makes, and its calls on the target in order;
sends, cancellations and calls interleave freely. A request is completed by at most three parties, all of which a single request meets (timer, driver or stop, and the IRP itself); the second
request is for what depends on the lists: who empties them, and who is left on them. Two sends of one request let a late canceller meet its next life. The one-request instance with all four options, two sends
and four calls (2.5 million states) was checked for the invariants as well. `CHECK_DEADLOCK FALSE`: a driver below may keep a request for ever.

**What fails and is kept out of the passing runs.** The first is the run `device_overflow`. Each of the others can be reproduced by putting the plan into `MCDevicePower` or `MCIoTarget`:

* *An event queue overflows.* `Plan(0,1,1,0,Queue)`, `Plan(0,2,0,0,Queue)`, `Plan(1,1,0,0,Queue)` violate `NoEventLost`. `IoPresent` is posted by the idle machine
  but taken only in `WaitingUnarmed`; in states that do not take events it stays, one for each reference taken from zero, until the ring of 8 is full. The ASSERT
  at powerpolicystatemachine.cpp:3437-3444 says "This shouldn't be able to happen". The event lost then may be `Stop`, and `ManagersAnswered` fails.
  The proofs of section 4 need no bound on the plans: what they promise holds whatever a full ring loses.
* *A system sleep is dropped.* With a setting change (`Plan(0,1,0,1,{})`) `SleepsPoweredDown` fails: `StartedWaitForIdleTimeout`, in which
  the machine waits for the timer DPC, takes events but has no row for `Sx` (powerpolicystatemachine.cpp:345-350, 1668-1675). `Sx` is completed at once (3798-3809) and the system sleeps with the device in D0.
* *A stale timeout.* `DisableTimer` says "TRUE if the idle timer was cancelled and the caller may proceed directly" (poweridlestatemachine.cpp:1404-1425), and answers TRUE as well when the timer has already expired. Its `PowerTimeoutExpired` is still queued behind the driver's change of the setting. If the setting allows idling, still or again, the power policy machine decides in
  `StartingDecideS0Wake` to wait for a timeout, and finds the old one (powerpolicystatemachine.cpp, `PowerPolStartingDecideS0Wake`): it idles the device out under a reference that was granted meanwhile. `NoStaleTimeout` excludes just this
  moment, idling allowed in `StartingDecideS0Wake` with the event in the queue. Without the `CONSTRAINT`, `Plan(0,0,0,1,Both)` violates `ReferenceKeepsDeviceUp`, and `IdleRefinement` (the idle machine is told of a power down in a state that does
  not list it), and `Plan(0,0,1,1,{})` violates `QueriedDeviceIsUp`: the device idled out so is one queried for stop. TLC checks the properties in every state before such a moment and in the moment itself, and goes no further.
* *A start is undone in vain.* When the driver fails to initialize its components the power policy machine stops the power machine "before we tell the PNP state machine to fail
  device start" (powerpolicystatemachine.cpp:4208-4211), but its state `StartingPoweredUpFailed` has a row for `PwrPolPowerDown` only (2074-2080). With `Plan(2,0,0,0,{})` the power down fails too, `PowerDownFailed` is dropped,
  and the start is never answered. `NoOrderDropped` shows that this is the only row of its kind that is missing.
* *A queue is left unreferenced.* `Plan(0,0,1,0,Queue)`: `FxIoQueue::SetTransitionFromEmpty` (fxioqueue.hpp:1568) ignores that `PowerReference` failed. A request that arrives while the policy is stopped
  is kept without a reference, nobody takes one later, and the restarted device idles out with a request queued. `ReferencePowersUp` is therefore stated of a queue that got its reference.
* *A stop waits for ever.* `OperationsReturn` without its antecedent is violated by `Plan(<<Ignore, Plain>>, <<>>, 1, <<"StopCancel", "Start", "Purge", "Remove">>)`. A request is sent with `WDF_REQUEST_SEND_OPTION_IGNORE_TARGET_STATE`
  (flag set at fxiotarget.cpp:1394), cancelled before it is submitted (1486-1500), reused, which does not clear the flag (fxrequest.cpp:2408-2411), and sent plainly. A stop that cancels and waits, or a purge, now waits for it, but when it is removed it is
  taken for one that ignored the state and does not signal (fxiotarget.cpp:2007-2011). `Misjudged` is this situation; `OperationsReturn` shows that nothing else makes an operation wait for ever.
  Likewise `FX_REQUEST_CANCELLED_FROM_TIMER` of an earlier synchronous send survives, and turns the cancelled status of a later one into a timeout.

**Fairness of the queue runs.** Weak fairness of every thread that is in the middle of a framework operation or returns from a callback
(`ThreadStep`), of the DPC/work item, of the power thread and of cancel routines and completions that were begun. The operating system schedules threads, runs
queued DPCs and work items and grants the spin lock. Nothing makes IRPs arrive, drivers call or power go down. Properties that need
the driver's help say so as an antecedent, `DriverFairness`: it completes what it holds. Completion is strongly fair, as
`EvtIoStop` and `MarkCancelable` may interrupt it; taking a cancelable request back is weakly fair.

**Fairness of the device runs.** Weak fairness of each machine (some thread runs it as long as it has an event it takes or a state to enter: the poster's, or the
work item of `FxEventQueue`), of the drivers below and the managers' waking of the system (`Below`), of the timer and its DPC, and of a released or waiting thread. Nothing
is assumed of the PnP manager, of sleeps, of the driver's references, or of failures. `ManagersAnswered` in `device_live` has no plan in which a request fails while
the PnP manager queries: that is `device_query`.

**Fairness of the I/O target.** Weak fairness of every thread that is not idle (`ThreadStep`, `ControlStep`), of a due timer's DPC, and of the driver below for an IRP that was
cancelled. It may keep any other for ever, so `OperationsReturn` excepts a `WdfIoTargetStop` that only waits and a removal that let requests in, as long as such an IRP is below (`LeftBelow`),
and is said of behaviours without a `Misjudged` request.

## 4. Proofs

`IoQueueProofs.tla` proves `TypeCorrect == Spec => []TypeOK` for any sets of requests and workers and any configuration that satisfies
`ThreadAssumption` and `ConfigAssumption`. `TypeOK` is not inductive: a step that puts `frame[t].cur` on a list needs it to be a
request. `TypeInv` adds `SoundFrame`: at the points, and for the reasons, that use `cur`, it is one. The proof splits `TypeOK` into
`FrameOK`, `ReqOK`, queue, `CancelOK`, `StateOK` and `FlagsOK`, one lemma each, one case per action.

The same module proves `IoCallbacksHavePower == Spec => []NoIoCallbackWithoutPower` and
`ResumedQueuesAreOn == Spec => []ResumedMeansOn` from `TypeInv` and `PowerInv`, both inductive. `PowerInv` has four parts:

* `LoopInv`: `m_Dispatching` is the number of threads in the loop until the queue is deleted. With it `m_Dispatching == 1`
  means that the thread that tests it is alone (`LastIsAlone`), which is what the first phase of a power down waits for.
* `QuietInv`: once that test succeeded (`Quiet`), and until the queue is on, nobody presents a request or is about to. The
  property alone is not inductive: a thread that lost the lock in `InsertNewRequest` (`insertFailedPresent`) is in no callback yet but
  will present, so it has to count.
* `AckInv`: a thread works on acknowledged requests only in a `DriverNotified` state, so ending the power down from there is sound.
* `StageInv`: what `m_PowerState` can be for each place of the power thread in the protocol, inside `DispatchEvents` too.

The steps are proved by what they do to the loop: `Inside` it, `Outside` it, joining and leaving it. One lemma per kind says which
part of `PowerInv` it keeps, and each action is shown to be of a kind. `PowerInv` was first checked by TLC as an invariant of the
instances of `queue_power` and of a purge with a deletion.

`IoQueueOwnerProofs.tla` proves `OwnedOnce`, `CountedExactly` and `CancelledOnce` (`OneOwner`, `CountExact`, `OneCancelPath`) from `TypeInv` and `OwnerInv`. That a request has
one owner is not inductive: it says nothing of requests in the hands of a thread between two steps. `Hand(frame)`, `Returning(frame)` and `Cancelling(frame)` name the request that a thread is about to
present, to give back to the queue, or to cancel, and `OwnerInv` says for each request where it is among `m_Queue`, the lists, the cancel paths and these hands:

* `RequestInv`: `PlaceOK` (in one place, and a pending one in some place), `DriverOK` (what the driver may do with it fits its list), `ReturnOK` (it is counted for the driver while a thread returns it),
  `PathOK` (cancelable is being on exactly one of: the cancel routine is set, about to run, waiting for the lock, running).
* `QueueInv`, `CountInv`: no request is queued twice, `m_DriverIoCount` is the number of requests on lists.
* `LockInv`: who has the lock, and that a new request is brought only into the loop. `ClosedInv`: a queue being deleted accepts nothing, so that a deleted queue gets no request.

The proof has one lemma for each of a few kinds of steps (who moves, whose hands change, what happens to one request) and reduces every action to them.

The second part of `IoQueueOwnerProofs.tla` proves what is left when the queue says that it is done, from `OwnerInv` and `PowerInv`. `FateStep` says what any step does with any request (it arrives, is presented, ends,
changes lists, is acknowledged, ...); the three invariants are proved by these fates.

* `PurgedIsEmpty`, `DeletedIsEmpty` (`EmptyInv`): the last thread in the loop of a queue with nothing queued and nothing counted has looked everywhere a request can be, by `OwnerInv`, and nothing comes while the queue does not accept.
* `ReferenceTracksIo` (`ReferenceInv`): with I/O there is a power reference, and with a power reference there is I/O or somebody who will look: a thread in the loop, with the lock or on its way to it,
  or the deferred dispatch (`Watched`). This last part is what a reference that outlives its I/O by a step needs.
* `OffIsAcknowledged == AckDemands => (Spec => []OffMeansAcknowledged)` (`StopInv`): which list a request is on in each state of a power down, and that an acknowledged request stays on a list until a thread takes it off.
  `AckDemands` is a power managed queue whose driver gets requests only when they are presented and gives back only what it is asked to (no retrieve, requeue, forward or `EvtIoCanceledOnQueue`). It is needed: `queue_off_in_flight` shows the
  violation with a driver that retrieves. The instance of `queue_power` satisfies it.

`OwnerInv`, `EmptyInv`, `ReferenceInv` and `StopInv` were checked by TLC as invariants of the instances of the runs before they were proved.

`IoTargetProofs.tla` proves `TypeOK` and the five safety invariants of the target, for every finite set of requests (`TargetAssumption`: a count of requests is a number only then; each request is a `WDFREQUEST` that the driver
created), every plan of sends, options, cancels and operations. `IInv == TypeInv /\ RequestInv /\ TargetInv` is inductive (`Invariance == Spec => []IInv`); TLC checked it on `io_target`'s instance first. Each invariant follows from it.

* `TypeInv`: a place of a thread has a rank (`RankOf`), and ranks grow down its stack. So a stack is what is at its `Top` and the set of places it `Has`; no proof after the first lemmas looks at sequences.
  `ShapeInv` says which places imply others below them and whose request a thread works on.
* `RequestInv`: for each request, `SeatOK` (one thread at most carries it, or the driver below, the pended queue or the list being resent has it), `ListOK` (its list in the target fits where it is), `TimerOK`
  (a DPC is queued only for a timer that was set; what `Completed` and `Canceled` then mean) and `CountOK`: `m_IrpCompletionReferenceCount` is one for an IRP under way, one for the DPC
  that has to come back to it, and one for each thread between `CancelReference` and `CancelRelease`. The last is the reason why one party completes it: who finds the count at zero knows that no other holds a claim.
  `CompletedOnce` alone is not inductive: it says nothing of the parties on their way to the count.
* `TargetInv`: `ControlInv` (which operation the control thread is in, from its stack), `LockInv` (who is inside `SubmitLocked`, and that a removed target lets in only what ignores its state while it waits),
  `EventInv` (who waits has not been signalled; there is one signal for each wait, and from then on no request is on the list that was waited for), `CountInv` (`m_IoCount` is `Users`), `DisposeInv`.

The proof reduces each action to what it does to the stack of its thread (`Steps`) and to each request (`Same`, `Removed`, ...), and then to the count: who becomes or ceases to be one of `Users`. `AssertionsHold` is thereby shown of
every interleaving of the lower driver, the DPC, the cancellers and the operations, not only of those of two requests.

`PowerIdleProofs.tla` proves `IdleMachineSound == IdleSpec => []IdleInv`: the timer is tracked by its flag (`TimerTracked`), runs only with no
reference held (`NoTimeoutWhileReferenced`), a reference of a timed out device has posted `IoPresent` (`IoPresentNotLost`), the D0 event is clear exactly where a power up will set it
(`D0EventMeans`), no event is dropped that may not be. `IdleInv` is inductive. The entry functions call one another, so each gets a lemma that says what machine it leaves from which, bottom up, and
the lemma of `Enter` has one case per row. The last part says what the users see of the machine after each event and each reference (`StartTurns`, `DisabledTurns`, ...),
for `DeviceIdleProofs`.

`DevicePowerProofs.tla` proves `ReferencesCounted == Spec => []CountIsHolders`, for all plans and settings. It needs to know that the PnP machine holds its reference exactly
in the states from a query until its outcome, before the entry function that gives it back (`PnpHolds`), and the types of the idle machine, of the waiting thread and of the holders; that
is `CountInv`. Most actions neither touch the holders nor the count (`PowerAside`, `PolicyAside`), since no power or policy event changes the count of the idle machine;
`PnpKeepsCount` goes through the entry functions of the PnP machine, and each user's action is a lemma.

The same module proves `StagesPaired`, that no stage of the device is started twice or ended when not up, `StagesFollowStates`, that the stages up are those the states call for
(all of D0's in `D0`, none in `Dx`, `Stopped` or after an undone power up, the hardware prepared in `Started`, and not in `Init`, `Failed`, `Removed`), `StagesNest`, that no stage of D0 is up but on those before it and self managed I/O runs only with all of them up, and `DeviceTypes == Spec => []TypeOK`.
None of these is inductive; `StageInv` is: it gives every state of the power machine the stages that are up before its entry function runs (`Entering`) and while it waits for an event (`Waiting`),
every state of the PnP machine whether the hardware is prepared (`HwEntering`, `HwWaiting`), and says that what is up is exactly that, and that self managed I/O runs only from its start to its suspension (`Running`). An entry function is then correct if what it begins and ends leads from the `Entering` of its
state to the `Entering` of the next, or to `Waiting` (`PowerTurns`, `PnpTurns`), and a row of a table if the two sides agree (`PowerRowStages`, `PnpRowStages`). So it is shown of the tables and entry functions in all plans
that each undo state of the power machine ends just what had been begun before the failure. `StagesPaired` is the half of `CallbacksPaired` about stages.

`DeviceStepProofs.tla` proves that the three machines keep in step, in all plans, and what follows from that. Its inductive invariant is `DeviceInv` (`DeviceCorrect`), which adds to `CountInv` and `StageInv`:

* `Lockstep`: whose turn it is between the power policy and the power machine. The policy asks for one thing at a time (`OrderOf` its state: implicit D0 or D3, a D0 or Dx IRP, or to complete one). Either it has not asked (`PolicyActs`);
  or the order is queued (`OrderQueued`) or its IRP below (`IrpSent`); or the power machine carries it out (`PowerActs`, in a state of `CarriesOut`); or the Dx IRP is on its way up (`IrpReleased`);
  or the answer is queued, or was lost because the ring was full (`Answered`), and the power machine is where `Outcome` says that this answer leaves it. Each case fixes where the power machine is (`RestsAt`), the IRPs (`IrpsFit`) and what the queues hold of orders and answers.
* `PnpLockstep`: the same of the PnP and the power policy machine: orders start, stop, surprise remove and remove (`PnpOrderOf`), answered by a status. A running policy machine may do anything of its own meanwhile, idle out, sleep and wake (`Runs`),
  and takes the order when it comes to a state that takes events.
* `SmioInv`: which states self managed I/O may be in before and after each entry function of the power machine (`SmioEntering`, `SmioWaiting`), and what is remembered of a failure until the PnP machine stops the device: a restart finds it stopped, not failed
  (`StartsNext`, `StartsNow`), or the device was reported as failed (`FailureRemembered`, `FailureReported`). It is flushed before the removal and cleaned up only at the end.
* `StepInv` (the events in the queues) and `PnpRests` (a started PnP machine waits only in states with the hardware prepared).

A queue is looked at only for what it holds of a kind of events (`Without`, `Lone`, `Sole`), so that idle timeouts, sleeps and references, which post others, do not disturb the invariant (`Calm`), and neither does an event lost from a full ring: a lost answer leaves the machine that waits for it in its place. Each entry function of the
two upper machines is reduced to a pair of states and what it posts (`PnpMoves`, `PolicyMoves`), and the tables are split by their rows. From `DeviceInv`:

* `MachinesTakeTurns` is its two turns; `PowerQueueNeverFull`: the ring of the power machine holds one event at most; `OneIrpAtATime`: so do the lower drivers have one device power IRP of the driver at a time, and find no stage of D0 up while they have a D0 to complete, or a Dx it released.
* `CallbacksNeverMisused == Spec => []CallbacksPaired`, both halves.
* `ContractKept == Spec => CallbackContract`, the refinement: the stages up are a level of the ladder (`UpIsLevel`), because the device is off whenever its hardware is not prepared (`OffUnprepared`), and each step is a step of the contract or leaves it alone (`ContractStep`). `DriverMayRely`: what follows from the contract.
* `NoOrderDropped`: no order or answer that a machine waits for comes to a state whose table lacks it, but for the missing row named in section 3. This is about the events of `NoAnswerDropped` that drive the chain, and includes the failed power ups and downs to the power policy machine that `NoAnswerDropped` leaves out.
  `Stop` and `SurpriseRemove` are not in it: that they come to no sleeping device follows from the managers' exclusion of one another, which `DeviceInv` does not describe.

`Lockstep`, `PnpLockstep` and `SmioInv` were checked by TLC on the plans of `device_power` before they were proved.

`DeviceIdleProofs.tla` puts the idle machine into the device, for all plans and all settings: the driver may enable and disable S0 idling. Its theorems have the form `Spec /\ []NoStaleTimeout => []P`. As `Spec` has no fairness,
this says that `P` holds in every state of every behaviour up to the first stale timeout (section 3), from which on the properties are false. So the stale timeout is the only way to violate them.
`IdleLock` is inductive together with `DeviceInv`, for steps from a state without stale timeout (`IdleFollowsDevice`):

* `Sound`: `IdleInv`, and nothing unsent.
* `IdleFits`: the states the idle machine may be in (`IdlePlaces`) while the power policy machine is where it is: before its entry function (`IdleBefore`), waiting (`IdleWhile`), and between an order to the power machine and its answer, by where the power machine is (`IdleAsking`).
* `TimerOff`, `PowerFailureKnown`: a device in Dx has the timer disabled but in the states that are about to disable it; a broken power machine has told the idle machine.
* `ExpiryFits`, `ExpiryFirst`: a timed out machine has its `PowerTimeoutExpired` in the queue, once, and before whatever else would move the policy machine, or the event is stale and is dropped or ignored. `SleepFits`: where `Sx` and `S0` can be queued.
  `NoStaleTimeout` is used in one place: a stale event in `StartingDecideS0Wake` leads to `Started`, which drops it.
* `D0EventFits`: `DeviceInD0` comes only to a PnP machine that waits for it. `GrantFits`: who was granted power finds the device not timed out and not idling out (`Out`), unless power failed.

Each action of the five machines and users is shown to keep it by what it does to the idle machine (`Turns`, `Uses`, `Heeds`) and to the queues (`Posted`: which of the watched events came, and that their order is kept). From it:

* `IdleUsersKeepToIt == Spec /\ []NoStaleTimeout => IdleRefinement`: each step is a step of the most general users of `PowerIdle`, or leaves the idle machine alone. With `PowerIdleProofs`, `IdleSoundInDevice`.
* `ReferencesKeepDeviceUp == Spec /\ []NoStaleTimeout => []ReferenceKeepsDeviceUp`.

`QueriedDeviceIsUp` needs the managers as well: `QueryInv` is inductive together with `DeviceInv` and `IdleLock` (`QueryInvHolds`).

* `DxFits`: where the power machine rests (`D0` with its variants, or `Dx`) the idle machine knows which of the two it is.
* `ManagerFits`: the PnP manager sends one IRP at a time and none that does not follow. The PnP machine has it in its queue, once (`IrpQueuedOnce`), or deals with it and has none queued (`IrpTaken`, by state); the completion of a start IRP by the lower drivers comes to a
  machine that waits for it, once (`RepliesFit`); after a query come the IRPs that may follow it (`QueriesFit`); and the system does not sleep while an IRP is on its way or a query pending (`ManagersExclude`). It stops holding, as the code does, where the machine has left
  that order: after a surprise removal or a failure (states outside `Orderly`). It was checked by TLC on the plans of `device_power` before it was proved.
* `QueryFits`: while a query is pending the device is in D0 for the idle machine (`PendingFits`), and a PnP machine that waits for power has been promised the event (`PromiseFits`), unless power failed.

A queried device has its reference, the power policy machine runs and the system is awake (`QueryRuns`), so no step takes it out of D0 (`StaysUp`, `PromiseStands`): `QueriesFindDeviceUp == Spec /\ []NoStaleTimeout => []QueriedDeviceIsUp`.

`DriverCallbacksProofs.tla` proves `CallbacksSound == CallbacksSpec => []CallbacksInv`: what a driver may rely on follows from the contract that `DevicePower` is checked to implement.

Only model-checked: of `DevicePower` `NoAnswerDropped` as a whole (its IRPs, sleeps and stops) and `SleepsPoweredDown`; and liveness, which is outside
the prover's reach, as is `ENABLED`. No module declares a `RECURSIVE` operator.
The two fail in plans with a sleep and a setting change (section 3: a sleep that is dropped leaves an `S0` that nobody expects), so they are no theorems of all plans.

## 5. Not modelled, and what would come next

`PROJECT.json` lists every component with what is left out of it. Next would come, in this order:

1. Wake: the wake states of the power policy machine with the wake interrupt machine, and devices managed by the power framework (the device power request machine).
2. Children: bus enumerated devices, the power dependency on the parent, `FxChildList`.
3. Remote I/O targets (opening, closing, query removal), USB targets and the continuous reader, over `IoTarget`.
4. `FxPkgIo` with many queues, composed with `DevicePower` (the stage `Io` is its power transition).
5. Object lifetime (`FxObject`), interrupts, timers and work items.
6. The sleeps in the invariant: that nothing is asked of a sleeping device. `ManagerFits` has it for the PnP manager while its IRPs come in their order, not after a failure. With it `NoAnswerDropped` and `SleepsPoweredDown` would follow for plans without setting changes.

Three simplifications of the device machines: completing a PnP IRP is immediate (the code defers it through `m_FireAndForget` to the end of `PnpProcessEventInner`), a failure early in `PrepareHardware` always marks the device as failed internally, and the
idle machine hears of a failed power transition in the step that releases the IRP.

Out of reach: behaviour the repository does not hold (HAL, the power framework, other drivers), and generated code and wrappers around operating system services, which keep no state worth a model.
