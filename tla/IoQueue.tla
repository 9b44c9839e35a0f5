------------------------------- MODULE IoQueue -------------------------------
(***************************************************************************)
(* One WDFQUEUE: FxIoQueue with its FxIrpQueue lists, the part of          *)
(* FxRequest that the queue drives, and the threads that run through it.   *)
(*                                                                         *)
(* Everything the queue does happens under its spin lock, so a step of the *)
(* model is what one thread does between two points where the lock changes *)
(* hands, or one turn of the DispatchEvents loop with the lock still held. *)
(* lock names the holder; callbacks into the driver, the completion of an  *)
(* IRP and the waits for an event happen with the lock released.           *)
(*                                                                         *)
(* The driver and the I/O manager are the environment: the driver does     *)
(* what a correct driver may do to a request it holds, in any order.       *)
(***************************************************************************)
EXTENDS Integers, Sequences, FiniteSets

CONSTANTS
  Requests,          \* the FxRequests (one IRP each) that arrive
  Workers,           \* threads that call into the queue
  PowerThread,       \* the PnP/power thread
  DeferThread,       \* the DPC or work item that runs deferred dispatching
  NoThread, NoRequest,
  Type,              \* m_Type
  MaxParallel,       \* m_MaxParallelQueuePresentedRequests
  PowerManaged,      \* m_PowerManaged
  PolicyOwner,       \* m_IsDevicePowerPolicyOwner
  HasIoStop,         \* EvtIoStop is registered
  HasCanceledOnQueue,\* EvtIoCanceledOnQueue is registered
  MayDefer,          \* some callers may not run the driver's callbacks
  EarlyCancel,       \* an IRP may be cancelled before it reaches the queue
  Calls,             \* the operations the driver uses
  MaxCalls,          \* bound on Start, Stop, Purge, ReadyNotify and Dispose
  MaxPower           \* bound on power cycles

Threads == Workers \cup {PowerThread, DeferThread}

ASSUME ThreadAssumption ==
  /\ IsFiniteSet(Requests) /\ IsFiniteSet(Workers)
  /\ PowerThread # DeferThread
  /\ PowerThread \notin Workers /\ DeferThread \notin Workers
  /\ NoThread \notin Threads /\ NoRequest \notin Requests
  /\ Threads \cap {"none", "owned", "notify", "notified"} = {}

ASSUME ConfigAssumption ==
  /\ Type \in {"Sequential", "Parallel", "Manual"}
  /\ MaxParallel \in Nat \ {0} /\ MaxCalls \in Nat /\ MaxPower \in Nat
  /\ {PowerManaged, PolicyOwner, HasIoStop, HasCanceledOnQueue, MayDefer, EarlyCancel}
       \subseteq BOOLEAN

VARIABLES
  req,              \* the FxRequests
  queue,            \* m_Queue
  cancelable,       \* m_DriverCancelable
  routineRunning,   \* requests whose cancel routine was taken by the I/O manager
  cancelCalls,      \* calls of CancelForDriver that have not got the lock yet
  cancelled,        \* m_Cancelled
  canceledOnQueue,  \* m_CanceledOnQueueList
  driverIoCount,    \* m_DriverIoCount
  queueState,       \* m_QueueState
  cancelDispatched, \* m_CancelDispatchedRequests
  transition,       \* m_TransitionFromEmpty
  forceTransition,  \* m_ForceTransitionFromEmptyWhenAddingNewRequest
  powerReferenced,  \* m_PowerReferenced
  readyNotify, idleComplete, purgeComplete, \* m_ReadyNotify, m_IdleComplete, m_PurgeComplete
  disposing, deleted,                       \* m_Disposing, m_Deleted
  powerState,       \* m_PowerState
  powerIdle,        \* m_PowerIdle
  dispatching,      \* m_Dispatching
  deferQueued,      \* m_DpcQueued or m_WorkItemQueued
  requeueDeferred,  \* m_RequeueDeferredDispatcher
  lock,             \* the queue's spin lock
  frame,            \* where each thread is
  calls, powerCalls,\* what was spent of MaxCalls and MaxPower
  stopAcked,        \* requests the driver stop-acknowledged since the last resume
  purgeReported     \* EvtIoQueuePurgeComplete ran and nothing was accepted since

cancelVars == <<cancelable, routineRunning, cancelCalls, cancelled, canceledOnQueue>>
gateVars   == <<queueState, cancelDispatched>>
readyVars  == <<transition, forceTransition, powerReferenced>>
eventVars  == <<readyNotify, idleComplete, purgeComplete>>
lifeVars   == <<disposing, deleted>>
powerVars  == <<powerState, powerIdle>>
deferVars  == <<deferQueued, requeueDeferred>>
auxVars    == <<calls, powerCalls, stopAcked, purgeReported>>

vars == <<req, queue, cancelVars, driverIoCount, gateVars, readyVars, eventVars,
          lifeVars, powerVars, dispatching, deferVars, lock, frame, auxVars>>

-----------------------------------------------------------------------------
PowerStates ==
  {"On", "Off", "StartingTransition",
   "Stopping", "StoppingNotifyingDriver", "StoppingDriverNotified",
   "Purge", "PurgeNotifyingDriver", "PurgeDriverNotified",
   "Restarting", "RestartingNotifyingDriver", "RestartingDriverNotified"}

(* A request: irp - not yet sent, pending, or completed (or gone to another *)
(* queue); cancel - Irp->Cancel; canceled - m_Canceled; ack -               *)
(* m_PowerStopState; presented - m_Presented; list - the list that          *)
(* FxListEntryDriverOwned links it on, a thread for that thread's local     *)
(* acknowledgedList; drv - what the driver may do with it: nothing, it      *)
(* holds it, it marked it cancelable, it was told that it is cancelled and  *)
(* can only complete it, it is completing or forwarding it.                 *)
Request ==
  [irp : {"new", "sent", "done"}, cancel : BOOLEAN, canceled : BOOLEAN,
   ack : {"none", "ack", "requeue"}, presented : BOOLEAN,
   list : {"none", "owned", "notify", "notified"} \cup Threads,
   drv : {"fx", "held", "cancelable", "told", "completing", "forwarding"}]

(* Why a thread is outside the lock in the middle of DispatchEvents: it is  *)
(* in a callback, or it completes or requeues a request.                    *)
DriverCallbacks ==
  {"io", "cancel", "onQueue", "stop", "resume", "ready", "idleDone", "purgeDone"}
Windows == DriverCallbacks \cup {"insertFailed", "insertFailedPresent",
              "insertFailedIdle", "acked", "requeued", "requeueFailed"}

(* The points of DispatchEvents a thread runs with the lock held.           *)
LockedPoints == {"enter", "dispatch", "drainCancelled", "drainOnQueue",
                 "ackLoop", "requeueAcked", "present", "idleNow"}
LoopPoints == LockedPoints \ {"enter"}

FreePoints ==
  {"idle", "completeCanceled", "drainQueue", "drainDriver", "cancelDriver",
   "lockEnter", "setDisposing", "waitDisposed", "deferredEnd",
   "on", "waitStart", "started", "waitHold", "off", "purge", "setPurge",
   "waitPurge", "resumed"}

Frame == [pc : LockedPoints \cup {"window"} \cup FreePoints,
          after : FreePoints, op : {"none", "stop", "purge", "dispose", "powerPurge"},
          why : Windows \cup {"none"},
          new : Requests \cup {NoRequest}, cur : Requests \cup {NoRequest}]

-----------------------------------------------------------------------------
Elements(s) == {s[i] : i \in 1..Len(s)}
\* Mutant: off by one, the request stays.
WithoutOffByOne(s, r) ==
  LET i == CHOOSE i \in 1..Len(s) : s[i] = r
  IN  SubSeq(s, 1, i) \o SubSeq(s, i + 1, Len(s))

Without(s, r) ==
  LET i == CHOOSE i \in 1..Len(s) : s[i] = r
  IN  SubSeq(s, 1, i - 1) \o SubSeq(s, i + 1, Len(s))

\* GetNextRequest skips an IRP whose cancel routine was already taken.
LiveIndexes == {i \in 1..Len(queue) : queue[i] \notin routineRunning}
SomeLive == LiveIndexes # {}
FirstLive == queue[CHOOSE i \in LiveIndexes : \A j \in LiveIndexes : i <= j]

IsPowerStateNotifyingDriver ==
  powerState \in {"StoppingNotifyingDriver", "PurgeNotifyingDriver",
                  "RestartingNotifyingDriver"}

(* t is the only thread in the loop of DispatchEvents: no callback of this  *)
(* queue runs elsewhere.                                                    *)
\* Mutants: the check is dropped; t forgets to count itself.
AnyInLoop == TRUE
LoopEmpty == dispatching = 0

LastInLoop == dispatching = 1

(* What WdfRequestUnmarkCancelable and a purge can still take back: the     *)
(* cancel routine was not taken by the I/O manager.                         *)
\* Mutant: the answer of IoSetCancelRoutine is ignored.
AllCancelable == cancelable

Revocable == cancelable \ routineRunning

On(l) == {r \in Requests : req[r].list = l}

Free == lock = NoThread
Go(t, pc) == frame' = [frame EXCEPT ![t].pc = pc]

(* Leave the lock and the loop for a while; Relock comes back.              *)
Window(t, why, r) ==
  /\ lock' = NoThread
  /\ frame' = [frame EXCEPT ![t] = [@ EXCEPT !.pc = "window", !.why = why, !.cur = r,
                            !.new = NoRequest]]

(* Unlock and go on at pc.                                                  *)
UnlockTo(t, pc) == lock' = NoThread /\ frame' = [frame EXCEPT ![t] = [@ EXCEPT !.pc = pc, !.cur = NoRequest]]

(* Call DispatchEvents with the lock held, to go on at pc when it returns.  *)
Enter(t, new, pc) ==
  /\ lock' = t
  /\ frame' = [frame EXCEPT ![t] = [@ EXCEPT !.pc = "enter", !.after = pc,
                            !.new = new, !.cur = NoRequest]]

(* DispatchInternalEvents: nothing to do when some thread is already in the *)
(* loop, for it will look again.                                            *)
DispatchInternalEvents(t, pc) ==
  IF dispatching = 0 THEN Enter(t, NoRequest, pc) ELSE UnlockTo(t, pc)

(* Mutant: whoever made the last step does not look what it made possible.  *)
NoDispatch == UNCHANGED <<lock, frame>>

(* The same from a thread that does nothing else: the driver completing a   *)
(* request inside a callback needs no thread of its own.                    *)
DispatchInternalEventsAny ==
  IF dispatching = 0
  THEN \E t \in Workers : frame[t].pc = "idle" /\ Enter(t, NoRequest, "idle")
  ELSE UNCHANGED <<lock, frame>>

Init ==
  /\ req = [r \in Requests |-> [irp |-> "new", cancel |-> FALSE, canceled |-> FALSE,
                                ack |-> "none", presented |-> FALSE,
                                list |-> "none", drv |-> "fx"]]
  /\ queue = <<>>
  /\ cancelable = {} /\ routineRunning = {} /\ cancelCalls = {}
  /\ cancelled = {} /\ canceledOnQueue = {}
  /\ driverIoCount = 0 /\ dispatching = 0
  /\ queueState = {"Accept", "Dispatch"} /\ cancelDispatched = FALSE
  /\ transition = FALSE /\ forceTransition = FALSE /\ powerReferenced = FALSE
  /\ readyNotify = FALSE /\ idleComplete = FALSE /\ purgeComplete = FALSE
  /\ disposing = FALSE /\ deleted = FALSE
  /\ powerState = "On" /\ powerIdle = FALSE
  /\ deferQueued = FALSE /\ requeueDeferred = FALSE
  /\ lock = NoThread
  /\ frame = [t \in Threads |->
                [pc |-> IF t = PowerThread THEN "on" ELSE "idle",
                 after |-> "idle", op |-> "none", why |-> "none",
                 new |-> NoRequest, cur |-> NoRequest]]
  /\ calls = 0 /\ powerCalls = 0
  /\ stopAcked = {} /\ purgeReported = FALSE

-----------------------------------------------------------------------------
(* Helpers of the loop.                                                     *)

SetTransitionFromEmpty ==
  /\ transition' = TRUE /\ forceTransition' = FALSE
  /\ powerReferenced' = (powerReferenced \/ (PolicyOwner /\ PowerManaged))

\* Mutants: a retrieve that came back empty is forgotten; only that counts.
CheckTransitionUnforced(n) ==
  IF n = 1 THEN SetTransitionFromEmpty ELSE UNCHANGED readyVars
CheckTransitionForced(n) ==
  IF forceTransition THEN SetTransitionFromEmpty ELSE UNCHANGED readyVars

(* After an insertion that leaves the queue with n requests.                *)
CheckTransitionFromEmpty(n) ==
  IF n = 1 \/ forceTransition THEN SetTransitionFromEmpty ELSE UNCHANGED readyVars

(* Called when requests may have piled up behind a closed gate.             *)
ForceReadyIfQueued ==
  /\ UNCHANGED powerReferenced
  /\ IF queue # <<>> THEN transition' = TRUE /\ forceTransition' = FALSE
                     ELSE UNCHANGED <<transition, forceTransition>>

(* A request just taken out of m_Queue, or refused by it, is cancelled: the *)
(* driver hears of it if it saw the request before, otherwise it is         *)
(* completed with the lock released. n is m_DriverIoCount without it.       *)
GoesToDriver(r) == HasCanceledOnQueue /\ req[r].presented

CancelForQueue(t, r, n, pc) ==
  IF GoesToDriver(r)
  THEN /\ req' = [req EXCEPT ![r] = [@ EXCEPT !.canceled = TRUE, !.list = "owned", !.drv = "fx"]]
       /\ driverIoCount' = n + 1
       /\ canceledOnQueue' = canceledOnQueue \cup {r}
       /\ DispatchInternalEvents(t, pc)
  ELSE /\ req' = [req EXCEPT ![r] = [@ EXCEPT !.canceled = TRUE, !.irp = "done",
                             !.list = "none", !.drv = "fx"]]
       /\ driverIoCount' = n
       /\ UNCHANGED canceledOnQueue
       /\ lock' = NoThread
       /\ frame' = [frame EXCEPT ![t] = [@ EXCEPT !.pc = "completeCanceled", !.after = pc]]

CompleteCanceled(t) ==
  /\ frame[t].pc = "completeCanceled" /\ Free
  /\ DispatchInternalEvents(t, frame[t].after)
  /\ UNCHANGED <<req, queue, cancelVars, driverIoCount, gateVars, readyVars, eventVars,
                 lifeVars, powerVars, dispatching, deferVars, auxVars>>

-----------------------------------------------------------------------------
(* DispatchEvents.                                                          *)

\* Mutant: what the driver owns is left out.
TotalIoQueued(t) == Len(queue)

TotalIo(t) == Len(queue) + driverIoCount + (IF frame[t].new = NoRequest THEN 0 ELSE 1)

(* A dispatch limit is reached.                                             *)
AtLimit ==
  \/ Type = "Sequential" /\ driverIoCount > 0
  \/ Type = "Parallel" /\ driverIoCount >= MaxParallel

(* What a turn of the loop does: the first of these that applies.           *)
Turn(t) ==
  IF cancelled # {} /\ ~IsPowerStateNotifyingDriver THEN "cancelled"
  ELSE IF canceledOnQueue # {} /\ ~IsPowerStateNotifyingDriver THEN "onQueue"
  ELSE IF idleComplete /\ LastInLoop /\ driverIoCount = 0 THEN "idleDone"
  ELSE IF purgeComplete /\ LastInLoop /\ TotalIo(t) = 0 THEN "purgeDone"
  ELSE IF PolicyOwner /\ PowerManaged /\ powerReferenced /\ TotalIo(t) = 0
          /\ LastInLoop THEN "dereference"
  ELSE IF powerState \notin {"On", "Off"} THEN "power"
  ELSE IF disposing /\ TotalIo(t) = 0 /\ LastInLoop THEN "delete"
  ELSE IF powerState = "Off" \/ "Dispatch" \notin queueState THEN "leave"
  ELSE IF Type = "Manual" THEN IF readyNotify /\ transition THEN "ready" ELSE "leave"
  ELSE IF AtLimit THEN "leave"
  ELSE IF SomeLive THEN "next"
  ELSE IF frame[t].new # NoRequest THEN "new" ELSE "leave"

(* t runs turn k; every turn but "new" and "next" first puts NewRequest     *)
(* into m_Queue, which InsertNewRequest does.                               *)
AtTurn(t, k) ==
  /\ lock = t /\ frame[t].pc = "dispatch" /\ frame[t].new = NoRequest /\ Turn(t) = k

EnterDispatchEvents(t) ==
  /\ lock = t /\ frame[t].pc = "enter" /\ ~deleted
  /\ dispatching' = dispatching + 1
  /\ Go(t, "dispatch")
  /\ UNCHANGED <<req, queue, cancelVars, driverIoCount, gateVars, readyVars, eventVars,
                 lifeVars, powerVars, deferVars, lock, auxVars>>

(* A deleted queue: a waiting power thread is told not to wait.             *)
EnterDeleted(t) ==
  /\ lock = t /\ frame[t].pc = "enter" /\ deleted
  /\ UnlockTo(t, CASE frame[t].after = "waitStart" -> "started"
                   [] frame[t].after \in {"waitHold", "waitPurge"} -> "off"
                   [] OTHER -> frame[t].after)
  /\ UNCHANGED <<req, queue, cancelVars, driverIoCount, gateVars, readyVars, eventVars,
                 lifeVars, powerVars, dispatching, deferVars, auxVars>>

(* CanThreadDispatchEventsLocked is FALSE for t: the DPC or work item will  *)
(* do it, and does it again if it is already running.                       *)
EnterDeferred(t) ==
  /\ MayDefer /\ t \in Workers
  /\ lock = t /\ frame[t].pc = "enter" /\ ~deleted
  /\ deferQueued' = TRUE /\ requeueDeferred' = TRUE
  /\ LET r == frame[t].new IN
     IF r = NoRequest THEN UNCHANGED <<req, queue, readyVars>>
     ELSE IF req[r].cancel
     THEN req' = [req EXCEPT ![r].irp = "done"] /\ UNCHANGED <<queue, readyVars>>
     ELSE /\ queue' = Append(queue, r) /\ CheckTransitionFromEmpty(Len(queue) + 1)
          /\ UNCHANGED req
  /\ lock' = NoThread
  /\ frame' = [frame EXCEPT ![t] = [@ EXCEPT !.pc = frame[t].after, !.new = NoRequest]]
  /\ UNCHANGED <<cancelVars, driverIoCount, gateVars, eventVars,
                 lifeVars, powerVars, dispatching, auxVars>>

(* InsertNewRequestLocked: NewRequest goes to the tail of m_Queue, or, when *)
(* its IRP was cancelled meanwhile, is completed outside the lock.          *)
InsertNewRequest(t) ==
  LET r == frame[t].new IN
  /\ lock = t /\ frame[t].pc = "dispatch" /\ r # NoRequest
  /\ Turn(t) \notin {"next", "new"}
  /\ IF req[r].cancel
     THEN /\ req' = [req EXCEPT ![r].irp = "done"]
          /\ Window(t, IF Turn(t) = "idleDone" THEN "insertFailedIdle"
                                               ELSE "insertFailed", NoRequest)
          /\ UNCHANGED <<queue, readyVars>>
     ELSE /\ queue' = Append(queue, r)
          /\ CheckTransitionFromEmpty(Len(queue) + 1)
          /\ frame' = [frame EXCEPT ![t].new = NoRequest]
          /\ UNCHANGED <<req, lock>>
  /\ UNCHANGED <<cancelVars, driverIoCount, gateVars, eventVars,
                 lifeVars, powerVars, dispatching, deferVars, auxVars>>

(* Back from a callback or a completion: take the lock and go on.           *)
Relock(t) ==
  /\ frame[t].pc = "window" /\ Free
  /\ lock' = t
  /\ frame' = [frame EXCEPT ![t] = [@ EXCEPT !.pc = CASE frame[t].why = "cancel" -> "drainCancelled"
                   [] frame[t].why = "onQueue" -> "drainOnQueue"
                   [] frame[t].why = "insertFailedIdle" -> "idleNow"
                   [] frame[t].why = "insertFailedPresent" -> "present"
                   [] frame[t].why \in {"acked", "requeueFailed"} -> "ackLoop"
                   [] frame[t].why = "requeued" -> "requeueAcked"
                   [] OTHER -> "dispatch",
       !.why = "none",
       !.cur = IF frame[t].why \in {"insertFailedPresent", "requeued"}
                  THEN frame[t].cur ELSE NoRequest]]
  /\ UNCHANGED <<req, queue, cancelVars, driverIoCount, gateVars, readyVars, eventVars,
                 lifeVars, powerVars, dispatching, deferVars, auxVars>>

(* The loop ends.                                                           *)
LeaveDispatchEvents(t) ==
  /\ AtTurn(t, "leave")
  /\ dispatching' = dispatching - 1
  /\ UnlockTo(t, frame[t].after)
  /\ UNCHANGED <<req, queue, cancelVars, driverIoCount, gateVars, readyVars, eventVars,
                 lifeVars, powerVars, deferVars, auxVars>>

(* ProcessCancelledRequests: EvtRequestCancel for one request after the     *)
(* other until m_Cancelled is empty.                                        *)
ProcessCancelledRequests(t) ==
  /\ \/ AtTurn(t, "cancelled")
     \/ lock = t /\ frame[t].pc = "drainCancelled"
  /\ IF cancelled = {}
     THEN Go(t, "dispatch") /\ UNCHANGED <<cancelled, req, lock>>
     ELSE \E r \in cancelled :
            /\ cancelled' = cancelled \ {r}
            /\ req' = [req EXCEPT ![r].drv = "told"]
            /\ Window(t, "cancel", r)
  /\ UNCHANGED <<queue, cancelable, routineRunning, cancelCalls, canceledOnQueue,
                 driverIoCount, gateVars, readyVars, eventVars, lifeVars, powerVars,
                 dispatching, deferVars, auxVars>>

(* ProcessCancelledRequestsOnQueue: the same with EvtIoCanceledOnQueue.     *)
ProcessCancelledRequestsOnQueue(t) ==
  /\ \/ AtTurn(t, "onQueue")
     \/ lock = t /\ frame[t].pc = "drainOnQueue"
  /\ IF canceledOnQueue = {}
     THEN Go(t, "dispatch") /\ UNCHANGED <<canceledOnQueue, req, lock>>
     ELSE \E r \in canceledOnQueue :
            /\ canceledOnQueue' = canceledOnQueue \ {r}
            /\ req' = [req EXCEPT ![r].drv = "told"]
            /\ Window(t, "onQueue", r)
  /\ UNCHANGED <<queue, cancelable, routineRunning, cancelCalls, cancelled,
                 driverIoCount, gateVars, readyVars, eventVars, lifeVars, powerVars,
                 dispatching, deferVars, auxVars>>

(* ProcessIdleComplete, ProcessPurgeComplete, ProcessReadyNotify: the event *)
(* is forgotten before the driver is called.                                *)
ProcessIdleComplete(t) ==
  /\ \/ AtTurn(t, "idleDone")
     \/ lock = t /\ frame[t].pc = "idleNow"
  /\ idleComplete' = FALSE /\ cancelDispatched' = FALSE
  /\ Window(t, "idleDone", NoRequest)
  /\ UNCHANGED <<req, queue, cancelVars, driverIoCount, queueState, readyVars, readyNotify,
                 purgeComplete, lifeVars, powerVars, dispatching, deferVars, auxVars>>

ProcessPurgeComplete(t) ==
  /\ AtTurn(t, "purgeDone")
  /\ purgeComplete' = FALSE /\ cancelDispatched' = FALSE
  /\ purgeReported' = ("Accept" \notin queueState)
  /\ Window(t, "purgeDone", NoRequest)
  /\ UNCHANGED <<req, queue, cancelVars, driverIoCount, queueState, readyVars, readyNotify,
                 idleComplete, lifeVars, powerVars, dispatching, deferVars,
                 calls, powerCalls, stopAcked>>

ProcessReadyNotify(t) ==
  /\ AtTurn(t, "ready")
  /\ transition' = FALSE
  /\ Window(t, "ready", NoRequest)
  /\ UNCHANGED <<req, queue, cancelVars, driverIoCount, gateVars, forceTransition,
                 powerReferenced, eventVars, lifeVars, powerVars, dispatching, deferVars, auxVars>>

(* The queue is empty and nobody else is in the loop: PowerDereference.     *)
PowerDereference(t) ==
  /\ AtTurn(t, "dereference")
  /\ powerReferenced' = FALSE
  /\ UNCHANGED <<req, queue, cancelVars, driverIoCount, gateVars, transition, forceTransition,
                 eventVars, lifeVars, powerVars, dispatching, deferVars, lock, frame, auxVars>>

(* The last thread in a disposing, empty queue: m_Deleted, m_FinishDisposing. *)
DeleteQueue(t) ==
  /\ AtTurn(t, "delete")
  /\ deleted' = TRUE
  /\ UnlockTo(t, frame[t].after)
  /\ UNCHANGED <<req, queue, cancelVars, driverIoCount, gateVars, readyVars, eventVars,
                 disposing, powerVars, dispatching, deferVars, auxVars>>

(* InsertInDriverOwnedList, Unlock, DispatchRequestToDriver.                *)
Present(t, r) ==
  /\ driverIoCount' = driverIoCount + 1
  /\ req' = [req EXCEPT ![r] = [@ EXCEPT !.list = "owned", !.drv = "held", !.presented = TRUE]]
  /\ Window(t, "io", r)

PresentNew(t) ==
  /\ lock = t /\ frame[t].pc = "dispatch" /\ Turn(t) = "new"
  /\ SetTransitionFromEmpty
  /\ Present(t, frame[t].new)
  /\ UNCHANGED <<queue, cancelVars, gateVars, eventVars, lifeVars, powerVars,
                 dispatching, deferVars, auxVars>>

(* The oldest request leaves m_Queue, then NewRequest takes the tail. If    *)
(* that fails the lock is dropped before the request is counted.            *)
PresentNext(t) ==
  /\ lock = t /\ frame[t].pc = "dispatch" /\ Turn(t) = "next"
  /\ LET r == FirstLive
         n == frame[t].new
         rest == Without(queue, r) IN
     IF n # NoRequest /\ req[n].cancel
     THEN /\ queue' = rest
          /\ req' = [req EXCEPT ![n].irp = "done"]
          /\ Window(t, "insertFailedPresent", r)
          /\ UNCHANGED <<driverIoCount, readyVars>>
     ELSE /\ IF n = NoRequest
             THEN queue' = rest /\ UNCHANGED readyVars
             ELSE queue' = Append(rest, n) /\ CheckTransitionFromEmpty(Len(rest) + 1)
          /\ Present(t, r)
  /\ UNCHANGED <<cancelVars, gateVars, eventVars, lifeVars, powerVars,
                 dispatching, deferVars, auxVars>>

PresentTaken(t) ==
  /\ lock = t /\ frame[t].pc = "present"
  /\ Present(t, frame[t].cur)
  /\ UNCHANGED <<queue, cancelVars, gateVars, readyVars, eventVars, lifeVars, powerVars,
                 dispatching, deferVars, auxVars>>
-----------------------------------------------------------------------------
(* ProcessPowerEvents, one action per case. The lists of requests the       *)
(* driver has: m_DriverOwned, m_PowerNotify, m_PowerDriverNotified.         *)

Relist(S, l) == req' = [r \in Requests |-> IF r \in S THEN [req[r] EXCEPT !.list = l]
                                                     ELSE req[r]]

StartingTransition(t) ==
  /\ AtTurn(t, "power") /\ powerState = "StartingTransition"
  /\ powerIdle' = (powerIdle \/ LastInLoop)
  /\ dispatching' = dispatching - 1
  /\ UnlockTo(t, frame[t].after)
  /\ UNCHANGED <<req, queue, cancelVars, driverIoCount, gateVars, readyVars, eventVars,
                 lifeVars, powerState, deferVars, auxVars>>

(* Stopping, Purge, Restarting: the driver is to hear of all it owns.       *)
BeginNotifying(t) ==
  /\ AtTurn(t, "power") /\ powerState \in {"Stopping", "Purge", "Restarting"}
  /\ powerState' = CASE powerState = "Stopping" -> "StoppingNotifyingDriver"
                     [] powerState = "Purge" -> "PurgeNotifyingDriver"
                     [] OTHER -> "RestartingNotifyingDriver"
  /\ Relist(On("owned"), "notify")
  /\ UNCHANGED <<queue, cancelVars, driverIoCount, gateVars, readyVars, eventVars,
                 lifeVars, powerIdle, dispatching, deferVars, lock, frame, auxVars>>

(* EvtIoStop for one request, unless the driver is cancelling it anyway.    *)
NotifyStop(t) ==
  /\ AtTurn(t, "power")
  /\ powerState \in {"StoppingNotifyingDriver", "PurgeNotifyingDriver"}
  /\ IF On("notify") = {}
     THEN /\ powerState' = IF powerState = "StoppingNotifyingDriver"
                           THEN "StoppingDriverNotified" ELSE "PurgeDriverNotified"
          /\ UNCHANGED <<req, lock, frame>>
     ELSE /\ \E r \in On("notify") :
               /\ req' = [req EXCEPT ![r] = [@ EXCEPT !.list = "notified",
                            !.ack = IF powerState = "PurgeNotifyingDriver" THEN "none" ELSE req[r].ack]]
               /\ IF HasIoStop /\ ~req[r].canceled THEN Window(t, "stop", r)
                                                   ELSE UNCHANGED <<lock, frame>>
          /\ UNCHANGED powerState
  /\ UNCHANGED <<queue, cancelVars, driverIoCount, gateVars, readyVars, eventVars,
                 lifeVars, powerIdle, dispatching, deferVars, auxVars>>

(* EvtIoResume for one request.                                             *)
NotifyResume(t) ==
  /\ AtTurn(t, "power") /\ powerState = "RestartingNotifyingDriver"
  /\ IF On("notify") = {}
     THEN powerState' = "RestartingDriverNotified" /\ UNCHANGED <<req, lock, frame>>
     ELSE /\ \E r \in On("notify") :
               /\ req' = [req EXCEPT ![r].list = "owned"]
               /\ IF ~req[r].canceled THEN Window(t, "resume", r) ELSE UNCHANGED <<lock, frame>>
          /\ UNCHANGED powerState
  /\ UNCHANGED <<queue, cancelVars, driverIoCount, gateVars, readyVars, eventVars,
                 lifeVars, powerIdle, dispatching, deferVars, auxVars>>

PowerOn(t) ==
  /\ AtTurn(t, "power") /\ powerState = "RestartingDriverNotified"
  /\ powerState' = "On"
  /\ dispatching' = dispatching - 1
  /\ UnlockTo(t, frame[t].after)
  /\ UNCHANGED <<req, queue, cancelVars, driverIoCount, gateVars, readyVars, eventVars,
                 lifeVars, powerIdle, deferVars, auxVars>>

DriverNotified == powerState \in {"StoppingDriverNotified", "PurgeDriverNotified"}

(* Requests the driver acknowledged go to a list of this thread's own.      *)
CollectAcknowledged(t) ==
  LET acked == {r \in On("notified") : req[r].ack # "none"} IN
  /\ AtTurn(t, "power") /\ DriverNotified /\ acked # {}
  /\ Relist(acked, t)
  /\ Go(t, "ackLoop")
  /\ UNCHANGED <<queue, cancelVars, driverIoCount, gateVars, readyVars, eventVars,
                 lifeVars, powerVars, dispatching, deferVars, lock, auxVars>>

(* All in-flight requests are accounted for and t is the last in the loop.  *)
\* Mutants: the driver's acknowledgement is not waited for; nobody is last.
MayPowerOffUnacknowledged == LastInLoop
MayNeverPowerOff == On("notified") = {} /\ dispatching = 0

MayPowerOff == On("notified") = {} /\ LastInLoop

\* Mutant: the state that ends the switch is not one of the enumeration.
PowerOffUnknown == powerState' = "PoweredOff" /\ powerIdle' = TRUE

PowerOff == powerState' = "Off" /\ powerIdle' = TRUE

(* ProcessAcknowledgedRequests: back to m_DriverOwned, and for a requeue    *)
(* out of it again after the lock was dropped.                              *)
ProcessAcknowledgedRequest(t) ==
  /\ lock = t /\ frame[t].pc = "ackLoop"
  /\ IF On(t) = {}
     THEN /\ Go(t, "dispatch")
          /\ IF MayPowerOff THEN PowerOff ELSE UNCHANGED powerVars
          /\ UNCHANGED <<req, lock>>
     ELSE /\ \E r \in On(t) :
               /\ req' = [req EXCEPT ![r] = [@ EXCEPT !.list = "owned", !.ack = "none"]]
               /\ Window(t, IF req[r].ack = "requeue" THEN "requeued" ELSE "acked", r)
          /\ UNCHANGED powerVars
  /\ UNCHANGED <<queue, cancelVars, driverIoCount, gateVars, readyVars, eventVars,
                 lifeVars, dispatching, deferVars, auxVars>>

(* A requeued request returns to the head of m_Queue, unless it is being    *)
(* cancelled.                                                               *)
Requeueable(r) == ~cancelDispatched /\ ~req[r].cancel

RequeueAcknowledged(t) ==
  LET r == frame[t].cur IN
  /\ lock = t /\ frame[t].pc = "requeueAcked"
  /\ IF Requeueable(r)
     THEN /\ req' = [req EXCEPT ![r].list = "none"]
          /\ driverIoCount' = driverIoCount - 1
          /\ queue' = <<r>> \o queue
          /\ CheckTransitionFromEmpty(Len(queue) + 1)
          /\ Go(t, "ackLoop")
          /\ UNCHANGED <<canceledOnQueue, lock>>
     ELSE /\ IF GoesToDriver(r)
             THEN /\ req' = [req EXCEPT ![r].canceled = TRUE]
                  /\ canceledOnQueue' = canceledOnQueue \cup {r}
                  /\ UNCHANGED driverIoCount
             ELSE /\ req' = [req EXCEPT ![r] = [@ EXCEPT !.canceled = TRUE, !.irp = "done",
                                        !.list = "none"]]
                  /\ driverIoCount' = driverIoCount - 1
                  /\ UNCHANGED canceledOnQueue
          /\ Window(t, "requeueFailed", NoRequest)
          /\ UNCHANGED <<queue, readyVars>>
  /\ UNCHANGED <<cancelable, routineRunning, cancelCalls, cancelled, gateVars, eventVars,
                 lifeVars, powerVars, dispatching, deferVars, auxVars>>

(* Nothing newly acknowledged: power off, or leave the loop to the driver.  *)
AwaitAcknowledge(t) ==
  /\ AtTurn(t, "power") /\ DriverNotified
  /\ \A r \in On("notified") : req[r].ack = "none"
  /\ IF MayPowerOff
     THEN PowerOff /\ UNCHANGED <<dispatching, lock, frame>>
     ELSE /\ dispatching' = dispatching - 1
          /\ UnlockTo(t, frame[t].after)
          /\ UNCHANGED powerVars
  /\ UNCHANGED <<req, queue, cancelVars, driverIoCount, gateVars, readyVars, eventVars,
                 lifeVars, deferVars, auxVars>>

-----------------------------------------------------------------------------
(* The I/O manager: IRPs arrive and are cancelled.                          *)

Idle(t) == t \in Workers /\ frame[t].pc = "idle"

(* QueueRequest.                                                            *)
QueueRequest(t, r) ==
  /\ Idle(t) /\ Free /\ req[r].irp = "new"
  /\ IF "Accept" \in queueState
     THEN /\ req' = [req EXCEPT ![r].irp = "sent"]
          /\ Enter(t, r, "idle")
     ELSE /\ req' = [req EXCEPT ![r].irp = "done"]
          /\ UNCHANGED <<lock, frame>>
  /\ UNCHANGED <<queue, cancelVars, driverIoCount, gateVars, readyVars, eventVars,
                 lifeVars, powerVars, dispatching, deferVars, auxVars>>

(* IoCancelIrp: the I/O manager takes the cancel routine, if one is set.    *)
CancelIrp(r) ==
  /\ "Cancel" \in Calls /\ ~req[r].cancel
  /\ req[r].irp = "sent" \/ (EarlyCancel /\ req[r].irp = "new")
  /\ req' = [req EXCEPT ![r].cancel = TRUE]
  /\ routineRunning' = IF r \in Elements(queue) \cup cancelable
                       THEN routineRunning \cup {r} ELSE routineRunning
  /\ UNCHANGED <<queue, cancelable, cancelCalls, cancelled, canceledOnQueue, driverIoCount,
                 gateVars, readyVars, eventVars, lifeVars, powerVars, dispatching,
                 deferVars, lock, frame, auxVars>>

(* The routine gets the lock: _IrpCancelForQueue, _IrpCancelForDriver.      *)
IrpCancelForQueue(t, r) ==
  /\ Idle(t) /\ Free /\ r \in routineRunning /\ r \in Elements(queue)
  /\ routineRunning' = routineRunning \ {r}
  /\ queue' = Without(queue, r)
  /\ CancelForQueue(t, r, driverIoCount, "idle")
  /\ UNCHANGED <<cancelable, cancelCalls, cancelled, gateVars, readyVars, eventVars,
                 lifeVars, powerVars, dispatching, deferVars, auxVars>>

IrpCancelForDriver(r) ==
  /\ Free /\ r \in routineRunning /\ r \in cancelable
  /\ routineRunning' = routineRunning \ {r}
  /\ cancelable' = cancelable \ {r}
  /\ req' = [req EXCEPT ![r].canceled = TRUE]
  /\ cancelCalls' = cancelCalls \cup {r}
  /\ UNCHANGED <<queue, cancelled, canceledOnQueue, driverIoCount, gateVars, readyVars,
                 eventVars, lifeVars, powerVars, dispatching, deferVars, lock, frame, auxVars>>

CancelForDriver(r) ==
  /\ Free /\ r \in cancelCalls
  /\ cancelCalls' = cancelCalls \ {r}
  /\ cancelled' = cancelled \cup {r}
  /\ DispatchInternalEventsAny
  /\ UNCHANGED <<req, queue, cancelable, routineRunning, canceledOnQueue, driverIoCount,
                 gateVars, readyVars, eventVars, lifeVars, powerVars, dispatching,
                 deferVars, auxVars>>

-----------------------------------------------------------------------------
(* The driver and the requests it holds.                                    *)

Stopping(r) == \E t \in Threads : frame[t].why = "stop" /\ frame[t].cur = r

(* A driver leaves a request alone once it gave it back with a requeue.     *)
Holds(r) == req[r].drv = "held" /\ req[r].ack # "requeue"

(* WdfRequestStopAcknowledge, inside EvtIoStop.                             *)
StopAcknowledge(r, requeue) ==
  /\ Stopping(r) /\ req[r].ack = "none" /\ req[r].list = "notified"
  /\ req[r].drv = "held" \/ (req[r].drv = "cancelable" /\ ~requeue)
  /\ req' = [req EXCEPT ![r] = [@ EXCEPT !.ack = IF requeue THEN "requeue" ELSE "ack",
                        !.drv = IF requeue THEN "fx" ELSE req[r].drv]]
  /\ stopAcked' = stopAcked \cup {r}
  /\ UNCHANGED <<queue, cancelVars, driverIoCount, gateVars, readyVars, eventVars, lifeVars,
                 powerVars, dispatching, deferVars, lock, frame, calls, powerCalls, purgeReported>>

(* WdfRequestComplete: the IRP goes first, the queue hears of it after.     *)
CompleteRequest(r) ==
  /\ Holds(r) \/ req[r].drv = "told"
  /\ req' = [req EXCEPT ![r] = [@ EXCEPT !.irp = "done", !.drv = "completing"]]
  /\ UNCHANGED <<queue, cancelVars, driverIoCount, gateVars, readyVars, eventVars, lifeVars,
                 powerVars, dispatching, deferVars, lock, frame, auxVars>>

\* Mutant: m_DriverIoCount is not decremented.
CompletedUncounted(r) ==
  /\ Free /\ req[r].drv = "completing"
  /\ req' = [req EXCEPT ![r] = [@ EXCEPT !.list = "none", !.drv = "fx"]]
  /\ DispatchInternalEventsAny
  /\ UNCHANGED <<queue, cancelVars, driverIoCount, gateVars, readyVars, eventVars, lifeVars,
                 powerVars, dispatching, deferVars, auxVars>>

RequestCompletedCallback(r) ==
  /\ Free /\ req[r].drv = "completing"
  /\ req' = [req EXCEPT ![r] = [@ EXCEPT !.list = "none", !.drv = "fx"]]
  /\ driverIoCount' = driverIoCount - 1
  /\ DispatchInternalEventsAny
  /\ UNCHANGED <<queue, cancelVars, gateVars, readyVars, eventVars, lifeVars, powerVars,
                 dispatching, deferVars, auxVars>>

(* WdfRequestMarkCancelable: too late, the driver's cancel routine runs.    *)
MarkCancelable(r) ==
  /\ "Mark" \in Calls /\ Free /\ Holds(r)
  /\ IF cancelDispatched \/ req[r].cancel
     THEN /\ req' = [req EXCEPT ![r] = [@ EXCEPT !.canceled = TRUE, !.drv = "cancelable"]]
          /\ cancelCalls' = cancelCalls \cup {r}
          /\ UNCHANGED cancelable
     ELSE /\ req' = [req EXCEPT ![r].drv = "cancelable"]
          /\ cancelable' = cancelable \cup {r}
          /\ UNCHANGED cancelCalls
  /\ UNCHANGED <<queue, routineRunning, cancelled, canceledOnQueue, driverIoCount, gateVars,
                 readyVars, eventVars, lifeVars, powerVars, dispatching, deferVars,
                 lock, frame, auxVars>>

(* WdfRequestUnmarkCancelable succeeds only before the cancel routine is    *)
(* taken; afterwards the driver must wait for its EvtRequestCancel.         *)
UnmarkCancelable(r) ==
  /\ Free /\ req[r].drv = "cancelable" /\ r \in Revocable
  /\ cancelable' = cancelable \ {r}
  /\ req' = [req EXCEPT ![r].drv = "held"]
  /\ UNCHANGED <<queue, routineRunning, cancelCalls, cancelled, canceledOnQueue, driverIoCount,
                 gateVars, readyVars, eventVars, lifeVars, powerVars, dispatching,
                 deferVars, lock, frame, auxVars>>

(* WdfIoQueueRetrieveNextRequest. A miss while requests whose cancel        *)
(* routine runs are still counted must not lose the next ready event.       *)
GetRequest ==
  /\ "Retrieve" \in Calls /\ Free /\ Type # "Parallel"
  /\ powerState # "Off" /\ "Dispatch" \in queueState /\ queue # <<>>
  /\ IF SomeLive
     THEN /\ queue' = Without(queue, FirstLive)
          /\ driverIoCount' = driverIoCount + 1
          /\ req' = [req EXCEPT ![FirstLive] = [@ EXCEPT !.list = "owned", !.drv = "held",
                                !.presented = TRUE]]
          /\ UNCHANGED forceTransition
     ELSE /\ forceTransition' = TRUE
          /\ UNCHANGED <<queue, driverIoCount, req>>
  /\ UNCHANGED <<cancelVars, gateVars, transition, powerReferenced, eventVars, lifeVars,
                 powerVars, dispatching, deferVars, lock, frame, auxVars>>

(* WdfRequestRequeue, for manual queues.                                    *)
Requeue(t, r) ==
  /\ "Requeue" \in Calls /\ Idle(t) /\ Free /\ Type = "Manual" /\ Holds(r)
  /\ IF Requeueable(r)
     THEN /\ req' = [req EXCEPT ![r] = [@ EXCEPT !.list = "none", !.drv = "fx"]]
          /\ driverIoCount' = driverIoCount - 1
          /\ queue' = <<r>> \o queue
          /\ CheckTransitionFromEmpty(Len(queue) + 1)
          /\ Enter(t, NoRequest, "idle")
          /\ UNCHANGED canceledOnQueue
     ELSE /\ CancelForQueue(t, r, driverIoCount - 1, "lockEnter")
          /\ UNCHANGED <<queue, readyVars>>
  /\ UNCHANGED <<cancelable, routineRunning, cancelCalls, cancelled, gateVars, eventVars,
                 lifeVars, powerVars, dispatching, deferVars, auxVars>>

(* WdfRequestForwardToIoQueue: off the list but still counted until the     *)
(* other queue has taken it, back on the list when that refuses it.         *)
ForwardBegin(r) ==
  /\ "Forward" \in Calls /\ Free /\ Holds(r)
  /\ req' = [req EXCEPT ![r] = [@ EXCEPT !.list = "none", !.drv = "forwarding"]]
  /\ UNCHANGED <<queue, cancelVars, driverIoCount, gateVars, readyVars, eventVars, lifeVars,
                 powerVars, dispatching, deferVars, lock, frame, auxVars>>

ForwardRefused(r) ==
  /\ Free /\ req[r].drv = "forwarding"
  /\ req' = [req EXCEPT ![r] = [@ EXCEPT !.list = "owned", !.drv = "held"]]
  /\ UNCHANGED <<queue, cancelVars, driverIoCount, gateVars, readyVars, eventVars, lifeVars,
                 powerVars, dispatching, deferVars, lock, frame, auxVars>>

ForwardDone(r) ==
  /\ Free /\ req[r].drv = "forwarding"
  /\ req' = [req EXCEPT ![r] = [@ EXCEPT !.irp = "done", !.drv = "fx"]]
  /\ driverIoCount' = driverIoCount - 1
  /\ DispatchInternalEventsAny
  /\ UNCHANGED <<queue, cancelVars, gateVars, readyVars, eventVars, lifeVars, powerVars,
                 dispatching, deferVars, auxVars>>
-----------------------------------------------------------------------------
(* The driver controls the queue.                                           *)

(* Dispose was called. From its purge on the queue stays closed: Dispose    *)
(* ASSERTs that nobody starts, stops or restarts a queue that is being      *)
(* deleted, and DispatchEvents that a deleted one gets no request.          *)
BeingDisposed == disposing \/ \E t \in Workers : frame[t].op = "dispose"

(* SetState: the accept bit cannot be set while the queue is shut down.     *)
SetAccept(S) == IF "Shutdown" \in S THEN S ELSE S \cup {"Accept"}

Spend(call) == call \in Calls /\ calls < MaxCalls /\ calls' = calls + 1

(* Anything that lets requests in again ends what a purge reported.         *)
Accepting(S) == purgeReported' = (purgeReported /\ "Accept" \notin S)

QueueStart(t) ==
  /\ Spend("Start") /\ Idle(t) /\ Free /\ ~BeingDisposed
  /\ queueState' = SetAccept(queueState) \cup {"Dispatch"}
  /\ Accepting(queueState')
  /\ cancelDispatched' = FALSE
  /\ ForceReadyIfQueued
  /\ Enter(t, NoRequest, "idle")
  /\ UNCHANGED <<req, queue, cancelVars, driverIoCount, eventVars, lifeVars, powerVars,
                 dispatching, deferVars, powerCalls, stopAcked>>

(* QueueIdle, with or without cancelling (StopAndPurge) and IdleComplete.   *)
QueueIdle(t, cancelRequests, callback) ==
  /\ Spend(IF cancelRequests THEN "StopAndPurge" ELSE "Stop") /\ Idle(t) /\ Free /\ ~BeingDisposed
  /\ ~(callback /\ idleComplete)
  /\ idleComplete' = (idleComplete \/ callback)
  /\ queueState' = SetAccept(queueState) \ {"Dispatch"}
  /\ Accepting(queueState')
  /\ cancelDispatched' = (cancelDispatched \/ cancelRequests)
  /\ IF cancelRequests
     THEN /\ req' = [r \in Requests |->
                       IF r \in Elements(queue) /\ ~req[r].cancel
                       THEN [req[r] EXCEPT !.canceled = TRUE] ELSE req[r]]
          /\ frame' = [frame EXCEPT ![t] = [@ EXCEPT !.pc = "drainQueue", !.op = "stop"]]
     ELSE Go(t, "lockEnter") /\ UNCHANGED req
  /\ UNCHANGED <<queue, cancelVars, driverIoCount, readyVars, readyNotify, purgeComplete,
                 lifeVars, powerVars, dispatching, deferVars, lock, powerCalls, stopAcked>>

(* QueuePurge up to its first unlock; a drain cancels nothing.              *)
BeginPurge(t, cancelRequests, callback, op) ==
  /\ ~(callback /\ purgeComplete)
  /\ purgeComplete' = (purgeComplete \/ callback)
  /\ queueState' = queueState \ {"Accept"}
  /\ cancelDispatched' = (cancelDispatched \/ cancelRequests)
  /\ frame' = [frame EXCEPT ![t] = [@ EXCEPT !.pc = IF cancelRequests THEN "drainQueue" ELSE "lockEnter",
                            !.op = op]]
  /\ UNCHANGED <<req, queue, cancelVars, driverIoCount, readyVars, readyNotify, idleComplete,
                 lifeVars, powerVars, dispatching, deferVars, lock,
                 powerCalls, stopAcked, purgeReported>>

QueuePurge(t, cancelRequests, callback) ==
  /\ Spend(IF cancelRequests THEN "Purge" ELSE "Drain") /\ Idle(t) /\ Free /\ ~deleted
  /\ BeginPurge(t, cancelRequests, callback, "purge")

(* Dispose begins with a purge of its own.                                  *)
Dispose(t) ==
  /\ Spend("Dispose") /\ Idle(t) /\ Free /\ ~BeingDisposed
  /\ BeginPurge(t, TRUE, FALSE, "dispose")

(* Cancel what is queued, one request for each time the lock is taken. A    *)
(* StopAndPurge ends at the first request that came after it began; putting *)
(* that back at the head fails when its IRP is being cancelled.             *)
DrainQueue(t) ==
  /\ frame[t].pc = "drainQueue" /\ Free
  /\ IF ~SomeLive \/ (frame[t].op = "stop" /\ ~req[FirstLive].canceled
                                           /\ ~req[FirstLive].cancel)
     THEN /\ Go(t, "drainDriver")
          /\ queue' = IF SomeLive THEN <<FirstLive>> \o Without(queue, FirstLive) ELSE queue
          /\ UNCHANGED <<req, driverIoCount, canceledOnQueue, lock>>
     ELSE /\ queue' = Without(queue, FirstLive)
          /\ CancelForQueue(t, FirstLive, driverIoCount, "drainQueue")
  /\ UNCHANGED <<cancelable, routineRunning, cancelCalls, cancelled, gateVars, readyVars,
                 eventVars, lifeVars, powerVars, dispatching, deferVars, auxVars>>

(* Then what the driver marked cancelable.                                  *)
DrainDriver(t) ==
  /\ frame[t].pc = "drainDriver" /\ Free
  /\ IF Revocable = {}
     THEN Go(t, "lockEnter") /\ UNCHANGED <<req, cancelable>>
     ELSE \E r \in Revocable :
            /\ cancelable' = cancelable \ {r}
            /\ req' = [req EXCEPT ![r].canceled = TRUE]
            /\ frame' = [frame EXCEPT ![t] = [@ EXCEPT !.pc = "cancelDriver", !.cur = r]]
  /\ UNCHANGED <<queue, routineRunning, cancelCalls, cancelled, canceledOnQueue, driverIoCount,
                 gateVars, readyVars, eventVars, lifeVars, powerVars, dispatching,
                 deferVars, lock, auxVars>>

DrainCancelForDriver(t) ==
  /\ frame[t].pc = "cancelDriver" /\ Free
  /\ cancelled' = cancelled \cup {frame[t].cur}
  /\ DispatchInternalEvents(t, "drainDriver")
  /\ UNCHANGED <<req, queue, cancelable, routineRunning, cancelCalls, canceledOnQueue,
                 driverIoCount, gateVars, readyVars, eventVars, lifeVars, powerVars,
                 dispatching, deferVars, auxVars>>

(* The operation takes the lock again and ends in DispatchEvents.           *)
LockAndEnter(t) ==
  /\ frame[t].pc = "lockEnter" /\ Free
  /\ lock' = t
  /\ frame' = [frame EXCEPT ![t] = [@ EXCEPT !.pc = "enter", !.new = NoRequest, !.cur = NoRequest,
       !.op = IF frame[t].op = "dispose" THEN "dispose" ELSE "none",
       !.after = CASE frame[t].op = "dispose" -> "setDisposing"
                      [] frame[t].op = "powerPurge" -> "setPurge"
                      [] OTHER -> "idle"]]
  /\ UNCHANGED <<req, queue, cancelVars, driverIoCount, gateVars, readyVars, eventVars,
                 lifeVars, powerVars, dispatching, deferVars, auxVars>>

SetDisposing(t) ==
  /\ frame[t].pc = "setDisposing" /\ Free
  /\ disposing' = TRUE
  /\ Enter(t, NoRequest, "waitDisposed")
  /\ UNCHANGED <<req, queue, cancelVars, driverIoCount, gateVars, readyVars, eventVars,
                 deleted, powerVars, dispatching, deferVars, auxVars>>

FinishDisposing(t) ==
  /\ frame[t].pc = "waitDisposed" /\ deleted
  /\ Go(t, "idle")
  /\ UNCHANGED <<req, queue, cancelVars, driverIoCount, gateVars, readyVars, eventVars,
                 lifeVars, powerVars, dispatching, deferVars, lock, auxVars>>

(* WdfIoQueueReadyNotify registers EvtIoQueueState, or takes it back.       *)
ReadyNotify(t, register) ==
  /\ Spend("ReadyNotify") /\ Idle(t) /\ Free /\ Type = "Manual" /\ ~deleted
  /\ register = ~readyNotify
  /\ ~register => "Dispatch" \notin queueState
  /\ readyNotify' = register
  /\ Enter(t, NoRequest, "idle")
  /\ UNCHANGED <<req, queue, cancelVars, driverIoCount, gateVars, readyVars, idleComplete,
                 purgeComplete, lifeVars, powerVars, dispatching, deferVars,
                 powerCalls, stopAcked, purgeReported>>

-----------------------------------------------------------------------------
(* The deferred dispatcher: a DPC, or a work item for a passive queue.      *)

DeferredDispatch ==
  /\ frame[DeferThread].pc = "idle" /\ deferQueued /\ Free
  /\ requeueDeferred' = FALSE
  /\ Enter(DeferThread, NoRequest, "deferredEnd")
  /\ UNCHANGED <<req, queue, cancelVars, driverIoCount, gateVars, readyVars, eventVars,
                 lifeVars, powerVars, dispatching, deferQueued, auxVars>>

DeferredEnd ==
  /\ frame[DeferThread].pc = "deferredEnd" /\ Free
  /\ deferQueued' = (~deleted /\ requeueDeferred)
  /\ requeueDeferred' = (~deleted /\ requeueDeferred)
  /\ Go(DeferThread, "idle")
  /\ UNCHANGED <<req, queue, cancelVars, driverIoCount, gateVars, readyVars, eventVars,
                 lifeVars, powerVars, dispatching, lock, auxVars>>

-----------------------------------------------------------------------------
(* The power thread: FxPkgIo takes the queue down in two phases, and up.    *)

AtPower(pc) == frame[PowerThread].pc = pc
\* Mutant: the power thread leaves the work to a thread in the loop.
PowerEnterIfEmpty(pc) == DispatchInternalEvents(PowerThread, pc)

PowerEnter(pc) == Enter(PowerThread, NoRequest, pc)

StartPowerTransitionOff ==
  /\ "Power" \in Calls /\ AtPower("on") /\ Free /\ PowerManaged /\ ~disposing
  /\ powerCalls < MaxPower /\ powerCalls' = powerCalls + 1
  /\ powerState' = "StartingTransition" /\ powerIdle' = FALSE
  /\ PowerEnter("waitStart")
  /\ UNCHANGED <<req, queue, cancelVars, driverIoCount, gateVars, readyVars, eventVars,
                 lifeVars, dispatching, deferVars, calls, stopAcked, purgeReported>>

WaitPowerIdle ==
  /\ powerIdle
  /\ \/ AtPower("waitStart") /\ Go(PowerThread, "started")
     \/ AtPower("waitHold") /\ Go(PowerThread, "off")
     \/ AtPower("waitPurge") /\ Go(PowerThread, "off")
  /\ UNCHANGED <<req, queue, cancelVars, driverIoCount, gateVars, readyVars, eventVars,
                 lifeVars, powerVars, dispatching, deferVars, lock, auxVars>>

StopProcessingForPowerHold ==
  /\ AtPower("started") /\ Free
  /\ powerState' = "Stopping" /\ powerIdle' = FALSE
  /\ PowerEnter("waitHold")
  /\ UNCHANGED <<req, queue, cancelVars, driverIoCount, gateVars, readyVars, eventVars,
                 lifeVars, dispatching, deferVars, auxVars>>

(* Purging: a managed queue when power is already off, any other one while  *)
(* it is on. First the shutdown bit, then QueuePurge, then the power state. *)
SetStateForShutdown ==
  /\ "PowerPurge" \in Calls /\ Free /\ ~disposing
  /\ AtPower(IF PowerManaged THEN "off" ELSE "on")
  /\ "Shutdown" \notin queueState
  /\ powerCalls < MaxPower /\ powerCalls' = powerCalls + 1
  /\ queueState' = (queueState \ {"Accept"}) \cup {"Shutdown"}
  /\ Go(PowerThread, "purge")
  /\ UNCHANGED <<req, queue, cancelVars, driverIoCount, cancelDispatched, readyVars, eventVars,
                 lifeVars, powerVars, dispatching, deferVars, lock,
                 calls, stopAcked, purgeReported>>

PowerPurge ==
  /\ AtPower("purge") /\ Free /\ ~deleted
  /\ BeginPurge(PowerThread, TRUE, FALSE, "powerPurge")
  /\ UNCHANGED calls

StopProcessingForPowerPurge ==
  /\ AtPower("setPurge") \/ (AtPower("purge") /\ deleted)
  /\ Free
  /\ powerState' = "Purge" /\ powerIdle' = FALSE
  /\ stopAcked' = {}
  /\ PowerEnter("waitPurge")
  /\ UNCHANGED <<req, queue, cancelVars, driverIoCount, gateVars, readyVars, eventVars,
                 lifeVars, dispatching, deferVars, calls, powerCalls, purgeReported>>

(* The PDO is restarted: the queue opens again.                             *)
ResetStateForRestart ==
  /\ AtPower("off") /\ Free /\ "Shutdown" \in queueState /\ ~BeingDisposed
  /\ queueState' = (queueState \ {"Shutdown"}) \cup {"Accept"}
  /\ Accepting(queueState')
  /\ IF PowerManaged THEN UNCHANGED <<powerState, frame>>
                     ELSE powerState' = "On" /\ Go(PowerThread, "on")
  /\ UNCHANGED <<req, queue, cancelVars, driverIoCount, cancelDispatched, readyVars, eventVars,
                 lifeVars, powerIdle, dispatching, deferVars, lock, calls, powerCalls, stopAcked>>

ResumeProcessingForPower ==
  /\ AtPower("off") /\ Free /\ "Shutdown" \notin queueState /\ ~disposing /\ PowerManaged
  /\ powerState' = "Restarting"
  /\ stopAcked' = {}
  /\ PowerEnter("resumed")
  /\ UNCHANGED <<req, queue, cancelVars, driverIoCount, gateVars, readyVars, eventVars,
                 lifeVars, powerIdle, dispatching, deferVars, calls, powerCalls, purgeReported>>

StartPowerTransitionOn ==
  /\ AtPower("resumed") /\ Free
  /\ ForceReadyIfQueued
  /\ PowerEnter("on")
  /\ UNCHANGED <<req, queue, cancelVars, driverIoCount, gateVars, eventVars,
                 lifeVars, powerVars, dispatching, deferVars, auxVars>>

-----------------------------------------------------------------------------
DispatchStep(t) ==
  \/ EnterDispatchEvents(t) \/ EnterDeleted(t) \/ EnterDeferred(t)
  \/ InsertNewRequest(t) \/ Relock(t) \/ LeaveDispatchEvents(t)
  \/ ProcessCancelledRequests(t) \/ ProcessCancelledRequestsOnQueue(t)
  \/ ProcessIdleComplete(t) \/ ProcessPurgeComplete(t) \/ ProcessReadyNotify(t)
  \/ PowerDereference(t) \/ DeleteQueue(t)
  \/ PresentNew(t) \/ PresentNext(t) \/ PresentTaken(t)
  \/ StartingTransition(t) \/ BeginNotifying(t) \/ NotifyStop(t) \/ NotifyResume(t)
  \/ PowerOn(t) \/ CollectAcknowledged(t) \/ ProcessAcknowledgedRequest(t)
  \/ RequeueAcknowledged(t) \/ AwaitAcknowledge(t)

(* What a thread in the middle of an operation does next.                   *)
ThreadStep(t) ==
  \/ DispatchStep(t) \/ CompleteCanceled(t)
  \/ DrainQueue(t) \/ DrainDriver(t) \/ DrainCancelForDriver(t) \/ LockAndEnter(t)
  \/ SetDisposing(t) \/ FinishDisposing(t)

DeferStep == DeferredDispatch \/ DeferredEnd

PowerDown == StartPowerTransitionOff \/ SetStateForShutdown

PowerStep ==
  \/ WaitPowerIdle \/ StopProcessingForPowerHold \/ PowerPurge
  \/ StopProcessingForPowerPurge \/ ResetStateForRestart \/ ResumeProcessingForPower
  \/ StartPowerTransitionOn

CancelStep(r) ==
  \/ \E t \in Workers : IrpCancelForQueue(t, r)
  \/ IrpCancelForDriver(r) \/ CancelForDriver(r)

DriverCall(t) ==
  \/ QueueStart(t) \/ Dispose(t)
  \/ \E b, c \in BOOLEAN : QueueIdle(t, b, c) \/ QueuePurge(t, b, c)
  \/ \E b \in BOOLEAN : ReadyNotify(t, b)

DriverStep(r) ==
  \/ \E b \in BOOLEAN : StopAcknowledge(r, b)
  \/ CompleteRequest(r) \/ MarkCancelable(r) \/ UnmarkCancelable(r)
  \/ \E t \in Workers : Requeue(t, r)
  \/ ForwardBegin(r) \/ ForwardRefused(r)

(* The framework's half of what the driver began.                           *)
FinishStep(r) == RequestCompletedCallback(r) \/ ForwardDone(r)

Next ==
  \/ \E t \in Threads : ThreadStep(t)
  \/ DeferStep \/ PowerDown \/ PowerStep
  \/ \E t \in Workers : DriverCall(t) \/ \E r \in Requests : QueueRequest(t, r)
  \/ \E r \in Requests : CancelIrp(r) \/ CancelStep(r) \/ DriverStep(r) \/ FinishStep(r)
  \/ GetRequest

Spec == Init /\ [][Next]_vars
-----------------------------------------------------------------------------
(* Invariants.                                                              *)

TypeOK ==
  /\ req \in [Requests -> Request]
  /\ queue \in Seq(Requests)
  /\ cancelable \subseteq Requests /\ routineRunning \subseteq Requests
  /\ cancelCalls \subseteq Requests /\ cancelled \subseteq Requests
  /\ canceledOnQueue \subseteq Requests
  /\ driverIoCount \in Int /\ dispatching \in Int
  /\ queueState \subseteq {"Accept", "Dispatch", "Shutdown"}
  /\ {cancelDispatched, transition, forceTransition, powerReferenced, readyNotify,
      idleComplete, purgeComplete, disposing, deleted, powerIdle, deferQueued,
      requeueDeferred, purgeReported} \subseteq BOOLEAN
  /\ powerState \in PowerStates
  /\ lock \in Threads \cup {NoThread}
  /\ frame \in [Threads -> Frame]
  /\ calls \in 0..MaxCalls /\ powerCalls \in 0..MaxPower
  /\ stopAcked \subseteq Requests

InLoop(t) == frame[t].pc = "window" \/ frame[t].pc \in LoopPoints

(* In how many places of the queue a request is.                            *)
Places(r) ==
  Cardinality({i \in 1..Len(queue) : queue[i] = r})
  + (IF req[r].list # "none" \/ req[r].drv = "forwarding" THEN 1 ELSE 0)
  + Cardinality({t \in Threads : frame[t].new = r})
  + Cardinality({t \in Threads : frame[t].cur = r /\
                   (frame[t].pc = "present" \/ frame[t].why = "insertFailedPresent")})

(* A pending request is in exactly one place - queued, on an owner list, or *)
(* in the hands of one thread - whatever interleaving of completion,        *)
(* cancellation, requeue, forward and power notification happened, and one  *)
(* whose IRP was completed is in none, up to the completing driver's call   *)
(* of RequestCompletedCallback. A request in two places is completed twice. *)
OneOwner ==
  \A r \in Requests :
    Places(r) = CASE req[r].irp = "sent" -> 1
                  [] req[r].irp = "done" /\ req[r].drv = "completing" -> 1
                  [] OTHER -> 0

(* m_DriverIoCount is what the driver owns: purge, stop, power and deletion *)
(* all wait for it, and the dispatch limits compare with it.                *)
CountExact ==
  driverIoCount = Cardinality({r \in Requests : req[r].list # "none"})
                  + Cardinality({r \in Requests : req[r].drv = "forwarding"})

(* The cancel paths do not meet: a request the driver marked cancelable is  *)
(* still cancelable, or in exactly one step of being cancelled, so that the *)
(* driver's cancel routine is called once; and a cancel routine that the    *)
(* I/O manager took finds its request still on the list it was set for.     *)
OneCancelPath ==
  /\ \A r \in Requests :
       Cardinality({S \in {1, 2, 3, 4} :
           r \in CASE S = 1 -> cancelable [] S = 2 -> cancelCalls [] S = 3 -> cancelled
                   [] OTHER -> {frame[t].cur : t \in {u \in Threads : frame[u].pc = "cancelDriver"}}})
         = IF req[r].drv = "cancelable" THEN 1 ELSE 0
  /\ routineRunning \subseteq Elements(queue) \cup cancelable

(* A sequential queue has one request with the driver, a counted parallel   *)
(* one at most its limit, however many threads present requests.            *)
PresentedBound ==
  ~HasCanceledOnQueue =>
    driverIoCount <= CASE Type = "Sequential" -> 1
                       [] Type = "Parallel" -> MaxParallel
                       [] OTHER -> Cardinality(Requests)

(* Between the release of the power thread from StartPowerTransitionOff and *)
(* power on again no EvtIo* or ready callback of a managed queue runs: the  *)
(* first phase waited for all of them, and no thread presents a request in  *)
(* between.                                                                 *)
NoIoCallbackWithoutPower ==
  PowerManaged /\ (powerState \notin {"On", "StartingTransition"} \/ frame[PowerThread].pc = "started") =>
    \A t \in Threads : frame[t].why \notin {"io", "ready"}

(* Once the queue is off, every request the driver still has was stop-      *)
(* acknowledged by it: "all of the device drivers in-flight I/O has been    *)
(* stopped and accounted for", so the hardware may lose power.              *)
OffMeansAcknowledged ==
  powerState = "Off" =>
    \A r \in Requests : req[r].drv \in {"held", "cancelable", "told", "forwarding"} => r \in stopAcked

(* ASSERTs of StartPowerTransitionOff and StartPowerTransitionOn: when      *)
(* ResumeProcessingForPower returns the queue is on, whatever thread ran    *)
(* the resume notifications.                                                *)
ResumedMeansOn ==
  frame[PowerThread].pc \in {"resumed", "on"} /\ ~deleted => powerState = "On"

(* After EvtIoQueuePurgeComplete and until the queue accepts again nothing  *)
(* is pending anywhere, not even in a thread about to present it.           *)
PurgedMeansEmpty ==
  purgeReported => \A r \in Requests : req[r].irp # "sent" /\ req[r].drv = "fx"

(* A queue of the power policy owner holds its power reference as long as   *)
(* it has a request, and when all threads have left an empty queue it has   *)
(* given the reference back.                                                *)
PowerReferenceTracksIo ==
  PolicyOwner /\ PowerManaged =>
    /\ queue # <<>> \/ driverIoCount > 0 => powerReferenced
    /\ queue = <<>> /\ driverIoCount = 0 /\ Free /\ dispatching = 0 /\ ~deferQueued
         /\ (\A t \in Threads : frame[t].pc \notin {"completeCanceled", "lockEnter"})
         => ~powerReferenced

(* A deleted queue is empty and no thread is in its loop: ASSERTs of        *)
(* Dispose after the wait.                                                  *)
DeletedMeansEmpty ==
  deleted => /\ queue = <<>> /\ driverIoCount = 0 /\ ~powerReferenced
             /\ cancelled = {} /\ canceledOnQueue = {}
             /\ \A t \in Threads : ~InLoop(t)
=============================================================================
