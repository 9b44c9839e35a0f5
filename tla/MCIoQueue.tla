------------------------------ MODULE MCIoQueue ------------------------------
(***************************************************************************)
(* IoQueue for TLC: symmetry for the safety runs, fairness and liveness    *)
(* properties for the others.                                              *)
(***************************************************************************)
EXTENDS IoQueue, TLC

Symmetric == Permutations(Requests) \cup Permutations(Workers)

(* Threads are scheduled and get the spin lock in the end, callbacks        *)
(* return, and the I/O manager and the framework finish what they began.    *)
(* Nothing makes an IRP arrive, the driver call or the system power down.   *)
FrameworkFairness ==
  /\ \A t \in Threads : WF_vars(ThreadStep(t))
  /\ WF_vars(DeferStep) /\ WF_vars(PowerStep)
  /\ \A r \in Requests : WF_vars(CancelStep(r)) /\ WF_vars(FinishStep(r))

(* A driver that completes, in the end, every request it holds; what it     *)
(* marked cancelable it first takes back.                                   *)
DriverFairness ==
  \A r \in Requests : WF_vars(UnmarkCancelable(r)) /\ SF_vars(CompleteRequest(r))

FrameworkSpec == Spec /\ FrameworkFairness

(* FxPkgIo starts to power a queue down and waits: it is released as soon   *)
(* as the callbacks that run return, whatever requests the driver keeps.    *)
TransitionStarts ==
  frame[PowerThread].pc = "waitStart" ~> frame[PowerThread].pc # "waitStart"

(* A cancelled request that the driver made cancelable, and did not take    *)
(* back, gets its EvtRequestCancel: no cancel is left on a list that no     *)
(* thread looks at, also while power goes down and comes back.              *)
CancelDelivered ==
  \A r \in Requests : r \in cancelCalls \cup cancelled ~> req[r].drv # "cancelable"

(* Power down ends, when the driver acknowledges or completes what it has.  *)
PowerDownEnds ==
  DriverFairness => (frame[PowerThread].pc = "waitHold" ~> frame[PowerThread].pc = "off")

(* Every request that the queue accepted is completed in the end, though    *)
(* it waited behind others, for power or for the deferred dispatcher,       *)
(* unless the driver stopped the queue.                                     *)
EveryRequestCompletes ==
  DriverFairness =>
    \A r \in Requests :
      req[r].irp = "sent" ~> req[r].irp = "done" \/ "Dispatch" \notin queueState

(* A driver that asked to hear of the end of a purge, or of a stop, hears.  *)
PurgeCompletes == DriverFairness => (purgeComplete ~> ~purgeComplete)
IdleCompletes  == DriverFairness => (idleComplete ~> ~idleComplete)

(* WdfIoQueuePurge and Dispose: the thread that deletes the queue returns.  *)
DisposeReturns ==
  DriverFairness =>
    \A t \in Workers : frame[t].op = "dispose" ~> deleted /\ frame[t].pc = "idle"
=============================================================================
