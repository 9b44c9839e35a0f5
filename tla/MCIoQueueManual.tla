--------------------------- MODULE MCIoQueueManual ---------------------------
(***************************************************************************)
(* A manual queue and the driver of the WdfIoQueueReadyNotify examples: in *)
(* EvtIoQueueState it retrieves requests until there are no more. missed   *)
(* holds the threads whose callback was told that; only then it returns.   *)
(***************************************************************************)
EXTENDS MCIoQueue

VARIABLE missed

manualVars == <<vars, missed>>

InReady(t) == frame[t].why = "ready"

ManualInit == Init /\ missed = {}

(* WdfIoQueueRetrieveNextRequest in the callback finds a request.           *)
RetrieveHit ==
  /\ \E t \in Threads \ missed : InReady(t)
  /\ SomeLive /\ GetRequest
  /\ UNCHANGED missed

(* It finds none, or is refused since the queue is off or stopped.          *)
RetrieveMiss(t) ==
  /\ InReady(t) /\ t \notin missed /\ Free
  /\ \/ GetRequest /\ ~SomeLive
     \/ /\ queue = <<>> \/ powerState = "Off" \/ "Dispatch" \notin queueState
        /\ UNCHANGED vars
  /\ missed' = missed \cup {t}

ReturnReady(t) ==
  /\ InReady(t) /\ t \in missed
  /\ Relock(t)
  /\ missed' = missed \ {t}

Other ==
  /\ Next
  /\ \A t \in Threads : InReady(t) => frame'[t] = frame[t]
  /\ UNCHANGED missed

ManualNext ==
  \/ RetrieveHit
  \/ \E t \in Threads : RetrieveMiss(t) \/ ReturnReady(t)
  \/ Other

ThreadMove(t) == ReturnReady(t) \/ (ThreadStep(t) /\ ~InReady(t) /\ UNCHANGED missed)

ManualSpec ==
  /\ ManualInit /\ [][ManualNext]_manualVars
  /\ \A t \in Threads : WF_manualVars(ThreadMove(t)) /\ WF_manualVars(RetrieveMiss(t))
  /\ WF_manualVars(RetrieveHit)
  /\ WF_manualVars(PowerStep /\ UNCHANGED missed)
  /\ \A r \in Requests :
       /\ WF_manualVars(CancelStep(r) /\ UNCHANGED missed)
       /\ WF_manualVars(FinishStep(r) /\ UNCHANGED missed)
       /\ WF_manualVars(CompleteRequest(r) /\ UNCHANGED missed)

(* No ready notification is lost: once EvtIoQueueState is registered, every *)
(* request is retrieved and completed by a driver that only retrieves in    *)
(* the callback, though a cancellation may make a retrieve come back empty  *)
(* while the queue still counts a request, and power goes and comes back.   *)
ReadyNotLost ==
  \A r \in Requests :
    readyNotify /\ req[r].irp = "sent" ~> req[r].irp = "done"
=============================================================================
