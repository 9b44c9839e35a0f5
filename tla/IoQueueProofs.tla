---------------------------- MODULE IoQueueProofs ----------------------------
(***************************************************************************)
(* Type correctness of IoQueue. The frames carry most of it: a thread      *)
(* leaves the lock in the middle of the loop with a request in hand and    *)
(* must find it there when it is back.                                     *)
(*                                                                         *)
(* Then the protocol of power: a managed queue does not present requests   *)
(* while power is down, and is on when the power thread has resumed it     *)
(* (NoIoCallbackWithoutPower, ResumedMeansOn), for any number of threads   *)
(* and requests.                                                           *)
(***************************************************************************)
EXTENDS IoQueue, FiniteSetTheorems, SequenceTheorems, WellFoundedInduction, TLAPS

Less == {p \in Nat \X Nat : p[1] < p[2]}

(* A set of numbers that is not empty has a least one.                      *)
LEMMA LeastNatural ==
  ASSUME NEW S \in SUBSET Nat, S # {}
  PROVE  \E i \in S : \A j \in S : i <= j
<1>1. IsWellFoundedOn(Less, Nat)
  BY NatLessThanWellFounded DEF OpToRel, Less
<1>2. PICK i \in S : \A j \in S : <<j, i>> \notin Less
  BY <1>1, WFMin
<1>3. \A j \in S : ~ (j < i)
  BY <1>2 DEF Less
<1> QED BY <1>3

(* There are finitely many threads.                                         *)
LEMMA ThreadsFinite == IsFiniteSet(Threads)
<1>1. IsFiniteSet({PowerThread, DeferThread})
  <2>1. IsFiniteSet({PowerThread})
    BY FS_Singleton
  <2>2. IsFiniteSet({PowerThread} \cup {DeferThread})
    BY <2>1, FS_AddElement
  <2>3. {PowerThread} \cup {DeferThread} = {PowerThread, DeferThread}
    OBVIOUS
  <2> QED BY <2>2, <2>3
<1>2. IsFiniteSet(Workers)
  BY ThreadAssumption
<1> QED BY <1>1, <1>2, FS_Union DEF Threads

(* GetNextRequest finds a request of m_Queue when there is one it may take. *)
LEMMA FirstLiveIsQueued ==
  ASSUME queue \in Seq(Requests), SomeLive
  PROVE  /\ FirstLive \in Elements(queue) /\ FirstLive \in Requests
         /\ FirstLive \notin routineRunning
<1>1. LiveIndexes \subseteq 1..Len(queue) /\ LiveIndexes # {} /\ Len(queue) \in Nat
  BY DEF LiveIndexes, SomeLive
<1>2. \E i \in LiveIndexes : \A j \in LiveIndexes : i <= j
  BY <1>1, LeastNatural
<1>3. PICK i \in LiveIndexes : FirstLive = queue[i]
  BY <1>2 DEF FirstLive
<1> QED BY <1>1, <1>3 DEF Elements, LiveIndexes

(* Removing a request from a list leaves a list.                            *)
LEMMA WithoutType ==
  ASSUME NEW S, NEW s \in Seq(S), NEW r \in Elements(s)
  PROVE  Without(s, r) \in Seq(S)
<1> DEFINE i == CHOOSE i \in 1..Len(s) : s[i] = r
<1>1. i \in 1..Len(s) /\ Len(s) \in Nat
  BY DEF Elements
<1>2. \A k \in 1..Len(s) : s[k] \in S
  OBVIOUS
<1>3. SubSeq(s, 1, i - 1) \in Seq(S)
  <2> HIDE DEF i
  <2> QED BY <1>1, <1>2, SubSeqProperties
<1>4. SubSeq(s, i + 1, Len(s)) \in Seq(S)
  <2> HIDE DEF i
  <2> QED BY <1>1, <1>2, SubSeqProperties
<1> QED BY <1>3, <1>4, ConcatProperties DEF Without


-----------------------------------------------------------------------------
(* Types, a part of the state at a time.                                    *)

Points == LockedPoints \cup {"window"} \cup FreePoints

(* A thread has a reason to be outside the lock only in a window, and has a *)
(* request in hand where it will use it.                                    *)
Takes(f) == \/ f.pc \in {"present", "requeueAcked", "cancelDriver"}
            \/ f.why \in {"insertFailedPresent", "requeued"}

SoundFrame == {f \in Frame : /\ f.why # "none" => f.pc = "window"
                             /\ f.after # "cancelDriver"
                             /\ Takes(f) => f.cur \in Requests}

ReqOK   == req \in [Requests -> Request]
FrameOK == frame \in [Threads -> SoundFrame]

(* What a frame holds.                                                      *)
LEMMA FrameFields ==
  ASSUME FrameOK, NEW t \in Threads
  PROVE  /\ frame[t] \in SoundFrame /\ frame[t] \in Frame
         /\ frame[t].pc \in Points
         /\ frame[t].after \in FreePoints \ {"cancelDriver"}
         /\ frame[t].new \in Requests \cup {NoRequest}
         /\ frame[t].cur \in Requests \cup {NoRequest}
BY DEF FrameOK, SoundFrame, Takes, Frame, Points

(* A step that moves no thread but t.                                        *)
Moves(t) == frame' = [frame EXCEPT ![t] = frame'[t]]

(* The steps of a thread keep its frame sound: going on at another point,   *)
LEMMA GoType ==
  ASSUME FrameOK, NEW t \in Threads, NEW pc \in Points \ {"window"},
         frame[t].pc # "window", Go(t, pc),
         pc \notin {"present", "requeueAcked", "cancelDriver"}
  PROVE  FrameOK'
<1>1. [frame[t] EXCEPT !.pc = pc] \in SoundFrame
  <2>1. frame[t].why = "none"
    BY DEF FrameOK, SoundFrame
  <2> QED BY <2>1 DEF FrameOK, SoundFrame, Takes, Frame, Points
<1> QED BY <1>1 DEF FrameOK, Go

(* leaving the lock for a callback or a completion,                         *)
LEMMA WindowType ==
  ASSUME FrameOK, NEW t \in Threads, NEW why \in Windows,
         NEW r \in Requests \cup {NoRequest}, Window(t, why, r),
         why \in {"insertFailedPresent", "requeued"} => r \in Requests
  PROVE  FrameOK'
<1>1. [frame[t] EXCEPT !.pc = "window", !.why = why, !.cur = r, !.new = NoRequest]
        \in SoundFrame
  BY DEF FrameOK, SoundFrame, Takes, Frame
<1> QED BY <1>1 DEF FrameOK, Window

(* returning from DispatchEvents,                                           *)
LEMMA UnlockToType ==
  ASSUME FrameOK, NEW t \in Threads, NEW pc \in FreePoints \ {"cancelDriver"},
         frame[t].pc # "window", UnlockTo(t, pc)
  PROVE  FrameOK'
<1>1. [frame[t] EXCEPT !.pc = pc, !.cur = NoRequest] \in SoundFrame
  <2>1. frame[t].why = "none"
    BY DEF FrameOK, SoundFrame
  <2>2. pc \notin {"window", "present", "requeueAcked", "cancelDriver"}
    BY DEF FreePoints
  <2> QED BY <2>1, <2>2 DEF FrameOK, SoundFrame, Takes, Frame
<1> QED BY <1>1 DEF FrameOK, UnlockTo

(* calling it,                                                              *)
LEMMA EnterType ==
  ASSUME FrameOK, NEW t \in Threads, NEW pc \in FreePoints \ {"cancelDriver"},
         NEW r \in Requests \cup {NoRequest}, frame[t].pc # "window", Enter(t, r, pc)
  PROVE  FrameOK'
<1>1. "enter" \in LockedPoints
  BY DEF LockedPoints
<1>2. [frame[t] EXCEPT !.pc = "enter", !.after = pc, !.new = r, !.cur = NoRequest]
        \in SoundFrame
  <2>1. frame[t].why = "none"
    BY DEF FrameOK, SoundFrame
  <2> QED BY <1>1, <2>1 DEF FrameOK, SoundFrame, Takes, Frame
<1> QED BY <1>2 DEF FrameOK, Enter

(* calling it unless some thread is in its loop, from an operation          *)
LEMMA DispatchInternalEventsType ==
  ASSUME FrameOK, NEW t \in Threads, NEW pc \in FreePoints \ {"cancelDriver"},
         frame[t].pc # "window", DispatchInternalEvents(t, pc)
  PROVE  FrameOK'
BY EnterType, UnlockToType DEF DispatchInternalEvents

(* or from a completion on whatever thread,                                 *)
LEMMA DispatchInternalEventsAnyType ==
  ASSUME FrameOK, DispatchInternalEventsAny
  PROVE  FrameOK'
<1>1. CASE dispatching = 0
  <2>1. PICK t \in Workers : frame[t].pc = "idle" /\ Enter(t, NoRequest, "idle")
    BY <1>1 DEF DispatchInternalEventsAny
  <2>2. t \in Threads /\ "idle" \in FreePoints
    BY DEF Threads, FreePoints
  <2> QED BY <2>1, <2>2, EnterType
<1>2. CASE dispatching # 0
  BY <1>2 DEF DispatchInternalEventsAny, FrameOK
<1> QED BY <1>1, <1>2

(* cancelling a request that was queued,                                    *)
LEMMA CancelForQueueFrameType ==
  ASSUME FrameOK, NEW t \in Threads, NEW pc \in FreePoints \ {"cancelDriver"}, NEW n, NEW r,
         frame[t].pc # "window", CancelForQueue(t, r, n, pc)
  PROVE  FrameOK'
<1>1. CASE GoesToDriver(r)
  BY <1>1, DispatchInternalEventsType DEF CancelForQueue
<1>2. CASE ~GoesToDriver(r)
  <2>1. "completeCanceled" \in FreePoints
    BY DEF FreePoints
  <2>2. [frame[t] EXCEPT !.pc = "completeCanceled", !.after = pc] \in SoundFrame
    BY <2>1 DEF FrameOK, SoundFrame, Takes, Frame
  <2> QED BY <1>2, <2>2 DEF CancelForQueue, FrameOK
<1> QED BY <1>1, <1>2

(* and beginning a purge.                                                   *)
LEMMA BeginPurgeFrameType ==
  ASSUME FrameOK, NEW t \in Threads, NEW b \in BOOLEAN, NEW c \in BOOLEAN,
         NEW op \in {"purge", "dispose", "powerPurge"},
         frame[t].pc # "window", BeginPurge(t, b, c, op)
  PROVE  FrameOK'
<1> DEFINE pc == IF b THEN "drainQueue" ELSE "lockEnter"
<1>1. pc \in FreePoints /\ pc \notin {"present", "requeueAcked", "cancelDriver"}
  BY DEF FreePoints
<1>2. frame' = [frame EXCEPT ![t] = [@ EXCEPT !.pc = pc, !.op = op]]
  BY DEF BeginPurge
<1> HIDE DEF pc
<1>3. [frame[t] EXCEPT !.pc = pc, !.op = op] \in SoundFrame
  <2>1. frame[t].why = "none"
    BY DEF FrameOK, SoundFrame
  <2> QED BY <1>1, <2>1 DEF FrameOK, SoundFrame, Takes, Frame
<1> QED BY <1>2, <1>3 DEF FrameOK

(* Every step of DispatchEvents keeps all frames sound: a thread that comes *)
(* back from a completion still has the request it is going to use.         *)
LEMMA DispatchFrameType ==
  ASSUME TypeOK, FrameOK, NEW t \in Threads, DispatchStep(t)
  PROVE  FrameOK'
<1>1. ASSUME UNCHANGED frame PROVE FrameOK'
  BY <1>1 DEF FrameOK
<1>2. ASSUME UnlockTo(t, frame[t].after), frame[t].pc # "window" PROVE FrameOK'
  BY <1>2, FrameFields, UnlockToType
<1>3. ASSUME NEW pc \in {"dispatch", "ackLoop"}, Go(t, pc), frame[t].pc # "window" PROVE FrameOK'
  BY <1>3, GoType DEF Points, LockedPoints
<1>4. CASE EnterDispatchEvents(t)
  BY <1>3, <1>4 DEF EnterDispatchEvents
<1>5. CASE EnterDeleted(t)
  <2> DEFINE pc == CASE frame[t].after = "waitStart" -> "started"
                     [] frame[t].after \in {"waitHold", "waitPurge"} -> "off"
                     [] OTHER -> frame[t].after
  <2>1. pc \in FreePoints \ {"cancelDriver"}
    <3>1. frame[t].after \in FreePoints \ {"cancelDriver"} /\ "started" \in FreePoints /\ "off" \in FreePoints
      BY FrameFields DEF FreePoints
    <3> QED BY <3>1
  <2>2. UnlockTo(t, pc) /\ frame[t].pc # "window"
    BY <1>5 DEF EnterDeleted
  <2> HIDE DEF pc
  <2> QED BY <2>1, <2>2, UnlockToType
<1>6. CASE EnterDeferred(t)
  <2>1. frame[t].after \in FreePoints /\ frame[t].why = "none"
    <3>1. frame[t].pc # "window" /\ frame[t] \in SoundFrame
      BY <1>6 DEF EnterDeferred, FrameOK
    <3> QED BY <3>1, FrameFields DEF SoundFrame
  <2>2. {"present", "requeueAcked"} \cap FreePoints = {}
    BY DEF FreePoints
  <2>3. ASSUME NEW pc \in FreePoints \ {"cancelDriver"}
        PROVE  [frame[t] EXCEPT !.pc = pc, !.new = NoRequest] \in SoundFrame
    BY <2>1, <2>2 DEF FrameOK, SoundFrame, Takes, Frame
  <2>4. [frame[t] EXCEPT !.pc = frame[t].after, !.new = NoRequest] \in SoundFrame
    BY <2>3, FrameFields
  <2> QED BY <1>6, <2>4 DEF EnterDeferred, FrameOK
<1>7. CASE InsertNewRequest(t)
  <2>1. CASE req[frame[t].new].cancel
    <3>1. {"insertFailed", "insertFailedIdle"} \subseteq Windows
      BY DEF Windows
    <3> QED BY <1>7, <2>1, <3>1, WindowType DEF InsertNewRequest
  <2>2. CASE ~req[frame[t].new].cancel
    <3>1. [frame[t] EXCEPT !.new = NoRequest] \in SoundFrame
      BY DEF FrameOK, SoundFrame, Takes, Frame
    <3> QED BY <1>7, <2>2, <3>1 DEF InsertNewRequest, FrameOK
  <2> QED BY <2>1, <2>2
<1>8. CASE Relock(t)
  <2> DEFINE pc == CASE frame[t].why = "cancel" -> "drainCancelled"
                     [] frame[t].why = "onQueue" -> "drainOnQueue"
                     [] frame[t].why = "insertFailedIdle" -> "idleNow"
                     [] frame[t].why = "insertFailedPresent" -> "present"
                     [] frame[t].why \in {"acked", "requeueFailed"} -> "ackLoop"
                     [] frame[t].why = "requeued" -> "requeueAcked"
                     [] OTHER -> "dispatch"
             cur == IF frame[t].why \in {"insertFailedPresent", "requeued"}
                    THEN frame[t].cur ELSE NoRequest
  <2>1. pc \in LockedPoints
    BY DEF LockedPoints
  <2>2. /\ cur \in Requests \cup {NoRequest}
        /\ pc \in {"present", "requeueAcked", "cancelDriver"} => cur \in Requests
    BY FrameFields DEF FrameOK, SoundFrame, Takes
  <2>3. frame' = [frame EXCEPT ![t] = [@ EXCEPT !.pc = pc, !.why = "none", !.cur = cur]]
    BY <1>8 DEF Relock
  <2> HIDE DEF pc, cur
  <2>4. [frame[t] EXCEPT !.pc = pc, !.why = "none", !.cur = cur] \in SoundFrame
    BY <2>1, <2>2 DEF FrameOK, SoundFrame, Takes, Frame
  <2> QED BY <2>3, <2>4 DEF FrameOK
<1>9. CASE LeaveDispatchEvents(t) \/ DeleteQueue(t) \/ StartingTransition(t) \/ PowerOn(t)
  BY <1>2, <1>9 DEF LeaveDispatchEvents, DeleteQueue, StartingTransition, PowerOn, AtTurn
<1>10. CASE ProcessCancelledRequests(t)
  <2>1. cancelled \subseteq Requests /\ "cancel" \in Windows
    BY DEF TypeOK, Windows, DriverCallbacks
  <2> QED BY <1>3, <1>10, <2>1, WindowType DEF ProcessCancelledRequests, AtTurn
<1>11. CASE ProcessCancelledRequestsOnQueue(t)
  <2>1. canceledOnQueue \subseteq Requests /\ "onQueue" \in Windows
    BY DEF TypeOK, Windows, DriverCallbacks
  <2> QED BY <1>3, <1>11, <2>1, WindowType DEF ProcessCancelledRequestsOnQueue, AtTurn
<1>12. CASE ProcessIdleComplete(t) \/ ProcessPurgeComplete(t) \/ ProcessReadyNotify(t)
  <2>1. {"idleDone", "purgeDone", "ready"} \subseteq Windows
    BY DEF Windows, DriverCallbacks
  <2> QED BY <1>12, <2>1, WindowType
          DEF ProcessIdleComplete, ProcessPurgeComplete, ProcessReadyNotify, AtTurn
<1>13. CASE PowerDereference(t) \/ BeginNotifying(t)
  BY <1>1, <1>13 DEF PowerDereference, BeginNotifying
<1>14. CASE PresentNew(t) \/ PresentNext(t) \/ PresentTaken(t)
  <2>1. {"io", "insertFailedPresent"} \subseteq Windows
    BY DEF Windows, DriverCallbacks
  <2>2. CASE PresentNew(t)
    BY <2>1, <2>2, FrameFields, WindowType DEF PresentNew, Present
  <2>3. CASE PresentTaken(t)
    BY <2>1, <2>3, FrameFields, WindowType DEF PresentTaken, Present
  <2>4. CASE PresentNext(t)
    <3>1. FirstLive \in Requests
      BY <2>4, FirstLiveIsQueued DEF PresentNext, Turn, TypeOK
    <3> QED BY <2>1, <2>4, <3>1, WindowType DEF PresentNext, Present
  <2> QED BY <1>14, <2>2, <2>3, <2>4
<1>15. CASE NotifyStop(t) \/ NotifyResume(t)
  <2>1. On("notify") \subseteq Requests /\ {"stop", "resume"} \subseteq Windows
    BY DEF On, Windows, DriverCallbacks
  <2>2. CASE NotifyStop(t)
    BY <1>1, <2>1, <2>2, WindowType DEF NotifyStop, AtTurn
  <2>3. CASE NotifyResume(t)
    BY <1>1, <2>1, <2>3, WindowType DEF NotifyResume, AtTurn
  <2> QED BY <1>15, <2>2, <2>3
<1>16. CASE CollectAcknowledged(t)
  BY <1>3, <1>16 DEF CollectAcknowledged, AtTurn
<1>17. CASE ProcessAcknowledgedRequest(t)
  <2>1. On(t) \subseteq Requests /\ {"requeued", "acked"} \subseteq Windows
    BY DEF On, Windows
  <2> QED BY <1>3, <1>17, <2>1, WindowType DEF ProcessAcknowledgedRequest
<1>18. CASE RequeueAcknowledged(t)
  <2>1. "requeueFailed" \in Windows
    BY DEF Windows
  <2> QED BY <1>3, <1>18, <2>1, WindowType DEF RequeueAcknowledged
<1>19. CASE AwaitAcknowledge(t)
  BY <1>1, <1>2, <1>19 DEF AwaitAcknowledge, AtTurn
<1> QED BY <1>4, <1>5, <1>6, <1>7, <1>8, <1>9, <1>10, <1>11, <1>12, <1>13, <1>14, <1>15,
           <1>16, <1>17, <1>18, <1>19 DEF DispatchStep

(* So does every later step of an operation,                                *)
LEMMA OperationFrameType ==
  ASSUME TypeOK, FrameOK, NEW t \in Threads,
         \/ CompleteCanceled(t) \/ DrainQueue(t) \/ DrainDriver(t) \/ DrainCancelForDriver(t)
         \/ LockAndEnter(t) \/ SetDisposing(t) \/ FinishDisposing(t)
  PROVE  FrameOK'
<1>0. frame[t].pc # "window" /\ frame[t].why = "none"
  BY DEF CompleteCanceled, DrainQueue, DrainDriver, DrainCancelForDriver, LockAndEnter,
         SetDisposing, FinishDisposing, FrameOK, SoundFrame
<1>1. {"drainQueue", "drainDriver", "waitDisposed", "idle", "setDisposing", "setPurge",
       "cancelDriver", "lockEnter"} \subseteq FreePoints
  BY DEF FreePoints
<1>2. CASE CompleteCanceled(t)
  BY <1>0, <1>2, FrameFields, DispatchInternalEventsType DEF CompleteCanceled
<1>3. CASE DrainQueue(t)
  <2>1. CASE Go(t, "drainDriver")
    BY <1>0, <1>1, <2>1, GoType DEF Points
  <2>2. CASE CancelForQueue(t, FirstLive, driverIoCount, "drainQueue")
    BY <1>0, <1>1, <2>2, CancelForQueueFrameType
  <2> QED BY <1>3, <2>1, <2>2 DEF DrainQueue
<1>4. CASE DrainDriver(t)
  <2>1. CASE Go(t, "lockEnter")
    BY <1>0, <1>1, <2>1, GoType DEF Points
  <2>2. ASSUME NEW r \in cancelable,
               frame' = [frame EXCEPT ![t] = [@ EXCEPT !.pc = "cancelDriver", !.cur = r]]
        PROVE  FrameOK'
    <3>1. r \in Requests
      BY DEF TypeOK
    <3>2. [frame[t] EXCEPT !.pc = "cancelDriver", !.cur = r] \in SoundFrame
      BY <1>0, <1>1, <3>1 DEF FrameOK, SoundFrame, Takes, Frame
    <3> QED BY <2>2, <3>2 DEF FrameOK
  <2> QED BY <1>4, <2>1, <2>2 DEF DrainDriver, Revocable
<1>5. CASE DrainCancelForDriver(t)
  BY <1>0, <1>1, <1>5, DispatchInternalEventsType DEF DrainCancelForDriver
<1>6. CASE LockAndEnter(t)
  <2> DEFINE op == IF frame[t].op = "dispose" THEN "dispose" ELSE "none"
             after == CASE frame[t].op = "dispose" -> "setDisposing"
                        [] frame[t].op = "powerPurge" -> "setPurge"
                        [] OTHER -> "idle"
  <2>1. op \in {"none", "dispose"} /\ after \in FreePoints \ {"cancelDriver"} /\ "enter" \in LockedPoints
    BY <1>1 DEF LockedPoints
  <2>2. frame' = [frame EXCEPT ![t] = [@ EXCEPT !.pc = "enter", !.new = NoRequest,
                     !.cur = NoRequest, !.op = op, !.after = after]]
    BY <1>6 DEF LockAndEnter
  <2> HIDE DEF op, after
  <2>3. [frame[t] EXCEPT !.pc = "enter", !.new = NoRequest, !.cur = NoRequest,
                         !.op = op, !.after = after] \in SoundFrame
    BY <1>0, <2>1 DEF FrameOK, SoundFrame, Takes, Frame
  <2> QED BY <2>2, <2>3 DEF FrameOK
<1>7. CASE SetDisposing(t)
  BY <1>0, <1>1, <1>7, EnterType DEF SetDisposing
<1>8. CASE FinishDisposing(t)
  BY <1>0, <1>1, <1>8, GoType DEF FinishDisposing, Points
<1> QED BY <1>2, <1>3, <1>4, <1>5, <1>6, <1>7, <1>8

(* every call of the driver that controls the queue,                        *)
LEMMA DriverCallFrameType ==
  ASSUME TypeOK, FrameOK, NEW t \in Workers, DriverCall(t)
  PROVE  FrameOK'
<1>0. t \in Threads /\ frame[t].pc # "window" /\ frame[t].why = "none"
  BY DEF DriverCall, QueueStart, Dispose, QueueIdle, QueuePurge, ReadyNotify, Idle, Threads,
         FrameOK, SoundFrame
<1>1. {"idle", "drainQueue", "lockEnter"} \subseteq FreePoints
  BY DEF FreePoints
<1>2. CASE QueueStart(t)
  BY <1>0, <1>1, <1>2, EnterType DEF QueueStart
<1>3. CASE Dispose(t)
  BY <1>0, <1>3, BeginPurgeFrameType DEF Dispose
<1>4. ASSUME NEW b \in BOOLEAN, NEW c \in BOOLEAN, QueueIdle(t, b, c)
      PROVE  FrameOK'
  <2>1. CASE b
    <3>1. [frame[t] EXCEPT !.pc = "drainQueue", !.op = "stop"] \in SoundFrame
      BY <1>0, <1>1 DEF FrameOK, SoundFrame, Takes, Frame
    <3> QED BY <1>0, <1>4, <2>1, <3>1 DEF QueueIdle, FrameOK
  <2>2. CASE ~b
    BY <1>0, <1>1, <1>4, <2>2, GoType DEF QueueIdle, Points
  <2> QED BY <2>1, <2>2
<1>5. ASSUME NEW b \in BOOLEAN, NEW c \in BOOLEAN, QueuePurge(t, b, c)
      PROVE  FrameOK'
  BY <1>0, <1>5, BeginPurgeFrameType DEF QueuePurge
<1>6. ASSUME NEW b \in BOOLEAN, ReadyNotify(t, b)
      PROVE  FrameOK'
  BY <1>0, <1>1, <1>6, EnterType DEF ReadyNotify
<1> QED BY <1>2, <1>3, <1>4, <1>5, <1>6 DEF DriverCall

(* every step of the power thread and the deferred dispatcher,              *)
LEMMA PowerFrameType ==
  ASSUME TypeOK, FrameOK, PowerDown \/ PowerStep \/ DeferStep
  PROVE  FrameOK'
<1>0. PowerThread \in Threads /\ DeferThread \in Threads
  BY DEF Threads
<1>1. {"idle", "deferredEnd", "waitStart", "started", "waitHold", "off", "purge",
       "waitPurge", "on", "resumed"} \subseteq FreePoints /\ FreePoints \subseteq Points
  BY DEF FreePoints, Points
<1>2. CASE DeferredDispatch
  BY <1>0, <1>1, <1>2, EnterType DEF DeferredDispatch, AtPower
<1>3. CASE DeferredEnd
  BY <1>0, <1>1, <1>3, GoType DEF AtPower, DeferredEnd
<1>4. CASE \/ StartPowerTransitionOff \/ StopProcessingForPowerHold
           \/ StopProcessingForPowerPurge \/ ResumeProcessingForPower \/ StartPowerTransitionOn
  BY <1>0, <1>1, <1>4, EnterType
     DEF AtPower, StartPowerTransitionOff, StopProcessingForPowerHold, StopProcessingForPowerPurge,
         ResumeProcessingForPower, StartPowerTransitionOn, PowerEnter
<1>5. CASE WaitPowerIdle \/ SetStateForShutdown
  BY <1>0, <1>1, <1>5, GoType DEF AtPower, WaitPowerIdle, SetStateForShutdown
<1>6. CASE PowerPurge
  BY <1>0, <1>6, BeginPurgeFrameType DEF AtPower, PowerPurge
<1>7. CASE ResetStateForRestart
  <2>1. CASE UNCHANGED frame
    BY <2>1 DEF FrameOK
  <2>2. CASE Go(PowerThread, "on")
    BY <1>0, <1>1, <1>7, <2>2, GoType DEF ResetStateForRestart, AtPower
  <2> QED BY <1>7, <2>1, <2>2 DEF ResetStateForRestart
<1> QED BY <1>2, <1>3, <1>4, <1>5, <1>6, <1>7 DEF PowerDown, PowerStep, DeferStep

(* and everything that happens to a request.                                *)
LEMMA RequestFrameType ==
  ASSUME TypeOK, FrameOK, NEW r \in Requests,
         \/ CancelIrp(r) \/ CancelStep(r) \/ DriverStep(r) \/ FinishStep(r) \/ GetRequest
         \/ \E t \in Workers : QueueRequest(t, r)
  PROVE  FrameOK'
<1>0. Workers \subseteq Threads
  BY DEF Threads
<1>1. "idle" \in FreePoints /\ "lockEnter" \in FreePoints
  BY DEF FreePoints
<1>2. CASE UNCHANGED frame
  BY <1>2 DEF FrameOK
<1>3. CASE DispatchInternalEventsAny
  BY <1>3, DispatchInternalEventsAnyType
<1>4. ASSUME NEW t \in Workers, IrpCancelForQueue(t, r)
      PROVE  FrameOK'
  BY <1>0, <1>1, <1>4, CancelForQueueFrameType DEF IrpCancelForQueue, Idle
<1>5. ASSUME NEW t \in Workers, Requeue(t, r)
      PROVE  FrameOK'
  <2>1. CASE Enter(t, NoRequest, "idle")
    BY <1>0, <1>1, <1>5, <2>1, EnterType DEF Requeue, Idle
  <2>2. CASE CancelForQueue(t, r, driverIoCount - 1, "lockEnter")
    BY <1>0, <1>1, <1>5, <2>2, CancelForQueueFrameType DEF Requeue, Idle
  <2> QED BY <1>5, <2>1, <2>2 DEF Requeue
<1>6. ASSUME NEW t \in Workers, QueueRequest(t, r)
      PROVE  FrameOK'
  BY <1>0, <1>1, <1>2, <1>6, EnterType DEF QueueRequest, Idle
<1>7. CASE CancelIrp(r) \/ IrpCancelForDriver(r)
  BY <1>2, <1>7 DEF CancelIrp, IrpCancelForDriver
<1>8. CASE CancelForDriver(r) \/ FinishStep(r)
  BY <1>3, <1>8 DEF CancelForDriver, FinishStep, RequestCompletedCallback, ForwardDone
<1>9. CASE \/ \E b \in BOOLEAN : StopAcknowledge(r, b)
           \/ CompleteRequest(r) \/ MarkCancelable(r) \/ UnmarkCancelable(r)
           \/ ForwardBegin(r) \/ ForwardRefused(r) \/ GetRequest
  BY <1>2, <1>9 DEF StopAcknowledge, CompleteRequest, MarkCancelable, UnmarkCancelable,
                    ForwardBegin, ForwardRefused, GetRequest
<1> QED BY <1>4, <1>5, <1>6, <1>7, <1>8, <1>9 DEF CancelStep, DriverStep

(* Together: all steps keep all frames sound.                               *)
LEMMA FrameType == TypeOK /\ FrameOK /\ Next => FrameOK'
<1> SUFFICES ASSUME TypeOK /\ FrameOK, Next
             PROVE  FrameOK'
  OBVIOUS
<1>1. ASSUME NEW t \in Threads, ThreadStep(t)
      PROVE  FrameOK'
  BY <1>1, DispatchFrameType, OperationFrameType DEF ThreadStep
<1>2. CASE GetRequest
  BY <1>2 DEF GetRequest, TypeOK, FrameOK
<1> QED BY <1>1, <1>2, DriverCallFrameType, PowerFrameType, RequestFrameType DEF Next

(* Steps that change requests leave requests: moving to another owner list, *)
LEMMA RelistType ==
  ASSUME ReqOK, NEW S \in SUBSET Requests, NEW l \in {"owned", "notify"} \cup Threads,
         Relist(S, l)
  PROVE  ReqOK'
<1>1. ASSUME NEW r \in Requests
      PROVE  [req[r] EXCEPT !.list = l] \in Request
  BY DEF ReqOK, Request
<1> QED BY <1>1 DEF ReqOK, Relist

(* cancelling in the queue,                                                 *)
LEMMA CancelForQueueReqType ==
  ASSUME ReqOK, NEW t, NEW r \in Requests, NEW n, NEW pc, CancelForQueue(t, r, n, pc)
  PROVE  ReqOK'
<1>0. req[r] \in Request
  BY DEF ReqOK
<1>1. [req[r] EXCEPT !.canceled = TRUE, !.list = "owned", !.drv = "fx"] \in Request
  BY <1>0 DEF Request
<1>2. [req[r] EXCEPT !.canceled = TRUE, !.irp = "done", !.list = "none", !.drv = "fx"] \in Request
  BY <1>0 DEF Request
<1>3. CASE GoesToDriver(r)
  BY <1>1, <1>3 DEF CancelForQueue, ReqOK
<1>4. CASE ~GoesToDriver(r)
  BY <1>2, <1>4 DEF CancelForQueue, ReqOK
<1> QED BY <1>3, <1>4

(* presenting to the driver,                                                *)
LEMMA PresentReqType ==
  ASSUME ReqOK, NEW t \in Threads, NEW r \in Requests, Present(t, r)
  PROVE  ReqOK'
<1>1. [req[r] EXCEPT !.list = "owned", !.drv = "held", !.presented = TRUE] \in Request
  BY DEF ReqOK, Request
<1> QED BY <1>1 DEF Present, ReqOK

(* completing, and telling the driver of a cancellation,                    *)
LEMMA CompletedReqType ==
  ASSUME ReqOK, NEW r \in Requests
  PROVE  /\ [req[r] EXCEPT !.irp = "done"] \in Request
         /\ [req[r] EXCEPT !.drv = "told"] \in Request
         /\ [req[r] EXCEPT !.drv = "held"] \in Request
         /\ [req[r] EXCEPT !.canceled = TRUE] \in Request
BY DEF ReqOK, Request

(* and with these all steps of DispatchEvents.                              *)
LEMMA DispatchReqType ==
  ASSUME TypeOK, ReqOK, FrameOK, NEW t \in Threads, DispatchStep(t)
  PROVE  ReqOK'
<1>1. ASSUME UNCHANGED req PROVE ReqOK'
  BY <1>1 DEF ReqOK
<1>2. CASE \/ EnterDispatchEvents(t) \/ EnterDeleted(t) \/ Relock(t) \/ LeaveDispatchEvents(t)
           \/ ProcessIdleComplete(t) \/ ProcessPurgeComplete(t) \/ ProcessReadyNotify(t)
           \/ PowerDereference(t) \/ DeleteQueue(t) \/ StartingTransition(t) \/ PowerOn(t)
           \/ AwaitAcknowledge(t)
  BY <1>1, <1>2 DEF EnterDispatchEvents, EnterDeleted, Relock, LeaveDispatchEvents,
       ProcessIdleComplete, ProcessPurgeComplete, ProcessReadyNotify, PowerDereference,
       DeleteQueue, StartingTransition, PowerOn, AwaitAcknowledge
<1>3. CASE EnterDeferred(t)
  BY <1>1, <1>3, FrameFields, CompletedReqType DEF EnterDeferred, ReqOK
<1>4. CASE InsertNewRequest(t)
  BY <1>1, <1>4, FrameFields, CompletedReqType DEF InsertNewRequest, ReqOK
<1>5. CASE ProcessCancelledRequests(t)
  <2>1. CASE cancelled = {}
    BY <1>1, <1>5, <2>1 DEF ProcessCancelledRequests
  <2>2. CASE cancelled # {}
    <3>1. PICK r \in cancelled : req' = [req EXCEPT ![r].drv = "told"]
      BY <1>5, <2>2 DEF ProcessCancelledRequests
    <3>2. r \in Requests
      BY DEF TypeOK
    <3> QED BY <3>1, <3>2, CompletedReqType DEF ReqOK
  <2> QED BY <2>1, <2>2
<1>6. CASE ProcessCancelledRequestsOnQueue(t)
  <2>1. CASE canceledOnQueue = {}
    BY <1>1, <1>6, <2>1 DEF ProcessCancelledRequestsOnQueue
  <2>2. CASE canceledOnQueue # {}
    <3>1. PICK r \in canceledOnQueue : req' = [req EXCEPT ![r].drv = "told"]
      BY <1>6, <2>2 DEF ProcessCancelledRequestsOnQueue
    <3>2. r \in Requests
      BY DEF TypeOK
    <3> QED BY <3>1, <3>2, CompletedReqType DEF ReqOK
  <2> QED BY <2>1, <2>2
<1>7. CASE PresentNew(t)
  <2>1. frame[t].new \in Requests
    BY <1>7, FrameFields DEF PresentNew, Turn
  <2> QED BY <1>7, <2>1, PresentReqType DEF PresentNew
<1>8. CASE PresentNext(t)
  <2>1. FirstLive \in Requests
    BY <1>8, FirstLiveIsQueued DEF PresentNext, Turn, TypeOK
  <2>2. CASE Present(t, FirstLive)
    BY <2>1, <2>2, PresentReqType
  <2>3. ASSUME frame[t].new # NoRequest, req' = [req EXCEPT ![frame[t].new].irp = "done"]
        PROVE  ReqOK'
    <3>1. frame[t].new \in Requests
      BY <2>3, FrameFields
    <3> QED BY <2>3, <3>1, CompletedReqType DEF ReqOK
  <2> QED BY <1>8, <2>2, <2>3 DEF PresentNext
<1>9. CASE PresentTaken(t)
  <2>1. frame[t].cur \in Requests
    BY <1>9 DEF PresentTaken, FrameOK, SoundFrame, Takes
  <2> QED BY <1>9, <2>1, PresentReqType DEF PresentTaken
<1>10. CASE BeginNotifying(t)
  BY <1>10, RelistType DEF BeginNotifying, On
<1>11. CASE NotifyStop(t)
  <2>1. ASSUME NEW r \in On("notify"),
               req' = [req EXCEPT ![r] = [@ EXCEPT !.list = "notified",
                         !.ack = IF powerState = "PurgeNotifyingDriver" THEN "none" ELSE req[r].ack]]
        PROVE  ReqOK'
    <3>1. r \in Requests
      BY DEF On
    <3>2. [req[r] EXCEPT !.list = "notified", !.ack = "none"] \in Request
      BY <3>1 DEF ReqOK, Request
    <3>3. [req[r] EXCEPT !.list = "notified", !.ack = req[r].ack] \in Request
      BY <3>1 DEF ReqOK, Request
    <3>4. CASE powerState = "PurgeNotifyingDriver"
      BY <2>1, <3>1, <3>2, <3>4 DEF ReqOK
    <3>5. CASE powerState # "PurgeNotifyingDriver"
      <4>1. req' = [req EXCEPT ![r] = [@ EXCEPT !.list = "notified", !.ack = req[r].ack]]
        BY <2>1, <3>5
      <4> QED BY <3>1, <3>3, <4>1 DEF ReqOK
    <3> QED BY <3>4, <3>5
  <2> QED BY <1>1, <1>11, <2>1 DEF NotifyStop
<1>12. CASE NotifyResume(t)
  <2>1. ASSUME NEW r \in On("notify")
        PROVE  [req[r] EXCEPT !.list = "owned"] \in Request
    BY DEF On, ReqOK, Request
  <2> QED BY <1>1, <1>12, <2>1 DEF NotifyResume, ReqOK
<1>13. CASE CollectAcknowledged(t)
  BY <1>13, RelistType DEF CollectAcknowledged, On
<1>14. CASE ProcessAcknowledgedRequest(t)
  <2>1. ASSUME NEW r \in On(t)
        PROVE  [req[r] EXCEPT !.list = "owned", !.ack = "none"] \in Request
    BY DEF On, ReqOK, Request
  <2> QED BY <1>1, <1>14, <2>1 DEF ProcessAcknowledgedRequest, ReqOK
<1>15. CASE RequeueAcknowledged(t)
  <2>1. frame[t].cur \in Requests
    BY <1>15 DEF RequeueAcknowledged, FrameOK, SoundFrame, Takes
  <2>2. ASSUME NEW r \in Requests
        PROVE  /\ [req[r] EXCEPT !.list = "none"] \in Request
               /\ [req[r] EXCEPT !.canceled = TRUE] \in Request
               /\ [req[r] EXCEPT !.canceled = TRUE, !.irp = "done", !.list = "none"] \in Request
    BY DEF ReqOK, Request
  <2> QED BY <1>15, <2>1, <2>2 DEF RequeueAcknowledged, ReqOK
<1> QED BY <1>2, <1>3, <1>4, <1>5, <1>6, <1>7, <1>8, <1>9, <1>10, <1>11, <1>12, <1>13,
           <1>14, <1>15 DEF DispatchStep

(* All steps leave FxRequests.                                              *)
LEMMA ReqType == TypeOK /\ ReqOK /\ FrameOK /\ Next => ReqOK'
<1> SUFFICES ASSUME TypeOK /\ ReqOK /\ FrameOK, Next
             PROVE  ReqOK'
  OBVIOUS
<1>0. ASSUME UNCHANGED req PROVE ReqOK'
  BY <1>0 DEF ReqOK
<1>1. ASSUME NEW t \in Threads, ThreadStep(t)
      PROVE  ReqOK'
  <2>1. CASE DispatchStep(t)
    BY <2>1, DispatchReqType
  <2>2. CASE \/ CompleteCanceled(t) \/ DrainCancelForDriver(t) \/ LockAndEnter(t)
             \/ SetDisposing(t) \/ FinishDisposing(t)
    BY <1>0, <2>2 DEF CompleteCanceled, DrainCancelForDriver, LockAndEnter, SetDisposing,
                      FinishDisposing
  <2>3. CASE DrainQueue(t)
    <3>1. SomeLive => FirstLive \in Requests
      BY FirstLiveIsQueued DEF TypeOK
    <3> QED BY <1>0, <2>3, <3>1, CancelForQueueReqType DEF DrainQueue
  <2>4. CASE DrainDriver(t)
    <3>1. CASE UNCHANGED req
      BY <1>0, <3>1
    <3>2. ASSUME NEW r \in cancelable, req' = [req EXCEPT ![r].canceled = TRUE]
          PROVE  ReqOK'
      <4>1. r \in Requests
        BY DEF TypeOK
      <4> QED BY <3>2, <4>1, CompletedReqType DEF ReqOK
    <3> QED BY <2>4, <3>1, <3>2 DEF DrainDriver, Revocable
  <2> QED BY <1>1, <2>1, <2>2, <2>3, <2>4 DEF ThreadStep
<1>2. CASE DeferStep \/ PowerDown \/ PowerStep
  BY <1>0, <1>2 DEF DeferStep, PowerDown, PowerStep, DeferredDispatch, DeferredEnd,
     StartPowerTransitionOff, SetStateForShutdown, WaitPowerIdle, StopProcessingForPowerHold,
     PowerPurge, BeginPurge, StopProcessingForPowerPurge, ResetStateForRestart,
     ResumeProcessingForPower, StartPowerTransitionOn
<1>3. ASSUME NEW t \in Workers, DriverCall(t)
      PROVE  ReqOK'
  <2>1. ASSUME NEW b \in BOOLEAN, NEW c \in BOOLEAN, QueueIdle(t, b, c)
        PROVE  ReqOK'
    <3>1. ASSUME NEW r \in Requests
          PROVE  [req[r] EXCEPT !.canceled = TRUE] \in Request
      BY CompletedReqType
    <3> QED BY <2>1, <3>1 DEF QueueIdle, ReqOK
  <2>2. CASE \/ QueueStart(t) \/ Dispose(t) \/ \E b, c \in BOOLEAN : QueuePurge(t, b, c)
             \/ \E b \in BOOLEAN : ReadyNotify(t, b)
    BY <1>0, <2>2 DEF QueueStart, Dispose, QueuePurge, BeginPurge, ReadyNotify
  <2> QED BY <1>3, <2>1, <2>2 DEF DriverCall
<1>4. ASSUME NEW t \in Workers, NEW r \in Requests, QueueRequest(t, r)
      PROVE  ReqOK'
  <2>1. /\ [req[r] EXCEPT !.irp = "sent"] \in Request
        /\ [req[r] EXCEPT !.irp = "done"] \in Request
    BY DEF ReqOK, Request
  <2> QED BY <1>4, <2>1 DEF QueueRequest, ReqOK
<1>5. ASSUME NEW r \in Requests, CancelIrp(r) \/ CancelStep(r)
      PROVE  ReqOK'
  <2>1. [req[r] EXCEPT !.cancel = TRUE] \in Request
    BY DEF ReqOK, Request
  <2>2. ASSUME NEW t \in Workers, IrpCancelForQueue(t, r)
        PROVE  ReqOK'
    BY <2>2, CancelForQueueReqType DEF IrpCancelForQueue
  <2>3. CASE CancelIrp(r) \/ IrpCancelForDriver(r) \/ CancelForDriver(r)
    BY <1>0, <2>1, <2>3, CompletedReqType DEF CancelIrp, IrpCancelForDriver, CancelForDriver, ReqOK
  <2> QED BY <1>5, <2>2, <2>3 DEF CancelStep
<1>6. ASSUME NEW r \in Requests, DriverStep(r) \/ FinishStep(r)
      PROVE  ReqOK'
  <2>1. ASSUME NEW b \in BOOLEAN, StopAcknowledge(r, b)
        PROVE  ReqOK'
    <3>1. /\ [req[r] EXCEPT !.ack = "requeue", !.drv = "fx"] \in Request
          /\ [req[r] EXCEPT !.ack = "ack", !.drv = req[r].drv] \in Request
      BY DEF ReqOK, Request
    <3>2. CASE b
      BY <2>1, <3>1, <3>2 DEF StopAcknowledge, ReqOK
    <3>3. CASE ~b
      <4>1. req' = [req EXCEPT ![r] = [@ EXCEPT !.ack = "ack", !.drv = req[r].drv]]
        BY <2>1, <3>3 DEF StopAcknowledge
      <4> QED BY <3>1, <4>1 DEF ReqOK
    <3> QED BY <3>2, <3>3
  <2>2. /\ [req[r] EXCEPT !.irp = "done", !.drv = "completing"] \in Request
        /\ [req[r] EXCEPT !.list = "none", !.drv = "fx"] \in Request
        /\ [req[r] EXCEPT !.list = "none", !.drv = "forwarding"] \in Request
        /\ [req[r] EXCEPT !.list = "owned", !.drv = "held"] \in Request
        /\ [req[r] EXCEPT !.irp = "done", !.drv = "fx"] \in Request
        /\ [req[r] EXCEPT !.canceled = TRUE, !.drv = "cancelable"] \in Request
        /\ [req[r] EXCEPT !.drv = "cancelable"] \in Request
        /\ [req[r] EXCEPT !.drv = "held"] \in Request
    BY DEF ReqOK, Request
  <2>3. CASE CompleteRequest(r) \/ ForwardBegin(r) \/ ForwardRefused(r) \/ UnmarkCancelable(r)
    BY <2>2, <2>3 DEF CompleteRequest, ForwardBegin, ForwardRefused, UnmarkCancelable, ReqOK
  <2>4. CASE FinishStep(r)
    BY <2>2, <2>4 DEF FinishStep, RequestCompletedCallback, ForwardDone, ReqOK
  <2>5. CASE MarkCancelable(r)
    BY <2>2, <2>5 DEF MarkCancelable, ReqOK
  <2>6. ASSUME NEW t \in Workers, Requeue(t, r)
        PROVE  ReqOK'
    <3>1. CASE Requeueable(r)
      BY <2>2, <2>6, <3>1 DEF Requeue, ReqOK
    <3>2. CASE ~Requeueable(r)
      BY <2>6, <3>2, CancelForQueueReqType DEF Requeue
    <3> QED BY <3>1, <3>2
  <2> QED BY <1>6, <2>1, <2>3, <2>4, <2>5, <2>6 DEF DriverStep
<1>7. CASE GetRequest
  <2>1. CASE SomeLive
    <3>1. FirstLive \in Requests
      BY <2>1, FirstLiveIsQueued DEF TypeOK
    <3>2. [req[FirstLive] EXCEPT !.list = "owned", !.drv = "held", !.presented = TRUE] \in Request
      BY <3>1 DEF ReqOK, Request
    <3> QED BY <1>7, <2>1, <3>2 DEF GetRequest, ReqOK
  <2>2. CASE ~SomeLive
    BY <1>0, <1>7, <2>2 DEF GetRequest
  <2> QED BY <2>1, <2>2
<1> QED BY <1>1, <1>2, <1>3, <1>4, <1>5, <1>6, <1>7 DEF Next

(* The queue without its next request, and with that put back at the head.  *)
LEMMA ForwardWithout ==
  ASSUME queue \in Seq(Requests), SomeLive
  PROVE  /\ Without(queue, FirstLive) \in Seq(Requests)
         /\ <<FirstLive>> \o Without(queue, FirstLive) \in Seq(Requests)
BY FirstLiveIsQueued, WithoutType

(* m_Queue stays a list of requests.                                        *)
LEMMA QueueType == TypeOK /\ FrameOK /\ Next => queue' \in Seq(Requests)
<1> SUFFICES ASSUME TypeOK /\ FrameOK, Next
             PROVE  queue' \in Seq(Requests)
  OBVIOUS
<1>0. queue \in Seq(Requests)
  BY DEF TypeOK
<1>1. ASSUME NEW t \in Threads, ThreadStep(t)
      PROVE  queue' \in Seq(Requests)
  <2>1. CASE EnterDeferred(t) \/ InsertNewRequest(t)
    BY <1>0, <2>1, FrameFields DEF EnterDeferred, InsertNewRequest
  <2>2. CASE PresentNext(t)
    <3>1. SomeLive
      BY <2>2 DEF PresentNext, Turn
    <3> QED BY <1>0, <2>2, <3>1, FrameFields, ForwardWithout DEF PresentNext
  <2>3. CASE RequeueAcknowledged(t)
    <3>1. frame[t].cur \in Requests
      BY <2>3 DEF RequeueAcknowledged, FrameOK, SoundFrame, Takes
    <3>2. <<frame[t].cur>> \o queue \in Seq(Requests)
      BY <1>0, <3>1
    <3> QED BY <1>0, <2>3, <3>2 DEF RequeueAcknowledged
  <2>4. CASE DrainQueue(t)
    BY <1>0, <2>4, ForwardWithout DEF DrainQueue
  <2>5. CASE UNCHANGED queue
    BY <1>0, <2>5
  <2> QED BY <1>1, <2>1, <2>2, <2>3, <2>4, <2>5
          DEF ThreadStep, DispatchStep, EnterDispatchEvents, EnterDeleted, Relock,
              LeaveDispatchEvents, ProcessCancelledRequests, ProcessCancelledRequestsOnQueue,
              ProcessIdleComplete, ProcessPurgeComplete, ProcessReadyNotify, PowerDereference,
              DeleteQueue, PresentNew, PresentTaken, StartingTransition, BeginNotifying,
              NotifyStop, NotifyResume, PowerOn, CollectAcknowledged, ProcessAcknowledgedRequest,
              AwaitAcknowledge, CompleteCanceled, DrainDriver, DrainCancelForDriver,
              LockAndEnter, SetDisposing, FinishDisposing
<1>2. CASE DeferStep \/ PowerDown \/ PowerStep
  BY <1>0, <1>2 DEF DeferStep, PowerDown, PowerStep, DeferredDispatch, DeferredEnd,
     StartPowerTransitionOff, SetStateForShutdown, WaitPowerIdle, StopProcessingForPowerHold,
     PowerPurge, BeginPurge, StopProcessingForPowerPurge, ResetStateForRestart,
     ResumeProcessingForPower, StartPowerTransitionOn
<1>3. ASSUME NEW t \in Workers, DriverCall(t) \/ \E r \in Requests : QueueRequest(t, r)
      PROVE  queue' \in Seq(Requests)
  BY <1>0, <1>3 DEF DriverCall, QueueStart, Dispose, QueueIdle, QueuePurge, BeginPurge,
                    ReadyNotify, QueueRequest
<1>4. ASSUME NEW r \in Requests, NEW t \in Workers, IrpCancelForQueue(t, r) \/ Requeue(t, r)
      PROVE  queue' \in Seq(Requests)
  <2>1. CASE IrpCancelForQueue(t, r)
    BY <1>0, <2>1, WithoutType DEF IrpCancelForQueue
  <2>2. CASE Requeue(t, r)
    <3>1. <<r>> \o queue \in Seq(Requests)
      BY <1>0
    <3>2. queue' = <<r>> \o queue \/ queue' = queue
      BY <2>2 DEF Requeue
    <3> QED BY <1>0, <3>1, <3>2
  <2> QED BY <1>4, <2>1, <2>2
<1>5. ASSUME NEW r \in Requests,
             \/ CancelIrp(r) \/ IrpCancelForDriver(r) \/ CancelForDriver(r) \/ FinishStep(r)
             \/ \E b \in BOOLEAN : StopAcknowledge(r, b)
             \/ CompleteRequest(r) \/ MarkCancelable(r) \/ UnmarkCancelable(r)
             \/ ForwardBegin(r) \/ ForwardRefused(r)
      PROVE  queue' \in Seq(Requests)
  BY <1>0, <1>5 DEF CancelIrp, IrpCancelForDriver, CancelForDriver, FinishStep,
     RequestCompletedCallback, ForwardDone, StopAcknowledge, CompleteRequest, MarkCancelable,
     UnmarkCancelable, ForwardBegin, ForwardRefused
<1>6. CASE GetRequest
  BY <1>0, <1>6, ForwardWithout DEF GetRequest
<1> QED BY <1>1, <1>2, <1>3, <1>4, <1>5, <1>6 DEF Next, CancelStep, DriverStep

CancelOK ==
  /\ cancelable \subseteq Requests /\ routineRunning \subseteq Requests
  /\ cancelCalls \subseteq Requests /\ cancelled \subseteq Requests
  /\ canceledOnQueue \subseteq Requests

StateOK ==
  /\ driverIoCount \in Int /\ dispatching \in Int
  /\ queueState \subseteq {"Accept", "Dispatch", "Shutdown"}
  /\ powerState \in PowerStates
  /\ lock \in Threads \cup {NoThread}
  /\ calls \in 0..MaxCalls /\ powerCalls \in 0..MaxPower
  /\ stopAcked \subseteq Requests

FlagsOK ==
  {cancelDispatched, transition, forceTransition, powerReferenced, readyNotify,
   idleComplete, purgeComplete, disposing, deleted, powerIdle, deferQueued,
   requeueDeferred, purgeReported} \subseteq BOOLEAN

(* The sets of the cancel paths stay sets of requests.                      *)
LEMMA CancelType == TypeOK /\ FrameOK /\ Next => CancelOK'
<1> SUFFICES ASSUME TypeOK /\ FrameOK, Next
             PROVE  CancelOK'
  OBVIOUS
<1> USE DEF cancelVars
<1>0. CancelOK
  BY DEF TypeOK, CancelOK
<1>a. CASE UNCHANGED cancelVars
  BY <1>0, <1>a DEF CancelOK
<1>1. ASSUME NEW t \in Threads, ThreadStep(t)
      PROVE  CancelOK'
  <2>1. CASE ProcessCancelledRequests(t) \/ ProcessCancelledRequestsOnQueue(t) \/ DrainDriver(t)
    BY <1>0, <2>1 DEF ProcessCancelledRequests, ProcessCancelledRequestsOnQueue, DrainDriver,
                      CancelOK
  <2>2. CASE RequeueAcknowledged(t)
    <3>1. frame[t].cur \in Requests
      BY <2>2 DEF RequeueAcknowledged, FrameOK, SoundFrame, Takes
    <3> QED BY <1>0, <2>2, <3>1 DEF RequeueAcknowledged, CancelOK
  <2>3. CASE DrainQueue(t)
    <3>1. SomeLive => FirstLive \in Requests
      BY FirstLiveIsQueued DEF TypeOK
    <3> QED BY <1>0, <2>3, <3>1 DEF DrainQueue, CancelForQueue, CancelOK
  <2>4. CASE DrainCancelForDriver(t)
    <3>1. frame[t].cur \in Requests
      BY <2>4 DEF DrainCancelForDriver, FrameOK, SoundFrame, Takes
    <3> QED BY <1>0, <2>4, <3>1 DEF DrainCancelForDriver, CancelOK
  <2> QED BY <1>a, <1>1, <2>1, <2>2, <2>3, <2>4
          DEF ThreadStep, DispatchStep, EnterDispatchEvents, EnterDeleted, EnterDeferred,
              InsertNewRequest, Relock, LeaveDispatchEvents,
              ProcessIdleComplete, ProcessPurgeComplete, ProcessReadyNotify, PowerDereference,
              DeleteQueue, PresentNew, PresentNext, PresentTaken, StartingTransition,
              BeginNotifying, NotifyStop, NotifyResume, PowerOn, CollectAcknowledged,
              ProcessAcknowledgedRequest, AwaitAcknowledge, CompleteCanceled,
              LockAndEnter, SetDisposing, FinishDisposing
<1>2. CASE DeferStep \/ PowerDown \/ PowerStep
  BY <1>a, <1>2 DEF DeferStep, PowerDown, PowerStep, DeferredDispatch, DeferredEnd,
     StartPowerTransitionOff, SetStateForShutdown, WaitPowerIdle, StopProcessingForPowerHold,
     PowerPurge, BeginPurge, StopProcessingForPowerPurge, ResetStateForRestart,
     ResumeProcessingForPower, StartPowerTransitionOn
<1>3. ASSUME NEW t \in Workers, DriverCall(t) \/ \E r \in Requests : QueueRequest(t, r)
      PROVE  CancelOK'
  BY <1>a, <1>3 DEF DriverCall, QueueStart, Dispose, QueueIdle, QueuePurge, BeginPurge,
                    ReadyNotify, QueueRequest
<1>4. ASSUME NEW r \in Requests, NEW t \in Workers, IrpCancelForQueue(t, r) \/ Requeue(t, r)
      PROVE  CancelOK'
  BY <1>0, <1>4 DEF IrpCancelForQueue, Requeue, CancelForQueue, CancelOK
<1>5. ASSUME NEW r \in Requests,
             \/ CancelIrp(r) \/ IrpCancelForDriver(r) \/ CancelForDriver(r)
             \/ MarkCancelable(r) \/ UnmarkCancelable(r)
      PROVE  CancelOK'
  BY <1>0, <1>5 DEF CancelIrp, IrpCancelForDriver, CancelForDriver, MarkCancelable,
                    UnmarkCancelable, CancelOK
<1>6. ASSUME NEW r \in Requests,
             \/ FinishStep(r) \/ \E b \in BOOLEAN : StopAcknowledge(r, b)
             \/ CompleteRequest(r) \/ ForwardBegin(r) \/ ForwardRefused(r)
      PROVE  CancelOK'
  BY <1>a, <1>6 DEF FinishStep, RequestCompletedCallback, ForwardDone, StopAcknowledge,
     CompleteRequest, ForwardBegin, ForwardRefused
<1>7. CASE GetRequest
  BY <1>a, <1>7 DEF GetRequest
<1> QED BY <1>1, <1>2, <1>3, <1>4, <1>5, <1>6, <1>7 DEF Next, CancelStep, DriverStep

(* The counters stay numbers and the states of the queue and its power stay *)
(* among the enumerated ones.                                               *)
LEMMA StateType == TypeOK /\ FrameOK /\ Next => StateOK'
<1> SUFFICES ASSUME TypeOK /\ FrameOK, Next
             PROVE  StateOK'
  OBVIOUS
<1> USE DEF gateVars, powerVars, auxVars
<1>0. StateOK /\ Workers \subseteq Threads /\ {PowerThread, DeferThread} \subseteq Threads
  BY DEF TypeOK, StateOK, Threads
<1>a. ASSUME NEW t \in Threads, NEW pc, DispatchInternalEvents(t, pc)
      PROVE  lock' \in Threads \cup {NoThread}
  BY <1>a DEF DispatchInternalEvents, Enter, UnlockTo
<1>b. ASSUME DispatchInternalEventsAny
      PROVE  lock' \in Threads \cup {NoThread}
  BY <1>0, <1>b DEF DispatchInternalEventsAny, Enter, StateOK
<1>c. ASSUME NEW t \in Threads, NEW r, NEW n \in Int, NEW pc, CancelForQueue(t, r, n, pc)
      PROVE  lock' \in Threads \cup {NoThread} /\ driverIoCount' \in Int
  BY <1>a, <1>c DEF CancelForQueue
<1>1. ASSUME NEW t \in Threads, DispatchStep(t)
      PROVE  StateOK'
  <2>1. CASE \/ EnterDispatchEvents(t) \/ EnterDeleted(t) \/ EnterDeferred(t)
             \/ InsertNewRequest(t) \/ Relock(t) \/ LeaveDispatchEvents(t)
    BY <1>0, <2>1 DEF EnterDispatchEvents, EnterDeleted, EnterDeferred, InsertNewRequest,
                      Relock, LeaveDispatchEvents, Window, UnlockTo, StateOK
  <2>2. CASE \/ ProcessCancelledRequests(t) \/ ProcessCancelledRequestsOnQueue(t)
             \/ ProcessIdleComplete(t) \/ ProcessPurgeComplete(t) \/ ProcessReadyNotify(t)
             \/ PowerDereference(t) \/ DeleteQueue(t)
    BY <1>0, <2>2 DEF ProcessCancelledRequests, ProcessCancelledRequestsOnQueue,
         ProcessIdleComplete, ProcessPurgeComplete, ProcessReadyNotify, PowerDereference,
         DeleteQueue, Window, UnlockTo, StateOK
  <2>3. CASE PresentNew(t) \/ PresentNext(t) \/ PresentTaken(t)
    BY <1>0, <2>3 DEF PresentNew, PresentNext, PresentTaken, Present, Window, StateOK
  <2>4. CASE StartingTransition(t) \/ PowerOn(t) \/ AwaitAcknowledge(t)
    BY <1>0, <2>4 DEF StartingTransition, PowerOn, AwaitAcknowledge, PowerOff, UnlockTo, StateOK,
                      PowerStates
  <2>5. CASE BeginNotifying(t)
    <3>1. powerState' \in PowerStates
      BY <2>5 DEF BeginNotifying, PowerStates
    <3> QED BY <1>0, <2>5, <3>1 DEF BeginNotifying, StateOK
  <2>6. CASE NotifyStop(t) \/ NotifyResume(t)
    <3>1. powerState' \in PowerStates /\ lock' \in {lock, NoThread}
      BY <1>0, <2>6 DEF NotifyStop, NotifyResume, Window, PowerStates, StateOK
    <3> QED BY <1>0, <2>6, <3>1 DEF NotifyStop, NotifyResume, StateOK
  <2>7. CASE CollectAcknowledged(t) \/ RequeueAcknowledged(t)
    BY <1>0, <2>7 DEF CollectAcknowledged, RequeueAcknowledged, Window, StateOK
  <2>8. CASE ProcessAcknowledgedRequest(t)
    <3>1. powerState' \in PowerStates /\ lock' \in {lock, NoThread}
      BY <1>0, <2>8 DEF ProcessAcknowledgedRequest, PowerOff, Window, PowerStates, StateOK
    <3> QED BY <1>0, <2>8, <3>1 DEF ProcessAcknowledgedRequest, StateOK
  <2> QED BY <1>1, <2>1, <2>2, <2>3, <2>4, <2>5, <2>6, <2>7, <2>8 DEF DispatchStep
<1>2. ASSUME NEW t \in Threads, ThreadStep(t), ~DispatchStep(t)
      PROVE  StateOK'
  <2>1. CASE CompleteCanceled(t) \/ DrainCancelForDriver(t)
    BY <1>0, <1>a, <2>1 DEF CompleteCanceled, DrainCancelForDriver, StateOK
  <2>2. CASE DrainQueue(t)
    BY <1>0, <1>c, <2>2 DEF DrainQueue, StateOK
  <2>3. CASE DrainDriver(t) \/ LockAndEnter(t) \/ SetDisposing(t) \/ FinishDisposing(t)
    BY <1>0, <2>3 DEF DrainDriver, LockAndEnter, SetDisposing, FinishDisposing, Enter, StateOK
  <2> QED BY <1>2, <2>1, <2>2, <2>3 DEF ThreadStep
<1>3. CASE DeferStep \/ PowerDown \/ PowerStep
  BY <1>0, <1>3, ConfigAssumption
     DEF DeferStep, PowerDown, PowerStep, DeferredDispatch, DeferredEnd,
     StartPowerTransitionOff, SetStateForShutdown, WaitPowerIdle, StopProcessingForPowerHold,
     PowerPurge, BeginPurge, StopProcessingForPowerPurge, ResetStateForRestart,
     ResumeProcessingForPower, StartPowerTransitionOn, PowerEnter, Enter, StateOK, PowerStates
<1>4. ASSUME NEW t \in Workers, DriverCall(t) \/ \E r \in Requests : QueueRequest(t, r)
      PROVE  StateOK'
  <2>1. ASSUME NEW c, Spend(c)
        PROVE  calls' \in 0..MaxCalls
    BY <1>0, <2>1, ConfigAssumption DEF Spend, StateOK
  <2>2. CASE QueueStart(t)
    BY <1>0, <2>1, <2>2 DEF QueueStart, SetAccept, Enter, StateOK
  <2>3. ASSUME NEW b \in BOOLEAN, NEW c \in BOOLEAN, QueueIdle(t, b, c)
        PROVE  StateOK'
    <3>1. queueState' \subseteq {"Accept", "Dispatch", "Shutdown"}
      BY <1>0, <2>3 DEF QueueIdle, SetAccept, StateOK
    <3> QED BY <1>0, <2>1, <2>3, <3>1 DEF QueueIdle, StateOK
  <2>4. CASE Dispose(t) \/ \E b, c \in BOOLEAN : QueuePurge(t, b, c)
    BY <1>0, <2>1, <2>4 DEF Dispose, QueuePurge, BeginPurge, StateOK
  <2>5. CASE \E b \in BOOLEAN : ReadyNotify(t, b)
    BY <1>0, <2>1, <2>5 DEF ReadyNotify, Enter, StateOK
  <2>6. CASE \E r \in Requests : QueueRequest(t, r)
    BY <1>0, <2>6 DEF QueueRequest, Enter, StateOK
  <2> QED BY <1>4, <2>2, <2>3, <2>4, <2>5, <2>6 DEF DriverCall
<1>5. ASSUME NEW r \in Requests, NEW t \in Workers, IrpCancelForQueue(t, r) \/ Requeue(t, r)
      PROVE  StateOK'
  BY <1>0, <1>c, <1>5 DEF IrpCancelForQueue, Requeue, Enter, StateOK
<1>6. ASSUME NEW r \in Requests, CancelForDriver(r) \/ FinishStep(r)
      PROVE  StateOK'
  BY <1>0, <1>b, <1>6 DEF CancelForDriver, FinishStep, RequestCompletedCallback, ForwardDone,
                          StateOK
<1>7. ASSUME NEW r \in Requests,
             \/ CancelIrp(r) \/ IrpCancelForDriver(r) \/ MarkCancelable(r) \/ UnmarkCancelable(r)
             \/ \E b \in BOOLEAN : StopAcknowledge(r, b)
             \/ CompleteRequest(r) \/ ForwardBegin(r) \/ ForwardRefused(r)
      PROVE  StateOK'
  BY <1>0, <1>7 DEF CancelIrp, IrpCancelForDriver, MarkCancelable, UnmarkCancelable,
     StopAcknowledge, CompleteRequest, ForwardBegin, ForwardRefused, StateOK
<1>8. CASE GetRequest
  BY <1>0, <1>8 DEF GetRequest, StateOK
<1> QED BY <1>1, <1>2, <1>3, <1>4, <1>5, <1>6, <1>7, <1>8 DEF Next, CancelStep, DriverStep

(* The flags stay BOOLEANs.                                                 *)
LEMMA FlagsType == TypeOK /\ Next => FlagsOK'
<1> SUFFICES ASSUME TypeOK, Next
             PROVE  FlagsOK'
  OBVIOUS
<1> USE DEF gateVars, readyVars, eventVars, lifeVars, powerVars, deferVars, auxVars
<1>0. FlagsOK
  BY DEF TypeOK, FlagsOK
<1>a. ASSUME UNCHANGED <<cancelDispatched, readyVars, eventVars, lifeVars, powerIdle, deferVars,
                         purgeReported>>
      PROVE  FlagsOK'
  BY <1>0, <1>a DEF FlagsOK
<1>b. ASSUME UNCHANGED readyVars \/ SetTransitionFromEmpty \/ ForceReadyIfQueued
      PROVE  {transition', forceTransition', powerReferenced'} \subseteq BOOLEAN
  BY <1>0, <1>b DEF FlagsOK, SetTransitionFromEmpty, ForceReadyIfQueued
<1>c. ASSUME NEW n, CheckTransitionFromEmpty(n)
      PROVE  {transition', forceTransition', powerReferenced'} \subseteq BOOLEAN
  BY <1>b, <1>c DEF CheckTransitionFromEmpty
<1>1. ASSUME NEW t \in Threads, DispatchStep(t)
      PROVE  FlagsOK'
  <2>1. CASE EnterDeferred(t)
    BY <1>0, <1>b, <1>c, <2>1 DEF EnterDeferred, FlagsOK
  <2>2. CASE InsertNewRequest(t) \/ PresentNew(t) \/ PresentNext(t) \/ RequeueAcknowledged(t)
    BY <1>0, <1>b, <1>c, <2>2 DEF InsertNewRequest, PresentNew, PresentNext,
                                  RequeueAcknowledged, FlagsOK
  <2>3. CASE \/ ProcessIdleComplete(t) \/ ProcessPurgeComplete(t) \/ ProcessReadyNotify(t)
             \/ PowerDereference(t) \/ DeleteQueue(t)
    BY <1>0, <2>3 DEF ProcessIdleComplete, ProcessPurgeComplete, ProcessReadyNotify,
                      PowerDereference, DeleteQueue, FlagsOK
  <2>4. CASE StartingTransition(t) \/ ProcessAcknowledgedRequest(t) \/ AwaitAcknowledge(t)
    BY <1>0, <2>4 DEF StartingTransition, ProcessAcknowledgedRequest, AwaitAcknowledge,
                      PowerOff, FlagsOK
  <2>5. CASE \/ EnterDispatchEvents(t) \/ EnterDeleted(t) \/ Relock(t) \/ LeaveDispatchEvents(t)
             \/ ProcessCancelledRequests(t) \/ ProcessCancelledRequestsOnQueue(t)
             \/ PresentTaken(t) \/ BeginNotifying(t) \/ NotifyStop(t) \/ NotifyResume(t)
             \/ PowerOn(t) \/ CollectAcknowledged(t)
    BY <1>a, <2>5 DEF EnterDispatchEvents, EnterDeleted, Relock, LeaveDispatchEvents,
         ProcessCancelledRequests, ProcessCancelledRequestsOnQueue, PresentTaken,
         BeginNotifying, NotifyStop, NotifyResume, PowerOn, CollectAcknowledged
  <2> QED BY <1>1, <2>1, <2>2, <2>3, <2>4, <2>5 DEF DispatchStep
<1>2. ASSUME NEW t \in Threads, ThreadStep(t), ~DispatchStep(t)
      PROVE  FlagsOK'
  <2>1. CASE SetDisposing(t)
    BY <1>0, <2>1 DEF SetDisposing, FlagsOK
  <2>2. CASE ~SetDisposing(t)
    BY <1>a, <1>2, <2>2 DEF ThreadStep, CompleteCanceled, DrainQueue, DrainDriver,
         DrainCancelForDriver, LockAndEnter, FinishDisposing
  <2> QED BY <2>1, <2>2
<1>3. CASE DeferStep
  BY <1>0, <1>3 DEF DeferStep, DeferredDispatch, DeferredEnd, FlagsOK
<1>4. CASE PowerDown \/ PowerStep
  <2>1. CASE ResetStateForRestart
    BY <1>0, <2>1 DEF ResetStateForRestart, Accepting, FlagsOK
  <2>2. CASE PowerPurge
    BY <1>0, <2>2 DEF PowerPurge, BeginPurge, FlagsOK
  <2>3. CASE StartPowerTransitionOn
    BY <1>0, <1>b, <2>3 DEF StartPowerTransitionOn, FlagsOK
  <2>4. CASE WaitPowerIdle \/ SetStateForShutdown
    BY <1>a, <2>4 DEF WaitPowerIdle, SetStateForShutdown
  <2>5. CASE \/ StartPowerTransitionOff \/ StopProcessingForPowerHold
             \/ StopProcessingForPowerPurge \/ ResumeProcessingForPower
    BY <1>0, <2>5 DEF StartPowerTransitionOff, StopProcessingForPowerHold,
         StopProcessingForPowerPurge, ResumeProcessingForPower, FlagsOK
  <2> QED BY <1>4, <2>1, <2>2, <2>3, <2>4, <2>5 DEF PowerDown, PowerStep
<1>5. ASSUME NEW t \in Workers, DriverCall(t) \/ \E r \in Requests : QueueRequest(t, r)
      PROVE  FlagsOK'
  <2>1. CASE QueueStart(t)
    BY <1>0, <1>b, <2>1 DEF QueueStart, Accepting, FlagsOK
  <2>2. ASSUME NEW b \in BOOLEAN, NEW c \in BOOLEAN, QueueIdle(t, b, c)
        PROVE  FlagsOK'
    BY <1>0, <2>2 DEF QueueIdle, Accepting, FlagsOK
  <2>3. ASSUME NEW b \in BOOLEAN, NEW c \in BOOLEAN, NEW op, BeginPurge(t, b, c, op)
        PROVE  FlagsOK'
    BY <1>0, <2>3 DEF BeginPurge, FlagsOK
  <2>4. ASSUME NEW b \in BOOLEAN, ReadyNotify(t, b)
        PROVE  FlagsOK'
    BY <1>0, <2>4 DEF ReadyNotify, FlagsOK
  <2>5. CASE \E r \in Requests : QueueRequest(t, r)
    BY <1>a, <2>5 DEF QueueRequest
  <2> QED BY <1>5, <2>1, <2>2, <2>3, <2>4, <2>5 DEF DriverCall, Dispose, QueuePurge
<1>6. ASSUME NEW r \in Requests, NEW t \in Workers, Requeue(t, r)
      PROVE  FlagsOK'
  BY <1>0, <1>b, <1>c, <1>6 DEF Requeue, FlagsOK
<1>7. ASSUME NEW r \in Requests,
             \/ CancelIrp(r) \/ CancelStep(r) \/ FinishStep(r)
             \/ \E b \in BOOLEAN : StopAcknowledge(r, b)
             \/ CompleteRequest(r) \/ MarkCancelable(r) \/ UnmarkCancelable(r)
             \/ ForwardBegin(r) \/ ForwardRefused(r)
      PROVE  FlagsOK'
  <2>1. CASE CancelIrp(r) \/ CancelStep(r)
    BY <1>a, <2>1 DEF CancelIrp, CancelStep, IrpCancelForQueue, IrpCancelForDriver,
       CancelForDriver
  <2>2. CASE FinishStep(r)
    BY <1>a, <2>2 DEF FinishStep, RequestCompletedCallback, ForwardDone
  <2>3. CASE \E b \in BOOLEAN : StopAcknowledge(r, b)
    BY <1>a, <2>3 DEF StopAcknowledge
  <2>4. CASE \/ CompleteRequest(r) \/ MarkCancelable(r) \/ UnmarkCancelable(r)
             \/ ForwardBegin(r) \/ ForwardRefused(r)
    BY <1>a, <2>4 DEF MarkCancelable, UnmarkCancelable, CompleteRequest, ForwardBegin,
       ForwardRefused
  <2> QED BY <1>7, <2>1, <2>2, <2>3, <2>4
<1>8. CASE GetRequest
  <2>1. /\ forceTransition' \in {forceTransition, TRUE}
        /\ UNCHANGED <<cancelDispatched, transition, powerReferenced, eventVars, lifeVars,
                       powerIdle, deferVars, purgeReported>>
    BY <1>8 DEF GetRequest
  <2>2. forceTransition' \in BOOLEAN
    BY <1>0, <2>1 DEF FlagsOK
  <2> QED BY <1>0, <2>1, <2>2 DEF FlagsOK
<1>9. ASSUME NEW r \in Requests, DriverStep(r)
      PROVE  FlagsOK'
  BY <1>6, <1>7, <1>9 DEF DriverStep
<1>10. CASE \E t \in Threads : ThreadStep(t)
  BY <1>1, <1>2, <1>10
<1>11. CASE \E t \in Workers : DriverCall(t) \/ \E r \in Requests : QueueRequest(t, r)
  BY <1>5, <1>11
<1>12. CASE \E r \in Requests : CancelIrp(r) \/ CancelStep(r) \/ DriverStep(r) \/ FinishStep(r)
  BY <1>7, <1>9, <1>12
<1> QED BY <1>3, <1>4, <1>8, <1>10, <1>11, <1>12 DEF Next

TypeInv == TypeOK /\ FrameOK

(* A new queue has its types, and every step keeps them.                    *)
LEMMA TypeInit == Init => TypeInv
<1> SUFFICES ASSUME Init
             PROVE  TypeInv
  OBVIOUS
<1>1. req \in [Requests -> Request]
  BY DEF Init, Request
<1>2. FrameOK
  <2>1. ASSUME NEW t \in Threads
        PROVE  /\ frame[t] = [pc |-> IF t = PowerThread THEN "on" ELSE "idle",
                              after |-> "idle", op |-> "none", why |-> "none",
                              new |-> NoRequest, cur |-> NoRequest]
               /\ frame[t] \in SoundFrame
    BY DEF Init, SoundFrame, Takes, Frame, FreePoints
  <2> QED BY <2>1 DEF Init, FrameOK
<1>3. frame \in [Threads -> Frame]
  BY <1>2 DEF FrameOK, SoundFrame
<1>4. queue \in Seq(Requests) /\ CancelOK
  BY DEF Init, CancelOK
<1>5. StateOK
  BY ConfigAssumption DEF Init, StateOK, PowerStates
<1>6. FlagsOK
  BY DEF Init, FlagsOK
<1> QED BY <1>1, <1>2, <1>3, <1>4, <1>5, <1>6 DEF TypeInv, TypeOK, CancelOK, StateOK, FlagsOK

(* TypeOK alone is not inductive: a frame must hold the request that its    *)
(* next step uses, which FrameOK adds.                                      *)
LEMMA TypeStep == TypeInv /\ [Next]_vars => TypeInv'
<1> SUFFICES ASSUME TypeInv, [Next]_vars
             PROVE  TypeInv'
  OBVIOUS
<1>1. CASE Next
  <2>1. ReqOK
    BY DEF TypeInv, TypeOK, ReqOK
  <2>2. FrameOK' /\ ReqOK' /\ queue' \in Seq(Requests) /\ CancelOK' /\ StateOK' /\ FlagsOK'
    BY <1>1, <2>1, FrameType, ReqType, QueueType, CancelType, StateType, FlagsType DEF TypeInv
  <2>3. (frame \in [Threads -> Frame])'
    BY <2>2 DEF FrameOK, SoundFrame
  <2> QED BY <2>2, <2>3 DEF TypeInv, TypeOK, ReqOK, CancelOK, StateOK, FlagsOK
<1>2. CASE UNCHANGED vars
  BY <1>2 DEF vars, cancelVars, gateVars, readyVars, eventVars, lifeVars, powerVars, deferVars,
              auxVars, TypeInv, TypeOK, FrameOK
<1> QED BY <1>1, <1>2

(* Type correctness for every configuration of the queue, any number of     *)
(* threads and any number of requests.                                      *)
THEOREM TypeCorrect == Spec => []TypeOK
<1>1. Spec => []TypeInv
  BY TypeInit, TypeStep, PTL DEF Spec
<1>2. TypeInv => TypeOK
  BY DEF TypeInv
<1> QED BY <1>1, <1>2, PTL

-----------------------------------------------------------------------------
(***************************************************************************)
(* Power.  The inductive invariant PowerInv says that m_Dispatching counts *)
(* the threads in the loop, that the power state fits the place of the     *)
(* power thread in the protocol, that nobody presents once the first phase *)
(* of a power down found the loop empty, and that the thread that works on *)
(* acknowledged requests cannot be overtaken by the end of the power down. *)
(***************************************************************************)
LoopThreads == {t \in Threads : InLoop(t)}

(* m_Dispatching counts the threads in the loop, until the queue is deleted *)
(* by the last of them.                                                     *)
LoopInv ==
  /\ deleted => LoopThreads = {}
  /\ ~deleted => dispatching = Cardinality(LoopThreads)

(* A thread presents a request or tells the driver that the queue is ready, *)
(* or is about to.                                                          *)
Presents(f) == f.why \in {"io", "ready", "insertFailedPresent"} \/ f.pc = "present"

(* No thread does, from the moment that the first phase of a power down     *)
(* found the loop empty, until the queue is on again.                       *)
Quiet == powerState \notin {"On", "StartingTransition"}
         \/ (powerState = "StartingTransition" /\ powerIdle)

QuietInv == PowerManaged /\ Quiet => \A t \in Threads : ~ Presents(frame[t])

(* A thread is in the middle of what the driver acknowledged.               *)
Acknowledges(f) == \/ f.pc \in {"ackLoop", "requeueAcked"}
                   \/ f.why \in {"acked", "requeued", "requeueFailed"}

AckInv == \A t \in Threads : Acknowledges(frame[t]) => DriverNotified

(* Where the power thread is in the protocol: inside DispatchEvents it is   *)
(* where it will go on.                                                     *)
InDispatchEvents(f) == f.pc \in LockedPoints \cup {"window"}

Stage(f) == IF InDispatchEvents(f) \/ f.pc = "completeCanceled" THEN f.after ELSE f.pc

PurgeStages == {"drainQueue", "drainDriver", "cancelDriver", "lockEnter"}
OffStages   == {"off", "purge", "setPurge"} \cup PurgeStages
WaitStages  == {"waitHold", "waitPurge"}
UpStages    == {"resumed", "on"}

DownStates == {"Stopping", "StoppingNotifyingDriver", "StoppingDriverNotified",
               "Purge", "PurgeNotifyingDriver", "PurgeDriverNotified", "Off"}
UpStates   == {"Restarting", "RestartingNotifyingDriver", "RestartingDriverNotified", "On"}

(* What m_PowerState can be at each stage. A queue that is not power        *)
(* managed is purged while it is on.                                        *)
StageOK(f) ==
  /\ Stage(f) \in {"waitStart", "started"} \cup WaitStages \cup OffStages \cup UpStages
  /\ Stage(f) \in PurgeStages => f.op = "powerPurge"
  /\ PowerManaged =>
       /\ Stage(f) = "waitStart" => powerState = "StartingTransition"
       /\ Stage(f) = "started" =>
            powerState = "StartingTransition" /\ (powerIdle \/ deleted)
       /\ Stage(f) \in WaitStages => powerState \in DownStates /\ (powerIdle => powerState = "Off")
       /\ Stage(f) \in OffStages => powerState \in DownStates /\ (powerState = "Off" \/ deleted)
       /\ Stage(f) \in UpStages => powerState \in UpStates
       /\ Stage(f) \in UpStages /\ ~ InDispatchEvents(f) => powerState = "On" \/ deleted
  /\ ~PowerManaged =>
       /\ Stage(f) \in {"on", "waitPurge"} \cup OffStages
       /\ Stage(f) \in {"on"} \cup (OffStages \ {"off"}) => powerState = "On"
       /\ Stage(f) = "waitPurge" => powerState \in DownStates /\ (powerIdle => powerState = "Off")
       /\ Stage(f) = "off" => powerState = "Off" \/ deleted

StageInv == StageOK(frame[PowerThread])

PowerInv == LoopInv /\ QuietInv /\ AckInv /\ StageInv

-----------------------------------------------------------------------------
(* Steps by what they do to the loop.                                       *)

InLoopPoints == LoopPoints \cup {"window"}

(* A step of t inside the loop.                                             *)
Inside(t) ==
  /\ Moves(t)
  /\ frame[t].pc \in InLoopPoints /\ frame'[t].pc \in InLoopPoints
  /\ frame'[t].after = frame[t].after /\ frame'[t].op = frame[t].op
  /\ Presents(frame'[t]) => Presents(frame[t]) \/ powerState = "On"
  /\ Acknowledges(frame'[t]) => Acknowledges(frame[t]) \/ DriverNotified

(* A step of t outside it.                                                  *)
Outside(t) ==
  /\ Moves(t)
  /\ frame[t].pc \notin InLoopPoints /\ frame'[t].pc \notin InLoopPoints
  /\ frame'[t].why = frame[t].why

(* t ends its loop and goes on where DispatchEvents was called.             *)
Leaves(t) ==
  /\ frame' = [frame EXCEPT ![t] = [@ EXCEPT !.pc = frame[t].after, !.cur = NoRequest]]
  /\ frame[t].pc = "dispatch"

(* The points inside and outside the loop are different ones.               *)
LEMMA PointFacts ==
  /\ InLoopPoints \cap FreePoints = {}
  /\ "enter" \notin InLoopPoints \cup FreePoints
  /\ InLoopPoints \subseteq LockedPoints \cup {"window"}
BY DEF InLoopPoints, LoopPoints, LockedPoints, FreePoints

(* There are finitely many threads in the loop.                             *)
LEMMA LoopThreadsFinite ==
  /\ IsFiniteSet(Threads)
  /\ IsFiniteSet(LoopThreads)
  /\ IsFiniteSet(LoopThreads')
<1>2. LoopThreads \subseteq Threads /\ LoopThreads' \subseteq Threads
  BY DEF LoopThreads
<1> QED BY <1>2, ThreadsFinite, FS_Subset

(* What threads outside the loop do not do.                                 *)
LEMMA OutsideFacts ==
  ASSUME FrameOK, NEW t \in Threads, frame[t].pc \notin InLoopPoints
  PROVE  ~ Presents(frame[t]) /\ ~ Acknowledges(frame[t])
BY DEF FrameOK, SoundFrame, Presents, Acknowledges, InLoopPoints, LoopPoints, LockedPoints

(* Steps inside and outside the loop keep the set of threads in it.         *)
LEMMA SameLoop ==
  ASSUME FrameOK, FrameOK', NEW t \in Threads, Inside(t) \/ Outside(t)
  PROVE  LoopThreads' = LoopThreads
BY DEF Inside, Outside, Moves, LoopThreads, InLoop, InLoopPoints, FrameOK

(* A step inside the loop keeps the stage of the power thread.              *)
LEMMA InsideStage ==
  ASSUME FrameOK, NEW t \in Threads, Inside(t)
  PROVE  /\ Stage(frame'[PowerThread]) = Stage(frame[PowerThread])
         /\ frame'[PowerThread].op = frame[PowerThread].op
         /\ InDispatchEvents(frame'[PowerThread]) <=> InDispatchEvents(frame[PowerThread])
<1>1. CASE t = PowerThread
  BY <1>1, PointFacts DEF Inside, Stage, InDispatchEvents
<1>2. CASE t # PowerThread
  BY <1>2 DEF Inside, Moves, FrameOK, Threads
<1> QED BY <1>1, <1>2

-----------------------------------------------------------------------------
(* Inside the loop.                                                         *)

(* A step inside the loop that leaves the power state alone.                *)
LEMMA InsideSame ==
  ASSUME FrameOK, FrameOK', PowerInv, NEW t \in Threads, Inside(t),
         UNCHANGED <<dispatching, deleted, powerVars>>
  PROVE  PowerInv'
<1>1. LoopInv'
  BY SameLoop DEF PowerInv, LoopInv
<1>2. QuietInv'
  BY DEF PowerInv, QuietInv, Quiet, Inside, Moves, FrameOK, powerVars
<1>3. AckInv'
  BY DEF PowerInv, AckInv, DriverNotified, Inside, Moves, FrameOK, powerVars
<1>4. StageInv'
  BY InsideStage DEF PowerInv, StageInv, StageOK, powerVars
<1> QED BY <1>1, <1>2, <1>3, <1>4 DEF PowerInv

(* A step inside the loop that takes the power state further, but not to    *)
(* where the power thread waits for it.                                     *)
Advances ==
  /\ UNCHANGED powerIdle
  /\ \/ powerState \in {"Stopping", "Purge", "StoppingNotifyingDriver", "PurgeNotifyingDriver"}
        /\ powerState' \in DownStates \ {"Off"}
     \/ powerState \in {"Restarting", "RestartingNotifyingDriver"}
        /\ powerState' \in UpStates \ {"On"}

(* The notification of the driver goes on.                                  *)
LEMMA InsideAdvances ==
  ASSUME FrameOK, FrameOK', PowerInv, NEW t \in Threads, Inside(t), ~ Acknowledges(frame'[t]),
         Advances, UNCHANGED <<dispatching, deleted>>
  PROVE  PowerInv'
<1>1. LoopInv'
  BY SameLoop DEF PowerInv, LoopInv
<1>2. powerState \notin {"On", "Off", "StartingTransition"} /\ ~ DriverNotified
  BY DEF Advances, DriverNotified
<1>3. QuietInv'
  BY <1>2 DEF PowerInv, QuietInv, Quiet, Inside, Moves, FrameOK
<1>4. AckInv'
  BY <1>2 DEF PowerInv, AckInv, Inside, Moves, FrameOK
<1>5. StageInv'
  <2>1. powerState \in DownStates => powerState' \in DownStates
    BY DEF Advances, DownStates
  <2>2. powerState \in UpStates => powerState' \in UpStates
    BY DEF Advances, UpStates
  <2>3. (powerIdle' => powerState' = "Off") \/ powerIdle
    BY DEF Advances
  <2> QED BY <1>2, <2>1, <2>2, <2>3, InsideStage DEF PowerInv, StageInv, StageOK
<1> QED BY <1>1, <1>3, <1>4, <1>5 DEF PowerInv

(* When t is the last in the loop no other thread is.                       *)
LEMMA LastIsAlone ==
  ASSUME FrameOK, LoopInv, LastInLoop, NEW t \in LoopThreads
  PROVE  ~ deleted /\ \A u \in Threads : u # t => frame[u].pc \notin InLoopPoints
<1>1. ~ deleted /\ Cardinality(LoopThreads) = 1
  BY DEF LoopInv, LastInLoop
<1>2. PICK x : LoopThreads = {x}
  BY <1>1, LoopThreadsFinite, FS_Singleton
<1>3. \A u \in Threads : u # t => u \notin LoopThreads
  BY <1>2
<1> QED BY <1>1, <1>3 DEF LoopThreads, InLoop, InLoopPoints

(* A step inside the loop that ends a power down.                           *)
LEMMA InsidePowersOff ==
  ASSUME FrameOK, FrameOK', PowerInv, NEW t \in Threads, Inside(t), ~ Acknowledges(frame'[t]),
         Acknowledges(frame[t]) \/ DriverNotified, LastInLoop, PowerOff,
         UNCHANGED <<dispatching, deleted>>
  PROVE  PowerInv'
<1>1. LoopInv'
  BY SameLoop DEF PowerInv, LoopInv
<1>2. t \in LoopThreads
  BY DEF Inside, LoopThreads, InLoop, InLoopPoints
<1>3. \A u \in Threads : u # t => ~ Acknowledges(frame[u])
  BY <1>2, LastIsAlone, OutsideFacts DEF PowerInv
<1>4. DriverNotified
  BY DEF PowerInv, AckInv
<1>5. QuietInv'
  BY <1>4 DEF PowerInv, QuietInv, Quiet, Inside, Moves, FrameOK, DriverNotified
<1>6. AckInv'
  BY <1>3 DEF AckInv, Inside, Moves, FrameOK
<1>7. StageInv'
  BY <1>4, InsideStage DEF PowerInv, StageInv, StageOK, DriverNotified, PowerOff, DownStates,
     UpStates
<1> QED BY <1>1, <1>5, <1>6, <1>7 DEF PowerInv

(* Go and Window as steps inside the loop.                                  *)
LEMMA GoInside ==
  ASSUME FrameOK, NEW t \in Threads, NEW pc \in LoopPoints, frame[t].pc \in InLoopPoints,
         Go(t, pc), pc # "present",
         pc \in {"ackLoop", "requeueAcked"} => Acknowledges(frame[t]) \/ DriverNotified
  PROVE  /\ Inside(t)
         /\ pc \notin {"ackLoop", "requeueAcked"} /\ frame[t].why = "none"
              => ~ Acknowledges(frame'[t])
BY DEF Go, Inside, Moves, Presents, Acknowledges, FrameOK, SoundFrame, Frame, InLoopPoints

(* A thread in the loop calls the driver, or completes a request.           *)
LEMMA WindowInside ==
  ASSUME FrameOK, NEW t \in Threads, NEW why, NEW r, frame[t].pc \in InLoopPoints,
         Window(t, why, r),
         why \in {"io", "ready", "insertFailedPresent"} => Presents(frame[t]) \/ powerState = "On",
         why \in {"acked", "requeued", "requeueFailed"} =>
           Acknowledges(frame[t]) \/ DriverNotified
  PROVE  Inside(t)
BY DEF Window, Inside, Moves, Presents, Acknowledges, FrameOK, SoundFrame, Frame, InLoopPoints

(* A step of the queue that leaves all threads where they are.              *)
LEMMA StillInside ==
  ASSUME FrameOK, NEW t \in Threads, frame[t].pc \in InLoopPoints, UNCHANGED frame
  PROVE  Inside(t) /\ (Acknowledges(frame'[t]) <=> Acknowledges(frame[t]))
BY DEF Inside, Moves, FrameOK

(* A step that moves no thread and leaves the power state alone.            *)
LEMMA StillSame ==
  ASSUME PowerInv, UNCHANGED <<frame, dispatching, deleted, powerVars>>
  PROVE  PowerInv'
BY DEF PowerInv, LoopInv, LoopThreads, InLoop, QuietInv, Quiet, AckInv, DriverNotified, StageInv,
       StageOK, powerVars

-----------------------------------------------------------------------------
(* Outside the loop.                                                        *)

(* A step outside the loop leaves all but the stage of the power thread as  *)
(* it was, if the queue does not become quiet or is deleted.                *)
LEMMA OutsideSame ==
  ASSUME FrameOK, FrameOK', PowerInv, NEW t \in Threads, Outside(t),
         UNCHANGED <<dispatching, deleted>>, PowerManaged /\ Quiet' => Quiet \/ deleted,
         DriverNotified => DriverNotified' \/ deleted
  PROVE  LoopInv' /\ QuietInv' /\ AckInv'
<1>1. LoopInv'
  BY SameLoop DEF PowerInv, LoopInv
<1>2. ~ Presents(frame'[t]) /\ ~ Acknowledges(frame'[t])
  BY DEF Outside, Presents, Acknowledges, FrameOK, SoundFrame, InLoopPoints, LoopPoints,
         LockedPoints
<1>a. deleted => \A u \in Threads : ~ Presents(frame[u]) /\ ~ Acknowledges(frame[u])
  BY OutsideFacts DEF PowerInv, LoopInv, LoopThreads, InLoop, InLoopPoints
<1>b. \A u \in Threads : u # t => frame'[u] = frame[u]
  BY DEF Outside, Moves, FrameOK
<1>3. QuietInv'
  BY <1>2, <1>a, <1>b DEF PowerInv, QuietInv
<1>4. AckInv'
  BY <1>2, <1>a, <1>b DEF PowerInv, AckInv
<1> QED BY <1>1, <1>3, <1>4

(* A step outside the loop of another thread than the power thread.         *)
LEMMA OutsideWorker ==
  ASSUME FrameOK, FrameOK', PowerInv, NEW t \in Threads, Outside(t), t # PowerThread,
         UNCHANGED <<dispatching, deleted, powerVars>>
  PROVE  PowerInv'
<1>1. (Quiet' => Quiet) /\ (DriverNotified => DriverNotified')
  BY DEF Quiet, DriverNotified, powerVars
<1>2. frame'[PowerThread] = frame[PowerThread]
  BY DEF Outside, Moves, FrameOK, Threads
<1>3. StageInv'
  BY <1>2 DEF PowerInv, StageInv, StageOK, powerVars
<1> QED BY <1>1, <1>3, OutsideSame DEF PowerInv

(* A thread enters the loop.                                                *)
LEMMA JoinsLoop ==
  ASSUME TypeOK, FrameOK, FrameOK', PowerInv, NEW t \in Threads, EnterDispatchEvents(t)
  PROVE  PowerInv'
<1>1. /\ frame' = [frame EXCEPT ![t].pc = "dispatch"] /\ frame[t].pc = "enter" /\ ~ deleted
      /\ UNCHANGED <<deleted, powerVars>> /\ dispatching' = dispatching + 1
  BY DEF EnterDispatchEvents, Go, lifeVars
<1>2. t \notin LoopThreads /\ LoopThreads' = LoopThreads \cup {t}
  BY <1>1, PointFacts DEF LoopThreads, InLoop, InLoopPoints, FrameOK, SoundFrame, Frame,
     LoopPoints, LockedPoints
<1>3. LoopInv'
  BY <1>1, <1>2, LoopThreadsFinite, FS_AddElement DEF PowerInv, LoopInv
<1>4. ~ Presents(frame'[t]) /\ ~ Acknowledges(frame'[t])
  BY <1>1 DEF Presents, Acknowledges, FrameOK, SoundFrame, Frame
<1>5. QuietInv'
  BY <1>1, <1>4 DEF PowerInv, QuietInv, Quiet, FrameOK, powerVars
<1>6. AckInv'
  BY <1>1, <1>4 DEF PowerInv, AckInv, DriverNotified, FrameOK, powerVars
<1>7. StageInv'
  <2>1. CASE t # PowerThread
    BY <1>1, <2>1 DEF PowerInv, StageInv, StageOK, powerVars, FrameOK, Threads
  <2>2. CASE t = PowerThread
    <3>1. /\ Stage(frame'[t]) = Stage(frame[t]) /\ frame'[t].op = frame[t].op
          /\ InDispatchEvents(frame'[t])
      BY <1>1 DEF Stage, InDispatchEvents, LockedPoints, FrameOK, SoundFrame, Frame
    <3> QED BY <1>1, <2>2, <3>1 DEF PowerInv, StageInv, StageOK, powerVars
  <2> QED BY <2>1, <2>2
<1> QED BY <1>3, <1>5, <1>6, <1>7 DEF PowerInv

(* What leaving does to the loop and to the thread.                         *)
LEMMA LeaveFacts ==
  ASSUME FrameOK, NEW t \in Threads, Leaves(t)
  PROVE  /\ t \in LoopThreads /\ LoopThreads' = LoopThreads \ {t}
         /\ ~ Presents(frame'[t]) /\ ~ Acknowledges(frame'[t])
         /\ Stage(frame'[t]) = Stage(frame[t]) /\ frame'[t].op = frame[t].op
         /\ frame'[t].pc = Stage(frame[t])
<1>1. /\ frame[t].pc = "dispatch" /\ frame'[t].pc = frame[t].after
      /\ frame'[t].op = frame[t].op /\ frame'[t].why = "none"
      /\ frame'[t].after = frame[t].after
      /\ frame[t].after \in FreePoints
  BY DEF Leaves, FrameOK, SoundFrame, Frame
<1>2. "dispatch" \in LoopPoints /\ "dispatch" \in LockedPoints
  BY DEF LoopPoints, LockedPoints
<1>3. t \in LoopThreads
  BY <1>1, <1>2 DEF LoopThreads, InLoop
<1>4. LoopThreads' = LoopThreads \ {t}
  BY <1>1, PointFacts DEF Leaves, LoopThreads, InLoop, InLoopPoints, FrameOK
<1>5. ~ Presents(frame'[t]) /\ ~ Acknowledges(frame'[t])
  BY <1>1 DEF Presents, Acknowledges, FreePoints
<1>6. Stage(frame[t]) = frame[t].after
  BY <1>1, <1>2 DEF Stage, InDispatchEvents
<1>7. Stage(frame'[t]) = frame[t].after
  BY <1>1 DEF Stage, InDispatchEvents
<1> QED BY <1>1, <1>3, <1>4, <1>5, <1>6, <1>7

(* A thread leaves the loop: the counter follows.                           *)
LEMMA LeavesLoop ==
  ASSUME TypeOK, FrameOK, LoopInv, NEW t \in Threads, Leaves(t),
         dispatching' = dispatching - 1, UNCHANGED deleted
  PROVE  LoopInv'
<1>1. t \in LoopThreads /\ LoopThreads' = LoopThreads \ {t}
  BY LeaveFacts
<1>2. ~ deleted /\ dispatching = Cardinality(LoopThreads)
  BY <1>1 DEF LoopInv
<1>3. Cardinality(LoopThreads \ {t}) = Cardinality(LoopThreads) - 1
  BY <1>1, LoopThreadsFinite, FS_RemoveElement
<1> QED BY <1>1, <1>2, <1>3 DEF LoopInv

-----------------------------------------------------------------------------
(* Leaving the loop.                                                        *)

(* What the turn that DispatchEvents takes says of the power state.         *)
LEMMA TurnFacts ==
  ASSUME NEW t
  PROVE  /\ Turn(t) \in {"ready", "next", "new"} => powerState = "On"
         /\ Turn(t) = "power" => powerState \notin {"On", "Off"}
         /\ Turn(t) = "leave" => powerState \in {"On", "Off"}
         /\ Turn(t) = "delete" => LastInLoop
BY DEF Turn

(* The power thread keeps its stage when a thread leaves the loop.          *)
LEMMA LeavesStage ==
  ASSUME FrameOK, NEW t \in Threads, Leaves(t)
  PROVE  /\ Stage(frame'[PowerThread]) = Stage(frame[PowerThread])
         /\ frame'[PowerThread].op = frame[PowerThread].op
<1>1. CASE t = PowerThread
  BY <1>1, LeaveFacts
<1>2. CASE t # PowerThread
  BY <1>2 DEF Leaves, FrameOK, Threads
<1> QED BY <1>1, <1>2

(* Who leaves the loop neither presents a request nor acknowledges one.     *)
LEMMA LeavesCallbacks ==
  ASSUME FrameOK, PowerInv, NEW t \in Threads, Leaves(t),
         PowerManaged /\ Quiet' => Quiet \/ \A u \in Threads : u # t => ~ Presents(frame[u]),
         DriverNotified => DriverNotified'
  PROVE  QuietInv' /\ AckInv'
<1>1. ~ Presents(frame'[t]) /\ ~ Acknowledges(frame'[t])
  BY LeaveFacts
<1>2. \A u \in Threads : u # t => frame'[u] = frame[u]
  BY DEF Leaves, FrameOK
<1>3. QuietInv'
  BY <1>1, <1>2 DEF PowerInv, QuietInv
<1>4. AckInv'
  BY <1>1, <1>2 DEF PowerInv, AckInv
<1> QED BY <1>3, <1>4

(* The loop ends because there is nothing to do, or the driver has not      *)
(* acknowledged all requests yet.                                           *)
LEMMA LeaveKeepsPower ==
  ASSUME TypeOK, FrameOK, PowerInv, NEW t \in Threads, Leaves(t),
         powerState \in {"On", "Off"} \/ DriverNotified,
         dispatching' = dispatching - 1, UNCHANGED <<deleted, powerVars>>
  PROVE  PowerInv'
<1>1. LoopInv'
  BY LeavesLoop DEF PowerInv
<1>2. QuietInv' /\ AckInv'
  BY LeavesCallbacks DEF Quiet, DriverNotified, powerVars
<1>3. StageInv'
  <2>1. powerState \in UpStates => powerState = "On"
    BY DEF UpStates, DriverNotified
  <2> QED BY <2>1, LeavesStage DEF PowerInv, StageInv, StageOK, powerVars
<1> QED BY <1>1, <1>2, <1>3 DEF PowerInv

(* The first phase of a power down: the last thread that leaves the loop    *)
(* sets m_PowerIdle, and then nobody presents a request.                    *)
LEMMA StartingTransitionPower ==
  ASSUME TypeOK, FrameOK, PowerInv, NEW t \in Threads, StartingTransition(t)
  PROVE  PowerInv'
<1>1. /\ Leaves(t) /\ powerState = "StartingTransition"
      /\ UNCHANGED <<deleted, powerState>> /\ dispatching' = dispatching - 1
      /\ powerIdle' = (powerIdle \/ LastInLoop)
  BY DEF StartingTransition, AtTurn, UnlockTo, Leaves, lifeVars
<1>2. LoopInv'
  BY <1>1, LeavesLoop DEF PowerInv
<1>3. LastInLoop => \A u \in Threads : u # t => ~ Presents(frame[u])
  BY <1>1, LeaveFacts, LastIsAlone, OutsideFacts DEF PowerInv
<1>4. powerIdle \in BOOLEAN
  BY DEF TypeOK
<1>5. Quiet' => Quiet \/ LastInLoop
  BY <1>1, <1>4 DEF Quiet
<1>6. QuietInv' /\ AckInv'
  BY <1>1, <1>3, <1>5, LeavesCallbacks DEF DriverNotified
<1>7. StageInv'
  BY <1>1, LeavesStage DEF PowerInv, StageInv, StageOK, DownStates, UpStates
<1> QED BY <1>2, <1>6, <1>7 DEF PowerInv

(* The queue is on again.                                                   *)
LEMMA PowerOnPower ==
  ASSUME TypeOK, FrameOK, PowerInv, NEW t \in Threads, PowerOn(t)
  PROVE  PowerInv'
<1>1. /\ Leaves(t) /\ powerState = "RestartingDriverNotified" /\ powerState' = "On"
      /\ UNCHANGED <<deleted, powerIdle>> /\ dispatching' = dispatching - 1
  BY DEF PowerOn, AtTurn, UnlockTo, Leaves, lifeVars
<1>2. LoopInv'
  BY <1>1, LeavesLoop DEF PowerInv
<1>3. QuietInv' /\ AckInv'
  BY <1>1, LeavesCallbacks DEF DriverNotified, Quiet
<1>4. ~ deleted
  BY <1>1, LeaveFacts DEF PowerInv, LoopInv
<1>5. StageInv'
  BY <1>1, <1>4, LeavesStage DEF PowerInv, StageInv, StageOK, DownStates, UpStates
<1> QED BY <1>2, <1>3, <1>5 DEF PowerInv

(* The last thread in the loop deletes the queue.                           *)
LEMMA DeleteQueuePower ==
  ASSUME TypeOK, FrameOK, PowerInv, NEW t \in Threads, DeleteQueue(t)
  PROVE  PowerInv'
<1>1. Leaves(t) /\ deleted' /\ UNCHANGED powerVars /\ LastInLoop
  BY TurnFacts DEF DeleteQueue, AtTurn, UnlockTo, Leaves
<1>2. LoopInv'
  <2>1. t \in LoopThreads /\ LoopThreads' = LoopThreads \ {t}
    BY <1>1, LeaveFacts
  <2>2. LoopThreads \subseteq {t}
    BY <1>1, <2>1, LastIsAlone DEF PowerInv, LoopThreads, InLoop, InLoopPoints
  <2> QED BY <1>1, <2>1, <2>2 DEF LoopInv
<1>3. QuietInv' /\ AckInv'
  BY <1>1, LeavesCallbacks DEF DriverNotified, Quiet, powerVars
<1>4. StageInv'
  BY <1>1, LeavesStage DEF PowerInv, StageInv, StageOK, powerVars
<1> QED BY <1>2, <1>3, <1>4 DEF PowerInv

-----------------------------------------------------------------------------
(* The actions of DispatchEvents that stay inside the loop.                 *)

(* The points of the loop, one by one.                                      *)
LEMMA LoopPointFacts ==
  /\ LoopPoints = {"dispatch", "drainCancelled", "drainOnQueue", "ackLoop", "requeueAcked",
                   "present", "idleNow"}
  /\ LoopPoints \subseteq InLoopPoints /\ "window" \in InLoopPoints
BY DEF LoopPoints, LockedPoints, InLoopPoints

(* A thread takes the lock again where it left it.                          *)
LEMMA RelockPower ==
  ASSUME FrameOK, FrameOK', PowerInv, NEW t \in Threads, Relock(t)
  PROVE  PowerInv'
<1> DEFINE pc == CASE frame[t].why = "cancel" -> "drainCancelled"
                   [] frame[t].why = "onQueue" -> "drainOnQueue"
                   [] frame[t].why = "insertFailedIdle" -> "idleNow"
                   [] frame[t].why = "insertFailedPresent" -> "present"
                   [] frame[t].why \in {"acked", "requeueFailed"} -> "ackLoop"
                   [] frame[t].why = "requeued" -> "requeueAcked"
                   [] OTHER -> "dispatch"
           cur == IF frame[t].why \in {"insertFailedPresent", "requeued"}
                  THEN frame[t].cur ELSE NoRequest
<1>1. /\ pc \in LoopPoints
      /\ pc = "present" => frame[t].why = "insertFailedPresent"
      /\ pc \in {"ackLoop", "requeueAcked"} =>
           frame[t].why \in {"acked", "requeueFailed", "requeued"}
  BY LoopPointFacts
<1>2. /\ frame' = [frame EXCEPT ![t] = [@ EXCEPT !.pc = pc, !.why = "none", !.cur = cur]]
      /\ frame[t].pc = "window" /\ UNCHANGED <<dispatching, deleted, powerVars>>
  BY DEF Relock, lifeVars
<1> HIDE DEF pc, cur
<1>3. /\ Moves(t) /\ frame'[t].pc = pc /\ frame'[t].why = "none"
      /\ frame'[t].after = frame[t].after /\ frame'[t].op = frame[t].op
  BY <1>2 DEF Moves, FrameOK, SoundFrame, Frame
<1>4. Inside(t)
  BY <1>1, <1>2, <1>3, LoopPointFacts DEF Inside, Presents, Acknowledges
<1> QED BY <1>2, <1>4, InsideSame

(* InsertNewRequest.                                                        *)
LEMMA InsertPower ==
  ASSUME FrameOK, FrameOK', PowerInv, NEW t \in Threads, InsertNewRequest(t)
  PROVE  PowerInv'
<1>1. frame[t].pc \in InLoopPoints /\ UNCHANGED <<dispatching, deleted, powerVars>>
  BY LoopPointFacts DEF InsertNewRequest, lifeVars
<1>2. Inside(t)
  <2>1. CASE req[frame[t].new].cancel
    <3>1. PICK why \in {"insertFailed", "insertFailedIdle"} : Window(t, why, NoRequest)
      BY <2>1 DEF InsertNewRequest
    <3> QED BY <1>1, <3>1, WindowInside
  <2>2. CASE ~ req[frame[t].new].cancel
    <3>1. frame' = [frame EXCEPT ![t].new = NoRequest]
      BY <2>2 DEF InsertNewRequest
    <3> QED BY <1>1, <3>1 DEF Inside, Moves, FrameOK, SoundFrame, Frame, Presents, Acknowledges
  <2> QED BY <2>1, <2>2
<1> QED BY <1>1, <1>2, InsideSame

(* EvtRequestCancel and EvtIoCanceledOnQueue.                               *)
LEMMA CancelledPower ==
  ASSUME FrameOK, FrameOK', PowerInv, NEW t \in Threads,
         ProcessCancelledRequests(t) \/ ProcessCancelledRequestsOnQueue(t)
  PROVE  PowerInv'
<1>1. frame[t].pc \in InLoopPoints /\ UNCHANGED <<dispatching, deleted, powerVars>>
  BY LoopPointFacts DEF ProcessCancelledRequests, ProcessCancelledRequestsOnQueue, AtTurn, lifeVars
<1>2. \/ Go(t, "dispatch")
      \/ \E r \in cancelled : Window(t, "cancel", r)
      \/ \E r \in canceledOnQueue : Window(t, "onQueue", r)
  <2>1. CASE ProcessCancelledRequests(t)
    BY <2>1 DEF ProcessCancelledRequests
  <2>2. CASE ProcessCancelledRequestsOnQueue(t)
    BY <2>2 DEF ProcessCancelledRequestsOnQueue
  <2> QED BY <2>1, <2>2
<1>3. CASE Go(t, "dispatch")
  BY <1>1, <1>3, GoInside, LoopPointFacts, InsideSame
<1>4. ASSUME NEW r, Window(t, "cancel", r) \/ Window(t, "onQueue", r)
      PROVE  PowerInv'
  BY <1>1, <1>4, WindowInside, InsideSame
<1> QED BY <1>2, <1>3, <1>4

(* EvtIoQueueIdleComplete, EvtIoQueuePurgeComplete and EvtIoQueueState, the *)
(* last only while the queue is on.                                         *)
LEMMA EventPower ==
  ASSUME FrameOK, FrameOK', PowerInv, NEW t \in Threads,
         ProcessIdleComplete(t) \/ ProcessPurgeComplete(t) \/ ProcessReadyNotify(t)
  PROVE  PowerInv'
<1>1. frame[t].pc \in InLoopPoints /\ UNCHANGED <<dispatching, deleted, powerVars>>
  BY LoopPointFacts
     DEF ProcessIdleComplete, ProcessPurgeComplete, ProcessReadyNotify, AtTurn, lifeVars
<1>2. \/ Window(t, "idleDone", NoRequest) \/ Window(t, "purgeDone", NoRequest)
      \/ Window(t, "ready", NoRequest) /\ powerState = "On"
  BY TurnFacts DEF ProcessIdleComplete, ProcessPurgeComplete, ProcessReadyNotify, AtTurn
<1>3. Inside(t)
  BY <1>1, <1>2, WindowInside
<1> QED BY <1>1, <1>3, InsideSame

(* Requests are presented only while the queue is on, or after a failed     *)
(* insertion by a thread that began while it was.                           *)
LEMMA PresentPower ==
  ASSUME FrameOK, FrameOK', PowerInv, NEW t \in Threads,
         PresentNew(t) \/ PresentNext(t) \/ PresentTaken(t)
  PROVE  PowerInv'
<1>1. frame[t].pc \in InLoopPoints /\ UNCHANGED <<dispatching, deleted, powerVars>>
  BY LoopPointFacts DEF PresentNew, PresentNext, PresentTaken, lifeVars
<1>2. Presents(frame[t]) \/ powerState = "On"
  BY TurnFacts DEF PresentNew, PresentNext, PresentTaken, Presents
<1>3. PICK r : Window(t, "io", r) \/ Window(t, "insertFailedPresent", r)
  <2>1. CASE PresentNew(t)
    BY <2>1 DEF PresentNew, Present
  <2>2. CASE PresentNext(t)
    BY <2>2 DEF PresentNext, Present
  <2>3. CASE PresentTaken(t)
    BY <2>3 DEF PresentTaken, Present
  <2> QED BY <2>1, <2>2, <2>3
<1>4. Inside(t)
  BY <1>1, <1>2, <1>3, WindowInside
<1> QED BY <1>1, <1>4, InsideSame

(* The driver begins to hear of the power change.                           *)
LEMMA BeginNotifyingPower ==
  ASSUME FrameOK, FrameOK', PowerInv, NEW t \in Threads, BeginNotifying(t)
  PROVE  PowerInv'
<1>1. /\ frame[t].pc = "dispatch" /\ UNCHANGED <<frame, dispatching, deleted, powerIdle>>
      /\ powerState \in {"Stopping", "Purge", "Restarting"}
      /\ powerState' = CASE powerState = "Stopping" -> "StoppingNotifyingDriver"
                         [] powerState = "Purge" -> "PurgeNotifyingDriver"
                         [] OTHER -> "RestartingNotifyingDriver"
  BY DEF BeginNotifying, AtTurn, lifeVars
<1>2. Advances
  BY <1>1 DEF Advances, DownStates, UpStates
<1>3. Inside(t) /\ ~ Acknowledges(frame'[t])
  BY <1>1, LoopPointFacts, StillInside DEF Acknowledges, FrameOK, SoundFrame
<1> QED BY <1>1, <1>2, <1>3, InsideAdvances

(* EvtIoStop and EvtIoResume, and the step on when all were called.         *)
LEMMA NotifyPower ==
  ASSUME FrameOK, FrameOK', PowerInv, NEW t \in Threads, NotifyStop(t) \/ NotifyResume(t)
  PROVE  PowerInv'
<1>1. frame[t].pc = "dispatch" /\ UNCHANGED <<dispatching, deleted, powerIdle>>
  BY DEF NotifyStop, NotifyResume, AtTurn, lifeVars
<1>2. \/ UNCHANGED frame
      \/ \E r \in On("notify") : Window(t, "stop", r) \/ Window(t, "resume", r)
  <2>1. CASE NotifyStop(t)
    BY <2>1 DEF NotifyStop
  <2>2. CASE NotifyResume(t)
    BY <2>2 DEF NotifyResume
  <2> QED BY <2>1, <2>2
<1>3. Inside(t)
  BY <1>1, <1>2, LoopPointFacts, StillInside, WindowInside
<1>4. CASE UNCHANGED powerState
  BY <1>1, <1>3, <1>4, InsideSame DEF powerVars
<1>5. CASE UNCHANGED frame /\ powerState' # powerState
  <2>1. Advances
    BY <1>1, <1>5 DEF NotifyStop, NotifyResume, Advances, DownStates, UpStates
  <2>2. ~ Acknowledges(frame'[t])
    BY <1>1, <1>5 DEF Acknowledges, FrameOK, SoundFrame
  <2> QED BY <1>1, <1>3, <2>1, <2>2, InsideAdvances
<1> QED BY <1>4, <1>5 DEF NotifyStop, NotifyResume

(* Acknowledged requests are taken over while the driver is notified, and   *)
(* the thread that took them over can be the one that ends the power down.  *)
LEMMA AcknowledgedPower ==
  ASSUME FrameOK, FrameOK', PowerInv, NEW t \in Threads,
         CollectAcknowledged(t) \/ ProcessAcknowledgedRequest(t) \/ RequeueAcknowledged(t)
  PROVE  PowerInv'
<1>1. frame[t].pc \in InLoopPoints /\ UNCHANGED <<dispatching, deleted>>
  BY LoopPointFacts
     DEF CollectAcknowledged, ProcessAcknowledgedRequest, RequeueAcknowledged, AtTurn, lifeVars
<1>2. Acknowledges(frame[t]) \/ DriverNotified
  BY DEF CollectAcknowledged, ProcessAcknowledgedRequest, RequeueAcknowledged, Acknowledges
<1>3. \/ Go(t, "ackLoop") \/ Go(t, "dispatch")
      \/ \E r : Window(t, "acked", r) \/ Window(t, "requeued", r) \/ Window(t, "requeueFailed", r)
  <2>1. CASE CollectAcknowledged(t)
    BY <2>1 DEF CollectAcknowledged
  <2>2. CASE ProcessAcknowledgedRequest(t)
    BY <2>2 DEF ProcessAcknowledgedRequest
  <2>3. CASE RequeueAcknowledged(t)
    BY <2>3 DEF RequeueAcknowledged
  <2> QED BY <2>1, <2>2, <2>3
<1>4. Inside(t)
  <2>1. CASE Go(t, "ackLoop") \/ Go(t, "dispatch")
    BY <1>1, <1>2, <2>1, GoInside, LoopPointFacts
  <2>2. ASSUME NEW r, Window(t, "acked", r) \/ Window(t, "requeued", r)
                        \/ Window(t, "requeueFailed", r)
        PROVE  Inside(t)
    BY <1>1, <1>2, <2>2, WindowInside
  <2> QED BY <1>3, <2>1, <2>2
<1>5. CASE UNCHANGED powerVars
  BY <1>1, <1>4, <1>5, InsideSame
<1>6. CASE ~ UNCHANGED powerVars
  <2>1. PowerOff /\ LastInLoop /\ Go(t, "dispatch") /\ frame[t].pc = "ackLoop"
    BY <1>6 DEF CollectAcknowledged, ProcessAcknowledgedRequest, RequeueAcknowledged, MayPowerOff
  <2>2. ~ Acknowledges(frame'[t])
    BY <2>1 DEF Go, Acknowledges, FrameOK, SoundFrame, Frame
  <2> QED BY <1>1, <1>2, <1>4, <2>1, <2>2, InsidePowersOff
<1> QED BY <1>5, <1>6

(* Nothing newly acknowledged: the power down ends or the thread leaves.    *)
LEMMA AwaitPower ==
  ASSUME TypeOK, FrameOK, FrameOK', PowerInv, NEW t \in Threads, AwaitAcknowledge(t)
  PROVE  PowerInv'
<1>1. frame[t].pc = "dispatch" /\ DriverNotified /\ UNCHANGED deleted
  BY DEF AwaitAcknowledge, AtTurn, lifeVars
<1>2. CASE MayPowerOff
  <2>1. PowerOff /\ LastInLoop /\ UNCHANGED <<dispatching, frame>>
    BY <1>2 DEF AwaitAcknowledge, MayPowerOff
  <2>2. Inside(t) /\ ~ Acknowledges(frame'[t])
    BY <1>1, <2>1, LoopPointFacts, StillInside DEF Acknowledges, FrameOK, SoundFrame
  <2> QED BY <1>1, <2>1, <2>2, InsidePowersOff
<1>3. CASE ~ MayPowerOff
  <2>1. Leaves(t) /\ dispatching' = dispatching - 1 /\ UNCHANGED powerVars
    BY <1>1, <1>3 DEF AwaitAcknowledge, Leaves, UnlockTo
  <2> QED BY <1>1, <2>1, LeaveKeepsPower
<1> QED BY <1>2, <1>3

(* All of DispatchEvents but the ways around its loop.                      *)
LEMMA LoopPower ==
  ASSUME TypeOK, FrameOK, FrameOK', PowerInv, NEW t \in Threads, DispatchStep(t),
         ~ EnterDeleted(t), ~ EnterDeferred(t)
  PROVE  PowerInv'
<1>1. CASE LeaveDispatchEvents(t)
  <2>1. /\ Leaves(t) /\ powerState \in {"On", "Off"}
        /\ dispatching' = dispatching - 1 /\ UNCHANGED <<deleted, powerVars>>
    BY <1>1, TurnFacts DEF LeaveDispatchEvents, AtTurn, Leaves, UnlockTo, lifeVars
  <2> QED BY <2>1, LeaveKeepsPower
<1>2. CASE PowerDereference(t)
  BY <1>2, StillSame DEF PowerDereference, lifeVars
<1> QED BY <1>1, <1>2, JoinsLoop, RelockPower, InsertPower, CancelledPower, EventPower,
           PresentPower, StartingTransitionPower, PowerOnPower, DeleteQueuePower,
           BeginNotifyingPower, NotifyPower, AcknowledgedPower, AwaitPower DEF DispatchStep

-----------------------------------------------------------------------------
(* Steps outside the loop.                                                  *)

(* The points of an operation, and what DispatchInternalEvents does there.  *)
LEMMA DispatchInternalOutside ==
  ASSUME FrameOK, NEW t \in Threads, NEW pc \in FreePoints,
         frame[t].pc \in FreePoints, DispatchInternalEvents(t, pc)
  PROVE  /\ Outside(t) /\ frame'[t].op = frame[t].op
         /\ pc # "completeCanceled" => Stage(frame'[t]) = pc
<1>1. "enter" \in LockedPoints /\ "enter" \notin InLoopPoints
  BY PointFacts DEF LockedPoints
<1>2. CASE dispatching = 0
  <2>1. /\ frame' = [frame EXCEPT ![t] = [@ EXCEPT !.pc = "enter", !.after = pc,
                                       !.new = NoRequest, !.cur = NoRequest]]
    BY <1>2 DEF DispatchInternalEvents, Enter
  <2>2. /\ frame'[t].pc = "enter" /\ frame'[t].after = pc /\ frame'[t].op = frame[t].op
        /\ frame'[t].why = frame[t].why /\ Moves(t)
    BY <2>1 DEF Moves, FrameOK, SoundFrame, Frame
  <2> QED BY <1>1, <2>2, PointFacts DEF Outside, Stage, InDispatchEvents
<1>3. CASE dispatching # 0
  <2>1. frame' = [frame EXCEPT ![t] = [@ EXCEPT !.pc = pc, !.cur = NoRequest]]
    BY <1>3 DEF DispatchInternalEvents, UnlockTo
  <2>2. /\ frame'[t].pc = pc /\ frame'[t].op = frame[t].op
        /\ frame'[t].why = frame[t].why /\ Moves(t)
    BY <2>1 DEF Moves, FrameOK, SoundFrame, Frame
  <2>3. pc \notin LockedPoints \cup {"window"}
    BY DEF LockedPoints, FreePoints
  <2> QED BY <2>2, <2>3, PointFacts DEF Outside, Stage, InDispatchEvents
<1> QED BY <1>2, <1>3

(* Go outside the loop.                                                     *)
LEMMA GoOutside ==
  ASSUME FrameOK, NEW t \in Threads, NEW pc \in FreePoints \ {"completeCanceled"},
         frame[t].pc \in FreePoints, Go(t, pc)
  PROVE  Outside(t) /\ Stage(frame'[t]) = pc /\ frame'[t].op = frame[t].op
<1>1. /\ frame'[t].pc = pc /\ frame'[t].op = frame[t].op
      /\ frame'[t].why = frame[t].why /\ Moves(t)
  BY DEF Go, Moves, FrameOK, SoundFrame, Frame
<1>2. pc \notin LockedPoints \cup {"window", "completeCanceled"}
  BY DEF LockedPoints, FreePoints
<1> QED BY <1>1, <1>2, PointFacts DEF Outside, Stage, InDispatchEvents

(* DispatchEvents entered from outside.                                     *)
LEMMA EnterOutside ==
  ASSUME FrameOK, NEW t \in Threads, NEW pc, NEW r, frame[t].pc \in FreePoints, Enter(t, r, pc)
  PROVE  /\ Outside(t) /\ Stage(frame'[t]) = pc /\ frame'[t].op = frame[t].op
         /\ InDispatchEvents(frame'[t])
<1>1. "enter" \in LockedPoints /\ "enter" \notin InLoopPoints
  BY PointFacts DEF LockedPoints
<1>2. /\ frame'[t].pc = "enter" /\ frame'[t].after = pc /\ frame'[t].op = frame[t].op
      /\ frame'[t].why = frame[t].why /\ Moves(t)
  BY DEF Enter, Moves, FrameOK, SoundFrame, Frame
<1> QED BY <1>1, <1>2, PointFacts DEF Outside, Stage, InDispatchEvents

(* A cancellation outside the loop.                                         *)
LEMMA CancelOutside ==
  ASSUME FrameOK, NEW t \in Threads, NEW pc \in FreePoints \ {"completeCanceled"}, NEW r, NEW n,
         frame[t].pc \in FreePoints, CancelForQueue(t, r, n, pc)
  PROVE  Outside(t) /\ Stage(frame'[t]) = pc /\ frame'[t].op = frame[t].op
<1>1. CASE GoesToDriver(r)
  BY <1>1, DispatchInternalOutside DEF CancelForQueue
<1>2. CASE ~ GoesToDriver(r)
  <2>1. frame' = [frame EXCEPT ![t] = [@ EXCEPT !.pc = "completeCanceled", !.after = pc]]
    BY <1>2 DEF CancelForQueue
  <2>2. /\ frame'[t].pc = "completeCanceled" /\ frame'[t].after = pc
        /\ frame'[t].op = frame[t].op /\ frame'[t].why = frame[t].why /\ Moves(t)
    BY <2>1 DEF Moves, FrameOK, SoundFrame, Frame
  <2>3. "completeCanceled" \in FreePoints
    BY DEF FreePoints
  <2> QED BY <2>2, <2>3, PointFacts DEF Outside, Stage
<1> QED BY <1>1, <1>2

(* The power thread in the middle of a purge.                               *)
LEMMA PurgeStep ==
  ASSUME FrameOK, FrameOK', PowerInv, NEW t \in Threads, Outside(t),
         UNCHANGED <<dispatching, deleted, powerVars>>,
         t = PowerThread => /\ Stage(frame[t]) \in OffStages \ {"off"}
                            /\ Stage(frame'[t]) \in OffStages \ {"off"}
                            /\ Stage(frame'[t]) \in PurgeStages => frame'[t].op = "powerPurge"
  PROVE  PowerInv'
<1>1. CASE t # PowerThread
  BY <1>1, OutsideWorker
<1>2. CASE t = PowerThread
  <2>1. (Quiet' => Quiet) /\ (DriverNotified => DriverNotified')
    BY DEF Quiet, DriverNotified, powerVars
  <2>2. Stage(frame'[t]) \notin {"waitStart", "started", "waitHold", "waitPurge", "off", "on",
                                "resumed"}
    BY <1>2 DEF OffStages, PurgeStages
  <2>3. StageInv'
    BY <1>2, <2>2 DEF PowerInv, StageInv, StageOK, powerVars, UpStages, WaitStages
  <2> QED BY <2>1, <2>3, OutsideSame DEF PowerInv
<1> QED BY <1>1, <1>2

(* A step that leaves the power thread outside DispatchEvents at its stage. *)
LEMMA StageStays ==
  ASSUME FrameOK, FrameOK', PowerInv, NEW t \in Threads, Outside(t),
         UNCHANGED <<dispatching, deleted, powerVars>>,
         t = PowerThread => /\ Stage(frame'[t]) = Stage(frame[t])
                            /\ frame'[t].op = frame[t].op /\ ~ InDispatchEvents(frame[t])
  PROVE  PowerInv'
<1>1. CASE t # PowerThread
  BY <1>1, OutsideWorker
<1>2. CASE t = PowerThread
  <2>1. (Quiet' => Quiet) /\ (DriverNotified => DriverNotified')
    BY DEF Quiet, DriverNotified, powerVars
  <2>2. StageInv'
    BY <1>2 DEF PowerInv, StageInv, StageOK, powerVars
  <2> QED BY <2>1, <2>2, OutsideSame DEF PowerInv
<1> QED BY <1>1, <1>2

(* Where an operation or a purge by the power thread is.                    *)
LEMMA OperationFacts ==
  ASSUME PowerInv, NEW t \in Threads,
         frame[t].pc \in PurgeStages \cup {"completeCanceled", "setDisposing", "waitDisposed"}
  PROVE  /\ frame[t].pc \in FreePoints /\ ~ InDispatchEvents(frame[t])
         /\ frame[t].pc # "completeCanceled" => Stage(frame[t]) = frame[t].pc
         /\ t = PowerThread =>
              /\ frame[t].pc \notin {"setDisposing", "waitDisposed"}
              /\ Stage(frame[t]) # "completeCanceled"
              /\ frame[t].pc \in PurgeStages => frame[t].op = "powerPurge"
<1>1. frame[t].pc \in FreePoints /\ ~ InDispatchEvents(frame[t])
  BY DEF FreePoints, PurgeStages, InDispatchEvents, LockedPoints
<1>2. frame[t].pc # "completeCanceled" => Stage(frame[t]) = frame[t].pc
  BY <1>1 DEF Stage
<1>3. t = PowerThread =>
        /\ Stage(frame[t]) \notin {"completeCanceled", "setDisposing", "waitDisposed"}
        /\ Stage(frame[t]) \in PurgeStages => frame[t].op = "powerPurge"
  BY DEF PowerInv, StageInv, StageOK, WaitStages, OffStages, PurgeStages, UpStages
<1>4. "completeCanceled" \notin PurgeStages
  BY DEF PurgeStages
<1> QED BY <1>1, <1>2, <1>3, <1>4

(* CancelForQueue completes an IRP.                                         *)
LEMMA CompleteCanceledPower ==
  ASSUME FrameOK, FrameOK', PowerInv, NEW t \in Threads, CompleteCanceled(t)
  PROVE  PowerInv'
<1>1. /\ frame[t].pc = "completeCanceled" /\ DispatchInternalEvents(t, frame[t].after)
      /\ UNCHANGED <<dispatching, deleted, powerVars>>
  BY DEF CompleteCanceled, lifeVars
<1>2. frame[t].after \in FreePoints /\ Stage(frame[t]) = frame[t].after
  BY <1>1, FrameFields DEF Stage
<1>3. Outside(t) /\ frame'[t].op = frame[t].op
      /\ (frame[t].after # "completeCanceled" => Stage(frame'[t]) = frame[t].after)
  BY <1>1, <1>2, OperationFacts, DispatchInternalOutside
<1> QED BY <1>1, <1>2, <1>3, OperationFacts, StageStays

(* A purge, by the driver or by the power thread.                           *)
LEMMA DrainPower ==
  ASSUME FrameOK, FrameOK', PowerInv, NEW t \in Threads,
         DrainQueue(t) \/ DrainDriver(t) \/ DrainCancelForDriver(t)
  PROVE  PowerInv'
<1>1. frame[t].pc \in PurgeStages /\ UNCHANGED <<dispatching, deleted, powerVars>>
  BY DEF DrainQueue, DrainDriver, DrainCancelForDriver, PurgeStages, lifeVars
<1>2. PurgeStages \subseteq OffStages \ {"off"}
  BY DEF PurgeStages, OffStages
<1>3. /\ Outside(t) /\ frame'[t].op = frame[t].op
      /\ Stage(frame'[t]) \in PurgeStages
  <2>1. CASE DrainQueue(t)
    <3>1. {"drainQueue", "drainDriver"} \subseteq PurgeStages \cap FreePoints
      BY DEF PurgeStages, FreePoints
    <3>2. CASE Go(t, "drainDriver")
      BY <1>1, <3>1, <3>2, GoOutside, OperationFacts
    <3>3. CASE CancelForQueue(t, FirstLive, driverIoCount, "drainQueue")
      BY <1>1, <3>1, <3>3, CancelOutside, OperationFacts
    <3> QED BY <2>1, <3>2, <3>3 DEF DrainQueue
  <2>2. CASE DrainDriver(t)
    <3>1. {"lockEnter", "cancelDriver"} \subseteq PurgeStages \cap FreePoints
      BY DEF PurgeStages, FreePoints
    <3>2. CASE Go(t, "lockEnter")
      BY <1>1, <3>1, <3>2, GoOutside, OperationFacts
    <3>3. ASSUME NEW r, frame' = [frame EXCEPT ![t] = [@ EXCEPT !.pc = "cancelDriver", !.cur = r]]
          PROVE  /\ Outside(t) /\ frame'[t].op = frame[t].op
                 /\ Stage(frame'[t]) \in PurgeStages
      <4>1. /\ frame'[t].pc = "cancelDriver" /\ frame'[t].op = frame[t].op
            /\ frame'[t].why = frame[t].why /\ Moves(t)
        BY <3>3 DEF Moves, FrameOK, SoundFrame, Frame
      <4>2. ~ InDispatchEvents(frame'[t])
        BY <4>1 DEF InDispatchEvents, LockedPoints
      <4> QED BY <1>1, <3>1, <4>1, <4>2, OperationFacts, PointFacts DEF Outside, Stage
    <3> QED BY <2>2, <3>2, <3>3 DEF DrainDriver
  <2>3. CASE DrainCancelForDriver(t)
    <3>1. {"drainDriver"} \subseteq PurgeStages \cap FreePoints
      BY DEF PurgeStages, FreePoints
    <3> QED BY <1>1, <2>3, <3>1, DispatchInternalOutside, OperationFacts DEF DrainCancelForDriver
  <2> QED BY <2>1, <2>2, <2>3
<1>4. t = PowerThread => /\ Stage(frame[t]) \in PurgeStages /\ frame[t].op = "powerPurge"
  BY <1>1, OperationFacts DEF PurgeStages
<1> QED BY <1>1, <1>2, <1>3, <1>4, PurgeStep

(* The operation takes the lock again and ends in DispatchEvents.           *)
LEMMA LockAndEnterPower ==
  ASSUME FrameOK, FrameOK', PowerInv, NEW t \in Threads, LockAndEnter(t)
  PROVE  PowerInv'
<1> DEFINE op == IF frame[t].op = "dispose" THEN "dispose" ELSE "none"
           after == CASE frame[t].op = "dispose" -> "setDisposing"
                      [] frame[t].op = "powerPurge" -> "setPurge"
                      [] OTHER -> "idle"
<1>1. /\ frame[t].pc = "lockEnter" /\ UNCHANGED <<dispatching, deleted, powerVars>>
      /\ frame' = [frame EXCEPT ![t] = [@ EXCEPT !.pc = "enter", !.new = NoRequest,
                     !.cur = NoRequest, !.op = op, !.after = after]]
  BY DEF LockAndEnter, lifeVars
<1>2. "lockEnter" \in PurgeStages /\ "lockEnter" \in OffStages \ {"off"}
  BY DEF PurgeStages, OffStages
<1>3. t = PowerThread => after = "setPurge"
  BY <1>1, <1>2, OperationFacts
<1> HIDE DEF op, after
<1>4. /\ frame'[t].pc = "enter" /\ frame'[t].after = after
      /\ frame'[t].why = frame[t].why /\ Moves(t)
  BY <1>1 DEF Moves, FrameOK, SoundFrame, Frame
<1>5. Outside(t) /\ Stage(frame'[t]) = after
  BY <1>1, <1>2, <1>4, OperationFacts, PointFacts
     DEF Outside, Stage, InDispatchEvents, LockedPoints
<1>6. "setPurge" \in OffStages \ {"off"} /\ "setPurge" \notin PurgeStages
  BY DEF OffStages, PurgeStages
<1>7. frame[t].pc # "completeCanceled" /\ Stage(frame[t]) = "lockEnter"
  BY <1>1, <1>2, OperationFacts
<1> QED BY <1>1, <1>2, <1>3, <1>5, <1>6, <1>7, PurgeStep

(* The end of Dispose is not for the power thread.                          *)
LEMMA DisposingPower ==
  ASSUME FrameOK, FrameOK', PowerInv, NEW t \in Threads, SetDisposing(t) \/ FinishDisposing(t)
  PROVE  PowerInv'
<1>1. frame[t].pc \in {"setDisposing", "waitDisposed"}
      /\ UNCHANGED <<dispatching, deleted, powerVars>>
  BY DEF SetDisposing, FinishDisposing, lifeVars
<1>2. frame[t].pc \in FreePoints /\ t # PowerThread
  BY <1>1, OperationFacts
<1>3. Outside(t)
  <2>1. "idle" \in FreePoints \ {"completeCanceled"}
    BY DEF FreePoints
  <2> QED BY <1>2, <2>1, EnterOutside, GoOutside DEF SetDisposing, FinishDisposing
<1> QED BY <1>1, <1>2, <1>3, OutsideWorker

(* The ways around the loop: the DPC or work item will run it.              *)
LEMMA EnterDeferredPower ==
  ASSUME FrameOK, FrameOK', PowerInv, NEW t \in Threads, EnterDeferred(t)
  PROVE  PowerInv'
<1>1. /\ frame[t].pc = "enter" /\ t # PowerThread /\ UNCHANGED <<dispatching, deleted, powerVars>>
      /\ frame' = [frame EXCEPT ![t] = [@ EXCEPT !.pc = frame[t].after, !.new = NoRequest]]
  BY ThreadAssumption DEF EnterDeferred, lifeVars
<1>2. frame'[t].pc \in FreePoints /\ frame'[t].why = frame[t].why /\ Moves(t)
  BY <1>1, FrameFields DEF Moves, FrameOK, SoundFrame, Frame
<1> QED BY <1>1, <1>2, PointFacts, OutsideWorker DEF Outside

(* The queue is deleted: a power thread that was to wait does not wait.     *)
LEMMA EnterDeletedPower ==
  ASSUME FrameOK, FrameOK', PowerInv, NEW t \in Threads, EnterDeleted(t)
  PROVE  PowerInv'
<1> DEFINE pc == CASE frame[t].after = "waitStart" -> "started"
                   [] frame[t].after \in {"waitHold", "waitPurge"} -> "off"
                   [] OTHER -> frame[t].after
<1>1. /\ frame[t].pc = "enter" /\ deleted /\ UNCHANGED <<dispatching, deleted, powerVars>>
      /\ frame' = [frame EXCEPT ![t] = [@ EXCEPT !.pc = pc, !.cur = NoRequest]]
  BY DEF EnterDeleted, UnlockTo, lifeVars
<1>2. Stage(frame[t]) = frame[t].after /\ frame[t].after \in FreePoints
  BY <1>1, FrameFields DEF Stage, InDispatchEvents, LockedPoints
<1>3. pc \in FreePoints
  BY <1>2 DEF FreePoints
<1>4. /\ pc = "started" => frame[t].after \in {"waitStart", "started"}
      /\ pc = "off" => frame[t].after \in {"waitHold", "waitPurge", "off"}
      /\ pc \notin {"started", "off"} => pc = frame[t].after
      /\ pc \notin {"waitStart", "waitHold", "waitPurge"}
  OBVIOUS
<1> HIDE DEF pc
<1>5. /\ frame'[t].pc = pc /\ frame'[t].why = frame[t].why /\ frame'[t].op = frame[t].op
      /\ frame'[t].after = frame[t].after /\ Moves(t)
  BY <1>1 DEF Moves, FrameOK, SoundFrame, Frame
<1>6. Outside(t)
  BY <1>1, <1>3, <1>5, PointFacts DEF Outside
<1>7. CASE t # PowerThread
  BY <1>1, <1>6, <1>7, OutsideWorker
<1>8. CASE t = PowerThread
  <2>1. (Quiet' => Quiet) /\ (DriverNotified => DriverNotified')
    BY <1>1 DEF Quiet, DriverNotified, powerVars
  <2>2. pc \notin LockedPoints \cup {"window", "completeCanceled"}
    <3>1. pc \in FreePoints
      BY <1>3
    <3>2. frame[t].after # "completeCanceled"
      BY <1>2, <1>8 DEF PowerInv, StageInv, StageOK, WaitStages, OffStages, PurgeStages, UpStages
    <3>3. pc # "completeCanceled"
      BY <1>4, <3>2
    <3> QED BY <3>1, <3>3 DEF LockedPoints, FreePoints
  <2>3. Stage(frame'[t]) = pc
    BY <1>5, <2>2 DEF Stage, InDispatchEvents
  <2>4. StageInv'
    <3>1. CASE pc = "started"
      BY <1>1, <1>2, <1>4, <1>5, <1>8, <2>3, <3>1
         DEF PowerInv, StageInv, StageOK, powerVars, WaitStages, OffStages, UpStages, PurgeStages
    <3>2. CASE pc = "off"
      BY <1>1, <1>2, <1>4, <1>5, <1>8, <2>3, <3>2
         DEF PowerInv, StageInv, StageOK, powerVars, WaitStages, OffStages, UpStages, PurgeStages
    <3>3. CASE pc \notin {"started", "off"}
      BY <1>1, <1>2, <1>4, <1>5, <1>8, <2>3, <3>3
         DEF PowerInv, StageInv, StageOK, powerVars
    <3> QED BY <3>1, <3>2, <3>3
  <2> QED BY <1>1, <1>6, <2>1, <2>4, OutsideSame DEF PowerInv
<1> QED BY <1>7, <1>8

-----------------------------------------------------------------------------
(* The driver, the I/O manager and the deferred dispatcher.                 *)

(* A step of a worker that begins where it is idle.                         *)
LEMMA IdleWorker ==
  ASSUME NEW t \in Workers
  PROVE  /\ t \in Threads /\ t # PowerThread
         /\ "idle" \in FreePoints /\ "idle" # "completeCanceled"
BY ThreadAssumption DEF Threads, FreePoints

(* A completion runs DispatchEvents on some worker's thread, or on none.    *)
LEMMA DispatchAnyPower ==
  ASSUME FrameOK, FrameOK', PowerInv, DispatchInternalEventsAny,
         UNCHANGED <<dispatching, deleted, powerVars>>
  PROVE  PowerInv'
<1>1. CASE UNCHANGED frame
  BY <1>1, StillSame
<1>2. ASSUME NEW t \in Workers, frame[t].pc = "idle", Enter(t, NoRequest, "idle")
      PROVE  PowerInv'
  BY <1>2, IdleWorker, EnterOutside, OutsideWorker
<1> QED BY <1>1, <1>2 DEF DispatchInternalEventsAny

(* What a driver calls to control the queue.                                *)
LEMMA DriverCallPower ==
  ASSUME FrameOK, FrameOK', PowerInv, NEW t \in Workers, DriverCall(t)
  PROVE  PowerInv'
<1>1. Idle(t) /\ UNCHANGED <<dispatching, deleted, powerVars>>
  <2>1. CASE QueueStart(t)
    BY <2>1 DEF QueueStart, lifeVars
  <2>2. CASE Dispose(t) \/ \E b, c \in BOOLEAN : QueuePurge(t, b, c)
    BY <2>2 DEF Dispose, QueuePurge, BeginPurge, lifeVars
  <2>3. CASE \E b, c \in BOOLEAN : QueueIdle(t, b, c)
    BY <2>3 DEF QueueIdle, lifeVars
  <2>4. CASE \E b \in BOOLEAN : ReadyNotify(t, b)
    BY <2>4 DEF ReadyNotify, lifeVars
  <2> QED BY <2>1, <2>2, <2>3, <2>4 DEF DriverCall
<1>2. \/ Enter(t, NoRequest, "idle") \/ Go(t, "lockEnter")
      \/ \E pc \in {"drainQueue", "lockEnter"} : \E op :
           frame' = [frame EXCEPT ![t] = [@ EXCEPT !.pc = pc, !.op = op]]
  <2>1. CASE QueueStart(t)
    BY <2>1 DEF QueueStart
  <2>2. ASSUME NEW b, NEW c, NEW op, BeginPurge(t, b, c, op)
        PROVE  \E pc \in {"drainQueue", "lockEnter"} :
                 frame' = [frame EXCEPT ![t] = [@ EXCEPT !.pc = pc, !.op = op]]
    BY <2>2 DEF BeginPurge
  <2>3. ASSUME NEW b, NEW c, QueueIdle(t, b, c)
        PROVE  \/ Go(t, "lockEnter")
               \/ frame' = [frame EXCEPT ![t] = [@ EXCEPT !.pc = "drainQueue", !.op = "stop"]]
    BY <2>3 DEF QueueIdle
  <2>4. CASE \E b \in BOOLEAN : ReadyNotify(t, b)
    BY <2>4 DEF ReadyNotify
  <2> QED BY <2>1, <2>2, <2>3, <2>4 DEF DriverCall, Dispose, QueuePurge
<1>3. {"lockEnter", "drainQueue"} \subseteq FreePoints \ {"completeCanceled"}
  BY DEF FreePoints
<1>4. Outside(t)
  <2>1. frame[t].pc = "idle"
    BY <1>1 DEF Idle
  <2>2. CASE Enter(t, NoRequest, "idle") \/ Go(t, "lockEnter")
    BY <1>3, <2>1, <2>2, IdleWorker, EnterOutside, GoOutside
  <2>3. ASSUME NEW pc \in {"drainQueue", "lockEnter"}, NEW op,
               frame' = [frame EXCEPT ![t] = [@ EXCEPT !.pc = pc, !.op = op]]
        PROVE  Outside(t)
    <3>1. frame'[t].pc = pc /\ frame'[t].why = frame[t].why /\ Moves(t)
      BY <2>3, IdleWorker DEF Moves, FrameOK, SoundFrame, Frame
    <3> QED BY <1>3, <2>1, <3>1, IdleWorker, PointFacts DEF Outside
  <2> QED BY <1>2, <2>2, <2>3
<1> QED BY <1>1, <1>4, IdleWorker, OutsideWorker

(* A request arrives, is cancelled in the queue or requeued.                *)
LEMMA WorkerRequestPower ==
  ASSUME FrameOK, FrameOK', PowerInv, NEW t \in Workers, NEW r \in Requests,
         QueueRequest(t, r) \/ IrpCancelForQueue(t, r) \/ Requeue(t, r)
  PROVE  PowerInv'
<1>1. frame[t].pc = "idle" /\ UNCHANGED <<dispatching, deleted, powerVars>>
  BY DEF QueueRequest, IrpCancelForQueue, Requeue, Idle, lifeVars
<1>2. \/ UNCHANGED frame \/ Enter(t, r, "idle") \/ Enter(t, NoRequest, "idle")
      \/ \E n : CancelForQueue(t, r, n, "idle") \/ CancelForQueue(t, r, n, "lockEnter")
  <2>1. CASE QueueRequest(t, r)
    BY <2>1 DEF QueueRequest
  <2>2. CASE IrpCancelForQueue(t, r)
    BY <2>2 DEF IrpCancelForQueue
  <2>3. CASE Requeue(t, r)
    BY <2>3 DEF Requeue
  <2> QED BY <2>1, <2>2, <2>3
<1>3. CASE UNCHANGED frame
  BY <1>1, <1>3, StillSame
<1>4. "lockEnter" \in FreePoints \ {"completeCanceled"}
  BY DEF FreePoints
<1>5. CASE Enter(t, r, "idle") \/ Enter(t, NoRequest, "idle")
  BY <1>1, <1>5, IdleWorker, EnterOutside, OutsideWorker
<1>6. ASSUME NEW n, CancelForQueue(t, r, n, "idle") \/ CancelForQueue(t, r, n, "lockEnter")
      PROVE  PowerInv'
  BY <1>1, <1>4, <1>6, IdleWorker, CancelOutside, OutsideWorker
<1> QED BY <1>2, <1>3, <1>5, <1>6

(* Everything else that happens to a request.                               *)
LEMMA RequestPower ==
  ASSUME FrameOK, FrameOK', PowerInv, NEW r \in Requests,
         CancelIrp(r) \/ CancelStep(r) \/ DriverStep(r) \/ FinishStep(r)
  PROVE  PowerInv'
<1>1. CASE CancelForDriver(r) \/ FinishStep(r)
  BY <1>1, DispatchAnyPower
     DEF CancelForDriver, FinishStep, RequestCompletedCallback, ForwardDone, lifeVars
<1>2. CASE CancelIrp(r) \/ IrpCancelForDriver(r)
  BY <1>2, StillSame DEF CancelIrp, IrpCancelForDriver, lifeVars
<1>3. CASE \E b \in BOOLEAN : StopAcknowledge(r, b)
  BY <1>3, StillSame DEF StopAcknowledge, lifeVars
<1>4. CASE \/ CompleteRequest(r) \/ MarkCancelable(r) \/ UnmarkCancelable(r)
           \/ ForwardBegin(r) \/ ForwardRefused(r)
  BY <1>4, StillSame
     DEF CompleteRequest, MarkCancelable, UnmarkCancelable, ForwardBegin, ForwardRefused, lifeVars
<1>5. CASE \E t \in Workers : IrpCancelForQueue(t, r) \/ Requeue(t, r)
  BY <1>5, WorkerRequestPower
<1> QED BY <1>1, <1>2, <1>3, <1>4, <1>5 DEF CancelStep, DriverStep

(* The DPC or work item.                                                    *)
LEMMA DeferPower ==
  ASSUME FrameOK, FrameOK', PowerInv, DeferStep
  PROVE  PowerInv'
<1>1. /\ DeferThread \in Threads /\ DeferThread # PowerThread
      /\ {"idle", "deferredEnd"} \subseteq FreePoints \ {"completeCanceled"}
  BY ThreadAssumption DEF Threads, FreePoints
<1>2. frame[DeferThread].pc \in FreePoints /\ UNCHANGED <<dispatching, deleted, powerVars>>
  BY <1>1 DEF DeferStep, DeferredDispatch, DeferredEnd, lifeVars
<1>3. Enter(DeferThread, NoRequest, "deferredEnd") \/ Go(DeferThread, "idle")
  BY DEF DeferStep, DeferredDispatch, DeferredEnd
<1>4. Outside(DeferThread)
  BY <1>1, <1>2, <1>3, EnterOutside, GoOutside
<1> QED BY <1>1, <1>2, <1>4, OutsideWorker

-----------------------------------------------------------------------------
(* The power thread.                                                        *)

(* Between calls into the queue the stage of the power thread is its place. *)
LEMMA AtPowerFacts ==
  ASSUME NEW pc \in FreePoints \ {"completeCanceled"}, AtPower(pc)
  PROVE  /\ PowerThread \in Threads /\ frame[PowerThread].pc \in FreePoints
         /\ Stage(frame[PowerThread]) = pc /\ ~ InDispatchEvents(frame[PowerThread])
BY DEF AtPower, Threads, Stage, InDispatchEvents, FreePoints, LockedPoints

(* The points of the power thread, and of the purge that it runs.           *)
LEMMA PowerPoints ==
  {"on", "waitStart", "started", "waitHold", "off", "purge", "setPurge", "waitPurge",
   "resumed", "drainQueue"} \subseteq FreePoints \ {"completeCanceled"}
BY DEF FreePoints

(* The first phase of a power down begins while the queue is on.            *)
LEMMA StartOffPower ==
  ASSUME TypeOK, FrameOK, FrameOK', PowerInv, StartPowerTransitionOff
  PROVE  PowerInv'
<1>1. /\ AtPower("on") /\ PowerManaged /\ UNCHANGED <<dispatching, deleted>>
      /\ powerState' = "StartingTransition" /\ powerIdle' = FALSE
      /\ Enter(PowerThread, NoRequest, "waitStart")
  BY DEF StartPowerTransitionOff, PowerEnter, lifeVars
<1>2. powerState = "On" \/ deleted
  BY <1>1, PowerPoints, AtPowerFacts DEF PowerInv, StageInv, StageOK, UpStages
<1>3. Outside(PowerThread) /\ Stage(frame'[PowerThread]) = "waitStart"
  BY <1>1, PowerPoints, AtPowerFacts, EnterOutside
<1>4. LoopInv' /\ QuietInv' /\ AckInv'
  BY <1>1, <1>2, <1>3, AtPowerFacts, PowerPoints, OutsideSame DEF Quiet, DriverNotified
<1>5. StageInv'
  BY <1>1, <1>3 DEF StageInv, StageOK, WaitStages, OffStages, PurgeStages, UpStages
<1> QED BY <1>4, <1>5 DEF PowerInv

(* The power thread waits for m_PowerIdle, which is set when the first      *)
(* phase found the loop empty or the queue is off.                          *)
LEMMA WaitIdlePower ==
  ASSUME TypeOK, FrameOK, FrameOK', PowerInv, WaitPowerIdle
  PROVE  PowerInv'
<1>1. powerIdle /\ UNCHANGED <<dispatching, deleted, powerVars>>
  BY DEF WaitPowerIdle, lifeVars
<1>2. PICK pc \in {"waitStart", "waitHold", "waitPurge"} :
        AtPower(pc) /\ Go(PowerThread, IF pc = "waitStart" THEN "started" ELSE "off")
  BY DEF WaitPowerIdle
<1>3. /\ Outside(PowerThread)
      /\ Stage(frame'[PowerThread]) = IF pc = "waitStart" THEN "started" ELSE "off"
  BY <1>2, PowerPoints, AtPowerFacts, GoOutside
<1>4. LoopInv' /\ QuietInv' /\ AckInv'
  BY <1>1, <1>2, <1>3, PowerPoints, AtPowerFacts, OutsideSame DEF Quiet, DriverNotified, powerVars
<1>5. StageInv'
  <2>1. Stage(frame[PowerThread]) = pc
    BY <1>2, PowerPoints, AtPowerFacts
  <2> QED BY <1>1, <1>2, <1>3, <2>1 DEF PowerInv, StageInv, StageOK, WaitStages, OffStages,
             PurgeStages, UpStages, powerVars
<1> QED BY <1>4, <1>5 DEF PowerInv

(* The second phase begins when nobody presents a request.                  *)
LEMMA HoldPower ==
  ASSUME TypeOK, FrameOK, FrameOK', PowerInv, StopProcessingForPowerHold
  PROVE  PowerInv'
<1>1. /\ AtPower("started") /\ UNCHANGED <<dispatching, deleted>>
      /\ powerState' = "Stopping" /\ powerIdle' = FALSE
      /\ Enter(PowerThread, NoRequest, "waitHold")
  BY DEF StopProcessingForPowerHold, PowerEnter, lifeVars
<1>2. PowerManaged /\ powerState = "StartingTransition" /\ (powerIdle \/ deleted)
  BY <1>1, PowerPoints, AtPowerFacts, ConfigAssumption
     DEF PowerInv, StageInv, StageOK, WaitStages, OffStages, PurgeStages, UpStages
<1>3. Outside(PowerThread) /\ Stage(frame'[PowerThread]) = "waitHold"
  BY <1>1, PowerPoints, AtPowerFacts, EnterOutside
<1>4. LoopInv' /\ QuietInv' /\ AckInv'
  BY <1>1, <1>2, <1>3, AtPowerFacts, PowerPoints, OutsideSame DEF Quiet, DriverNotified
<1>5. StageInv'
  BY <1>1, <1>2, <1>3 DEF StageInv, StageOK, WaitStages, OffStages, PurgeStages, UpStages, DownStates
<1> QED BY <1>4, <1>5 DEF PowerInv

(* The shutdown bit is set, for a managed queue when it is off.             *)
LEMMA ShutdownPower ==
  ASSUME TypeOK, FrameOK, FrameOK', PowerInv, SetStateForShutdown
  PROVE  PowerInv'
<1>1. /\ AtPower(IF PowerManaged THEN "off" ELSE "on") /\ Go(PowerThread, "purge")
      /\ UNCHANGED <<dispatching, deleted, powerVars>>
  BY DEF SetStateForShutdown, lifeVars
<1>2. /\ Outside(PowerThread) /\ Stage(frame'[PowerThread]) = "purge"
      /\ Stage(frame[PowerThread]) = IF PowerManaged THEN "off" ELSE "on"
  BY <1>1, PowerPoints, AtPowerFacts, GoOutside
<1>3. LoopInv' /\ QuietInv' /\ AckInv'
  BY <1>1, <1>2, PowerPoints, AtPowerFacts, OutsideSame DEF Quiet, DriverNotified, powerVars
<1>4. StageInv'
  BY <1>1, <1>2 DEF PowerInv, StageInv, StageOK, WaitStages, OffStages, PurgeStages, UpStages,
                    powerVars
<1> QED BY <1>3, <1>4 DEF PowerInv

(* The purge of a power down, up to its first unlock.                       *)
LEMMA PurgePower ==
  ASSUME TypeOK, FrameOK, FrameOK', PowerInv, PowerPurge
  PROVE  PowerInv'
<1>1. /\ AtPower("purge") /\ UNCHANGED <<dispatching, deleted, powerVars>>
      /\ frame' = [frame EXCEPT ![PowerThread] = [@ EXCEPT !.pc = "drainQueue",
                                                           !.op = "powerPurge"]]
  BY DEF PowerPurge, BeginPurge, lifeVars
<1>2. PowerThread \in Threads /\ Stage(frame[PowerThread]) = "purge"
      /\ frame[PowerThread].pc \in FreePoints
  BY <1>1, PowerPoints, AtPowerFacts
<1>3. /\ frame'[PowerThread].pc = "drainQueue" /\ frame'[PowerThread].op = "powerPurge"
      /\ frame'[PowerThread].why = frame[PowerThread].why /\ Moves(PowerThread)
  BY <1>1, <1>2 DEF Moves, FrameOK, SoundFrame, Frame
<1>4. Outside(PowerThread) /\ Stage(frame'[PowerThread]) = "drainQueue"
  BY <1>2, <1>3, PowerPoints, PointFacts DEF Outside, Stage, InDispatchEvents, LockedPoints
<1>5. {"purge", "drainQueue"} \subseteq OffStages \ {"off"}
  BY DEF OffStages, PurgeStages
<1> QED BY <1>1, <1>2, <1>3, <1>4, <1>5, PurgeStep

(* After it the queue is told to purge what the driver holds.               *)
LEMMA StopForPurgePower ==
  ASSUME TypeOK, FrameOK, FrameOK', PowerInv, StopProcessingForPowerPurge
  PROVE  PowerInv'
<1>1. /\ UNCHANGED <<dispatching, deleted>> /\ powerState' = "Purge" /\ powerIdle' = FALSE
      /\ Enter(PowerThread, NoRequest, "waitPurge")
  BY DEF StopProcessingForPowerPurge, PowerEnter, lifeVars
<1>2. PICK pc \in {"setPurge", "purge"} : AtPower(pc)
  BY DEF StopProcessingForPowerPurge
<1>3. /\ PowerManaged => powerState \in DownStates
      /\ powerState \in {"On", "Off"} \/ deleted
  BY <1>2, PowerPoints, AtPowerFacts, ConfigAssumption
     DEF PowerInv, StageInv, StageOK, OffStages, PurgeStages
<1>4. Outside(PowerThread) /\ Stage(frame'[PowerThread]) = "waitPurge"
  BY <1>1, <1>2, PowerPoints, AtPowerFacts, EnterOutside
<1>5. PowerManaged => Quiet
  BY <1>3 DEF Quiet, DownStates
<1>6. LoopInv' /\ QuietInv' /\ AckInv'
  BY <1>1, <1>2, <1>3, <1>4, <1>5, AtPowerFacts, PowerPoints, OutsideSame DEF DriverNotified
<1>7. StageInv'
  BY <1>1, <1>4 DEF StageInv, StageOK, WaitStages, OffStages, PurgeStages, UpStages, DownStates
<1> QED BY <1>6, <1>7 DEF PowerInv

(* A restart opens the gate of the queue, and turns an unmanaged one on.    *)
LEMMA RestartPower ==
  ASSUME TypeOK, FrameOK, FrameOK', PowerInv, ResetStateForRestart
  PROVE  PowerInv'
<1>1. AtPower("off") /\ UNCHANGED <<dispatching, deleted, powerIdle>>
  BY DEF ResetStateForRestart, lifeVars
<1>2. CASE PowerManaged
  <2>1. UNCHANGED <<powerState, frame>>
    BY <1>2 DEF ResetStateForRestart
  <2> QED BY <1>1, <2>1, StillSame DEF powerVars
<1>3. CASE ~ PowerManaged
  <2>1. powerState' = "On" /\ Go(PowerThread, "on")
    BY <1>3 DEF ResetStateForRestart
  <2>2. Outside(PowerThread) /\ Stage(frame'[PowerThread]) = "on"
    BY <1>1, <2>1, PowerPoints, AtPowerFacts, GoOutside
  <2>3. powerState = "Off" \/ deleted
    BY <1>1, <1>3, PowerPoints, AtPowerFacts DEF PowerInv, StageInv, StageOK
  <2>4. LoopInv' /\ QuietInv' /\ AckInv'
    BY <1>1, <1>3, <2>2, <2>3, PowerPoints, AtPowerFacts, OutsideSame DEF DriverNotified
  <2>5. StageInv'
    BY <1>3, <2>1, <2>2 DEF StageInv, StageOK, UpStages, OffStages, PurgeStages, WaitStages
  <2> QED BY <2>4, <2>5 DEF PowerInv
<1> QED BY <1>2, <1>3

(* The way up begins when the queue is off and ends when it is on.          *)
LEMMA ResumePower ==
  ASSUME TypeOK, FrameOK, FrameOK', PowerInv, ResumeProcessingForPower
  PROVE  PowerInv'
<1>1. /\ AtPower("off") /\ PowerManaged /\ UNCHANGED <<dispatching, deleted, powerIdle>>
      /\ powerState' = "Restarting" /\ Enter(PowerThread, NoRequest, "resumed")
  BY DEF ResumeProcessingForPower, PowerEnter, lifeVars
<1>2. powerState \in DownStates /\ (powerState = "Off" \/ deleted)
  BY <1>1, PowerPoints, AtPowerFacts DEF PowerInv, StageInv, StageOK, OffStages
<1>3. /\ Outside(PowerThread) /\ Stage(frame'[PowerThread]) = "resumed"
      /\ InDispatchEvents(frame'[PowerThread])
  BY <1>1, PowerPoints, AtPowerFacts, EnterOutside
<1>4. Quiet
  BY <1>2 DEF Quiet, DownStates
<1>5. LoopInv' /\ QuietInv' /\ AckInv'
  BY <1>1, <1>2, <1>3, <1>4, AtPowerFacts, PowerPoints, OutsideSame DEF DriverNotified
<1>6. StageInv'
  BY <1>1, <1>3 DEF StageInv, StageOK, WaitStages, OffStages, PurgeStages, UpStages, UpStates
<1> QED BY <1>5, <1>6 DEF PowerInv

(* StartPowerTransitionOn raises the events a powered-down queue missed.    *)
LEMMA StartOnPower ==
  ASSUME TypeOK, FrameOK, FrameOK', PowerInv, StartPowerTransitionOn
  PROVE  PowerInv'
<1>1. /\ AtPower("resumed") /\ Enter(PowerThread, NoRequest, "on")
      /\ UNCHANGED <<dispatching, deleted, powerVars>>
  BY DEF StartPowerTransitionOn, PowerEnter, lifeVars
<1>2. /\ Outside(PowerThread) /\ Stage(frame'[PowerThread]) = "on"
      /\ InDispatchEvents(frame'[PowerThread]) /\ Stage(frame[PowerThread]) = "resumed"
  BY <1>1, PowerPoints, AtPowerFacts, EnterOutside
<1>3. LoopInv' /\ QuietInv' /\ AckInv'
  BY <1>1, <1>2, PowerPoints, AtPowerFacts, OutsideSame DEF Quiet, DriverNotified, powerVars
<1>4. StageInv'
  BY <1>1, <1>2 DEF PowerInv, StageInv, StageOK, WaitStages, OffStages, PurgeStages, UpStages,
                    powerVars
<1> QED BY <1>3, <1>4 DEF PowerInv

-----------------------------------------------------------------------------
(* The invariant, and what follows from it.                                 *)

(* Nobody is in the loop of a new queue, which is on.                       *)
LEMMA PowerInit == Init => PowerInv
<1> SUFFICES ASSUME Init
             PROVE  PowerInv
  OBVIOUS
<1>1. ASSUME NEW t \in Threads
      PROVE  /\ frame[t].pc = (IF t = PowerThread THEN "on" ELSE "idle")
             /\ frame[t].why = "none"
  BY DEF Init
<1>2. LoopInv
  <2>1. LoopThreads = {}
    BY <1>1 DEF LoopThreads, InLoop, LoopPoints, LockedPoints
  <2> QED BY <2>1, FS_EmptySet DEF Init, LoopInv
<1>3. QuietInv /\ AckInv
  BY <1>1 DEF QuietInv, AckInv, Presents, Acknowledges
<1>4. Stage(frame[PowerThread]) = "on"
  BY <1>1 DEF Stage, InDispatchEvents, LockedPoints, Threads
<1>5. StageInv
  BY <1>4 DEF Init, StageInv, StageOK, WaitStages, OffStages, PurgeStages, UpStages, UpStates
<1> QED BY <1>2, <1>3, <1>5 DEF PowerInv

(* Every step of the queue and its environment keeps the invariant.         *)
LEMMA PowerInductive == TypeInv /\ PowerInv /\ [Next]_vars => PowerInv'
<1> SUFFICES ASSUME TypeInv, PowerInv, [Next]_vars
             PROVE  PowerInv'
  OBVIOUS
<1>1. TypeOK /\ FrameOK /\ FrameOK'
  BY TypeStep DEF TypeInv
<1>2. CASE \E t \in Threads : ThreadStep(t)
  <2>1. PICK t \in Threads : ThreadStep(t)
    BY <1>2
  <2>2. CASE DispatchStep(t)
    BY <1>1, <2>2, LoopPower, EnterDeletedPower, EnterDeferredPower
  <2>3. CASE ~ DispatchStep(t)
    BY <1>1, <2>1, <2>3, CompleteCanceledPower, DrainPower, LockAndEnterPower, DisposingPower
       DEF ThreadStep
  <2> QED BY <2>2, <2>3
<1>3. CASE DeferStep
  BY <1>1, <1>3, DeferPower
<1>4. CASE PowerDown \/ PowerStep
  BY <1>1, <1>4, StartOffPower, ShutdownPower, WaitIdlePower, HoldPower, PurgePower,
     StopForPurgePower, RestartPower, ResumePower, StartOnPower DEF PowerDown, PowerStep
<1>5. CASE \E t \in Workers : DriverCall(t) \/ \E r \in Requests : QueueRequest(t, r)
  BY <1>1, <1>5, DriverCallPower, WorkerRequestPower
<1>6. CASE \E r \in Requests : CancelIrp(r) \/ CancelStep(r) \/ DriverStep(r) \/ FinishStep(r)
  BY <1>1, <1>6, RequestPower
<1>7. CASE GetRequest
  BY <1>7, StillSame DEF GetRequest, lifeVars
<1>8. CASE UNCHANGED vars
  BY <1>8, StillSame DEF vars, lifeVars
<1> QED BY <1>2, <1>3, <1>4, <1>5, <1>6, <1>7, <1>8 DEF Next

(* PowerInv holds of every reachable state.                                 *)
THEOREM PowerCorrect == Spec => [](TypeInv /\ PowerInv)
<1>1. Init => TypeInv /\ PowerInv
  BY TypeInit, PowerInit
<1>2. TypeInv /\ PowerInv /\ [Next]_vars => TypeInv' /\ PowerInv'
  BY TypeStep, PowerInductive
<1> QED BY <1>1, <1>2, PTL DEF Spec

(* From the end of the first phase of a power down until the queue is on    *)
(* again no thread is in EvtIo* or EvtIoQueueState of a managed queue: the  *)
(* driver touches the hardware for new I/O only while it has power.         *)
THEOREM IoCallbacksHavePower == Spec => []NoIoCallbackWithoutPower
<1>1. TypeInv /\ PowerInv => NoIoCallbackWithoutPower
  <2> SUFFICES ASSUME TypeInv, PowerInv, PowerManaged,
                      powerState \notin {"On", "StartingTransition"}
                        \/ frame[PowerThread].pc = "started",
                      NEW t \in Threads
               PROVE  frame[t].why \notin {"io", "ready"}
    BY DEF NoIoCallbackWithoutPower
  <2>1. CASE Quiet
    BY <2>1 DEF PowerInv, QuietInv, Presents
  <2>2. CASE ~ Quiet
    <3>1. AtPower("started")
      BY <2>2 DEF Quiet, AtPower
    <3>2. powerState = "StartingTransition" /\ (powerIdle \/ deleted)
      BY <3>1, AtPowerFacts, PowerPoints DEF PowerInv, StageInv, StageOK
    <3>3. deleted
      BY <2>2, <3>2 DEF Quiet
    <3>4. frame[t].pc # "window"
      BY <3>3 DEF PowerInv, LoopInv, LoopThreads, InLoop
    <3> QED BY <3>4 DEF TypeInv, FrameOK, SoundFrame
  <2> QED BY <2>1, <2>2
<1> QED BY <1>1, PowerCorrect, PTL

(* When ResumeProcessingForPower has returned, and until the next power     *)
(* down, the queue is on, whatever thread ran the resume notifications.     *)
THEOREM ResumedQueuesAreOn == Spec => []ResumedMeansOn
<1>1. PowerInv => ResumedMeansOn
  <2> SUFFICES ASSUME PowerInv, NEW pc \in UpStages, AtPower(pc), ~ deleted
               PROVE  powerState = "On"
    BY DEF ResumedMeansOn, AtPower, UpStages
  <2>1. Stage(frame[PowerThread]) = pc /\ ~ InDispatchEvents(frame[PowerThread])
    BY PowerPoints, AtPowerFacts DEF UpStages
  <2> QED BY <2>1, ConfigAssumption
          DEF PowerInv, StageInv, StageOK, UpStages, OffStages, PurgeStages
<1> QED BY <1>1, PowerCorrect, PTL
====
