-------------------------- MODULE IoQueueOwnerProofs --------------------------
(***************************************************************************)
(* Who owns a request: OneOwner, CountExact and OneCancelPath of IoQueue,  *)
(* for any number of threads and requests and every configuration.         *)
(*                                                                         *)
(* A request is looked at alone. RequestOK relates its fields to the       *)
(* places that know it: m_Queue, the hands of a thread, the cancel paths.  *)
(* Most steps leave all of that alone for all requests but one, and the    *)
(* lemmas below say so once for each kind of step.                         *)
(***************************************************************************)
EXTENDS IoQueueProofs

(* The request that a thread will put somewhere: into m_Queue or with the   *)
(* driver,                                                                  *)
Hand(f) ==
  IF f.new # NoRequest THEN f.new
  ELSE IF f.pc = "present" \/ f.why = "insertFailedPresent" THEN f.cur ELSE NoRequest

(* the one that it returns to m_Queue for the driver, and the one that it   *)
(* cancels for a purge.                                                     *)
Returning(f)  == IF f.pc = "requeueAcked" \/ f.why = "requeued" THEN f.cur ELSE NoRequest
Cancelling(f) == IF f.pc = "cancelDriver" THEN f.cur ELSE NoRequest

Queued(r) == r \in Elements(queue)
Listed(r) == req[r].list # "none" \/ req[r].drv = "forwarding"

(* A pending request that the driver does not have.                         *)
Loose(r) == /\ req[r].irp = "sent" /\ req[r].list = "none"
            /\ req[r].drv = "fx" /\ req[r].ack # "requeue"

(* It is queued, in the driver's hands or in one thread's.                  *)
PlaceOK(r) ==
  /\ Queued(r) => Loose(r)
  /\ \A t \in Threads : Hand(frame[t]) = r =>
       /\ Loose(r) /\ ~ Queued(r)
       /\ \A u \in Threads : Hand(frame[u]) = r => u = t
  /\ req[r].irp = "sent" => Queued(r) \/ Listed(r) \/ \E t \in Threads : Hand(frame[t]) = r

(* What the driver may do with it fits where the queue keeps it.            *)
DriverOK(r) ==
  /\ req[r].drv \in {"held", "cancelable", "told"} => req[r].irp = "sent" /\ req[r].list # "none"
  /\ req[r].drv = "forwarding" => req[r].irp = "sent" /\ req[r].list = "none"
  /\ req[r].drv = "completing" => req[r].irp = "done" /\ req[r].list # "none"
  /\ req[r].drv = "fx" /\ req[r].list # "none" => req[r].irp = "sent"
  /\ req[r].ack = "requeue" => /\ req[r].irp = "sent" /\ req[r].drv = "fx"
                               /\ req[r].list \in {"notified"} \cup Threads

(* It is counted as the driver's while it is neither his nor queued: it     *)
(* waits for EvtIoCanceledOnQueue, or a thread returns it to m_Queue.       *)
Neither(r) == req[r].drv = "fx" /\ req[r].list # "none" /\ req[r].ack # "requeue"

ReturnOK(r) ==
  /\ r \in canceledOnQueue => Neither(r) /\ \A t \in Threads : Returning(frame[t]) # r
  /\ \A t \in Threads : Returning(frame[t]) = r =>
       Neither(r) /\ \A u \in Threads : Returning(frame[u]) = r => u = t

(* A cancelable request is on one of the cancel paths, and no other is on   *)
(* any.                                                                     *)
PathOK(r) ==
  /\ (\/ r \in cancelable \cup cancelCalls \cup cancelled
      \/ \E t \in Threads : Cancelling(frame[t]) = r) <=> req[r].drv = "cancelable"
  /\ r \in cancelable => r \notin cancelCalls \cup cancelled
  /\ r \in cancelCalls => r \notin cancelled
  /\ \A t \in Threads : Cancelling(frame[t]) = r =>
       /\ r \notin cancelable \cup cancelCalls \cup cancelled
       /\ \A u \in Threads : Cancelling(frame[u]) = r => u = t
  /\ r \in routineRunning => Queued(r) \/ r \in cancelable

RequestOK(r) == PlaceOK(r) /\ DriverOK(r) /\ ReturnOK(r) /\ PathOK(r)

RequestInv == \A r \in Requests : RequestOK(r)

(* No request is queued twice, and m_DriverIoCount counts the driver's.     *)
Distinct(s) == \A i, j \in 1..Len(s) : s[i] = s[j] => i = j

QueueInv == Distinct(queue)
CountInv == driverIoCount = Cardinality({r \in Requests : Listed(r)})

(* A thread at a point that needs the lock has it; only a thread on its way *)
(* into the loop has a new request, and none has once the queue is deleted. *)
LockInv ==
  \A t \in Threads :
    /\ frame[t].pc \in LockedPoints => lock = t
    /\ frame[t].new # NoRequest => frame[t].pc \in {"enter", "dispatch"}
    /\ deleted /\ frame[t].pc = "enter" => frame[t].new = NoRequest

(* A queue that is being deleted accepts nothing, and the thread that       *)
(* deletes it does nothing else before m_Disposing is set.                  *)
Busy(f) == f.pc \in LockedPoints \cup {"window", "completeCanceled"}

DisposeOK(t) ==
  /\ frame[t].pc = "setDisposing" \/ frame[t].after = "setDisposing" => BeingDisposed
  /\ frame[t].op = "dispose" => t \in Workers
  /\ frame[t].op = "dispose" /\ ~disposing =>
       frame[t].pc # "idle" /\ (Busy(frame[t]) => frame[t].after # "idle")

ClosedInv ==
  /\ deleted => disposing
  /\ BeingDisposed => "Accept" \notin queueState
  /\ \A t \in Threads : DisposeOK(t)

OwnerInv == LockInv /\ ClosedInv /\ QueueInv /\ CountInv /\ RequestInv

-----------------------------------------------------------------------------
(* What the steps of a thread do to what it has in hand.                    *)

Idles(f) == Hand(f) = NoRequest /\ Returning(f) = NoRequest /\ Cancelling(f) = NoRequest

SameFrame(f, g) ==
  Hand(f) = Hand(g) /\ Returning(f) = Returning(g) /\ Cancelling(f) = Cancelling(g)

FramesKeep == \A u \in Threads : SameFrame(frame'[u], frame[u])

OthersKeep(t) == \A u \in Threads : u # t => SameFrame(frame'[u], frame[u])

(* Only t moves.                                                            *)
LEMMA MovesOthers ==
  ASSUME FrameOK, NEW t \in Threads, Moves(t)
  PROVE  /\ OthersKeep(t)
         /\ \A u \in Threads : u # t => frame'[u] = frame[u]
         /\ SameFrame(frame'[t], frame[t]) => FramesKeep
<1>1. \A u \in Threads : u # t => frame'[u] = frame[u]
  BY DEF Moves, FrameOK
<1> QED BY <1>1 DEF OthersKeep, FramesKeep, SameFrame

(* A call of DispatchEvents brings the new request,                         *)
LEMMA EnterHands ==
  ASSUME FrameOK, NEW t \in Threads, NEW r \in Requests \cup {NoRequest}, NEW pc,
         frame[t].pc # "window", Enter(t, r, pc)
  PROVE  /\ Moves(t) /\ lock' = t
         /\ Hand(frame'[t]) = r /\ Returning(frame'[t]) = NoRequest /\ Cancelling(frame'[t]) = NoRequest
         /\ frame'[t].pc = "enter" /\ frame'[t].new = r /\ frame'[t].op = frame[t].op
BY DEF Enter, Moves, Hand, Returning, Cancelling, FrameOK, SoundFrame, Frame

(* and the end of it brings back what the thread did not give away.         *)
LEMMA UnlockToHands ==
  ASSUME FrameOK, NEW t \in Threads, NEW pc \in FreePoints \ {"cancelDriver"},
         frame[t].pc # "window", UnlockTo(t, pc)
  PROVE  /\ Moves(t) /\ lock' = NoThread
         /\ Hand(frame'[t]) = frame[t].new /\ Returning(frame'[t]) = NoRequest
         /\ Cancelling(frame'[t]) = NoRequest
         /\ frame'[t].pc = pc /\ frame'[t].new = frame[t].new /\ frame'[t].op = frame[t].op
BY DEF UnlockTo, Moves, Hand, Returning, Cancelling, FrameOK, SoundFrame, Frame, FreePoints

(* A thread leaves the lock with the request that it presents or returns.   *)
LEMMA WindowHands ==
  ASSUME FrameOK, NEW t \in Threads, NEW why, NEW r, Window(t, why, r)
  PROVE  /\ Moves(t) /\ lock' = NoThread
         /\ Hand(frame'[t]) = IF why = "insertFailedPresent" THEN r ELSE NoRequest
         /\ Returning(frame'[t]) = IF why = "requeued" THEN r ELSE NoRequest
         /\ Cancelling(frame'[t]) = NoRequest
         /\ frame'[t].pc = "window" /\ frame'[t].new = NoRequest /\ frame'[t].op = frame[t].op
BY DEF Window, Moves, Hand, Returning, Cancelling, FrameOK, SoundFrame, Frame

(* It goes on elsewhere with what it brought.                               *)
LEMMA GoHands ==
  ASSUME FrameOK, NEW t \in Threads, NEW pc, frame[t].pc # "window", Go(t, pc),
         pc \notin {"present", "requeueAcked", "cancelDriver"}
  PROVE  /\ Moves(t)
         /\ Hand(frame'[t]) = frame[t].new /\ Returning(frame'[t]) = NoRequest
         /\ Cancelling(frame'[t]) = NoRequest
         /\ frame'[t].pc = pc /\ frame'[t].new = frame[t].new /\ frame'[t].op = frame[t].op
BY DEF Go, Moves, Hand, Returning, Cancelling, FrameOK, SoundFrame, Frame

(* A thread at any other point has nothing in hand.                         *)
LEMMA PointHands ==
  ASSUME FrameOK, NEW t \in Threads, frame[t].pc # "window"
  PROVE  /\ frame[t].pc # "present" => Hand(frame[t]) = frame[t].new
         /\ frame[t].pc # "requeueAcked" => Returning(frame[t]) = NoRequest
         /\ frame[t].pc # "cancelDriver" => Cancelling(frame[t]) = NoRequest
BY DEF Hand, Returning, Cancelling, FrameOK, SoundFrame

-----------------------------------------------------------------------------
(* The lock.                                                                *)

(* A step of the thread that has the lock, or takes it.                     *)
LEMMA LockMoves ==
  ASSUME FrameOK, LockInv, NEW t \in Threads, Moves(t),
         lock = t \/ Free, frame'[t].pc \in LockedPoints => lock' = t,
         frame'[t].new # NoRequest => frame'[t].pc \in {"enter", "dispatch"},
         deleted' /\ frame'[t].pc = "enter" => frame'[t].new = NoRequest
  PROVE  LockInv'
<1>1. ASSUME NEW u \in Threads, u # t
      PROVE  frame[u].pc \notin LockedPoints /\ frame[u].new = NoRequest
  <2>1. lock # u
    BY <1>1, ThreadAssumption DEF Free
  <2> QED BY <1>1, <2>1 DEF LockInv, LockedPoints
<1>2. ASSUME NEW u \in Threads, u # t
      PROVE  frame'[u] = frame[u]
  BY <1>2, MovesOthers
<1> QED BY <1>1, <1>2 DEF LockInv, LockedPoints

(* A step of a thread that has no business with it.                         *)
LEMMA LockAside ==
  ASSUME FrameOK, LockInv, NEW t \in Threads, Moves(t),
         frame'[t].pc \notin LockedPoints, frame'[t].new = NoRequest,
         UNCHANGED <<lock, deleted>>
  PROVE  LockInv'
BY MovesOthers DEF LockInv, LockedPoints

(* The thread at a point of the loop has the lock, one outside the loop has *)
(* nothing new in hand.                                                     *)
LEMMA LockFacts ==
  ASSUME LockInv, NEW t \in Threads
  PROVE  /\ frame[t].pc \in LockedPoints => lock = t
         /\ frame[t].pc \notin {"enter", "dispatch"} => frame[t].new = NoRequest
BY DEF LockInv

(* The ways a thread goes on.                                               *)
LEMMA LockUnlocks ==
  ASSUME FrameOK, LockInv, NEW t \in Threads, lock = t \/ Free,
         NEW pc \in FreePoints \ {"cancelDriver"}, frame[t].pc # "window",
         UnlockTo(t, pc), frame[t].new = NoRequest
  PROVE  LockInv'
<1>1. pc \notin LockedPoints
  BY DEF FreePoints, LockedPoints
<1> QED BY <1>1, UnlockToHands, LockMoves

LEMMA LockWindow ==
  ASSUME FrameOK, LockInv, NEW t \in Threads, lock = t \/ Free, NEW why, NEW r,
         Window(t, why, r)
  PROVE  LockInv'
<1>1. "window" \notin LockedPoints
  BY DEF LockedPoints
<1> QED BY <1>1, WindowHands, LockMoves

LEMMA LockEnters ==
  ASSUME FrameOK, LockInv, NEW t \in Threads, lock = t \/ Free, NEW pc,
         NEW r \in Requests \cup {NoRequest}, frame[t].pc # "window", Enter(t, r, pc),
         deleted' => r = NoRequest
  PROVE  LockInv'
BY EnterHands, LockMoves

LEMMA LockGoes ==
  ASSUME FrameOK, LockInv, NEW t \in Threads, lock = t \/ Free, NEW pc,
         frame[t].pc # "window", Go(t, pc),
         pc = "dispatch" \/ frame[t].new = NoRequest,
         pc \notin {"enter", "present", "requeueAcked", "cancelDriver"},
         pc \in LockedPoints => lock = t /\ UNCHANGED lock
  PROVE  LockInv'
BY GoHands, LockMoves

-----------------------------------------------------------------------------
(* Steps that put no request anywhere: the thread has the same in hand.     *)

(* The points where a thread has nothing but what it brought.               *)
Plain(f) == f.pc \notin {"window", "present", "requeueAcked", "cancelDriver"}

LEMMA PlainHands ==
  ASSUME FrameOK, NEW t \in Threads, Plain(frame[t])
  PROVE  /\ frame[t].pc # "window"
         /\ Hand(frame[t]) = frame[t].new /\ Returning(frame[t]) = NoRequest
         /\ Cancelling(frame[t]) = NoRequest
BY PointHands DEF Plain

LEMMA QuietEnter ==
  ASSUME FrameOK, LockInv, NEW t \in Threads, Free, Plain(frame[t]), NEW pc,
         frame[t].new = NoRequest, Enter(t, NoRequest, pc)
  PROVE  FramesKeep /\ LockInv'
<1>1. LockInv'
  BY LockEnters, PlainHands
<1>2. SameFrame(frame'[t], frame[t]) /\ Moves(t)
  BY PlainHands, EnterHands DEF SameFrame
<1> QED BY <1>1, <1>2, MovesOthers

LEMMA QuietUnlock ==
  ASSUME FrameOK, LockInv, NEW t \in Threads, lock = t \/ Free, Plain(frame[t]),
         NEW pc \in FreePoints \ {"cancelDriver"}, frame[t].new = NoRequest, UnlockTo(t, pc)
  PROVE  FramesKeep /\ LockInv'
<1>1. LockInv'
  BY LockUnlocks, PlainHands
<1>2. SameFrame(frame'[t], frame[t]) /\ Moves(t)
  BY PlainHands, UnlockToHands DEF SameFrame
<1> QED BY <1>1, <1>2, MovesOthers

LEMMA QuietWindow ==
  ASSUME FrameOK, LockInv, NEW t \in Threads, lock = t, Plain(frame[t]),
         frame[t].new = NoRequest, NEW why, why \notin {"insertFailedPresent", "requeued"},
         NEW r, Window(t, why, r)
  PROVE  FramesKeep /\ LockInv'
<1>1. LockInv'
  BY LockWindow
<1>2. SameFrame(frame'[t], frame[t]) /\ Moves(t)
  BY PlainHands, WindowHands DEF SameFrame
<1> QED BY <1>1, <1>2, MovesOthers

LEMMA QuietGo ==
  ASSUME FrameOK, LockInv, NEW t \in Threads, lock = t, UNCHANGED lock, Plain(frame[t]),
         NEW pc \in {"dispatch", "ackLoop"}, pc = "dispatch" \/ frame[t].new = NoRequest, Go(t, pc)
  PROVE  FramesKeep /\ LockInv'
<1>1. LockInv'
  BY LockGoes, PlainHands
<1>2. SameFrame(frame'[t], frame[t]) /\ Moves(t)
  BY PlainHands, GoHands DEF SameFrame
<1> QED BY <1>1, <1>2, MovesOthers

(* A thread without the lock goes on to another point without it.           *)
LEMMA QuietAside ==
  ASSUME FrameOK, LockInv, NEW t \in Threads, Plain(frame[t]), frame[t].new = NoRequest,
         NEW pc \in FreePoints \ {"cancelDriver"},
         Moves(t), frame'[t].pc = pc, frame'[t].new = frame[t].new,
         frame'[t].why = frame[t].why, UNCHANGED <<lock, deleted>>
  PROVE  FramesKeep /\ LockInv'
<1>1. pc \notin LockedPoints /\ pc \notin {"window", "present", "requeueAcked", "cancelDriver"}
  BY DEF FreePoints, LockedPoints
<1>2. LockInv'
  BY <1>1, LockAside
<1>3. frame[t].why = "none"
  BY DEF FrameOK, SoundFrame, Plain
<1>4. SameFrame(frame'[t], frame[t])
  BY <1>1, <1>3, PlainHands DEF SameFrame, Hand, Returning, Cancelling
<1> QED BY <1>2, <1>4, MovesOthers

LEMMA QuietNothing ==
  ASSUME LockInv, UNCHANGED <<frame, lock, deleted>>
  PROVE  FramesKeep /\ LockInv'
BY DEF FramesKeep, SameFrame, LockInv

(* A thread at work outside the loop has nothing new in hand.               *)
LEMMA OutsideHands ==
  ASSUME LockInv, NEW t \in Threads, frame[t].pc \in FreePoints \ {"cancelDriver"}
  PROVE  Plain(frame[t]) /\ frame[t].new = NoRequest
<1>1. frame[t].pc \notin {"enter", "dispatch", "window", "present", "requeueAcked", "cancelDriver"}
  BY DEF FreePoints
<1> QED BY <1>1, LockFacts DEF Plain

LEMMA QuietInternal ==
  ASSUME FrameOK, LockInv, NEW t \in Threads, Free, frame[t].pc \in FreePoints \ {"cancelDriver"},
         NEW pc \in FreePoints \ {"cancelDriver"}, DispatchInternalEvents(t, pc)
  PROVE  FramesKeep /\ LockInv'
BY OutsideHands, QuietEnter, QuietUnlock DEF DispatchInternalEvents

LEMMA QuietAny ==
  ASSUME FrameOK, LockInv, Free, DispatchInternalEventsAny, UNCHANGED deleted
  PROVE  FramesKeep /\ LockInv'
<1>1. CASE dispatching = 0
  <2>1. PICK t \in Workers : frame[t].pc = "idle" /\ Enter(t, NoRequest, "idle")
    BY <1>1 DEF DispatchInternalEventsAny
  <2>2. t \in Threads /\ "idle" \in FreePoints \ {"cancelDriver"}
    BY DEF Threads, FreePoints
  <2> QED BY <2>1, <2>2, OutsideHands, QuietEnter
<1>2. CASE dispatching # 0
  BY <1>2, QuietNothing DEF DispatchInternalEventsAny
<1> QED BY <1>1, <1>2

LEMMA QuietCancel ==
  ASSUME FrameOK, LockInv, NEW t \in Threads, Free, frame[t].pc \in FreePoints \ {"cancelDriver"},
         NEW pc \in FreePoints \ {"cancelDriver"}, NEW n, NEW r, CancelForQueue(t, r, n, pc),
         UNCHANGED deleted
  PROVE  FramesKeep /\ LockInv'
<1>1. CASE GoesToDriver(r)
  BY <1>1, QuietInternal DEF CancelForQueue
<1>2. CASE ~GoesToDriver(r)
  <2>1. lock' = lock /\ frame' = [frame EXCEPT ![t] = [@ EXCEPT !.pc = "completeCanceled", !.after = pc]]
    BY <1>2 DEF CancelForQueue, Free
  <2>2. /\ Moves(t) /\ frame'[t].pc = "completeCanceled"
        /\ frame'[t].new = frame[t].new /\ frame'[t].why = frame[t].why
    BY <2>1 DEF Moves, FrameOK, SoundFrame, Frame
  <2>3. "completeCanceled" \in FreePoints \ {"cancelDriver"}
    BY DEF FreePoints
  <2> QED BY <2>1, <2>2, <2>3, OutsideHands, QuietAside
<1> QED BY <1>1, <1>2

-----------------------------------------------------------------------------
(* A step seen from one request.                                            *)

KeepsFields(r) ==
  /\ req'[r].irp = req[r].irp /\ req'[r].drv = req[r].drv
  /\ req'[r].list = "none" <=> req[r].list = "none"
  /\ req'[r].ack = "requeue" <=> req[r].ack = "requeue"
  /\ req'[r].ack = "requeue" => req'[r].list \in {"notified"} \cup Threads

KeepsPlaces(r) ==
  /\ Queued(r)' <=> Queued(r)
  /\ r \in cancelable' <=> r \in cancelable
  /\ r \in routineRunning' <=> r \in routineRunning
  /\ r \in cancelCalls' <=> r \in cancelCalls
  /\ r \in cancelled' <=> r \in cancelled
  /\ r \in canceledOnQueue' <=> r \in canceledOnQueue

KeepsHands(r) ==
  \A t \in Threads :
    /\ Hand(frame'[t]) = r <=> Hand(frame[t]) = r
    /\ Returning(frame'[t]) = r <=> Returning(frame[t]) = r
    /\ Cancelling(frame'[t]) = r <=> Cancelling(frame[t]) = r

Aside(r) == KeepsFields(r) /\ KeepsPlaces(r) /\ KeepsHands(r)

(* A request that the step is not about.                                    *)
LEMMA AsideKeeps ==
  ASSUME NEW r \in Requests, RequestOK(r), Aside(r)
  PROVE  RequestOK(r)' /\ (Listed(r)' <=> Listed(r))
<1>1. PlaceOK(r)'
  BY DEF RequestOK, PlaceOK, Loose, Listed, Aside, KeepsFields, KeepsPlaces, KeepsHands
<1>2. DriverOK(r)'
  BY DEF RequestOK, DriverOK, Aside, KeepsFields
<1>3. ReturnOK(r)'
  BY DEF RequestOK, ReturnOK, Neither, Aside, KeepsFields, KeepsPlaces, KeepsHands
<1>4. PathOK(r)'
  BY DEF RequestOK, PathOK, Aside, KeepsFields, KeepsPlaces, KeepsHands
<1>5. Listed(r)' <=> Listed(r)
  BY DEF Listed, Aside, KeepsFields
<1> QED BY <1>1, <1>2, <1>3, <1>4, <1>5 DEF RequestOK

(* What a step must keep, and the two ways to show it: it is about no       *)
(* request, or about some of them.                                          *)
BodyInv == QueueInv /\ CountInv /\ RequestInv

LEMMA UntouchedBody ==
  ASSUME BodyInv, FramesKeep, QueueInv', UNCHANGED driverIoCount,
         \A r \in Requests : KeepsFields(r) /\ KeepsPlaces(r)
  PROVE  BodyInv'
<1>1. \A r \in Requests : RequestOK(r)' /\ (Listed(r)' <=> Listed(r))
  <2> SUFFICES ASSUME NEW r \in Requests
               PROVE  RequestOK(r)' /\ (Listed(r)' <=> Listed(r))
    OBVIOUS
  <2>1. Aside(r)
    BY DEF Aside, KeepsHands, FramesKeep, SameFrame
  <2> QED BY <2>1, AsideKeeps DEF BodyInv, RequestInv
<1>2. {r \in Requests : Listed(r)}' = {r \in Requests : Listed(r)}
  BY <1>1
<1>3. CountInv'
  BY <1>2 DEF BodyInv, CountInv
<1> QED BY <1>1, <1>3 DEF BodyInv, RequestInv

LEMMA QuietBody ==
  ASSUME BodyInv, FramesKeep, UNCHANGED <<req, queue, cancelVars, driverIoCount>>
  PROVE  BodyInv'
<1>1. ASSUME NEW r \in Requests
      PROVE  KeepsFields(r) /\ KeepsPlaces(r)
  BY DEF BodyInv, RequestInv, RequestOK, DriverOK, KeepsFields, KeepsPlaces, Queued, cancelVars
<1>2. QueueInv'
  BY DEF BodyInv, QueueInv
<1> QED BY <1>1, <1>2, UntouchedBody

Weight(r) == IF Listed(r) THEN 1 ELSE 0

(* A step about r, and about others only as long as m_DriverIoCount does    *)
(* not count them anew.                                                     *)
LEMMA TouchedBody ==
  ASSUME TypeOK, BodyInv, NEW r \in Requests, QueueInv',
         \A s \in Requests : RequestOK(s)',
         \A s \in Requests \ {r} : Listed(s)' <=> Listed(s),
         driverIoCount' - Weight(r)' = driverIoCount - Weight(r), driverIoCount' \in Int
  PROVE  BodyInv'
<1> DEFINE L == {s \in Requests : Listed(s)}
           M == {s \in Requests : Listed(s)'}
<1>1. driverIoCount = Cardinality(L) /\ driverIoCount \in Int
  BY DEF BodyInv, CountInv, TypeOK
<1>2. IsFiniteSet(L) /\ IsFiniteSet(M)
  BY ThreadAssumption, FS_Subset
<1>3. Cardinality(L) \in Nat /\ Cardinality(M) \in Nat
  BY <1>2, FS_CardinalityType
<1>4. driverIoCount' = Cardinality(M)
  <2>1. CASE Listed(r)' <=> Listed(r)
    <3>1. L = M /\ Weight(r)' = Weight(r) /\ Weight(r) \in {0, 1}
      BY <2>1 DEF Weight
    <3> HIDE DEF L, M
    <3> QED BY <1>1, <3>1
  <2>2. CASE Listed(r)' /\ ~Listed(r)
    <3>1. M = L \cup {r} /\ r \notin L /\ Weight(r)' = 1 /\ Weight(r) = 0
      BY <2>2 DEF Weight
    <3>2. Cardinality(M) = Cardinality(L) + 1
      BY <1>2, <3>1, FS_AddElement
    <3> HIDE DEF L, M
    <3> QED BY <1>1, <1>3, <3>1, <3>2
  <2>3. CASE ~Listed(r)' /\ Listed(r)
    <3>1. M = L \ {r} /\ r \in L /\ Weight(r)' = 0 /\ Weight(r) = 1
      BY <2>3 DEF Weight
    <3>2. Cardinality(M) = Cardinality(L) - 1
      BY <1>2, <3>1, FS_RemoveElement
    <3> HIDE DEF L, M
    <3> QED BY <1>1, <1>3, <3>1, <3>2
  <2> QED BY <2>1, <2>2, <2>3
<1>5. CountInv'
  BY <1>4 DEF CountInv
<1> QED BY <1>5 DEF BodyInv, RequestInv

-----------------------------------------------------------------------------
(* The steps that touch no request.                                         *)

LEMMA AtTurnHands ==
  ASSUME NEW t \in Threads, NEW k, AtTurn(t, k)
  PROVE  lock = t /\ Plain(frame[t]) /\ frame[t].new = NoRequest
BY DEF AtTurn, Plain

LEMMA RelockQuiet ==
  ASSUME FrameOK, LockInv, NEW t \in Threads, Relock(t)
  PROVE  FramesKeep /\ LockInv'
<1>1. frame[t].new = NoRequest /\ frame[t].pc = "window"
  BY LockFacts DEF Relock
<1>2. /\ Moves(t) /\ lock' = t /\ frame'[t].why = "none" /\ frame'[t].new = NoRequest
      /\ frame'[t].pc \notin {"window", "enter", "cancelDriver"}
      /\ frame[t].why = "insertFailedPresent" <=> frame'[t].pc = "present"
      /\ frame[t].why = "requeued" <=> frame'[t].pc = "requeueAcked"
      /\ frame[t].why \in {"insertFailedPresent", "requeued"} => frame'[t].cur = frame[t].cur
  BY <1>1 DEF Relock, Moves, FrameOK, SoundFrame, Frame
<1>3. SameFrame(frame'[t], frame[t])
  BY <1>1, <1>2 DEF SameFrame, Hand, Returning, Cancelling
<1>4. lock = t \/ Free
  BY DEF Relock
<1>5. LockInv'
  BY <1>2, <1>4, LockMoves
<1> QED BY <1>2, <1>3, <1>5, MovesOthers

LEMMA LoopQuiet ==
  ASSUME FrameOK, LockInv, BodyInv, NEW t \in Threads,
         \/ EnterDispatchEvents(t) \/ EnterDeleted(t) \/ Relock(t) \/ LeaveDispatchEvents(t)
         \/ ProcessIdleComplete(t) \/ ProcessPurgeComplete(t) \/ ProcessReadyNotify(t)
         \/ PowerDereference(t) \/ DeleteQueue(t) \/ StartingTransition(t) \/ PowerOn(t)
         \/ AwaitAcknowledge(t)
  PROVE  LockInv' /\ BodyInv'
<1>1. UNCHANGED <<req, queue, cancelVars, driverIoCount>>
  BY DEF EnterDispatchEvents, EnterDeleted, Relock, LeaveDispatchEvents, ProcessIdleComplete,
     ProcessPurgeComplete, ProcessReadyNotify, PowerDereference, DeleteQueue, StartingTransition,
     PowerOn, AwaitAcknowledge
<1> SUFFICES FramesKeep /\ LockInv'
  BY <1>1, QuietBody
<1>2. frame[t].after \in FreePoints \ {"cancelDriver"}
  BY FrameFields
<1>3. CASE EnterDispatchEvents(t)
  <2>1. Plain(frame[t]) /\ lock = t /\ UNCHANGED lock /\ Go(t, "dispatch")
    BY <1>3 DEF EnterDispatchEvents, Plain
  <2> QED BY <2>1, QuietGo
<1>4. CASE EnterDeleted(t)
  <2> DEFINE pc == CASE frame[t].after = "waitStart" -> "started"
                     [] frame[t].after \in {"waitHold", "waitPurge"} -> "off"
                     [] OTHER -> frame[t].after
  <2>1. pc \in FreePoints \ {"cancelDriver"}
    <3>1. "started" \in FreePoints /\ "off" \in FreePoints
      BY DEF FreePoints
    <3> QED BY <1>2, <3>1
  <2>2. lock = t /\ Plain(frame[t]) /\ frame[t].new = NoRequest /\ UnlockTo(t, pc)
    BY <1>4 DEF EnterDeleted, Plain, LockInv
  <2> HIDE DEF pc
  <2> QED BY <2>1, <2>2, QuietUnlock
<1>5. CASE Relock(t)
  BY <1>5, RelockQuiet
<1>6. CASE \/ LeaveDispatchEvents(t) \/ StartingTransition(t) \/ PowerOn(t)
  <2>1. UnlockTo(t, frame[t].after) /\ \E k : AtTurn(t, k)
    BY <1>6 DEF LeaveDispatchEvents, StartingTransition, PowerOn
  <2> QED BY <1>2, <2>1, AtTurnHands, QuietUnlock
<1>7. CASE DeleteQueue(t)
  <2>1. UnlockTo(t, frame[t].after) /\ AtTurn(t, "delete")
    BY <1>7 DEF DeleteQueue
  <2> QED BY <1>2, <2>1, AtTurnHands, QuietUnlock
<1>8. CASE ProcessIdleComplete(t)
  <2>1. Plain(frame[t]) /\ lock = t /\ frame[t].new = NoRequest /\ Window(t, "idleDone", NoRequest)
    BY <1>8, LockFacts DEF ProcessIdleComplete, AtTurn, Plain
  <2> QED BY <2>1, QuietWindow
<1>9. CASE ProcessPurgeComplete(t) \/ ProcessReadyNotify(t)
  <2>1. \E why \in {"purgeDone", "ready"} : Window(t, why, NoRequest)
    BY <1>9 DEF ProcessPurgeComplete, ProcessReadyNotify
  <2>2. \E k : AtTurn(t, k)
    BY <1>9 DEF ProcessPurgeComplete, ProcessReadyNotify
  <2> QED BY <2>1, <2>2, AtTurnHands, QuietWindow
<1>10. CASE PowerDereference(t)
  BY <1>10, QuietNothing DEF PowerDereference, lifeVars
<1>11. CASE AwaitAcknowledge(t)
  <2>1. CASE MayPowerOff
    BY <1>11, <2>1, QuietNothing DEF AwaitAcknowledge, lifeVars
  <2>2. CASE ~MayPowerOff
    <3>1. UnlockTo(t, frame[t].after) /\ AtTurn(t, "power")
      BY <1>11, <2>2 DEF AwaitAcknowledge
    <3> QED BY <1>2, <3>1, AtTurnHands, QuietUnlock
  <2> QED BY <2>1, <2>2
<1> QED BY <1>3, <1>4, <1>5, <1>6, <1>7, <1>8, <1>9, <1>10, <1>11

(* The steps of an operation, of the deferred dispatcher and of the power   *)
(* thread, as far as they touch no request.                                 *)
LEMMA GoAside ==
  ASSUME FrameOK, LockInv, NEW t \in Threads, frame[t].pc \in FreePoints \ {"cancelDriver"},
         NEW pc \in FreePoints \ {"cancelDriver"}, Go(t, pc), UNCHANGED <<lock, deleted>>
  PROVE  FramesKeep /\ LockInv'
<1>1. Plain(frame[t]) /\ frame[t].new = NoRequest
  BY OutsideHands
<1>2. /\ Moves(t) /\ frame'[t].pc = pc /\ frame'[t].new = frame[t].new
      /\ frame'[t].why = frame[t].why
  BY DEF Go, Moves, FrameOK, SoundFrame, Frame
<1> QED BY <1>1, <1>2, QuietAside

LEMMA EnterAside ==
  ASSUME FrameOK, LockInv, NEW t \in Threads, Free, frame[t].pc \in FreePoints \ {"cancelDriver"},
         NEW pc, Enter(t, NoRequest, pc)
  PROVE  FramesKeep /\ LockInv'
BY OutsideHands, QuietEnter

LEMMA OperationQuiet ==
  ASSUME FrameOK, LockInv, BodyInv, NEW t \in Threads,
         CompleteCanceled(t) \/ LockAndEnter(t) \/ SetDisposing(t) \/ FinishDisposing(t)
  PROVE  LockInv' /\ BodyInv'
<1>1. UNCHANGED <<req, queue, cancelVars, driverIoCount>>
  BY DEF CompleteCanceled, LockAndEnter, SetDisposing, FinishDisposing
<1> SUFFICES FramesKeep /\ LockInv'
  BY <1>1, QuietBody
<1>2. {"completeCanceled", "lockEnter", "setDisposing", "waitDisposed", "idle"}
        \subseteq FreePoints \ {"cancelDriver"}
  BY DEF FreePoints
<1>3. CASE CompleteCanceled(t)
  <2>1. frame[t].after \in FreePoints \ {"cancelDriver"}
    BY FrameFields
  <2> QED BY <1>2, <1>3, <2>1, QuietInternal DEF CompleteCanceled
<1>4. CASE LockAndEnter(t)
  <2>1. frame[t].pc = "lockEnter" /\ Free /\ lock' = t
    BY <1>4 DEF LockAndEnter
  <2>2. Plain(frame[t]) /\ frame[t].new = NoRequest
    BY <1>2, <2>1, OutsideHands
  <2>3. frame[t].why = "none"
    BY <2>1 DEF FrameOK, SoundFrame
  <2>4. Moves(t) /\ frame'[t].pc = "enter" /\ frame'[t].new = NoRequest /\ frame'[t].why = "none"
    BY <1>4, <2>3 DEF LockAndEnter, Moves, FrameOK, SoundFrame, Frame
  <2>5. SameFrame(frame'[t], frame[t])
    BY <2>1, <2>2, <2>3, <2>4 DEF SameFrame, Hand, Returning, Cancelling
  <2> QED BY <2>1, <2>4, <2>5, MovesOthers, LockMoves
<1>5. CASE SetDisposing(t)
  BY <1>2, <1>5, EnterAside DEF SetDisposing
<1>6. CASE FinishDisposing(t)
  BY <1>2, <1>6, GoAside DEF FinishDisposing, lifeVars
<1> QED BY <1>3, <1>4, <1>5, <1>6

LEMMA PowerQuiet ==
  ASSUME FrameOK, LockInv, BodyInv, DeferStep \/ PowerDown \/ PowerStep
  PROVE  LockInv' /\ BodyInv'
<1>1. UNCHANGED <<req, queue, cancelVars, driverIoCount>>
  BY DEF DeferStep, DeferredDispatch, DeferredEnd, PowerDown, StartPowerTransitionOff,
     SetStateForShutdown, PowerStep, WaitPowerIdle, StopProcessingForPowerHold, PowerPurge,
     BeginPurge, StopProcessingForPowerPurge, ResetStateForRestart, ResumeProcessingForPower,
     StartPowerTransitionOn
<1> SUFFICES FramesKeep /\ LockInv'
  BY <1>1, QuietBody
<1>2. {"idle", "deferredEnd", "on", "waitStart", "started", "waitHold", "off", "purge", "setPurge",
       "waitPurge", "resumed", "drainQueue", "lockEnter"} \subseteq FreePoints \ {"cancelDriver"}
  BY DEF FreePoints
<1>3. PowerThread \in Threads /\ DeferThread \in Threads
  BY DEF Threads
<1>4. CASE DeferredDispatch
  BY <1>2, <1>3, <1>4, EnterAside DEF DeferredDispatch
<1>5. CASE DeferredEnd
  BY <1>2, <1>3, <1>5, GoAside DEF DeferredEnd, lifeVars
<1>6. CASE \/ StartPowerTransitionOff \/ StopProcessingForPowerHold
           \/ StopProcessingForPowerPurge \/ ResumeProcessingForPower \/ StartPowerTransitionOn
  <2>1. Free /\ \E pc : Enter(PowerThread, NoRequest, pc)
    BY <1>6 DEF StartPowerTransitionOff, StopProcessingForPowerHold, StopProcessingForPowerPurge,
       ResumeProcessingForPower, StartPowerTransitionOn, PowerEnter
  <2>2. frame[PowerThread].pc \in {"on", "started", "setPurge", "purge", "off", "resumed"}
    BY <1>6 DEF StartPowerTransitionOff, StopProcessingForPowerHold, StopProcessingForPowerPurge,
       ResumeProcessingForPower, StartPowerTransitionOn, AtPower
  <2> QED BY <1>2, <1>3, <2>1, <2>2, EnterAside
<1>7. CASE WaitPowerIdle \/ SetStateForShutdown
  <2>1. UNCHANGED <<lock, deleted>>
    BY <1>7 DEF WaitPowerIdle, SetStateForShutdown, lifeVars
  <2>2. \E pc \in {"started", "off", "purge"} : Go(PowerThread, pc)
    BY <1>7 DEF WaitPowerIdle, SetStateForShutdown
  <2>3. frame[PowerThread].pc \in {"waitStart", "waitHold", "waitPurge", "off", "on"}
    BY <1>7 DEF WaitPowerIdle, SetStateForShutdown, AtPower
  <2> QED BY <1>2, <1>3, <2>1, <2>2, <2>3, GoAside
<1>8. CASE ResetStateForRestart
  <2>1. AtPower("off") /\ UNCHANGED <<lock, deleted>>
    BY <1>8 DEF ResetStateForRestart, lifeVars
  <2>2. UNCHANGED frame \/ Go(PowerThread, "on")
    BY <1>8 DEF ResetStateForRestart
  <2> QED BY <1>2, <1>3, <2>1, <2>2, GoAside, QuietNothing DEF AtPower
<1>9. CASE PowerPurge
  <2>1. AtPower("purge") /\ UNCHANGED <<lock, deleted>>
    BY <1>9 DEF PowerPurge, BeginPurge, lifeVars
  <2>2. /\ Moves(PowerThread) /\ frame'[PowerThread].pc = "drainQueue"
        /\ frame'[PowerThread].new = frame[PowerThread].new
        /\ frame'[PowerThread].why = frame[PowerThread].why
    BY <1>3, <1>9 DEF PowerPurge, BeginPurge, Moves, FrameOK, SoundFrame, Frame
  <2> QED BY <1>2, <1>3, <2>1, <2>2, OutsideHands, QuietAside DEF AtPower
<1> QED BY <1>4, <1>5, <1>6, <1>7, <1>8, <1>9 DEF DeferStep, PowerDown, PowerStep

(* The driver starts, stops and purges the queue: the requests only learn   *)
(* that they are canceled.                                                  *)
LEMMA DriverCallQuiet ==
  ASSUME TypeOK, FrameOK, LockInv, BodyInv, NEW t \in Workers, DriverCall(t)
  PROVE  LockInv' /\ BodyInv'
<1>1. t \in Threads
  BY DEF Threads
<1>2. {"idle", "drainQueue", "lockEnter"} \subseteq FreePoints \ {"cancelDriver"}
  BY DEF FreePoints
<1>3. frame[t].pc = "idle" /\ Free
  BY DEF DriverCall, QueueStart, QueueIdle, QueuePurge, Dispose, ReadyNotify, Idle
<1>4. CASE QueueStart(t) \/ \E b \in BOOLEAN : ReadyNotify(t, b)
  <2>1. UNCHANGED <<req, queue, cancelVars, driverIoCount>> /\ Enter(t, NoRequest, "idle")
    BY <1>4 DEF QueueStart, ReadyNotify
  <2> QED BY <1>1, <1>2, <1>3, <2>1, EnterAside, QuietBody
<1>5. ASSUME NEW b \in BOOLEAN, NEW c \in BOOLEAN, NEW op, BeginPurge(t, b, c, op)
      PROVE  LockInv' /\ BodyInv'
  <2>1. UNCHANGED <<req, queue, cancelVars, driverIoCount, lock, deleted>>
    BY <1>5 DEF BeginPurge, lifeVars
  <2>2. /\ Moves(t) /\ frame'[t].pc \in {"drainQueue", "lockEnter"}
        /\ frame'[t].new = frame[t].new /\ frame'[t].why = frame[t].why
    BY <1>1, <1>5 DEF BeginPurge, Moves, FrameOK, SoundFrame, Frame
  <2>3. FramesKeep /\ LockInv'
    BY <1>1, <1>2, <1>3, <2>1, <2>2, OutsideHands, QuietAside
  <2> QED BY <2>1, <2>3, QuietBody
<1>6. ASSUME NEW b \in BOOLEAN, NEW c \in BOOLEAN, QueueIdle(t, b, c)
      PROVE  LockInv' /\ BodyInv'
  <2>1. UNCHANGED <<queue, cancelVars, driverIoCount, lock, deleted>>
    BY <1>6 DEF QueueIdle, lifeVars
  <2>2. /\ Moves(t) /\ frame'[t].pc \in {"drainQueue", "lockEnter"}
        /\ frame'[t].new = frame[t].new /\ frame'[t].why = frame[t].why
    <3>1. CASE b
      <4>1. frame' = [frame EXCEPT ![t] = [@ EXCEPT !.pc = "drainQueue", !.op = "stop"]]
        BY <1>6, <3>1 DEF QueueIdle
      <4> QED BY <1>1, <4>1 DEF Moves, FrameOK, SoundFrame, Frame
    <3>2. CASE ~b
      BY <1>1, <1>6, <3>2 DEF QueueIdle, Go, Moves, FrameOK, SoundFrame, Frame
    <3> QED BY <3>1, <3>2
  <2>3. FramesKeep /\ LockInv'
    BY <1>1, <1>2, <1>3, <2>1, <2>2, OutsideHands, QuietAside
  <2>4. ASSUME NEW r \in Requests
        PROVE  KeepsFields(r) /\ KeepsPlaces(r)
    <3>1. /\ req'[r].irp = req[r].irp /\ req'[r].drv = req[r].drv
          /\ req'[r].list = req[r].list /\ req'[r].ack = req[r].ack
      BY <1>6 DEF QueueIdle, TypeOK, Request
    <3>2. DriverOK(r)
      BY DEF BodyInv, RequestInv, RequestOK
    <3> QED BY <2>1, <3>1, <3>2 DEF DriverOK, KeepsFields, KeepsPlaces, Queued, cancelVars
  <2>5. QueueInv'
    BY <2>1 DEF BodyInv, QueueInv
  <2> QED BY <2>1, <2>3, <2>4, <2>5, UntouchedBody
<1> QED BY <1>4, <1>5, <1>6 DEF DriverCall, QueuePurge, Dispose

-----------------------------------------------------------------------------
(* The steps that are about a request.                                      *)

Unhanded(r) ==
  \A t \in Threads : /\ Hand(frame[t]) # r /\ Returning(frame[t]) # r
                     /\ Cancelling(frame[t]) # r

Unpathed(r) == r \notin cancelable \cup routineRunning \cup cancelCalls \cup cancelled

Nowhere(r) == ~ Queued(r) /\ Unhanded(r) /\ Unpathed(r) /\ r \notin canceledOnQueue

(* Where a request is, from what the driver may do with it,                 *)
LEMMA HeldFacts ==
  ASSUME NEW r \in Requests, RequestOK(r),
         req[r].drv \in {"held", "told", "completing", "forwarding"}
  PROVE  Nowhere(r)
BY DEF RequestOK, PlaceOK, Loose, ReturnOK, Neither, PathOK, Nowhere, Unhanded, Unpathed

LEMMA CancelableFacts ==
  ASSUME NEW r \in Requests, RequestOK(r), req[r].drv = "cancelable"
  PROVE  /\ ~ Queued(r) /\ r \notin canceledOnQueue
         /\ \A t \in Threads : Hand(frame[t]) # r /\ Returning(frame[t]) # r
BY DEF RequestOK, PlaceOK, Loose, ReturnOK, Neither

(* from m_Queue,                                                            *)
LEMMA QueuedFacts ==
  ASSUME NEW r \in Requests, RequestOK(r), Queued(r)
  PROVE  /\ Loose(r) /\ Unhanded(r) /\ r \notin canceledOnQueue
         /\ r \notin cancelable \cup cancelCalls \cup cancelled
BY DEF RequestOK, PlaceOK, Loose, ReturnOK, Neither, PathOK, Unhanded

(* and from the thread that has it.                                         *)
LEMMA HandFacts ==
  ASSUME NEW r \in Requests, RequestOK(r), NEW t \in Threads, Hand(frame[t]) = r
  PROVE  /\ Loose(r) /\ ~ Queued(r) /\ Unpathed(r) /\ r \notin canceledOnQueue
         /\ \A u \in Threads : /\ Hand(frame[u]) = r => u = t
                               /\ Returning(frame[u]) # r /\ Cancelling(frame[u]) # r
BY DEF RequestOK, PlaceOK, Loose, ReturnOK, Neither, PathOK, Unpathed

(* Conversely: one that only the driver has, or nobody any more,            *)
LEMMA NowhereOK ==
  ASSUME NEW r \in Requests, Nowhere(r)', DriverOK(r)', req'[r].drv # "cancelable",
         req'[r].irp = "sent" => Listed(r)'
  PROVE  RequestOK(r)'
BY DEF RequestOK, PlaceOK, ReturnOK, PathOK, Nowhere, Unhanded, Unpathed

(* and one that is in m_Queue only.                                         *)
LEMMA QueuedOK ==
  ASSUME NEW r \in Requests, Queued(r)', Loose(r)', Unhanded(r)', r \notin canceledOnQueue',
         r \notin cancelable' \cup cancelCalls' \cup cancelled'
  PROVE  RequestOK(r)'
BY DEF RequestOK, PlaceOK, Loose, DriverOK, ReturnOK, PathOK, Unhanded

(* The hands of the threads when only t moves.                              *)
LEMMA UnhandedStays ==
  ASSUME NEW r \in Requests, NEW t \in Threads, OthersKeep(t),
         \A u \in Threads : u # t => /\ Hand(frame[u]) # r /\ Returning(frame[u]) # r
                                     /\ Cancelling(frame[u]) # r,
         Hand(frame'[t]) # r, Returning(frame'[t]) # r, Cancelling(frame'[t]) # r
  PROVE  Unhanded(r)'
BY DEF Unhanded, OthersKeep, SameFrame

LEMMA HandsAside ==
  ASSUME NEW r \in Requests, NEW t \in Threads, OthersKeep(t),
         Hand(frame'[t]) = r <=> Hand(frame[t]) = r,
         Returning(frame'[t]) = r <=> Returning(frame[t]) = r,
         Cancelling(frame'[t]) = r <=> Cancelling(frame[t]) = r
  PROVE  KeepsHands(r)
BY DEF KeepsHands, OthersKeep, SameFrame

-----------------------------------------------------------------------------
(* Lists without repetitions.                                               *)

LEMMA AppendLists ==
  ASSUME NEW S, NEW s \in Seq(S), NEW r \in S
  PROVE  /\ Elements(Append(s, r)) = Elements(s) \cup {r}
         /\ Distinct(s) /\ r \notin Elements(s) => Distinct(Append(s, r))
<1>1. /\ Len(s) \in Nat /\ Len(Append(s, r)) = Len(s) + 1
      /\ \A i \in 1..Len(s) : Append(s, r)[i] = s[i]
      /\ Append(s, r)[Len(s) + 1] = r
  OBVIOUS
<1>2. Elements(Append(s, r)) = Elements(s) \cup {r}
  <2>1. \A i \in 1..(Len(s) + 1) : i \in 1..Len(s) \/ i = Len(s) + 1
    BY <1>1
  <2>2. \A i \in 1..Len(s) : i \in 1..(Len(s) + 1)
    BY <1>1
  <2>3. Len(s) + 1 \in 1..(Len(s) + 1)
    BY <1>1
  <2> QED BY <1>1, <2>1, <2>2, <2>3 DEF Elements
<1>3. Distinct(s) /\ r \notin Elements(s) => Distinct(Append(s, r))
  BY <1>1 DEF Distinct, Elements
<1> QED BY <1>2, <1>3

LEMMA PrependLists ==
  ASSUME NEW S, NEW s \in Seq(S), NEW r \in S
  PROVE  /\ Elements(<<r>> \o s) = Elements(s) \cup {r}
         /\ Distinct(s) /\ r \notin Elements(s) => Distinct(<<r>> \o s)
<1> DEFINE t == <<r>> \o s
<1>1. /\ Len(s) \in Nat /\ Len(t) = Len(s) + 1 /\ t[1] = r
      /\ \A i \in 2..(Len(s) + 1) : t[i] = s[i - 1]
  <2>1. <<r>> \in Seq(S) /\ Len(<<r>>) = 1 /\ <<r>>[1] = r /\ Len(s) \in Nat
    OBVIOUS
  <2> QED BY <2>1, ConcatProperties
<1>2. \A i \in 1..Len(s) : i + 1 \in 1..(Len(s) + 1) /\ t[i + 1] = s[i]
  BY <1>1
<1>3. \A i \in 2..(Len(s) + 1) : i - 1 \in 1..Len(s)
  BY <1>1
<1>4. 1 \in 1..(Len(s) + 1) /\ \A i \in 1..(Len(s) + 1) : i = 1 \/ i \in 2..(Len(s) + 1)
  BY <1>1
<1>5. Elements(t) = Elements(s) \cup {r}
  <2> HIDE DEF t
  <2>1. Elements(t) \subseteq Elements(s) \cup {r}
    BY <1>1, <1>3, <1>4 DEF Elements
  <2>2. Elements(s) \cup {r} \subseteq Elements(t)
    BY <1>1, <1>2, <1>4 DEF Elements
  <2> QED BY <2>1, <2>2
<1>6. ASSUME Distinct(s), r \notin Elements(s)
      PROVE  Distinct(t)
  <2> HIDE DEF t
  <2> SUFFICES ASSUME NEW i \in 1..Len(t), NEW j \in 1..Len(t), t[i] = t[j]
               PROVE  i = j
    BY DEF Distinct
  <2>1. \A k \in 2..(Len(s) + 1) : t[k] \in Elements(s) /\ t[k] # t[1]
    BY <1>1, <1>3, <1>6 DEF Elements
  <2>2. CASE i \in 2..(Len(s) + 1) /\ j \in 2..(Len(s) + 1)
    <3>1. i - 1 = j - 1
      BY <1>1, <1>3, <1>6, <2>2 DEF Distinct
    <3> QED BY <2>2, <3>1
  <2> QED BY <1>1, <1>4, <2>1, <2>2
<1> QED BY <1>5, <1>6

LEMMA WithoutLists ==
  ASSUME NEW S, NEW s \in Seq(S), NEW r \in Elements(s), Distinct(s)
  PROVE  /\ Elements(Without(s, r)) = Elements(s) \ {r}
         /\ Distinct(Without(s, r)) /\ Without(s, r) \in Seq(S)
<1> DEFINE i == CHOOSE i \in 1..Len(s) : s[i] = r
           a == SubSeq(s, 1, i - 1)
           b == SubSeq(s, i + 1, Len(s))
           t == a \o b
<1>1. i \in 1..Len(s) /\ s[i] = r /\ Len(s) \in Nat
  BY DEF Elements
<1>2. t = Without(s, r)
  BY DEF Without
<1>3. /\ Len(t) = Len(s) - 1
      /\ \A k \in 1..Len(t) : t[k] = IF k < i THEN s[k] ELSE s[k + 1]
  <2> HIDE DEF i
  <2>1. \A k \in 1..Len(s) : s[k] \in S
    OBVIOUS
  <2>2. /\ a \in Seq(S) /\ Len(a) = i - 1
        /\ \A k \in 1..(i - 1) : a[k] = s[k]
    BY <1>1, <2>1, SubSeqProperties
  <2>3. /\ b \in Seq(S) /\ Len(b) = Len(s) - i
        /\ \A k \in 1..(Len(s) - i) : b[k] = s[i + k]
    BY <1>1, <2>1, SubSeqProperties
  <2> HIDE DEF a, b
  <2>4. /\ Len(t) = Len(a) + Len(b)
        /\ \A k \in 1..(Len(a) + Len(b)) : t[k] = IF k <= Len(a) THEN a[k] ELSE b[k - Len(a)]
    BY <2>2, <2>3, ConcatProperties
  <2> HIDE DEF t
  <2>5. ASSUME NEW k \in 1..Len(t)
        PROVE  t[k] = IF k < i THEN s[k] ELSE s[k + 1]
    <3>1. CASE k < i
      BY <1>1, <2>2, <2>3, <2>4, <3>1
    <3>2. CASE ~(k < i)
      <4>1. k \in 1..(Len(a) + Len(b)) /\ ~(k <= Len(a))
        BY <1>1, <2>2, <2>3, <2>4, <3>2
      <4>2. t[k] = b[k - Len(a)]
        BY <2>4, <4>1
      <4>3. k - Len(a) \in 1..(Len(s) - i) /\ i + (k - Len(a)) = k + 1
        BY <1>1, <2>2, <2>3, <2>4, <4>1, <3>2
      <4> QED BY <2>3, <3>2, <4>2, <4>3
    <3> QED BY <3>1, <3>2
  <2> QED BY <1>1, <2>2, <2>3, <2>4, <2>5
<1> HIDE DEF t, i
<1>4. \A k \in 1..Len(t) : /\ k \in 1..Len(s) /\ k + 1 \in 1..Len(s)
                           /\ k < i \/ (k + 1 > i /\ ~(k < i))
  BY <1>1, <1>3
<1>5. \A k \in 1..Len(t) : t[k] \in Elements(s) \ {r}
  BY <1>1, <1>3, <1>4 DEF Elements, Distinct
<1>6. ASSUME NEW k \in 1..Len(s), s[k] # r
      PROVE  s[k] \in Elements(t)
  <2>1. CASE k < i
    <3>1. k \in 1..Len(t) /\ t[k] = s[k]
      BY <1>1, <1>3, <2>1
    <3> QED BY <3>1 DEF Elements
  <2>2. CASE k > i
    <3>1. k - 1 \in 1..Len(t) /\ t[k - 1] = s[k]
      BY <1>1, <1>3, <2>2
    <3> QED BY <3>1 DEF Elements
  <2> QED BY <1>1, <1>6, <2>1, <2>2
<1>7. Elements(t) = Elements(s) \ {r}
  BY <1>5, <1>6 DEF Elements
<1>8. Distinct(t)
  <2> SUFFICES ASSUME NEW j \in 1..Len(t), NEW k \in 1..Len(t), t[j] = t[k]
               PROVE  j = k
    BY DEF Distinct
  <2> DEFINE P(n) == IF n < i THEN n ELSE n + 1
  <2>1. \A n \in 1..Len(t) : t[n] = s[P(n)] /\ P(n) \in 1..Len(s)
    BY <1>3, <1>4
  <2>2. P(j) = P(k)
    BY <2>1 DEF Distinct
  <2>3. j \in Int /\ k \in Int /\ i \in Int
    BY <1>1, <1>3
  <2> QED BY <2>2, <2>3
<1>9. t \in Seq(S)
  BY <1>2, WithoutType
<1> QED BY <1>2, <1>7, <1>8, <1>9

-----------------------------------------------------------------------------
(* The steps of the loop that are about a request.                          *)

OnlyAbout(r) ==
  \A s \in Requests \ {r} : req'[s] = req[s] /\ KeepsPlaces(s) /\ KeepsHands(s)

LEMMA AboutOthers ==
  ASSUME BodyInv, NEW s \in Requests, req'[s] = req[s], KeepsPlaces(s), KeepsHands(s)
  PROVE  RequestOK(s)' /\ (Listed(s)' <=> Listed(s))
<1>1. RequestOK(s)
  BY DEF BodyInv, RequestInv
<1>2. KeepsFields(s)
  BY <1>1 DEF RequestOK, DriverOK, KeepsFields
<1> QED BY <1>1, <1>2, AsideKeeps DEF Aside

LEMMA AboutBody ==
  ASSUME TypeOK, BodyInv, NEW r \in Requests, OnlyAbout(r), QueueInv', RequestOK(r)',
         driverIoCount' - Weight(r)' = driverIoCount - Weight(r), driverIoCount' \in Int
  PROVE  BodyInv'
<1>1. \A s \in Requests \ {r} : RequestOK(s)' /\ (Listed(s)' <=> Listed(s))
  BY AboutOthers DEF OnlyAbout
<1> QED BY <1>1, TouchedBody

LEMMA BodyFacts ==
  ASSUME BodyInv
  PROVE  QueueInv /\ Distinct(queue) /\ \A r \in Requests : RequestOK(r)
BY DEF BodyInv, QueueInv, RequestInv

(* A thread's new request is refused: its IRP was cancelled,                *)
LEMMA NewRefused ==
  ASSUME TypeOK, FrameOK, LockInv, BodyInv, NEW t \in Threads, NEW r \in Requests,
         frame[t].new = r, req' = [req EXCEPT ![r].irp = "done"],
         UNCHANGED <<queue, cancelVars, driverIoCount>>, OthersKeep(t), Idles(frame'[t])
  PROVE  BodyInv'
<1>1. NoRequest \notin Requests /\ Plain(frame[t])
  BY ThreadAssumption DEF LockInv, Plain
<1>2. /\ Hand(frame[t]) = r /\ Returning(frame[t]) = NoRequest
      /\ Cancelling(frame[t]) = NoRequest
  BY <1>1, PlainHands
<1>3. /\ Loose(r) /\ ~ Queued(r) /\ Unpathed(r) /\ r \notin canceledOnQueue
      /\ \A u \in Threads : /\ Hand(frame[u]) = r => u = t
                            /\ Returning(frame[u]) # r /\ Cancelling(frame[u]) # r
  BY <1>1, <1>2, BodyFacts, HandFacts
<1>5. /\ req'[r].irp = "done" /\ req'[r].list = req[r].list
      /\ req'[r].drv = req[r].drv /\ req'[r].ack = req[r].ack
  BY DEF TypeOK, Request
<1>6. Unhanded(r)'
  BY <1>1, <1>2, <1>3, UnhandedStays DEF Idles
<1>7. RequestOK(r)'
  <2>1. Nowhere(r)'
    BY <1>3, <1>6 DEF Nowhere, Unpathed, Queued, cancelVars
  <2>2. DriverOK(r)'
    BY <1>3, <1>5 DEF DriverOK, Loose
  <2> QED BY <1>1, <1>3, <1>5, <2>1, <2>2, NowhereOK DEF Loose
<1>8. OnlyAbout(r)
  <2> SUFFICES ASSUME NEW s \in Requests \ {r}
               PROVE  req'[s] = req[s] /\ KeepsPlaces(s) /\ KeepsHands(s)
    BY DEF OnlyAbout
  <2>1. req'[s] = req[s]
    BY DEF TypeOK
  <2>2. KeepsHands(s)
    BY <1>1, <1>2, HandsAside DEF Idles
  <2> QED BY <2>1, <2>2 DEF KeepsPlaces, Queued, cancelVars
<1>9. Weight(r)' = Weight(r)
  BY <1>3, <1>5 DEF Weight, Listed, Loose
<1>10. QueueInv'
  BY BodyFacts DEF QueueInv
<1> QED BY <1>1, <1>7, <1>8, <1>9, <1>10, AboutBody DEF TypeOK

(* or goes to the tail of m_Queue.                                          *)
LEMMA NewQueued ==
  ASSUME TypeOK, FrameOK, LockInv, BodyInv, NEW t \in Threads, NEW r \in Requests,
         frame[t].new = r, queue' = Append(queue, r),
         UNCHANGED <<req, cancelVars, driverIoCount>>, OthersKeep(t), Idles(frame'[t])
  PROVE  BodyInv'
<1>1. NoRequest \notin Requests /\ Plain(frame[t])
  BY ThreadAssumption DEF LockInv, Plain
<1>2. /\ Hand(frame[t]) = r /\ Returning(frame[t]) = NoRequest
      /\ Cancelling(frame[t]) = NoRequest
  BY <1>1, PlainHands
<1>3. /\ Loose(r) /\ ~ Queued(r) /\ Unpathed(r) /\ r \notin canceledOnQueue
      /\ \A u \in Threads : /\ Hand(frame[u]) = r => u = t
                            /\ Returning(frame[u]) # r /\ Cancelling(frame[u]) # r
  BY <1>1, <1>2, BodyFacts, HandFacts
<1>4. Elements(queue') = Elements(queue) \cup {r} /\ QueueInv'
  <2>1. queue \in Seq(Requests)
    BY DEF TypeOK
  <2> QED BY <1>3, <2>1, BodyFacts, AppendLists DEF QueueInv, Queued
<1>5. Unhanded(r)'
  BY <1>1, <1>2, <1>3, UnhandedStays DEF Idles
<1>6. RequestOK(r)'
  <2>1. Queued(r)' /\ Loose(r)'
    BY <1>3, <1>4 DEF Queued, Loose
  <2> QED BY <1>1, <1>3, <1>5, <2>1, QueuedOK DEF Unpathed, cancelVars
<1>7. OnlyAbout(r)
  <2> SUFFICES ASSUME NEW s \in Requests \ {r}
               PROVE  req'[s] = req[s] /\ KeepsPlaces(s) /\ KeepsHands(s)
    BY DEF OnlyAbout
  <2>1. KeepsHands(s)
    BY <1>1, <1>2, HandsAside DEF Idles
  <2> QED BY <1>4, <2>1 DEF KeepsPlaces, Queued, cancelVars
<1>8. Weight(r)' = Weight(r)
  BY DEF Weight, Listed
<1> QED BY <1>1, <1>4, <1>6, <1>7, <1>8, AboutBody DEF TypeOK

LEMMA InsertOwner ==
  ASSUME TypeOK, FrameOK, LockInv, BodyInv, NEW t \in Threads,
         EnterDeferred(t) \/ InsertNewRequest(t)
  PROVE  LockInv' /\ BodyInv'
<1>1. CASE EnterDeferred(t)
  <2>1. lock = t /\ lock' = NoThread /\ UNCHANGED deleted /\ Plain(frame[t])
    BY <1>1 DEF EnterDeferred, lifeVars, Plain
  <2>2. frame[t].after \in FreePoints \ {"cancelDriver"} /\ frame[t].why = "none"
    BY <2>1, FrameFields DEF FrameOK, SoundFrame, Plain
  <2>3. /\ Moves(t) /\ frame'[t].pc = frame[t].after /\ frame'[t].new = NoRequest
        /\ frame'[t].why = "none"
    BY <1>1, <2>2 DEF EnterDeferred, Moves, FrameOK, SoundFrame, Frame
  <2>4. frame[t].after \notin LockedPoints /\ Plain(frame'[t])
    BY <2>2, <2>3 DEF FreePoints, LockedPoints, Plain
  <2>5. LockInv'
    BY <2>1, <2>3, <2>4, LockMoves
  <2>6. Idles(frame'[t])
    BY <2>3, <2>4 DEF Idles, Hand, Returning, Cancelling, Plain
  <2>7. OthersKeep(t)
    BY <2>3, MovesOthers
  <2>8. UNCHANGED <<cancelVars, driverIoCount>>
    BY <1>1 DEF EnterDeferred
  <2>9. CASE frame[t].new = NoRequest
    <3>1. SameFrame(frame'[t], frame[t])
      BY <2>1, <2>6, <2>9, PlainHands DEF Idles, SameFrame
    <3>2. UNCHANGED <<req, queue>>
      BY <1>1, <2>9 DEF EnterDeferred
    <3> QED BY <2>3, <2>5, <2>8, <3>1, <3>2, MovesOthers, QuietBody
  <2>10. CASE frame[t].new # NoRequest
    <3>1. \/ /\ req' = [req EXCEPT ![frame[t].new].irp = "done"] /\ UNCHANGED queue
          \/ /\ queue' = Append(queue, frame[t].new) /\ UNCHANGED req
      BY <1>1, <2>10 DEF EnterDeferred
    <3> QED BY <2>5, <2>6, <2>7, <2>8, <2>10, <3>1, FrameFields, NewRefused, NewQueued
  <2> QED BY <2>9, <2>10
<1>2. CASE InsertNewRequest(t)
  <2>1. /\ lock = t /\ frame[t].pc = "dispatch" /\ frame[t].new # NoRequest
        /\ UNCHANGED <<cancelVars, driverIoCount, deleted>>
    BY <1>2 DEF InsertNewRequest, lifeVars
  <2>2. CASE req[frame[t].new].cancel
    <3>1. /\ req' = [req EXCEPT ![frame[t].new].irp = "done"] /\ UNCHANGED queue
          /\ \E why \in {"insertFailedIdle", "insertFailed"} : Window(t, why, NoRequest)
      BY <1>2, <2>2 DEF InsertNewRequest
    <3>2. LockInv'
      BY <2>1, <3>1, LockWindow
    <3>3. Idles(frame'[t]) /\ OthersKeep(t)
      BY <3>1, WindowHands, MovesOthers DEF Idles
    <3> QED BY <2>1, <3>1, <3>2, <3>3, FrameFields, NewRefused
  <2>3. CASE ~req[frame[t].new].cancel
    <3>1. /\ queue' = Append(queue, frame[t].new) /\ UNCHANGED <<req, lock>>
          /\ frame' = [frame EXCEPT ![t].new = NoRequest]
      BY <1>2, <2>3 DEF InsertNewRequest
    <3>2. /\ Moves(t) /\ frame'[t].pc = "dispatch" /\ frame'[t].new = NoRequest
          /\ frame'[t].why = frame[t].why
      BY <2>1, <3>1 DEF Moves, FrameOK, SoundFrame, Frame
    <3>3. frame[t].why = "none"
      BY <2>1 DEF FrameOK, SoundFrame
    <3>4. LockInv'
      BY <2>1, <3>1, <3>2, LockMoves
    <3>5. Idles(frame'[t]) /\ OthersKeep(t)
      BY <3>2, <3>3, MovesOthers DEF Idles, Hand, Returning, Cancelling
    <3> QED BY <2>1, <3>1, <3>4, <3>5, FrameFields, NewQueued
  <2> QED BY <2>2, <2>3
<1> QED BY <1>1, <1>2

(* A request that the driver gets to hear of, or that a thread returns, is  *)
(* in none of the other places.                                             *)
LEMMA NeitherFacts ==
  ASSUME NEW r \in Requests, RequestOK(r), Neither(r)
  PROVE  /\ req[r].irp = "sent" /\ ~ Queued(r) /\ Unpathed(r)
         /\ \A t \in Threads : Hand(frame[t]) # r /\ Cancelling(frame[t]) # r
BY DEF RequestOK, PlaceOK, Loose, DriverOK, Neither, PathOK, Unpathed

(* The driver is told that a request is cancelled.                          *)
LEMMA ToldOwner ==
  ASSUME TypeOK, FrameOK, LockInv, BodyInv, NEW t \in Threads, lock = t, Plain(frame[t]),
         frame[t].new = NoRequest, NEW r \in Requests, NEW why \in {"cancel", "onQueue"},
         Window(t, why, r), req' = [req EXCEPT ![r].drv = "told"],
         UNCHANGED <<queue, driverIoCount>>,
         \/ /\ r \in cancelled /\ cancelled' = cancelled \ {r}
            /\ UNCHANGED <<cancelable, routineRunning, cancelCalls, canceledOnQueue>>
         \/ /\ r \in canceledOnQueue /\ canceledOnQueue' = canceledOnQueue \ {r}
            /\ UNCHANGED <<cancelable, routineRunning, cancelCalls, cancelled>>
  PROVE  LockInv' /\ BodyInv'
<1>1. FramesKeep /\ LockInv'
  BY QuietWindow
<1>2. /\ req'[r].irp = req[r].irp /\ req'[r].list = req[r].list
      /\ req'[r].drv = "told" /\ req'[r].ack = req[r].ack
  BY DEF TypeOK, Request
<1>3. RequestOK(r) /\ DriverOK(r) /\ PathOK(r) /\ ReturnOK(r)
  BY BodyFacts DEF RequestOK
<1>4. /\ req[r].irp = "sent" /\ req[r].list # "none" /\ req[r].ack # "requeue"
      /\ Unhanded(r) /\ Nowhere(r)'
  <2>1. CASE r \in cancelled
    <3>1. req[r].drv = "cancelable"
      BY <1>3, <2>1 DEF PathOK
    <3>2. /\ ~ Queued(r) /\ r \notin canceledOnQueue
          /\ \A u \in Threads : Hand(frame[u]) # r /\ Returning(frame[u]) # r
      BY <1>3, <3>1, CancelableFacts
    <3>3. /\ r \notin cancelable \cup cancelCalls \cup routineRunning
          /\ \A u \in Threads : Cancelling(frame[u]) # r
      BY <1>3, <2>1, <3>2 DEF PathOK
    <3>4. req[r].irp = "sent" /\ req[r].list # "none" /\ req[r].ack # "requeue"
      BY <1>3, <3>1 DEF DriverOK
    <3>5. r \notin cancelled' /\ UNCHANGED <<cancelable, routineRunning, cancelCalls, canceledOnQueue>>
      BY <3>2
    <3>6. Unhanded(r) /\ Unhanded(r)'
      BY <1>1, <3>2, <3>3 DEF Unhanded, FramesKeep, SameFrame
    <3> QED BY <3>2, <3>3, <3>4, <3>5, <3>6 DEF Nowhere, Unpathed, Queued
  <2>2. CASE r \in canceledOnQueue
    <3>1. Neither(r) /\ \A u \in Threads : Returning(frame[u]) # r
      BY <1>3, <2>2 DEF ReturnOK
    <3>2. /\ req[r].irp = "sent" /\ ~ Queued(r) /\ Unpathed(r)
          /\ \A u \in Threads : Hand(frame[u]) # r /\ Cancelling(frame[u]) # r
      BY <1>3, <3>1, NeitherFacts
    <3>3. /\ r \notin canceledOnQueue'
          /\ UNCHANGED <<cancelable, routineRunning, cancelCalls, cancelled>>
      BY <3>2 DEF Unpathed
    <3>4. Unhanded(r) /\ Unhanded(r)'
      BY <1>1, <3>1, <3>2 DEF Unhanded, FramesKeep, SameFrame
    <3> QED BY <3>1, <3>2, <3>3, <3>4 DEF Nowhere, Unpathed, Queued, Neither
  <2> QED BY <2>1, <2>2
<1>5. RequestOK(r)'
  <2>1. DriverOK(r)'
    BY <1>2, <1>4 DEF DriverOK
  <2> QED BY <1>2, <1>4, <2>1, NowhereOK DEF Listed
<1>6. OnlyAbout(r)
  BY <1>1 DEF OnlyAbout, TypeOK, KeepsPlaces, Queued, KeepsHands, FramesKeep, SameFrame
<1>7. Weight(r)' = Weight(r) /\ QueueInv'
  BY <1>2, <1>4, BodyFacts DEF Weight, Listed, QueueInv
<1> QED BY <1>1, <1>5, <1>6, <1>7, AboutBody DEF TypeOK

LEMMA CancelledOwner ==
  ASSUME TypeOK, FrameOK, LockInv, BodyInv, NEW t \in Threads,
         ProcessCancelledRequests(t) \/ ProcessCancelledRequestsOnQueue(t)
  PROVE  LockInv' /\ BodyInv'
<1>1. lock = t /\ Plain(frame[t]) /\ frame[t].new = NoRequest
  BY LockFacts DEF ProcessCancelledRequests, ProcessCancelledRequestsOnQueue, AtTurn, Plain
<1>2. CASE Go(t, "dispatch") /\ UNCHANGED <<req, lock, queue, cancelVars, driverIoCount>>
  BY <1>1, <1>2, QuietGo, QuietBody
<1>3. UNCHANGED <<queue, driverIoCount>> /\ cancelled \subseteq Requests /\ canceledOnQueue \subseteq Requests
  BY DEF ProcessCancelledRequests, ProcessCancelledRequestsOnQueue, TypeOK
<1>4. CASE ProcessCancelledRequests(t) /\ cancelled # {}
  <2>1. PICK r \in cancelled : /\ cancelled' = cancelled \ {r} /\ Window(t, "cancel", r)
                               /\ req' = [req EXCEPT ![r].drv = "told"]
    BY <1>4 DEF ProcessCancelledRequests
  <2>2. UNCHANGED <<cancelable, routineRunning, cancelCalls, canceledOnQueue>>
    BY <1>4 DEF ProcessCancelledRequests
  <2> QED BY <1>1, <1>3, <2>1, <2>2, ToldOwner
<1>5. CASE ProcessCancelledRequestsOnQueue(t) /\ canceledOnQueue # {}
  <2>1. PICK r \in canceledOnQueue : /\ canceledOnQueue' = canceledOnQueue \ {r}
                                     /\ Window(t, "onQueue", r)
                                     /\ req' = [req EXCEPT ![r].drv = "told"]
    BY <1>5 DEF ProcessCancelledRequestsOnQueue
  <2>2. UNCHANGED <<cancelable, routineRunning, cancelCalls, cancelled>>
    BY <1>5 DEF ProcessCancelledRequestsOnQueue
  <2> QED BY <1>1, <1>3, <2>1, <2>2, ToldOwner
<1>6. CASE ProcessCancelledRequests(t) /\ cancelled = {}
  BY <1>2, <1>6 DEF ProcessCancelledRequests, cancelVars
<1>7. CASE ProcessCancelledRequestsOnQueue(t) /\ canceledOnQueue = {}
  BY <1>2, <1>7 DEF ProcessCancelledRequestsOnQueue, cancelVars
<1> QED BY <1>4, <1>5, <1>6, <1>7

(* A request is presented to the driver: it was in m_Queue or in the hand   *)
(* of the thread, and is in neither any more.                               *)
LEMMA PresentedOK ==
  ASSUME TypeOK, FrameOK, NEW t \in Threads, NEW r \in Requests, Loose(r),
         driverIoCount' = driverIoCount + 1,
         req' \in [Requests -> Request],
         req'[r] = [req[r] EXCEPT !.list = "owned", !.drv = "held", !.presented = TRUE],
         Unpathed(r), r \notin canceledOnQueue, UNCHANGED cancelVars,
         r \notin Elements(queue'), Unhanded(r)'
  PROVE  RequestOK(r)' /\ driverIoCount' - Weight(r)' = driverIoCount - Weight(r)
<1>1. /\ req'[r].irp = "sent" /\ req'[r].list = "owned" /\ req'[r].drv = "held"
      /\ req'[r].ack # "requeue"
  BY DEF TypeOK, Request, Loose
<1>2. DriverOK(r)' /\ Listed(r)' /\ ~Listed(r)
  BY <1>1 DEF DriverOK, Listed, Loose
<1>3. Nowhere(r)'
  BY DEF Nowhere, Queued, Unpathed, cancelVars
<1>4. RequestOK(r)'
  BY <1>1, <1>2, <1>3, NowhereOK
<1>5. Weight(r)' = 1 /\ Weight(r) = 0 /\ driverIoCount \in Int
  BY <1>2 DEF Weight, TypeOK
<1> QED BY <1>4, <1>5

(* What presenting a request changes.                                       *)
LEMMA PresentFields ==
  ASSUME TypeOK, NEW t \in Threads, NEW r \in Requests, Present(t, r)
  PROVE  /\ req' \in [Requests -> Request]
         /\ req'[r] = [req[r] EXCEPT !.list = "owned", !.drv = "held", !.presented = TRUE]
         /\ \A s \in Requests \ {r} : req'[s] = req[s]
         /\ driverIoCount' = driverIoCount + 1
<1>1. ReqOK
  BY DEF TypeOK, ReqOK
<1>2. ReqOK'
  BY <1>1, PresentReqType
<1> QED BY <1>1, <1>2 DEF Present, ReqOK

(* The thread presents the request that it has in hand,                     *)
LEMMA HandPresented ==
  ASSUME TypeOK, FrameOK, LockInv, BodyInv, NEW t \in Threads, lock = t,
         NEW r \in Requests, Hand(frame[t]) = r, Returning(frame[t]) = NoRequest,
         Cancelling(frame[t]) = NoRequest, Present(t, r), UNCHANGED <<queue, cancelVars>>
  PROVE  LockInv' /\ BodyInv'
<1>1. NoRequest \notin Requests
  BY ThreadAssumption
<1>2. /\ Loose(r) /\ ~ Queued(r) /\ Unpathed(r) /\ r \notin canceledOnQueue
      /\ \A u \in Threads : /\ Hand(frame[u]) = r => u = t
                            /\ Returning(frame[u]) # r /\ Cancelling(frame[u]) # r
  BY BodyFacts, HandFacts
<1>3. Window(t, "io", r)
  BY DEF Present
<1>4. LockInv'
  BY <1>3, LockWindow
<1>5. Idles(frame'[t]) /\ OthersKeep(t)
  BY <1>3, WindowHands, MovesOthers DEF Idles
<1>6. Unhanded(r)'
  BY <1>1, <1>2, <1>5, UnhandedStays DEF Idles
<1>7. /\ req' \in [Requests -> Request]
      /\ req'[r] = [req[r] EXCEPT !.list = "owned", !.drv = "held", !.presented = TRUE]
      /\ \A s \in Requests \ {r} : req'[s] = req[s]
      /\ driverIoCount' = driverIoCount + 1
  BY PresentFields
<1>8. RequestOK(r)' /\ driverIoCount' - Weight(r)' = driverIoCount - Weight(r)
  BY <1>2, <1>6, <1>7, PresentedOK DEF Queued
<1>9. OnlyAbout(r)
  <2> SUFFICES ASSUME NEW s \in Requests \ {r}
               PROVE  req'[s] = req[s] /\ KeepsPlaces(s) /\ KeepsHands(s)
    BY DEF OnlyAbout
  <2>1. KeepsHands(s)
    BY <1>1, <1>5, HandsAside DEF Idles
  <2> QED BY <1>7, <2>1 DEF KeepsPlaces, Queued, cancelVars
<1>10. QueueInv'
  BY BodyFacts DEF QueueInv
<1> QED BY <1>4, <1>7, <1>8, <1>9, <1>10, AboutBody DEF TypeOK

LEMMA PresentOwner ==
  ASSUME TypeOK, FrameOK, LockInv, BodyInv, NEW t \in Threads,
         PresentNew(t) \/ PresentTaken(t)
  PROVE  LockInv' /\ BodyInv'
<1>1. CASE PresentNew(t)
  <2>1. /\ lock = t /\ Plain(frame[t]) /\ Present(t, frame[t].new)
        /\ UNCHANGED <<queue, cancelVars>>
    BY <1>1 DEF PresentNew, Plain
  <2>2. frame[t].new \in Requests
    <3>1. Turn(t) = "new"
      BY <1>1 DEF PresentNew
    <3>2. frame[t].new # NoRequest
      BY <3>1 DEF Turn
    <3> QED BY <3>2, FrameFields
  <2> QED BY <2>1, <2>2, PlainHands, HandPresented
<1>2. CASE PresentTaken(t)
  <2>1. /\ lock = t /\ frame[t].pc = "present" /\ Present(t, frame[t].cur)
        /\ UNCHANGED <<queue, cancelVars>>
    BY <1>2 DEF PresentTaken
  <2>2. frame[t].new = NoRequest /\ frame[t].why = "none" /\ frame[t].cur \in Requests
    BY <2>1, LockFacts DEF FrameOK, SoundFrame, Takes
  <2>3. /\ Hand(frame[t]) = frame[t].cur /\ Returning(frame[t]) = NoRequest
        /\ Cancelling(frame[t]) = NoRequest
    BY <2>1, <2>2 DEF Hand, Returning, Cancelling
  <2> QED BY <2>1, <2>2, <2>3, HandPresented
<1> QED BY <1>1, <1>2

(* or the oldest of m_Queue; its own new request takes the tail, or is      *)
(* refused while the thread keeps the other one in hand.                    *)
LEMMA PresentNextOwner ==
  ASSUME TypeOK, FrameOK, LockInv, BodyInv, NEW t \in Threads, PresentNext(t)
  PROVE  LockInv' /\ BodyInv'
<1>1. /\ lock = t /\ Plain(frame[t]) /\ SomeLive /\ UNCHANGED cancelVars
      /\ NoRequest \notin Requests /\ frame[t].new \in Requests \cup {NoRequest}
  <2>1. Turn(t) = "next"
    BY DEF PresentNext
  <2>2. SomeLive
    BY <2>1 DEF Turn
  <2> QED BY <2>2, FrameFields, ThreadAssumption DEF PresentNext, Plain
<1>2. PICK r \in Requests : r = FirstLive
  BY <1>1, FirstLiveIsQueued DEF TypeOK
<1>3. PICK n \in Requests \cup {NoRequest} : n = frame[t].new
  BY <1>1
<1>4. PICK rest \in Seq(Requests) : rest = Without(queue, r)
  BY <1>1, <1>2, FirstLiveIsQueued, WithoutType DEF TypeOK
<1>5. Queued(r) /\ r \notin routineRunning /\ RequestOK(r)
  BY <1>1, <1>2, FirstLiveIsQueued, BodyFacts DEF TypeOK, Queued
<1>6. /\ Loose(r) /\ Unhanded(r) /\ Unpathed(r) /\ r \notin canceledOnQueue
  BY <1>5, QueuedFacts DEF Unpathed
<1>7. Elements(rest) = Elements(queue) \ {r} /\ Distinct(rest)
  BY <1>4, <1>5, BodyFacts, WithoutLists DEF TypeOK, Queued
<1>8. Hand(frame[t]) = n /\ Returning(frame[t]) = NoRequest /\ Cancelling(frame[t]) = NoRequest
  BY <1>1, <1>3, PlainHands
<1>9. ASSUME n \in Requests
      PROVE  /\ n # r /\ RequestOK(n) /\ Loose(n) /\ ~ Queued(n) /\ Unpathed(n)
             /\ n \notin canceledOnQueue
             /\ \A u \in Threads : /\ Hand(frame[u]) = n => u = t
                                   /\ Returning(frame[u]) # n /\ Cancelling(frame[u]) # n
  BY <1>5, <1>8, <1>9, BodyFacts, HandFacts
<1>10. ASSUME NEW s \in Requests \ {r, n}, Idles(frame'[t]) \/ Hand(frame'[t]) = r,
              Returning(frame'[t]) = NoRequest, Cancelling(frame'[t]) = NoRequest,
              OthersKeep(t), req'[s] = req[s], Queued(s)' <=> Queued(s)
       PROVE  RequestOK(s)' /\ (Listed(s)' <=> Listed(s))
  <2>1. KeepsHands(s)
    BY <1>1, <1>2, <1>8, <1>10, HandsAside DEF Idles
  <2>2. KeepsPlaces(s)
    BY <1>1, <1>10 DEF KeepsPlaces, cancelVars
  <2> QED BY <1>10, <2>1, <2>2, AboutOthers
<1>11. CASE n # NoRequest /\ req[n].cancel
  <2>1. /\ queue' = rest /\ req' = [req EXCEPT ![n].irp = "done"]
        /\ Window(t, "insertFailedPresent", r) /\ UNCHANGED driverIoCount
    BY <1>2, <1>3, <1>4, <1>11 DEF PresentNext
  <2>2. LockInv'
    BY <1>1, <2>1, LockWindow
  <2>3. /\ Hand(frame'[t]) = r /\ Returning(frame'[t]) = NoRequest
        /\ Cancelling(frame'[t]) = NoRequest /\ OthersKeep(t)
    BY <2>1, WindowHands, MovesOthers
  <2>4. n \in Requests /\ n # r
    BY <1>9, <1>11
  <2>5. RequestOK(n)' /\ (Listed(n)' <=> Listed(n))
    <3>1. Unhanded(n)'
      BY <1>1, <1>9, <2>3, <2>4, UnhandedStays
    <3>2. /\ req'[n].irp = "done" /\ req'[n].list = req[n].list
          /\ req'[n].drv = req[n].drv /\ req'[n].ack = req[n].ack
      BY <2>1, <2>4 DEF TypeOK, Request
    <3>3. Nowhere(n)'
      BY <1>1, <1>7, <1>9, <2>1, <2>4, <3>1 DEF Nowhere, Unpathed, Queued, cancelVars
    <3>4. DriverOK(n)'
      BY <1>9, <2>4, <3>2 DEF DriverOK, Loose
    <3>5. req'[n].drv # "cancelable" /\ (Listed(n)' <=> Listed(n))
      BY <1>9, <2>4, <3>2 DEF Loose, Listed
    <3> QED BY <2>4, <3>2, <3>3, <3>4, <3>5, NowhereOK
  <2>6. RequestOK(r)' /\ (Listed(r)' <=> Listed(r))
    <3>1. req'[r] = req[r]
      BY <2>1, <2>4 DEF TypeOK
    <3>2. ~ Queued(r)' /\ Loose(r)' /\ Unpathed(r)' /\ r \notin canceledOnQueue'
      BY <1>1, <1>6, <1>7, <2>1, <3>1 DEF Queued, Loose, Unpathed, cancelVars
    <3>3. \A u \in Threads : /\ Hand(frame'[u]) = r <=> u = t
                             /\ Returning(frame'[u]) # r /\ Cancelling(frame'[u]) # r
      BY <1>1, <1>6, <2>3 DEF Unhanded, OthersKeep, SameFrame
    <3>4. PlaceOK(r)'
      BY <3>2, <3>3 DEF PlaceOK
    <3>5. DriverOK(r)' /\ ReturnOK(r)'
      BY <3>2, <3>3 DEF DriverOK, ReturnOK, Loose
    <3>6. PathOK(r)'
      BY <3>2, <3>3 DEF PathOK, Unpathed, Loose
    <3> QED BY <3>1, <3>4, <3>5, <3>6 DEF RequestOK, Listed
  <2>7. ASSUME NEW s \in Requests \ {r, n}
        PROVE  RequestOK(s)' /\ (Listed(s)' <=> Listed(s))
    <3>1. req'[s] = req[s] /\ (Queued(s)' <=> Queued(s))
      BY <1>7, <2>1 DEF TypeOK, Queued
    <3> QED BY <1>10, <2>3, <3>1
  <2>8. \A s \in Requests : RequestOK(s)' /\ (Listed(s)' <=> Listed(s))
    BY <2>5, <2>6, <2>7
  <2>9. Weight(r)' = Weight(r) /\ QueueInv'
    BY <1>7, <2>1, <2>8 DEF Weight, QueueInv
  <2>10. BodyInv'
    BY <2>1, <2>8, <2>9, TouchedBody DEF TypeOK
  <2> QED BY <2>2, <2>10
<1>12. CASE n = NoRequest \/ ~req[n].cancel
  <2>1. /\ queue' = IF n = NoRequest THEN rest ELSE Append(rest, n)
        /\ Present(t, r)
    BY <1>2, <1>3, <1>4, <1>12 DEF PresentNext
  <2>2. Window(t, "io", r)
    BY <2>1 DEF Present
  <2>3. LockInv'
    BY <1>1, <2>2, LockWindow
  <2>4. Idles(frame'[t]) /\ OthersKeep(t)
    BY <2>2, WindowHands, MovesOthers DEF Idles
  <2>5. /\ Elements(queue') = (Elements(queue) \ {r}) \cup ({n} \cap Requests)
        /\ Distinct(queue')
    <3>1. CASE n = NoRequest
      BY <1>1, <1>7, <2>1, <3>1
    <3>2. CASE n # NoRequest
      BY <1>7, <1>9, <2>1, <3>2, AppendLists DEF Queued
    <3> QED BY <3>1, <3>2
  <2>6. /\ req' \in [Requests -> Request]
        /\ req'[r] = [req[r] EXCEPT !.list = "owned", !.drv = "held", !.presented = TRUE]
        /\ \A s \in Requests \ {r} : req'[s] = req[s]
        /\ driverIoCount' = driverIoCount + 1
    BY <2>1, PresentFields
  <2>7. Unhanded(r)' /\ r \notin Elements(queue')
    BY <1>1, <1>6, <1>9, <2>4, <2>5, UnhandedStays DEF Unhanded, Idles
  <2>8. RequestOK(r)' /\ driverIoCount' - Weight(r)' = driverIoCount - Weight(r)
    BY <1>1, <1>6, <2>6, <2>7, PresentedOK
  <2>9. ASSUME n \in Requests
        PROVE  RequestOK(n)' /\ (Listed(n)' <=> Listed(n))
    <3>1. Unhanded(n)'
      BY <1>1, <1>9, <2>4, <2>9, UnhandedStays DEF Idles
    <3>2. req'[n] = req[n]
      BY <1>9, <2>6, <2>9
    <3>3. Queued(n)' /\ Loose(n)'
      BY <1>9, <2>5, <2>9, <3>2 DEF Queued, Loose
    <3> QED BY <1>1, <1>9, <2>9, <3>1, <3>2, <3>3, QueuedOK DEF Unpathed, cancelVars, Listed
  <2>10. ASSUME NEW s \in Requests \ {r, n}
         PROVE  RequestOK(s)' /\ (Listed(s)' <=> Listed(s))
    <3>1. req'[s] = req[s] /\ (Queued(s)' <=> Queued(s))
      BY <2>5, <2>6 DEF Queued
    <3> QED BY <1>10, <2>4, <3>1 DEF Idles
  <2>11. /\ \A s \in Requests : RequestOK(s)'
         /\ \A s \in Requests \ {r} : Listed(s)' <=> Listed(s)
    BY <2>8, <2>9, <2>10
  <2>12. BodyInv'
    BY <2>5, <2>6, <2>8, <2>11, TouchedBody DEF TypeOK, QueueInv
  <2> QED BY <2>3, <2>12
<1> QED BY <1>11, <1>12

(* Moving a request between the lists of those that the driver has.         *)
LEMMA Relisted ==
  ASSUME TypeOK, BodyInv, FramesKeep, UNCHANGED <<queue, cancelVars, driverIoCount>>,
         \A r \in Requests :
           \/ req'[r] = req[r]
           \/ /\ req[r].list # "none" /\ req'[r].list # "none"
              /\ req'[r].irp = req[r].irp /\ req'[r].drv = req[r].drv
              /\ req'[r].ack = req[r].ack \/ (req'[r].ack # "requeue" /\ req[r].ack # "requeue")
              /\ req[r].ack = "requeue" => req'[r].list \in {"notified"} \cup Threads
  PROVE  BodyInv'
<1>1. ASSUME NEW r \in Requests
      PROVE  KeepsFields(r) /\ KeepsPlaces(r)
  <2>1. DriverOK(r)
    BY BodyFacts DEF RequestOK
  <2>2. KeepsFields(r)
    BY <2>1 DEF DriverOK, KeepsFields
  <2> QED BY <2>2 DEF KeepsPlaces, Queued, cancelVars
<1>2. QueueInv'
  BY BodyFacts DEF QueueInv
<1> QED BY <1>1, <1>2, UntouchedBody

LEMMA NotifyOwner ==
  ASSUME TypeOK, FrameOK, LockInv, BodyInv, NEW t \in Threads,
         BeginNotifying(t) \/ NotifyStop(t) \/ NotifyResume(t) \/ CollectAcknowledged(t)
  PROVE  LockInv' /\ BodyInv'
<1>1. \E k : AtTurn(t, k)
  BY DEF BeginNotifying, NotifyStop, NotifyResume, CollectAcknowledged
<1>2. lock = t /\ Plain(frame[t]) /\ frame[t].new = NoRequest
  BY <1>1, AtTurnHands
<1>3. UNCHANGED <<queue, cancelVars, driverIoCount, deleted>>
  BY DEF BeginNotifying, NotifyStop, NotifyResume, CollectAcknowledged, lifeVars
<1>4. FramesKeep /\ LockInv'
  <2>1. CASE BeginNotifying(t)
    BY <1>3, <2>1, QuietNothing DEF BeginNotifying
  <2>2. CASE NotifyStop(t)
    <3>1. (\E r : Window(t, "stop", r)) \/ UNCHANGED <<lock, frame>>
      BY <2>2 DEF NotifyStop
    <3> QED BY <1>2, <1>3, <3>1, QuietWindow, QuietNothing
  <2>3. CASE NotifyResume(t)
    <3>1. (\E r : Window(t, "resume", r)) \/ UNCHANGED <<lock, frame>>
      BY <2>3 DEF NotifyResume
    <3> QED BY <1>2, <1>3, <3>1, QuietWindow, QuietNothing
  <2>4. CASE CollectAcknowledged(t)
    BY <1>2, <2>4, QuietGo DEF CollectAcknowledged
  <2> QED BY <2>1, <2>2, <2>3, <2>4
<1>5. ASSUME NEW r \in Requests, req'[r] # req[r]
      PROVE  /\ req[r].list # "none" /\ req'[r].list # "none"
             /\ req'[r].irp = req[r].irp /\ req'[r].drv = req[r].drv
             /\ req'[r].ack = req[r].ack \/ (req'[r].ack # "requeue" /\ req[r].ack # "requeue")
             /\ req[r].ack = "requeue" => req'[r].list \in {"notified"} \cup Threads
  <2>1. DriverOK(r) /\ {"none", "notify", "owned", "notified"} \cap Threads = {}
    BY BodyFacts, ThreadAssumption DEF RequestOK
  <2>2. req[r].list \in {"owned", "notify"} => req[r].ack # "requeue"
    BY <2>1 DEF DriverOK
  <2>3. req[r] \in Request
    BY DEF TypeOK
  <2>4. CASE BeginNotifying(t)
    <3>1. req[r].list = "owned" /\ req'[r] = [req[r] EXCEPT !.list = "notify"]
      BY <1>5, <2>4 DEF BeginNotifying, Relist, On
    <3> QED BY <2>2, <2>3, <3>1 DEF Request
  <2>5. CASE NotifyStop(t)
    <3>1. /\ req[r].list = "notify"
          /\ \E a \in {"none", req[r].ack} :
               req'[r] = [req[r] EXCEPT !.list = "notified", !.ack = a]
      BY <1>5, <2>5 DEF NotifyStop, On, TypeOK
    <3> QED BY <2>2, <2>3, <3>1 DEF Request
  <2>6. CASE NotifyResume(t)
    <3>1. req[r].list = "notify" /\ req'[r] = [req[r] EXCEPT !.list = "owned"]
      BY <1>5, <2>6 DEF NotifyResume, On, TypeOK
    <3> QED BY <2>2, <2>3, <3>1 DEF Request
  <2>7. CASE CollectAcknowledged(t)
    <3>1. req[r].list = "notified" /\ req'[r] = [req[r] EXCEPT !.list = t]
      BY <1>5, <2>7 DEF CollectAcknowledged, Relist, On
    <3> QED BY <2>1, <2>3, <3>1 DEF Request
  <2> QED BY <2>4, <2>5, <2>6, <2>7
<1> QED BY <1>3, <1>4, <1>5, Relisted

(* What the driver acknowledged comes back to its list, and a thread takes  *)
(* what the driver gives back.                                              *)
LEMMA AcknowledgedOwner ==
  ASSUME TypeOK, FrameOK, LockInv, BodyInv, NEW t \in Threads, ProcessAcknowledgedRequest(t)
  PROVE  LockInv' /\ BodyInv'
<1>1. /\ lock = t /\ Plain(frame[t]) /\ frame[t].new = NoRequest
      /\ UNCHANGED <<queue, cancelVars, driverIoCount, deleted>>
  BY LockFacts DEF ProcessAcknowledgedRequest, Plain, lifeVars
<1>2. CASE On(t) = {}
  BY <1>1, <1>2, QuietGo, QuietBody DEF ProcessAcknowledgedRequest
<1>3. CASE On(t) # {}
  <2>1. PICK r \in On(t) :
          /\ req' = [req EXCEPT ![r] = [@ EXCEPT !.list = "owned", !.ack = "none"]]
          /\ Window(t, IF req[r].ack = "requeue" THEN "requeued" ELSE "acked", r)
    BY <1>3 DEF ProcessAcknowledgedRequest
  <2>2. r \in Requests /\ req[r].list = t
    BY <2>1 DEF On
  <2>3. /\ req'[r].list = "owned" /\ req'[r].ack = "none"
        /\ req'[r].irp = req[r].irp /\ req'[r].drv = req[r].drv
        /\ \A s \in Requests \ {r} : req'[s] = req[s]
    BY <2>1, <2>2 DEF TypeOK, Request
  <2>4. req[r].list # "none"
    BY <2>2, ThreadAssumption
  <2>5. CASE req[r].ack # "requeue"
    <3>1. FramesKeep /\ LockInv'
      BY <1>1, <2>1, <2>5, QuietWindow
    <3> QED BY <1>1, <2>3, <2>4, <2>5, <3>1, Relisted
  <2>6. CASE req[r].ack = "requeue"
    <3>1. Window(t, "requeued", r)
      BY <2>1, <2>6
    <3>2. LockInv'
      BY <1>1, <3>1, LockWindow
    <3>3. /\ Hand(frame'[t]) = NoRequest /\ Returning(frame'[t]) = r
          /\ Cancelling(frame'[t]) = NoRequest /\ OthersKeep(t) /\ NoRequest \notin Requests
      BY <3>1, WindowHands, MovesOthers, ThreadAssumption
    <3>4. RequestOK(r) /\ req[r].irp = "sent" /\ req[r].drv = "fx" /\ ~Neither(r)
      BY <2>2, <2>6, BodyFacts DEF RequestOK, DriverOK, Neither
    <3>5. /\ ~ Queued(r) /\ Unpathed(r) /\ Unhanded(r) /\ r \notin canceledOnQueue
      BY <2>4, <2>6, <3>4 DEF RequestOK, PlaceOK, Loose, ReturnOK, PathOK, Unpathed, Unhanded
    <3>6. \A u \in Threads : /\ Hand(frame'[u]) # r /\ Cancelling(frame'[u]) # r
                             /\ Returning(frame'[u]) = r => u = t
      BY <2>2, <3>3, <3>5 DEF Unhanded, OthersKeep, SameFrame
    <3>7. ~ Queued(r)' /\ Unpathed(r)' /\ r \notin canceledOnQueue' /\ Neither(r)' /\ Listed(r)'
      BY <1>1, <2>3, <3>4, <3>5 DEF Queued, Unpathed, Neither, Listed, cancelVars
    <3>8. PlaceOK(r)' /\ DriverOK(r)'
      BY <2>3, <3>4, <3>6, <3>7 DEF PlaceOK, DriverOK
    <3>9. ReturnOK(r)' /\ PathOK(r)'
      BY <2>3, <3>4, <3>6, <3>7 DEF ReturnOK, PathOK, Unpathed
    <3>10. OnlyAbout(r)
      <4> SUFFICES ASSUME NEW s \in Requests \ {r}
                   PROVE  req'[s] = req[s] /\ KeepsPlaces(s) /\ KeepsHands(s)
        BY DEF OnlyAbout
      <4>1. KeepsHands(s)
        BY <1>1, <3>3, PlainHands, HandsAside
      <4> QED BY <1>1, <2>3, <4>1 DEF KeepsPlaces, Queued, cancelVars
    <3>11. Weight(r)' = Weight(r) /\ QueueInv'
      BY <1>1, <2>3, <2>4, BodyFacts DEF Weight, Listed, QueueInv
    <3> QED BY <1>1, <2>2, <3>2, <3>8, <3>9, <3>10, <3>11, AboutBody DEF RequestOK, TypeOK
  <2> QED BY <2>5, <2>6
<1> QED BY <1>2, <1>3

(* A request for EvtIoCanceledOnQueue is only on that list.                 *)
LEMMA OnQueueOK ==
  ASSUME NEW r \in Requests, ~ Queued(r)', Unhanded(r)', Unpathed(r)', Neither(r)',
         req'[r].irp = "sent"
  PROVE  RequestOK(r)'
BY DEF RequestOK, PlaceOK, DriverOK, ReturnOK, PathOK, Unhanded, Unpathed, Neither, Listed

LEMMA RequeueOwner ==
  ASSUME TypeOK, FrameOK, LockInv, BodyInv, NEW t \in Threads, RequeueAcknowledged(t)
  PROVE  LockInv' /\ BodyInv'
<1>1. /\ lock = t /\ frame[t].pc = "requeueAcked" /\ frame[t].new = NoRequest
      /\ frame[t].why = "none" /\ frame[t].cur \in Requests /\ NoRequest \notin Requests
  BY LockFacts, ThreadAssumption DEF RequeueAcknowledged, FrameOK, SoundFrame, Takes
<1>2. UNCHANGED <<cancelable, routineRunning, cancelCalls, cancelled, deleted>>
  BY DEF RequeueAcknowledged, lifeVars
<1>3. PICK r \in Requests : r = frame[t].cur
  BY <1>1
<1>4. /\ Hand(frame[t]) = NoRequest /\ Returning(frame[t]) = r
      /\ Cancelling(frame[t]) = NoRequest
  BY <1>1, <1>3 DEF Hand, Returning, Cancelling
<1>5. RequestOK(r) /\ Neither(r) /\ r \notin canceledOnQueue
      /\ \A u \in Threads : Returning(frame[u]) = r => u = t
  BY <1>4, BodyFacts DEF RequestOK, ReturnOK
<1>6. /\ req[r].irp = "sent" /\ ~ Queued(r) /\ Unpathed(r)
      /\ \A u \in Threads : Hand(frame[u]) # r /\ Cancelling(frame[u]) # r
  BY <1>5, NeitherFacts
<1>7. ASSUME Idles(frame'[t]), OthersKeep(t)
      PROVE  Unhanded(r)' /\ \A s \in Requests \ {r} : KeepsHands(s)
  <2>1. Unhanded(r)'
    BY <1>1, <1>5, <1>6, <1>7, UnhandedStays DEF Idles
  <2>2. \A s \in Requests \ {r} : KeepsHands(s)
    BY <1>1, <1>4, <1>7, HandsAside DEF Idles
  <2> QED BY <2>1, <2>2
<1>8. req[r] \in Request /\ driverIoCount \in Int /\ Weight(r) = 1
  BY <1>5 DEF TypeOK, Weight, Listed, Neither
<1>9. CASE Requeueable(r)
  <2>1. /\ req' = [req EXCEPT ![r].list = "none"] /\ driverIoCount' = driverIoCount - 1
        /\ queue' = <<r>> \o queue /\ Go(t, "ackLoop") /\ UNCHANGED <<canceledOnQueue, lock>>
    BY <1>3, <1>9 DEF RequeueAcknowledged
  <2>2. Moves(t) /\ Idles(frame'[t]) /\ LockInv'
    <3>1. Moves(t) /\ Idles(frame'[t])
      BY <1>1, <2>1, GoHands DEF Idles
    <3>2. LockInv'
      BY <1>1, <2>1, LockGoes
    <3> QED BY <3>1, <3>2
  <2>3. Elements(queue') = Elements(queue) \cup {r} /\ QueueInv'
    BY <1>6, <2>1, BodyFacts, PrependLists DEF TypeOK, QueueInv, Queued
  <2>4. /\ req'[r].list = "none" /\ req'[r].irp = "sent" /\ req'[r].drv = "fx"
        /\ req'[r].ack # "requeue" /\ \A s \in Requests \ {r} : req'[s] = req[s]
    BY <1>5, <1>6, <1>8, <2>1 DEF TypeOK, Request, Neither
  <2>5. Unhanded(r)' /\ \A s \in Requests \ {r} : KeepsHands(s)
    BY <1>7, <2>2, MovesOthers
  <2>6. RequestOK(r)'
    <3>1. Queued(r)' /\ Loose(r)'
      BY <2>3, <2>4 DEF Queued, Loose
    <3> QED BY <1>2, <1>5, <1>6, <2>1, <2>5, <3>1, QueuedOK DEF Unpathed
  <2>7. OnlyAbout(r)
    BY <1>2, <2>1, <2>3, <2>4, <2>5 DEF OnlyAbout, KeepsPlaces, Queued
  <2>8. Weight(r)' = 0
    BY <2>4 DEF Weight, Listed
  <2> QED BY <1>8, <2>1, <2>2, <2>3, <2>6, <2>7, <2>8, AboutBody
<1>10. CASE ~Requeueable(r)
  <2>1. Window(t, "requeueFailed", NoRequest) /\ UNCHANGED queue
    BY <1>10, <1>3 DEF RequeueAcknowledged
  <2>2. LockInv'
    BY <1>1, <2>1, LockWindow
  <2>3. Unhanded(r)' /\ \A s \in Requests \ {r} : KeepsHands(s)
    BY <1>7, <2>1, WindowHands, MovesOthers DEF Idles
  <2>4. QueueInv' /\ ~ Queued(r)' /\ Unpathed(r)'
    BY <1>2, <1>6, <2>1, BodyFacts DEF QueueInv, Queued, Unpathed
  <2>5. CASE GoesToDriver(r)
    <3>1. /\ req' = [req EXCEPT ![r].canceled = TRUE] /\ UNCHANGED driverIoCount
          /\ canceledOnQueue' = canceledOnQueue \cup {r}
      BY <1>3, <1>10, <2>5 DEF RequeueAcknowledged
    <3>2. /\ req'[r].list = req[r].list /\ req'[r].irp = req[r].irp /\ req'[r].drv = req[r].drv
          /\ req'[r].ack = req[r].ack /\ \A s \in Requests \ {r} : req'[s] = req[s]
      BY <1>8, <3>1 DEF TypeOK, Request
    <3>3. RequestOK(r)'
      BY <1>5, <1>6, <2>3, <2>4, <3>2, OnQueueOK DEF Neither
    <3>4. OnlyAbout(r) /\ Weight(r)' = 1
      BY <1>2, <1>5, <2>1, <2>3, <3>1, <3>2 DEF OnlyAbout, KeepsPlaces, Queued, Weight, Listed, Neither
    <3> QED BY <1>8, <2>2, <2>4, <3>1, <3>3, <3>4, AboutBody
  <2>6. CASE ~GoesToDriver(r)
    <3>1. /\ req' = [req EXCEPT ![r] = [@ EXCEPT !.canceled = TRUE, !.irp = "done", !.list = "none"]]
          /\ driverIoCount' = driverIoCount - 1 /\ UNCHANGED canceledOnQueue
      BY <1>3, <1>10, <2>6 DEF RequeueAcknowledged
    <3>2. /\ req'[r].list = "none" /\ req'[r].irp = "done" /\ req'[r].drv = "fx"
          /\ req'[r].ack # "requeue" /\ \A s \in Requests \ {r} : req'[s] = req[s]
      BY <1>5, <1>8, <3>1 DEF TypeOK, Request, Neither
    <3>3. RequestOK(r)'
      <4>1. DriverOK(r)' /\ Nowhere(r)'
        BY <1>5, <2>3, <2>4, <3>1, <3>2 DEF DriverOK, Nowhere
      <4> QED BY <3>2, <4>1, NowhereOK
    <3>4. OnlyAbout(r) /\ Weight(r)' = 0
      BY <1>2, <2>1, <2>3, <3>1, <3>2 DEF OnlyAbout, KeepsPlaces, Queued, Weight, Listed
    <3> QED BY <1>8, <2>2, <2>4, <3>1, <3>3, <3>4, AboutBody
  <2> QED BY <2>5, <2>6
<1> QED BY <1>9, <1>10

-----------------------------------------------------------------------------
(* The steps outside the loop.                                              *)

(* CancelForQueue is for a request that m_Queue does not have any more, or  *)
(* does not get back from the driver: n is m_DriverIoCount without it.      *)
LEMMA CancelForQueueOwner ==
  ASSUME TypeOK, FrameOK, LockInv, BodyInv, NEW t \in Threads, Free,
         frame[t].pc \in FreePoints \ {"cancelDriver"}, NEW pc \in FreePoints \ {"cancelDriver"},
         NEW r \in Requests, NEW n, n = driverIoCount - Weight(r),
         CancelForQueue(t, r, n, pc), UNCHANGED <<cancelable, cancelCalls, cancelled, deleted>>,
         req[r].irp = "sent", req[r].ack # "requeue", Unhanded(r), r \notin canceledOnQueue,
         ~ Queued(r)', Unpathed(r)', QueueInv',
         \A s \in Requests \ {r} : /\ Queued(s)' <=> Queued(s)
                                   /\ s \in routineRunning' <=> s \in routineRunning
  PROVE  LockInv' /\ BodyInv'
<1>1. FramesKeep /\ LockInv'
  BY QuietCancel
<1>2. Unhanded(r)'
  BY <1>1 DEF Unhanded, FramesKeep, SameFrame
<1>3. req[r] \in Request /\ driverIoCount \in Int /\ Weight(r) \in {0, 1}
  BY DEF TypeOK, Weight
<1>4. OnlyAbout(r)
  <2> SUFFICES ASSUME NEW s \in Requests \ {r}
               PROVE  req'[s] = req[s] /\ KeepsPlaces(s) /\ KeepsHands(s)
    BY DEF OnlyAbout
  <2>1. req'[s] = req[s] /\ (s \in canceledOnQueue' <=> s \in canceledOnQueue)
    BY DEF CancelForQueue, TypeOK
  <2>2. KeepsHands(s)
    BY <1>1 DEF KeepsHands, FramesKeep, SameFrame
  <2> QED BY <2>1, <2>2 DEF KeepsPlaces
<1>5. CASE GoesToDriver(r)
  <2>1. /\ req' = [req EXCEPT ![r] = [@ EXCEPT !.canceled = TRUE, !.list = "owned", !.drv = "fx"]]
        /\ driverIoCount' = n + 1
    BY <1>5 DEF CancelForQueue
  <2>2. /\ req'[r].list = "owned" /\ req'[r].irp = "sent" /\ req'[r].drv = "fx"
        /\ req'[r].ack # "requeue"
    BY <1>3, <2>1 DEF TypeOK, Request
  <2>3. RequestOK(r)' /\ Weight(r)' = 1
    BY <1>2, <2>2, OnQueueOK DEF Neither, Weight, Listed
  <2> QED BY <1>1, <1>3, <1>4, <2>1, <2>3, AboutBody
<1>6. CASE ~GoesToDriver(r)
  <2>1. /\ req' = [req EXCEPT ![r] = [@ EXCEPT !.canceled = TRUE, !.irp = "done",
                                      !.list = "none", !.drv = "fx"]]
        /\ driverIoCount' = n /\ UNCHANGED canceledOnQueue
    BY <1>6 DEF CancelForQueue
  <2>2. /\ req'[r].list = "none" /\ req'[r].irp = "done" /\ req'[r].drv = "fx"
        /\ req'[r].ack # "requeue"
    BY <1>3, <2>1 DEF TypeOK, Request
  <2>3. RequestOK(r)' /\ Weight(r)' = 0
    <3>1. DriverOK(r)' /\ Nowhere(r)'
      BY <1>2, <2>1, <2>2 DEF DriverOK, Nowhere
    <3> QED BY <2>2, <3>1, NowhereOK DEF Weight, Listed
  <2> QED BY <1>1, <1>3, <1>4, <2>1, <2>3, AboutBody
<1> QED BY <1>5, <1>6

(* One that leaves m_Queue because it is cancelled.                         *)
LEMMA QueueCancelOwner ==
  ASSUME TypeOK, FrameOK, LockInv, BodyInv, NEW t \in Threads, Free,
         frame[t].pc \in FreePoints \ {"cancelDriver"}, NEW pc \in FreePoints \ {"cancelDriver"},
         NEW r \in Requests, Queued(r), queue' = Without(queue, r),
         r \notin routineRunning',
         \A s \in Requests \ {r} : s \in routineRunning' <=> s \in routineRunning,
         CancelForQueue(t, r, driverIoCount, pc),
         UNCHANGED <<cancelable, cancelCalls, cancelled, deleted>>
  PROVE  LockInv' /\ BodyInv'
<1>1. /\ Loose(r) /\ Unhanded(r) /\ r \notin canceledOnQueue
      /\ r \notin cancelable \cup cancelCalls \cup cancelled
  BY BodyFacts, QueuedFacts
<1>2. Elements(queue') = Elements(queue) \ {r} /\ QueueInv'
  BY BodyFacts, WithoutLists DEF TypeOK, Queued, QueueInv
<1>3. driverIoCount = driverIoCount - Weight(r)
  BY <1>1 DEF TypeOK, Weight, Listed, Loose
<1>4. ~ Queued(r)' /\ Unpathed(r)' /\ \A s \in Requests \ {r} : Queued(s)' <=> Queued(s)
  BY <1>1, <1>2 DEF Queued, Unpathed
<1> QED BY <1>1, <1>2, <1>3, <1>4, CancelForQueueOwner DEF Loose

LEMMA DrainQueueOwner ==
  ASSUME TypeOK, FrameOK, LockInv, BodyInv, NEW t \in Threads, DrainQueue(t)
  PROVE  LockInv' /\ BodyInv'
<1>1. /\ frame[t].pc = "drainQueue" /\ Free
      /\ UNCHANGED <<cancelable, routineRunning, cancelCalls, cancelled, deleted>>
  BY DEF DrainQueue, lifeVars
<1>2. {"drainQueue", "drainDriver"} \subseteq FreePoints \ {"cancelDriver"}
  BY DEF FreePoints
<1> DEFINE stops == ~SomeLive \/ (frame[t].op = "stop" /\ ~req[FirstLive].canceled
                                                        /\ ~req[FirstLive].cancel)
<1>3. CASE stops
  <2>1. /\ Go(t, "drainDriver") /\ UNCHANGED <<req, driverIoCount, canceledOnQueue, lock>>
        /\ queue' = IF SomeLive THEN <<FirstLive>> \o Without(queue, FirstLive) ELSE queue
    BY <1>3 DEF DrainQueue
  <2>2. FramesKeep /\ LockInv'
    BY <1>1, <1>2, <2>1, GoAside
  <2>3. Elements(queue') = Elements(queue) /\ QueueInv'
    <3>1. CASE ~SomeLive
      BY <2>1, <3>1, BodyFacts DEF QueueInv
    <3>2. CASE SomeLive
      <4>1. FirstLive \in Elements(queue) /\ FirstLive \in Requests
        BY <3>2, FirstLiveIsQueued DEF TypeOK
      <4>2. /\ Elements(Without(queue, FirstLive)) = Elements(queue) \ {FirstLive}
            /\ Distinct(Without(queue, FirstLive))
            /\ Without(queue, FirstLive) \in Seq(Requests)
        BY <4>1, BodyFacts, WithoutLists DEF TypeOK
      <4>3. PICK rest \in Seq(Requests) : rest = Without(queue, FirstLive)
        BY <4>2
      <4>4. /\ Elements(<<FirstLive>> \o rest) = Elements(rest) \cup {FirstLive}
            /\ Distinct(<<FirstLive>> \o rest)
        BY <4>1, <4>2, <4>3, PrependLists
      <4> QED BY <2>1, <3>2, <4>1, <4>2, <4>3, <4>4 DEF QueueInv
    <3> QED BY <3>1, <3>2
  <2>4. \A r \in Requests : KeepsFields(r) /\ KeepsPlaces(r)
    BY <1>1, <2>1, <2>3, BodyFacts DEF RequestOK, DriverOK, KeepsFields, KeepsPlaces, Queued
  <2> QED BY <2>1, <2>2, <2>3, <2>4, UntouchedBody
<1>4. CASE ~stops
  <2>1. /\ SomeLive /\ queue' = Without(queue, FirstLive)
        /\ CancelForQueue(t, FirstLive, driverIoCount, "drainQueue")
    BY <1>4 DEF DrainQueue
  <2>2. FirstLive \in Requests /\ Queued(FirstLive) /\ FirstLive \notin routineRunning
    BY <2>1, FirstLiveIsQueued DEF TypeOK, Queued
  <2> QED BY <1>1, <1>2, <2>1, <2>2, QueueCancelOwner
<1> QED BY <1>3, <1>4

(* What the driver marked cancelable is taken back by a purge,              *)
LEMMA DrainDriverOwner ==
  ASSUME TypeOK, FrameOK, LockInv, BodyInv, NEW t \in Threads, DrainDriver(t)
  PROVE  LockInv' /\ BodyInv'
<1>1. /\ frame[t].pc = "drainDriver" /\ Free
      /\ UNCHANGED <<queue, routineRunning, cancelCalls, cancelled, canceledOnQueue,
                     driverIoCount, lock, deleted>>
  BY DEF DrainDriver, lifeVars
<1>2. {"drainDriver", "lockEnter"} \subseteq FreePoints \ {"cancelDriver"}
  BY DEF FreePoints
<1>3. /\ Plain(frame[t]) /\ frame[t].new = NoRequest /\ frame[t].why = "none"
      /\ NoRequest \notin Requests
  BY <1>1, <1>2, OutsideHands, ThreadAssumption DEF FrameOK, SoundFrame
<1>4. CASE Revocable = {}
  <2>1. Go(t, "lockEnter") /\ UNCHANGED <<req, cancelable>>
    BY <1>4 DEF DrainDriver
  <2> QED BY <1>1, <1>2, <2>1, GoAside, QuietBody DEF cancelVars
<1>5. CASE Revocable # {}
  <2>1. PICK r \in Revocable :
          /\ cancelable' = cancelable \ {r}
          /\ req' = [req EXCEPT ![r].canceled = TRUE]
          /\ frame' = [frame EXCEPT ![t] = [@ EXCEPT !.pc = "cancelDriver", !.cur = r]]
    BY <1>5 DEF DrainDriver
  <2>2. r \in Requests /\ r \in cancelable /\ r \notin routineRunning
    BY <2>1 DEF Revocable, TypeOK
  <2>3. /\ req'[r].irp = req[r].irp /\ req'[r].drv = req[r].drv /\ req'[r].list = req[r].list
        /\ req'[r].ack = req[r].ack /\ \A s \in Requests \ {r} : req'[s] = req[s]
    BY <2>1, <2>2 DEF TypeOK, Request
  <2>4. /\ Moves(t) /\ frame'[t].pc = "cancelDriver" /\ frame'[t].cur = r
        /\ frame'[t].new = NoRequest /\ frame'[t].why = "none"
    BY <1>3, <2>1 DEF Moves, FrameOK, SoundFrame, Frame
  <2>5. /\ Hand(frame'[t]) = NoRequest /\ Returning(frame'[t]) = NoRequest
        /\ Cancelling(frame'[t]) = r /\ OthersKeep(t)
    BY <2>4, MovesOthers DEF Hand, Returning, Cancelling
  <2>6. LockInv'
    <3>1. "cancelDriver" \notin LockedPoints
      BY DEF LockedPoints
    <3> QED BY <1>1, <2>4, <3>1, LockAside
  <2>7. RequestOK(r) /\ req[r].drv = "cancelable"
    BY <2>2, BodyFacts DEF RequestOK, PathOK
  <2>8. /\ r \notin cancelCalls \cup cancelled /\ ~ Queued(r) /\ r \notin canceledOnQueue
        /\ Unhanded(r)
    <3>1. /\ ~ Queued(r) /\ r \notin canceledOnQueue
          /\ \A u \in Threads : Hand(frame[u]) # r /\ Returning(frame[u]) # r
      BY <2>2, <2>7, CancelableFacts
    <3>2. r \notin cancelCalls \cup cancelled /\ \A u \in Threads : Cancelling(frame[u]) # r
      BY <2>2, <2>7 DEF RequestOK, PathOK
    <3> QED BY <3>1, <3>2 DEF Unhanded
  <2>9. \A u \in Threads : /\ Hand(frame'[u]) # r /\ Returning(frame'[u]) # r
                           /\ Cancelling(frame'[u]) = r <=> u = t
    BY <1>3, <2>2, <2>5, <2>8 DEF Unhanded, OthersKeep, SameFrame
  <2>10. RequestOK(r)'
    <3>1. DriverOK(r)
      BY <2>7 DEF RequestOK
    <3>2. PlaceOK(r)' /\ DriverOK(r)'
      BY <1>1, <2>3, <2>7, <2>8, <2>9, <3>1 DEF PlaceOK, DriverOK, Queued, Listed
    <3>3. ReturnOK(r)' /\ PathOK(r)'
      BY <1>1, <2>1, <2>2, <2>3, <2>7, <2>8, <2>9 DEF ReturnOK, PathOK, Queued
    <3> QED BY <3>2, <3>3 DEF RequestOK
  <2>11. OnlyAbout(r)
    <3> SUFFICES ASSUME NEW s \in Requests \ {r}
                 PROVE  req'[s] = req[s] /\ KeepsPlaces(s) /\ KeepsHands(s)
      BY DEF OnlyAbout
    <3>1. KeepsHands(s)
      BY <1>3, <2>5, PlainHands, HandsAside
    <3> QED BY <1>1, <2>1, <2>3, <3>1 DEF KeepsPlaces, Queued
  <2>12. Weight(r)' = Weight(r) /\ QueueInv'
    BY <1>1, <2>3, BodyFacts DEF Weight, Listed, QueueInv
  <2> QED BY <1>1, <2>2, <2>6, <2>10, <2>11, <2>12, AboutBody DEF TypeOK
<1> QED BY <1>4, <1>5

(* to be put among the cancelled ones when the thread has the lock again.   *)
LEMMA DrainCancelOwner ==
  ASSUME TypeOK, FrameOK, LockInv, BodyInv, NEW t \in Threads, DrainCancelForDriver(t)
  PROVE  LockInv' /\ BodyInv'
<1>1. /\ frame[t].pc = "cancelDriver" /\ Free /\ DispatchInternalEvents(t, "drainDriver")
      /\ cancelled' = cancelled \cup {frame[t].cur}
      /\ UNCHANGED <<req, queue, cancelable, routineRunning, cancelCalls, canceledOnQueue,
                     driverIoCount>>
  BY DEF DrainCancelForDriver
<1>2. /\ frame[t].new = NoRequest /\ frame[t].why = "none" /\ frame[t].cur \in Requests
      /\ NoRequest \notin Requests /\ "drainDriver" \in FreePoints \ {"cancelDriver"}
  BY <1>1, LockFacts, ThreadAssumption DEF FrameOK, SoundFrame, Takes, FreePoints
<1>3. PICK r \in Requests : r = frame[t].cur
  BY <1>2
<1>4. /\ Hand(frame[t]) = NoRequest /\ Returning(frame[t]) = NoRequest
      /\ Cancelling(frame[t]) = r
  BY <1>1, <1>2, <1>3 DEF Hand, Returning, Cancelling
<1>5. Idles(frame'[t]) /\ OthersKeep(t) /\ LockInv'
  <2>1. CASE Enter(t, NoRequest, "drainDriver")
    BY <1>1, <1>2, <2>1, EnterHands, LockEnters, MovesOthers DEF Idles
  <2>2. CASE UnlockTo(t, "drainDriver")
    BY <1>1, <1>2, <2>2, UnlockToHands, LockUnlocks, MovesOthers DEF Idles
  <2> QED BY <1>1, <2>1, <2>2 DEF DispatchInternalEvents
<1>6. /\ RequestOK(r) /\ req[r].drv = "cancelable"
      /\ r \notin cancelable \cup cancelCalls \cup cancelled
      /\ \A u \in Threads : Cancelling(frame[u]) = r => u = t
  BY <1>4, BodyFacts DEF RequestOK, PathOK
<1>7. /\ ~ Queued(r) /\ r \notin canceledOnQueue
      /\ \A u \in Threads : Hand(frame[u]) # r /\ Returning(frame[u]) # r
  BY <1>6, CancelableFacts
<1>8. Unhanded(r)'
  BY <1>2, <1>5, <1>6, <1>7, UnhandedStays DEF Idles
<1>9. RequestOK(r)'
  <2>1. r \notin routineRunning
    BY <1>6, <1>7 DEF RequestOK, PathOK
  <2>2. PlaceOK(r)' /\ DriverOK(r)'
    BY <1>1, <1>6, <1>7, <1>8 DEF RequestOK, PlaceOK, DriverOK, Queued, Listed, Unhanded
  <2>3. ReturnOK(r)' /\ PathOK(r)'
    BY <1>1, <1>3, <1>6, <1>7, <1>8, <2>1 DEF ReturnOK, PathOK, Queued, Unhanded
  <2> QED BY <2>2, <2>3 DEF RequestOK
<1>10. OnlyAbout(r)
  <2> SUFFICES ASSUME NEW s \in Requests \ {r}
               PROVE  req'[s] = req[s] /\ KeepsPlaces(s) /\ KeepsHands(s)
    BY DEF OnlyAbout
  <2>1. KeepsHands(s)
    BY <1>2, <1>4, <1>5, HandsAside DEF Idles
  <2> QED BY <1>1, <1>3, <2>1 DEF KeepsPlaces, Queued
<1>11. Weight(r)' = Weight(r) /\ QueueInv'
  BY <1>1, BodyFacts DEF Weight, Listed, QueueInv
<1> QED BY <1>1, <1>5, <1>9, <1>10, <1>11, AboutBody DEF TypeOK

(* An IRP arrives.                                                          *)
LEMMA ArriveOwner ==
  ASSUME TypeOK, FrameOK, LockInv, ClosedInv, BodyInv, NEW t \in Workers, NEW r \in Requests,
         QueueRequest(t, r)
  PROVE  LockInv' /\ BodyInv'
<1>1. /\ t \in Threads /\ frame[t].pc = "idle" /\ Free /\ req[r].irp = "new"
      /\ UNCHANGED <<queue, cancelVars, driverIoCount, deleted>> /\ NoRequest \notin Requests
      /\ "idle" \in FreePoints \ {"cancelDriver"}
  BY ThreadAssumption DEF QueueRequest, Idle, Threads, lifeVars, FreePoints
<1>2. Plain(frame[t]) /\ frame[t].new = NoRequest
  BY <1>1, OutsideHands
<1>3. Idles(frame[t])
  BY <1>1, <1>2, PlainHands DEF Idles
<1>4. RequestOK(r) /\ req[r].drv = "fx" /\ req[r].list = "none" /\ req[r].ack # "requeue"
  <2>1. RequestOK(r) /\ req[r] \in Request
    BY BodyFacts DEF TypeOK
  <2>2. req[r].drv = "fx"
    BY <1>1, <2>1 DEF RequestOK, DriverOK, Request
  <2> QED BY <1>1, <2>1, <2>2 DEF RequestOK, DriverOK
<1>5. Nowhere(r)
  BY <1>1, <1>4 DEF RequestOK, PlaceOK, Loose, ReturnOK, Neither, PathOK, Nowhere, Unhanded, Unpathed
<1>6. CASE "Accept" \in queueState
  <2>1. req' = [req EXCEPT ![r].irp = "sent"] /\ Enter(t, r, "idle")
    BY <1>6 DEF QueueRequest
  <2>2. LockInv'
    <3>1. ~ deleted'
      BY <1>1, <1>6 DEF ClosedInv, BeingDisposed
    <3> QED BY <1>1, <2>1, <3>1, LockEnters
  <2>3. /\ Hand(frame'[t]) = r /\ Returning(frame'[t]) = NoRequest
        /\ Cancelling(frame'[t]) = NoRequest /\ OthersKeep(t)
    BY <1>1, <2>1, EnterHands, MovesOthers
  <2>4. /\ req'[r].irp = "sent" /\ req'[r].list = "none" /\ req'[r].drv = "fx"
        /\ req'[r].ack # "requeue" /\ \A s \in Requests \ {r} : req'[s] = req[s]
    BY <1>4, <2>1 DEF TypeOK, Request
  <2>5. \A u \in Threads : /\ Hand(frame'[u]) = r <=> u = t
                           /\ Returning(frame'[u]) # r /\ Cancelling(frame'[u]) # r
    BY <1>1, <1>5, <2>3 DEF Nowhere, Unhanded, OthersKeep, SameFrame
  <2>6. RequestOK(r)'
    <3>1. Loose(r)' /\ ~ Queued(r)' /\ Unpathed(r)' /\ r \notin canceledOnQueue'
      BY <1>1, <1>5, <2>4 DEF Nowhere, Loose, Queued, Unpathed, cancelVars
    <3>2. PlaceOK(r)' /\ DriverOK(r)'
      BY <1>1, <2>4, <2>5, <3>1 DEF PlaceOK, DriverOK
    <3>3. ReturnOK(r)' /\ PathOK(r)'
      BY <2>4, <2>5, <3>1 DEF ReturnOK, PathOK, Unpathed
    <3> QED BY <3>2, <3>3 DEF RequestOK
  <2>7. OnlyAbout(r)
    <3> SUFFICES ASSUME NEW s \in Requests \ {r}
                 PROVE  req'[s] = req[s] /\ KeepsPlaces(s) /\ KeepsHands(s)
      BY DEF OnlyAbout
    <3>1. KeepsHands(s)
      BY <1>1, <1>3, <2>3, HandsAside DEF Idles
    <3> QED BY <1>1, <2>4, <3>1 DEF KeepsPlaces, Queued, cancelVars
  <2>8. Weight(r)' = Weight(r) /\ QueueInv'
    BY <1>1, <1>4, <2>4, BodyFacts DEF Weight, Listed, QueueInv
  <2> QED BY <1>1, <2>2, <2>6, <2>7, <2>8, AboutBody DEF TypeOK
<1>7. CASE "Accept" \notin queueState
  <2>1. req' = [req EXCEPT ![r].irp = "done"] /\ UNCHANGED <<lock, frame>>
    BY <1>7 DEF QueueRequest
  <2>2. FramesKeep /\ LockInv'
    BY <1>1, <2>1, QuietNothing
  <2>3. /\ req'[r].irp = "done" /\ req'[r].list = "none" /\ req'[r].drv = "fx"
        /\ req'[r].ack # "requeue" /\ \A s \in Requests \ {r} : req'[s] = req[s]
    BY <1>4, <2>1 DEF TypeOK, Request
  <2>4. RequestOK(r)'
    <3>1. Nowhere(r)' /\ DriverOK(r)'
      BY <1>1, <1>5, <2>1, <2>3 DEF Nowhere, Unhanded, Unpathed, Queued, cancelVars, DriverOK
    <3> QED BY <2>3, <3>1, NowhereOK
  <2>5. OnlyAbout(r)
    BY <1>1, <2>1, <2>3 DEF OnlyAbout, KeepsPlaces, Queued, cancelVars, KeepsHands
  <2>6. Weight(r)' = Weight(r) /\ QueueInv'
    BY <1>1, <1>4, <2>3, BodyFacts DEF Weight, Listed, QueueInv
  <2> QED BY <1>1, <2>2, <2>4, <2>5, <2>6, AboutBody DEF TypeOK
<1> QED BY <1>6, <1>7

(* A cancelable request is on the first of its cancel paths, or a later one.*)
CancelableAlone(r) ==
  /\ req[r].drv = "cancelable" /\ req[r].irp = "sent" /\ req[r].list # "none"
  /\ req[r].ack # "requeue" /\ ~ Queued(r) /\ r \notin canceledOnQueue /\ Unhanded(r)

LEMMA CancelableOK ==
  ASSUME NEW r \in Requests, CancelableAlone(r)',
         \/ r \in cancelable' /\ r \notin cancelCalls' \cup cancelled'
         \/ r \in cancelCalls' /\ r \notin cancelable' \cup cancelled'
         \/ r \in cancelled' /\ r \notin cancelable' \cup cancelCalls',
         r \in routineRunning' => r \in cancelable'
  PROVE  RequestOK(r)'
<1>1. PlaceOK(r)' /\ DriverOK(r)'
  BY DEF CancelableAlone, PlaceOK, DriverOK, Unhanded, Listed
<1>2. ReturnOK(r)' /\ PathOK(r)'
  BY DEF CancelableAlone, ReturnOK, PathOK, Unhanded
<1> QED BY <1>1, <1>2 DEF RequestOK

LEMMA CancelPaths ==
  ASSUME NEW r \in Requests, RequestOK(r), r \in cancelable \cup cancelCalls
  PROVE  /\ CancelableAlone(r) /\ r \notin cancelled
         /\ r \in cancelable => r \notin cancelCalls
         /\ r \in cancelCalls => r \notin routineRunning /\ r \notin cancelable
<1>1. req[r].drv = "cancelable" /\ \A t \in Threads : Cancelling(frame[t]) # r
  BY DEF RequestOK, PathOK
<1>2. /\ ~ Queued(r) /\ r \notin canceledOnQueue
      /\ \A t \in Threads : Hand(frame[t]) # r /\ Returning(frame[t]) # r
  BY <1>1, CancelableFacts
<1>3. CancelableAlone(r)
  BY <1>1, <1>2 DEF CancelableAlone, Unhanded, RequestOK, DriverOK
<1> QED BY <1>2, <1>3 DEF RequestOK, PathOK

(* The I/O manager cancels, and the cancel routine gets the lock.           *)
LEMMA CancelOwner ==
  ASSUME TypeOK, FrameOK, LockInv, BodyInv, NEW r \in Requests, CancelIrp(r) \/ CancelStep(r)
  PROVE  LockInv' /\ BodyInv'
<1>1. CASE CancelIrp(r)
  <2>1. /\ req' = [req EXCEPT ![r].cancel = TRUE]
        /\ UNCHANGED <<queue, cancelable, cancelCalls, cancelled, canceledOnQueue,
                       driverIoCount, lock, frame, deleted>>
        /\ routineRunning' = IF r \in Elements(queue) \cup cancelable
                             THEN routineRunning \cup {r} ELSE routineRunning
    BY <1>1 DEF CancelIrp, lifeVars
  <2>2. FramesKeep /\ LockInv' /\ QueueInv'
    BY <2>1, QuietNothing, BodyFacts DEF QueueInv
  <2>3. /\ req'[r].irp = req[r].irp /\ req'[r].drv = req[r].drv /\ req'[r].list = req[r].list
        /\ req'[r].ack = req[r].ack /\ \A s \in Requests \ {r} : req'[s] = req[s]
    BY <2>1 DEF TypeOK, Request
  <2>4. RequestOK(r)'
    <3>1. RequestOK(r)
      BY BodyFacts
    <3>2. PlaceOK(r)' /\ DriverOK(r)'
      BY <2>1, <2>3, <3>1 DEF RequestOK, PlaceOK, DriverOK, Queued, Listed, Loose
    <3>3. ReturnOK(r)' /\ PathOK(r)'
      BY <2>1, <2>3, <3>1 DEF RequestOK, ReturnOK, PathOK, Neither, Queued
    <3> QED BY <3>2, <3>3 DEF RequestOK
  <2>5. OnlyAbout(r)
    BY <2>1, <2>3 DEF OnlyAbout, KeepsPlaces, Queued, KeepsHands
  <2>6. Weight(r)' = Weight(r)
    BY <2>3 DEF Weight, Listed
  <2> QED BY <2>1, <2>2, <2>4, <2>5, <2>6, AboutBody DEF TypeOK
<1>2. ASSUME NEW t \in Workers, IrpCancelForQueue(t, r)
      PROVE  LockInv' /\ BodyInv'
  <2>1. /\ t \in Threads /\ frame[t].pc = "idle" /\ "idle" \in FreePoints \ {"cancelDriver"}
        /\ Free /\ Queued(r) /\ queue' = Without(queue, r)
        /\ CancelForQueue(t, r, driverIoCount, "idle")
        /\ UNCHANGED <<cancelable, cancelCalls, cancelled, deleted>>
        /\ routineRunning' = routineRunning \ {r}
    BY <1>2 DEF IrpCancelForQueue, Idle, Threads, FreePoints, Queued, lifeVars
  <2> QED BY <2>1, QueueCancelOwner
<1>3. CASE IrpCancelForDriver(r)
  <2>1. /\ req' = [req EXCEPT ![r].canceled = TRUE] /\ r \in cancelable
        /\ UNCHANGED <<queue, cancelled, canceledOnQueue, driverIoCount, lock, frame, deleted>>
        /\ routineRunning' = routineRunning \ {r} /\ cancelable' = cancelable \ {r}
        /\ cancelCalls' = cancelCalls \cup {r}
    BY <1>3 DEF IrpCancelForDriver, lifeVars
  <2>2. FramesKeep /\ LockInv' /\ QueueInv'
    BY <2>1, QuietNothing, BodyFacts DEF QueueInv
  <2>3. /\ req'[r].irp = req[r].irp /\ req'[r].drv = req[r].drv /\ req'[r].list = req[r].list
        /\ req'[r].ack = req[r].ack /\ \A s \in Requests \ {r} : req'[s] = req[s]
    BY <2>1 DEF TypeOK, Request
  <2>4. RequestOK(r)'
    <3>1. CancelableAlone(r) /\ r \notin cancelled
      BY <2>1, BodyFacts, CancelPaths
    <3>2. CancelableAlone(r)'
      BY <2>1, <2>3, <3>1 DEF CancelableAlone, Queued, Unhanded
    <3> QED BY <2>1, <3>1, <3>2, CancelableOK
  <2>5. OnlyAbout(r)
    BY <2>1, <2>3 DEF OnlyAbout, KeepsPlaces, Queued, KeepsHands
  <2>6. Weight(r)' = Weight(r)
    BY <2>3 DEF Weight, Listed
  <2> QED BY <2>1, <2>2, <2>4, <2>5, <2>6, AboutBody DEF TypeOK
<1>4. CASE CancelForDriver(r)
  <2>1. /\ r \in cancelCalls /\ Free /\ DispatchInternalEventsAny
        /\ UNCHANGED <<req, queue, cancelable, routineRunning, canceledOnQueue, driverIoCount, deleted>>
        /\ cancelCalls' = cancelCalls \ {r} /\ cancelled' = cancelled \cup {r}
    BY <1>4 DEF CancelForDriver, lifeVars
  <2>2. FramesKeep /\ LockInv' /\ QueueInv'
    BY <2>1, QuietAny, BodyFacts DEF QueueInv
  <2>3. RequestOK(r)'
    <3>1. CancelableAlone(r) /\ r \notin cancelled \cup cancelable /\ r \notin routineRunning
      BY <2>1, BodyFacts, CancelPaths
    <3>2. CancelableAlone(r)'
      BY <2>1, <2>2, <3>1 DEF CancelableAlone, Queued, Unhanded, FramesKeep, SameFrame
    <3> QED BY <2>1, <3>1, <3>2, CancelableOK
  <2>4. OnlyAbout(r)
    BY <2>1, <2>2 DEF OnlyAbout, KeepsPlaces, Queued, KeepsHands, FramesKeep, SameFrame
  <2>5. Weight(r)' = Weight(r)
    BY <2>1 DEF Weight, Listed
  <2> QED BY <2>1, <2>2, <2>3, <2>4, <2>5, AboutBody DEF TypeOK
<1> QED BY <1>1, <1>2, <1>3, <1>4 DEF CancelStep

(* The driver gives a request back, or takes one that it alone has.         *)
LEMMA HeldOwner ==
  ASSUME TypeOK, BodyInv, FramesKeep, NEW r \in Requests,
         req[r].drv \in {"held", "told", "completing", "forwarding"},
         UNCHANGED <<queue, cancelVars>>, \A s \in Requests \ {r} : req'[s] = req[s],
         DriverOK(r)', req'[r].drv # "cancelable", req'[r].irp = "sent" => Listed(r)',
         driverIoCount' - Weight(r)' = driverIoCount - Weight(r), driverIoCount' \in Int
  PROVE  BodyInv'
<1>1. Nowhere(r)
  BY BodyFacts, HeldFacts
<1>2. Nowhere(r)'
  BY <1>1 DEF Nowhere, Queued, Unpathed, cancelVars, Unhanded, FramesKeep, SameFrame
<1>3. RequestOK(r)'
  BY <1>2, NowhereOK
<1>4. OnlyAbout(r)
  BY DEF OnlyAbout, KeepsPlaces, Queued, cancelVars, KeepsHands, FramesKeep, SameFrame
<1>5. QueueInv'
  BY BodyFacts DEF QueueInv
<1> QED BY <1>3, <1>4, <1>5, AboutBody

LEMMA DriverFields ==
  ASSUME TypeOK, BodyInv, NEW r \in Requests
  PROVE  /\ req[r] \in Request /\ driverIoCount \in Int /\ DriverOK(r)
         /\ "none" \notin Threads
BY BodyFacts, ThreadAssumption DEF TypeOK, RequestOK

LEMMA AcknowledgeOwner ==
  ASSUME TypeOK, LockInv, BodyInv, NEW r \in Requests, NEW b \in BOOLEAN, StopAcknowledge(r, b)
  PROVE  LockInv' /\ BodyInv'
<1>1. /\ req[r].ack = "none" /\ req[r].list = "notified"
      /\ req[r].drv = "held" \/ (req[r].drv = "cancelable" /\ ~b)
      /\ req' = [req EXCEPT ![r] = [@ EXCEPT !.ack = IF b THEN "requeue" ELSE "ack",
                                    !.drv = IF b THEN "fx" ELSE req[r].drv]]
      /\ UNCHANGED <<queue, cancelVars, driverIoCount, lock, frame, deleted>>
  BY DEF StopAcknowledge, lifeVars
<1>2. FramesKeep /\ LockInv'
  BY <1>1, QuietNothing
<1>3. /\ req'[r].irp = req[r].irp /\ req'[r].list = "notified"
      /\ req'[r].drv = IF b THEN "fx" ELSE req[r].drv
      /\ req'[r].ack = IF b THEN "requeue" ELSE "ack"
      /\ \A s \in Requests \ {r} : req'[s] = req[s]
  BY <1>1, DriverFields DEF TypeOK, Request
<1>4. CASE ~b
  BY <1>1, <1>2, <1>3, <1>4, Relisted
<1>5. CASE b
  <2>1. DriverOK(r)' /\ Listed(r)' /\ Weight(r)' = Weight(r)
    BY <1>1, <1>3, <1>5, DriverFields DEF DriverOK, Listed, Weight
  <2> QED BY <1>1, <1>2, <1>3, <1>5, <2>1, HeldOwner DEF TypeOK
<1> QED BY <1>4, <1>5

(* Completing takes the IRP first, the queue hears of it later.             *)
LEMMA CompleteOwner ==
  ASSUME TypeOK, FrameOK, LockInv, BodyInv, NEW r \in Requests,
         CompleteRequest(r) \/ RequestCompletedCallback(r)
  PROVE  LockInv' /\ BodyInv'
<1>1. CASE CompleteRequest(r)
  <2>1. /\ req[r].drv \in {"held", "told"}
        /\ req' = [req EXCEPT ![r] = [@ EXCEPT !.irp = "done", !.drv = "completing"]]
        /\ UNCHANGED <<queue, cancelVars, driverIoCount, lock, frame, deleted>>
    BY <1>1 DEF CompleteRequest, Holds, lifeVars
  <2>2. FramesKeep /\ LockInv'
    BY <2>1, QuietNothing
  <2>3. /\ req'[r].irp = "done" /\ req'[r].list = req[r].list /\ req'[r].drv = "completing"
        /\ req'[r].ack = req[r].ack /\ \A s \in Requests \ {r} : req'[s] = req[s]
    BY <2>1, DriverFields DEF TypeOK, Request
  <2>4. DriverOK(r)' /\ Weight(r)' = Weight(r)
    BY <2>1, <2>3, DriverFields DEF DriverOK, Listed, Weight
  <2> QED BY <2>1, <2>2, <2>3, <2>4, HeldOwner DEF TypeOK
<1>2. CASE RequestCompletedCallback(r)
  <2>1. /\ req[r].drv = "completing" /\ Free /\ DispatchInternalEventsAny
        /\ req' = [req EXCEPT ![r] = [@ EXCEPT !.list = "none", !.drv = "fx"]]
        /\ driverIoCount' = driverIoCount - 1 /\ UNCHANGED <<queue, cancelVars, deleted>>
    BY <1>2 DEF RequestCompletedCallback, lifeVars
  <2>2. FramesKeep /\ LockInv'
    BY <2>1, QuietAny
  <2>3. /\ req'[r].irp = req[r].irp /\ req'[r].list = "none" /\ req'[r].drv = "fx"
        /\ req'[r].ack = req[r].ack /\ \A s \in Requests \ {r} : req'[s] = req[s]
    BY <2>1, DriverFields DEF TypeOK, Request
  <2>4. DriverOK(r)' /\ Weight(r)' = 0 /\ Weight(r) = 1 /\ req'[r].irp # "sent"
    BY <2>1, <2>3, DriverFields DEF DriverOK, Listed, Weight
  <2>5. driverIoCount' \in Int /\ driverIoCount' - Weight(r)' = driverIoCount - Weight(r)
    BY <2>1, <2>4, DriverFields
  <2> QED BY <2>1, <2>2, <2>3, <2>4, <2>5, HeldOwner
<1> QED BY <1>1, <1>2

LEMMA ForwardOwner ==
  ASSUME TypeOK, FrameOK, LockInv, BodyInv, NEW r \in Requests,
         ForwardBegin(r) \/ ForwardRefused(r) \/ ForwardDone(r)
  PROVE  LockInv' /\ BodyInv'
<1>1. CASE ForwardBegin(r)
  <2>1. /\ req[r].drv = "held" /\ req[r].ack # "requeue"
        /\ req' = [req EXCEPT ![r] = [@ EXCEPT !.list = "none", !.drv = "forwarding"]]
        /\ UNCHANGED <<queue, cancelVars, driverIoCount, lock, frame, deleted>>
    BY <1>1 DEF ForwardBegin, Holds, lifeVars
  <2>2. FramesKeep /\ LockInv'
    BY <2>1, QuietNothing
  <2>3. /\ req'[r].irp = req[r].irp /\ req'[r].list = "none" /\ req'[r].drv = "forwarding"
        /\ req'[r].ack = req[r].ack /\ \A s \in Requests \ {r} : req'[s] = req[s]
    BY <2>1, DriverFields DEF TypeOK, Request
  <2>4. DriverOK(r)' /\ Listed(r)' /\ Weight(r)' = Weight(r)
    BY <2>1, <2>3, DriverFields DEF DriverOK, Listed, Weight
  <2> QED BY <2>1, <2>2, <2>3, <2>4, HeldOwner DEF TypeOK
<1>2. CASE ForwardRefused(r)
  <2>1. /\ req[r].drv = "forwarding"
        /\ req' = [req EXCEPT ![r] = [@ EXCEPT !.list = "owned", !.drv = "held"]]
        /\ UNCHANGED <<queue, cancelVars, driverIoCount, lock, frame, deleted>>
    BY <1>2 DEF ForwardRefused, lifeVars
  <2>2. FramesKeep /\ LockInv'
    BY <2>1, QuietNothing
  <2>3. /\ req'[r].irp = req[r].irp /\ req'[r].list = "owned" /\ req'[r].drv = "held"
        /\ req'[r].ack = req[r].ack /\ \A s \in Requests \ {r} : req'[s] = req[s]
    BY <2>1, DriverFields DEF TypeOK, Request
  <2>4. DriverOK(r)' /\ Listed(r)' /\ Weight(r)' = Weight(r)
    BY <2>1, <2>3, DriverFields DEF DriverOK, Listed, Weight
  <2> QED BY <2>1, <2>2, <2>3, <2>4, HeldOwner DEF TypeOK
<1>3. CASE ForwardDone(r)
  <2>1. /\ req[r].drv = "forwarding" /\ Free /\ DispatchInternalEventsAny
        /\ req' = [req EXCEPT ![r] = [@ EXCEPT !.irp = "done", !.drv = "fx"]]
        /\ driverIoCount' = driverIoCount - 1 /\ UNCHANGED <<queue, cancelVars, deleted>>
    BY <1>3 DEF ForwardDone, lifeVars
  <2>2. FramesKeep /\ LockInv'
    BY <2>1, QuietAny
  <2>3. /\ req'[r].irp = "done" /\ req'[r].list = req[r].list /\ req'[r].drv = "fx"
        /\ req'[r].ack = req[r].ack /\ \A s \in Requests \ {r} : req'[s] = req[s]
    BY <2>1, DriverFields DEF TypeOK, Request
  <2>4. DriverOK(r)' /\ Weight(r)' = 0 /\ Weight(r) = 1
    BY <2>1, <2>3, DriverFields DEF DriverOK, Listed, Weight
  <2>5. driverIoCount' \in Int /\ driverIoCount' - Weight(r)' = driverIoCount - Weight(r)
    BY <2>1, <2>4, DriverFields
  <2> QED BY <2>1, <2>2, <2>3, <2>4, <2>5, HeldOwner
<1> QED BY <1>1, <1>2, <1>3

(* The driver marks a request cancelable and takes that back.               *)
LEMMA MarkOwner ==
  ASSUME TypeOK, FrameOK, LockInv, BodyInv, NEW r \in Requests,
         MarkCancelable(r) \/ UnmarkCancelable(r)
  PROVE  LockInv' /\ BodyInv'
<1>1. UNCHANGED <<queue, routineRunning, cancelled, canceledOnQueue, driverIoCount, lock, frame,
                  deleted>>
  BY DEF MarkCancelable, UnmarkCancelable, lifeVars
<1>2. FramesKeep /\ LockInv' /\ QueueInv'
  BY <1>1, QuietNothing, BodyFacts DEF QueueInv
<1>3. CASE MarkCancelable(r)
  <2>1. /\ req[r].drv = "held" /\ req[r].ack # "requeue"
        /\ \/ /\ req' = [req EXCEPT ![r] = [@ EXCEPT !.canceled = TRUE, !.drv = "cancelable"]]
              /\ cancelCalls' = cancelCalls \cup {r} /\ UNCHANGED cancelable
           \/ /\ req' = [req EXCEPT ![r].drv = "cancelable"]
              /\ cancelable' = cancelable \cup {r} /\ UNCHANGED cancelCalls
    BY <1>3 DEF MarkCancelable, Holds
  <2>2. /\ req'[r].irp = req[r].irp /\ req'[r].list = req[r].list
        /\ req'[r].drv = "cancelable" /\ req'[r].ack = req[r].ack
        /\ \A s \in Requests \ {r} : req'[s] = req[s]
    <3>1. CASE req' = [req EXCEPT ![r].drv = "cancelable"]
      BY <3>1, DriverFields DEF TypeOK, Request
    <3>2. CASE req' = [req EXCEPT ![r] = [@ EXCEPT !.canceled = TRUE, !.drv = "cancelable"]]
      BY <3>2, DriverFields DEF TypeOK, Request
    <3> QED BY <2>1, <3>1, <3>2
  <2>3. Nowhere(r)
    BY <2>1, BodyFacts, HeldFacts
  <2>4. CancelableAlone(r)'
    BY <1>1, <2>1, <2>2, <2>3, DriverFields DEF DriverOK, CancelableAlone, Nowhere, Queued, Unhanded
  <2>5. RequestOK(r)'
    BY <1>1, <2>1, <2>3, <2>4, CancelableOK DEF Nowhere, Unpathed
  <2>6. OnlyAbout(r)
    BY <1>1, <2>1, <2>2 DEF OnlyAbout, KeepsPlaces, Queued, KeepsHands
  <2>7. Weight(r)' = Weight(r)
    BY <2>1, <2>2 DEF Weight, Listed
  <2> QED BY <1>1, <1>2, <2>5, <2>6, <2>7, AboutBody DEF TypeOK
<1>4. CASE UnmarkCancelable(r)
  <2>1. /\ req[r].drv = "cancelable" /\ r \in cancelable /\ r \notin routineRunning
        /\ cancelable' = cancelable \ {r} /\ req' = [req EXCEPT ![r].drv = "held"]
        /\ UNCHANGED cancelCalls
    BY <1>4 DEF UnmarkCancelable, Revocable
  <2>2. /\ req'[r].irp = req[r].irp /\ req'[r].list = req[r].list
        /\ req'[r].drv = "held" /\ req'[r].ack = req[r].ack
        /\ \A s \in Requests \ {r} : req'[s] = req[s]
    BY <2>1, DriverFields DEF TypeOK, Request
  <2>3. CancelableAlone(r) /\ r \notin cancelCalls \cup cancelled
    BY <2>1, BodyFacts, CancelPaths
  <2>4. Nowhere(r)' /\ DriverOK(r)' /\ Listed(r)'
    BY <1>1, <2>1, <2>2, <2>3 DEF CancelableAlone, Nowhere, Unpathed, Queued, Unhanded, DriverOK, Listed
  <2>5. RequestOK(r)'
    BY <2>2, <2>4, NowhereOK
  <2>6. OnlyAbout(r)
    BY <1>1, <2>1, <2>2 DEF OnlyAbout, KeepsPlaces, Queued, KeepsHands
  <2>7. Weight(r)' = Weight(r)
    BY <2>1, <2>2 DEF Weight, Listed
  <2> QED BY <1>1, <1>2, <2>5, <2>6, <2>7, AboutBody DEF TypeOK
<1> QED BY <1>3, <1>4

(* A manual queue: the driver retrieves requests and puts them back.        *)
LEMMA RetrieveOwner ==
  ASSUME TypeOK, FrameOK, LockInv, BodyInv, GetRequest
  PROVE  LockInv' /\ BodyInv'
<1>1. UNCHANGED <<cancelVars, lock, frame, deleted>>
  BY DEF GetRequest, lifeVars
<1>2. FramesKeep /\ LockInv'
  BY <1>1, QuietNothing
<1>3. CASE ~SomeLive
  BY <1>1, <1>2, <1>3, QuietBody DEF GetRequest
<1>4. CASE SomeLive
  <2>1. PICK r \in Requests : r = FirstLive /\ Queued(r) /\ r \notin routineRunning
    BY <1>4, FirstLiveIsQueued DEF TypeOK, Queued
  <2>2. /\ queue' = Without(queue, r) /\ driverIoCount' = driverIoCount + 1
        /\ req' = [req EXCEPT ![r] = [@ EXCEPT !.list = "owned", !.drv = "held", !.presented = TRUE]]
    BY <1>4, <2>1 DEF GetRequest
  <2>3. /\ Loose(r) /\ Unhanded(r) /\ Unpathed(r) /\ r \notin canceledOnQueue
    BY <2>1, BodyFacts, QueuedFacts DEF Unpathed
  <2>4. Elements(queue') = Elements(queue) \ {r} /\ QueueInv'
    BY <2>1, <2>2, BodyFacts, WithoutLists DEF TypeOK, Queued, QueueInv
  <2>5. /\ req'[r].irp = "sent" /\ req'[r].list = "owned" /\ req'[r].drv = "held"
        /\ req'[r].ack # "requeue" /\ \A s \in Requests \ {r} : req'[s] = req[s]
    BY <2>2, <2>3, DriverFields DEF TypeOK, Request, Loose
  <2>6. Nowhere(r)' /\ DriverOK(r)' /\ Listed(r)' /\ ~Listed(r)
    BY <1>1, <2>3, <2>4, <2>5 DEF Nowhere, Queued, Unhanded, Unpathed, cancelVars, DriverOK, Listed, Loose
  <2>7. RequestOK(r)'
    BY <2>5, <2>6, NowhereOK
  <2>8. OnlyAbout(r)
    BY <1>1, <2>4, <2>5 DEF OnlyAbout, KeepsPlaces, Queued, cancelVars, KeepsHands
  <2>9. driverIoCount' \in Int /\ driverIoCount' - Weight(r)' = driverIoCount - Weight(r)
    BY <2>2, <2>6, DriverFields DEF Weight
  <2> QED BY <1>2, <2>4, <2>7, <2>8, <2>9, AboutBody
<1> QED BY <1>3, <1>4

LEMMA DriverRequeueOwner ==
  ASSUME TypeOK, FrameOK, LockInv, BodyInv, NEW t \in Workers, NEW r \in Requests, Requeue(t, r)
  PROVE  LockInv' /\ BodyInv'
<1>1. /\ t \in Threads /\ frame[t].pc = "idle" /\ Free /\ req[r].drv = "held"
      /\ req[r].ack # "requeue"
      /\ UNCHANGED <<cancelable, routineRunning, cancelCalls, cancelled, deleted>>
      /\ {"idle", "lockEnter"} \subseteq FreePoints \ {"cancelDriver"}
  BY DEF Requeue, Idle, Holds, Threads, FreePoints, lifeVars
<1>2. Nowhere(r) /\ req[r].irp = "sent" /\ req[r].list # "none" /\ Weight(r) = 1
  BY <1>1, BodyFacts, HeldFacts, DriverFields DEF DriverOK, Weight, Listed
<1>3. CASE Requeueable(r)
  <2>1. /\ req' = [req EXCEPT ![r] = [@ EXCEPT !.list = "none", !.drv = "fx"]]
        /\ driverIoCount' = driverIoCount - 1 /\ queue' = <<r>> \o queue
        /\ Enter(t, NoRequest, "idle") /\ UNCHANGED canceledOnQueue
    BY <1>3 DEF Requeue
  <2>2. FramesKeep /\ LockInv'
    BY <1>1, <2>1, EnterAside
  <2>3. Elements(queue') = Elements(queue) \cup {r} /\ QueueInv'
    BY <1>2, <2>1, BodyFacts, PrependLists DEF TypeOK, QueueInv, Queued, Nowhere
  <2>4. /\ req'[r].irp = "sent" /\ req'[r].list = "none" /\ req'[r].drv = "fx"
        /\ req'[r].ack # "requeue" /\ \A s \in Requests \ {r} : req'[s] = req[s]
    BY <1>1, <1>2, <2>1, DriverFields DEF TypeOK, Request
  <2>5. Queued(r)' /\ Loose(r)' /\ Unhanded(r)'
    BY <1>2, <2>2, <2>3, <2>4 DEF Nowhere, Queued, Loose, Unhanded, FramesKeep, SameFrame
  <2>6. RequestOK(r)'
    BY <1>1, <1>2, <2>1, <2>5, QueuedOK DEF Nowhere, Unpathed
  <2>7. OnlyAbout(r)
    BY <1>1, <2>1, <2>2, <2>3, <2>4
       DEF OnlyAbout, KeepsPlaces, Queued, KeepsHands, FramesKeep, SameFrame
  <2>8. driverIoCount' \in Int /\ driverIoCount' - Weight(r)' = driverIoCount - Weight(r)
    BY <1>2, <2>1, <2>4, DriverFields DEF Weight, Listed
  <2> QED BY <2>2, <2>3, <2>6, <2>7, <2>8, AboutBody
<1>4. CASE ~Requeueable(r)
  <2>1. CancelForQueue(t, r, driverIoCount - 1, "lockEnter") /\ UNCHANGED queue
    BY <1>4 DEF Requeue
  <2>2. ~ Queued(r)' /\ Unpathed(r)' /\ QueueInv'
    BY <1>1, <1>2, <2>1, BodyFacts DEF Nowhere, Queued, Unpathed, QueueInv
  <2> QED BY <1>1, <1>2, <2>1, <2>2, CancelForQueueOwner DEF Nowhere, Queued
<1> QED BY <1>3, <1>4

-----------------------------------------------------------------------------
(* A queue that is being deleted stays closed.                              *)

(* A step in which only t moves.                                            *)
LEMMA ClosedMoves ==
  ASSUME FrameOK, ClosedInv, NEW t \in Threads, Moves(t),
         deleted' => disposing', disposing => disposing',
         BeingDisposed => BeingDisposed', BeingDisposed' => "Accept" \notin queueState',
         DisposeOK(t)'
  PROVE  ClosedInv'
<1>1. \A u \in Threads : u # t => frame'[u] = frame[u]
  BY MovesOthers
<1>2. ASSUME NEW u \in Threads, u # t
      PROVE  DisposeOK(u)'
  BY <1>1, <1>2 DEF ClosedInv, DisposeOK, Busy
<1> QED BY <1>2 DEF ClosedInv

(* One in which no thread does.                                             *)
StaysClosed == BeingDisposed /\ "Accept" \notin queueState => "Accept" \notin queueState'

LEMMA ClosedStays ==
  ASSUME ClosedInv, UNCHANGED <<frame, lifeVars>>, StaysClosed
  PROVE  ClosedInv'
<1>1. UNCHANGED <<disposing, deleted, frame>>
  BY DEF lifeVars
<1>2. BeingDisposed' <=> BeingDisposed
  BY <1>1 DEF BeingDisposed
<1>3. ASSUME NEW t \in Threads
      PROVE  DisposeOK(t)'
  BY <1>1, <1>2 DEF DisposeOK, Busy, ClosedInv
<1> QED BY <1>1, <1>2, <1>3 DEF ClosedInv, StaysClosed

(* One that begins or ends no operation of t.                               *)
LEMMA ClosedGoesOn ==
  ASSUME FrameOK, ClosedInv, NEW t \in Threads, Moves(t), UNCHANGED lifeVars, StaysClosed,
         disposing \/ (frame'[t].op = "dispose" <=> frame[t].op = "dispose"),
         frame'[t].op = "dispose" => t \in Workers,
         frame'[t].pc = "setDisposing" \/ frame'[t].after = "setDisposing" => BeingDisposed,
         frame[t].op = "dispose" /\ ~disposing =>
           frame'[t].pc # "idle" /\ (Busy(frame'[t]) => frame'[t].after # "idle")
  PROVE  ClosedInv'
<1>1. \A u \in Threads : u # t => frame'[u] = frame[u]
  BY MovesOthers
<1>2. Workers \subseteq Threads /\ UNCHANGED <<disposing, deleted>>
  BY DEF Threads, lifeVars
<1>3. BeingDisposed' <=> BeingDisposed
  BY <1>1, <1>2 DEF BeingDisposed
<1>4. DisposeOK(t)'
  BY <1>2, <1>3 DEF DisposeOK
<1> QED BY <1>2, <1>3, <1>4, ClosedMoves DEF ClosedInv, StaysClosed

(* Once m_Disposing is set nothing opens the queue again.                   *)
LEMMA ClosedForGood ==
  ASSUME FrameOK, ClosedInv, NEW t \in Threads, Moves(t), disposing', "Accept" \notin queueState',
         frame'[t].op = frame[t].op
  PROVE  ClosedInv'
<1>1. BeingDisposed'
  BY DEF BeingDisposed
<1>2. DisposeOK(t)'
  BY <1>1 DEF DisposeOK, ClosedInv
<1> QED BY <1>1, <1>2, ClosedMoves

(* Where a thread may return to: the thread that deletes the queue is not   *)
(* idle before it has set m_Disposing.                                      *)
Returns(t, pc) ==
  \/ pc \notin {"idle", "setDisposing"}
  \/ frame[t].pc = "idle" /\ pc = "idle"
  \/ Busy(frame[t]) /\ pc = frame[t].after
  \/ t \notin Workers /\ pc # "setDisposing"

LEMMA ReturnFacts ==
  ASSUME ClosedInv, NEW t \in Threads, NEW pc, Returns(t, pc)
  PROVE  /\ frame[t].op = "dispose" /\ ~disposing => pc # "idle"
         /\ pc = "setDisposing" => BeingDisposed
         /\ frame[t].op = "dispose" => t \in Workers
BY DEF ClosedInv, DisposeOK, Returns

LEMMA ClosedEnter ==
  ASSUME FrameOK, ClosedInv, NEW t \in Threads, NEW r, NEW pc,
         Returns(t, pc), Enter(t, r, pc), UNCHANGED lifeVars, StaysClosed
  PROVE  ClosedInv'
<1>1. /\ Moves(t) /\ frame'[t].pc = "enter" /\ frame'[t].after = pc
      /\ frame'[t].op = frame[t].op
  BY DEF Enter, Moves, FrameOK, SoundFrame, Frame
<1> QED BY <1>1, ReturnFacts, ClosedGoesOn

LEMMA ClosedReturn ==
  ASSUME FrameOK, ClosedInv, NEW t \in Threads, NEW pc \in FreePoints,
         pc = "completeCanceled" => frame[t].after = pc, Returns(t, pc), Moves(t),
         frame'[t].pc = pc, frame'[t].after = frame[t].after, frame'[t].op = frame[t].op,
         UNCHANGED lifeVars, StaysClosed
  PROVE  ClosedInv'
<1>1. Busy(frame'[t]) => frame'[t].after # "idle"
  BY DEF Busy, FreePoints, LockedPoints
<1>2. frame[t].after = "setDisposing" => BeingDisposed
  BY DEF ClosedInv, DisposeOK
<1> QED BY <1>1, <1>2, ReturnFacts, ClosedGoesOn

LEMMA ClosedUnlock ==
  ASSUME FrameOK, ClosedInv, NEW t \in Threads, NEW pc \in FreePoints,
         pc = "completeCanceled" => frame[t].after = pc,
         Returns(t, pc), UnlockTo(t, pc), UNCHANGED lifeVars, StaysClosed
  PROVE  ClosedInv'
<1>1. /\ Moves(t) /\ frame'[t].pc = pc
      /\ frame'[t].after = frame[t].after /\ frame'[t].op = frame[t].op
  BY DEF UnlockTo, Moves, FrameOK, SoundFrame, Frame
<1> QED BY <1>1, ClosedReturn

LEMMA ClosedGo ==
  ASSUME FrameOK, ClosedInv, NEW t \in Threads, NEW pc \in FreePoints,
         pc = "completeCanceled" => frame[t].after = pc,
         Returns(t, pc), Go(t, pc), UNCHANGED lifeVars, StaysClosed
  PROVE  ClosedInv'
<1>1. /\ Moves(t) /\ frame'[t].pc = pc
      /\ frame'[t].after = frame[t].after /\ frame'[t].op = frame[t].op
  BY DEF Go, Moves, FrameOK, SoundFrame, Frame
<1> QED BY <1>1, ClosedReturn

LEMMA ClosedInternal ==
  ASSUME FrameOK, ClosedInv, NEW t \in Threads, NEW pc \in FreePoints,
         pc = "completeCanceled" => frame[t].after = pc,
         Returns(t, pc), DispatchInternalEvents(t, pc), UNCHANGED lifeVars, StaysClosed
  PROVE  ClosedInv'
BY ClosedEnter, ClosedUnlock DEF DispatchInternalEvents

LEMMA ClosedAny ==
  ASSUME FrameOK, ClosedInv, DispatchInternalEventsAny, UNCHANGED lifeVars, StaysClosed
  PROVE  ClosedInv'
<1>1. CASE UNCHANGED frame
  BY <1>1, ClosedStays
<1>2. CASE ~UNCHANGED frame
  <2>1. PICK t \in Workers : frame[t].pc = "idle" /\ Enter(t, NoRequest, "idle")
    BY <1>2 DEF DispatchInternalEventsAny
  <2>2. t \in Threads /\ Returns(t, "idle")
    BY <2>1 DEF Threads, Returns
  <2> QED BY <2>1, <2>2, ClosedEnter
<1> QED BY <1>1, <1>2

LEMMA ClosedCancel ==
  ASSUME FrameOK, ClosedInv, NEW t \in Threads, NEW pc \in FreePoints \ {"completeCanceled"},
         Returns(t, pc), NEW r, NEW n, CancelForQueue(t, r, n, pc), UNCHANGED lifeVars, StaysClosed
  PROVE  ClosedInv'
<1>1. CASE GoesToDriver(r)
  BY <1>1, ClosedInternal DEF CancelForQueue
<1>2. CASE ~GoesToDriver(r)
  <2>1. /\ Moves(t) /\ frame'[t].pc = "completeCanceled" /\ frame'[t].after = pc
        /\ frame'[t].op = frame[t].op
    <3>1. frame' = [frame EXCEPT ![t] = [@ EXCEPT !.pc = "completeCanceled", !.after = pc]]
      BY <1>2 DEF CancelForQueue
    <3> QED BY <3>1 DEF Moves, FrameOK, SoundFrame, Frame
  <2> QED BY <2>1, ReturnFacts, ClosedGoesOn
<1> QED BY <1>1, <1>2

(* A thread in the loop stays on its way.                                   *)
LEMMA ClosedBusy ==
  ASSUME FrameOK, ClosedInv, NEW t \in Threads, Busy(frame[t]), Busy(frame'[t]), Moves(t),
         frame'[t].after = frame[t].after, frame'[t].op = frame[t].op,
         UNCHANGED lifeVars, StaysClosed
  PROVE  ClosedInv'
<1>1. frame'[t].pc \notin {"idle", "setDisposing"}
  BY DEF Busy, LockedPoints
<1> QED BY <1>1, ClosedGoesOn DEF ClosedInv, DisposeOK

(* The loop.                                                                *)
LEMMA ClosedLoop ==
  ASSUME TypeOK, FrameOK, ClosedInv, NEW t \in Threads, DispatchStep(t)
  PROVE  ClosedInv'
<1>1. CASE DeleteQueue(t)
  <2>1. /\ Moves(t) /\ frame'[t].op = frame[t].op
    BY <1>1 DEF DeleteQueue, UnlockTo, Moves, FrameOK, SoundFrame, Frame
  <2>2. disposing /\ UNCHANGED <<disposing, queueState>>
    BY <1>1 DEF DeleteQueue, AtTurn, Turn, gateVars
  <2> QED BY <2>1, <2>2, ClosedForGood DEF ClosedInv, BeingDisposed
<1>2. CASE ~DeleteQueue(t)
  <2>0. UNCHANGED <<lifeVars, queueState>> /\ StaysClosed
    BY <1>2 DEF DispatchStep, EnterDispatchEvents, EnterDeleted, EnterDeferred, InsertNewRequest,
       Relock, LeaveDispatchEvents, ProcessCancelledRequests, ProcessCancelledRequestsOnQueue,
       ProcessIdleComplete, ProcessPurgeComplete, ProcessReadyNotify, PowerDereference,
       PresentNew, PresentNext, PresentTaken, StartingTransition, BeginNotifying, NotifyStop,
       NotifyResume, PowerOn, CollectAcknowledged, ProcessAcknowledgedRequest,
       RequeueAcknowledged, AwaitAcknowledge, gateVars, StaysClosed
  <2>1. Busy(frame[t]) /\ frame[t].after \in FreePoints
    <3>1. Busy(frame[t])
      BY DEF DispatchStep, EnterDispatchEvents, EnterDeleted, EnterDeferred, InsertNewRequest,
         Relock, LeaveDispatchEvents, ProcessCancelledRequests, ProcessCancelledRequestsOnQueue,
         ProcessIdleComplete, ProcessPurgeComplete, ProcessReadyNotify, PowerDereference,
         DeleteQueue, PresentNew, PresentNext, PresentTaken, StartingTransition, BeginNotifying,
         NotifyStop, NotifyResume, PowerOn, CollectAcknowledged, ProcessAcknowledgedRequest,
         RequeueAcknowledged, AwaitAcknowledge, AtTurn, LockedPoints, Busy
    <3> QED BY <3>1, FrameFields
  <2>2. ASSUME NEW why, NEW r, Window(t, why, r)
        PROVE  ClosedInv'
    <3>1. /\ Moves(t) /\ frame'[t].pc = "window"
          /\ frame'[t].after = frame[t].after /\ frame'[t].op = frame[t].op
      BY <2>2 DEF Window, Moves, FrameOK, SoundFrame, Frame
    <3> QED BY <2>0, <2>1, <3>1, ClosedBusy DEF Busy
  <2>3. ASSUME NEW pc \in {"dispatch", "ackLoop"}, Go(t, pc)
        PROVE  ClosedInv'
    <3>1. /\ Moves(t) /\ frame'[t].pc = pc
          /\ frame'[t].after = frame[t].after /\ frame'[t].op = frame[t].op
      BY <2>3 DEF Go, Moves, FrameOK, SoundFrame, Frame
    <3> QED BY <2>0, <2>1, <3>1, ClosedBusy DEF Busy, LockedPoints
  <2>4. Returns(t, frame[t].after)
    BY <2>1 DEF Returns
  <2>5. ASSUME UnlockTo(t, frame[t].after)
        PROVE  ClosedInv'
    BY <2>0, <2>1, <2>4, <2>5, ClosedUnlock
  <2>6. ASSUME UNCHANGED frame
        PROVE  ClosedInv'
    BY <2>0, <2>6, ClosedStays
  <2>7. CASE EnterDeleted(t)
    <3>1. ASSUME NEW pc \in {"started", "off"}, UnlockTo(t, pc)
          PROVE  ClosedInv'
      <4>1. pc \in FreePoints /\ Returns(t, pc) /\ pc # "completeCanceled"
        BY DEF FreePoints, Returns
      <4> QED BY <2>0, <3>1, <4>1, ClosedUnlock
    <3> QED BY <2>5, <2>7, <3>1 DEF EnterDeleted
  <2>8. CASE EnterDeferred(t)
    <3>1. frame' = [frame EXCEPT ![t] = [@ EXCEPT !.pc = frame[t].after, !.new = NoRequest]]
      BY <2>8 DEF EnterDeferred
    <3>2. /\ Moves(t) /\ frame'[t].pc = frame[t].after
          /\ frame'[t].after = frame[t].after /\ frame'[t].op = frame[t].op
      BY <3>1 DEF Moves, FrameOK, SoundFrame, Frame
    <3> QED BY <2>0, <2>1, <2>4, <3>2, ClosedReturn
  <2>9. CASE InsertNewRequest(t)
    <3>1. CASE req[frame[t].new].cancel
      BY <2>2, <2>9, <3>1 DEF InsertNewRequest
    <3>2. CASE ~req[frame[t].new].cancel
      <4>1. frame' = [frame EXCEPT ![t].new = NoRequest]
        BY <2>9, <3>2 DEF InsertNewRequest
      <4>2. /\ Moves(t) /\ frame'[t].pc = frame[t].pc
            /\ frame'[t].after = frame[t].after /\ frame'[t].op = frame[t].op
        BY <4>1 DEF Moves, FrameOK, SoundFrame, Frame
      <4> QED BY <2>0, <2>1, <4>2, ClosedBusy DEF Busy
    <3> QED BY <3>1, <3>2
  <2>10. CASE Relock(t)
    <3>1. /\ Moves(t) /\ frame'[t].pc \in LockedPoints
          /\ frame'[t].after = frame[t].after /\ frame'[t].op = frame[t].op
      BY <2>10 DEF Relock, Moves, FrameOK, SoundFrame, Frame, LockedPoints
    <3> QED BY <2>0, <2>1, <3>1, ClosedBusy DEF Busy
  <2>11. CASE EnterDispatchEvents(t) \/ CollectAcknowledged(t)
    BY <2>3, <2>11 DEF EnterDispatchEvents, CollectAcknowledged
  <2>12. CASE LeaveDispatchEvents(t) \/ StartingTransition(t) \/ PowerOn(t) \/ AwaitAcknowledge(t)
    BY <2>5, <2>6, <2>12 DEF LeaveDispatchEvents, StartingTransition, PowerOn, AwaitAcknowledge
  <2>13. CASE ProcessCancelledRequests(t) \/ ProcessCancelledRequestsOnQueue(t)
    BY <2>2, <2>3, <2>13 DEF ProcessCancelledRequests, ProcessCancelledRequestsOnQueue
  <2>14. CASE ProcessIdleComplete(t) \/ ProcessPurgeComplete(t) \/ ProcessReadyNotify(t)
    BY <2>2, <2>14 DEF ProcessIdleComplete, ProcessPurgeComplete, ProcessReadyNotify
  <2>15. CASE PowerDereference(t) \/ BeginNotifying(t) \/ NotifyStop(t) \/ NotifyResume(t)
    BY <2>2, <2>6, <2>15 DEF PowerDereference, BeginNotifying, NotifyStop, NotifyResume
  <2>16. CASE PresentNew(t) \/ PresentNext(t) \/ PresentTaken(t)
    BY <2>2, <2>16 DEF PresentNew, PresentNext, PresentTaken, Present
  <2>17. CASE ProcessAcknowledgedRequest(t) \/ RequeueAcknowledged(t)
    BY <2>2, <2>3, <2>17 DEF ProcessAcknowledgedRequest, RequeueAcknowledged
  <2> QED BY <1>2, <2>7, <2>8, <2>9, <2>10, <2>11, <2>12, <2>13, <2>14, <2>15, <2>16, <2>17
          DEF DispatchStep
<1> QED BY <1>1, <1>2

(* The later steps of an operation.                                         *)
LEMMA ClosedOperation ==
  ASSUME TypeOK, FrameOK, ClosedInv, NEW t \in Threads,
         \/ CompleteCanceled(t) \/ DrainQueue(t) \/ DrainDriver(t) \/ DrainCancelForDriver(t)
         \/ LockAndEnter(t) \/ SetDisposing(t) \/ FinishDisposing(t)
  PROVE  ClosedInv'
<1>1. {"drainQueue", "drainDriver", "cancelDriver", "lockEnter"} \subseteq FreePoints
  BY DEF FreePoints
<1>2. ASSUME NEW pc \in {"drainQueue", "drainDriver", "cancelDriver", "lockEnter"}
      PROVE  pc \in FreePoints \ {"completeCanceled"} /\ Returns(t, pc)
  BY <1>1 DEF Returns
<1>3. CASE CompleteCanceled(t)
  <2>1. Returns(t, frame[t].after) /\ frame[t].after \in FreePoints
    BY <1>3, FrameFields DEF CompleteCanceled, Returns, Busy
  <2>2. UNCHANGED lifeVars /\ StaysClosed
    BY <1>3 DEF CompleteCanceled, gateVars, StaysClosed
  <2> QED BY <1>3, <2>1, <2>2, ClosedInternal DEF CompleteCanceled
<1>4. CASE DrainQueue(t)
  <2>1. UNCHANGED lifeVars /\ StaysClosed
    BY <1>4 DEF DrainQueue, gateVars, StaysClosed
  <2>2. CASE Go(t, "drainDriver")
    BY <1>2, <2>1, <2>2, ClosedGo
  <2>3. CASE CancelForQueue(t, FirstLive, driverIoCount, "drainQueue")
    BY <1>2, <2>1, <2>3, ClosedCancel
  <2> QED BY <1>4, <2>2, <2>3 DEF DrainQueue
<1>5. CASE DrainDriver(t)
  <2>1. UNCHANGED lifeVars /\ StaysClosed
    BY <1>5 DEF DrainDriver, gateVars, StaysClosed
  <2>2. CASE Go(t, "lockEnter")
    BY <1>2, <2>1, <2>2, ClosedGo
  <2>3. CASE ~Go(t, "lockEnter")
    <3>1. PICK r \in Revocable : frame' = [frame EXCEPT ![t] = [@ EXCEPT !.pc = "cancelDriver", !.cur = r]]
      BY <1>5, <2>3 DEF DrainDriver
    <3>2. /\ Moves(t) /\ frame'[t].pc = "cancelDriver"
          /\ frame'[t].after = frame[t].after /\ frame'[t].op = frame[t].op
      BY <3>1 DEF Moves, FrameOK, SoundFrame, Frame
    <3> QED BY <1>2, <2>1, <3>2, ClosedReturn
  <2> QED BY <2>2, <2>3
<1>6. CASE DrainCancelForDriver(t)
  <2>1. UNCHANGED lifeVars /\ StaysClosed
    BY <1>6 DEF DrainCancelForDriver, gateVars, StaysClosed
  <2> QED BY <1>2, <1>6, <2>1, ClosedInternal DEF DrainCancelForDriver
<1>7. CASE LockAndEnter(t)
  <2>1. UNCHANGED lifeVars /\ StaysClosed
    BY <1>7 DEF LockAndEnter, gateVars, StaysClosed
  <2>2. /\ Moves(t) /\ frame'[t].pc = "enter"
        /\ frame'[t].op = "dispose" <=> frame[t].op = "dispose"
        /\ frame'[t].after = "setDisposing" => frame[t].op = "dispose"
        /\ frame[t].op = "dispose" => frame'[t].after = "setDisposing"
    BY <1>7 DEF LockAndEnter, Moves, FrameOK, SoundFrame, Frame
  <2>3. frame[t].op = "dispose" => t \in Workers /\ BeingDisposed
    BY DEF ClosedInv, DisposeOK, BeingDisposed
  <2> QED BY <2>1, <2>2, <2>3, ClosedGoesOn
<1>8. CASE SetDisposing(t)
  <2>1. disposing' /\ UNCHANGED queueState /\ frame[t].pc = "setDisposing"
    BY <1>8 DEF SetDisposing, gateVars
  <2>2. Moves(t) /\ frame'[t].op = frame[t].op
    BY <1>8 DEF SetDisposing, Enter, Moves, FrameOK, SoundFrame, Frame
  <2> QED BY <2>1, <2>2, ClosedForGood DEF ClosedInv, DisposeOK
<1>9. CASE FinishDisposing(t)
  <2>1. disposing /\ UNCHANGED <<disposing, queueState>>
    BY <1>9 DEF FinishDisposing, gateVars, lifeVars, ClosedInv
  <2>2. Moves(t) /\ frame'[t].op = frame[t].op
    BY <1>9 DEF FinishDisposing, Go, Moves, FrameOK, SoundFrame, Frame
  <2> QED BY <2>1, <2>2, ClosedForGood DEF ClosedInv, BeingDisposed
<1> QED BY <1>3, <1>4, <1>5, <1>6, <1>7, <1>8, <1>9

(* The deferred dispatcher and the power thread delete no queue, and a      *)
(* restart does not open one that is being deleted.                         *)
LEMMA ClosedPower ==
  ASSUME TypeOK, FrameOK, ClosedInv, DeferStep \/ PowerDown \/ PowerStep
  PROVE  ClosedInv'
<1>1. {"idle", "deferredEnd", "on", "waitStart", "started", "waitHold", "off", "purge",
       "drainQueue", "lockEnter", "waitPurge", "resumed"} \subseteq FreePoints \ {"completeCanceled"}
  BY DEF FreePoints
<1>2. /\ DeferThread \in Threads \ Workers /\ PowerThread \in Threads \ Workers
  BY ThreadAssumption DEF Threads
<1>3. UNCHANGED lifeVars /\ StaysClosed
  BY DEF DeferStep, PowerDown, PowerStep, DeferredDispatch, DeferredEnd, StartPowerTransitionOff,
     SetStateForShutdown, WaitPowerIdle, StopProcessingForPowerHold, PowerPurge, BeginPurge,
     StopProcessingForPowerPurge, ResetStateForRestart, ResumeProcessingForPower,
     StartPowerTransitionOn, gateVars, StaysClosed
<1>4. ASSUME NEW t \in Threads \ Workers, NEW pc \in FreePoints \ {"completeCanceled", "setDisposing"}
      PROVE  Returns(t, pc)
  BY DEF Returns
<1>5. ASSUME NEW pc \in {"deferredEnd"}, Enter(DeferThread, NoRequest, pc)
      PROVE  ClosedInv'
  BY <1>1, <1>2, <1>3, <1>4, <1>5, ClosedEnter
<1>6. ASSUME NEW pc \in {"waitStart", "waitHold", "waitPurge", "resumed", "on"}, PowerEnter(pc)
      PROVE  ClosedInv'
  BY <1>1, <1>2, <1>3, <1>4, <1>6, ClosedEnter DEF PowerEnter
<1>7. ASSUME NEW pc \in {"started", "off", "purge", "on"}, Go(PowerThread, pc)
      PROVE  ClosedInv'
  BY <1>1, <1>2, <1>3, <1>4, <1>7, ClosedGo
<1>8. ASSUME UNCHANGED frame
      PROVE  ClosedInv'
  BY <1>3, <1>8, ClosedStays
<1>9. CASE DeferStep
  <2>1. CASE DeferredDispatch
    BY <1>5, <2>1 DEF DeferredDispatch
  <2>2. CASE DeferredEnd
    BY <1>1, <1>2, <1>3, <1>4, <2>2, ClosedGo DEF DeferredEnd
  <2> QED BY <1>9, <2>1, <2>2 DEF DeferStep
<1>10. CASE PowerDown
  BY <1>6, <1>7, <1>10 DEF PowerDown, StartPowerTransitionOff, SetStateForShutdown
<1>11. CASE PowerPurge
  <2> DEFINE pc == "drainQueue"
  <2>1. frame' = [frame EXCEPT ![PowerThread] = [@ EXCEPT !.pc = pc, !.op = "powerPurge"]]
    BY <1>11 DEF PowerPurge, BeginPurge
  <2>2. /\ Moves(PowerThread) /\ frame'[PowerThread].pc = pc
        /\ frame'[PowerThread].after = frame[PowerThread].after
        /\ frame'[PowerThread].op = "powerPurge"
    BY <1>2, <2>1 DEF Moves, FrameOK, SoundFrame, Frame
  <2>3. ~Busy(frame'[PowerThread]) /\ frame[PowerThread].op # "dispose"
    BY <1>2, <2>2 DEF Busy, LockedPoints, ClosedInv, DisposeOK
  <2>4. frame[PowerThread].after = "setDisposing" => BeingDisposed
    BY <1>2 DEF ClosedInv, DisposeOK
  <2> QED BY <1>2, <1>3, <2>2, <2>3, <2>4, ClosedGoesOn
<1>12. CASE PowerStep /\ ~PowerPurge
  BY <1>6, <1>7, <1>8, <1>12 DEF PowerStep, WaitPowerIdle, StopProcessingForPowerHold,
     StopProcessingForPowerPurge, ResetStateForRestart, ResumeProcessingForPower,
     StartPowerTransitionOn
<1> QED BY <1>9, <1>10, <1>11, <1>12

(* Nor does the driver while it deletes the queue.                          *)
LEMMA ClosedDriver ==
  ASSUME TypeOK, FrameOK, ClosedInv, NEW t \in Workers, DriverCall(t)
  PROVE  ClosedInv'
<1>1. t \in Threads /\ frame[t].pc = "idle" /\ UNCHANGED lifeVars
  BY DEF Threads, DriverCall, QueueStart, QueueIdle, QueuePurge, BeginPurge, Dispose,
     ReadyNotify, Idle
<1>2. /\ Returns(t, "idle") /\ Returns(t, "lockEnter") /\ "lockEnter" \in FreePoints
      /\ frame[t].op = "dispose" => disposing
      /\ frame[t].after = "setDisposing" => BeingDisposed
  BY <1>1 DEF Returns, ClosedInv, DisposeOK, FreePoints
<1>3. CASE QueueStart(t)
  BY <1>1, <1>2, <1>3, ClosedEnter DEF QueueStart, StaysClosed
<1>4. ASSUME NEW b \in BOOLEAN, ReadyNotify(t, b)
      PROVE  ClosedInv'
  BY <1>1, <1>2, <1>4, ClosedEnter DEF ReadyNotify, gateVars, StaysClosed
<1>5. ASSUME NEW pc \in {"drainQueue", "lockEnter"}, NEW op \in {"stop", "purge"},
             frame' = [frame EXCEPT ![t] = [@ EXCEPT !.pc = pc, !.op = op]],
             disposing \/ frame[t].op # "dispose", StaysClosed
      PROVE  ClosedInv'
  <2>1. /\ Moves(t) /\ frame'[t].pc = pc /\ frame'[t].after = frame[t].after
        /\ frame'[t].op = op
    BY <1>1, <1>5 DEF Moves, FrameOK, SoundFrame, Frame
  <2>2. ~Busy(frame'[t])
    BY <2>1 DEF Busy, LockedPoints
  <2> QED BY <1>1, <1>2, <1>5, <2>1, <2>2, ClosedGoesOn
<1>6. ASSUME NEW b \in BOOLEAN, NEW c \in BOOLEAN, QueueIdle(t, b, c)
      PROVE  ClosedInv'
  <2>1. StaysClosed /\ frame[t].op # "dispose"
    BY <1>6 DEF QueueIdle, StaysClosed, BeingDisposed
  <2>2. CASE Go(t, "lockEnter")
    BY <1>1, <1>2, <2>1, <2>2, ClosedGo
  <2>3. CASE ~Go(t, "lockEnter")
    BY <1>5, <1>6, <2>1, <2>3 DEF QueueIdle
  <2> QED BY <2>2, <2>3
<1>7. ASSUME NEW b \in BOOLEAN, NEW c \in BOOLEAN, QueuePurge(t, b, c)
      PROVE  ClosedInv'
  <2>1. StaysClosed
    BY <1>7 DEF QueuePurge, BeginPurge, StaysClosed
  <2> QED BY <1>2, <1>5, <1>7, <2>1 DEF QueuePurge, BeginPurge
<1>8. CASE Dispose(t)
  <2>1. frame' = [frame EXCEPT ![t] = [@ EXCEPT !.pc = "drainQueue", !.op = "dispose"]]
    BY <1>8 DEF Dispose, BeginPurge
  <2>2. /\ Moves(t) /\ frame'[t].pc = "drainQueue" /\ frame'[t].op = "dispose"
    BY <1>1, <2>1 DEF Moves, FrameOK, SoundFrame, Frame
  <2>3. BeingDisposed' /\ "Accept" \notin queueState' /\ UNCHANGED <<disposing, deleted>>
    BY <1>8, <2>2 DEF BeingDisposed, Dispose, BeginPurge, lifeVars
  <2>4. DisposeOK(t)'
    BY <2>2, <2>3 DEF DisposeOK, Busy, LockedPoints
  <2> QED BY <1>1, <2>2, <2>3, <2>4, ClosedMoves DEF ClosedInv
<1> QED BY <1>3, <1>4, <1>6, <1>7, <1>8 DEF DriverCall

(* Requests come, are cancelled and are given back by idle threads.         *)
LEMMA ClosedRequests ==
  ASSUME TypeOK, FrameOK, ClosedInv, NEW r \in Requests,
         \/ \E t \in Workers : QueueRequest(t, r)
         \/ CancelIrp(r) \/ CancelStep(r) \/ DriverStep(r) \/ FinishStep(r) \/ GetRequest
  PROVE  ClosedInv'
<1>0. UNCHANGED lifeVars /\ StaysClosed
  BY DEF QueueRequest, CancelIrp, CancelStep, IrpCancelForQueue, IrpCancelForDriver,
     CancelForDriver, DriverStep, StopAcknowledge, CompleteRequest, MarkCancelable,
     UnmarkCancelable, Requeue, ForwardBegin, ForwardRefused, FinishStep,
     RequestCompletedCallback, ForwardDone, GetRequest, gateVars, StaysClosed
<1>1. ASSUME UNCHANGED frame
      PROVE  ClosedInv'
  BY <1>0, <1>1, ClosedStays
<1>2. ASSUME DispatchInternalEventsAny
      PROVE  ClosedInv'
  BY <1>0, <1>2, ClosedAny
<1>3. ASSUME NEW t \in Workers, Idle(t), NEW n, Enter(t, n, "idle")
      PROVE  ClosedInv'
  <2>1. t \in Threads /\ Returns(t, "idle")
    BY <1>3 DEF Threads, Idle, Returns
  <2> QED BY <1>0, <1>3, <2>1, ClosedEnter
<1>4. ASSUME NEW t \in Workers, Idle(t), NEW n, NEW pc \in {"idle", "lockEnter"},
             CancelForQueue(t, r, n, pc)
      PROVE  ClosedInv'
  <2>1. t \in Threads /\ Returns(t, pc) /\ pc \in FreePoints \ {"completeCanceled"}
    BY <1>4 DEF Threads, Idle, Returns, FreePoints
  <2> QED BY <1>0, <1>4, <2>1, ClosedCancel
<1>5. CASE \E t \in Workers : QueueRequest(t, r)
  BY <1>1, <1>3, <1>5 DEF QueueRequest
<1>6. CASE CancelIrp(r) \/ GetRequest
  BY <1>1, <1>6 DEF CancelIrp, GetRequest
<1>7. CASE CancelStep(r)
  BY <1>1, <1>2, <1>4, <1>7 DEF CancelStep, IrpCancelForQueue, IrpCancelForDriver, CancelForDriver
<1>8. CASE DriverStep(r)
  BY <1>1, <1>3, <1>4, <1>8 DEF DriverStep, StopAcknowledge, CompleteRequest, MarkCancelable,
     UnmarkCancelable, Requeue, ForwardBegin, ForwardRefused
<1>9. CASE FinishStep(r)
  BY <1>2, <1>9 DEF FinishStep, RequestCompletedCallback, ForwardDone
<1> QED BY <1>5, <1>6, <1>7, <1>8, <1>9

-----------------------------------------------------------------------------
(* The inductive invariant.                                                 *)

LEMMA OwnerInit == Init => OwnerInv
<1> SUFFICES ASSUME Init
             PROVE  OwnerInv
  OBVIOUS
<1>1. ASSUME NEW t \in Threads
      PROVE  /\ frame[t].pc \in {"on", "idle"} /\ frame[t].after = "idle"
             /\ frame[t].op = "none" /\ frame[t].why = "none"
             /\ frame[t].new = NoRequest /\ frame[t].cur = NoRequest
  BY DEF Init
<1>2. ASSUME NEW r \in Requests
      PROVE  /\ req[r].irp = "new" /\ req[r].list = "none" /\ req[r].drv = "fx"
             /\ req[r].ack = "none"
  BY DEF Init
<1>3. LockInv
  BY <1>1 DEF LockInv, LockedPoints
<1>4. ClosedInv
  <2>1. Workers \subseteq Threads
    BY DEF Threads
  <2>2. ~BeingDisposed /\ ~deleted
    BY <1>1, <2>1 DEF BeingDisposed, Init
  <2> QED BY <1>1, <2>2 DEF ClosedInv, DisposeOK
<1>5. QueueInv
  BY DEF Init, QueueInv, Distinct
<1>6. CountInv
  <2>1. {r \in Requests : Listed(r)} = {}
    BY <1>2 DEF Listed
  <2> QED BY <2>1, FS_EmptySet DEF CountInv, Init
<1>7. RequestInv
  <2>1. \A t \in Threads : Idles(frame[t])
    BY <1>1 DEF Idles, Hand, Returning, Cancelling
  <2>2. ASSUME NEW r \in Requests
        PROVE  RequestOK(r)
    <3>1. /\ \A t \in Threads : /\ Hand(frame[t]) # r /\ Returning(frame[t]) # r
                                /\ Cancelling(frame[t]) # r
      BY <2>1, ThreadAssumption DEF Idles
    <3>2. /\ ~Queued(r)
          /\ r \notin cancelable \cup cancelCalls \cup cancelled \cup canceledOnQueue \cup routineRunning
      BY DEF Init, Queued, Elements
    <3> QED BY <1>2, <3>1, <3>2 DEF RequestOK, PlaceOK, DriverOK, ReturnOK, PathOK, Listed
  <2> QED BY <2>2 DEF RequestInv
<1> QED BY <1>3, <1>4, <1>5, <1>6, <1>7 DEF OwnerInv

LEMMA OwnerStep == TypeInv /\ OwnerInv /\ [Next]_vars => OwnerInv'
<1> SUFFICES ASSUME TypeInv, OwnerInv, [Next]_vars
             PROVE  OwnerInv'
  OBVIOUS
<1>0. /\ TypeOK /\ FrameOK
      /\ LockInv /\ ClosedInv /\ BodyInv
  BY DEF TypeInv, OwnerInv, BodyInv
<1>1. ASSUME LockInv', ClosedInv', BodyInv'
      PROVE  OwnerInv'
  BY <1>1 DEF OwnerInv, BodyInv
<1>2. ASSUME NEW t \in Threads, ThreadStep(t)
      PROVE  OwnerInv'
  <2>1. CASE DispatchStep(t)
    <3>1. ClosedInv'
      BY <1>0, <2>1, ClosedLoop
    <3>2. LockInv' /\ BodyInv'
      BY <1>0, <2>1, LoopQuiet, InsertOwner, CancelledOwner, PresentOwner, PresentNextOwner,
         NotifyOwner, AcknowledgedOwner, RequeueOwner DEF DispatchStep
    <3> QED BY <1>1, <3>1, <3>2
  <2>2. CASE ~DispatchStep(t)
    <3>1. ClosedInv'
      BY <1>0, <1>2, <2>2, ClosedOperation DEF ThreadStep
    <3>2. LockInv' /\ BodyInv'
      BY <1>0, <1>2, <2>2, OperationQuiet, DrainQueueOwner, DrainDriverOwner, DrainCancelOwner
         DEF ThreadStep
    <3> QED BY <1>1, <3>1, <3>2
  <2> QED BY <2>1, <2>2
<1>3. CASE DeferStep \/ PowerDown \/ PowerStep
  BY <1>0, <1>1, <1>3, ClosedPower, PowerQuiet
<1>4. ASSUME NEW t \in Workers, DriverCall(t)
      PROVE  OwnerInv'
  BY <1>0, <1>1, <1>4, ClosedDriver, DriverCallQuiet
<1>5. ASSUME NEW t \in Workers, NEW r \in Requests, QueueRequest(t, r)
      PROVE  OwnerInv'
  <2>1. ClosedInv'
    BY <1>0, <1>5, ClosedRequests
  <2>2. LockInv' /\ BodyInv'
    BY <1>0, <1>5, ArriveOwner
  <2> QED BY <1>1, <2>1, <2>2
<1>6. ASSUME NEW r \in Requests, CancelIrp(r) \/ CancelStep(r) \/ DriverStep(r) \/ FinishStep(r)
      PROVE  OwnerInv'
  <2>1. ClosedInv'
    BY <1>0, <1>6, ClosedRequests
  <2>2. CASE CancelIrp(r) \/ CancelStep(r)
    BY <1>0, <1>1, <2>1, <2>2, CancelOwner
  <2>3. CASE DriverStep(r)
    BY <1>0, <1>1, <2>1, <2>3, AcknowledgeOwner, CompleteOwner, MarkOwner, DriverRequeueOwner,
       ForwardOwner DEF DriverStep
  <2>4. CASE FinishStep(r)
    BY <1>0, <1>1, <2>1, <2>4, CompleteOwner, ForwardOwner DEF FinishStep
  <2> QED BY <1>6, <2>2, <2>3, <2>4
<1>7. CASE GetRequest
  <2>1. UNCHANGED <<frame, lifeVars>> /\ StaysClosed
    BY <1>7 DEF GetRequest, gateVars, StaysClosed
  <2> QED BY <1>0, <1>1, <1>7, <2>1, ClosedStays, RetrieveOwner
<1>8. CASE UNCHANGED vars
  BY <1>8 DEF vars, cancelVars, lifeVars, gateVars, OwnerInv, LockInv, ClosedInv, BeingDisposed,
     DisposeOK, Busy, QueueInv, Distinct, CountInv, Listed, RequestInv, RequestOK, PlaceOK, Loose,
     Queued, Elements, DriverOK, ReturnOK, Neither, PathOK
<1> QED BY <1>2, <1>3, <1>4, <1>5, <1>6, <1>7, <1>8 DEF Next

(* OwnerInv holds in every reachable state.                                 *)
THEOREM OwnerCorrect == Spec => [](TypeInv /\ OwnerInv)
BY TypeInit, TypeStep, OwnerInit, OwnerStep, PTL DEF Spec

-----------------------------------------------------------------------------
(* What it says of the invariants that TLC checks.                          *)

LEMMA OnlyOne ==
  ASSUME NEW S, NEW x \in S, \A y \in S : y = x
  PROVE  Cardinality(S) = 1
<1>1. S = {x}
  OBVIOUS
<1> QED BY <1>1, FS_Singleton

LEMMA HandPlaces ==
  ASSUME TypeInv, OwnerInv, NEW r \in Requests
  PROVE  Cardinality({t \in Threads : frame[t].new = r})
         + Cardinality({t \in Threads : frame[t].cur = r /\
                          (frame[t].pc = "present" \/ frame[t].why = "insertFailedPresent")})
         = IF \E t \in Threads : Hand(frame[t]) = r THEN 1 ELSE 0
<1> DEFINE A == {t \in Threads : frame[t].new = r}
           B == {t \in Threads : frame[t].cur = r /\
                   (frame[t].pc = "present" \/ frame[t].why = "insertFailedPresent")}
<1>1. ASSUME NEW t \in Threads
      PROVE  /\ Hand(frame[t]) = r <=> t \in A \cup B
             /\ ~(t \in A /\ t \in B)
  <2>1. frame[t].pc = "present" \/ frame[t].why = "insertFailedPresent" => frame[t].new = NoRequest
    BY DEF TypeInv, FrameOK, SoundFrame, OwnerInv, LockInv
  <2>2. r # NoRequest
    BY ThreadAssumption
  <2> QED BY <2>1, <2>2 DEF Hand
<1>2. \A t, u \in Threads : Hand(frame[t]) = r /\ Hand(frame[u]) = r => t = u
  BY DEF OwnerInv, RequestInv, RequestOK, PlaceOK
<1>3. CASE \E t \in Threads : Hand(frame[t]) = r
  <2>1. PICK t \in Threads : Hand(frame[t]) = r
    BY <1>3
  <2>2. CASE t \in A
    <3>1. B = {} /\ \A u \in A : u = t
      BY <1>1, <1>2, <2>1, <2>2
    <3>2. Cardinality(A) = 1 /\ Cardinality(B) = 0
      BY <2>2, <3>1, OnlyOne, FS_EmptySet
    <3> QED BY <1>3, <3>2
  <2>3. CASE t \in B
    <3>1. A = {} /\ \A u \in B : u = t
      BY <1>1, <1>2, <2>1, <2>3
    <3>2. Cardinality(B) = 1 /\ Cardinality(A) = 0
      BY <2>3, <3>1, OnlyOne, FS_EmptySet
    <3> QED BY <1>3, <3>2
  <2> QED BY <1>1, <2>1, <2>2, <2>3
<1>4. CASE ~ \E t \in Threads : Hand(frame[t]) = r
  <2>1. A = {} /\ B = {}
    BY <1>1, <1>4
  <2>2. Cardinality(A) = 0 /\ Cardinality(B) = 0
    BY <2>1, FS_EmptySet
  <2> QED BY <1>4, <2>2
<1> QED BY <1>3, <1>4

(* A pending request is in exactly one place, and a completed one in none,  *)
(* in every queue: m_Queue, an owner list or the hands of one thread,       *)
(* whatever threads complete, cancel, requeue, forward or purge it.         *)
THEOREM OwnedOnce == Spec => []OneOwner
<1>1. TypeInv /\ OwnerInv => OneOwner
  <2> SUFFICES ASSUME TypeInv, OwnerInv, NEW r \in Requests
               PROVE  Places(r) = CASE req[r].irp = "sent" -> 1
                                    [] req[r].irp = "done" /\ req[r].drv = "completing" -> 1
                                    [] OTHER -> 0
    BY DEF OneOwner
  <2> DEFINE Q == {i \in 1..Len(queue) : queue[i] = r}
             H == \E t \in Threads : Hand(frame[t]) = r
  <2>1. Cardinality(Q) = IF Queued(r) THEN 1 ELSE 0
    <3>1. CASE Queued(r)
      <4>1. PICK i \in Q : TRUE
        BY <3>1 DEF Queued, Elements
      <4>2. \A j \in Q : j = i
        BY DEF OwnerInv, QueueInv, Distinct
      <4> QED BY <3>1, <4>1, <4>2, OnlyOne
    <3>2. CASE ~Queued(r)
      <4>1. Q = {}
        BY <3>2 DEF Queued, Elements
      <4> QED BY <3>2, <4>1, FS_EmptySet
    <3> QED BY <3>1, <3>2
  <2>2. Places(r) = (IF Queued(r) THEN 1 ELSE 0) + (IF Listed(r) THEN 1 ELSE 0) + (IF H THEN 1 ELSE 0)
    <3> DEFINE A == Cardinality({t \in Threads : frame[t].new = r})
               B == Cardinality({t \in Threads : frame[t].cur = r /\
                          (frame[t].pc = "present" \/ frame[t].why = "insertFailedPresent")})
    <3>1. A + B = IF H THEN 1 ELSE 0
      BY HandPlaces
    <3>2. Places(r) = (IF Queued(r) THEN 1 ELSE 0) + (IF Listed(r) THEN 1 ELSE 0) + A + B
      BY <2>1 DEF Places, Listed
    <3>3. A \in Nat /\ B \in Nat
      BY ThreadsFinite, FS_Subset, FS_CardinalityType
    <3> HIDE DEF A, B, H
    <3> QED BY <3>1, <3>2, <3>3
  <2>3. RequestOK(r) /\ req[r] \in Request
    BY DEF OwnerInv, RequestInv, TypeInv, TypeOK
  <2>4. CASE req[r].irp = "sent"
    <3>1. (Queued(r) \/ H => ~Listed(r)) /\ ~(Queued(r) /\ H) /\ (Queued(r) \/ Listed(r) \/ H)
      BY <2>3, <2>4 DEF RequestOK, PlaceOK, Loose, Listed
    <3> QED BY <2>2, <2>4, <3>1
  <2>5. CASE req[r].irp # "sent"
    <3>1. ~Queued(r) /\ ~H
      BY <2>3, <2>5 DEF RequestOK, PlaceOK, Loose
    <3>2. Listed(r) <=> req[r].irp = "done" /\ req[r].drv = "completing"
      BY <2>3, <2>5 DEF RequestOK, DriverOK, Listed, Request
    <3> QED BY <2>2, <2>5, <3>1, <3>2
  <2> QED BY <2>4, <2>5
<1> QED BY <1>1, OwnerCorrect, PTL

(* m_DriverIoCount is the number of requests the driver owns or forwards:   *)
(* the waits of purge, stop, power down and deletion end neither early nor  *)
(* never.                                                                   *)
THEOREM CountedExactly == Spec => []CountExact
<1>1. TypeInv /\ OwnerInv => CountExact
  <2> SUFFICES ASSUME TypeInv, OwnerInv
               PROVE  CountExact
    OBVIOUS
  <2> DEFINE A == {r \in Requests : req[r].list # "none"}
             B == {r \in Requests : req[r].drv = "forwarding"}
  <2>1. A \cap B = {}
    BY DEF OwnerInv, RequestInv, RequestOK, DriverOK
  <2>2. {r \in Requests : Listed(r)} = A \cup B
    BY DEF Listed
  <2>3. IsFiniteSet(A) /\ IsFiniteSet(B)
    BY ThreadAssumption, FS_Subset
  <2>4. Cardinality(A) \in Nat /\ Cardinality(B) \in Nat
    BY <2>3, FS_CardinalityType
  <2>5. Cardinality(A \cup B) = Cardinality(A) + Cardinality(B) - Cardinality(A \cap B)
    BY <2>3, FS_Union
  <2>6. Cardinality(A \cap B) = 0
    BY <2>1, FS_EmptySet
  <2>7. driverIoCount = Cardinality(A \cup B)
    BY <2>2 DEF OwnerInv, CountInv
  <2>8. driverIoCount = Cardinality(A) + Cardinality(B)
    <3> HIDE DEF A, B
    <3> QED BY <2>4, <2>5, <2>6, <2>7
  <2> QED BY <2>8 DEF CountExact
<1> QED BY <1>1, OwnerCorrect, PTL

(* A request that the driver marked cancelable is cancelable or in exactly  *)
(* one step of being cancelled, in every queue: its EvtRequestCancel runs   *)
(* once, and a cancel routine that was taken finds its request.             *)
THEOREM CancelledOnce == Spec => []OneCancelPath
<1>1. TypeInv /\ OwnerInv => OneCancelPath
  <2> SUFFICES ASSUME TypeInv, OwnerInv
               PROVE  OneCancelPath
    OBVIOUS
  <2> DEFINE C == {frame[t].cur : t \in {u \in Threads : frame[u].pc = "cancelDriver"}}
  <2>1. ASSUME NEW r \in Requests
        PROVE  Cardinality({S \in {1, 2, 3, 4} :
                   r \in CASE S = 1 -> cancelable [] S = 2 -> cancelCalls [] S = 3 -> cancelled
                           [] OTHER -> C})
                 = IF req[r].drv = "cancelable" THEN 1 ELSE 0
    <3> DEFINE P == {S \in {1, 2, 3, 4} :
                       r \in CASE S = 1 -> cancelable [] S = 2 -> cancelCalls [] S = 3 -> cancelled
                               [] OTHER -> C}
    <3>1. r \in C <=> \E t \in Threads : Cancelling(frame[t]) = r
      BY ThreadAssumption DEF Cancelling
    <3>2. PathOK(r)
      BY DEF OwnerInv, RequestInv, RequestOK
    <3>3. /\ 1 \in P <=> r \in cancelable
          /\ 2 \in P <=> r \in cancelCalls
          /\ 3 \in P <=> r \in cancelled
          /\ 4 \in P <=> r \in C
          /\ P \subseteq {1, 2, 3, 4}
      OBVIOUS
    <3> HIDE DEF P, C
    <3>4. \A i, j \in P : i = j
      BY <3>1, <3>2, <3>3 DEF PathOK
    <3>5. P # {} <=> req[r].drv = "cancelable"
      BY <3>1, <3>2, <3>3 DEF PathOK
    <3>6. Cardinality(P) = IF P # {} THEN 1 ELSE 0
      BY <3>4, OnlyOne, FS_EmptySet
    <3> QED BY <3>5, <3>6 DEF P
  <2>2. routineRunning \subseteq Elements(queue) \cup cancelable
    BY DEF OwnerInv, RequestInv, RequestOK, PathOK, Queued, TypeInv, TypeOK
  <2> QED BY <2>1, <2>2 DEF OneCancelPath
<1> QED BY <1>1, OwnerCorrect, PTL

-----------------------------------------------------------------------------
(***************************************************************************)
(* What is left of the I/O when the queue says that it is done: after a    *)
(* purge and after deletion nothing, while power is off only what the      *)
(* driver acknowledged, and a power reference exactly as long as there is  *)
(* a request.                                                              *)
(*                                                                         *)
(* All of it rests on OwnerInv, which says where a pending request can be, *)
(* and on PowerInv, which says what no thread does while the last one in   *)
(* the loop decides.                                                       *)
(***************************************************************************)


(* The queue of a driver that takes requests only when they are presented   *)
(* to it and gives back only what it is asked to.                           *)
AckDemands ==
  /\ PowerManaged /\ ~HasCanceledOnQueue
  /\ Calls \cap {"Retrieve", "Requeue", "Forward"} = {}

InDriver(r) == req[r].drv \in {"held", "cancelable", "told"}

-----------------------------------------------------------------------------
(* What a step may do with a request.                                       *)

Same(r) == /\ req'[r].irp = req[r].irp /\ req'[r].ack = req[r].ack
           /\ req'[r].list = req[r].list /\ req'[r].drv = req[r].drv

(* It moves between the lists of a power change.                            *)
PowerListing(t) ==
  \/ BeginNotifying(t) \/ NotifyStop(t) \/ NotifyResume(t)
  \/ CollectAcknowledged(t) \/ ProcessAcknowledgedRequest(t)

Relists(r) == /\ req'[r].irp = req[r].irp /\ req'[r].drv = req[r].drv
              /\ \E t \in Threads : PowerListing(t)

Arrives(r) == /\ req[r].irp = "new" /\ req'[r].irp = "sent" /\ "Accept" \in queueState
              /\ req'[r].ack = req[r].ack /\ req'[r].list = req[r].list
              /\ req'[r].drv = req[r].drv

(* It is completed, by the framework or by the driver.                      *)
Ends(r) == /\ req'[r].irp = "done" /\ req'[r].ack = req[r].ack
           /\ req'[r].list \in {req[r].list, "none"}
           /\ req'[r].drv \in {"fx", "completing"}
           /\ req'[r].drv = "completing" => req[r].drv \in {"held", "told", "completing"}

Presented(r) == /\ req[r].irp = "sent" /\ req[r].list = "none"
                /\ req'[r].irp = "sent" /\ req'[r].ack = req[r].ack
                /\ req'[r].list = "owned" /\ req'[r].drv = "held"
                /\ \/ powerState = "On" \/ "Retrieve" \in Calls
                   \/ \E t \in Threads : Presents(frame[t])

(* The driver marks it, or hears that it is cancelled.                      *)
StaysInDriver(r) == /\ InDriver(r) /\ InDriver(r)'
                    /\ req'[r].irp = req[r].irp /\ req'[r].ack = req[r].ack
                    /\ req'[r].list = req[r].list

Acknowledged(r) == /\ InDriver(r) /\ req[r].list = "notified" /\ req'[r].list = "notified"
                   /\ req'[r].irp = req[r].irp /\ req'[r].ack # "none"
                   /\ req'[r].drv \in {req[r].drv, "fx"} /\ r \in stopAcked'

Requeues(r) == /\ \E t \in Threads : Returning(frame[t]) = r
               /\ req[r].drv = "fx" /\ req'[r].drv = "fx" /\ req'[r].list = "none"
               /\ req'[r].irp = req[r].irp /\ req'[r].ack = req[r].ack

(* What AckDemands excludes: it is requeued, forwarded or kept for          *)
(* EvtIoCanceledOnQueue.                                                    *)
Wanders(r) == /\ req'[r].irp = req[r].irp /\ req'[r].drv # "completing"
              /\ ~AckDemands \/ r \in canceledOnQueue \/ req[r].drv = "forwarding"

Fate(r) ==
  \/ Same(r) \/ Relists(r) \/ Arrives(r) \/ Ends(r) \/ Presented(r)
  \/ StaysInDriver(r) \/ Acknowledged(r) \/ Requeues(r) \/ Wanders(r)

(* A step that changes one request decides its fate alone.                  *)
LEMMA OneFate ==
  ASSUME TypeInv, NEW r \in Requests, NEW v, req' = [req EXCEPT ![r] = v], Fate(r)
  PROVE  \A s \in Requests : Fate(s)
<1>1. ASSUME NEW s \in Requests, s # r
      PROVE  Same(s)
  BY <1>1 DEF Same, TypeInv, TypeOK
<1> QED BY <1>1 DEF Fate

LEMMA NoFate ==
  ASSUME UNCHANGED req
  PROVE  \A s \in Requests : Fate(s)
BY DEF Fate, Same

(* It is refused, or completed by the framework.                            *)
LEMMA EndsFate ==
  ASSUME TypeInv, NEW r \in Requests,
         \/ req' = [req EXCEPT ![r].irp = "done"] /\ req[r].drv = "fx"
         \/ req' = [req EXCEPT ![r] = [@ EXCEPT !.canceled = TRUE, !.irp = "done",
                                   !.list = "none", !.drv = "fx"]]
         \/ req' = [req EXCEPT ![r] = [@ EXCEPT !.canceled = TRUE, !.irp = "done",
                                   !.list = "none"]] /\ req[r].drv = "fx"
         \/ req' = [req EXCEPT ![r] = [@ EXCEPT !.list = "none", !.drv = "fx"]]
              /\ req[r].irp = "done"
         \/ req' = [req EXCEPT ![r] = [@ EXCEPT !.irp = "done", !.drv = "fx"]]
         \/ req' = [req EXCEPT ![r] = [@ EXCEPT !.irp = "done", !.drv = "completing"]]
              /\ req[r].drv \in {"held", "told"}
  PROVE  \A s \in Requests : Fate(s)
<1>1. req[r] \in Request /\ req \in [Requests -> Request]
  BY DEF TypeInv, TypeOK
<1>2. Ends(r)
  <2>1. CASE req' = [req EXCEPT ![r].irp = "done"] /\ req[r].drv = "fx"
    BY <1>1, <2>1 DEF Ends, Request
  <2>2. CASE req' = [req EXCEPT ![r] = [@ EXCEPT !.canceled = TRUE, !.irp = "done",
                                       !.list = "none", !.drv = "fx"]]
    BY <1>1, <2>2 DEF Ends, Request
  <2>3. CASE req' = [req EXCEPT ![r] = [@ EXCEPT !.canceled = TRUE, !.irp = "done",
                                       !.list = "none"]] /\ req[r].drv = "fx"
    BY <1>1, <2>3 DEF Ends, Request
  <2>4. CASE req' = [req EXCEPT ![r] = [@ EXCEPT !.list = "none", !.drv = "fx"]]
               /\ req[r].irp = "done"
    BY <1>1, <2>4 DEF Ends, Request
  <2>5. CASE req' = [req EXCEPT ![r] = [@ EXCEPT !.irp = "done", !.drv = "completing"]]
               /\ req[r].drv \in {"held", "told"}
    BY <1>1, <2>5 DEF Ends, Request
  <2>6. CASE req' = [req EXCEPT ![r] = [@ EXCEPT !.irp = "done", !.drv = "fx"]]
    BY <1>1, <2>6 DEF Ends, Request
  <2> QED BY <2>1, <2>2, <2>3, <2>4, <2>5, <2>6
<1>3. \E v : req' = [req EXCEPT ![r] = v]
  OBVIOUS
<1> QED BY <1>2, <1>3, OneFate DEF Fate

(* It is presented to the driver.                                           *)
LEMMA PresentedFate ==
  ASSUME TypeInv, NEW r \in Requests, req[r].irp = "sent", req[r].list = "none",
         req' = [req EXCEPT ![r] = [@ EXCEPT !.list = "owned", !.drv = "held", !.presented = TRUE]],
         \/ powerState = "On" \/ "Retrieve" \in Calls
         \/ \E t \in Threads : Presents(frame[t])
  PROVE  \A s \in Requests : Fate(s)
<1>1. req[r] \in Request /\ req \in [Requests -> Request]
  BY DEF TypeInv, TypeOK
<1>2. Presented(r)
  BY <1>1 DEF Presented, Request
<1> QED BY <1>2, OneFate DEF Fate

(* Only m_Canceled changes.                                                 *)
LEMMA SameFate ==
  ASSUME TypeInv,
         \E r \in Requests : \/ req' = [req EXCEPT ![r].canceled = TRUE]
                             \/ req' = [req EXCEPT ![r].cancel = TRUE]
  PROVE  \A s \in Requests : Fate(s)
<1>1. PICK r \in Requests : \/ req' = [req EXCEPT ![r].canceled = TRUE]
                            \/ req' = [req EXCEPT ![r].cancel = TRUE]
  OBVIOUS
<1>2. req[r] \in Request /\ req \in [Requests -> Request]
  BY DEF TypeInv, TypeOK
<1>3. Same(r)
  BY <1>1, <1>2 DEF Same, Request
<1> QED BY <1>1, <1>3, OneFate DEF Fate

(* It is cancelled.                                                         *)
LEMMA CancelFate ==
  ASSUME TypeInv, NEW t, NEW r \in Requests, NEW n, NEW pc, CancelForQueue(t, r, n, pc)
  PROVE  \A s \in Requests : Fate(s)
<1>1. CASE GoesToDriver(r)
  <2>1. req' = [req EXCEPT ![r] = [@ EXCEPT !.canceled = TRUE, !.list = "owned", !.drv = "fx"]]
    BY <1>1 DEF CancelForQueue
  <2>2. req[r] \in Request /\ req \in [Requests -> Request]
    BY DEF TypeInv, TypeOK
  <2>3. ~AckDemands
    BY <1>1 DEF GoesToDriver, AckDemands
  <2>4. Wanders(r)
    BY <2>1, <2>2, <2>3 DEF Wanders, Request
  <2> QED BY <2>1, <2>4, OneFate DEF Fate
<1>2. CASE ~GoesToDriver(r)
  BY <1>2, EndsFate DEF CancelForQueue
<1> QED BY <1>1, <1>2

(* The steps of the loop.                                                   *)
LEMMA LoopFate ==
  ASSUME TypeInv, OwnerInv, NEW t \in Threads, DispatchStep(t)
  PROVE  \A s \in Requests : Fate(s)
<1>0. req \in [Requests -> Request] /\ FrameOK
  BY DEF TypeInv, TypeOK
<1>1. ASSUME NEW r \in Requests, Hand(frame[t]) = r \/ Queued(r)
      PROVE  req[r].irp = "sent" /\ req[r].list = "none" /\ req[r].drv = "fx"
  BY <1>1 DEF OwnerInv, RequestInv, RequestOK, PlaceOK, Loose
<1>2. CASE \/ EnterDispatchEvents(t) \/ EnterDeleted(t) \/ Relock(t) \/ LeaveDispatchEvents(t)
           \/ ProcessIdleComplete(t) \/ ProcessPurgeComplete(t) \/ ProcessReadyNotify(t)
           \/ PowerDereference(t) \/ DeleteQueue(t) \/ StartingTransition(t) \/ PowerOn(t)
           \/ AwaitAcknowledge(t)
  BY <1>2, NoFate DEF EnterDispatchEvents, EnterDeleted, Relock, LeaveDispatchEvents,
       ProcessIdleComplete, ProcessPurgeComplete, ProcessReadyNotify, PowerDereference,
       DeleteQueue, StartingTransition, PowerOn, AwaitAcknowledge
<1>3. CASE EnterDeferred(t) \/ InsertNewRequest(t)
  <2>1. UNCHANGED req \/ (frame[t].new # NoRequest /\ req' = [req EXCEPT ![frame[t].new].irp = "done"])
    BY <1>3 DEF EnterDeferred, InsertNewRequest
  <2>2. CASE frame[t].new # NoRequest /\ req' = [req EXCEPT ![frame[t].new].irp = "done"]
    <3>1. frame[t].new \in Requests /\ Hand(frame[t]) = frame[t].new
      BY <1>0, <2>2, FrameFields DEF Hand
    <3>2. req[frame[t].new].drv = "fx"
      BY <1>1, <3>1
    <3> QED BY <2>2, <3>1, <3>2, EndsFate
  <2> QED BY <2>1, <2>2, NoFate
<1>4. CASE ProcessCancelledRequests(t) \/ ProcessCancelledRequestsOnQueue(t)
  <2>1. CASE UNCHANGED req
    BY <2>1, NoFate
  <2>2. ASSUME NEW r \in cancelled, req' = [req EXCEPT ![r].drv = "told"]
        PROVE  \A s \in Requests : Fate(s)
    <3>1. r \in Requests
      BY DEF TypeInv, TypeOK
    <3>2. req[r].drv = "cancelable"
      BY <3>1 DEF OwnerInv, RequestInv, RequestOK, PathOK
    <3>3. StaysInDriver(r)
      BY <1>0, <2>2, <3>1, <3>2 DEF StaysInDriver, InDriver, Request
    <3> QED BY <2>2, <3>1, <3>3, OneFate DEF Fate
  <2>3. ASSUME NEW r \in canceledOnQueue, req' = [req EXCEPT ![r].drv = "told"]
        PROVE  \A s \in Requests : Fate(s)
    <3>1. r \in Requests
      BY DEF TypeInv, TypeOK
    <3>2. Wanders(r)
      BY <1>0, <2>3, <3>1 DEF Wanders, Request
    <3> QED BY <2>3, <3>1, <3>2, OneFate DEF Fate
  <2> QED BY <1>4, <2>1, <2>2, <2>3 DEF ProcessCancelledRequests, ProcessCancelledRequestsOnQueue
<1>5. CASE PresentNew(t)
  <2>1. /\ frame[t].new \in Requests /\ Hand(frame[t]) = frame[t].new
        /\ powerState = "On" /\ Present(t, frame[t].new)
    BY <1>0, <1>5, FrameFields DEF PresentNew, Turn, Hand
  <2> QED BY <1>1, <2>1, PresentedFate DEF Present
<1>6. CASE PresentNext(t)
  <2>1. SomeLive /\ powerState = "On" /\ queue \in Seq(Requests)
    BY <1>6 DEF PresentNext, Turn, TypeInv, TypeOK
  <2>2. FirstLive \in Requests /\ Queued(FirstLive)
    BY <2>1, FirstLiveIsQueued DEF Queued
  <2>3. CASE Present(t, FirstLive)
    BY <1>1, <2>1, <2>2, <2>3, PresentedFate DEF Present
  <2>4. ASSUME frame[t].new # NoRequest, req' = [req EXCEPT ![frame[t].new].irp = "done"]
        PROVE  \A s \in Requests : Fate(s)
    <3>1. frame[t].new \in Requests /\ Hand(frame[t]) = frame[t].new
      BY <1>0, <2>4, FrameFields DEF Hand
    <3>2. req[frame[t].new].drv = "fx"
      BY <1>1, <3>1
    <3> QED BY <2>4, <3>1, <3>2, EndsFate
  <2> QED BY <1>6, <2>3, <2>4 DEF PresentNext
<1>7. CASE PresentTaken(t)
  <2>1. /\ frame[t].cur \in Requests /\ frame[t].pc = "present" /\ Present(t, frame[t].cur)
    BY <1>0, <1>7 DEF PresentTaken, FrameOK, SoundFrame, Takes
  <2>2. Hand(frame[t]) = frame[t].cur
    BY <2>1 DEF Hand, OwnerInv, LockInv
  <2>3. Presents(frame[t])
    BY <2>1 DEF Presents
  <2> QED BY <1>1, <2>1, <2>2, <2>3, PresentedFate DEF Present
<1>8. CASE BeginNotifying(t) \/ CollectAcknowledged(t)
  <2>1. PICK S, l : Relist(S, l)
    BY <1>8 DEF BeginNotifying, CollectAcknowledged
  <2>2. ASSUME NEW s \in Requests
        PROVE  req'[s].irp = req[s].irp /\ req'[s].drv = req[s].drv
    BY <1>0, <2>1 DEF Relist, Request
  <2> QED BY <1>8, <2>2 DEF Fate, Relists, PowerListing
<1>9. CASE NotifyStop(t) \/ NotifyResume(t) \/ ProcessAcknowledgedRequest(t)
  <2>1. ASSUME NEW s \in Requests
        PROVE  req'[s].irp = req[s].irp /\ req'[s].drv = req[s].drv
    <3>1. CASE NotifyStop(t)
      <4>1. req'[s] = req[s] \/ \E a \in {"none", req[s].ack} :
              req'[s] = [req[s] EXCEPT !.list = "notified", !.ack = a]
        BY <1>0, <3>1 DEF NotifyStop, On
      <4> QED BY <1>0, <4>1 DEF Request
    <3>2. CASE NotifyResume(t)
      <4>1. req'[s] = req[s] \/ req'[s] = [req[s] EXCEPT !.list = "owned"]
        BY <1>0, <3>2 DEF NotifyResume, On
      <4> QED BY <1>0, <4>1 DEF Request
    <3>3. CASE ProcessAcknowledgedRequest(t)
      <4>1. req'[s] = req[s] \/ req'[s] = [req[s] EXCEPT !.list = "owned", !.ack = "none"]
        BY <1>0, <3>3 DEF ProcessAcknowledgedRequest, On
      <4> QED BY <1>0, <4>1 DEF Request
    <3> QED BY <1>9, <3>1, <3>2, <3>3
  <2> QED BY <1>9, <2>1 DEF Fate, Relists, PowerListing
<1>10. CASE RequeueAcknowledged(t)
  <2> DEFINE r == frame[t].cur
  <2>1. r \in Requests /\ Returning(frame[t]) = r
    BY <1>0, <1>10 DEF RequeueAcknowledged, FrameOK, SoundFrame, Takes, Returning
  <2>2. req[r].drv = "fx" /\ req[r] \in Request
    BY <1>0, <2>1 DEF OwnerInv, RequestInv, RequestOK, ReturnOK, Neither
  <2>3. CASE req' = [req EXCEPT ![r] = [@ EXCEPT !.list = "none"]]
    <3>1. Requeues(r)
      BY <1>0, <2>1, <2>2, <2>3 DEF Requeues, Request
    <3> QED BY <2>1, <2>3, <3>1, OneFate DEF Fate
  <2>4. CASE req' = [req EXCEPT ![r].canceled = TRUE]
    BY <2>1, <2>4, SameFate
  <2>5. CASE req' = [req EXCEPT ![r] = [@ EXCEPT !.canceled = TRUE, !.irp = "done", !.list = "none"]]
    BY <2>1, <2>2, <2>5, EndsFate
  <2> QED BY <1>10, <2>3, <2>4, <2>5 DEF RequeueAcknowledged
<1> QED BY <1>2, <1>3, <1>4, <1>5, <1>6, <1>7, <1>8, <1>9, <1>10 DEF DispatchStep

(* The steps of operations.                                                 *)
LEMMA OperationFate ==
  ASSUME TypeInv, OwnerInv, NEW t \in Threads, ThreadStep(t), ~DispatchStep(t)
  PROVE  \A s \in Requests : Fate(s)
<1>1. CASE \/ CompleteCanceled(t) \/ DrainCancelForDriver(t) \/ LockAndEnter(t)
           \/ SetDisposing(t) \/ FinishDisposing(t)
  BY <1>1, NoFate DEF CompleteCanceled, DrainCancelForDriver, LockAndEnter, SetDisposing,
     FinishDisposing
<1>2. CASE DrainQueue(t)
  <2>1. SomeLive => FirstLive \in Requests
    BY FirstLiveIsQueued DEF TypeInv, TypeOK
  <2> QED BY <1>2, <2>1, NoFate, CancelFate DEF DrainQueue
<1>3. CASE DrainDriver(t)
  <2>1. Revocable \subseteq Requests
    BY DEF Revocable, TypeInv, TypeOK
  <2> QED BY <1>3, <2>1, NoFate, SameFate DEF DrainDriver
<1> QED BY <1>1, <1>2, <1>3 DEF ThreadStep

(* The driver controls the queue.                                           *)
LEMMA DriverCallFate ==
  ASSUME TypeInv, NEW t \in Workers, DriverCall(t)
  PROVE  \A s \in Requests : Fate(s)
<1>1. CASE UNCHANGED req
  BY <1>1, NoFate
<1>2. CASE ~UNCHANGED req
  <2>1. req' = [r \in Requests |-> IF r \in Elements(queue) /\ ~req[r].cancel
                                   THEN [req[r] EXCEPT !.canceled = TRUE] ELSE req[r]]
    BY <1>2 DEF DriverCall, QueueStart, Dispose, QueueIdle, QueuePurge, BeginPurge, ReadyNotify
  <2>2. req \in [Requests -> Request]
    BY DEF TypeInv, TypeOK
  <2>3. ASSUME NEW s \in Requests
        PROVE  Same(s)
    BY <2>1, <2>2 DEF Same, Request
  <2> QED BY <2>3 DEF Fate
<1> QED BY <1>1, <1>2

(* It arrives.                                                              *)
LEMMA ArriveFate ==
  ASSUME TypeInv, OwnerInv, NEW t \in Workers, NEW r \in Requests, QueueRequest(t, r)
  PROVE  \A s \in Requests : Fate(s)
<1>1. req[r].irp = "new" /\ req[r] \in Request /\ req \in [Requests -> Request]
  BY DEF QueueRequest, TypeInv, TypeOK
<1>2. req[r].drv = "fx"
  BY <1>1 DEF OwnerInv, RequestInv, RequestOK, DriverOK, Request
<1>3. CASE "Accept" \in queueState
  <2>1. req' = [req EXCEPT ![r].irp = "sent"]
    BY <1>3 DEF QueueRequest
  <2>2. Arrives(r)
    BY <1>1, <1>3, <2>1 DEF Arrives, Request
  <2> QED BY <2>1, <2>2, OneFate DEF Fate
<1>4. CASE "Accept" \notin queueState
  BY <1>2, <1>4, EndsFate DEF QueueRequest
<1> QED BY <1>3, <1>4

(* It is cancelled, and the driver works on it.                             *)
LEMMA RequestFate ==
  ASSUME TypeInv, OwnerInv, NEW r \in Requests,
         CancelIrp(r) \/ CancelStep(r) \/ DriverStep(r) \/ FinishStep(r)
  PROVE  \A s \in Requests : Fate(s)
<1>0. req[r] \in Request /\ req \in [Requests -> Request]
  BY DEF TypeInv, TypeOK
<1>1. CASE CancelIrp(r)
  BY <1>1, SameFate DEF CancelIrp
<1>2. CASE CancelStep(r)
  BY <1>2, SameFate, NoFate, CancelFate
  DEF CancelStep, IrpCancelForQueue, IrpCancelForDriver, CancelForDriver
<1>3. ASSUME NEW b \in BOOLEAN, StopAcknowledge(r, b)
      PROVE  \A s \in Requests : Fate(s)
  <2> DEFINE a == IF b THEN "requeue" ELSE "ack"
             d == IF b THEN "fx" ELSE req[r].drv
  <2>1. /\ req' = [req EXCEPT ![r] = [@ EXCEPT !.ack = a, !.drv = d]]
        /\ req[r].list = "notified" /\ req[r].drv \in {"held", "cancelable"}
        /\ r \in stopAcked'
    BY <1>3 DEF StopAcknowledge
  <2>2. a # "none" /\ d \in {req[r].drv, "fx"}
    OBVIOUS
  <2> HIDE DEF a, d
  <2>3. Acknowledged(r)
    BY <1>0, <2>1, <2>2 DEF Acknowledged, InDriver, Request
  <2> QED BY <2>1, <2>3, OneFate DEF Fate
<1>4. CASE CompleteRequest(r)
  BY <1>4, EndsFate DEF CompleteRequest, Holds
<1>5. CASE MarkCancelable(r) \/ UnmarkCancelable(r)
  <2>1. /\ req[r].drv \in {"held", "cancelable"}
        /\ \/ req' = [req EXCEPT ![r] = [@ EXCEPT !.canceled = TRUE, !.drv = "cancelable"]]
           \/ req' = [req EXCEPT ![r].drv = "cancelable"]
           \/ req' = [req EXCEPT ![r].drv = "held"]
    BY <1>5 DEF MarkCancelable, UnmarkCancelable, Holds
  <2>2. ASSUME NEW v \in Request, req' = [req EXCEPT ![r] = v],
               v.irp = req[r].irp, v.ack = req[r].ack, v.list = req[r].list,
               v.drv \in {"held", "cancelable"}
        PROVE  \A s \in Requests : Fate(s)
    <3>1. StaysInDriver(r)
      BY <1>0, <2>1, <2>2 DEF StaysInDriver, InDriver
    <3> QED BY <2>2, <3>1, OneFate DEF Fate
  <2>3. ASSUME NEW d \in {"held", "cancelable"},
               NEW v \in {[req[r] EXCEPT !.canceled = TRUE, !.drv = d], [req[r] EXCEPT !.drv = d]}
        PROVE  /\ v \in Request /\ v.drv = d
               /\ v.irp = req[r].irp /\ v.ack = req[r].ack /\ v.list = req[r].list
    BY <1>0, <2>3 DEF Request
  <2>4. \E d \in {"held", "cancelable"} :
          \E v \in {[req[r] EXCEPT !.canceled = TRUE, !.drv = d], [req[r] EXCEPT !.drv = d]} :
            req' = [req EXCEPT ![r] = v]
    BY <2>1
  <2> QED BY <2>2, <2>3, <2>4
<1>6. ASSUME NEW t \in Workers, Requeue(t, r)
      PROVE  \A s \in Requests : Fate(s)
  <2>1. ~AckDemands
    BY <1>6 DEF Requeue, AckDemands
  <2>2. CASE Requeueable(r)
    <3>1. req' = [req EXCEPT ![r] = [@ EXCEPT !.list = "none", !.drv = "fx"]]
      BY <1>6, <2>2 DEF Requeue
    <3>2. Wanders(r)
      BY <1>0, <2>1, <3>1 DEF Wanders, Request
    <3> QED BY <3>1, <3>2, OneFate DEF Fate
  <2>3. CASE ~Requeueable(r)
    BY <1>6, <2>3, CancelFate DEF Requeue
  <2> QED BY <2>2, <2>3
<1>7. CASE ForwardBegin(r)
  <2>1. ~AckDemands /\ req' = [req EXCEPT ![r] = [@ EXCEPT !.list = "none", !.drv = "forwarding"]]
    BY <1>7 DEF ForwardBegin, AckDemands
  <2>2. Wanders(r)
    BY <1>0, <2>1 DEF Wanders, Request
  <2> QED BY <2>1, <2>2, OneFate DEF Fate
<1>8. CASE ForwardRefused(r)
  <2>1. /\ req[r].drv = "forwarding"
        /\ req' = [req EXCEPT ![r] = [@ EXCEPT !.list = "owned", !.drv = "held"]]
    BY <1>8 DEF ForwardRefused
  <2>2. Wanders(r)
    BY <1>0, <2>1 DEF Wanders, Request
  <2> QED BY <2>1, <2>2, OneFate DEF Fate
<1>9. CASE FinishStep(r)
  <2>1. req[r].drv = "completing" => req[r].irp = "done"
    BY DEF OwnerInv, RequestInv, RequestOK, DriverOK
  <2> QED BY <1>9, <2>1, EndsFate DEF FinishStep, RequestCompletedCallback, ForwardDone
<1> QED BY <1>1, <1>2, <1>3, <1>4, <1>5, <1>6, <1>7, <1>8, <1>9 DEF DriverStep

LEMMA RetrieveFate ==
  ASSUME TypeInv, OwnerInv, GetRequest
  PROVE  \A s \in Requests : Fate(s)
<1>1. CASE SomeLive
  <2>1. FirstLive \in Requests /\ Queued(FirstLive)
    BY <1>1, FirstLiveIsQueued DEF TypeInv, TypeOK, Queued
  <2>2. req[FirstLive].irp = "sent" /\ req[FirstLive].list = "none"
    BY <2>1 DEF OwnerInv, RequestInv, RequestOK, PlaceOK, Loose
  <2> QED BY <1>1, <2>1, <2>2, PresentedFate DEF GetRequest
<1>2. CASE ~SomeLive
  BY <1>2, NoFate DEF GetRequest
<1> QED BY <1>1, <1>2

(* Every step.                                                              *)
LEMMA FateStep ==
  ASSUME TypeInv, OwnerInv, Next
  PROVE  \A s \in Requests : Fate(s)
<1>1. ASSUME NEW t \in Threads, ThreadStep(t)
      PROVE  \A s \in Requests : Fate(s)
  BY <1>1, LoopFate, OperationFate
<1>2. CASE DeferStep \/ PowerDown \/ PowerStep
  <2>1. UNCHANGED req
    BY <1>2 DEF DeferStep, PowerDown, PowerStep, DeferredDispatch, DeferredEnd,
       StartPowerTransitionOff, SetStateForShutdown, WaitPowerIdle, StopProcessingForPowerHold,
       PowerPurge, BeginPurge, StopProcessingForPowerPurge, ResetStateForRestart,
       ResumeProcessingForPower, StartPowerTransitionOn
  <2> QED BY <2>1, NoFate
<1>3. ASSUME NEW t \in Workers, DriverCall(t) \/ \E r \in Requests : QueueRequest(t, r)
      PROVE  \A s \in Requests : Fate(s)
  BY <1>3, DriverCallFate, ArriveFate
<1>4. ASSUME NEW r \in Requests, CancelIrp(r) \/ CancelStep(r) \/ DriverStep(r) \/ FinishStep(r)
      PROVE  \A s \in Requests : Fate(s)
  BY <1>4, RequestFate
<1> QED BY <1>1, <1>2, <1>3, <1>4, RetrieveFate DEF Next

-----------------------------------------------------------------------------
(* Nothing is left: after a purge reported its end, and after deletion.     *)

Empty == \A r \in Requests : req[r].irp # "sent" /\ req[r].drv = "fx"

LEMMA EmptyFacts ==
  ASSUME TypeInv, OwnerInv, Empty
  PROVE  /\ queue = <<>> /\ driverIoCount = 0 /\ cancelled = {} /\ canceledOnQueue = {}
         /\ \A r \in Requests : ~Queued(r) /\ ~Listed(r) /\ r \notin cancelCalls
         /\ \A t \in Threads : Hand(frame[t]) = NoRequest /\ Returning(frame[t]) = NoRequest
                               /\ Cancelling(frame[t]) = NoRequest
<1>1. \A r \in Requests : RequestOK(r) /\ req[r].irp # "sent" /\ req[r].drv = "fx"
  BY DEF OwnerInv, RequestInv, Empty
<1>2. \A r \in Requests : ~Queued(r) /\ ~Listed(r)
  BY <1>1 DEF RequestOK, PlaceOK, DriverOK, Loose, Listed
<1>3. queue = <<>>
  <2>1. queue \in Seq(Requests)
    BY DEF TypeInv, TypeOK
  <2>2. queue # <<>> => queue[1] \in Requests /\ queue[1] \in Elements(queue)
    BY <2>1 DEF Elements
  <2> QED BY <1>2, <2>2 DEF Queued
<1>4. driverIoCount = 0
  <2>1. {r \in Requests : Listed(r)} = {}
    BY <1>2
  <2> QED BY <2>1, FS_EmptySet DEF OwnerInv, CountInv
<1>5. ASSUME NEW r \in Requests
      PROVE  r \notin cancelled \cup cancelCalls \cup canceledOnQueue
  BY <1>1 DEF RequestOK, PathOK, ReturnOK, Neither, DriverOK
<1>6. cancelled = {} /\ canceledOnQueue = {}
  BY <1>5 DEF TypeInv, TypeOK
<1>7. ASSUME NEW t \in Threads
      PROVE  Hand(frame[t]) = NoRequest /\ Returning(frame[t]) = NoRequest
             /\ Cancelling(frame[t]) = NoRequest
  <2>1. \A r \in Requests : /\ Hand(frame[t]) # r /\ Returning(frame[t]) # r
                            /\ Cancelling(frame[t]) # r
    BY <1>1 DEF RequestOK, PlaceOK, Loose, ReturnOK, Neither, PathOK, DriverOK
  <2>2. frame[t].new \in Requests \cup {NoRequest} /\ frame[t].cur \in Requests \cup {NoRequest}
    BY FrameFields DEF TypeInv
  <2> QED BY <2>1, <2>2 DEF Hand, Returning, Cancelling
<1> QED BY <1>2, <1>3, <1>4, <1>5, <1>6, <1>7

(* The last thread in the loop finds nothing queued and nothing with the    *)
(* driver: no other thread has a request in hand either.                    *)
LEMMA LastSeesAll ==
  ASSUME TypeInv, OwnerInv, LoopInv, NEW t \in Threads, lock = t, frame[t].pc = "dispatch",
         frame[t].new = NoRequest, LastInLoop, TotalIo(t) = 0
  PROVE  /\ Empty /\ queue = <<>> /\ driverIoCount = 0
         /\ \A u \in Threads : frame[u].pc # "present" /\ frame[u].why # "insertFailedPresent"
<1>1. FrameOK /\ t \in LoopThreads
  BY DEF TypeInv, LoopThreads, InLoop, LoopPoints, LockedPoints
<1>2. \A u \in Threads : u # t => frame[u].pc \notin InLoopPoints
  BY <1>1, LastIsAlone
<1>3. ASSUME NEW u \in Threads
      PROVE  /\ Hand(frame[u]) = NoRequest
             /\ frame[u].pc # "present" /\ frame[u].why # "insertFailedPresent"
  <2>1. frame[u].pc \notin {"present", "window"}
    BY <1>2 DEF InLoopPoints, LoopPoints, LockedPoints
  <2>2. frame[u].why = "none"
    BY <1>1, <2>1 DEF FrameOK, SoundFrame
  <2>3. u # t => lock # u /\ frame[u].pc # "dispatch"
    BY <1>2 DEF InLoopPoints, LoopPoints, LockedPoints
  <2>4. frame[u].new = NoRequest
    BY <2>3 DEF OwnerInv, LockInv, LockedPoints
  <2> QED BY <2>1, <2>2, <2>4 DEF Hand
<1>4. driverIoCount = Cardinality({r \in Requests : Listed(r)})
  BY DEF OwnerInv, CountInv
<1>5. IsFiniteSet({r \in Requests : Listed(r)})
  BY ThreadAssumption, FS_Subset
<1>6. driverIoCount \in Nat /\ queue \in Seq(Requests)
  BY <1>4, <1>5, FS_CardinalityType DEF TypeInv, TypeOK
<1>7. Len(queue) = 0 /\ driverIoCount = 0
  <2>1. Len(queue) \in Nat /\ Len(queue) + driverIoCount + 0 = 0
    BY <1>6 DEF TotalIo
  <2> QED BY <1>6, <2>1
<1>8. queue = <<>>
  BY <1>6, <1>7
<1>9. {r \in Requests : Listed(r)} = {}
  BY <1>4, <1>5, <1>7, FS_EmptySet
<1>10. ASSUME NEW r \in Requests
       PROVE  req[r].irp # "sent" /\ req[r].drv = "fx"
  <2>1. ~Queued(r) /\ ~Listed(r)
    BY <1>8, <1>9 DEF Queued, Elements
  <2>2. \A u \in Threads : Hand(frame[u]) # r
    BY <1>3, ThreadAssumption
  <2>3. RequestOK(r) /\ req[r] \in Request
    BY DEF OwnerInv, RequestInv, TypeInv, TypeOK
  <2> QED BY <2>1, <2>2, <2>3 DEF RequestOK, PlaceOK, DriverOK, Listed, Request
<1> QED BY <1>3, <1>7, <1>8, <1>10 DEF Empty

(* Nothing comes after that while the queue accepts nothing.                *)
LEMMA EmptyStays ==
  ASSUME TypeInv, OwnerInv, OwnerInv', Empty, Next, "Accept" \notin queueState
  PROVE  Empty'
<1>1. ASSUME NEW r \in Requests
      PROVE  req'[r].irp # "sent" /\ req'[r].drv = "fx"
  <2>1. Fate(r) /\ req[r].irp # "sent" /\ req[r].drv = "fx"
    BY FateStep DEF Empty
  <2>2. ~Arrives(r) /\ ~Presented(r) /\ ~StaysInDriver(r) /\ ~Acknowledged(r)
    BY <2>1 DEF Arrives, Presented, StaysInDriver, Acknowledged, InDriver
  <2>3. req'[r].irp # "sent" /\ req'[r].drv # "completing"
    <3>1. CASE Same(r) \/ Relists(r)
      BY <2>1, <3>1 DEF Same, Relists
    <3>2. CASE Ends(r)
      BY <2>1, <3>2 DEF Ends
    <3>3. CASE Requeues(r) \/ Wanders(r)
      BY <2>1, <3>3 DEF Requeues, Wanders
    <3> QED BY <2>1, <2>2, <3>1, <3>2, <3>3 DEF Fate
  <2>4. DriverOK(r)' /\ req'[r] \in Request
    <3>1. TypeInv'
      BY TypeStep
    <3> QED BY <3>1 DEF OwnerInv, RequestInv, RequestOK, TypeInv, TypeOK
  <2> QED BY <2>3, <2>4 DEF DriverOK, Request
<1> QED BY <1>1 DEF Empty

Referencing == PolicyOwner /\ PowerManaged

EmptyInv ==
  /\ purgeReported => "Accept" \notin queueState
  /\ purgeReported \/ deleted => Empty
  /\ powerReferenced => Referencing
  /\ deleted => ~powerReferenced

(* When a purge is reported, when the queue is deleted, and who takes a     *)
(* power reference.                                                         *)
EmptyMoves ==
  /\ purgeReported' => /\ purgeReported \/ \E t \in Threads : ProcessPurgeComplete(t)
                       /\ "Accept" \in queueState' => purgeReported /\ "Accept" \in queueState
  /\ deleted' => deleted \/ \E t \in Threads : DeleteQueue(t)
  /\ powerReferenced' => \/ powerReferenced
                         \/ Referencing /\ (deleted => ~Empty)

LEMMA LoopEmpties ==
  ASSUME TypeInv, OwnerInv, LoopInv, NEW t \in Threads, DispatchStep(t)
  PROVE  EmptyMoves
<1>1. purgeReported' => purgeReported \/ ProcessPurgeComplete(t)
  BY DEF DispatchStep, EnterDispatchEvents, EnterDeleted, EnterDeferred, InsertNewRequest, Relock,
     LeaveDispatchEvents, ProcessCancelledRequests, ProcessCancelledRequestsOnQueue,
     ProcessIdleComplete, ProcessReadyNotify, PowerDereference, DeleteQueue, PresentNew,
     PresentNext, PresentTaken, StartingTransition, BeginNotifying, NotifyStop, NotifyResume,
     PowerOn, CollectAcknowledged, ProcessAcknowledgedRequest, RequeueAcknowledged,
     AwaitAcknowledge, auxVars
<1>2. deleted' => deleted \/ DeleteQueue(t)
  BY DEF DispatchStep, EnterDispatchEvents, EnterDeleted, EnterDeferred, InsertNewRequest, Relock,
     LeaveDispatchEvents, ProcessCancelledRequests, ProcessCancelledRequestsOnQueue,
     ProcessIdleComplete, ProcessPurgeComplete, ProcessReadyNotify, PowerDereference, PresentNew,
     PresentNext, PresentTaken, StartingTransition, BeginNotifying, NotifyStop, NotifyResume,
     PowerOn, CollectAcknowledged, ProcessAcknowledgedRequest, RequeueAcknowledged,
     AwaitAcknowledge, lifeVars
<1>3. UNCHANGED queueState
  BY DEF DispatchStep, EnterDispatchEvents, EnterDeleted, EnterDeferred, InsertNewRequest, Relock,
     LeaveDispatchEvents, ProcessCancelledRequests, ProcessCancelledRequestsOnQueue,
     ProcessIdleComplete, ProcessPurgeComplete, ProcessReadyNotify, PowerDereference, DeleteQueue,
     PresentNew, PresentNext, PresentTaken, StartingTransition, BeginNotifying, NotifyStop,
     NotifyResume, PowerOn, CollectAcknowledged, ProcessAcknowledgedRequest, RequeueAcknowledged,
     AwaitAcknowledge, gateVars
<1>4. purgeReported' /\ "Accept" \in queueState' => purgeReported
  <2>1. ProcessPurgeComplete(t) => purgeReported' = ("Accept" \notin queueState)
    BY DEF ProcessPurgeComplete
  <2> QED BY <1>1, <1>3, <2>1
<1>5. ASSUME powerReferenced', ~powerReferenced
      PROVE  Referencing /\ ~deleted
  <2>1. ASSUME SetTransitionFromEmpty PROVE Referencing
    BY <1>5, <2>1 DEF SetTransitionFromEmpty, Referencing
  <2>2. ASSUME NEW n, CheckTransitionFromEmpty(n) PROVE Referencing
    BY <1>5, <2>1, <2>2 DEF CheckTransitionFromEmpty, readyVars
  <2>3. \/ EnterDeferred(t) \/ InsertNewRequest(t) \/ PresentNew(t) \/ PresentNext(t)
        \/ RequeueAcknowledged(t)
    BY <1>5 DEF DispatchStep, EnterDispatchEvents, EnterDeleted, Relock, LeaveDispatchEvents,
       ProcessCancelledRequests, ProcessCancelledRequestsOnQueue, ProcessIdleComplete,
       ProcessPurgeComplete, ProcessReadyNotify, PowerDereference, DeleteQueue, PresentTaken,
       StartingTransition, BeginNotifying, NotifyStop, NotifyResume, PowerOn,
       CollectAcknowledged, ProcessAcknowledgedRequest, AwaitAcknowledge, readyVars
  <2>4. Referencing
    BY <1>5, <2>1, <2>2, <2>3 DEF EnterDeferred, InsertNewRequest, PresentNew, PresentNext,
       RequeueAcknowledged, readyVars
  <2>5. EnterDeferred(t) \/ frame[t].pc \in LoopPoints
    BY <2>3 DEF InsertNewRequest, PresentNew, PresentNext, RequeueAcknowledged, LoopPoints,
       LockedPoints
  <2>6. ~deleted
    BY <2>5 DEF EnterDeferred, LoopInv, LoopThreads, InLoop
  <2> QED BY <2>4, <2>6
<1> QED BY <1>1, <1>2, <1>3, <1>4, <1>5 DEF EmptyMoves

(* The other steps report and delete nothing. A start, a stop that lets     *)
(* requests in again and a restart take the report of the purge back.       *)
LEMMA CallsEmpty ==
  ASSUME TypeInv, NEW t \in Workers, DriverCall(t)
  PROVE  EmptyMoves
<1>1. UNCHANGED <<lifeVars, powerReferenced>>
  BY DEF DriverCall, QueueStart, Dispose, QueueIdle, QueuePurge, BeginPurge, ReadyNotify,
     ForceReadyIfQueued, readyVars
<1>2. /\ purgeReported' => purgeReported
      /\ purgeReported' /\ "Accept" \in queueState' => "Accept" \in queueState
  <2>1. CASE QueueStart(t) \/ \E b, c \in BOOLEAN : QueueIdle(t, b, c)
    BY <2>1 DEF QueueStart, QueueIdle, Accepting
  <2>2. CASE Dispose(t) \/ \E b, c \in BOOLEAN : QueuePurge(t, b, c)
    <3>1. ASSUME NEW b, NEW c, NEW op, BeginPurge(t, b, c, op)
          PROVE  purgeReported' = purgeReported /\ queueState' \subseteq queueState
      BY <3>1 DEF BeginPurge
    <3>2. CASE Dispose(t)
      BY <3>1, <3>2 DEF Dispose
    <3>3. CASE \E b, c \in BOOLEAN : QueuePurge(t, b, c)
      <4>1. PICK b \in BOOLEAN, c \in BOOLEAN : BeginPurge(t, b, c, "purge")
        BY <3>3 DEF QueuePurge
      <4> QED BY <3>1, <4>1
    <3> QED BY <2>2, <3>2, <3>3
  <2>3. CASE \E b \in BOOLEAN : ReadyNotify(t, b)
    BY <2>3 DEF ReadyNotify, gateVars
  <2> QED BY <2>1, <2>2, <2>3 DEF DriverCall
<1> QED BY <1>1, <1>2 DEF EmptyMoves, lifeVars

LEMMA PowerEmpties ==
  ASSUME TypeInv, DeferStep \/ PowerDown \/ PowerStep
  PROVE  EmptyMoves
<1>1. UNCHANGED <<lifeVars, powerReferenced>>
  BY DEF DeferStep, PowerDown, PowerStep, DeferredDispatch, DeferredEnd, StartPowerTransitionOff,
     SetStateForShutdown, WaitPowerIdle, StopProcessingForPowerHold, PowerPurge, BeginPurge,
     StopProcessingForPowerPurge, ResetStateForRestart, ResumeProcessingForPower,
     StartPowerTransitionOn, ForceReadyIfQueued, readyVars
<1>2. /\ purgeReported' => purgeReported
      /\ purgeReported' /\ "Accept" \in queueState' => "Accept" \in queueState
  <2>1. CASE ResetStateForRestart
    BY <2>1 DEF ResetStateForRestart, Accepting
  <2>2. CASE ~ResetStateForRestart
    BY <2>2 DEF DeferStep, PowerDown, PowerStep, DeferredDispatch, DeferredEnd,
       StartPowerTransitionOff, SetStateForShutdown, WaitPowerIdle, StopProcessingForPowerHold,
       PowerPurge, BeginPurge, StopProcessingForPowerPurge, ResumeProcessingForPower,
       StartPowerTransitionOn, gateVars, auxVars
  <2> QED BY <2>1, <2>2
<1> QED BY <1>1, <1>2 DEF EmptyMoves, lifeVars

LEMMA RestEmpties ==
  ASSUME TypeInv, OwnerInv,
         \/ \E t \in Threads : ThreadStep(t) /\ ~DispatchStep(t)
         \/ \E t \in Workers, r \in Requests : QueueRequest(t, r)
         \/ \E r \in Requests : CancelIrp(r) \/ CancelStep(r) \/ DriverStep(r) \/ FinishStep(r)
         \/ GetRequest
  PROVE  EmptyMoves
<1>1. ASSUME NEW t \in Threads, ThreadStep(t), ~DispatchStep(t)
      PROVE  UNCHANGED <<deleted, queueState, purgeReported>>
  BY <1>1 DEF ThreadStep, CompleteCanceled, DrainQueue, DrainDriver, DrainCancelForDriver,
     LockAndEnter, SetDisposing, FinishDisposing, gateVars, lifeVars, auxVars
<1>2. UNCHANGED <<deleted, queueState, purgeReported>>
  <2>1. CASE \E t \in Threads : ThreadStep(t) /\ ~DispatchStep(t)
    BY <1>1, <2>1
  <2>2. CASE (\E t \in Workers, r \in Requests : QueueRequest(t, r)) \/ GetRequest
    BY <2>2 DEF QueueRequest, GetRequest, gateVars, lifeVars, auxVars
  <2>3. ASSUME NEW r \in Requests, CancelIrp(r) \/ CancelStep(r)
        PROVE  UNCHANGED <<deleted, queueState, purgeReported>>
    BY <2>3 DEF CancelIrp, CancelStep, IrpCancelForQueue, IrpCancelForDriver, CancelForDriver,
       gateVars, lifeVars, auxVars
  <2>4. ASSUME NEW r \in Requests, DriverStep(r) \/ FinishStep(r)
        PROVE  UNCHANGED <<deleted, queueState, purgeReported>>
    BY <2>4 DEF DriverStep, StopAcknowledge, CompleteRequest, MarkCancelable, UnmarkCancelable,
       Requeue, ForwardBegin, ForwardRefused, FinishStep, RequestCompletedCallback, ForwardDone,
       gateVars, lifeVars, auxVars
  <2> QED BY <2>1, <2>2, <2>3, <2>4
<1>3. CASE UNCHANGED powerReferenced
  BY <1>2, <1>3 DEF EmptyMoves
<1>4. CASE ~UNCHANGED powerReferenced
  <2>1. PICK r \in Requests : \E t \in Workers : Requeue(t, r)
    BY <1>4 DEF ThreadStep, CompleteCanceled, DrainQueue, DrainDriver, DrainCancelForDriver,
       LockAndEnter, SetDisposing, FinishDisposing, QueueRequest, CancelIrp, CancelStep,
       IrpCancelForQueue, IrpCancelForDriver, CancelForDriver, DriverStep, StopAcknowledge,
       CompleteRequest, MarkCancelable, UnmarkCancelable, ForwardBegin, ForwardRefused,
       FinishStep, RequestCompletedCallback, ForwardDone, GetRequest, readyVars
  <2>2. SetTransitionFromEmpty /\ Holds(r)
    BY <1>4, <2>1 DEF Requeue, CheckTransitionFromEmpty, readyVars
  <2>3. ~Empty
    BY <2>2 DEF Holds, Empty
  <2>4. powerReferenced' => powerReferenced \/ Referencing
    BY <2>2 DEF SetTransitionFromEmpty, Referencing
  <2> QED BY <1>2, <2>3, <2>4 DEF EmptyMoves
<1> QED BY <1>3, <1>4

LEMMA EmptyInit == Init => EmptyInv
BY DEF Init, EmptyInv

LEMMA EmptyStep ==
  TypeInv /\ OwnerInv /\ OwnerInv' /\ PowerInv /\ EmptyInv /\ [Next]_vars => EmptyInv'
<1> SUFFICES ASSUME TypeInv, OwnerInv, OwnerInv', PowerInv, EmptyInv, [Next]_vars
             PROVE  EmptyInv'
  OBVIOUS
<1>1. CASE UNCHANGED vars
  BY <1>1 DEF vars, gateVars, readyVars, lifeVars, auxVars, EmptyInv, Empty
<1>2. CASE Next
  <2>1. EmptyMoves
    BY <1>2, LoopEmpties, CallsEmpty, PowerEmpties, RestEmpties DEF Next, PowerInv
  <2>2. (purgeReported' => "Accept" \notin queueState') /\ (powerReferenced' => Referencing)
    BY <2>1 DEF EmptyMoves, EmptyInv
  <2>3. ASSUME NEW t \in Threads, ProcessPurgeComplete(t)
        PROVE  Empty'
    <3>1. Empty
      BY <2>3, LastSeesAll DEF ProcessPurgeComplete, AtTurn, Turn, PowerInv
    <3> QED BY <2>3, <3>1 DEF ProcessPurgeComplete, Empty
  <2>4. ASSUME NEW t \in Threads, DeleteQueue(t)
        PROVE  Empty' /\ ~powerReferenced'
    <3>1. /\ lock = t /\ frame[t].pc = "dispatch" /\ frame[t].new = NoRequest /\ LastInLoop
          /\ TotalIo(t) = 0 /\ ~(Referencing /\ powerReferenced)
      BY <2>4 DEF DeleteQueue, AtTurn, Turn, Referencing
    <3>2. Empty
      BY <3>1, LastSeesAll DEF PowerInv
    <3> QED BY <2>4, <3>1, <3>2 DEF DeleteQueue, Empty, EmptyInv, readyVars
  <2>5. deleted => Empty /\ "Accept" \notin queueState
    BY DEF EmptyInv, OwnerInv, ClosedInv, BeingDisposed
  <2>6. purgeReported => Empty /\ "Accept" \notin queueState
    BY DEF EmptyInv
  <2>7. purgeReported' \/ deleted' => Empty'
    BY <1>2, <2>1, <2>3, <2>4, <2>5, <2>6, EmptyStays DEF EmptyMoves
  <2>8. deleted' => ~powerReferenced'
    BY <2>1, <2>4, <2>5 DEF EmptyMoves, EmptyInv
  <2> QED BY <2>2, <2>7, <2>8 DEF EmptyInv
<1> QED BY <1>1, <1>2

(* After a purge was reported, until the queue accepts again, and after it  *)
(* was deleted no request is pending or with the driver; with what it rests *)
(* on, the places a request can be in and the protocol of the power thread. *)
THEOREM EmptyCorrect == Spec => [](TypeInv /\ OwnerInv /\ PowerInv /\ EmptyInv)
<1>1. TypeInv /\ OwnerInv /\ PowerInv /\ EmptyInv /\ [Next]_vars =>
        (TypeInv /\ OwnerInv /\ PowerInv /\ EmptyInv)'
  BY TypeStep, OwnerStep, PowerInductive, EmptyStep
<1> QED BY <1>1, TypeInit, OwnerInit, PowerInit, EmptyInit, PTL DEF Spec

(* After EvtIoQueuePurgeComplete, and until the queue accepts again, no     *)
(* request is pending in any queue: none queued, none with the driver and   *)
(* none in the hands of a thread that is about to present it.               *)
THEOREM PurgedIsEmpty == Spec => []PurgedMeansEmpty
<1>1. EmptyInv => PurgedMeansEmpty
  BY DEF EmptyInv, Empty, PurgedMeansEmpty
<1> QED BY <1>1, EmptyCorrect, PTL

(* A deleted queue is empty, holds no power reference and has no thread in  *)
(* its loop, as Dispose ASSERTs after its wait.                             *)
THEOREM DeletedIsEmpty == Spec => []DeletedMeansEmpty
<1>1. TypeInv /\ OwnerInv /\ PowerInv /\ EmptyInv => DeletedMeansEmpty
  <2> SUFFICES ASSUME TypeInv, OwnerInv, PowerInv, EmptyInv, deleted
               PROVE  /\ queue = <<>> /\ driverIoCount = 0 /\ ~powerReferenced
                      /\ cancelled = {} /\ canceledOnQueue = {}
                      /\ \A t \in Threads : ~InLoop(t)
    BY DEF DeletedMeansEmpty
  <2>1. Empty /\ ~powerReferenced
    BY DEF EmptyInv
  <2>2. \A t \in Threads : ~InLoop(t)
    BY DEF PowerInv, LoopInv, LoopThreads
  <2> QED BY <2>1, <2>2, EmptyFacts
<1> QED BY <1>1, EmptyCorrect, PTL

-----------------------------------------------------------------------------
(* The power reference: taken with the first request, given back by the     *)
(* last thread in the loop of an empty queue.                               *)

(* A thread took a request out of m_Queue and is about to present it.       *)
Taking(f) == f.pc = "present" \/ f.why = "insertFailedPresent"

HasIo == queue # <<>> \/ driverIoCount # 0 \/ \E t \in Threads : Taking(frame[t])

(* Somebody will come to look: a thread in the loop or with the lock, the   *)
(* DPC or work item, or a thread on its way into DispatchEvents.            *)
DeferPending == deferQueued /\ (requeueDeferred \/ frame[DeferThread].pc = "idle")

Watched ==
  \/ lock # NoThread \/ dispatching # 0 \/ DeferPending
  \/ \E t \in Threads : frame[t].pc \in {"completeCanceled", "lockEnter"}

ReferenceInv ==
  /\ Referencing /\ HasIo => powerReferenced
  /\ powerReferenced => HasIo \/ Watched

(* A step that keeps it.                                                    *)
Tracks ==
  /\ powerReferenced => powerReferenced'
  /\ Referencing /\ HasIo' => HasIo \/ powerReferenced'
  /\ powerReferenced' => \/ HasIo' \/ Watched'
                         \/ /\ UNCHANGED powerReferenced
                            /\ HasIo => HasIo'
                            /\ Watched => Watched'

LEMMA TracksKeeps ==
  ASSUME ReferenceInv, Tracks
  PROVE  ReferenceInv'
BY DEF ReferenceInv, Tracks, Referencing

(* m_DriverIoCount is a natural number, and not zero while the driver has a *)
(* request.                                                                 *)
LEMMA CountFacts ==
  ASSUME OwnerInv
  PROVE  driverIoCount \in Nat /\ \A r \in Requests : Listed(r) => driverIoCount # 0
<1> DEFINE L == {r \in Requests : Listed(r)}
<1>1. driverIoCount = Cardinality(L) /\ IsFiniteSet(L)
  BY ThreadAssumption, FS_Subset DEF OwnerInv, CountInv
<1>2. Cardinality(L) \in Nat /\ (Cardinality(L) = 0 => L = {})
  BY <1>1, FS_CardinalityType, FS_EmptySet
<1> QED BY <1>1, <1>2

(* Taking a request for the first time sets the reference.                  *)
LEMMA InsertReferences ==
  ASSUME NEW n, CheckTransitionFromEmpty(n)
  PROVE  /\ powerReferenced => powerReferenced'
         /\ powerReferenced' => powerReferenced \/ Referencing
         /\ n = 1 /\ Referencing => powerReferenced'
BY DEF CheckTransitionFromEmpty, SetTransitionFromEmpty, readyVars, Referencing

-----------------------------------------------------------------------------
(* Steps outside the loop.                                                  *)

OutsideStep == UNCHANGED frame \/ \E t \in Threads : Outside(t)

LEMMA OutsideTakes ==
  ASSUME FrameOK, OutsideStep
  PROVE  \A u \in Threads : Taking(frame'[u]) <=> Taking(frame[u])
<1>1. {"present"} \subseteq InLoopPoints
  BY LoopPointFacts
<1> QED BY <1>1 DEF OutsideStep, Outside, Moves, Taking, FrameOK

(* Whoever enters DispatchEvents, or finds a thread there, leaves the queue *)
(* watched.                                                                 *)
Watches == Watched' /\ OutsideStep

LEMMA EnterWatches ==
  ASSUME FrameOK, NEW t \in Threads, frame[t].pc \in FreePoints, NEW r, NEW pc, Enter(t, r, pc)
  PROVE  Watches
<1>1. lock' # NoThread
  BY ThreadAssumption DEF Enter
<1> QED BY <1>1, EnterOutside DEF Watches, Watched, OutsideStep

LEMMA InternalWatches ==
  ASSUME FrameOK, NEW t \in Threads, frame[t].pc \in FreePoints, NEW pc \in FreePoints,
         DispatchInternalEvents(t, pc), UNCHANGED dispatching
  PROVE  Watches
<1>1. lock' # NoThread \/ dispatching' # 0
  BY ThreadAssumption DEF DispatchInternalEvents, Enter
<1> QED BY <1>1, DispatchInternalOutside DEF Watches, Watched, OutsideStep

LEMMA AnyWatches ==
  ASSUME FrameOK, DispatchInternalEventsAny, UNCHANGED dispatching
  PROVE  Watches
<1>1. CASE dispatching = 0
  <2>1. PICK t \in Workers : frame[t].pc = "idle" /\ Enter(t, NoRequest, "idle")
    BY <1>1 DEF DispatchInternalEventsAny
  <2> QED BY <2>1, IdleWorker, EnterWatches
<1>2. CASE dispatching # 0
  BY <1>2 DEF DispatchInternalEventsAny, Watches, Watched, OutsideStep
<1> QED BY <1>1, <1>2

LEMMA CancelWatches ==
  ASSUME FrameOK, NEW t \in Threads, frame[t].pc \in FreePoints, NEW r, NEW n,
         NEW pc \in FreePoints \ {"completeCanceled"}, CancelForQueue(t, r, n, pc),
         UNCHANGED dispatching
  PROVE  Watches
<1>1. CASE GoesToDriver(r)
  BY <1>1, InternalWatches DEF CancelForQueue
<1>2. CASE ~GoesToDriver(r)
  <2>1. frame' = [frame EXCEPT ![t] = [@ EXCEPT !.pc = "completeCanceled", !.after = pc]]
    BY <1>2 DEF CancelForQueue
  <2>2. frame'[t].pc = "completeCanceled"
    BY <2>1 DEF FrameOK, SoundFrame, Frame
  <2> QED BY <2>2, CancelOutside DEF Watches, Watched, OutsideStep
<1> QED BY <1>1, <1>2

(* A step of a thread that nobody relies on to come and look.               *)
Passes(t) ==
  /\ Outside(t) /\ UNCHANGED <<lock, dispatching, deferVars>>
  /\ frame[t].pc \notin {"completeCanceled", "lockEnter"}
  /\ t = DeferThread => frame[t].pc # "idle"

LEMMA PassesWatched ==
  ASSUME FrameOK, \/ UNCHANGED <<frame, lock, dispatching, deferVars>>
                  \/ \E t \in Threads : Passes(t)
  PROVE  (Watched => Watched') /\ OutsideStep
<1>1. CASE UNCHANGED <<frame, lock, dispatching, deferVars>>
  BY <1>1 DEF Watched, DeferPending, deferVars, OutsideStep
<1>2. ASSUME NEW t \in Threads, Passes(t)
      PROVE  (Watched => Watched') /\ OutsideStep
  <2>1. \A u \in Threads : u # t => frame'[u] = frame[u]
    BY <1>2 DEF Passes, Outside, Moves, FrameOK
  <2>2. DeferPending => DeferPending'
    BY <1>2, <2>1 DEF Passes, DeferPending, deferVars, Threads
  <2> QED BY <1>2, <2>1, <2>2 DEF Passes, Watched, OutsideStep
<1> QED BY <1>1, <1>2

(* What is left to show of such steps: the queue and the count.             *)
LEMMA OutsideTracks ==
  ASSUME FrameOK, Watches \/ UNCHANGED <<frame, lock, dispatching, deferVars>>
                          \/ \E t \in Threads : Passes(t),
         \/ UNCHANGED powerReferenced
         \/ Watches /\ (powerReferenced => powerReferenced'),
         queue' # <<>> \/ driverIoCount' # 0 =>
           queue # <<>> \/ driverIoCount # 0 \/ (Referencing => powerReferenced'),
         Watches \/ (queue # <<>> \/ driverIoCount # 0 => queue' # <<>> \/ driverIoCount' # 0)
  PROVE  Tracks /\ OutsideStep
<1>0. OutsideStep
  BY PassesWatched DEF Watches
<1>1. \A u \in Threads : Taking(frame'[u]) <=> Taking(frame[u])
  BY <1>0, OutsideTakes
<1>2. Watched' \/ (Watched => Watched')
  BY PassesWatched DEF Watches
<1>3. Referencing /\ HasIo' => HasIo \/ powerReferenced'
  BY <1>1 DEF HasIo
<1>4. CASE Watches
  BY <1>0, <1>3, <1>4 DEF Tracks, Watches
<1>5. CASE ~Watches
  BY <1>0, <1>1, <1>2, <1>3, <1>5 DEF Tracks, HasIo
<1> QED BY <1>4, <1>5

LEMMA OperationTracks ==
  ASSUME TypeInv, OwnerInv, NEW t \in Threads, ThreadStep(t), ~DispatchStep(t)
  PROVE  Tracks /\ OutsideStep
<1>1. FrameOK /\ queue \in Seq(Requests)
  BY DEF TypeInv, TypeOK
<1>2. {"completeCanceled", "drainQueue", "drainDriver", "cancelDriver", "lockEnter", "setDisposing",
       "waitDisposed", "idle"} \subseteq FreePoints
  BY DEF FreePoints
<1>3. CASE CompleteCanceled(t) \/ DrainCancelForDriver(t)
  <2>1. /\ UNCHANGED <<queue, driverIoCount, dispatching, powerReferenced>>
        /\ frame[t].pc \in FreePoints
        /\ \E pc \in FreePoints : DispatchInternalEvents(t, pc)
    BY <1>1, <1>2, <1>3, FrameFields DEF CompleteCanceled, DrainCancelForDriver, readyVars
  <2>2. Watches
    BY <1>1, <2>1, InternalWatches
  <2> QED BY <1>1, <2>1, <2>2, OutsideTracks
<1>4. CASE LockAndEnter(t) \/ SetDisposing(t)
  <2>1. UNCHANGED <<queue, driverIoCount, powerReferenced>>
    BY <1>4 DEF LockAndEnter, SetDisposing, readyVars
  <2>2. CASE SetDisposing(t)
    <3>1. Watches
      BY <1>1, <1>2, <2>2, EnterWatches DEF SetDisposing
    <3> QED BY <1>1, <2>1, <3>1, OutsideTracks
  <2>3. CASE LockAndEnter(t)
    <3>1. frame[t].why = "none" /\ lock' # NoThread
      BY <1>1, <2>3, ThreadAssumption DEF LockAndEnter, FrameOK, SoundFrame
    <3>2. Moves(t) /\ frame'[t].pc = "enter" /\ frame'[t].why = "none"
      BY <1>1, <2>3, <3>1 DEF LockAndEnter, Moves, FrameOK, SoundFrame, Frame
    <3>3. Outside(t)
      BY <1>2, <2>3, <3>1, <3>2, PointFacts DEF LockAndEnter, Outside
    <3>4. Watches
      BY <3>1, <3>3 DEF Watches, Watched, OutsideStep
    <3> QED BY <1>1, <2>1, <3>4, OutsideTracks
  <2> QED BY <1>4, <2>2, <2>3
<1>5. CASE FinishDisposing(t)
  <2>1. /\ UNCHANGED <<queue, driverIoCount, powerReferenced, lock, dispatching, deferVars>>
        /\ frame[t].pc = "waitDisposed" /\ Go(t, "idle")
    BY <1>5 DEF FinishDisposing, readyVars
  <2>2. Passes(t)
    BY <1>1, <1>2, <2>1, GoOutside DEF Passes
  <2> QED BY <1>1, <2>1, <2>2, OutsideTracks
<1>6. CASE DrainDriver(t)
  <2>1. /\ UNCHANGED <<queue, driverIoCount, powerReferenced, lock, dispatching, deferVars>>
        /\ frame[t].pc = "drainDriver"
        /\ Go(t, "lockEnter") \/ \E r \in Revocable :
             frame' = [frame EXCEPT ![t] = [@ EXCEPT !.pc = "cancelDriver", !.cur = r]]
    BY <1>6 DEF DrainDriver, readyVars
  <2>2. Outside(t)
    <3>1. CASE Go(t, "lockEnter")
      BY <1>1, <1>2, <2>1, <3>1, GoOutside
    <3>2. ASSUME NEW r, frame' = [frame EXCEPT ![t] = [@ EXCEPT !.pc = "cancelDriver", !.cur = r]]
          PROVE  Outside(t)
      <4>1. Moves(t) /\ frame'[t].pc = "cancelDriver" /\ frame'[t].why = frame[t].why
        BY <1>1, <3>2 DEF Moves, FrameOK, SoundFrame, Frame
      <4> QED BY <1>2, <2>1, <4>1, PointFacts DEF Outside
    <3> QED BY <2>1, <3>1, <3>2
  <2>3. t # DeferThread \/ frame[t].pc # "idle"
    BY <2>1
  <2>4. Passes(t)
    BY <2>1, <2>2, <2>3 DEF Passes
  <2> QED BY <1>1, <2>1, <2>4, OutsideTracks
<1>7. CASE DrainQueue(t)
  <2>1. frame[t].pc = "drainQueue" /\ UNCHANGED <<powerReferenced, dispatching, deferVars>>
    BY <1>7 DEF DrainQueue, readyVars
  <2>2. SomeLive => queue # <<>>
    BY DEF SomeLive, LiveIndexes
  <2>3. CASE Go(t, "drainDriver")
           /\ queue' = (IF SomeLive THEN <<FirstLive>> \o Without(queue, FirstLive) ELSE queue)
           /\ UNCHANGED <<driverIoCount, lock>>
    <3>1. Passes(t)
      BY <1>1, <1>2, <2>1, <2>3, GoOutside DEF Passes
    <3>2. SomeLive => queue' # <<>>
      <4>1. SomeLive => FirstLive \in Requests /\ Without(queue, FirstLive) \in Seq(Requests)
        BY <1>1, FirstLiveIsQueued, WithoutType DEF TypeInv, TypeOK
      <4> QED BY <2>3, <4>1
    <3> QED BY <1>1, <2>1, <2>2, <2>3, <3>1, <3>2, OutsideTracks
  <2>4. CASE SomeLive /\ CancelForQueue(t, FirstLive, driverIoCount, "drainQueue")
    <3>1. Watches
      BY <1>1, <1>2, <2>1, <2>4, CancelWatches
    <3> QED BY <1>1, <2>1, <2>2, <2>4, <3>1, OutsideTracks
  <2> QED BY <1>7, <2>3, <2>4 DEF DrainQueue
<1> QED BY <1>3, <1>4, <1>5, <1>6, <1>7 DEF ThreadStep

(* A worker that is idle does what nobody waits for.                        *)
LEMMA IdlePasses ==
  ASSUME FrameOK, NEW t \in Workers, frame[t].pc = "idle", Outside(t),
         UNCHANGED <<lock, dispatching, deferVars>>
  PROVE  \E u \in Threads : Passes(u)
<1>1. t \in Threads /\ t # DeferThread
  BY ThreadAssumption DEF Threads
<1> QED BY <1>1 DEF Passes

LEMMA DriverCallTracks ==
  ASSUME TypeInv, NEW t \in Workers, DriverCall(t)
  PROVE  Tracks /\ OutsideStep
<1>1. FrameOK /\ t \in Threads /\ {"idle", "drainQueue", "lockEnter"} \subseteq FreePoints
  BY DEF TypeInv, Threads, FreePoints
<1>2. /\ UNCHANGED <<queue, driverIoCount, powerReferenced, dispatching, deferVars>>
      /\ frame[t].pc = "idle"
  BY DEF DriverCall, QueueStart, Dispose, QueueIdle, QueuePurge, BeginPurge, ReadyNotify,
     ForceReadyIfQueued, readyVars, Idle
<1>3. CASE QueueStart(t) \/ \E b \in BOOLEAN : ReadyNotify(t, b)
  <2>1. Enter(t, NoRequest, "idle")
    BY <1>3 DEF QueueStart, ReadyNotify
  <2>2. Watches
    BY <1>1, <1>2, <2>1, EnterWatches
  <2> QED BY <1>1, <1>2, <2>2, OutsideTracks
<1>4. ASSUME UNCHANGED lock, Moves(t), frame'[t].pc \in {"drainQueue", "lockEnter"},
             frame'[t].why = frame[t].why
      PROVE  Tracks /\ OutsideStep
  <2>1. Outside(t)
    BY <1>1, <1>2, <1>4, PointFacts DEF Outside
  <2> QED BY <1>1, <1>2, <1>4, <2>1, IdlePasses, OutsideTracks
<1>5. ASSUME NEW b, NEW c, NEW op, BeginPurge(t, b, c, op)
      PROVE  Tracks /\ OutsideStep
  <2>1. /\ UNCHANGED lock
        /\ \E pc \in {"drainQueue", "lockEnter"} :
             frame' = [frame EXCEPT ![t] = [@ EXCEPT !.pc = pc, !.op = op]]
    BY <1>5 DEF BeginPurge
  <2>2. /\ Moves(t) /\ frame'[t].pc \in {"drainQueue", "lockEnter"}
        /\ frame'[t].why = frame[t].why
    BY <1>1, <2>1 DEF Moves, FrameOK, SoundFrame, Frame
  <2> QED BY <1>4, <2>1, <2>2
<1>6. ASSUME NEW b \in BOOLEAN, NEW c \in BOOLEAN, QueueIdle(t, b, c)
      PROVE  Tracks /\ OutsideStep
  <2>1. /\ UNCHANGED lock
        /\ \/ Go(t, "lockEnter")
           \/ frame' = [frame EXCEPT ![t] = [@ EXCEPT !.pc = "drainQueue", !.op = "stop"]]
    BY <1>6 DEF QueueIdle
  <2>2. /\ Moves(t) /\ frame'[t].pc \in {"drainQueue", "lockEnter"}
        /\ frame'[t].why = frame[t].why
    <3>1. CASE Go(t, "lockEnter")
      BY <1>1, <3>1 DEF Go, Moves, FrameOK, SoundFrame, Frame
    <3>2. CASE frame' = [frame EXCEPT ![t] = [@ EXCEPT !.pc = "drainQueue", !.op = "stop"]]
      BY <1>1, <3>2 DEF Moves, FrameOK, SoundFrame, Frame
    <3> QED BY <2>1, <3>1, <3>2
  <2> QED BY <1>4, <2>1, <2>2
<1> QED BY <1>3, <1>5, <1>6 DEF DriverCall, Dispose, QueuePurge

LEMMA PowerTracks ==
  ASSUME TypeInv, ReferenceInv, EmptyInv, DeferStep \/ PowerDown \/ PowerStep
  PROVE  Tracks /\ OutsideStep
<1>1. /\ FrameOK /\ PowerThread \in Threads /\ DeferThread \in Threads
      /\ PowerThread # DeferThread
  BY ThreadAssumption DEF TypeInv, Threads
<1>2. {"idle", "deferredEnd", "on", "waitStart", "started", "waitHold", "off", "purge", "setPurge",
       "waitPurge", "resumed", "drainQueue", "lockEnter"} \subseteq FreePoints
  BY DEF FreePoints
<1>3. UNCHANGED <<queue, driverIoCount, powerReferenced, dispatching>>
  BY DEF DeferStep, PowerDown, PowerStep, DeferredDispatch, DeferredEnd, StartPowerTransitionOff,
     SetStateForShutdown, WaitPowerIdle, StopProcessingForPowerHold, PowerPurge, BeginPurge,
     StopProcessingForPowerPurge, ResetStateForRestart, ResumeProcessingForPower,
     StartPowerTransitionOn, ForceReadyIfQueued, readyVars
<1>4. ASSUME NEW t \in Threads, frame[t].pc \in FreePoints, NEW pc, Enter(t, NoRequest, pc)
      PROVE  Tracks /\ OutsideStep
  <2>1. Watches
    BY <1>1, <1>4, EnterWatches
  <2> QED BY <1>1, <1>3, <2>1, OutsideTracks
<1>5. CASE DeferredDispatch
  BY <1>1, <1>2, <1>4, <1>5 DEF DeferredDispatch
<1>6. CASE \/ StartPowerTransitionOff \/ StopProcessingForPowerHold
           \/ StopProcessingForPowerPurge \/ ResumeProcessingForPower \/ StartPowerTransitionOn
  <2>1. \E pc : Enter(PowerThread, NoRequest, pc)
    BY <1>6 DEF StartPowerTransitionOff, StopProcessingForPowerHold, StopProcessingForPowerPurge,
       ResumeProcessingForPower, StartPowerTransitionOn, PowerEnter
  <2>2. frame[PowerThread].pc \in {"on", "started", "setPurge", "purge", "off", "resumed"}
    BY <1>6 DEF StartPowerTransitionOff, StopProcessingForPowerHold, StopProcessingForPowerPurge,
       ResumeProcessingForPower, StartPowerTransitionOn, AtPower
  <2> QED BY <1>1, <1>2, <1>4, <2>1, <2>2
<1>7. ASSUME UNCHANGED <<lock, deferVars>>, UNCHANGED frame \/ Outside(PowerThread),
             frame[PowerThread].pc \in {"waitStart", "waitHold", "waitPurge", "off", "on", "purge"}
      PROVE  Tracks /\ OutsideStep
  <2>1. UNCHANGED <<frame, lock, dispatching, deferVars>> \/ Passes(PowerThread)
    BY <1>1, <1>3, <1>7 DEF Passes
  <2> QED BY <1>1, <1>3, <2>1, OutsideTracks
<1>8. CASE WaitPowerIdle \/ SetStateForShutdown \/ ResetStateForRestart
  <2>1. UNCHANGED <<lock, deferVars>>
    BY <1>8 DEF WaitPowerIdle, SetStateForShutdown, ResetStateForRestart
  <2>2. UNCHANGED frame \/ \E pc \in {"started", "off", "purge", "on"} : Go(PowerThread, pc)
    BY <1>8 DEF WaitPowerIdle, SetStateForShutdown, ResetStateForRestart
  <2>3. frame[PowerThread].pc \in {"waitStart", "waitHold", "waitPurge", "off", "on"}
    BY <1>8 DEF WaitPowerIdle, SetStateForShutdown, ResetStateForRestart, AtPower
  <2>4. UNCHANGED frame \/ Outside(PowerThread)
    BY <1>1, <1>2, <2>2, <2>3, GoOutside
  <2> QED BY <1>7, <2>1, <2>3, <2>4
<1>9. CASE PowerPurge
  <2>1. /\ UNCHANGED <<lock, deferVars>> /\ frame[PowerThread].pc = "purge"
        /\ frame' = [frame EXCEPT ![PowerThread] = [@ EXCEPT !.pc = "drainQueue",
                                                             !.op = "powerPurge"]]
    BY <1>9 DEF PowerPurge, BeginPurge, AtPower
  <2>2. /\ Moves(PowerThread) /\ frame'[PowerThread].pc = "drainQueue"
        /\ frame'[PowerThread].why = frame[PowerThread].why
    BY <1>1, <2>1 DEF Moves, FrameOK, SoundFrame, Frame
  <2>3. Outside(PowerThread)
    BY <1>2, <2>1, <2>2, PointFacts DEF Outside
  <2> QED BY <1>7, <2>1, <2>3
<1>10. CASE DeferredEnd
  <2>1. /\ frame[DeferThread].pc = "deferredEnd" /\ Go(DeferThread, "idle")
        /\ deferQueued' = (~deleted /\ requeueDeferred) /\ UNCHANGED lock
    BY <1>10 DEF DeferredEnd
  <2>2. Outside(DeferThread) /\ frame'[DeferThread].pc = "idle"
    <3>1. frame'[DeferThread].pc = "idle"
      BY <1>1, <2>1 DEF Go, FrameOK, SoundFrame, Frame
    <3> QED BY <1>1, <1>2, <2>1, <3>1, GoOutside
  <2>3. \A u \in Threads : u # DeferThread => frame'[u] = frame[u]
    BY <1>1, <2>2 DEF Outside, Moves, FrameOK
  <2>4. powerReferenced => (Watched => Watched')
    <3>1. powerReferenced => ~deleted
      BY DEF EmptyInv
    <3>2. ~deleted /\ DeferPending => DeferPending'
      BY <2>1, <2>2 DEF DeferPending
    <3> QED BY <1>3, <2>1, <2>3, <3>1, <3>2 DEF Watched
  <2>5. HasIo' <=> HasIo
    BY <1>1, <1>3, <2>2, OutsideTakes DEF HasIo, OutsideStep
  <2>6. powerReferenced => HasIo \/ Watched
    BY DEF ReferenceInv
  <2> QED BY <1>1, <1>3, <2>2, <2>4, <2>5, <2>6 DEF Tracks, OutsideStep
<1> QED BY <1>5, <1>6, <1>8, <1>9, <1>10 DEF DeferStep, PowerDown, PowerStep

(* Requests come, are cancelled, and the driver works on them.              *)
LEMMA ArriveTracks ==
  ASSUME TypeInv, NEW t \in Workers, NEW r \in Requests, QueueRequest(t, r)
  PROVE  Tracks /\ OutsideStep
<1>1. FrameOK /\ t \in Threads /\ "idle" \in FreePoints
  BY DEF TypeInv, Threads, FreePoints
<1>2. /\ UNCHANGED <<queue, driverIoCount, powerReferenced, dispatching, deferVars>>
      /\ frame[t].pc = "idle" /\ (Enter(t, r, "idle") \/ UNCHANGED <<lock, frame>>)
  BY DEF QueueRequest, readyVars, Idle
<1>3. Enter(t, r, "idle") => Watches
  BY <1>1, <1>2, EnterWatches
<1> QED BY <1>1, <1>2, <1>3, OutsideTracks

LEMMA RequestTracks ==
  ASSUME TypeInv, OwnerInv, NEW r \in Requests,
         CancelIrp(r) \/ CancelStep(r) \/ DriverStep(r) \/ FinishStep(r)
  PROVE  Tracks /\ OutsideStep
<1>1. FrameOK /\ driverIoCount \in Nat /\ (Listed(r) => driverIoCount # 0)
  BY CountFacts DEF TypeInv
<1>2. RequestOK(r)
  BY DEF OwnerInv, RequestInv
<1>3. ASSUME UNCHANGED <<queue, driverIoCount, powerReferenced, frame, lock, dispatching, deferVars>>
      PROVE  Tracks /\ OutsideStep
  BY <1>1, <1>3, OutsideTracks
<1>4. CASE CancelIrp(r) \/ IrpCancelForDriver(r)
  BY <1>3, <1>4 DEF CancelIrp, IrpCancelForDriver, readyVars
<1>5. CASE CancelForDriver(r)
  <2>1. /\ UNCHANGED <<queue, driverIoCount, powerReferenced, dispatching>>
        /\ DispatchInternalEventsAny
    BY <1>5 DEF CancelForDriver, readyVars
  <2>2. Watches
    BY <1>1, <2>1, AnyWatches
  <2> QED BY <1>1, <2>1, <2>2, OutsideTracks
<1>6. ASSUME NEW t \in Workers, IrpCancelForQueue(t, r)
      PROVE  Tracks /\ OutsideStep
  <2>1. /\ t \in Threads /\ "idle" \in FreePoints \ {"completeCanceled"} /\ frame[t].pc = "idle"
        /\ UNCHANGED <<powerReferenced, dispatching>> /\ queue # <<>>
        /\ CancelForQueue(t, r, driverIoCount, "idle")
    BY <1>6 DEF IrpCancelForQueue, readyVars, Idle, Threads, FreePoints, Elements
  <2>2. Watches
    BY <1>1, <2>1, CancelWatches
  <2> QED BY <1>1, <2>1, <2>2, OutsideTracks
<1>7. CASE \E b \in BOOLEAN : StopAcknowledge(r, b)
  BY <1>3, <1>7 DEF StopAcknowledge, readyVars
<1>8. CASE \/ CompleteRequest(r) \/ MarkCancelable(r) \/ UnmarkCancelable(r) \/ ForwardBegin(r)
           \/ ForwardRefused(r)
  BY <1>3, <1>8 DEF CompleteRequest, MarkCancelable, UnmarkCancelable, ForwardBegin,
     ForwardRefused, readyVars
<1>9. ASSUME NEW t \in Workers, Requeue(t, r)
      PROVE  Tracks /\ OutsideStep
  <2>1. /\ t \in Threads /\ {"idle", "lockEnter"} \subseteq FreePoints \ {"completeCanceled"}
        /\ frame[t].pc = "idle" /\ UNCHANGED dispatching
    BY <1>9 DEF Requeue, Idle, Threads, FreePoints
  <2>2. driverIoCount # 0
    <3>1. Listed(r)
      BY <1>2, <1>9 DEF Requeue, Holds, RequestOK, DriverOK, Listed
    <3> QED BY <1>1, <3>1
  <2>3. Watches
    <3>1. \/ Enter(t, NoRequest, "idle")
          \/ CancelForQueue(t, r, driverIoCount - 1, "lockEnter")
      BY <1>9 DEF Requeue
    <3> QED BY <1>1, <2>1, <3>1, EnterWatches, CancelWatches
  <2>4. powerReferenced => powerReferenced'
    BY <1>9, InsertReferences DEF Requeue, readyVars
  <2> QED BY <1>1, <2>2, <2>3, <2>4, OutsideTracks
<1>10. CASE FinishStep(r)
  <2>1. /\ UNCHANGED <<queue, powerReferenced, dispatching>> /\ DispatchInternalEventsAny
        /\ req[r].drv \in {"completing", "forwarding"}
    BY <1>10 DEF FinishStep, RequestCompletedCallback, ForwardDone, readyVars
  <2>2. driverIoCount # 0
    BY <1>1, <1>2, <2>1 DEF RequestOK, DriverOK, Listed
  <2>3. Watches
    BY <1>1, <2>1, AnyWatches
  <2> QED BY <1>1, <2>1, <2>2, <2>3, OutsideTracks
<1> QED BY <1>4, <1>5, <1>6, <1>7, <1>8, <1>9, <1>10 DEF CancelStep, DriverStep

LEMMA RetrieveTracks ==
  ASSUME TypeInv, OwnerInv, GetRequest
  PROVE  Tracks /\ OutsideStep
<1>1. FrameOK /\ driverIoCount \in Nat
  BY CountFacts DEF TypeInv
<1>2. /\ UNCHANGED <<powerReferenced, frame, lock, dispatching, deferVars>> /\ queue # <<>>
      /\ UNCHANGED queue \/ driverIoCount' = driverIoCount + 1
  BY DEF GetRequest
<1>3. queue' # <<>> \/ driverIoCount' # 0
  BY <1>1, <1>2
<1> QED BY <1>1, <1>2, <1>3, OutsideTracks

-----------------------------------------------------------------------------
(* Steps of the loop.                                                       *)

(* Of the steps of the loop only those that insert a request, or present a  *)
(* new one, bring the queue its first.                                      *)
LEMMA LoopTakes ==
  ASSUME FrameOK, NEW t \in Threads, DispatchStep(t), ~PresentNext(t),
         \A u \in Threads : ~Taking(frame[u])
  PROVE  \A u \in Threads : ~Taking(frame'[u])
<1>1. ASSUME NEW f, frame' = [frame EXCEPT ![t] = f], ~Taking(f)
      PROVE  \A u \in Threads : ~Taking(frame'[u])
  BY <1>1 DEF FrameOK
<1>2. frame[t] \in Frame /\ (frame[t].pc # "window" => frame[t].why = "none")
      /\ frame[t].after # "present" /\ frame[t].pc # "present"
  <2>1. "present" \notin FreePoints
    BY DEF FreePoints
  <2> QED BY <2>1, FrameFields DEF FrameOK, SoundFrame, Taking
<1>3. ASSUME NEW pc, Go(t, pc), pc # "present"
      PROVE  \A u \in Threads : ~Taking(frame'[u])
  BY <1>1, <1>2, <1>3 DEF Go, Taking, FrameOK, Frame
<1>4. ASSUME NEW why, NEW r, Window(t, why, r), why # "insertFailedPresent"
      PROVE  \A u \in Threads : ~Taking(frame'[u])
  BY <1>1, <1>2, <1>4 DEF Window, Taking, Frame
<1>5. ASSUME NEW pc, UnlockTo(t, pc), pc # "present"
      PROVE  \A u \in Threads : ~Taking(frame'[u])
  BY <1>1, <1>2, <1>5 DEF UnlockTo, Taking, Frame
<1>6. CASE EnterDispatchEvents(t) \/ PowerDereference(t) \/ BeginNotifying(t)
           \/ CollectAcknowledged(t)
  BY <1>3, <1>6 DEF EnterDispatchEvents, PowerDereference, BeginNotifying, CollectAcknowledged
<1>7. CASE LeaveDispatchEvents(t) \/ DeleteQueue(t) \/ StartingTransition(t) \/ PowerOn(t)
           \/ AwaitAcknowledge(t)
  BY <1>2, <1>5, <1>7 DEF LeaveDispatchEvents, DeleteQueue, StartingTransition, PowerOn,
     AwaitAcknowledge
<1>8. CASE EnterDeleted(t)
  BY <1>2, <1>5, <1>8 DEF EnterDeleted
<1>9. CASE EnterDeferred(t)
  <2>1. frame' = [frame EXCEPT ![t] = [@ EXCEPT !.pc = frame[t].after, !.new = NoRequest]]
    BY <1>9 DEF EnterDeferred
  <2>2. frame[t].pc = "enter"
    BY <1>9 DEF EnterDeferred
  <2> QED BY <1>1, <1>2, <2>1, <2>2 DEF Taking, Frame
<1>10. CASE InsertNewRequest(t)
  <2>1. CASE frame' = [frame EXCEPT ![t].new = NoRequest]
    BY <1>1, <1>2, <2>1 DEF Taking, Frame, FrameOK
  <2> QED BY <1>4, <1>10, <2>1 DEF InsertNewRequest
<1>11. CASE Relock(t)
  <2>1. frame[t].why # "insertFailedPresent"
    BY DEF Taking
  <2>2. frame'[t].pc # "present" /\ frame'[t].why = "none" /\ Moves(t)
    BY <1>2, <1>11, <2>1 DEF Relock, Moves, FrameOK, SoundFrame, Frame
  <2> QED BY <1>1, <2>2 DEF Moves, Taking
<1>12. CASE ProcessCancelledRequests(t) \/ ProcessCancelledRequestsOnQueue(t)
  BY <1>3, <1>4, <1>12 DEF ProcessCancelledRequests, ProcessCancelledRequestsOnQueue
<1>13. CASE ProcessIdleComplete(t) \/ ProcessPurgeComplete(t) \/ ProcessReadyNotify(t)
  BY <1>4, <1>13 DEF ProcessIdleComplete, ProcessPurgeComplete, ProcessReadyNotify
<1>14. CASE PresentNew(t) \/ PresentTaken(t)
  BY <1>4, <1>14 DEF PresentNew, PresentTaken, Present
<1>15. CASE NotifyStop(t) \/ NotifyResume(t)
  BY <1>4, <1>15 DEF NotifyStop, NotifyResume
<1>16. CASE ProcessAcknowledgedRequest(t) \/ RequeueAcknowledged(t)
  BY <1>3, <1>4, <1>16 DEF ProcessAcknowledgedRequest, RequeueAcknowledged
<1> QED BY <1>6, <1>7, <1>8, <1>9, <1>10, <1>11, <1>12, <1>13, <1>14, <1>15, <1>16
        DEF DispatchStep

LEMMA LoopAdds ==
  ASSUME TypeInv, OwnerInv, NEW t \in Threads, DispatchStep(t), ~PowerDereference(t)
  PROVE  /\ powerReferenced => powerReferenced'
         /\ Referencing /\ HasIo' => HasIo \/ powerReferenced'
<1>1. FrameOK
  BY DEF TypeInv
<1>2. powerReferenced => powerReferenced'
  <2>1. SetTransitionFromEmpty => (powerReferenced => powerReferenced')
    BY DEF SetTransitionFromEmpty
  <2> QED BY <2>1, InsertReferences DEF DispatchStep, EnterDispatchEvents, EnterDeleted,
       EnterDeferred, InsertNewRequest, Relock, LeaveDispatchEvents, ProcessCancelledRequests,
       ProcessCancelledRequestsOnQueue, ProcessIdleComplete, ProcessPurgeComplete,
       ProcessReadyNotify, DeleteQueue, PresentNew, PresentNext, PresentTaken, StartingTransition,
       BeginNotifying, NotifyStop, NotifyResume, PowerOn, CollectAcknowledged,
       ProcessAcknowledgedRequest, RequeueAcknowledged, AwaitAcknowledge, readyVars
<1>3. ASSUME Referencing, ~HasIo, HasIo'
      PROVE  powerReferenced'
  <2>1. queue = <<>> /\ Len(queue) + 1 = 1 /\ driverIoCount = 0
        /\ \A u \in Threads : ~Taking(frame[u])
    BY <1>3 DEF HasIo
  <2>2. ~PresentNext(t)
    BY <2>1 DEF PresentNext, Turn, SomeLive, LiveIndexes
  <2>3. UNCHANGED <<queue, driverIoCount>> => ~HasIo'
    BY <1>1, <2>1, <2>2, LoopTakes DEF HasIo
  <2>4. ~PresentTaken(t)
    BY <2>1 DEF PresentTaken, Taking
  <2>5. ~RequeueAcknowledged(t)
    <3>1. ASSUME RequeueAcknowledged(t) PROVE FALSE
      <4>1. frame[t].cur \in Requests /\ Returning(frame[t]) = frame[t].cur
        BY <1>1, <3>1 DEF RequeueAcknowledged, FrameOK, SoundFrame, Takes, Returning
      <4>2. Listed(frame[t].cur)
        BY <4>1 DEF OwnerInv, RequestInv, RequestOK, ReturnOK, Neither, Listed
      <4> QED BY <2>1, <4>1, <4>2, CountFacts
    <3> QED BY <3>1
  <2>6. EnterDeferred(t) \/ InsertNewRequest(t) \/ PresentNew(t)
    BY <1>3, <2>2, <2>3, <2>4, <2>5 DEF DispatchStep, EnterDispatchEvents, EnterDeleted,
       Relock, LeaveDispatchEvents, ProcessCancelledRequests,
       ProcessCancelledRequestsOnQueue, ProcessIdleComplete, ProcessPurgeComplete,
       ProcessReadyNotify, DeleteQueue, StartingTransition, BeginNotifying, NotifyStop,
       NotifyResume, PowerOn, CollectAcknowledged, ProcessAcknowledgedRequest, AwaitAcknowledge
  <2>7. CASE PresentNew(t)
    BY <1>3, <2>7 DEF PresentNew, SetTransitionFromEmpty, Referencing
  <2>8. CASE EnterDeferred(t) \/ InsertNewRequest(t)
    <3>1. CheckTransitionFromEmpty(Len(queue) + 1) \/ UNCHANGED <<queue, driverIoCount>>
      BY <2>8 DEF EnterDeferred, InsertNewRequest
    <3> QED BY <1>3, <2>1, <2>3, <3>1, InsertReferences
  <2> QED BY <2>6, <2>7, <2>8
<1> QED BY <1>2, <1>3

(* A thread leaves the loop and is not missed: others are in it, or there   *)
(* is something to come back for, or it gave the reference back before.     *)
LEMMA LoopWatches ==
  ASSUME TypeInv, OwnerInv, LoopInv, EmptyInv, NEW t \in Threads, DispatchStep(t),
         powerReferenced'
  PROVE  HasIo' \/ Watched'
<1>1. FrameOK /\ t # NoThread
  BY ThreadAssumption DEF TypeInv
<1>2. ASSUME lock' = t
      PROVE  Watched'
  BY <1>1, <1>2 DEF Watched
<1>3. ASSUME UNCHANGED dispatching, frame[t].pc \in LoopPoints
      PROVE  Watched'
  <2>1. t \in LoopThreads /\ ~deleted
    BY <1>3 DEF LoopThreads, InLoop, LoopInv
  <2>2. dispatching # 0
    BY <2>1, LoopThreadsFinite, FS_EmptySet DEF LoopInv
  <2> QED BY <1>3, <2>2 DEF Watched
<1>4. ASSUME NEW k \in {"leave", "power"}, AtTurn(t, k), dispatching' = dispatching - 1,
             UNCHANGED <<queue, driverIoCount, powerReferenced>>
      PROVE  HasIo' \/ Watched'
  <2>1. CASE LastInLoop
    <3>1. powerReferenced /\ Referencing /\ frame[t].new = NoRequest
      BY <1>4 DEF EmptyInv, AtTurn
    <3>2. TotalIo(t) # 0
      BY <1>4, <2>1, <3>1 DEF AtTurn, Turn, Referencing
    <3>3. Len(queue) # 0 \/ driverIoCount # 0
      <4>1. Len(queue) \in Nat /\ driverIoCount \in Nat
        BY CountFacts DEF TypeInv, TypeOK
      <4> QED BY <3>1, <3>2, <4>1 DEF TotalIo
    <3> QED BY <1>4, <3>3 DEF HasIo
  <2>2. CASE ~LastInLoop
    <3>1. dispatching \in Int
      BY DEF TypeInv, TypeOK
    <3> QED BY <1>4, <2>2, <3>1 DEF LastInLoop, Watched
  <2> QED BY <2>1, <2>2
<1>5. CASE EnterDispatchEvents(t) \/ Relock(t) \/ PowerDereference(t)
  BY <1>2, <1>5 DEF EnterDispatchEvents, Relock, PowerDereference, AtTurn
<1>6. CASE EnterDeleted(t) \/ DeleteQueue(t)
  <2>1. UNCHANGED powerReferenced /\ deleted'
    <3>1. CASE EnterDeleted(t)
      BY <3>1 DEF EnterDeleted, readyVars, lifeVars
    <3>2. CASE DeleteQueue(t)
      BY <3>2 DEF DeleteQueue, readyVars
    <3> QED BY <1>6, <3>1, <3>2
  <2>2. EnterDeleted(t) => FALSE
    BY <2>1 DEF EnterDeleted, EmptyInv
  <2>3. DeleteQueue(t) => FALSE
    <3>1. ASSUME DeleteQueue(t) PROVE FALSE
      <4>1. Referencing /\ AtTurn(t, "delete")
        BY <2>1, <3>1 DEF EmptyInv, DeleteQueue
      <4> QED BY <2>1, <4>1 DEF AtTurn, Turn, Referencing
    <3> QED BY <3>1
  <2> QED BY <1>6, <2>2, <2>3
<1>7. CASE EnterDeferred(t)
  <2>1. deferQueued' /\ requeueDeferred'
    BY <1>7 DEF EnterDeferred
  <2> QED BY <2>1 DEF Watched, DeferPending
<1>8. CASE LeaveDispatchEvents(t) \/ StartingTransition(t) \/ PowerOn(t)
  <2>1. /\ \E k \in {"leave", "power"} : AtTurn(t, k)
        /\ dispatching' = dispatching - 1
        /\ UNCHANGED <<queue, driverIoCount, powerReferenced>>
    BY <1>8 DEF LeaveDispatchEvents, StartingTransition, PowerOn, readyVars
  <2> QED BY <1>4, <2>1
<1>9. CASE AwaitAcknowledge(t)
  <2>1. AtTurn(t, "power") /\ UNCHANGED <<queue, driverIoCount, powerReferenced>>
        /\ (dispatching' = dispatching - 1 \/ UNCHANGED lock)
    BY <1>9 DEF AwaitAcknowledge, readyVars
  <2> QED BY <1>2, <1>4, <2>1 DEF AtTurn
<1>10. CASE \/ InsertNewRequest(t) \/ ProcessCancelledRequests(t)
            \/ ProcessCancelledRequestsOnQueue(t) \/ ProcessIdleComplete(t)
            \/ ProcessPurgeComplete(t) \/ ProcessReadyNotify(t) \/ PresentNew(t)
            \/ PresentNext(t) \/ PresentTaken(t) \/ BeginNotifying(t) \/ NotifyStop(t)
            \/ NotifyResume(t) \/ CollectAcknowledged(t) \/ ProcessAcknowledgedRequest(t)
            \/ RequeueAcknowledged(t)
  <2>1. UNCHANGED dispatching
    BY <1>10 DEF InsertNewRequest, ProcessCancelledRequests, ProcessCancelledRequestsOnQueue,
       ProcessIdleComplete, ProcessPurgeComplete, ProcessReadyNotify, PresentNew, PresentNext,
       PresentTaken, BeginNotifying, NotifyStop, NotifyResume, CollectAcknowledged,
       ProcessAcknowledgedRequest, RequeueAcknowledged
  <2>2. frame[t].pc \in {"dispatch", "drainCancelled", "drainOnQueue", "ackLoop", "requeueAcked",
                         "present", "idleNow"}
    BY <1>10 DEF InsertNewRequest, ProcessCancelledRequests, ProcessCancelledRequestsOnQueue,
       ProcessIdleComplete, ProcessPurgeComplete, ProcessReadyNotify, PresentNew, PresentNext,
       PresentTaken, BeginNotifying, NotifyStop, NotifyResume, CollectAcknowledged,
       ProcessAcknowledgedRequest, RequeueAcknowledged, AtTurn
  <2> QED BY <1>3, <2>1, <2>2, LoopPointFacts
<1> QED BY <1>5, <1>6, <1>7, <1>8, <1>9, <1>10 DEF DispatchStep

(* The reference is given back when there is nothing at all.                *)
LEMMA Dereferenced ==
  ASSUME TypeInv, OwnerInv, LoopInv, NEW t \in Threads, PowerDereference(t)
  PROVE  ReferenceInv'
<1>1. /\ lock = t /\ frame[t].pc = "dispatch" /\ frame[t].new = NoRequest /\ LastInLoop
      /\ TotalIo(t) = 0
  BY DEF PowerDereference, AtTurn, Turn
<1>2. ~HasIo
  BY <1>1, LastSeesAll DEF HasIo, Taking
<1>3. ~HasIo' /\ ~powerReferenced'
  BY <1>2 DEF PowerDereference, HasIo
<1> QED BY <1>3 DEF ReferenceInv

LEMMA ReferenceInit == Init => ReferenceInv
<1> SUFFICES ASSUME Init
             PROVE  ReferenceInv
  OBVIOUS
<1>1. queue = <<>> /\ driverIoCount = 0 /\ ~powerReferenced
  BY DEF Init
<1>2. ASSUME NEW t \in Threads
      PROVE  frame[t].pc \in {"on", "idle"} /\ frame[t].why = "none"
  BY DEF Init
<1> QED BY <1>1, <1>2 DEF ReferenceInv, HasIo, Taking

LEMMA ReferenceStep ==
  TypeInv /\ OwnerInv /\ PowerInv /\ EmptyInv /\ ReferenceInv /\ [Next]_vars => ReferenceInv'
<1> SUFFICES ASSUME TypeInv, OwnerInv, PowerInv, EmptyInv, ReferenceInv, [Next]_vars
             PROVE  ReferenceInv'
  OBVIOUS
<1>1. CASE UNCHANGED vars
  BY <1>1 DEF vars, readyVars, deferVars, ReferenceInv, HasIo, Watched, DeferPending
<1>2. ASSUME NEW t \in Threads, ThreadStep(t)
      PROVE  ReferenceInv'
  <2>1. CASE PowerDereference(t)
    BY <2>1, Dereferenced DEF PowerInv
  <2>2. CASE DispatchStep(t) /\ ~PowerDereference(t)
    <3>1. Tracks
      BY <2>2, LoopAdds, LoopWatches DEF PowerInv, Tracks
    <3> QED BY <3>1, TracksKeeps
  <2>3. CASE ~DispatchStep(t)
    BY <1>2, <2>3, OperationTracks, TracksKeeps
  <2> QED BY <2>1, <2>2, <2>3
<1>3. CASE Next /\ ~\E t \in Threads : ThreadStep(t)
  <2>1. Tracks
    BY <1>3, DriverCallTracks, PowerTracks, ArriveTracks, RequestTracks, RetrieveTracks DEF Next
  <2> QED BY <2>1, TracksKeeps
<1> QED BY <1>1, <1>2, <1>3

(* A queue of the power policy owner holds its power reference from its     *)
(* first request until it is empty again, in whatever order its threads     *)
(* run: the check and the release are both under the lock, by the last      *)
(* thread in the loop, and whoever finds a thread in the loop leaves the    *)
(* release to it.                                                           *)
THEOREM ReferenceTracksIo == Spec => []PowerReferenceTracksIo
<1>1. TypeInv /\ OwnerInv /\ PowerInv /\ EmptyInv /\ ReferenceInv /\ [Next]_vars =>
        (TypeInv /\ OwnerInv /\ PowerInv /\ EmptyInv /\ ReferenceInv)'
  BY TypeStep, OwnerStep, PowerInductive, EmptyStep, ReferenceStep
<1>2. TypeInv /\ OwnerInv /\ PowerInv /\ EmptyInv /\ ReferenceInv => PowerReferenceTracksIo
  <2> SUFFICES ASSUME TypeInv, OwnerInv, PowerInv, EmptyInv, ReferenceInv, Referencing
               PROVE  /\ queue # <<>> \/ driverIoCount > 0 => powerReferenced
                      /\ queue = <<>> /\ driverIoCount = 0 /\ Free /\ dispatching = 0
                           /\ ~deferQueued
                           /\ (\A t \in Threads : frame[t].pc \notin {"completeCanceled", "lockEnter"})
                         => ~powerReferenced
    BY DEF PowerReferenceTracksIo, Referencing
  <2>1. queue # <<>> \/ driverIoCount > 0 => powerReferenced
    BY DEF ReferenceInv, HasIo
  <2>2. ASSUME queue = <<>>, driverIoCount = 0, Free, dispatching = 0, ~deferQueued,
               \A t \in Threads : frame[t].pc \notin {"completeCanceled", "lockEnter"},
               powerReferenced
        PROVE  FALSE
    <3>1. ~Watched
      BY <2>2 DEF Watched, DeferPending, Free
    <3>2. PICK t \in Threads : Taking(frame[t])
      BY <2>2, <3>1 DEF ReferenceInv, HasIo
    <3>3. t \in LoopThreads
      <4>1. frame[t].pc \in {"present", "window"}
        BY <3>2 DEF Taking, TypeInv, FrameOK, SoundFrame
      <4> QED BY <4>1, LoopPointFacts DEF LoopThreads, InLoop
    <3>4. ~deleted /\ dispatching # 0
      BY <3>3, LoopThreadsFinite, FS_EmptySet DEF PowerInv, LoopInv
    <3> QED BY <2>2, <3>4
  <2> QED BY <2>1, <2>2
<1> QED BY <1>1, <1>2, TypeInit, OwnerInit, PowerInit, EmptyInit, ReferenceInit, PTL DEF Spec

-----------------------------------------------------------------------------
(* While power is off the driver has nothing that it did not acknowledge.   *)

(* From BeginNotifying for a stop or a purge on.                            *)
DownNotified == {"StoppingNotifyingDriver", "StoppingDriverNotified",
                 "PurgeNotifyingDriver", "PurgeDriverNotified", "Off"}

(* The lists of a power change are used while it goes on, and a request     *)
(* that the driver acknowledged stays on them until the acknowledgement is  *)
(* worked off. From then on, and if it comes back to the driver's own list  *)
(* in another way, stopAcked knows of it.                                   *)
StopOK(r) ==
  /\ req[r].drv # "forwarding"
  /\ req[r].list = "notify" => IsPowerStateNotifyingDriver
  /\ req[r].list = "notified" =>
       DriverNotified \/ powerState \in {"StoppingNotifyingDriver", "PurgeNotifyingDriver"}
  /\ req[r].list \in Threads => req[r].ack # "none" /\ Acknowledges(frame[req[r].list])
  /\ req[r].irp # "done" /\ req[r].ack # "none" => req[r].list \in {"notified"} \cup Threads
  /\ \A t \in Threads : Returning(frame[t]) = r => req[r].ack = "none"
  /\ InDriver(r) /\ req[r].ack # "none" => r \in stopAcked
  /\ InDriver(r) /\ req[r].list = "owned" /\ powerState \in DownNotified => r \in stopAcked

StopInv == AckDemands => canceledOnQueue = {} /\ \A r \in Requests : StopOK(r)

(* What a thread in the middle of acknowledged requests works on stays.     *)
FramesCalm ==
  \A t \in Threads :
    /\ Acknowledges(frame[t]) => Acknowledges(frame'[t]) \/ On(t) = {}
    /\ Returning(frame'[t]) \in {Returning(frame[t]), NoRequest}

(* No step but those of a power change does anything that matters here.     *)
Calm == UNCHANGED powerState /\ stopAcked \subseteq stopAcked' /\ FramesCalm

LEMMA CalmStop ==
  ASSUME TypeInv, OwnerInv, QuietInv, AckDemands, StopInv, Calm, NEW r \in Requests, Fate(r),
         Relists(r) => Same(r)
  PROVE  StopOK(r)'
<1>1. StopOK(r) /\ r \notin canceledOnQueue /\ req[r] \in Request
  BY DEF StopInv, TypeInv, TypeOK
<1>2. \A t \in Threads : Returning(frame'[t]) = r => Returning(frame[t]) = r
  BY ThreadAssumption DEF Calm, FramesCalm
<1>3. req[r].list \in Threads /\ req'[r].list = req[r].list =>
         Acknowledges(frame'[req'[r].list])
  <2>1. req[r].list \in Threads => r \in On(req[r].list)
    BY DEF On
  <2> QED BY <1>1, <2>1 DEF Calm, FramesCalm, StopOK
<1>4. UNCHANGED <<IsPowerStateNotifyingDriver, DriverNotified>>
  BY DEF Calm, IsPowerStateNotifyingDriver, DriverNotified
<1>5. CASE Same(r) \/ Arrives(r)
  BY <1>1, <1>2, <1>3, <1>4, <1>5 DEF Same, Arrives, StopOK, Calm, InDriver
<1>6. CASE Ends(r)
  <2>1. /\ req'[r].irp = "done" /\ req'[r].ack = req[r].ack /\ ~InDriver(r)'
        /\ req'[r].list \in {req[r].list, "none"} /\ req'[r].drv # "forwarding"
    BY <1>6 DEF Ends, InDriver
  <2>2. "none" \notin Threads
    BY ThreadAssumption
  <2> QED BY <1>1, <1>2, <1>3, <1>4, <2>1, <2>2 DEF StopOK, Calm
<1>7. CASE Presented(r)
  <2>1. req[r].ack = "none"
    <3>1. "none" \notin Threads
      BY ThreadAssumption
    <3> QED BY <1>1, <1>7, <3>1 DEF Presented, StopOK
  <2>2. "owned" \notin Threads
    BY ThreadAssumption
  <2>3. powerState \notin DownNotified
    BY <1>7 DEF Presented, AckDemands, QuietInv, Quiet, DownNotified
  <2> QED BY <1>7, <2>1, <2>2, <2>3 DEF Presented, StopOK, Calm
<1>8. CASE StaysInDriver(r)
  BY <1>1, <1>2, <1>3, <1>4, <1>8 DEF StaysInDriver, StopOK, Calm, InDriver
<1>9. CASE Acknowledged(r)
  <2>1. "notified" \notin Threads
    BY ThreadAssumption
  <2>2. req'[r].drv # "forwarding" /\ req'[r].list = "notified" /\ req[r].list = "notified"
        /\ r \in stopAcked'
    BY <1>9 DEF Acknowledged, InDriver
  <2>3. ASSUME NEW t \in Threads
        PROVE  Returning(frame'[t]) # r
    <3>1. req[r].drv # "fx"
      BY <1>9 DEF Acknowledged, InDriver
    <3> QED BY <1>2, <3>1 DEF OwnerInv, RequestInv, RequestOK, ReturnOK, Neither
  <2>4. (DriverNotified \/ powerState \in {"StoppingNotifyingDriver", "PurgeNotifyingDriver"})'
    BY <1>1, <1>4, <2>2 DEF StopOK, Calm
  <2> QED BY <2>1, <2>2, <2>3, <2>4 DEF StopOK
<1>10. CASE Requeues(r)
  <2>1. req'[r].ack = "none" /\ ~InDriver(r)' /\ req'[r].drv # "forwarding"
    BY <1>1, <1>10 DEF Requeues, StopOK, InDriver
  <2>2. "none" \notin Threads
    BY ThreadAssumption
  <2> QED BY <1>10, <2>1, <2>2 DEF Requeues, StopOK
<1>11. ~Wanders(r)
  BY <1>1 DEF Wanders, StopOK
<1> QED BY <1>5, <1>6, <1>7, <1>8, <1>9, <1>10, <1>11 DEF Fate

(* Steps outside the loop are calm but for what the power thread does.      *)
LEMMA OutsideCalm ==
  ASSUME FrameOK, OutsideStep
  PROVE  FramesCalm
<1>1. CASE UNCHANGED frame
  BY <1>1 DEF FramesCalm
<1>2. ASSUME NEW t \in Threads, Outside(t)
      PROVE  FramesCalm
  <2>1. \A u \in Threads : u # t => frame'[u] = frame[u]
    BY <1>2 DEF Outside, Moves, FrameOK
  <2>2. ~Acknowledges(frame[t])
    BY <1>2, OutsideFacts DEF Outside
  <2>3. frame'[t].pc # "requeueAcked" /\ frame'[t].why # "requeued"
    BY <1>2, LoopPointFacts DEF Outside, FrameOK, SoundFrame
  <2> QED BY <2>1, <2>2, <2>3 DEF FramesCalm, Returning
<1> QED BY <1>1, <1>2 DEF OutsideStep

(* In the loop only a thread that works on acknowledged requests moves      *)
(* among them.                                                              *)
LEMMA LoopCalm ==
  ASSUME FrameOK, NEW t \in Threads, DispatchStep(t), ~PowerListing(t)
  PROVE  FramesCalm
<1>1. ASSUME NEW f, frame' = [frame EXCEPT ![t] = f],
             Acknowledges(frame[t]) => Acknowledges(f),
             Returning(f) \in {Returning(frame[t]), NoRequest}
      PROVE  FramesCalm
  BY <1>1 DEF FramesCalm, FrameOK
<1>2. frame[t] \in Frame /\ (frame[t].pc # "window" => frame[t].why = "none")
      /\ frame[t].after \notin {"ackLoop", "requeueAcked"}
  <2>1. "ackLoop" \notin FreePoints /\ "requeueAcked" \notin FreePoints
    BY DEF FreePoints
  <2> QED BY <2>1, FrameFields DEF FrameOK, SoundFrame
<1>3. ASSUME NEW pc, Go(t, pc), pc # "requeueAcked", frame[t].pc # "window",
             frame[t].pc \in {"ackLoop", "requeueAcked"} => pc = "ackLoop"
      PROVE  FramesCalm
  BY <1>1, <1>2, <1>3 DEF Go, Acknowledges, Returning, FrameOK, Frame
<1>4. ASSUME NEW why, NEW r, Window(t, why, r), why # "requeued", frame[t].pc # "window",
             frame[t].pc \in {"ackLoop", "requeueAcked"} => why = "requeueFailed"
      PROVE  FramesCalm
  BY <1>1, <1>2, <1>4 DEF Window, Acknowledges, Returning, Frame
<1>5. ASSUME NEW pc, UnlockTo(t, pc), pc # "requeueAcked",
             frame[t].pc \notin {"window", "ackLoop", "requeueAcked"}
      PROVE  FramesCalm
  BY <1>1, <1>2, <1>5 DEF UnlockTo, Acknowledges, Returning, Frame
<1>6. CASE UNCHANGED frame
  BY <1>6 DEF FramesCalm
<1>7. CASE EnterDispatchEvents(t) \/ PowerDereference(t)
  BY <1>3, <1>6, <1>7 DEF EnterDispatchEvents, PowerDereference
<1>8. CASE LeaveDispatchEvents(t) \/ DeleteQueue(t) \/ StartingTransition(t) \/ PowerOn(t)
           \/ AwaitAcknowledge(t)
  BY <1>2, <1>5, <1>6, <1>8 DEF LeaveDispatchEvents, DeleteQueue, StartingTransition, PowerOn,
     AwaitAcknowledge, AtTurn
<1>9. CASE EnterDeleted(t)
  BY <1>2, <1>5, <1>9 DEF EnterDeleted
<1>10. CASE EnterDeferred(t)
  <2>1. frame' = [frame EXCEPT ![t] = [@ EXCEPT !.pc = frame[t].after, !.new = NoRequest]]
        /\ frame[t].pc = "enter"
    BY <1>10 DEF EnterDeferred
  <2> QED BY <1>1, <1>2, <2>1 DEF Acknowledges, Returning, Frame
<1>11. CASE InsertNewRequest(t)
  <2>1. frame[t].pc = "dispatch"
    BY <1>11 DEF InsertNewRequest
  <2>2. CASE frame' = [frame EXCEPT ![t].new = NoRequest]
    BY <1>1, <1>2, <2>1, <2>2 DEF Acknowledges, Returning, Frame, FrameOK
  <2>3. CASE \E why \in {"insertFailedIdle", "insertFailed"} : Window(t, why, NoRequest)
    BY <1>4, <2>1, <2>3
  <2> QED BY <1>11, <2>2, <2>3 DEF InsertNewRequest
<1>12. CASE Relock(t)
  <2>1. /\ frame'[t].pc = "requeueAcked" => frame[t].why = "requeued" /\ frame'[t].cur = frame[t].cur
        /\ frame[t].why \in {"acked", "requeueFailed"} => frame'[t].pc = "ackLoop"
        /\ frame[t].why = "requeued" => frame'[t].pc = "requeueAcked"
        /\ frame'[t].why = "none" /\ Moves(t) /\ frame[t].pc = "window"
    BY <1>2, <1>12 DEF Relock, Moves, FrameOK, SoundFrame, Frame
  <2>2. frame' = [frame EXCEPT ![t] = frame'[t]]
    BY <2>1 DEF Moves
  <2> QED BY <1>1, <2>1, <2>2 DEF Acknowledges, Returning
<1>13. CASE ProcessCancelledRequests(t) \/ ProcessCancelledRequestsOnQueue(t)
  BY <1>3, <1>4, <1>13 DEF ProcessCancelledRequests, ProcessCancelledRequestsOnQueue, AtTurn
<1>14. CASE ProcessIdleComplete(t) \/ ProcessPurgeComplete(t) \/ ProcessReadyNotify(t)
  BY <1>4, <1>14 DEF ProcessIdleComplete, ProcessPurgeComplete, ProcessReadyNotify, AtTurn
<1>15. CASE PresentNew(t) \/ PresentTaken(t)
  BY <1>4, <1>15 DEF PresentNew, PresentTaken, Present
<1>16. CASE PresentNext(t)
  <2>1. frame[t].pc = "dispatch" /\ \E why \in {"io", "insertFailedPresent"}, r \in {FirstLive} :
          Window(t, why, r)
    BY <1>16 DEF PresentNext, Present
  <2> QED BY <1>4, <2>1
<1>17. CASE RequeueAcknowledged(t)
  BY <1>3, <1>4, <1>17 DEF RequeueAcknowledged
<1> QED BY <1>7, <1>8, <1>9, <1>10, <1>11, <1>12, <1>13, <1>14, <1>15, <1>16, <1>17
        DEF DispatchStep, PowerListing

(* The steps of a power change: those of DispatchEvents, and the power      *)
(* thread's.                                                                *)
PowerChanges(t) == PowerListing(t) \/ PowerOn(t) \/ AwaitAcknowledge(t)

PowerBegins ==
  \/ StartPowerTransitionOff \/ StopProcessingForPowerHold
  \/ StopProcessingForPowerPurge \/ ResumeProcessingForPower

(* A request is not kept for EvtIoCanceledOnQueue.                          *)
LEMMA CancelForgets ==
  ASSUME AckDemands, NEW t, NEW r, NEW n, NEW pc, CancelForQueue(t, r, n, pc)
  PROVE  UNCHANGED canceledOnQueue
BY DEF AckDemands, CancelForQueue, GoesToDriver

LEMMA LoopRests ==
  ASSUME TypeInv, AckDemands, NEW t \in Threads, DispatchStep(t)
  PROVE  /\ canceledOnQueue' \subseteq canceledOnQueue /\ UNCHANGED stopAcked
         /\ PowerChanges(t) \/ UNCHANGED powerState
<1>1. canceledOnQueue' \subseteq canceledOnQueue
  BY DEF DispatchStep, EnterDispatchEvents, EnterDeleted, EnterDeferred, InsertNewRequest, Relock,
     LeaveDispatchEvents, ProcessCancelledRequests, ProcessCancelledRequestsOnQueue,
     ProcessIdleComplete, ProcessPurgeComplete, ProcessReadyNotify, PowerDereference, DeleteQueue,
     PresentNew, PresentNext, PresentTaken, StartingTransition, BeginNotifying, NotifyStop,
     NotifyResume, PowerOn, CollectAcknowledged, ProcessAcknowledgedRequest, RequeueAcknowledged,
     AwaitAcknowledge, AckDemands, GoesToDriver, cancelVars
<1>2. UNCHANGED stopAcked
  BY DEF DispatchStep, EnterDispatchEvents, EnterDeleted, EnterDeferred, InsertNewRequest, Relock,
     LeaveDispatchEvents, ProcessCancelledRequests, ProcessCancelledRequestsOnQueue,
     ProcessIdleComplete, ProcessPurgeComplete, ProcessReadyNotify, PowerDereference, DeleteQueue,
     PresentNew, PresentNext, PresentTaken, StartingTransition, BeginNotifying, NotifyStop,
     NotifyResume, PowerOn, CollectAcknowledged, ProcessAcknowledgedRequest, RequeueAcknowledged,
     AwaitAcknowledge, auxVars
<1>3. PowerChanges(t) \/ UNCHANGED powerState
  BY DEF DispatchStep, EnterDispatchEvents, EnterDeleted, EnterDeferred, InsertNewRequest, Relock,
     LeaveDispatchEvents, ProcessCancelledRequests, ProcessCancelledRequestsOnQueue,
     ProcessIdleComplete, ProcessPurgeComplete, ProcessReadyNotify, PowerDereference, DeleteQueue,
     PresentNew, PresentNext, PresentTaken, StartingTransition, RequeueAcknowledged,
     PowerChanges, PowerListing, powerVars
<1> QED BY <1>1, <1>2, <1>3

LEMMA OperationRests ==
  ASSUME AckDemands, NEW t \in Threads, ThreadStep(t), ~DispatchStep(t)
  PROVE  UNCHANGED <<canceledOnQueue, stopAcked, powerState>>
<1>1. UNCHANGED <<stopAcked, powerState>>
  BY DEF ThreadStep, CompleteCanceled, DrainQueue, DrainDriver, DrainCancelForDriver,
     LockAndEnter, SetDisposing, FinishDisposing, auxVars, powerVars
<1>2. UNCHANGED canceledOnQueue
  BY CancelForgets DEF ThreadStep, CompleteCanceled, DrainQueue, DrainDriver,
     DrainCancelForDriver, LockAndEnter, SetDisposing, FinishDisposing, cancelVars
<1> QED BY <1>1, <1>2

LEMMA CallRests ==
  ASSUME NEW t \in Workers, DriverCall(t) \/ \E r \in Requests : QueueRequest(t, r)
  PROVE  UNCHANGED <<canceledOnQueue, stopAcked, powerState>>
<1>1. ASSUME NEW b, NEW c, NEW op, BeginPurge(t, b, c, op)
      PROVE  UNCHANGED <<canceledOnQueue, stopAcked, powerState>>
  BY <1>1 DEF BeginPurge, cancelVars, powerVars
<1>2. CASE Dispose(t) \/ \E b, c \in BOOLEAN : QueuePurge(t, b, c)
  BY <1>1, <1>2 DEF Dispose, QueuePurge
<1>3. CASE \/ QueueStart(t) \/ (\E b, c \in BOOLEAN : QueueIdle(t, b, c))
           \/ (\E b \in BOOLEAN : ReadyNotify(t, b)) \/ \E r \in Requests : QueueRequest(t, r)
  BY <1>3 DEF QueueStart, QueueIdle, ReadyNotify, QueueRequest, cancelVars, powerVars, auxVars
<1> QED BY <1>2, <1>3 DEF DriverCall

LEMMA PowerRests ==
  ASSUME AckDemands, DeferStep \/ PowerDown \/ PowerStep
  PROVE  /\ UNCHANGED canceledOnQueue
         /\ PowerBegins \/ UNCHANGED <<powerState, stopAcked>>
BY DEF DeferStep, PowerDown, PowerStep, DeferredDispatch, DeferredEnd, StartPowerTransitionOff,
   SetStateForShutdown, WaitPowerIdle, StopProcessingForPowerHold, PowerPurge, BeginPurge,
   StopProcessingForPowerPurge, ResetStateForRestart, ResumeProcessingForPower,
   StartPowerTransitionOn, PowerBegins, AckDemands, cancelVars, powerVars, auxVars

LEMMA RequestRests ==
  ASSUME AckDemands,
         \/ \E r \in Requests : CancelIrp(r) \/ CancelStep(r) \/ DriverStep(r) \/ FinishStep(r)
         \/ GetRequest
  PROVE  UNCHANGED <<canceledOnQueue, powerState>> /\ stopAcked \subseteq stopAcked'
<1>1. CASE GetRequest
  BY <1>1 DEF GetRequest, cancelVars, powerVars, auxVars
<1>2. ASSUME NEW r \in Requests, CancelIrp(r) \/ CancelStep(r)
      PROVE  UNCHANGED <<canceledOnQueue, powerState, stopAcked>>
  BY <1>2, CancelForgets DEF CancelIrp, CancelStep, IrpCancelForQueue, IrpCancelForDriver,
     CancelForDriver, powerVars, auxVars
<1>3. ASSUME NEW r \in Requests, DriverStep(r) \/ FinishStep(r)
      PROVE  UNCHANGED <<canceledOnQueue, powerState>> /\ stopAcked \subseteq stopAcked'
  <2>1. \A t : ~Requeue(t, r)
    BY DEF Requeue, AckDemands
  <2> QED BY <1>3, <2>1 DEF DriverStep, StopAcknowledge, CompleteRequest, MarkCancelable,
       UnmarkCancelable, ForwardBegin, ForwardRefused, FinishStep, RequestCompletedCallback,
       ForwardDone, cancelVars, powerVars, auxVars
<1> QED BY <1>1, <1>2, <1>3

(* A step that is none of a power change.                                   *)
LEMMA CalmKeeps ==
  ASSUME TypeInv, OwnerInv, PowerInv, EmptyInv, ReferenceInv, AckDemands, StopInv, Next,
         ~PowerBegins, \A t \in Threads : ~(DispatchStep(t) /\ PowerChanges(t))
  PROVE  StopInv'
<1>1. Calm /\ canceledOnQueue' \subseteq canceledOnQueue
  <2>1. FrameOK
    BY DEF TypeInv
  <2>2. ASSUME NEW t \in Threads, DispatchStep(t)
        PROVE  Calm /\ canceledOnQueue' \subseteq canceledOnQueue
    BY <2>1, <2>2, LoopCalm, LoopRests DEF Calm, PowerChanges
  <2>3. CASE OutsideStep
    <3>1. FramesCalm
      BY <2>1, <2>3, OutsideCalm
    <3> QED BY <2>2, <3>1, OperationRests, CallRests, PowerRests, RequestRests DEF Next, Calm
  <2>4. CASE ~\E t \in Threads : DispatchStep(t)
    BY <2>3, <2>4, OperationTracks, DriverCallTracks, PowerTracks, ArriveTracks, RequestTracks,
       RetrieveTracks DEF Next
  <2> QED BY <2>2, <2>4
<1>2. \A r \in Requests : Fate(r) /\ ~Relists(r)
  BY FateStep DEF Relists, PowerListing, PowerChanges, DispatchStep
<1>3. AckDemands' <=> AckDemands
  BY DEF AckDemands
<1> QED BY <1>1, <1>2, <1>3, CalmStop DEF StopInv, PowerInv

(* The lists of a power change are empty when none goes on.                 *)
Unlisted == \A r \in Requests : req[r].list \in {"none", "owned"}

LEMMA UnlistedStates ==
  ASSUME TypeInv, AckInv, AckDemands, StopInv,
         powerState \in {"On", "Off", "StartingTransition", "Stopping", "Purge", "Restarting",
                         "RestartingDriverNotified"}
  PROVE  Unlisted
<1>1. /\ ~IsPowerStateNotifyingDriver /\ ~DriverNotified
      /\ powerState \notin {"StoppingNotifyingDriver", "PurgeNotifyingDriver"}
  BY DEF IsPowerStateNotifyingDriver, DriverNotified
<1>2. ASSUME NEW r \in Requests
      PROVE  req[r].list \in {"none", "owned"}
  <2>1. StopOK(r) /\ req[r].list \in {"none", "owned", "notify", "notified"} \cup Threads
    BY DEF StopInv, TypeInv, TypeOK, Request
  <2> QED BY <1>1, <2>1 DEF StopOK, AckInv
<1> QED BY <1>2 DEF Unlisted

(* The power state changes while they are empty.                            *)
LEMMA UnlistedKeeps ==
  ASSUME OwnerInv, AckDemands, StopInv, Unlisted, UNCHANGED <<req, canceledOnQueue>>,
         \A t \in Threads : Returning(frame'[t]) \in {Returning(frame[t]), NoRequest},
         \/ powerState' \notin DownNotified
         \/ powerState \in DownNotified /\ stopAcked \subseteq stopAcked'
  PROVE  StopInv'
<1>1. ASSUME NEW r \in Requests
      PROVE  StopOK(r)'
  <2>1. StopOK(r) /\ req'[r] = req[r] /\ req[r].list \in {"none", "owned"}
    BY DEF StopInv, Unlisted
  <2>2. "none" \notin Threads /\ "owned" \notin Threads /\ NoRequest # r
    BY ThreadAssumption
  <2>3. InDriver(r) => req[r].ack = "none"
    <3>1. InDriver(r) => req[r].irp # "done"
      BY DEF OwnerInv, RequestInv, RequestOK, DriverOK, InDriver
    <3> QED BY <2>1, <2>2, <3>1 DEF StopOK
  <2> QED BY <2>1, <2>2, <2>3 DEF StopOK, InDriver
<1> QED BY <1>1 DEF StopInv

LEMMA BeginsKeeps ==
  ASSUME TypeInv, OwnerInv, PowerInv, EmptyInv, AckDemands, StopInv, PowerBegins
  PROVE  StopInv'
<1>1. FrameOK /\ PowerThread \in Threads
  BY DEF TypeInv, Threads
<1>2. frame[PowerThread].pc \in {"on", "started", "purge", "setPurge", "off"}
      /\ \E pc : Enter(PowerThread, NoRequest, pc)
  BY DEF PowerBegins, StartPowerTransitionOff, StopProcessingForPowerHold,
     StopProcessingForPowerPurge, ResumeProcessingForPower, AtPower, PowerEnter
<1>3. Unlisted
  <2>1. CASE deleted
    <3>1. \A r \in Requests : ~Listed(r)
      BY <2>1, EmptyFacts DEF EmptyInv
    <3> QED BY <3>1 DEF Unlisted, Listed
  <2>2. CASE ~deleted
    <3>1. ~InDispatchEvents(frame[PowerThread])
          /\ Stage(frame[PowerThread]) = frame[PowerThread].pc
      BY <1>2 DEF InDispatchEvents, Stage, LockedPoints
    <3>2. powerState \in {"On", "StartingTransition", "Off"}
      BY <1>2, <2>2, <3>1 DEF PowerInv, StageInv, StageOK, OffStages, UpStages, PurgeStages,
         AckDemands
    <3> QED BY <3>2, UnlistedStates DEF PowerInv
  <2> QED BY <2>1, <2>2
<1>4. /\ UNCHANGED <<req, canceledOnQueue>>
      /\ powerState' \in {"StartingTransition", "Stopping", "Purge", "Restarting"}
  BY DEF PowerBegins, StartPowerTransitionOff, StopProcessingForPowerHold,
     StopProcessingForPowerPurge, ResumeProcessingForPower, cancelVars
<1>5. \A t \in Threads : Returning(frame'[t]) \in {Returning(frame[t]), NoRequest}
  <2>1. frame[PowerThread].pc # "window"
    BY <1>2
  <2> QED BY <1>1, <1>2, <2>1, EnterHands, MovesOthers
<1> QED BY <1>3, <1>4, <1>5, UnlistedKeeps DEF DownNotified

(* What a step of the loop does to the lists, a request at a time.          *)
LEMMA ListingKeeps ==
  ASSUME AckDemands, StopInv, UNCHANGED canceledOnQueue, \A r \in Requests : StopOK(r)'
  PROVE  StopInv'
BY DEF StopInv

(* A request that stays where it is.                                        *)
LEMMA StaysStop ==
  ASSUME StopInv, AckDemands, UNCHANGED stopAcked, NEW r \in Requests, req'[r] = req[r],
         UNCHANGED powerState, FramesCalm
  PROVE  StopOK(r)'
<1>1. StopOK(r) /\ NoRequest # r
  BY ThreadAssumption DEF StopInv
<1>2. req[r].list \in Threads => Acknowledges(frame'[req[r].list])
  <2>1. req[r].list \in Threads => r \in On(req[r].list)
    BY DEF On
  <2> QED BY <1>1, <2>1 DEF FramesCalm, StopOK
<1> QED BY <1>1, <1>2 DEF StopOK, FramesCalm, InDriver, IsPowerStateNotifyingDriver, DriverNotified

(* A thread at the top of the loop goes on there or leaves the lock.        *)
LEMMA TurnCalm ==
  ASSUME FrameOK, NEW t \in Threads, frame[t].pc = "dispatch",
         \/ UNCHANGED frame
         \/ Go(t, "ackLoop")
         \/ \E pc \in FreePoints : UnlockTo(t, pc)
         \/ \E why \in {"stop", "resume"}, r \in Requests : Window(t, why, r)
  PROVE  FramesCalm
<1>1. ASSUME NEW f, frame' = [frame EXCEPT ![t] = f], Returning(f) = NoRequest
      PROVE  FramesCalm
  <2>1. ~Acknowledges(frame[t])
    BY DEF Acknowledges, FrameOK, SoundFrame
  <2> QED BY <1>1, <2>1 DEF FramesCalm, FrameOK
<1>2. frame[t] \in Frame /\ frame[t].why = "none" /\ "requeueAcked" \notin FreePoints
  BY FrameFields DEF FrameOK, SoundFrame, FreePoints
<1>3. CASE Go(t, "ackLoop")
  BY <1>1, <1>2, <1>3 DEF Go, Returning, FrameOK, Frame
<1>4. ASSUME NEW pc \in FreePoints, UnlockTo(t, pc)
      PROVE  FramesCalm
  BY <1>1, <1>2, <1>4 DEF UnlockTo, Returning, Frame
<1>5. ASSUME NEW why \in {"stop", "resume"}, NEW r \in Requests, Window(t, why, r)
      PROVE  FramesCalm
  BY <1>1, <1>2, <1>5 DEF Window, Returning, Frame
<1> QED BY <1>3, <1>4, <1>5 DEF FramesCalm

LEMMA BeginNotifyingStop ==
  ASSUME TypeInv, OwnerInv, PowerInv, AckDemands, StopInv, NEW t \in Threads, BeginNotifying(t)
  PROVE  StopInv'
<1>1. Unlisted
  BY UnlistedStates DEF BeginNotifying, PowerInv
<1>2. UNCHANGED <<frame, canceledOnQueue, stopAcked>> /\ Relist(On("owned"), "notify")
  BY DEF BeginNotifying, cancelVars, auxVars
<1>3. IsPowerStateNotifyingDriver'
  BY DEF BeginNotifying, IsPowerStateNotifyingDriver
<1>4. ASSUME NEW r \in Requests
      PROVE  StopOK(r)'
  <2>1. /\ req'[r].irp = req[r].irp /\ req'[r].ack = req[r].ack /\ req'[r].drv = req[r].drv
        /\ req'[r].list \in {"none", "notify"}
    BY <1>1, <1>2 DEF Unlisted, Relist, On, TypeInv, TypeOK, Request
  <2>2. {"none", "owned", "notify"} \cap Threads = {}
    BY ThreadAssumption
  <2>3. StopOK(r) /\ req[r].list \in {"none", "owned"}
    BY <1>1 DEF StopInv, Unlisted
  <2>4. InDriver(r) => req[r].irp # "done"
    BY DEF OwnerInv, RequestInv, RequestOK, DriverOK, InDriver
  <2> QED BY <1>2, <1>3, <2>1, <2>2, <2>3, <2>4 DEF StopOK, InDriver
<1> QED BY <1>2, <1>4, ListingKeeps

LEMMA NotifyStops ==
  ASSUME TypeInv, OwnerInv, AckDemands, StopInv, NEW t \in Threads, NotifyStop(t)
  PROVE  StopInv'
<1>1. /\ UNCHANGED <<canceledOnQueue, stopAcked>> /\ FrameOK /\ frame[t].pc = "dispatch"
      /\ powerState \in {"StoppingNotifyingDriver", "PurgeNotifyingDriver"}
  BY DEF NotifyStop, AtTurn, cancelVars, auxVars, TypeInv
<1>2. CASE On("notify") = {}
  <2>1. UNCHANGED <<req, frame>> /\ DriverNotified' /\ powerState \in DownNotified
    BY <1>1, <1>2 DEF NotifyStop, DriverNotified, DownNotified
  <2>2. ASSUME NEW r \in Requests
        PROVE  StopOK(r)'
    <3>1. StopOK(r) /\ req[r].list # "notify"
      BY <1>2 DEF StopInv, On
    <3> QED BY <1>1, <2>1, <3>1 DEF StopOK, InDriver
  <2> QED BY <1>1, <2>2, ListingKeeps
<1>3. CASE On("notify") # {}
  <2>1. PICK r \in On("notify") :
          /\ \E a \in {"none", req[r].ack} :
               req' = [req EXCEPT ![r] = [@ EXCEPT !.list = "notified", !.ack = a]]
          /\ (\E why \in {"stop"} : Window(t, why, r)) \/ UNCHANGED frame
    BY <1>3 DEF NotifyStop
  <2>2. UNCHANGED powerState /\ r \in Requests /\ req[r].list = "notify"
    BY <1>3 DEF NotifyStop, On
  <2>3. FramesCalm
    BY <1>1, <2>1, <2>2, TurnCalm
  <2>4. ASSUME NEW s \in Requests, s # r
        PROVE  StopOK(s)'
    BY <1>1, <2>1, <2>2, <2>3, <2>4, StaysStop DEF TypeInv, TypeOK
  <2>5. StopOK(r)'
    <3>1. /\ req'[r].irp = req[r].irp /\ req'[r].ack \in {"none", req[r].ack}
          /\ req'[r].drv = req[r].drv /\ req'[r].list = "notified"
      BY <2>1, <2>2 DEF TypeInv, TypeOK, Request
    <3>2. {"notify", "notified"} \cap Threads = {} /\ NoRequest # r
      BY <2>2, ThreadAssumption
    <3>3. StopOK(r)
      BY <2>2 DEF StopInv
    <3>4. InDriver(r) => req[r].irp # "done"
      BY <2>2 DEF OwnerInv, RequestInv, RequestOK, DriverOK, InDriver
    <3> QED BY <1>1, <2>2, <2>3, <3>1, <3>2, <3>3, <3>4 DEF StopOK, FramesCalm, InDriver
  <2> QED BY <1>1, <2>4, <2>5, ListingKeeps
<1> QED BY <1>2, <1>3

LEMMA NotifyResumes ==
  ASSUME TypeInv, OwnerInv, AckDemands, StopInv, NEW t \in Threads, NotifyResume(t)
  PROVE  StopInv'
<1>1. /\ UNCHANGED <<canceledOnQueue, stopAcked>> /\ FrameOK /\ frame[t].pc = "dispatch"
      /\ powerState = "RestartingNotifyingDriver"
  BY DEF NotifyResume, AtTurn, cancelVars, auxVars, TypeInv
<1>2. CASE On("notify") = {}
  <2>1. UNCHANGED <<req, frame>> /\ powerState' = "RestartingDriverNotified"
    BY <1>2 DEF NotifyResume
  <2>2. ASSUME NEW r \in Requests
        PROVE  StopOK(r)'
    <3>1. StopOK(r) /\ req[r].list # "notify"
      BY <1>2 DEF StopInv, On
    <3> QED BY <1>1, <2>1, <3>1 DEF StopOK, InDriver, DriverNotified, DownNotified
  <2> QED BY <1>1, <2>2, ListingKeeps
<1>3. CASE On("notify") # {}
  <2>1. PICK r \in On("notify") :
          /\ req' = [req EXCEPT ![r].list = "owned"]
          /\ (\E why \in {"resume"} : Window(t, why, r)) \/ UNCHANGED frame
    BY <1>3 DEF NotifyResume
  <2>2. UNCHANGED powerState /\ r \in Requests /\ req[r].list = "notify"
    BY <1>3 DEF NotifyResume, On
  <2>3. FramesCalm
    BY <1>1, <2>1, <2>2, TurnCalm
  <2>4. ASSUME NEW s \in Requests, s # r
        PROVE  StopOK(s)'
    BY <1>1, <2>1, <2>2, <2>3, <2>4, StaysStop DEF TypeInv, TypeOK
  <2>5. StopOK(r)'
    <3>1. /\ req'[r].irp = req[r].irp /\ req'[r].ack = req[r].ack
          /\ req'[r].drv = req[r].drv /\ req'[r].list = "owned"
      BY <2>1, <2>2 DEF TypeInv, TypeOK, Request
    <3>2. {"notify", "owned"} \cap Threads = {} /\ NoRequest # r
      BY <2>2, ThreadAssumption
    <3>3. StopOK(r)
      BY <2>2 DEF StopInv
    <3>4. InDriver(r) => req[r].irp # "done"
      BY <2>2 DEF OwnerInv, RequestInv, RequestOK, DriverOK, InDriver
    <3> QED BY <1>1, <2>2, <2>3, <3>1, <3>2, <3>3, <3>4
            DEF StopOK, FramesCalm, InDriver, DownNotified
  <2> QED BY <1>1, <2>4, <2>5, ListingKeeps
<1> QED BY <1>2, <1>3

LEMMA CollectStop ==
  ASSUME TypeInv, OwnerInv, AckDemands, StopInv, NEW t \in Threads, CollectAcknowledged(t)
  PROVE  StopInv'
<1> DEFINE acked == {r \in On("notified") : req[r].ack # "none"}
<1>1. /\ UNCHANGED <<canceledOnQueue, stopAcked, powerState>> /\ FrameOK
      /\ frame[t].pc = "dispatch" /\ Go(t, "ackLoop") /\ Relist(acked, t)
  BY DEF CollectAcknowledged, AtTurn, cancelVars, auxVars, powerVars, TypeInv
<1>2. FramesCalm
  BY <1>1, TurnCalm
<1>3. Acknowledges(frame'[t])
  BY <1>1 DEF Go, Acknowledges, FrameOK, SoundFrame, Frame
<1>4. ASSUME NEW r \in Requests, r \notin acked
      PROVE  StopOK(r)'
  BY <1>1, <1>2, <1>4, StaysStop DEF Relist
<1>5. ASSUME NEW r \in acked
      PROVE  StopOK(r)'
  <2>1. /\ r \in Requests /\ req[r].list = "notified" /\ req[r].ack # "none"
        /\ req'[r].irp = req[r].irp /\ req'[r].ack = req[r].ack
        /\ req'[r].drv = req[r].drv /\ req'[r].list = t
    BY <1>1 DEF On, Relist, TypeInv, TypeOK, Request
  <2>2. {"notify", "notified", "owned"} \cap Threads = {} /\ NoRequest # r
    BY <2>1, ThreadAssumption
  <2>3. StopOK(r)
    BY <2>1 DEF StopInv
  <2> QED BY <1>1, <1>2, <1>3, <2>1, <2>2, <2>3 DEF StopOK, FramesCalm, InDriver
<1> QED BY <1>1, <1>4, <1>5, ListingKeeps

(* The last thread in the loop turns the power off: nothing is on the       *)
(* list of the notified, and no other thread has acknowledged requests.     *)
LEMMA OffUnlisted ==
  ASSUME TypeInv, PowerInv, AckDemands, StopInv, NEW t \in Threads, InLoop(t), LastInLoop,
         DriverNotified, On("notified") = {}, On(t) = {} \/ ~Acknowledges(frame[t])
  PROVE  Unlisted
<1>1. FrameOK /\ t \in LoopThreads
  BY DEF TypeInv, LoopThreads
<1>2. \A u \in Threads : u # t => frame[u].pc \notin InLoopPoints
  BY <1>1, LastIsAlone DEF PowerInv
<1>3. ASSUME NEW u \in Threads, u # t
      PROVE  ~Acknowledges(frame[u])
  <2>1. frame[u].pc \notin {"ackLoop", "requeueAcked", "window"}
    BY <1>2, <1>3 DEF InLoopPoints, LoopPoints, LockedPoints
  <2> QED BY <1>1, <2>1 DEF Acknowledges, FrameOK, SoundFrame
<1>4. ~IsPowerStateNotifyingDriver
  BY DEF DriverNotified, IsPowerStateNotifyingDriver
<1>5. ASSUME NEW r \in Requests
      PROVE  req[r].list \in {"none", "owned"}
  <2>1. StopOK(r) /\ req[r].list \in {"none", "owned", "notify", "notified"} \cup Threads
    BY DEF StopInv, TypeInv, TypeOK, Request
  <2>2. req[r].list # "notified" /\ req[r].list # "notify"
    BY <1>4, <2>1 DEF On, StopOK
  <2>3. req[r].list \notin Threads
    BY <1>3, <2>1 DEF On, StopOK
  <2> QED BY <2>1, <2>2, <2>3
<1> QED BY <1>5 DEF Unlisted

LEMMA ProcessStop ==
  ASSUME TypeInv, OwnerInv, PowerInv, AckDemands, StopInv, NEW t \in Threads,
         ProcessAcknowledgedRequest(t)
  PROVE  StopInv'
<1>1. /\ UNCHANGED <<canceledOnQueue, stopAcked>> /\ FrameOK /\ frame[t].pc = "ackLoop"
      /\ frame[t].why = "none" /\ frame[t] \in Frame
  BY DEF ProcessAcknowledgedRequest, cancelVars, auxVars, TypeInv, FrameOK, SoundFrame
<1>2. CASE On(t) = {}
  <2>1. UNCHANGED req /\ Go(t, "dispatch")
    BY <1>2 DEF ProcessAcknowledgedRequest
  <2>2. FramesCalm
    <3>1. frame' = [frame EXCEPT ![t] = [frame[t] EXCEPT !.pc = "dispatch"]]
      BY <1>1, <2>1 DEF Go, FrameOK
    <3>2. \A u \in Threads : u # t => frame'[u] = frame[u]
      BY <1>1, <3>1 DEF FrameOK
    <3>3. Returning(frame'[t]) = NoRequest
      BY <1>1, <3>1 DEF Returning, FrameOK, Frame
    <3> QED BY <1>2, <3>2, <3>3 DEF FramesCalm
  <2>3. CASE UNCHANGED powerState
    <3>1. \A r \in Requests : StopOK(r)'
      BY <1>1, <2>1, <2>2, <2>3, StaysStop
    <3> QED BY <1>1, <3>1, ListingKeeps
  <2>4. CASE ~UNCHANGED powerState
    <3>1. MayPowerOff
      BY <1>2, <2>4 DEF ProcessAcknowledgedRequest, powerVars
    <3>2. InLoop(t) /\ DriverNotified
      BY <1>1 DEF InLoop, LoopPoints, LockedPoints, PowerInv, AckInv, Acknowledges
    <3>3. Unlisted /\ powerState \in DownNotified
      BY <1>2, <3>1, <3>2, OffUnlisted DEF MayPowerOff, DriverNotified, DownNotified
    <3> QED BY <1>1, <2>1, <2>2, <3>3, UnlistedKeeps DEF FramesCalm
  <2> QED BY <2>3, <2>4
<1>3. CASE On(t) # {}
  <2>1. PICK r \in On(t) :
          /\ req' = [req EXCEPT ![r] = [@ EXCEPT !.list = "owned", !.ack = "none"]]
          /\ \E why \in {"requeued", "acked"} : Window(t, why, r)
    BY <1>3 DEF ProcessAcknowledgedRequest
  <2>2. UNCHANGED powerState /\ r \in Requests /\ req[r].list = t
    BY <1>3 DEF ProcessAcknowledgedRequest, On, powerVars
  <2>3. /\ Acknowledges(frame'[t]) /\ Returning(frame'[t]) \in {r, NoRequest}
        /\ \A u \in Threads : u # t => frame'[u] = frame[u]
    BY <1>1, <2>1 DEF Window, Acknowledges, Returning, FrameOK, Frame
  <2>4. {"notify", "notified", "owned"} \cap Threads = {} /\ NoRequest # r
    BY <2>2, ThreadAssumption
  <2>5. ASSUME NEW s \in Requests, s # r
        PROVE  StopOK(s)'
    <3>1. req'[s] = req[s] /\ StopOK(s) /\ NoRequest # s
      BY <2>1, <2>5, ThreadAssumption DEF TypeInv, TypeOK, StopInv
    <3>2. \A u \in Threads : Acknowledges(frame[u]) => Acknowledges(frame'[u])
      BY <2>3
    <3>3. \A u \in Threads : Returning(frame'[u]) = s => Returning(frame[u]) = s
      BY <2>3, <2>5, <3>1
    <3> QED BY <1>1, <2>2, <3>1, <3>2, <3>3
            DEF StopOK, InDriver, IsPowerStateNotifyingDriver, DriverNotified
  <2>6. StopOK(r)'
    <3>1. /\ req'[r].irp = req[r].irp /\ req'[r].ack = "none"
          /\ req'[r].drv = req[r].drv /\ req'[r].list = "owned"
      BY <2>1, <2>2 DEF TypeInv, TypeOK, Request
    <3>2. StopOK(r)
      BY <2>2 DEF StopInv
    <3> QED BY <1>1, <2>2, <2>4, <3>1, <3>2 DEF StopOK, InDriver
  <2> QED BY <1>1, <2>5, <2>6, ListingKeeps
<1> QED BY <1>2, <1>3

LEMMA PowerOnStop ==
  ASSUME TypeInv, OwnerInv, PowerInv, AckDemands, StopInv, NEW t \in Threads,
         DispatchStep(t), PowerOn(t)
  PROVE  StopInv'
<1>1. /\ UNCHANGED <<req, canceledOnQueue>> /\ powerState = "RestartingDriverNotified"
      /\ powerState' = "On"
  BY DEF PowerOn, cancelVars
<1>2. Unlisted
  BY <1>1, UnlistedStates DEF PowerInv
<1>3. FramesCalm
  <2>1. frame[t].pc = "dispatch" /\ frame[t].after \in FreePoints /\ FrameOK
        /\ UnlockTo(t, frame[t].after)
    BY FrameFields DEF PowerOn, AtTurn, TypeInv
  <2> QED BY <2>1, TurnCalm
<1> QED BY <1>1, <1>2, <1>3, UnlistedKeeps DEF FramesCalm, DownNotified

LEMMA AwaitStop ==
  ASSUME TypeInv, OwnerInv, PowerInv, AckDemands, StopInv, NEW t \in Threads, AwaitAcknowledge(t)
  PROVE  StopInv'
<1>1. /\ UNCHANGED <<req, canceledOnQueue, stopAcked>> /\ DriverNotified /\ FrameOK
      /\ frame[t].pc = "dispatch" /\ frame[t].after \in FreePoints
      /\ UNCHANGED frame \/ UnlockTo(t, frame[t].after)
  BY FrameFields DEF AwaitAcknowledge, AtTurn, cancelVars, auxVars, TypeInv
<1>2. FramesCalm
  BY <1>1, TurnCalm
<1>3. CASE UNCHANGED powerState
  <2>1. \A r \in Requests : StopOK(r)'
    BY <1>1, <1>2, <1>3, StaysStop
  <2> QED BY <1>1, <2>1, ListingKeeps
<1>4. CASE ~UNCHANGED powerState
  <2>1. MayPowerOff /\ InLoop(t) /\ ~Acknowledges(frame[t])
    BY <1>1, <1>4 DEF AwaitAcknowledge, powerVars, InLoop, LoopPoints, LockedPoints,
       Acknowledges, FrameOK, SoundFrame
  <2>2. Unlisted /\ powerState \in DownNotified
    BY <1>1, <2>1, OffUnlisted DEF MayPowerOff, DriverNotified, DownNotified
  <2> QED BY <1>1, <1>2, <2>2, UnlistedKeeps DEF FramesCalm
<1> QED BY <1>3, <1>4

LEMMA StopInit == Init => StopInv
<1> SUFFICES ASSUME Init
             PROVE  canceledOnQueue = {} /\ \A r \in Requests : StopOK(r)
  BY DEF StopInv
<1>1. \A t \in Threads : Returning(frame[t]) = NoRequest
  BY DEF Init, Returning
<1>2. "none" \notin Threads /\ NoRequest \notin Requests
  BY ThreadAssumption
<1> QED BY <1>1, <1>2 DEF Init, StopOK, InDriver

LEMMA StopStep ==
  TypeInv /\ OwnerInv /\ PowerInv /\ EmptyInv /\ ReferenceInv /\ StopInv /\ [Next]_vars => StopInv'
<1> SUFFICES ASSUME TypeInv, OwnerInv, PowerInv, EmptyInv, ReferenceInv, StopInv, [Next]_vars,
                    AckDemands
             PROVE  StopInv'
  BY DEF StopInv, AckDemands
<1>1. CASE UNCHANGED vars
  BY <1>1 DEF vars, cancelVars, powerVars, auxVars, StopInv, StopOK, InDriver,
     IsPowerStateNotifyingDriver, DriverNotified
<1>2. CASE PowerBegins
  BY <1>2, BeginsKeeps
<1>3. ASSUME NEW t \in Threads, DispatchStep(t), PowerChanges(t)
      PROVE  StopInv'
  BY <1>3, BeginNotifyingStop, NotifyStops, NotifyResumes, CollectStop, ProcessStop, PowerOnStop,
     AwaitStop DEF PowerChanges, PowerListing
<1>4. CASE Next /\ ~PowerBegins /\ \A t \in Threads : ~(DispatchStep(t) /\ PowerChanges(t))
  BY <1>4, CalmKeeps
<1> QED BY <1>1, <1>2, <1>3, <1>4

(* Once the queue is off the driver has nothing that it did not stop-       *)
(* acknowledge. The queue waits for the acknowledgements of what it told    *)
(* the driver to stop, so this is true of a driver that gets requests only  *)
(* when they are presented to it and gives back only what it is asked to:   *)
(* what it retrieves, requeues or forwards while it is being notified, and  *)
(* what waits for EvtIoCanceledOnQueue, is on none of the lists.            *)
THEOREM OffIsAcknowledged == AckDemands => (Spec => []OffMeansAcknowledged)
<1> SUFFICES ASSUME AckDemands
             PROVE  Spec => []OffMeansAcknowledged
  OBVIOUS
<1>1. TypeInv /\ OwnerInv /\ PowerInv /\ EmptyInv /\ ReferenceInv /\ StopInv /\ [Next]_vars =>
        (TypeInv /\ OwnerInv /\ PowerInv /\ EmptyInv /\ ReferenceInv /\ StopInv)'
  BY TypeStep, OwnerStep, PowerInductive, EmptyStep, ReferenceStep, StopStep
<1>2. TypeInv /\ OwnerInv /\ PowerInv /\ StopInv => OffMeansAcknowledged
  <2> SUFFICES ASSUME TypeInv, OwnerInv, PowerInv, StopInv, powerState = "Off",
                      NEW r \in Requests,
                      req[r].drv \in {"held", "cancelable", "told", "forwarding"}
               PROVE  r \in stopAcked
    BY DEF OffMeansAcknowledged
  <2>1. StopOK(r) /\ InDriver(r) /\ req[r].list # "none"
    BY DEF StopInv, StopOK, InDriver, OwnerInv, RequestInv, RequestOK, DriverOK
  <2>2. Unlisted
    BY UnlistedStates DEF PowerInv
  <2> QED BY <2>1, <2>2 DEF StopOK, Unlisted, DownNotified
<1> QED BY <1>1, <1>2, TypeInit, OwnerInit, PowerInit, EmptyInit, ReferenceInit, StopInit, PTL
        DEF Spec
=============================================================================
