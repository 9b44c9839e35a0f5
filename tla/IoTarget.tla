------------------------------ MODULE IoTarget ------------------------------
(***************************************************************************)
(* An I/O target, FxIoTarget, and the requests sent to it (FxRequestBase). *)
(*                                                                         *)
(* Who completes a request is decided by its completion count,             *)
(* m_IrpCompletionReferenceCount: one for the IRP that is under way, one   *)
(* for every thread that is cancelling it. Whoever takes it to zero calls  *)
(* the driver back. The target's lock protects the lists and the flags;    *)
(* the count and m_Canceled are used without it.                           *)
(*                                                                         *)
(* A thread has a stack of the places it will return to, innermost first.  *)
(* A step is what it does under the lock, or between two interlocked       *)
(* operations. SubmitLocked uses three of those, and so it keeps the lock  *)
(* over three steps.                                                       *)
(***************************************************************************)
EXTENDS Integers, Sequences, FiniteSets

CONSTANTS
    Requests,       \* driver created requests
    NoRequest,
    Plans           \* bound: what the driver does, in an order of its own for every
                    \* request, for its cancellations and for its operations

Options == {"Timeout", "IgnoreState", "Synchronous", "FailOnPend"}
Operations == {"Start", "StopCancel", "StopWait", "StopLeave", "Purge", "PurgeNoWait", "CancelSentIo", "Remove"}

ASSUME TargetAssumption ==
    /\ NoRequest \notin Requests /\ IsFiniteSet(Requests)
    /\ Plans \subseteq [sends : [Requests -> Seq(SUBSET Options)], cancels : Nat, calls : Seq(Operations)]

(* Senders, lower driver and timer DPC have a thread for each request, the *)
(* driver cancels from one, and operates the target from another           *)
Control   == <<"control", NoRequest>>
Canceller == <<"canceller", NoRequest>>
NoThread  == <<"none", NoRequest>>
Sender(r) == <<"sender", r>>
Lower(r)  == <<"lower", r>>
Timer(r)  == <<"timer", r>>
Threads   == {Control, Canceller} \cup ({"sender", "lower", "timer"} \X Requests)

Lists    == {"none", "sent", "ignored", "pended"}
Flags    == {"Completed", "TimerSet", "CancelledFromTimer", "IgnoreState"}
Statuses == {"Success", "Cancelled", "TimedOut", "NotSent", "Refused"}
States   == {"Started", "Stopped", "Purged", "Deleted"}

VARIABLES
    target,     \* the FxIoTarget
    lock,       \* the thread that holds the target's lock over a step
    req,        \* the FxRequestBase and its IRP
    owner,      \* who has the request: the driver, or the target
    thread,     \* where every thread is, and the request it is working on
    todo,       \* the control thread's operation, its lists of requests and its wait
    plan        \* what the driver has left to do

vars == <<target, lock, req, owner, thread, todo, plan>>

(* A request that was never sent *)
Fresh ==
    [count |-> 0, canceled |-> FALSE, flags |-> {}, list |-> "none", irp |-> "here", irpCanceled |-> FALSE,
     cancelRoutine |-> FALSE, status |-> "Success", options |-> {}]

(* A request that need not be completed is reused without a look at its    *)
(* flags: those its last use left are there when it is sent with options o *)
Reused(r, o) ==
    [req[r] EXCEPT !.canceled = FALSE, !.irpCanceled = FALSE, !.status = "Success", !.options = o]

Init ==
    /\ target = [state |-> "Started", waiting |-> FALSE, removing |-> FALSE, event |-> FALSE, ioCount |-> 1]
    /\ lock = NoThread
    /\ req = [r \in Requests |-> Fresh]
    /\ owner = [r \in Requests |-> "driver"]
    /\ thread = [t \in Threads |-> [stack |-> <<>>, cur |-> t[2]]]
    /\ todo = [op |-> "Start", pended |-> {}, sent |-> {}, wait |-> FALSE]
    /\ plan \in Plans

(***************************************************************************)
(* Threads                                                                 *)
(***************************************************************************)
Idle(t)   == thread[t].stack = <<>>
At(t, pc) == ~Idle(t) /\ Head(thread[t].stack) = pc
Cur(t)    == thread[t].cur
Unlocked  == lock = NoThread

(* Leave the place the thread is at for the places pcs, and then what follows *)
Jump(t, pcs)    == [thread EXCEPT ![t].stack = pcs \o Tail(@)]
Begin(t, r, pcs) == [thread EXCEPT ![t] = [stack |-> pcs, cur |-> r]]

On(list) == {r \in Requests : req[r].list = list}

-----------------------------------------------------------------------------
(***************************************************************************)
(* Completion                                                              *)
(***************************************************************************)

(* The timer is armed until its DPC is queued or it is cancelled *)
TimerArmed(r) == "TimerSet" \in req[r].flags /\ ~At(Timer(r), "timerCallback")

\* Mutant: a DPC that is queued already is taken for cancelled
CancelTimerAlways(r) == TRUE
(* FALSE when the DPC is queued: it will find FX_REQUEST_COMPLETED *)
CancelTimer(r) == "TimerSet" \in req[r].flags => TimerArmed(r)

(* Cancelled by the timer: the driver is told of a timeout *)
Morphed(r, fromTimer) ==
    IF fromTimer /\ req[r].status = "Cancelled" THEN "TimedOut" ELSE req[r].status

(* r was the last request the remover, or the stopper, waits for *)
LastRemoved(r) ==
    target.removing /\ (On("sent") \cup On("ignored")) \subseteq {r}
\* Mutants: r itself is still on the list; whatever else is on it
LastStoppedStrict(r) == ~target.removing /\ target.waiting /\ On("sent") = {}
LastStoppedAny(r) == ~target.removing /\ target.waiting /\ "IgnoreState" \notin req[r].flags
LastStopped(r) ==
    /\ ~target.removing /\ target.waiting
    /\ "IgnoreState" \notin req[r].flags
    /\ On("sent") \subseteq {r}

(* Mutant: the I/O count is given up before the driver is called back *)
RemoveCompletedRequestEarly(t, r, fromTimer) ==
    /\ req' = [req EXCEPT ![r] = [@ EXCEPT !.count = 0, !.list = "none", !.flags = {}, !.status = Morphed(r, fromTimer)]]
    /\ target' = [target EXCEPT !.removing = @ /\ ~LastRemoved(r), !.waiting = @ /\ ~LastStopped(r),
                                !.ioCount = @ - 1]
    /\ thread' = Jump(t, IF LastRemoved(r) \/ LastStopped(r) THEN <<"complete", "signal">> ELSE <<"complete">>)
(* Take r, whose completion t owns, off the target, then call the driver   *)
(* back, release a waiter and give up the I/O count, without the lock      *)
RemoveCompletedRequestLocked(t, r, fromTimer) ==
    /\ req' = [req EXCEPT ![r] = [@ EXCEPT !.count = 0, !.list = "none", !.flags = {}, !.status = Morphed(r, fromTimer)]]
    /\ target' = [target EXCEPT !.removing = @ /\ ~LastRemoved(r), !.waiting = @ /\ ~LastStopped(r)]
    /\ thread' = Jump(t, IF LastRemoved(r) \/ LastStopped(r)
                         THEN <<"complete", "signal", "dereference">>
                         ELSE <<"complete", "dereference">>)

FromTimer(r) == "CancelledFromTimer" \in req[r].flags

(* The IRP came back, or is treated as if it had. A timer that cannot be   *)
(* cancelled, or a thread that is cancelling, completes the request later  *)
RequestCompletionRoutine(t) ==
    LET r == Cur(t) IN
    /\ At(t, "completion") /\ Unlocked
    /\ \/ /\ CancelTimer(r) /\ req[r].count = 1
          /\ RemoveCompletedRequestLocked(t, r, FromTimer(r))
       \/ /\ CancelTimer(r) /\ req[r].count # 1
          /\ req' = [req EXCEPT ![r].count = @ - 1, ![r].flags = (@ \ {"TimerSet"}) \cup {"Completed"}]
          /\ thread' = Jump(t, <<>>)
          /\ UNCHANGED target
       \/ /\ ~CancelTimer(r)
          /\ req' = [req EXCEPT ![r].flags = @ \cup {"Completed"}]
          /\ thread' = Jump(t, <<>>)
          /\ UNCHANGED target
    /\ UNCHANGED <<lock, owner, todo, plan>>

(* The driver's completion callback *)
CompleteRequest(t) ==
    /\ At(t, "complete")
    /\ owner' = [owner EXCEPT ![Cur(t)] = "driver"]
    /\ thread' = Jump(t, <<>>)
    /\ UNCHANGED <<target, lock, req, todo, plan>>

SetSentIoEvent(t) ==
    /\ At(t, "signal")
    /\ target' = [target EXCEPT !.event = TRUE]
    /\ thread' = Jump(t, <<>>)
    /\ UNCHANGED <<lock, req, owner, todo, plan>>

DecrementIoCount(t) ==
    /\ At(t, "dereference")
    /\ target' = [target EXCEPT !.ioCount = @ - 1]
    /\ thread' = Jump(t, <<>>)
    /\ UNCHANGED <<lock, req, owner, todo, plan>>

-----------------------------------------------------------------------------
(***************************************************************************)
(* Cancellation: FxRequestBase::Cancel, called by the driver, by an        *)
(* operation on the target, by the timer DPC and by a synchronous sender   *)
(***************************************************************************)
Cancel(t) ==
    /\ At(t, "cancel")
    /\ req' = [req EXCEPT ![Cur(t)].canceled = TRUE]
    /\ thread' = Jump(t, <<"cancelReference">>)
    /\ UNCHANGED <<target, lock, owner, todo, plan>>

CancelReference(t) ==
    LET r == Cur(t) IN
    /\ At(t, "cancelReference")
    /\ \/ /\ req[r].count > 0
          /\ req' = [req EXCEPT ![r].count = @ + 1]
          /\ thread' = Jump(t, <<"cancelIrp", "cancelRelease">>)
       \/ /\ req[r].count = 0
          /\ thread' = Jump(t, <<>>)
          /\ UNCHANGED req
    /\ UNCHANGED <<target, lock, owner, todo, plan>>

(* Takes the cancel routine of a pended IRP, and calls it *)
CancelIrp(t) ==
    LET r == Cur(t) IN
    /\ At(t, "cancelIrp")
    /\ req' = [req EXCEPT ![r].irpCanceled = TRUE, ![r].cancelRoutine = FALSE]
    /\ thread' = Jump(t, IF req[r].cancelRoutine THEN <<"requestCancelled">> ELSE <<>>)
    /\ UNCHANGED <<target, lock, owner, todo, plan>>

RequestCancelled(t) ==
    /\ At(t, "requestCancelled") /\ Unlocked
    /\ req' = [req EXCEPT ![Cur(t)].list = "none", ![Cur(t)].status = "Cancelled"]
    /\ thread' = Jump(t, <<"completion">>)
    /\ UNCHANGED <<target, lock, owner, todo, plan>>

CancelRelease(t) ==
    LET r == Cur(t) IN
    /\ At(t, "cancelRelease")
    /\ req' = [req EXCEPT ![r].count = @ - 1]
    /\ thread' = Jump(t, IF req[r].count = 1 THEN <<"completeCanceled">> ELSE <<>>)
    /\ UNCHANGED <<target, lock, owner, todo, plan>>

CompleteCanceledRequest(t) ==
    /\ At(t, "completeCanceled") /\ Unlocked
    /\ RemoveCompletedRequestLocked(t, Cur(t), FromTimer(Cur(t)))
    /\ UNCHANGED <<lock, owner, todo, plan>>

(* The driver cancels a request it believes to be with the target *)
CancelSentRequest(r) ==
    /\ Idle(Canceller) /\ owner[r] = "target"
    /\ plan.cancels > 0 /\ plan' = [plan EXCEPT !.cancels = @ - 1]
    /\ thread' = Begin(Canceller, r, <<"cancel">>)
    /\ UNCHANGED <<target, lock, req, owner, todo>>

-----------------------------------------------------------------------------
(***************************************************************************)
(* Timeout                                                                 *)
(***************************************************************************)
TimerFires(r) ==
    /\ Idle(Timer(r)) /\ TimerArmed(r)
    /\ thread' = Begin(Timer(r), r, <<"timerCallback">>)
    /\ UNCHANGED <<target, lock, req, owner, todo, plan>>

TimerCallback(t) ==
    LET r == Cur(t) IN
    /\ At(t, "timerCallback") /\ Unlocked
    /\ \/ /\ "Completed" \in req[r].flags /\ req[r].count = 1
          /\ RemoveCompletedRequestLocked(t, r, TRUE)
       \/ /\ "Completed" \in req[r].flags /\ req[r].count # 1
          /\ req' = [req EXCEPT ![r].count = @ - 1, ![r].flags = @ \ {"TimerSet"}]
          /\ thread' = Jump(t, <<>>)
          /\ UNCHANGED target
       \/ /\ "Completed" \notin req[r].flags
          /\ req' = [req EXCEPT ![r].count = @ + 1, ![r].flags = (@ \ {"TimerSet"}) \cup {"CancelledFromTimer"}]
          /\ thread' = Jump(t, <<"cancel", "timerCanceled">>)
          /\ UNCHANGED target
    /\ UNCHANGED <<lock, owner, todo, plan>>

(* The DPC after it cancelled *)
TimerCanceled(t) ==
    LET r == Cur(t) IN
    /\ At(t, "timerCanceled") /\ Unlocked
    /\ \/ /\ req[r].count = 1
          /\ RemoveCompletedRequestLocked(t, r, TRUE)
       \/ /\ req[r].count # 1
          /\ req' = [req EXCEPT ![r].count = @ - 1]
          /\ thread' = Jump(t, <<>>)
          /\ UNCHANGED target
    /\ UNCHANGED <<lock, owner, todo, plan>>

-----------------------------------------------------------------------------
(***************************************************************************)
(* Submission: SubmitLocked, under the target's lock from SubmitAccept to  *)
(* its outcome. t is a sender, or Start resending what was pended.         *)
(***************************************************************************)
SendOptions(t) == IF t = Control THEN {} ELSE req[Cur(t)].options

Ignores(t) == "IgnoreState" \in SendOptions(t)

Accepts(t) ==
    \/ Ignores(t) /\ (target.state = "Deleted" => target.removing)
    \/ ~Ignores(t) /\ target.state = "Started"
    \/ ~Ignores(t) /\ target.state = "Stopped" /\ "FailOnPend" \notin SendOptions(t)

(* The request is not sent: a sender gets it back, Start completes it *)
NotSubmitted(t) ==
    IF t = Control
    THEN /\ thread' = [thread EXCEPT ![t].stack = <<"failedResubmit", "resubmit">>]
         /\ UNCHANGED owner
    ELSE /\ thread' = [thread EXCEPT ![t].stack = <<>>]
         /\ owner' = [owner EXCEPT ![Cur(t)] = "driver"]

SubmitRefused(t) ==
    /\ At(t, "submit") /\ Unlocked
    /\ ~Accepts(t)
    /\ req' = [req EXCEPT ![Cur(t)].status = "Refused"]
    /\ NotSubmitted(t)
    /\ UNCHANGED <<target, lock, todo, plan>>

MarkIgnores(t, flags) == IF Ignores(t) THEN flags \cup {"IgnoreState"} ELSE flags

SubmitAccept(t) ==
    /\ At(t, "submit") /\ Unlocked
    /\ Accepts(t)
    /\ lock' = t
    /\ target' = [target EXCEPT !.ioCount = @ + 1]
    /\ req' = [req EXCEPT ![Cur(t)].count = 1, ![Cur(t)].list = "none", ![Cur(t)].flags = MarkIgnores(t, @)]
    /\ thread' = Jump(t, <<"submitCounted">>)
    /\ UNCHANGED <<owner, todo, plan>>

(* Mutant: the request is given back but stays counted *)
SubmitCancelledCounted(t) ==
    LET r == Cur(t) IN
    /\ req' = [req EXCEPT ![r].count = @ - 1, ![r].status = "Cancelled"]
    /\ lock' = NoThread
    /\ \/ req[r].count = 1 /\ NotSubmitted(t) /\ UNCHANGED target
       \/ req[r].count # 1 /\ thread' = Jump(t, <<>>) /\ UNCHANGED <<target, owner>>
(* Cancelled meanwhile: if the canceller has a reference it will complete  *)
(* the request, and to the caller it looks queued                          *)
SubmitCancelled(t) ==
    LET r == Cur(t) IN
    /\ req' = [req EXCEPT ![r].count = @ - 1, ![r].status = "Cancelled"]
    /\ lock' = NoThread
    /\ \/ /\ req[r].count = 1
          /\ target' = [target EXCEPT !.ioCount = @ - 1]
          /\ NotSubmitted(t)
       \/ /\ req[r].count # 1
          /\ thread' = Jump(t, <<>>)
          /\ UNCHANGED <<target, owner>>

(* Mutant: m_Canceled is not looked at once the count is set *)
SubmitUnchecked(t) ==
    /\ At(t, "submitCounted")
    /\ thread' = Jump(t, <<"submitChecked">>)
    /\ UNCHANGED <<target, lock, req, owner, todo, plan>>
SubmitCheckCanceled(t) ==
    LET r == Cur(t) IN
    /\ At(t, "submitCounted")
    /\ \/ req[r].canceled /\ SubmitCancelled(t)
       \/ /\ ~req[r].canceled
          /\ thread' = Jump(t, <<"submitChecked">>)
          /\ UNCHANGED <<target, lock, req, owner>>
    /\ UNCHANGED <<todo, plan>>

(* A timer is started only by an asynchronous sender *)
StartTimer(t, flags) ==
    IF "Timeout" \in SendOptions(t) /\ "Synchronous" \notin SendOptions(t)
    THEN flags \cup {"TimerSet"} ELSE flags

Sends(t) == Ignores(t) \/ target.state = "Started"

SubmitSend(t) ==
    LET r == Cur(t) IN
    /\ At(t, "submitChecked") /\ Sends(t)
    /\ req' = [req EXCEPT ![r].list = IF Ignores(t) THEN "ignored" ELSE "sent", ![r].flags = StartTimer(t, @)]
    /\ lock' = NoThread
    /\ thread' = Jump(t, <<"send">>)
    /\ UNCHANGED <<target, owner, todo, plan>>

(* An IRP that is already cancelled does not enter the pended queue *)
PendRequestLocked(t) ==
    LET r == Cur(t) IN
    /\ At(t, "submitChecked") /\ ~Sends(t)
    /\ \/ req[r].irpCanceled /\ SubmitCancelled(t)
       \/ /\ ~req[r].irpCanceled
          /\ req' = [req EXCEPT ![r].list = "pended", ![r].cancelRoutine = TRUE, ![r].flags = StartTimer(t, @)]
          /\ lock' = NoThread
          /\ thread' = Jump(t, <<>>)
          /\ UNCHANGED <<target, owner>>
    /\ UNCHANGED <<todo, plan>>

(* IoCallDriver *)
Send(t) ==
    /\ At(t, "send")
    /\ req' = [req EXCEPT ![Cur(t)].irp = "lower"]
    /\ thread' = Jump(t, <<>>)
    /\ UNCHANGED <<target, lock, owner, todo, plan>>

(* WdfRequestSend of a request the driver has, after WdfRequestReuse *)
RequestSend(r) ==
    /\ owner[r] = "driver" /\ Idle(Sender(r))
    /\ plan.sends[r] # <<>>
    /\ ~(todo.op = "Remove" /\ Idle(Control))
    /\ LET options == Head(plan.sends[r]) IN
        /\ req' = [req EXCEPT ![r] = Reused(r, options)]
        /\ thread' = Begin(Sender(r), r, IF "Synchronous" \in options THEN <<"submit", "wait">> ELSE <<"submit">>)
    /\ owner' = [owner EXCEPT ![r] = "target"]
    /\ plan' = [plan EXCEPT !.sends[r] = Tail(@)]
    /\ UNCHANGED <<target, lock, todo>>

(* SubmitSync waits until its completion routine ran, or the time is up,   *)
(* and then cancels and waits again                                        *)
SyncCompleted(t) ==
    /\ At(t, "wait") \/ At(t, "waitAgain")
    /\ owner[Cur(t)] = "driver"
    /\ thread' = Jump(t, <<>>)
    /\ UNCHANGED <<target, lock, req, owner, todo, plan>>

SyncTimesOut(t) ==
    /\ At(t, "wait") /\ "Timeout" \in req[Cur(t)].options
    /\ owner[Cur(t)] = "target"
    /\ thread' = Jump(t, <<"timedOut">>)
    /\ UNCHANGED <<target, lock, req, owner, todo, plan>>

SyncCancels(t) ==
    /\ At(t, "timedOut") /\ Unlocked
    /\ req' = [req EXCEPT ![Cur(t)].flags = @ \cup {"CancelledFromTimer"}]
    /\ thread' = Jump(t, <<"cancel", "waitAgain">>)
    /\ UNCHANGED <<target, lock, owner, todo, plan>>

(* The lower driver completes the IRP, perhaps because it was cancelled *)
LowerCompletes(r) ==
    /\ req[r].irp = "lower" /\ Idle(Lower(r))
    /\ \E status \in {"Success"} \cup (IF req[r].irpCanceled THEN {"Cancelled"} ELSE {}) :
         req' = [req EXCEPT ![r].irp = "here", ![r].status = status]
    /\ thread' = Begin(Lower(r), r, <<"completion">>)
    /\ UNCHANGED <<target, lock, owner, todo, plan>>

-----------------------------------------------------------------------------
(***************************************************************************)
(* Operations on the target. The driver makes one at a time, as the        *)
(* framework's messages demand (fxiotarget.cpp:332-338)                    *)
(***************************************************************************)

(* What DrainPendedRequestsLocked takes off the pended queue: the requests *)
(* whose cancel routine nobody took                                        *)
Drained == {r \in On("pended") : req[r].cancelRoutine}

(* Those Start resends: their timer is stopped, and no other thread is     *)
(* about to complete them                                                  *)
\* Mutant: also when the DPC runs or somebody is cancelling
ResentAnyway == Drained
Resent == {r \in Drained : CancelTimer(r) /\ req[r].count = 1}

DrainToFail ==
    req' = [r \in Requests |->
        IF r \in Drained THEN [req[r] EXCEPT !.list = "none", !.cancelRoutine = FALSE] ELSE req[r]]

DrainToResend ==
    req' = [r \in Requests |->
        CASE r \in Resent ->
               [req[r] EXCEPT !.list = "none", !.cancelRoutine = FALSE, !.count = 0, !.flags = @ \ {"TimerSet"}]
          [] r \in Drained \ Resent ->
               [req[r] EXCEPT !.list = "none", !.cancelRoutine = FALSE, !.status = "Cancelled",
                              !.count = IF CancelTimer(r) THEN @ - 1 ELSE @,
                              !.flags = {"Completed"} \cup (IF CancelTimer(r) THEN @ \ {"TimerSet"} ELSE @)]
          [] OTHER -> req[r]]

Operate(op, pcs, pended, sent, wait) ==
    /\ Idle(Control) /\ Unlocked
    /\ target.state # "Deleted"
    /\ plan.calls # <<>> /\ op = Head(plan.calls)
    /\ plan' = [plan EXCEPT !.calls = Tail(@)]
    /\ todo' = [op |-> op, pended |-> pended, sent |-> sent, wait |-> wait]
    /\ thread' = Begin(Control, NoRequest, pcs)
    /\ UNCHANGED <<lock, owner>>

Start ==
    /\ Operate("Start", <<"resubmit">>, Resent, {}, FALSE)
    /\ target' = [target EXCEPT !.state = "Started", !.waiting = FALSE, !.event = FALSE]
    /\ DrainToResend

(* Sent I/O is cancelled and waited for, waited for, or left alone *)
Stop(op) ==
    LET wait == op # "StopLeave" /\ (On("sent") # {} \/ target.waiting) IN
    /\ Operate(op, <<"cancelSent", "waitSent">>, {}, IF op = "StopCancel" THEN On("sent") ELSE {}, wait)
    /\ target' = [target EXCEPT !.state = "Stopped", !.waiting = wait, !.event = ~wait]
    /\ UNCHANGED req

Purge(op) ==
    LET wait == op = "Purge" /\ (On("sent") # {} \/ target.waiting) IN
    /\ Operate(op, <<"failPended", "cancelSent", "waitSent">>, Drained, On("sent"), wait)
    /\ target' = [target EXCEPT !.state = "Purged", !.waiting = wait, !.event = ~wait]
    /\ DrainToFail

CancelSentIo ==
    /\ Operate("CancelSentIo", <<"cancelSent">>, {}, On("sent"), FALSE)
    /\ UNCHANGED <<target, req>>

Remove ==
    LET sent == On("sent") \cup On("ignored") IN
    /\ Operate("Remove", <<"failPended", "cancelSent", "waitSent", "dispose", "waitDispose">>, Drained, sent, sent # {})
    /\ target' = [target EXCEPT !.state = "Deleted", !.removing = sent # {}, !.event = sent = {}]
    /\ DrainToFail

(* The loops over the lists *)
SubmitPendedRequest ==
    /\ At(Control, "resubmit")
    /\ \/ \E r \in todo.pended :
            /\ todo' = [todo EXCEPT !.pended = @ \ {r}]
            /\ thread' = Begin(Control, r, <<"submit", "resubmitted", "resubmit">>)
       \/ todo.pended = {} /\ thread' = Jump(Control, <<>>) /\ UNCHANGED todo
    /\ UNCHANGED <<target, lock, req, owner, plan>>

(* Submit counted the request again *)
Resubmitted ==
    /\ At(Control, "resubmitted")
    /\ target' = [target EXCEPT !.ioCount = @ - 1]
    /\ thread' = Jump(Control, <<>>)
    /\ UNCHANGED <<lock, req, owner, todo, plan>>

HandleFailedResubmit ==
    LET r == Cur(Control) IN
    /\ At(Control, "failedResubmit") /\ Unlocked
    /\ RemoveCompletedRequestLocked(Control, r, FromTimer(r))
    /\ UNCHANGED <<lock, owner, todo, plan>>

FailPendedRequest ==
    /\ At(Control, "failPended")
    /\ \/ \E r \in todo.pended :
            /\ todo' = [todo EXCEPT !.pended = @ \ {r}]
            /\ req' = [req EXCEPT ![r].status = "NotSent"]
            /\ thread' = [thread EXCEPT ![Control] = [stack |-> <<"completion">> \o @.stack, cur |-> r]]
       \/ todo.pended = {} /\ thread' = Jump(Control, <<>>) /\ UNCHANGED <<todo, req>>
    /\ UNCHANGED <<target, lock, owner, plan>>

CancelSentRequests ==
    /\ At(Control, "cancelSent")
    /\ \/ \E r \in todo.sent :
            /\ todo' = [todo EXCEPT !.sent = @ \ {r}]
            /\ thread' = [thread EXCEPT ![Control] = [stack |-> <<"cancel">> \o @.stack, cur |-> r]]
       \/ todo.sent = {} /\ thread' = Jump(Control, <<>>) /\ UNCHANGED todo
    /\ UNCHANGED <<target, lock, req, owner, plan>>

(* Not a removal: the operation says that it no longer waits *)
WaitForSentIoToComplete ==
    /\ At(Control, "waitSent") /\ (todo.wait => target.event)
    /\ thread' = Jump(Control, IF todo.wait /\ todo.op # "Remove" THEN <<"waited">> ELSE <<>>)
    /\ UNCHANGED <<target, lock, req, owner, todo, plan>>

WaitEnds ==
    /\ At(Control, "waited") /\ Unlocked
    /\ target' = [target EXCEPT !.waiting = FALSE]
    /\ thread' = Jump(Control, <<>>)
    /\ UNCHANGED <<lock, req, owner, todo, plan>>

WaitForDisposeEvent ==
    \/ /\ At(Control, "dispose")
       /\ target' = [target EXCEPT !.ioCount = @ - 1]
       /\ thread' = Jump(Control, <<>>)
       /\ UNCHANGED <<lock, req, owner, todo, plan>>
    \/ /\ At(Control, "waitDispose") /\ target.ioCount = 0
       /\ thread' = Jump(Control, <<>>)
       /\ UNCHANGED <<target, lock, req, owner, todo, plan>>

-----------------------------------------------------------------------------
(* What a thread does until it returns *)
ThreadStep(t) ==
    /\ ~Idle(t)
    /\ \/ RequestCompletionRoutine(t) \/ CompleteRequest(t) \/ SetSentIoEvent(t) \/ DecrementIoCount(t)
       \/ Cancel(t) \/ CancelReference(t) \/ CancelIrp(t) \/ RequestCancelled(t)
       \/ CancelRelease(t) \/ CompleteCanceledRequest(t)
       \/ TimerCallback(t) \/ TimerCanceled(t)
       \/ SubmitRefused(t) \/ SubmitAccept(t) \/ SubmitCheckCanceled(t) \/ SubmitSend(t)
       \/ PendRequestLocked(t) \/ Send(t)
       \/ SyncCompleted(t) \/ SyncCancels(t)

ControlStep ==
    \/ SubmitPendedRequest \/ Resubmitted \/ HandleFailedResubmit \/ FailPendedRequest
    \/ CancelSentRequests \/ WaitForSentIoToComplete \/ WaitEnds \/ WaitForDisposeEvent

Operation ==
    \/ Start \/ CancelSentIo \/ Remove
    \/ \E op \in {"StopCancel", "StopWait", "StopLeave"} : Stop(op)
    \/ \E op \in {"Purge", "PurgeNoWait"} : Purge(op)

Next ==
    \/ \E t \in Threads : ThreadStep(t)
    \/ ControlStep
    \/ Operation
    \/ \E r \in Requests :
         \/ RequestSend(r) \/ SyncTimesOut(Sender(r))
         \/ CancelSentRequest(r) \/ TimerFires(r) \/ LowerCompletes(r)

Spec == Init /\ [][Next]_vars

-----------------------------------------------------------------------------
(***************************************************************************)
(* Properties                                                              *)
(***************************************************************************)
Places == {"completion", "complete", "signal", "dereference", "cancel", "cancelReference", "cancelIrp",
    "requestCancelled", "cancelRelease", "completeCanceled", "timerCallback", "timerCanceled", "submit",
    "submitCounted", "submitChecked", "send", "wait", "timedOut", "waitAgain", "resubmit", "resubmitted",
    "failedResubmit", "failPended", "cancelSent", "waitSent", "waited", "dispose", "waitDispose"}

TypeOK ==
    /\ target \in [state : States, waiting : BOOLEAN, removing : BOOLEAN, event : BOOLEAN, ioCount : Int]
    /\ lock \in Threads \cup {NoThread}
    /\ req \in [Requests -> [count : Int, canceled : BOOLEAN, flags : SUBSET Flags, list : Lists,
                             irp : {"here", "lower"}, irpCanceled : BOOLEAN, cancelRoutine : BOOLEAN,
                             status : Statuses, options : SUBSET Options]]
    /\ owner \in [Requests -> {"driver", "target"}]
    /\ thread \in [Threads -> [stack : Seq(Places), cur : Requests \cup {NoRequest}]]
    /\ todo \in [op : Operations, pended : SUBSET Requests, sent : SUBSET Requests, wait : BOOLEAN]
    /\ plan \in [sends : [Requests -> Seq(SUBSET Options)], cancels : Nat, calls : Seq(Operations)]

Pending(t, places) == \E i \in DOMAIN thread[t].stack : thread[t].stack[i] \in places

(* The threads that have claimed the completion of r *)
Completing(r) == {t \in Threads : Cur(t) = r /\ Pending(t, {"complete", "completeCanceled", "failedResubmit"})}

(* Lower driver, timer, cancellers and operations race for a request: one  *)
(* of them at most completes it, and only when it is not pended, the lower *)
(* driver gave it back, and nobody holds its completion count              *)
CompletedOnce ==
    \A r \in Requests :
        /\ Cardinality(Completing(r)) <= 1
        /\ Completing(r) # {} =>
             /\ owner[r] = "target"
             /\ req[r].list # "pended" /\ req[r].irp = "here" /\ req[r].count = 0

(* The code's own assertions: a request is sent with no completion         *)
(* reference left (fxiotarget.cpp:1305), completes once (2340), the timer  *)
(* finds a reference to add to (2123) and completes only what came back    *)
(* (2142), a request taken off the target has no timer (1964), a cancelled *)
(* one is pended (2582), and none is counted once the target's own count   *)
(* is given up (fxiotarget.hpp:776)                                        *)
AssertionsHold ==
    \A t \in Threads : ~Idle(t) =>
        LET r == Cur(t)
            pc == Head(thread[t].stack)
        IN
        /\ pc = "submit" => req[r].count = 0
        /\ pc \in {"completion", "failedResubmit"} => "Completed" \notin req[r].flags
        /\ pc = "timerCallback" => req[r].count > 0
        /\ pc = "timerCanceled" /\ req[r].count = 1 => "Completed" \in req[r].flags
        /\ pc \in {"completeCanceled", "failedResubmit"} => "TimerSet" \notin req[r].flags
        /\ pc = "requestCancelled" => req[r].list = "pended"
        /\ pc = "submitCounted" => target.ioCount > 1

(* A request counts from its submission until its completion callback      *)
(* returned; while Start resends it, twice                                 *)
Counted(r) ==
    /\ owner[r] = "target"
    /\ ~At(Sender(r), "submit")
    /\ ~\E t \in Threads : Cur(t) = r /\ Pending(t, {"complete"})

Dereferencing == {t \in Threads : Pending(t, {"dereference"})}

BaseCount == IF todo.op = "Remove" /\ ~Pending(Control, {"dispose"}) THEN 0 ELSE 1

(* m_IoCount, which keeps the target from being disposed, is exactly the   *)
(* requests that still need it                                             *)
IoCountExact ==
    target.ioCount = BaseCount + Cardinality({r \in Requests : Counted(r)}) + Cardinality(Dereferencing)
        + (IF Pending(Control, {"resubmitted"}) /\ ~At(Control, "submit") THEN 1 ELSE 0)

(* Once an operation that waits for sent I/O has returned, the lower       *)
(* driver has nothing it was sent through this target, but what was sent   *)
(* to ignore the target's state; after a removal not even that             *)
WaitedMeansQuiet ==
    Idle(Control) /\ todo.op \in {"StopCancel", "StopWait", "Purge", "Remove"} =>
        \A r \in Requests :
            /\ req[r].list # "sent"
            /\ req[r].irp = "lower" => "IgnoreState" \in req[r].options
            /\ todo.op = "Remove" => req[r].irp = "here"

(* Places from which a thread goes on to use the target *)
Uses == {"completion", "complete", "signal", "dereference", "requestCancelled", "cancelIrp", "cancelRelease",
    "completeCanceled", "timerCallback", "timerCanceled", "submitCounted", "submitChecked", "send"}

(* When Remove returns the target may be freed: no completion, DPC or      *)
(* canceller comes back to it                                              *)
DisposedMeansUnused ==
    Idle(Control) /\ todo.op = "Remove" =>
        /\ \A t \in Threads : ~Pending(t, Uses)
        /\ \A r \in Requests : owner[r] = "target" => At(Sender(r), "submit")

-----------------------------------------------------------------------------
(* The operating system runs every thread, and queues the DPC of a timer   *)
(* that is due; the lower driver completes a cancelled IRP                 *)
Fairness ==
    /\ \A t \in Threads : WF_vars(ThreadStep(t))
    /\ WF_vars(ControlStep)
    /\ \A r \in Requests :
         /\ WF_vars(TimerFires(r))
         /\ WF_vars(req[r].irpCanceled /\ LowerCompletes(r))

FairSpec == Spec /\ Fairness

(* What only the lower driver ends: requests a stop waits for without      *)
(* cancelling them, or that were let in by a removal that they ignore      *)
LeftBelow ==
    /\ todo.op \in {"StopWait", "Remove"}
    /\ \E r \in Requests : req[r].irp = "lower" /\ ~req[r].irpCanceled

(* A request that is sent and does not ignore the target's state, with the *)
(* flag of an earlier use that did: nobody is told when it is removed      *)
Misjudged == \E r \in Requests : req[r].list = "sent" /\ "IgnoreState" \in req[r].flags

(* Unless a request is misjudged, no operation waits for ever for an event *)
(* that was set too early, lost, or is due to a request nobody cancels     *)
OperationsReturn == []~Misjudged => (~Idle(Control) ~> (Idle(Control) \/ LeftBelow))

(* A cancelled request comes back, in whatever state the target is and     *)
(* whoever has it when the cancellation arrives                            *)
CancelCompletes ==
    \A r \in Requests : (owner[r] = "target" /\ req[r].canceled) ~> owner[r] = "driver"

=============================================================================
