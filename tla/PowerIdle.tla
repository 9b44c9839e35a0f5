----------------------------- MODULE PowerIdle -----------------------------
(***************************************************************************)
(* The device power idle machine, FxPowerIdleMachine (poweridlestate-      *)
(* machine.cpp).  It counts power references, runs the idle timer and      *)
(* holds the event that says whether the device can be used.  Queues, the  *)
(* driver and the PnP machine take references; the power machine tells it  *)
(* of power ups and downs; the power policy machine starts, stops, enables *)
(* and disables it; a timer DPC tells it that the timer expired.           *)
(*                                                                         *)
(* Every public function holds m_Lock from its beginning to its end, so a  *)
(* function of the code is an operator from machine to machine here.  The  *)
(* events it posts to the other machines while it holds the lock are       *)
(* collected in "sent"; the next function starts with none (Settled).      *)
(*                                                                         *)
(* The specification at the end is the machine with the most general       *)
(* users that respect its tables (Legal).  DevicePower composes it with    *)
(* the real ones and checks that they do.                                  *)
(***************************************************************************)
EXTENDS Naturals

VARIABLE idle

IdleStates == {"Stopped", "Started", "StartedPowerFailed", "Disabled", "Busy",
               "TimerRunning", "TimedOut", "InDx", "WaitForTimeout",
               "DisablingWaitForTimeout", "PowerFailedWaitForTimeout"}

IdleEvents == {"Start", "PowerUpComplete", "PowerUpFailed", "PowerDown",
               "PowerDownFailed", "Stop", "Disabled", "Enabled", "IoIncrement",
               "IoDecrement", "TimerExpired"}

IdleFlags == {"TimerEnabled", "InDx", "TimerStarted", "IsStarted", "PowerFailed",
              "IoPresentSent", "SendPnpPowerUpEvent"}

Posts == {"PowerTimeoutExpired", "IoPresent", "DeviceInD0"}

(* timer: off; armed in the timer queue; fired, its DPC not yet under the   *)
(* lock.  d0 is m_D0NotificationEvent.  trap: an event was dropped where    *)
(* the code says none may be.                                               *)
IdleMachine == [state : IdleStates, flags : SUBSET IdleFlags, count : Nat,
                d0 : BOOLEAN, timer : {"off", "armed", "fired"},
                sent : SUBSET Posts, trap : BOOLEAN]

Set(m, f) == [m EXCEPT !.flags = @ \cup f]
Clear(m, f) == [m EXCEPT !.flags = @ \ f]
At(m, s) == [m EXCEPT !.state = s]
Send(m, e) == [m EXCEPT !.sent = @ \cup {e}]

Settled(m) == [m EXCEPT !.sent = {}]

(***************************************************************************)
(* Entry functions.  Each calls the one of the state it returns.           *)
(***************************************************************************)
SendD0Notification(m) ==
    LET n == [m EXCEPT !.d0 = TRUE]
    IN  IF "SendPnpPowerUpEvent" \in m.flags
        THEN Send(Clear(n, {"SendPnpPowerUpEvent"}), "DeviceInD0")
        ELSE n

(* CancelIdleTimer succeeds when the DPC is not yet on its way *)
CanCancel(m) == m.timer = "armed"
CancelIdleTimer(m) == Clear([m EXCEPT !.timer = "off"], {"TimerStarted"})

Stopped(m) == At(Clear(m, {"IsStarted"}), "Stopped")

Started(m) == At(Set([m EXCEPT !.d0 = FALSE], {"IsStarted"}), "Started")

Disabled(m) == At(Clear(m, {"TimerEnabled"}), "Disabled")

StartedPowerUp(m) == Disabled(SendD0Notification(m))

StartedPowerFailed(m) ==
    At(SendD0Notification(Set(m, {"PowerFailed"})), "StartedPowerFailed")

StartTimer(m) ==
    At(Set([m EXCEPT !.timer = "armed"], {"TimerStarted"}), "TimerRunning")

(* Mutant: the last reference given back starts no timer *)
DecrementIoStaysBusy(m) == At(m, "Busy")
DecrementIo(m) == IF m.count = 0 THEN StartTimer(m) ELSE At(m, "Busy")

CheckIoCount(m) == DecrementIo(Set(m, {"TimerEnabled"}))

TimingOut(m) ==
    At([Clear(Send(m, "PowerTimeoutExpired"), {"TimerStarted"})
        EXCEPT !.d0 = FALSE], "TimedOut")

SendIoPresent(m) ==
    IF "IoPresentSent" \in m.flags THEN m
    ELSE Set(Send(m, "IoPresent"), {"IoPresentSent"})

TimedOutIoIncrement(m) == At(SendIoPresent(m), "TimedOut")

InDx(m) == At(Set(m, {"InDx"}), "InDx")

GoingToDx(m) == InDx([m EXCEPT !.d0 = FALSE])

TimedOutPowerDown(m) == GoingToDx(Clear(m, {"IoPresentSent"}))

PowerFailed(m) ==
    Disabled(SendD0Notification(Set(Clear(m, {"TimerEnabled"}), {"PowerFailed"})))

TimedOutPowerDownFailed(m) == PowerFailed(Clear(m, {"IoPresentSent"}))

InDxIoIncrement(m) == At(SendIoPresent(m), "InDx")

InDxPowerUpFailure(m) == PowerFailed(Clear(m, {"InDx", "IoPresentSent"}))

(* Mutant: who waits for D0 is not told that it will not come *)
InDxStoppedSilently(m) ==
    Stopped(Clear(m, {"InDx", "TimerEnabled", "IoPresentSent"}))
InDxStopped(m) ==
    Stopped(Clear(SendD0Notification(m), {"InDx", "TimerEnabled", "IoPresentSent"}))

InDxDisabled(m) == InDx(Clear(m, {"TimerEnabled"}))

InDxEnabled(m) == InDx(Set(m, {"TimerEnabled"}))

PowerUpComplete(m) ==
    IF "TimerEnabled" \notin m.flags THEN Disabled(m)
    ELSE IF "TimerStarted" \in m.flags THEN At(m, "TimerRunning")
    ELSE CheckIoCount(m)

PowerUp(m) ==
    PowerUpComplete(SendD0Notification(Clear(m, {"InDx", "IoPresentSent"})))

TimedOutDisabled(m) == Disabled(Clear(SendD0Notification(m), {"IoPresentSent"}))

TimedOutEnabled(m) == CheckIoCount(Clear(SendD0Notification(m), {"IoPresentSent"}))

CancelTimer(m) ==
    IF CanCancel(m) THEN CheckIoCount(CancelIdleTimer(m)) ELSE At(m, "WaitForTimeout")

(* Mutant: a timer that could not be cancelled times the device out *)
TimerExpiredTimesOut(m) == TimingOut(m)
TimerExpired(m) == CheckIoCount(Clear(m, {"TimerStarted"}))

Disabling(m) ==
    IF CanCancel(m) THEN Disabled(CancelIdleTimer(m))
    ELSE At(m, "DisablingWaitForTimeout")

DisablingTimerExpired(m) ==
    Disabled(Send(Clear(m, {"TimerStarted"}), "PowerTimeoutExpired"))

(***************************************************************************)
(* ProcessEventLocked: the state tables.  An event that a state does not   *)
(* list is ignored if it is an increment, a decrement, or an enable of an  *)
(* enabled machine; any other is a dropped event.                          *)
(***************************************************************************)
Ignored(m, e) ==
    e \in {"IoIncrement", "IoDecrement"} \/ (e = "Enabled" /\ "TimerEnabled" \in m.flags)

Enter(m, s, e) ==
    CASE s = "Stopped" /\ e = "Start" -> Started(m)
      [] s = "Started" /\ e = "PowerUpComplete" -> StartedPowerUp(m)
      [] s = "Started" /\ e = "PowerUpFailed" -> StartedPowerFailed(m)
      [] s \in {"Started", "StartedPowerFailed", "Disabled"} /\ e = "Stop" -> Stopped(m)
      [] s = "Disabled" /\ e = "Enabled" -> CheckIoCount(m)
      [] s \in {"Disabled", "Busy"} /\ e = "Disabled" -> Disabled(m)
      [] s \in {"Disabled", "Busy"} /\ e = "PowerDown" -> GoingToDx(m)
      [] s \in {"Disabled", "Busy"} /\ e = "PowerDownFailed" -> PowerFailed(m)
      [] s = "Disabled" /\ e = "PowerUpFailed" -> PowerFailed(m)
      [] s = "Busy" /\ e = "IoDecrement" -> DecrementIo(m)
      [] s = "TimerRunning" /\ e = "Disabled" -> Disabling(m)
      [] s = "TimerRunning" /\ e \in {"IoIncrement", "Enabled"} -> CancelTimer(m)
      [] s = "TimerRunning" /\ e = "TimerExpired" -> TimingOut(m)
      [] s = "TimedOut" /\ e = "PowerDown" -> TimedOutPowerDown(m)
      [] s = "TimedOut" /\ e = "PowerDownFailed" -> TimedOutPowerDownFailed(m)
      [] s = "TimedOut" /\ e = "Disabled" -> TimedOutDisabled(m)
      [] s = "TimedOut" /\ e = "Enabled" -> TimedOutEnabled(m)
      [] s = "TimedOut" /\ e = "IoIncrement" -> TimedOutIoIncrement(m)
      [] s = "InDx" /\ e = "PowerUpComplete" -> PowerUp(m)
      [] s = "InDx" /\ e \in {"PowerUpFailed", "PowerDownFailed"} -> InDxPowerUpFailure(m)
      [] s = "InDx" /\ e = "Stop" -> InDxStopped(m)
      [] s = "InDx" /\ e = "Disabled" -> InDxDisabled(m)
      [] s = "InDx" /\ e = "IoIncrement" -> InDxIoIncrement(m)
      [] s = "InDx" /\ e \in {"IoDecrement", "PowerDown"} -> InDx(m)
      [] s = "InDx" /\ e = "Enabled" -> InDxEnabled(m)
      [] s = "WaitForTimeout" /\ e = "TimerExpired" -> TimerExpired(m)
      [] s = "WaitForTimeout" /\ e = "PowerDownFailed" -> At(m, "PowerFailedWaitForTimeout")
      [] s = "WaitForTimeout" /\ e = "Disabled" -> At(m, "DisablingWaitForTimeout")
      [] s = "DisablingWaitForTimeout" /\ e = "TimerExpired" -> DisablingTimerExpired(m)
      [] s = "PowerFailedWaitForTimeout" /\ e = "TimerExpired" -> PowerFailed(m)
      [] OTHER -> [m EXCEPT !.trap = @ \/ ~Ignored(m, e)]

ProcessEventLocked(m, e) == Enter(m, m.state, e)

(***************************************************************************)
(* Public functions                                                        *)
(***************************************************************************)
Start(m) == ProcessEventLocked(m, "Start")
Stop(m) == ProcessEventLocked(m, "Stop")
EnableTimer(m) == ProcessEventLocked(m, "Enabled")
DisableTimer(m) == ProcessEventLocked(m, "Disabled")

(* what DisableTimer returns, m being the machine it left *)
DisabledImmediately(m) == "TimerStarted" \notin m.flags

ProcessPowerEvent(m, e) == ProcessEventLocked(m, e)

(* IoIncrementWithFlags: refused, or counted; pending while not in D0 *)
CanReference(m) == "PowerFailed" \notin m.flags /\ "IsStarted" \in m.flags

IoIncrement(m) == ProcessEventLocked([m EXCEPT !.count = @ + 1], "IoIncrement")

IoIncrementForPnp(m) ==
    LET n == IoIncrement(m)
    IN  IF n.d0 THEN n ELSE Set(n, {"SendPnpPowerUpEvent"})

IoDecrement(m) == ProcessEventLocked([m EXCEPT !.count = @ - 1], "IoDecrement")

(* QueryReturnToIdle returns IsIdle and forgets that IoPresent was posted *)
IsIdle(m) == "InDx" \in m.flags /\ "TimerStarted" \notin m.flags /\ m.count = 0
(* Mutant: the flag survives the query *)
QueriedForgetful(m) == m
Queried(m) == Clear(m, {"IoPresentSent"})

(* Timer.Start's due time passes, and later _PowerTimeoutDpcRoutine runs *)
TimerFires(m) == [m EXCEPT !.timer = "fired"]
PowerTimeoutDpcRoutine(m) ==
    ProcessEventLocked([m EXCEPT !.timer = "off"], "TimerExpired")

(* a constructed machine: Init calls Reset, which sets the D0 event *)
InitialIdle == [state |-> "Stopped", flags |-> {}, count |-> 0, d0 |-> TRUE,
                timer |-> "off", sent |-> {}, trap |-> FALSE]

-----------------------------------------------------------------------------
(***************************************************************************)
(* The machine and its users                                               *)
(***************************************************************************)

(* Which power policy and power events each state expects: the rows of its *)
(* table but those marked TRAP_ON_EVENT.  This is what the users owe.      *)
Legal(m, e) ==
    CASE e = "Start" -> m.state = "Stopped"
      [] e = "Stop" -> m.state \in {"StartedPowerFailed", "Disabled", "InDx"}
      [] e = "PowerUpComplete" -> m.state \in {"Started", "InDx"}
      [] e = "PowerUpFailed" -> m.state \in {"Started", "Disabled", "InDx"}
      [] e = "PowerDown" -> m.state \in {"Disabled", "TimedOut", "InDx"}
      [] e = "PowerDownFailed" -> m.state \in {"Disabled", "TimedOut"}
      [] e = "Enabled" -> \/ m.state \in {"Disabled", "TimerRunning", "TimedOut", "InDx"}
                          \/ "TimerEnabled" \in m.flags
      [] e = "Disabled" -> m.state \in {"Disabled", "Busy", "TimerRunning", "TimedOut",
                                        "InDx", "WaitForTimeout"}
      [] OTHER -> FALSE

IdleInit == idle = InitialIdle

UserEvent(e) == Legal(idle, e) /\ idle' = Settled(ProcessEventLocked(idle, e))

Reference == CanReference(idle) /\ idle' = Settled(IoIncrement(idle))

ReferenceForPnp == CanReference(idle) /\ idle' = Settled(IoIncrementForPnp(idle))

(* only what was referenced is dereferenced *)
Dereference == idle.count > 0 /\ idle' = Settled(IoDecrement(idle))

(* the power policy machine asks once it knows the device to be in Dx *)
Query == idle.state # "TimedOut" /\ idle' = Settled(Queried(idle))

TimerDue == idle.timer = "armed" /\ idle' = TimerFires(idle)

TimerDpc == idle.timer = "fired" /\ idle' = Settled(PowerTimeoutDpcRoutine(idle))

IdleNext ==
    \/ \E e \in IdleEvents : UserEvent(e)
    \/ Reference
    \/ ReferenceForPnp
    \/ Dereference
    \/ Query
    \/ TimerDue
    \/ TimerDpc

IdleSpec == IdleInit /\ [][IdleNext]_idle

-----------------------------------------------------------------------------
(***************************************************************************)
(* What the machine guarantees to users that respect its tables            *)
(***************************************************************************)

IdleTypeOK == idle \in IdleMachine

(* m_Flags says that the timer runs exactly when it does, or its DPC is on *)
(* its way: DisableTimer's answer rests on it, and so does StartTimer,     *)
(* which must not start a timer that is running.                           *)
TimerTracked(m) ==
    /\ "TimerStarted" \in m.flags <=> m.timer # "off"
    /\ m.timer # "off" <=>
         m.state \in {"TimerRunning", "WaitForTimeout", "DisablingWaitForTimeout"}

(* The timer runs, and the device may time out, only with no reference     *)
(* held: a reference taken meanwhile stops the timer, and if the DPC could *)
(* not be stopped, it makes its expiry harmless (WaitForTimeout).          *)
NoTimeoutWhileReferenced(m) == m.state = "TimerRunning" => m.count = 0

(* A reference that finds the device timed out in D0 tells the power       *)
(* policy machine, or someone has already.                                 *)
IoPresentNotLost(m) == m.state = "TimedOut" /\ m.count > 0 => "IoPresentSent" \in m.flags

(* The D0 event is clear exactly in the states that will set it: a thread  *)
(* that waits for it, or the PnP machine that asked for an event, waits    *)
(* for a power up.  Nobody is promised an event that was already set.      *)
D0EventMeans(m) ==
    /\ ~m.d0 <=> m.state \in {"Started", "TimedOut", "InDx"}
    /\ "SendPnpPowerUpEvent" \in m.flags => ~m.d0

(* The flags follow the state *)
FlagsFollow(m) ==
    /\ "IsStarted" \in m.flags <=> m.state # "Stopped"
    /\ "InDx" \in m.flags <=> m.state = "InDx"
    /\ m.state \in {"Busy", "TimerRunning", "TimedOut", "WaitForTimeout"} => "TimerEnabled" \in m.flags
    /\ m.state \in {"Stopped", "Started", "StartedPowerFailed", "Disabled"} => "TimerEnabled" \notin m.flags
    /\ m.state = "Busy" => m.count > 0
    /\ m.state # "PowerFailedWaitForTimeout"

IdleSound(m) ==
    /\ TimerTracked(m)
    /\ NoTimeoutWhileReferenced(m)
    /\ IoPresentNotLost(m)
    /\ D0EventMeans(m)
    /\ FlagsFollow(m)

IdleInv == IdleTypeOK /\ IdleSound(idle) /\ ~idle.trap

=============================================================================
