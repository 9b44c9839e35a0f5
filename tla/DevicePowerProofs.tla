-------------------------- MODULE DevicePowerProofs --------------------------
(***************************************************************************)
(* Proofs about the composed device: whatever the three machines, the IRPs *)
(* and the users do, the power references counted are those held, and the  *)
(* stages of the device that are up are those the states of the machines   *)
(* call for.                                                               *)
(*                                                                         *)
(* The first part says that no event given to the idle machine changes its *)
(* count; the second that no step of the power and power policy machines   *)
(* touches what the count is about; the third follows the reference of the *)
(* PnP machine through its states, and those of the queue and the thread.  *)
(* The last gives each state of the power and PnP machines the stages that *)
(* are up before its entry function and while it waits, and follows every  *)
(* entry function from the one to the other.                               *)
(***************************************************************************)
EXTENDS DevicePower, TLAPS

-----------------------------------------------------------------------------
(***************************************************************************)
(* The idle machine's count                                                *)
(***************************************************************************)

(* changes of one field or two *)
LEMMA SetKeeps ==
    ASSUME NEW m \in Idle!IdleMachine, NEW g \in SUBSET Idle!IdleFlags
    PROVE  Idle!Set(m, g) \in Idle!IdleMachine /\ Idle!Set(m, g).count = m.count
BY DEF Idle!Set, Idle!IdleMachine

LEMMA ClearKeeps ==
    ASSUME NEW m \in Idle!IdleMachine, NEW g
    PROVE  Idle!Clear(m, g) \in Idle!IdleMachine /\ Idle!Clear(m, g).count = m.count
BY DEF Idle!Clear, Idle!IdleMachine

LEMMA AtKeeps ==
    ASSUME NEW m \in Idle!IdleMachine, NEW s \in Idle!IdleStates
    PROVE  Idle!At(m, s) \in Idle!IdleMachine /\ Idle!At(m, s).count = m.count
BY DEF Idle!At, Idle!IdleMachine

LEMMA SendKeeps ==
    ASSUME NEW m \in Idle!IdleMachine, NEW e \in Idle!Posts
    PROVE  Idle!Send(m, e) \in Idle!IdleMachine /\ Idle!Send(m, e).count = m.count
BY DEF Idle!Send, Idle!IdleMachine

LEMMA SettledKeeps ==
    ASSUME NEW m \in Idle!IdleMachine
    PROVE  Idle!Settled(m) \in Idle!IdleMachine /\ Idle!Settled(m).count = m.count
BY DEF Idle!Settled, Idle!IdleMachine

LEMMA D0Keeps ==
    ASSUME NEW m \in Idle!IdleMachine, NEW b \in BOOLEAN
    PROVE  [m EXCEPT !.d0 = b] \in Idle!IdleMachine /\ [m EXCEPT !.d0 = b].count = m.count
BY DEF Idle!IdleMachine

LEMMA TimerKeeps ==
    ASSUME NEW m \in Idle!IdleMachine, NEW v \in {"off", "armed", "fired"}
    PROVE  [m EXCEPT !.timer = v] \in Idle!IdleMachine /\ [m EXCEPT !.timer = v].count = m.count
BY DEF Idle!IdleMachine

(* and so the entry functions *)
LEMMA SendD0NotificationKeeps ==
    ASSUME NEW m \in Idle!IdleMachine
    PROVE  Idle!SendD0Notification(m) \in Idle!IdleMachine /\ Idle!SendD0Notification(m).count = m.count
<1> DEFINE n == [m EXCEPT !.d0 = TRUE]
<1>1. n \in Idle!IdleMachine /\ n.count = m.count
  BY D0Keeps, TimerKeeps, ClearKeeps
<1>2. Idle!SendD0Notification(m) = IF "SendPnpPowerUpEvent" \in m.flags
        THEN Idle!Send(Idle!Clear(n, {"SendPnpPowerUpEvent"}), "DeviceInD0") ELSE n
  BY DEF Idle!SendD0Notification
<1> HIDE DEF n
<1>3. QED
  BY <1>1, <1>2, ClearKeeps, SendKeeps DEF Idle!Posts

LEMMA CancelIdleTimerKeeps ==
    ASSUME NEW m \in Idle!IdleMachine
    PROVE  Idle!CancelIdleTimer(m) \in Idle!IdleMachine /\ Idle!CancelIdleTimer(m).count = m.count
<1> DEFINE n == [m EXCEPT !.timer = "off"]
<1>1. n \in Idle!IdleMachine /\ n.count = m.count
  BY D0Keeps, TimerKeeps, ClearKeeps
<1>2. Idle!CancelIdleTimer(m) = Idle!Clear(n, {"TimerStarted"})
  BY DEF Idle!CancelIdleTimer
<1> HIDE DEF n
<1>3. QED
  BY <1>1, <1>2, ClearKeeps

LEMMA StoppedKeeps ==
    ASSUME NEW m \in Idle!IdleMachine
    PROVE  Idle!Stopped(m) \in Idle!IdleMachine /\ Idle!Stopped(m).count = m.count
BY ClearKeeps, AtKeeps DEF Idle!Stopped, Idle!IdleStates

LEMMA StartedKeeps ==
    ASSUME NEW m \in Idle!IdleMachine
    PROVE  Idle!Started(m) \in Idle!IdleMachine /\ Idle!Started(m).count = m.count
<1> DEFINE n == [m EXCEPT !.d0 = FALSE]
<1>1. n \in Idle!IdleMachine /\ n.count = m.count
  BY D0Keeps, TimerKeeps, ClearKeeps
<1>2. Idle!Started(m) = Idle!At(Idle!Set(n, {"IsStarted"}), "Started")
  BY DEF Idle!Started
<1> HIDE DEF n
<1>3. QED
  BY <1>1, <1>2, SetKeeps, AtKeeps DEF Idle!IdleStates, Idle!IdleFlags

LEMMA DisabledKeeps ==
    ASSUME NEW m \in Idle!IdleMachine
    PROVE  Idle!Disabled(m) \in Idle!IdleMachine /\ Idle!Disabled(m).count = m.count
BY ClearKeeps, AtKeeps DEF Idle!Disabled, Idle!IdleStates

LEMMA StartedPowerUpKeeps ==
    ASSUME NEW m \in Idle!IdleMachine
    PROVE  Idle!StartedPowerUp(m) \in Idle!IdleMachine /\ Idle!StartedPowerUp(m).count = m.count
BY SendD0NotificationKeeps, DisabledKeeps DEF Idle!StartedPowerUp

LEMMA StartedPowerFailedKeeps ==
    ASSUME NEW m \in Idle!IdleMachine
    PROVE  Idle!StartedPowerFailed(m) \in Idle!IdleMachine /\ Idle!StartedPowerFailed(m).count = m.count
BY SetKeeps, AtKeeps, SendD0NotificationKeeps DEF Idle!StartedPowerFailed, Idle!IdleStates, Idle!IdleFlags

LEMMA StartTimerKeeps ==
    ASSUME NEW m \in Idle!IdleMachine
    PROVE  Idle!StartTimer(m) \in Idle!IdleMachine /\ Idle!StartTimer(m).count = m.count
<1> DEFINE n == [m EXCEPT !.timer = "armed"]
<1>1. n \in Idle!IdleMachine /\ n.count = m.count
  BY D0Keeps, TimerKeeps, ClearKeeps
<1>2. Idle!StartTimer(m) = Idle!At(Idle!Set(n, {"TimerStarted"}), "TimerRunning")
  BY DEF Idle!StartTimer
<1> HIDE DEF n
<1>3. QED
  BY <1>1, <1>2, SetKeeps, AtKeeps DEF Idle!IdleStates, Idle!IdleFlags

LEMMA DecrementIoKeeps ==
    ASSUME NEW m \in Idle!IdleMachine
    PROVE  Idle!DecrementIo(m) \in Idle!IdleMachine /\ Idle!DecrementIo(m).count = m.count
BY AtKeeps, StartTimerKeeps DEF Idle!DecrementIo, Idle!IdleStates

LEMMA CheckIoCountKeeps ==
    ASSUME NEW m \in Idle!IdleMachine
    PROVE  Idle!CheckIoCount(m) \in Idle!IdleMachine /\ Idle!CheckIoCount(m).count = m.count
BY SetKeeps, DecrementIoKeeps DEF Idle!CheckIoCount, Idle!IdleFlags

LEMMA TimingOutKeeps ==
    ASSUME NEW m \in Idle!IdleMachine
    PROVE  Idle!TimingOut(m) \in Idle!IdleMachine /\ Idle!TimingOut(m).count = m.count
<1> DEFINE n == Idle!Clear(Idle!Send(m, "PowerTimeoutExpired"), {"TimerStarted"})
<1>1. n \in Idle!IdleMachine /\ n.count = m.count
  BY SetKeeps, ClearKeeps, AtKeeps, SendKeeps DEF Idle!Posts
<1>2. Idle!TimingOut(m) = Idle!At([n EXCEPT !.d0 = FALSE], "TimedOut")
  BY DEF Idle!TimingOut
<1> HIDE DEF n
<1>3. [n EXCEPT !.d0 = FALSE] \in Idle!IdleMachine /\ [n EXCEPT !.d0 = FALSE].count = n.count
  BY <1>1, D0Keeps, TimerKeeps
<1>4. QED
  BY <1>1, <1>2, <1>3, SetKeeps, ClearKeeps, AtKeeps, SendKeeps DEF Idle!IdleStates

LEMMA SendIoPresentKeeps ==
    ASSUME NEW m \in Idle!IdleMachine
    PROVE  Idle!SendIoPresent(m) \in Idle!IdleMachine /\ Idle!SendIoPresent(m).count = m.count
BY SetKeeps, SendKeeps DEF Idle!SendIoPresent, Idle!IdleFlags, Idle!Posts

LEMMA TimedOutIoIncrementKeeps ==
    ASSUME NEW m \in Idle!IdleMachine
    PROVE  Idle!TimedOutIoIncrement(m) \in Idle!IdleMachine /\ Idle!TimedOutIoIncrement(m).count = m.count
BY AtKeeps, SendIoPresentKeeps DEF Idle!TimedOutIoIncrement, Idle!IdleStates

LEMMA InDxKeeps ==
    ASSUME NEW m \in Idle!IdleMachine
    PROVE  Idle!InDx(m) \in Idle!IdleMachine /\ Idle!InDx(m).count = m.count
BY SetKeeps, AtKeeps DEF Idle!InDx, Idle!IdleStates, Idle!IdleFlags

LEMMA GoingToDxKeeps ==
    ASSUME NEW m \in Idle!IdleMachine
    PROVE  Idle!GoingToDx(m) \in Idle!IdleMachine /\ Idle!GoingToDx(m).count = m.count
BY D0Keeps, TimerKeeps, InDxKeeps DEF Idle!GoingToDx

LEMMA TimedOutPowerDownKeeps ==
    ASSUME NEW m \in Idle!IdleMachine
    PROVE  Idle!TimedOutPowerDown(m) \in Idle!IdleMachine /\ Idle!TimedOutPowerDown(m).count = m.count
BY ClearKeeps, GoingToDxKeeps DEF Idle!TimedOutPowerDown

LEMMA PowerFailedKeeps ==
    ASSUME NEW m \in Idle!IdleMachine
    PROVE  Idle!PowerFailed(m) \in Idle!IdleMachine /\ Idle!PowerFailed(m).count = m.count
<1> DEFINE n == Idle!Clear(m, {"TimerEnabled"})
<1>1. n \in Idle!IdleMachine /\ n.count = m.count
  BY D0Keeps, TimerKeeps, ClearKeeps
<1>2. Idle!PowerFailed(m) = Idle!Disabled(Idle!SendD0Notification(Idle!Set(n, {"PowerFailed"})))
  BY DEF Idle!PowerFailed
<1> HIDE DEF n
<1>3. QED
  BY <1>1, <1>2, SetKeeps, ClearKeeps, SendD0NotificationKeeps, DisabledKeeps DEF Idle!IdleFlags

LEMMA TimedOutPowerDownFailedKeeps ==
    ASSUME NEW m \in Idle!IdleMachine
    PROVE  Idle!TimedOutPowerDownFailed(m) \in Idle!IdleMachine /\ Idle!TimedOutPowerDownFailed(m).count = m.count
BY ClearKeeps, PowerFailedKeeps DEF Idle!TimedOutPowerDownFailed

LEMMA InDxIoIncrementKeeps ==
    ASSUME NEW m \in Idle!IdleMachine
    PROVE  Idle!InDxIoIncrement(m) \in Idle!IdleMachine /\ Idle!InDxIoIncrement(m).count = m.count
BY AtKeeps, SendIoPresentKeeps DEF Idle!InDxIoIncrement, Idle!IdleStates

LEMMA InDxPowerUpFailureKeeps ==
    ASSUME NEW m \in Idle!IdleMachine
    PROVE  Idle!InDxPowerUpFailure(m) \in Idle!IdleMachine /\ Idle!InDxPowerUpFailure(m).count = m.count
BY ClearKeeps, PowerFailedKeeps DEF Idle!InDxPowerUpFailure

LEMMA InDxStoppedKeeps ==
    ASSUME NEW m \in Idle!IdleMachine
    PROVE  Idle!InDxStopped(m) \in Idle!IdleMachine /\ Idle!InDxStopped(m).count = m.count
BY ClearKeeps, SendD0NotificationKeeps, StoppedKeeps DEF Idle!InDxStopped

LEMMA InDxDisabledKeeps ==
    ASSUME NEW m \in Idle!IdleMachine
    PROVE  Idle!InDxDisabled(m) \in Idle!IdleMachine /\ Idle!InDxDisabled(m).count = m.count
BY ClearKeeps, InDxKeeps DEF Idle!InDxDisabled

LEMMA InDxEnabledKeeps ==
    ASSUME NEW m \in Idle!IdleMachine
    PROVE  Idle!InDxEnabled(m) \in Idle!IdleMachine /\ Idle!InDxEnabled(m).count = m.count
BY SetKeeps, InDxKeeps DEF Idle!InDxEnabled, Idle!IdleFlags

LEMMA PowerUpCompleteKeeps ==
    ASSUME NEW m \in Idle!IdleMachine
    PROVE  Idle!PowerUpComplete(m) \in Idle!IdleMachine /\ Idle!PowerUpComplete(m).count = m.count
BY AtKeeps, DisabledKeeps, CheckIoCountKeeps DEF Idle!PowerUpComplete, Idle!IdleStates

LEMMA PowerUpKeeps ==
    ASSUME NEW m \in Idle!IdleMachine
    PROVE  Idle!PowerUp(m) \in Idle!IdleMachine /\ Idle!PowerUp(m).count = m.count
BY ClearKeeps, SendD0NotificationKeeps, PowerUpCompleteKeeps DEF Idle!PowerUp

LEMMA TimedOutDisabledKeeps ==
    ASSUME NEW m \in Idle!IdleMachine
    PROVE  Idle!TimedOutDisabled(m) \in Idle!IdleMachine /\ Idle!TimedOutDisabled(m).count = m.count
BY ClearKeeps, SendD0NotificationKeeps, DisabledKeeps DEF Idle!TimedOutDisabled

LEMMA TimedOutEnabledKeeps ==
    ASSUME NEW m \in Idle!IdleMachine
    PROVE  Idle!TimedOutEnabled(m) \in Idle!IdleMachine /\ Idle!TimedOutEnabled(m).count = m.count
BY ClearKeeps, SendD0NotificationKeeps, CheckIoCountKeeps DEF Idle!TimedOutEnabled

LEMMA CancelTimerKeeps ==
    ASSUME NEW m \in Idle!IdleMachine
    PROVE  Idle!CancelTimer(m) \in Idle!IdleMachine /\ Idle!CancelTimer(m).count = m.count
BY AtKeeps, CancelIdleTimerKeeps, CheckIoCountKeeps DEF Idle!CancelTimer, Idle!IdleStates

LEMMA TimerExpiredKeeps ==
    ASSUME NEW m \in Idle!IdleMachine
    PROVE  Idle!TimerExpired(m) \in Idle!IdleMachine /\ Idle!TimerExpired(m).count = m.count
BY ClearKeeps, CheckIoCountKeeps DEF Idle!TimerExpired

LEMMA DisablingKeeps ==
    ASSUME NEW m \in Idle!IdleMachine
    PROVE  Idle!Disabling(m) \in Idle!IdleMachine /\ Idle!Disabling(m).count = m.count
BY AtKeeps, CancelIdleTimerKeeps, DisabledKeeps DEF Idle!Disabling, Idle!IdleStates

LEMMA DisablingTimerExpiredKeeps ==
    ASSUME NEW m \in Idle!IdleMachine
    PROVE  Idle!DisablingTimerExpired(m) \in Idle!IdleMachine /\ Idle!DisablingTimerExpired(m).count = m.count
BY ClearKeeps, SendKeeps, DisabledKeeps DEF Idle!DisablingTimerExpired, Idle!Posts

(* No event changes the count *)
LEMMA ProcessEventKeepsCount ==
    ASSUME NEW m \in Idle!IdleMachine, NEW e
    PROVE  /\ Idle!ProcessEventLocked(m, e) \in Idle!IdleMachine
           /\ Idle!ProcessEventLocked(m, e).count = m.count
<1>1. /\ [m EXCEPT !.trap = @ \/ ~Idle!Ignored(m, e)] \in Idle!IdleMachine
      /\ [m EXCEPT !.trap = @ \/ ~Idle!Ignored(m, e)].count = m.count
  BY DEF Idle!IdleMachine
<1>2. /\ Idle!At(m, "PowerFailedWaitForTimeout") \in Idle!IdleMachine
      /\ Idle!At(m, "PowerFailedWaitForTimeout").count = m.count
      /\ Idle!At(m, "DisablingWaitForTimeout") \in Idle!IdleMachine
      /\ Idle!At(m, "DisablingWaitForTimeout").count = m.count
  BY SetKeeps, ClearKeeps, AtKeeps, SendKeeps DEF Idle!IdleStates
<1>3. QED
  BY <1>1, <1>2, StoppedKeeps, StartedKeeps, StartedPowerUpKeeps,
       StartedPowerFailedKeeps, DisabledKeeps, CheckIoCountKeeps,
       GoingToDxKeeps, PowerFailedKeeps, DecrementIoKeeps, DisablingKeeps,
       CancelTimerKeeps, TimingOutKeeps, TimedOutPowerDownKeeps,
       TimedOutPowerDownFailedKeeps, TimedOutDisabledKeeps,
       TimedOutEnabledKeeps, TimedOutIoIncrementKeeps, PowerUpKeeps,
       InDxPowerUpFailureKeeps, InDxStoppedKeeps, InDxDisabledKeeps,
       InDxIoIncrementKeeps, InDxKeeps, InDxEnabledKeeps, TimerExpiredKeeps,
       DisablingTimerExpiredKeeps
    DEF Idle!ProcessEventLocked, Idle!Enter

(* A reference counts one, and giving it back discounts it *)
LEMMA IoIncrementCounts ==
    ASSUME NEW m \in Idle!IdleMachine
    PROVE  Idle!IoIncrement(m) \in Idle!IdleMachine /\ Idle!IoIncrement(m).count = m.count + 1
<1>1. /\ [m EXCEPT !.count = @ + 1] \in Idle!IdleMachine
      /\ [m EXCEPT !.count = @ + 1].count = m.count + 1
  BY DEF Idle!IdleMachine
<1>2. QED
  BY <1>1, ProcessEventKeepsCount DEF Idle!IoIncrement

LEMMA IoIncrementForPnpCounts ==
    ASSUME NEW m \in Idle!IdleMachine
    PROVE  /\ Idle!IoIncrementForPnp(m) \in Idle!IdleMachine
           /\ Idle!IoIncrementForPnp(m).count = m.count + 1
BY IoIncrementCounts, SetKeeps, ClearKeeps, AtKeeps, SendKeeps DEF Idle!IoIncrementForPnp, Idle!IdleFlags

LEMMA IoDecrementCounts ==
    ASSUME NEW m \in Idle!IdleMachine, m.count > 0
    PROVE  Idle!IoDecrement(m) \in Idle!IdleMachine /\ Idle!IoDecrement(m).count = m.count - 1
<1>1. /\ [m EXCEPT !.count = @ - 1] \in Idle!IdleMachine
      /\ [m EXCEPT !.count = @ - 1].count = m.count - 1
  BY DEF Idle!IdleMachine
<1>2. QED
  BY <1>1, ProcessEventKeepsCount DEF Idle!IoDecrement

LEMMA PowerTimeoutDpcRoutineKeeps ==
    ASSUME NEW m \in Idle!IdleMachine
    PROVE  /\ Idle!PowerTimeoutDpcRoutine(m) \in Idle!IdleMachine
           /\ Idle!PowerTimeoutDpcRoutine(m).count = m.count
<1>1. /\ [m EXCEPT !.timer = "off"] \in Idle!IdleMachine
      /\ [m EXCEPT !.timer = "off"].count = m.count
  BY D0Keeps, TimerKeeps
<1>2. QED
  BY <1>1, ProcessEventKeepsCount DEF Idle!PowerTimeoutDpcRoutine

-----------------------------------------------------------------------------
(***************************************************************************)
(* What the count is about                                                 *)
(***************************************************************************)
Waiters == {"none", "pending", "waiting", "released", "held"}

Users == [queue : {"empty", "referenced", "unreferenced"}, pnp : BOOLEAN, s0idle : BOOLEAN]

Awaiting == {"QueryStopEnsureDeviceAwake", "QueryRemoveEnsureDeviceAwake"}
Pending == {"QueryStopPending", "QueryRemovePending"}
Leaving == {"QueryCanceled", "StartedStopping", "QueriedRemoving", "QueriedSurpriseRemove"}

(* The PnP machine holds its reference from the entry function that takes  *)
(* it to the one that gives it back                                        *)
PnpHolds ==
    \/ at["pnp"] \in Awaiting /\ "pnp" \notin entering
    \/ at["pnp"] \in Pending
    \/ at["pnp"] \in Leaving /\ "pnp" \in entering

CountInv ==
    /\ idle \in Idle!IdleMachine
    /\ waiter \in Waiters
    /\ users \in Users
    /\ DOMAIN at = Machines
    /\ users.pnp <=> PnpHolds
    /\ CountIsHolders

PnpStays ==
    /\ DOMAIN at' = Machines
    /\ at'["pnp"] = at["pnp"]
    /\ "pnp" \in entering' <=> "pnp" \in entering

ReferencesStay ==
    /\ idle' \in Idle!IdleMachine
    /\ idle'.count = idle.count
    /\ waiter' \in Waiters
    /\ waiter' = "none" <=> waiter = "none"

(* a step that leaves all of it as it is *)
Aside == PnpStays /\ ReferencesStay /\ users' = users

(* such a step keeps the invariant *)
LEMMA AsideKeeps ==
    ASSUME CountInv, Aside
    PROVE  CountInv'
BY DEF CountInv, Aside, PnpStays, ReferencesStay, PnpHolds, CountIsHolders

(* the idle machine may become any with the same count *)
LEMMA IdleBecomesStays ==
    ASSUME CountInv, NEW m \in Idle!IdleMachine, m.count = idle.count, IdleBecomes(m)
    PROVE  ReferencesStay
BY SettledKeeps DEF CountInv, IdleBecomes, ReferencesStay, Waiters

LEMMA UnchangedStays ==
    ASSUME CountInv, UNCHANGED references
    PROVE  ReferencesStay
BY DEF CountInv, ReferencesStay, references

(* in particular after any event *)
LEMMA EventStays ==
    ASSUME CountInv, NEW e, IdleBecomes(Idle!ProcessEventLocked(idle, e))
    PROVE  ReferencesStay
<1>1. idle \in Idle!IdleMachine
  BY DEF CountInv
<1>2. QED
  BY <1>1, ProcessEventKeepsCount, IdleBecomesStays

(* entry functions of the other machines leave the PnP machine alone *)
LEMMA EntryStays ==
    ASSUME CountInv, NEW m \in {"power", "policy"}, NEW s, NEW next, NEW noEntry, NEW posts,
           Entry(m, s, next, noEntry, posts)
    PROVE  PnpStays
BY DEF CountInv, Machines, Entry, EnterNewState, PnpStays

LEMMA PowerEntryStays ==
    ASSUME CountInv, NEW s, NEW next, NEW posts, PowerEntry(s, next, posts)
    PROVE  PnpStays
BY EntryStays DEF PowerEntry

LEMMA PolicyEntryStays ==
    ASSUME CountInv, NEW s, NEW next, NEW posts, PolicyEntry(s, next, posts)
    PROVE  PnpStays
BY EntryStays DEF PolicyEntry

-----------------------------------------------------------------------------
(***************************************************************************)
(* The power machine stands aside                                          *)
(***************************************************************************)

(* kinds of entry functions *)
LEMMA PowerPassesAside ==
    ASSUME CountInv, NEW s, NEW next, PowerPasses(s, next)
    PROVE  Aside
BY PowerEntryStays, UnchangedStays
  DEF PowerPasses, Elsewhere, Aside, environment

LEMMA CallD0EntryAside ==
    ASSUME CountInv, NEW s, NEW ok, NEW undo, NEW failed, CallD0Entry(s, ok, undo, failed)
    PROVE  Aside
BY PowerEntryStays, UnchangedStays
  DEF CallD0Entry, Elsewhere, Aside, environment

LEMMA ConnectInterruptAside ==
    ASSUME CountInv, NEW s, NEW ok, NEW failed, ConnectInterrupt(s, ok, failed)
    PROVE  Aside
BY PowerEntryStays, UnchangedStays
  DEF ConnectInterrupt, Elsewhere, Aside, environment

LEMMA DmaEnableAside ==
    ASSUME CountInv, NEW s, NEW ok, NEW failed, DmaEnable(s, ok, failed)
    PROVE  Aside
BY PowerEntryStays, UnchangedStays
  DEF DmaEnable, Elsewhere, Aside, environment

LEMMA PostHardwareEnabledAside ==
    ASSUME CountInv, NEW s, NEW ok, NEW undo, NEW failed, NEW posts, PostHardwareEnabled(s, ok, undo, failed, posts)
    PROVE  Aside
BY PowerEntryStays, UnchangedStays
  DEF PostHardwareEnabled, Elsewhere, Aside, environment

LEMMA StartIoAside ==
    ASSUME CountInv, NEW s, NEW ok, NEW undo, NEW failed, NEW released, StartIo(s, ok, undo, failed, released)
    PROVE  Aside
BY PowerEntryStays, EventStays, UnchangedStays
  DEF StartIo, PowerSendPowerUpEvents, Idle!ProcessPowerEvent, Aside,
      environment

LEMMA PowerUndoesAside ==
    ASSUME CountInv, NEW s, NEW stages, NEW next, PowerUndoes(s, stages, next)
    PROVE  Aside
BY PowerEntryStays, UnchangedStays
  DEF PowerUndoes, Elsewhere, Aside, environment

LEMMA SuspendsIgnoredAside ==
    ASSUME CountInv, NEW s, NEW next, SuspendsIgnored(s, next)
    PROVE  Aside
BY PowerEntryStays, UnchangedStays
  DEF SuspendsIgnored, Elsewhere, Aside, environment

LEMMA PowerSendPowerUpFailureEventAside ==
    ASSUME CountInv, NEW s, NEW next, PowerSendPowerUpFailureEvent(s, next)
    PROVE  Aside
BY PowerEntryStays, EventStays
  DEF PowerSendPowerUpFailureEvent, Idle!ProcessPowerEvent, Aside,
      environment

LEMMA PowerGotoD3StoppedAside ==
    ASSUME CountInv, PowerGotoD3Stopped
    PROVE  Aside
BY PowerEntryStays, EventStays, UnchangedStays
  DEF PowerGotoD3Stopped, ImplicitPowerDown, PowerSendPowerDownEvents,
      Idle!ProcessPowerEvent, Aside, environment

LEMMA PowerGotoDNotZeroIoStoppedAside ==
    ASSUME CountInv, PowerGotoDNotZeroIoStopped
    PROVE  Aside
BY PowerEntryStays, EventStays, UnchangedStays
  DEF PowerGotoDNotZeroIoStopped, PowerSendPowerDownEvents,
      Idle!ProcessPowerEvent, Aside, environment

(* a step of the machine *)
LEMMA PowerAside ==
    ASSUME CountInv, PowerNext
    PROVE  Aside
<1>1. CASE PowerProcessEventInner
  BY <1>1, UnchangedStays
     DEF PowerProcessEventInner, CountInv, Machines, EnterNewState, PnpStays, Aside, environment
<1>2. CASE PowerStartingCheckDeviceType
  BY <1>2, PowerPassesAside
    DEF PowerStartingCheckDeviceType
<1>3. CASE PowerCheckDeviceType
  BY <1>3, PowerPassesAside
    DEF PowerCheckDeviceType
<1>4. CASE PowerD0Starting
  BY <1>4, CallD0EntryAside
    DEF PowerD0Starting
<1>5. CASE PowerWaking
  BY <1>5, CallD0EntryAside
    DEF PowerWaking
<1>6. CASE PowerNotifyingD0EntryToWakeInterrupts
  BY <1>6, PowerPassesAside
    DEF PowerNotifyingD0EntryToWakeInterrupts
<1>7. CASE PowerD0StartingConnectInterrupt
  BY <1>7, ConnectInterruptAside
    DEF PowerD0StartingConnectInterrupt
<1>8. CASE PowerWakingConnectInterrupt
  BY <1>8, ConnectInterruptAside
    DEF PowerWakingConnectInterrupt
<1>9. CASE PowerD0StartingDmaEnable
  BY <1>9, DmaEnableAside
    DEF PowerD0StartingDmaEnable
<1>10. CASE PowerWakingDmaEnable
  BY <1>10, DmaEnableAside
    DEF PowerWakingDmaEnable
<1>11. CASE PowerD0StartingPostHardwareEnabled
  BY <1>11, PostHardwareEnabledAside
    DEF PowerD0StartingPostHardwareEnabled
<1>12. CASE PowerWakingPostHardwareEnabled
  BY <1>12, PostHardwareEnabledAside
    DEF PowerWakingPostHardwareEnabled
<1>13. CASE PowerD0StartingStartSelfManagedIo
  BY <1>13, StartIoAside
    DEF PowerD0StartingStartSelfManagedIo
<1>14. CASE PowerStartSelfManagedIo
  BY <1>14, StartIoAside
    DEF PowerStartSelfManagedIo
<1>15. CASE PowerDecideD0State
  BY <1>15, PowerPassesAside
    DEF PowerDecideD0State
<1>16. CASE PowerDZero
  BY <1>16, PowerPassesAside
    DEF PowerDZero
<1>17. CASE PowerInitialSelfManagedIoFailedStarted
  BY <1>17, SuspendsIgnoredAside
    DEF PowerInitialSelfManagedIoFailedStarted
<1>18. CASE PowerStartSelfManagedIoFailedStarted
  BY <1>18, SuspendsIgnoredAside
    DEF PowerStartSelfManagedIoFailedStarted
<1>19. CASE PowerInitialSelfManagedIoFailed
  BY <1>19, PowerUndoesAside
    DEF PowerInitialSelfManagedIoFailed
<1>20. CASE PowerStartSelfManagedIoFailed
  BY <1>20, PowerUndoesAside
    DEF PowerStartSelfManagedIoFailed
<1>21. CASE PowerInitialPostHardwareEnabledFailed
  BY <1>21, PowerUndoesAside
    DEF PowerInitialPostHardwareEnabledFailed
<1>22. CASE PowerWakingPostHardwareEnabledFailed
  BY <1>22, PowerUndoesAside
    DEF PowerWakingPostHardwareEnabledFailed
<1>23. CASE PowerInitialDmaEnableFailed
  BY <1>23, PowerUndoesAside
    DEF PowerInitialDmaEnableFailed
<1>24. CASE PowerWakingDmaEnableFailed
  BY <1>24, PowerUndoesAside
    DEF PowerWakingDmaEnableFailed
<1>25. CASE PowerInitialConnectInterruptFailed
  BY <1>25, PowerUndoesAside
    DEF PowerInitialConnectInterruptFailed
<1>26. CASE PowerWakingConnectInterruptFailed
  BY <1>26, PowerUndoesAside
    DEF PowerWakingConnectInterruptFailed
<1>27. CASE PowerInitialPowerUpFailedPowerDown
  BY <1>27, PowerUndoesAside
    DEF PowerInitialPowerUpFailedPowerDown
<1>28. CASE PowerUpFailedPowerDown
  BY <1>28, PowerUndoesAside
    DEF PowerUpFailedPowerDown
<1>29. CASE PowerInitialPowerUpFailedDerefParent
  BY <1>29, PowerPassesAside
    DEF PowerInitialPowerUpFailedDerefParent
<1>30. CASE PowerUpFailedDerefParent
  BY <1>30, PowerPassesAside
    DEF PowerUpFailedDerefParent
<1>31. CASE PowerReportPowerUpFailedDerefParent
  BY <1>31, PowerPassesAside
    DEF PowerReportPowerUpFailedDerefParent
<1>32. CASE PowerInitialPowerUpFailed
  BY <1>32, PowerSendPowerUpFailureEventAside
    DEF PowerInitialPowerUpFailed
<1>33. CASE PowerReportPowerUpFailed
  BY <1>33, PowerSendPowerUpFailureEventAside
    DEF PowerReportPowerUpFailed
<1>34. CASE PowerGotoD3Stopped
  BY <1>34, PowerGotoD3StoppedAside
<1>35. CASE PowerFinalPowerDownFailed
  BY <1>35, PowerEntryStays, UnchangedStays
    DEF PowerFinalPowerDownFailed, Elsewhere, environment, Aside
<1>36. CASE PowerGotoDNotZero
  BY <1>36, PowerEntryStays, UnchangedStays
    DEF PowerGotoDNotZero, Elsewhere, environment, Aside
<1>37. CASE PowerNotifyingD0ExitToWakeInterrupts
  BY <1>37, PowerPassesAside
    DEF PowerNotifyingD0ExitToWakeInterrupts
<1>38. CASE PowerGotoDNotZeroIoStopped
  BY <1>38, PowerGotoDNotZeroIoStoppedAside
<1>39. CASE PowerGotoDxFailed
  BY <1>39, PowerPassesAside
    DEF PowerGotoDxFailed
<1>40. CASE PowerReportPowerDownFailed
  BY <1>40, PowerEntryStays, EventStays
    DEF PowerReportPowerDownFailed, Idle!ProcessPowerEvent, environment, Aside
<1>41. CASE PowerPowerFailedPowerDown
  BY <1>41, PowerEntryStays, EventStays
    DEF PowerPowerFailedPowerDown, ImplicitPowerDown,
        PowerSendPowerDownEvents, Idle!ProcessPowerEvent, PowerDownWasDone,
        environment, Aside
<1>42. CASE PowerGotoDxStoppedDisableInterrupt
  BY <1>42, PowerPassesAside
    DEF PowerGotoDxStoppedDisableInterrupt
<1>43. CASE PowerGotoDxStopped
  BY <1>43, PowerEntryStays, EventStays
    DEF PowerGotoDxStopped, ImplicitPowerDown, PowerSendPowerDownEvents,
        Idle!ProcessPowerEvent, PowerDownWasDone, environment, Aside
<1>44. QED
  BY <1>1, <1>2, <1>3, <1>4, <1>5, <1>6, <1>7, <1>8, <1>9, <1>10, <1>11, <1>12,
       <1>13, <1>14, <1>15, <1>16, <1>17, <1>18, <1>19, <1>20, <1>21, <1>22,
       <1>23, <1>24, <1>25, <1>26, <1>27, <1>28, <1>29, <1>30, <1>31, <1>32,
       <1>33, <1>34, <1>35, <1>36, <1>37, <1>38, <1>39, <1>40, <1>41, <1>42,
       <1>43
    DEF PowerNext, PowerEntersState

-----------------------------------------------------------------------------
(***************************************************************************)
(* The power policy machine stands aside                                   *)
(***************************************************************************)

(* kinds of entry functions *)
LEMMA PolicyIdlesAside ==
    ASSUME CountInv, NEW s, NEW next, NEW m \in Idle!IdleMachine, m.count = idle.count,
           NEW posts, PolicyIdles(s, next, m, posts)
    PROVE  Aside
BY PolicyEntryStays, IdleBecomesStays DEF PolicyIdles, PolicyKeeps, Aside, environment

LEMMA PolicyEventAside ==
    ASSUME CountInv, NEW s, NEW next, NEW e, NEW posts,
           PolicyIdles(s, next, Idle!ProcessEventLocked(idle, e), posts)
    PROVE  Aside
<1>1. idle \in Idle!IdleMachine
  BY DEF CountInv
<1>2. QED
  BY <1>1, ProcessEventKeepsCount, PolicyIdlesAside

LEMMA QueriesIdleAside ==
    ASSUME CountInv, NEW s, NEW idleNext, NEW busyNext, QueriesIdle(s, idleNext, busyNext)
    PROVE  Aside
<1>1. Idle!Queried(idle) \in Idle!IdleMachine /\ Idle!Queried(idle).count = idle.count
  BY ClearKeeps DEF CountInv, Idle!Queried
<1>2. QED
  BY <1>1, PolicyIdlesAside DEF QueriesIdle

LEMMA CancelsTimerAside ==
    ASSUME CountInv, NEW s, NEW next, NEW wait, CancelsTimer(s, next, wait)
    PROVE  Aside
BY PolicyEventAside
  DEF CancelsTimer, Idle!DisableTimer

LEMMA PolicyPostsAside ==
    ASSUME CountInv, NEW s, NEW next, NEW posts, PolicyPosts(s, next, posts)
    PROVE  Aside
BY PolicyEntryStays, UnchangedStays
  DEF PolicyPosts, PolicyKeeps, Aside, environment

LEMMA PolicyPassesAside ==
    ASSUME CountInv, NEW s, NEW next, PolicyPasses(s, next)
    PROVE  Aside
BY PolicyPostsAside
  DEF PolicyPasses

LEMMA PolicyRequestsAside ==
    ASSUME CountInv, NEW s, NEW to, NEW failed, PolicyRequests(s, to, failed)
    PROVE  Aside
BY PolicyEntryStays, UnchangedStays
  DEF PolicyRequests, PolicySends, Aside, environment

LEMMA PolicyFailsAside ==
    ASSUME CountInv, NEW s, NEW d, NEW next, NEW posts, PolicyFails(s, d, next, posts)
    PROVE  Aside
BY PolicyEntryStays, UnchangedStays
  DEF PolicyFails, PolicyKeeps, Aside, environment

LEMMA CompletesSystemPowerIrpAside ==
    ASSUME CountInv, NEW s, NEW d, NEW next, NEW posts, CompletesSystemPowerIrp(s, d, next, posts)
    PROVE  Aside
BY PolicyEntryStays, UnchangedStays
  DEF CompletesSystemPowerIrp, Aside

(* a step of the machine *)
LEMMA PolicyAside ==
    ASSUME CountInv, PowerPolicyNext
    PROVE  Aside
<1>1. CASE PowerPolicyProcessEventInner
  BY <1>1, UnchangedStays
     DEF PowerPolicyProcessEventInner, CountInv, Machines, EnterNewState, PnpStays, Aside
<1>2. CASE PowerPolStarting
  BY <1>2, PolicyEventAside
    DEF PowerPolStarting, Idle!Start
<1>3. CASE PowerPolStartingPoweredUp
  BY <1>3, PolicyEntryStays, UnchangedStays
    DEF PowerPolStartingPoweredUp, environment, Aside
<1>4. CASE PowerPolStartingPoweredUpFailed
  BY <1>4, PolicyPostsAside
    DEF PowerPolStartingPoweredUpFailed
<1>5. CASE PowerPolStartingSucceeded
  BY <1>5, PolicyPostsAside
    DEF PowerPolStartingSucceeded
<1>6. CASE PowerPolStartingFailed
  BY <1>6, PolicyEventAside
    DEF PowerPolStartingFailed, Idle!Stop
<1>7. CASE PowerPolStartingDecideS0Wake
  BY <1>7, PolicyPassesAside
    DEF PowerPolStartingDecideS0Wake
<1>8. CASE PowerPolStarted
  BY <1>8, PolicyEventAside
    DEF PowerPolStarted, Idle!DisableTimer
<1>9. CASE PowerPolStartedCancelTimer
  BY <1>9, CancelsTimerAside
    DEF PowerPolStartedCancelTimer
<1>10. CASE PowerPolRestarting
  BY <1>10, PolicyEventAside
    DEF PowerPolRestarting, Idle!Start
<1>11. CASE PowerPolRestartingFailed
  BY <1>11, PolicyEventAside
    DEF PowerPolRestartingFailed, Idle!Stop
<1>12. CASE PowerPolStartedIdleCapable
  BY <1>12, PolicyEventAside
    DEF PowerPolStartedIdleCapable, Idle!EnableTimer
<1>13. CASE PowerPolIdleCapableDeviceIdle
  BY <1>13, PolicyPassesAside
    DEF PowerPolIdleCapableDeviceIdle
<1>14. CASE PowerPolTimerExpiredNoWake
  BY <1>14, PolicyRequestsAside
    DEF PowerPolTimerExpiredNoWake
<1>15. CASE PowerPolTimerExpiredNoWakeCompletePowerDown
  BY <1>15, PolicyPostsAside
    DEF PowerPolTimerExpiredNoWakeCompletePowerDown
<1>16. CASE PowerPolTimerExpiredNoWakePoweredDownDisableIdleTimer
  BY <1>16, PolicyEventAside
    DEF PowerPolTimerExpiredNoWakePoweredDownDisableIdleTimer,
        Idle!DisableTimer
<1>17. CASE PowerPolTimerExpiredNoWakePowerDownNotProcessed
  BY <1>17, PolicyFailsAside
    DEF PowerPolTimerExpiredNoWakePowerDownNotProcessed
<1>18. CASE PowerPolTimerExpiredNoWakeUndoPowerDown
  BY <1>18, PolicyPassesAside
    DEF PowerPolTimerExpiredNoWakeUndoPowerDown
<1>19. CASE PowerPolTimerExpiredNoWakeReturnToActive
  BY <1>19, PolicyPassesAside
    DEF PowerPolTimerExpiredNoWakeReturnToActive
<1>20. CASE PowerPolWaitingUnarmedQueryIdle
  BY <1>20, QueriesIdleAside
    DEF PowerPolWaitingUnarmedQueryIdle
<1>21. CASE PowerPolS0NoWakePowerUp
  BY <1>21, PolicyRequestsAside
    DEF PowerPolS0NoWakePowerUp
<1>22. CASE PowerPolS0NoWakeCompletePowerUp
  BY <1>22, PolicyPostsAside
    DEF PowerPolS0NoWakeCompletePowerUp
<1>23. CASE PowerPolStartedIdleCapableCancelTimerForSleep
  BY <1>23, CancelsTimerAside
    DEF PowerPolStartedIdleCapableCancelTimerForSleep
<1>24. CASE PowerPolStartedIdleCapableTimerCanceledForSleep
  BY <1>24, PolicyPassesAside
    DEF PowerPolStartedIdleCapableTimerCanceledForSleep
<1>25. CASE PowerPolSleeping
  BY <1>25, PolicyPassesAside
    DEF PowerPolSleeping
<1>26. CASE PowerPolSleepingNoWakePowerDown
  BY <1>26, PolicyRequestsAside
    DEF PowerPolSleepingNoWakePowerDown
<1>27. CASE PowerPolSleepingNoWakeCompletePowerDown
  BY <1>27, PolicyPostsAside
    DEF PowerPolSleepingNoWakeCompletePowerDown
<1>28. CASE PowerPolSleepingNoWakeDxRequestFailed
  BY <1>28, CompletesSystemPowerIrpAside
    DEF PowerPolSleepingNoWakeDxRequestFailed
<1>29. CASE PowerPolSleepingPowerDownNotProcessed
  BY <1>29, PolicyFailsAside
    DEF PowerPolSleepingPowerDownNotProcessed
<1>30. CASE PowerPolSystemSleepPowerRequestFailed
  BY <1>30, CompletesSystemPowerIrpAside
    DEF PowerPolSystemSleepPowerRequestFailed
<1>31. CASE PowerPolSystemSleepFromDeviceWaitingUnarmed
  BY <1>31, PolicyPassesAside
    DEF PowerPolSystemSleepFromDeviceWaitingUnarmed
<1>32. CASE PowerPolSystemAsleepNoWake
  BY <1>32, CompletesSystemPowerIrpAside
    DEF PowerPolSystemAsleepNoWake
<1>33. CASE PowerPolSystemWakeDeviceWakeDisabled
  BY <1>33, PolicyPassesAside
    DEF PowerPolSystemWakeDeviceWakeDisabled
<1>34. CASE PowerPolSystemWakeQueryIdle
  BY <1>34, QueriesIdleAside
    DEF PowerPolSystemWakeQueryIdle
<1>35. CASE PowerPolSystemWakeDeviceToD0
  BY <1>35, PolicyRequestsAside
    DEF PowerPolSystemWakeDeviceToD0
<1>36. CASE PowerPolSystemWakeDeviceToD0CompletePowerUp
  BY <1>36, PolicyPostsAside
    DEF PowerPolSystemWakeDeviceToD0CompletePowerUp
<1>37. CASE PowerPolSystemWakeDevicePowerRequestFailed
  BY <1>37, PolicyPassesAside
    DEF PowerPolSystemWakeDevicePowerRequestFailed
<1>38. CASE PowerPolSystemWakeDeviceD0PowerRequestFailed
  BY <1>38, PolicyPassesAside
    DEF PowerPolSystemWakeDeviceD0PowerRequestFailed
<1>39. CASE PowerPolDeviceD0PowerRequestFailed
  BY <1>39, PolicyFailsAside
    DEF PowerPolDeviceD0PowerRequestFailed
<1>40. CASE PowerPolDevicePowerRequestFailed
  BY <1>40, PolicyFailsAside
    DEF PowerPolDevicePowerRequestFailed
<1>41. CASE PowerPolStoppingCancelTimer
  BY <1>41, CancelsTimerAside
    DEF PowerPolStoppingCancelTimer
<1>42. CASE PowerPolStoppingResetDevice
  BY <1>42, PolicyEntryStays, EventStays
    DEF PowerPolStoppingResetDevice, PolicySends, Idle!DisableTimer,
        environment, Aside
<1>43. CASE PowerPolStoppingResetDeviceCompletePowerUp
  BY <1>43, PolicyPostsAside
    DEF PowerPolStoppingResetDeviceCompletePowerUp
<1>44. CASE PowerPolStoppingResetDeviceFailed
  BY <1>44, PolicyFailsAside
    DEF PowerPolStoppingResetDeviceFailed
<1>45. CASE PowerPolStopping
  BY <1>45, PolicyPostsAside
    DEF PowerPolStopping
<1>46. CASE PowerPolStoppingFailed
  BY <1>46, PolicyFailsAside
    DEF PowerPolStoppingFailed
<1>47. CASE PowerPolStoppingSendStatus
  BY <1>47, PolicyEntryStays, EventStays
    DEF PowerPolStoppingSendStatus, PolicyKeeps, Idle!Stop, environment, Aside
<1>48. CASE PowerPolStoppedRemoving
  BY <1>48, PolicyPassesAside
    DEF PowerPolStoppedRemoving
<1>49. CASE PowerPolRemoved
  BY <1>49, PolicyPostsAside
    DEF PowerPolRemoved
<1>50. QED
  BY <1>1, <1>2, <1>3, <1>4, <1>5, <1>6, <1>7, <1>8, <1>9, <1>10, <1>11, <1>12,
       <1>13, <1>14, <1>15, <1>16, <1>17, <1>18, <1>19, <1>20, <1>21, <1>22,
       <1>23, <1>24, <1>25, <1>26, <1>27, <1>28, <1>29, <1>30, <1>31, <1>32,
       <1>33, <1>34, <1>35, <1>36, <1>37, <1>38, <1>39, <1>40, <1>41, <1>42,
       <1>43, <1>44, <1>45, <1>46, <1>47, <1>48, <1>49
    DEF PowerPolicyNext, PowerPolicyEntersState

-----------------------------------------------------------------------------
(***************************************************************************)
(* The PnP machine's reference                                             *)
(***************************************************************************)
Reserved == Awaiting \cup Pending \cup Leaving

(* its table leads into the states that hold a reference only from those   *)
(* that took it, and out of them only into those that give it back         *)
LEMMA PnpRowFacts ==
    \A r \in PnpRows :
        /\ r[1] \in Awaiting => r[3] \in Pending
        /\ r[1] \in Pending => r[3] \in Leaving
        /\ r[1] \notin Awaiting \cup Pending => r[3] \notin Reserved
BY DEF PnpRows, PnpStartRows, PnpStopRows, PnpRemoveRows, Awaiting, Pending, Leaving, Reserved

LEMMA NoEntryFacts == PnpNoEntry \cap Reserved = {}
BY DEF PnpNoEntry, Awaiting, Pending, Leaving, Reserved

LEMMA ReservedFacts ==
    /\ Awaiting \cap Pending = {}
    /\ Awaiting \cap Leaving = {}
    /\ Pending \cap Leaving = {}
BY DEF Awaiting, Pending, Leaving

(* the invariant holds again when the rest of it is as before *)
LEMMA HoldsKeep ==
    ASSUME CountInv, ReferencesStay, users' = users, DOMAIN at' = Machines,
           PnpHolds' <=> PnpHolds
    PROVE  CountInv'
BY DEF CountInv, ReferencesStay, CountIsHolders

LEMMA PnpEventKeeps ==
    ASSUME CountInv, PnpProcessEventInner
    PROVE  CountInv'
<1>1. ReferencesStay /\ users' = users
  BY UnchangedStays DEF PnpProcessEventInner
<1>2. "pnp" \notin entering /\ "pnp" \in DOMAIN at /\ DOMAIN at = Machines
  BY DEF PnpProcessEventInner, Takes, CountInv, Machines
<1>3. ASSUME NEW r \in Row("pnp", PnpRows), EnterNewState("pnp", r[3], PnpNoEntry)
      PROVE  CountInv'
  <2>1. r \in PnpRows /\ r[1] = at["pnp"]
    BY DEF Row
  <2>2. at'["pnp"] = r[3] /\ DOMAIN at' = Machines
    BY <1>2, <1>3 DEF EnterNewState
  <2>3. r[3] \in Leaving => "pnp" \in entering'
    BY <1>3, NoEntryFacts DEF EnterNewState, Reserved
  <2>4. PnpHolds' <=> PnpHolds
    BY <1>2, <2>1, <2>2, <2>3, PnpRowFacts, ReservedFacts DEF PnpHolds, Reserved
  <2>5. QED
    BY <1>1, <2>2, <2>4, HoldsKeep
<1>4. CASE UNCHANGED <<at, entering>>
  BY <1>1, <1>2, <1>4, HoldsKeep DEF PnpHolds
<1>5. QED
  BY <1>3, <1>4 DEF PnpProcessEventInner

(* an entry function of a state that holds none, that goes to none that    *)
(* does: into a query's waiting state it goes by way of its entry function *)
LEMMA PnpMovesKeep ==
    ASSUME CountInv, NEW s, NEW next, NEW posts, PnpEntry(s, next, posts),
           s \notin Reserved, next \notin Pending \cup Leaving,
           PnpKeeps
    PROVE  CountInv'
<1>1. ReferencesStay /\ users' = users
  BY UnchangedStays DEF PnpKeeps
<1>2. at["pnp"] = s /\ DOMAIN at = Machines /\ "pnp" \in Machines
  BY DEF PnpEntry, Entry, CountInv, Machines
<1>3. CASE next = Null
  BY <1>1, <1>2, <1>3, HoldsKeep DEF PnpEntry, Entry, PnpHolds, Reserved
<1>4. CASE next # Null
  <2>1. at'["pnp"] = next /\ DOMAIN at' = Machines
    BY <1>2, <1>4 DEF PnpEntry, Entry, EnterNewState
  <2>2. next \in Awaiting => "pnp" \in entering'
    BY <1>4, NoEntryFacts DEF PnpEntry, Entry, EnterNewState, Reserved
  <2>3. ~PnpHolds /\ ~PnpHolds'
    BY <1>2, <2>1, <2>2 DEF PnpHolds, Reserved
  <2>4. QED
    BY <1>1, <2>1, <2>3, HoldsKeep
<1>5. QED
  BY <1>3, <1>4

(* a query that succeeded: the reference is kept *)
LEMMA PnpPendingKeeps ==
    ASSUME CountInv, NEW s \in Pending, PnpFinishes(s, Null)
    PROVE  CountInv'
<1>1. ReferencesStay /\ users' = users
  BY UnchangedStays DEF PnpFinishes, PnpKeeps
<1>2. at["pnp"] = s /\ at' = at /\ DOMAIN at = Machines
  BY DEF PnpFinishes, PnpEntry, Entry, CountInv
<1>3. QED
  BY <1>1, <1>2, HoldsKeep DEF PnpHolds

(* the reference is taken, or refused *)
LEMMA EnsureDeviceAwakeKeeps ==
    ASSUME CountInv, NEW s \in Awaiting, NEW pending \in Pending, EnsureDeviceAwake(s, pending)
    PROVE  CountInv'
<1> DEFINE m == Idle!IoIncrementForPnp(idle)
<1>1. m \in Idle!IdleMachine /\ m.count = idle.count + 1
  BY IoIncrementForPnpCounts DEF CountInv
<1>2. /\ at["pnp"] = s /\ "pnp" \in entering
      /\ DOMAIN at = Machines /\ "pnp" \in Machines
  BY DEF EnsureDeviceAwake, PnpEntry, Entry, CountInv, Machines
<1>3. ~PnpHolds /\ ~users.pnp
  BY <1>2, ReservedFacts DEF PnpHolds, CountInv
<1>4. CASE Idle!CanReference(idle)
  <2>1. /\ PnpEntry(s, IF m.d0 THEN pending ELSE Null, IdlePosts(m))
        /\ IdleBecomes(m)
        /\ users' = [users EXCEPT !.pnp = TRUE]
    BY <1>4 DEF EnsureDeviceAwake
  <2> HIDE DEF m
  <2>2. /\ idle' \in Idle!IdleMachine /\ idle'.count = idle.count + 1
        /\ waiter' \in Waiters /\ (waiter' = "none" <=> waiter = "none")
    BY <1>1, <2>1, SettledKeeps DEF IdleBecomes, CountInv, Waiters
  <2>3. users' \in Users /\ users'.pnp /\ users'.queue = users.queue
    BY <2>1 DEF CountInv, Users
  <2>4. DOMAIN at' = Machines /\ PnpHolds'
    <3>1. "Null" \notin Pending
      BY DEF Pending
    <3>2. CASE m.d0
      BY <1>2, <2>1, <3>1, <3>2 DEF PnpEntry, Entry, EnterNewState, Null, PnpHolds
    <3>3. CASE ~m.d0
      BY <1>2, <2>1, <3>3 DEF PnpEntry, Entry, PnpHolds
    <3>4. QED
      BY <3>2, <3>3
  <2>5. idle.count \in Nat
    BY DEF CountInv, Idle!IdleMachine
  <2>6. QED
    BY <1>3, <2>2, <2>3, <2>4, <2>5 DEF CountInv, CountIsHolders
<1>5. CASE ~Idle!CanReference(idle)
  <2>1. PnpEntry(s, "Started", <<>>) /\ ReferencesStay /\ users' = users
    BY <1>5, UnchangedStays DEF EnsureDeviceAwake, references
  <2>2. at'["pnp"] = "Started" /\ DOMAIN at' = Machines
    BY <1>2, <2>1 DEF PnpEntry, Entry, EnterNewState, Null
  <2>3. ~PnpHolds'
    BY <2>2 DEF PnpHolds, Awaiting, Pending, Leaving
  <2>4. QED
    BY <1>3, <2>1, <2>2, <2>3, HoldsKeep
<1>6. QED
  BY <1>4, <1>5

(* the reference is given back *)
LEMMA DereferencesKeeps ==
    ASSUME CountInv, NEW s \in Leaving, NEW next, next \notin Reserved, NEW posts,
           Dereferences(s, next, posts)
    PROVE  CountInv'
<1> DEFINE m == Idle!IoDecrement(idle)
<1>1. /\ at["pnp"] = s /\ "pnp" \in entering
      /\ DOMAIN at = Machines /\ "pnp" \in Machines
  BY DEF Dereferences, PnpEntry, Entry, CountInv, Machines
<1>2. users.pnp /\ idle.count \in Nat /\ idle.count > 0
  BY <1>1 DEF PnpHolds, CountInv, CountIsHolders, Idle!IdleMachine
<1>3. m \in Idle!IdleMachine /\ m.count = idle.count - 1
  BY <1>2, IoDecrementCounts DEF CountInv
<1>4. /\ PnpEntry(s, next, posts \o IdlePosts(m))
      /\ IdleBecomes(m)
      /\ users' = [users EXCEPT !.pnp = FALSE]
  BY DEF Dereferences
<1> HIDE DEF m
<1>5. /\ idle' \in Idle!IdleMachine /\ idle'.count = idle.count - 1
      /\ waiter' \in Waiters /\ (waiter' = "none" <=> waiter = "none")
  BY <1>3, <1>4, SettledKeeps DEF IdleBecomes, CountInv, Waiters
<1>6. users' \in Users /\ ~users'.pnp /\ users'.queue = users.queue
  BY <1>4 DEF CountInv, Users
<1>7. DOMAIN at' = Machines /\ ~PnpHolds'
  <2>1. CASE next = Null
    BY <1>1, <1>4, <2>1, ReservedFacts DEF PnpEntry, Entry, PnpHolds
  <2>2. CASE next # Null
    BY <1>1, <1>4, <2>2 DEF PnpEntry, Entry, EnterNewState, PnpHolds, Reserved
  <2>3. QED
    BY <2>1, <2>2
<1>8. QED
  BY <1>2, <1>5, <1>6, <1>7 DEF CountInv, CountIsHolders

(* a step of the machine *)
LEMMA PnpKeepsCount ==
    ASSUME CountInv, PnpNext
    PROVE  CountInv'
<1>1. CASE PnpProcessEventInner
  BY <1>1, PnpEventKeeps
<1>2. CASE PnpEventInitStarting
  BY <1>2, PnpMovesKeep
    DEF PnpEventInitStarting, SendsStartDown, Null, Reserved, Awaiting,
        Pending, Leaving
<1>3. CASE PnpEventHardwareAvailable
  BY <1>3, PnpMovesKeep
    DEF PnpEventHardwareAvailable, PrepareHardware, Null, Reserved, Awaiting,
        Pending, Leaving
<1>4. CASE PnpEventEnableInterfaces
  BY <1>4, PnpMovesKeep
    DEF PnpEventEnableInterfaces, Reserved, Awaiting, Pending, Leaving
<1>5. CASE PnpEventHardwareAvailablePowerPolicyFailed
  BY <1>5, PnpMovesKeep
    DEF PnpEventHardwareAvailablePowerPolicyFailed, Reserved, Awaiting,
        Pending, Leaving
<1>6. CASE PnpEventFailedInit
  BY <1>6, PnpMovesKeep
    DEF PnpEventFailedInit, PnpFinishes, Reserved, Awaiting, Pending, Leaving
<1>7. CASE PnpEventStarted
  BY <1>7, PnpMovesKeep
    DEF PnpEventStarted, PnpFinishes, Null, Reserved, Awaiting, Pending,
        Leaving
<1>8. CASE PnpEventStartedCancelStop
  BY <1>8, PnpMovesKeep
    DEF PnpEventStartedCancelStop, PnpPasses, PnpPosts, Reserved, Awaiting,
        Pending, Leaving
<1>9. CASE PnpEventStartedCancelRemove
  BY <1>9, PnpMovesKeep
    DEF PnpEventStartedCancelRemove, PnpPasses, PnpPosts, Reserved, Awaiting,
        Pending, Leaving
<1>10. CASE PnpEventQueryStopStaticCheck
  BY <1>10, PnpMovesKeep
    DEF PnpEventQueryStopStaticCheck, StaticCheck, Reserved, Awaiting,
        Pending, Leaving
<1>11. CASE PnpEventQueryStopAskDriver
  BY <1>11, PnpMovesKeep
    DEF PnpEventQueryStopAskDriver, StaticCheck, Reserved, Awaiting, Pending,
        Leaving
<1>12. CASE PnpEventQueryRemoveStaticCheck
  BY <1>12, PnpMovesKeep
    DEF PnpEventQueryRemoveStaticCheck, StaticCheck, Reserved, Awaiting,
        Pending, Leaving
<1>13. CASE PnpEventQueryRemoveAskDriver
  BY <1>13, PnpMovesKeep
    DEF PnpEventQueryRemoveAskDriver, StaticCheck, Reserved, Awaiting,
        Pending, Leaving
<1>14. CASE PnpEventQueryStopEnsureDeviceAwake
  BY <1>14, EnsureDeviceAwakeKeeps
    DEF PnpEventQueryStopEnsureDeviceAwake, Awaiting, Pending
<1>15. CASE PnpEventQueryRemoveEnsureDeviceAwake
  BY <1>15, EnsureDeviceAwakeKeeps
    DEF PnpEventQueryRemoveEnsureDeviceAwake, Awaiting, Pending
<1>16. CASE PnpEventQueryStopPending
  BY <1>16, PnpPendingKeeps
    DEF PnpEventQueryStopPending, Pending
<1>17. CASE PnpEventQueryRemovePending
  BY <1>17, PnpPendingKeeps
    DEF PnpEventQueryRemovePending, Pending
<1>18. CASE PnpEventQueryCanceled
  BY <1>18, DereferencesKeeps
    DEF PnpEventQueryCanceled, Reserved, Awaiting, Pending, Leaving
<1>19. CASE PnpEventStartedStopping
  BY <1>19, DereferencesKeeps
    DEF PnpEventStartedStopping, Reserved, Awaiting, Pending, Leaving, Null
<1>20. CASE PnpEventQueriedRemoving
  BY <1>20, DereferencesKeeps
    DEF PnpEventQueriedRemoving, Reserved, Awaiting, Pending, Leaving, Null
<1>21. CASE PnpEventQueriedSurpriseRemove
  BY <1>21, DereferencesKeeps
    DEF PnpEventQueriedSurpriseRemove, Reserved, Awaiting, Pending, Leaving
<1>22. CASE PnpEventStopped
  BY <1>22, PnpMovesKeep
    DEF PnpEventStopped, Null, Reserved, Awaiting, Pending, Leaving
<1>23. CASE PnpEventStoppedWaitForStartCompletion
  BY <1>23, PnpMovesKeep
    DEF PnpEventStoppedWaitForStartCompletion, SendsStartDown, Null, Reserved,
        Awaiting, Pending, Leaving
<1>24. CASE PnpEventStartingFromStopped
  BY <1>24, PnpMovesKeep
    DEF PnpEventStartingFromStopped, PrepareHardware, Reserved, Awaiting,
        Pending, Leaving
<1>25. CASE PnpEventRestarting
  BY <1>25, PnpMovesKeep
    DEF PnpEventRestarting, PnpPosts, Null, Reserved, Awaiting, Pending,
        Leaving
<1>26. CASE PnpEventRemovingDisableInterfaces
  BY <1>26, PnpMovesKeep
    DEF PnpEventRemovingDisableInterfaces, Null, Reserved, Awaiting, Pending,
        Leaving
<1>27. CASE PnpEventSurpriseRemoved
  BY <1>27, PnpMovesKeep
    DEF PnpEventSurpriseRemoved, PnpPasses, PnpPosts, Reserved, Awaiting,
        Pending, Leaving
<1>28. CASE PnpEventSurpriseRemoveIoStarted
  BY <1>28, PnpMovesKeep
    DEF PnpEventSurpriseRemoveIoStarted, PnpPasses, PnpPosts, Reserved,
        Awaiting, Pending, Leaving
<1>29. CASE PnpEventFailedPowerDown
  BY <1>29, PnpMovesKeep
    DEF PnpEventFailedPowerDown, PnpPosts, Null, Reserved, Awaiting, Pending,
        Leaving
<1>30. CASE PnpEventFailedIoStarting
  BY <1>30, PnpMovesKeep
    DEF PnpEventFailedIoStarting, PnpPosts, Null, Reserved, Awaiting, Pending,
        Leaving
<1>31. CASE PnpEventFailedOwnHardware
  BY <1>31, PnpMovesKeep
    DEF PnpEventFailedOwnHardware, Reserved, Awaiting, Pending, Leaving
<1>32. CASE PnpEventFailed
  BY <1>32, PnpMovesKeep
    DEF PnpEventFailed, Null, Reserved, Awaiting, Pending, Leaving
<1>33. CASE PnpEventFailedPowerPolicyRemoved
  BY <1>33, PnpMovesKeep
    DEF PnpEventFailedPowerPolicyRemoved, PnpFinishes, Reserved, Awaiting,
        Pending, Leaving
<1>34. CASE PnpEventFailedSurpriseRemoved
  BY <1>34, PnpMovesKeep
    DEF PnpEventFailedSurpriseRemoved, PnpFinishes, Reserved, Awaiting,
        Pending, Leaving
<1>35. CASE PnpEventFailedStarted
  BY <1>35, PnpMovesKeep
    DEF PnpEventFailedStarted, Reserved, Awaiting, Pending, Leaving
<1>36. CASE PnpEventRemoved
  BY <1>36, PnpMovesKeep
    DEF PnpEventRemoved, PnpPasses, PnpPosts, Reserved, Awaiting, Pending,
        Leaving
<1>37. CASE PnpEventRemovedChildrenRemoved
  BY <1>37, PnpMovesKeep
    DEF PnpEventRemovedChildrenRemoved, PnpPasses, PnpPosts, Reserved,
        Awaiting, Pending, Leaving
<1>38. CASE PnpEventFdoRemoved
  BY <1>38, PnpMovesKeep
    DEF PnpEventFdoRemoved, Reserved, Awaiting, Pending, Leaving
<1>39. CASE PnpEventFinal
  BY <1>39, PnpMovesKeep
    DEF PnpEventFinal, Null, Reserved, Awaiting, Pending, Leaving
<1>40. QED
  BY <1>1, <1>2, <1>3, <1>4, <1>5, <1>6, <1>7, <1>8, <1>9, <1>10, <1>11, <1>12,
       <1>13, <1>14, <1>15, <1>16, <1>17, <1>18, <1>19, <1>20, <1>21, <1>22,
       <1>23, <1>24, <1>25, <1>26, <1>27, <1>28, <1>29, <1>30, <1>31, <1>32,
       <1>33, <1>34, <1>35, <1>36, <1>37, <1>38, <1>39
    DEF PnpNext, PnpEntersState

-----------------------------------------------------------------------------
(***************************************************************************)
(* The system and the users                                                *)
(***************************************************************************)

(* events posted from outside *)
LEMMA PostsStay ==
    ASSUME CountInv, NEW posts, Posts(posts)
    PROVE  PnpStays
BY DEF CountInv, Posts, PnpStays

(* IRPs, the managers and the timer *)
LEMMA SystemAside ==
    ASSUME CountInv, SystemNext
    PROVE  Aside
<1>1. CASE DispatchDeviceSetPower
  BY <1>1, PostsStay, UnchangedStays DEF DispatchDeviceSetPower, Aside, environment
<1>2. CASE DevicePowerIrpCompletes
  BY <1>2, PostsStay, UnchangedStays DEF DevicePowerIrpCompletes, Aside, environment
<1>3. CASE SystemSleeps
  BY <1>3, PostsStay, UnchangedStays DEF SystemSleeps, Aside
<1>4. CASE SystemWakes
  BY <1>4, PostsStay, UnchangedStays DEF SystemWakes, Aside
<1>5. ASSUME NEW irp, ManagerSends(irp)
      PROVE  Aside
  BY <1>5, PostsStay, UnchangedStays DEF ManagerSends, Aside
<1>6. CASE StartDeviceCompletes
  BY <1>6, PostsStay, UnchangedStays DEF StartDeviceCompletes, Aside
<1>7. CASE TimerDue
  <2>1. idle' \in Idle!IdleMachine /\ idle'.count = idle.count
    BY <1>7, TimerKeeps DEF TimerDue, Idle!TimerFires, CountInv
  <2>2. QED
    BY <1>7, <2>1
       DEF TimerDue, Aside, ReferencesStay, PnpStays, machines, environment, CountInv
<1>8. CASE PowerTimeoutDpcRoutine
  <2>1. IdleBecomes(Idle!PowerTimeoutDpcRoutine(idle))
    BY <1>8 DEF PowerTimeoutDpcRoutine, IdleOperation
  <2>2. ReferencesStay
    BY <2>1, PowerTimeoutDpcRoutineKeeps, IdleBecomesStays DEF CountInv
  <2>3. QED
    BY <1>8, <2>2, PostsStay DEF PowerTimeoutDpcRoutine, IdleOperation, Aside, environment
<1>9. QED
  BY <1>1, <1>2, <1>3, <1>4, <1>5, <1>6, <1>7, <1>8 DEF SystemNext

(* a user's own references: it and the count change together *)
LEMMA HoldersKeep ==
    ASSUME CountInv, PnpStays, idle' \in Idle!IdleMachine, waiter' \in Waiters,
           users' \in Users, users'.pnp = users.pnp, CountIsHolders'
    PROVE  CountInv'
BY DEF CountInv, PnpStays, PnpHolds

LEMMA SetTransitionFromEmptyKeeps ==
    ASSUME CountInv, SetTransitionFromEmpty
    PROVE  CountInv'
<1> DEFINE m == Idle!IoIncrement(idle)
<1>1. CASE IdleOperation(m) /\ users' = [users EXCEPT !.queue = "referenced"]
  <2>1. m \in Idle!IdleMachine /\ m.count = idle.count + 1
    BY IoIncrementCounts DEF CountInv
  <2>2. IdleBecomes(m) /\ PnpStays
    BY <1>1, PostsStay DEF IdleOperation
  <2> HIDE DEF m
  <2>3. /\ idle' \in Idle!IdleMachine /\ idle'.count = idle.count + 1
        /\ waiter' \in Waiters /\ (waiter' = "none" <=> waiter = "none")
    BY <2>1, <2>2, SettledKeeps DEF IdleBecomes, CountInv, Waiters
  <2>4. users' \in Users /\ users'.pnp = users.pnp /\ users'.queue = "referenced"
    BY <1>1 DEF CountInv, Users
  <2>5. users.queue # "referenced" /\ idle.count \in Nat
    BY DEF SetTransitionFromEmpty, CountInv, Idle!IdleMachine
  <2>6. CountIsHolders'
    BY <2>3, <2>4, <2>5 DEF CountInv, CountIsHolders
  <2>7. QED
    BY <2>2, <2>3, <2>4, <2>6, HoldersKeep
<1>2. CASE /\ users.queue = "empty" /\ users' = [users EXCEPT !.queue = "unreferenced"]
           /\ UNCHANGED <<machines, references>>
  <2>1. users' \in Users /\ users'.pnp = users.pnp /\ users'.queue = "unreferenced"
    BY <1>2 DEF CountInv, Users
  <2>2. PnpStays /\ UNCHANGED <<idle, waiter>>
    BY <1>2 DEF PnpStays, machines, references, CountInv
  <2>3. QED
    BY <1>2, <2>1, <2>2, HoldersKeep DEF CountInv, CountIsHolders
<1>3. QED
  BY <1>1, <1>2 DEF SetTransitionFromEmpty

LEMMA QueueIsEmptyKeeps ==
    ASSUME CountInv, QueueIsEmpty
    PROVE  CountInv'
<1> DEFINE m == Idle!IoDecrement(idle)
<1>1. users' \in Users /\ users'.pnp = users.pnp /\ users'.queue = "empty"
  BY DEF QueueIsEmpty, CountInv, Users
<1>2. idle.count \in Nat
  BY DEF CountInv, Idle!IdleMachine
<1>3. CASE users.queue = "referenced" /\ IdleOperation(m)
  <2>1. idle.count > 0
    BY <1>2, <1>3 DEF CountInv, CountIsHolders
  <2>2. m \in Idle!IdleMachine /\ m.count = idle.count - 1
    BY <2>1, IoDecrementCounts DEF CountInv
  <2>3. IdleBecomes(m) /\ PnpStays
    BY <1>3, PostsStay DEF IdleOperation
  <2> HIDE DEF m
  <2>4. /\ idle' \in Idle!IdleMachine /\ idle'.count = idle.count - 1
        /\ waiter' \in Waiters /\ (waiter' = "none" <=> waiter = "none")
    BY <2>2, <2>3, SettledKeeps DEF IdleBecomes, CountInv, Waiters
  <2>5. CountIsHolders'
    BY <1>1, <1>2, <1>3, <2>4 DEF CountInv, CountIsHolders
  <2>6. QED
    BY <1>1, <2>3, <2>4, <2>5, HoldersKeep
<1>4. CASE users.queue = "unreferenced" /\ UNCHANGED <<machines, references>>
  <2>1. PnpStays /\ UNCHANGED <<idle, waiter>>
    BY <1>4 DEF PnpStays, machines, references, CountInv
  <2>2. QED
    BY <1>1, <1>4, <2>1, HoldersKeep DEF CountInv, CountIsHolders
<1>5. QED
  BY <1>3, <1>4 DEF QueueIsEmpty

(* the thread takes its reference, *)
LEMMA ThreadReferencesKeeps ==
    ASSUME CountInv, ThreadReferences
    PROVE  CountInv'
<1> DEFINE m == Idle!IoIncrement(idle)
<1>1. m \in Idle!IdleMachine /\ m.count = idle.count + 1
  BY IoIncrementCounts DEF CountInv
<1>2. /\ idle' = Idle!Settled(m) /\ PnpStays /\ users' = users
      /\ waiter = "none" /\ waiter' \in {"held", "pending"}
  BY PostsStay DEF ThreadReferences, ThreadLeaves
<1> HIDE DEF m
<1>3. idle' \in Idle!IdleMachine /\ idle'.count = idle.count + 1
  BY <1>1, <1>2, SettledKeeps
<1>4. idle.count \in Nat
  BY DEF CountInv, Idle!IdleMachine
<1>5. CountIsHolders'
  BY <1>2, <1>3, <1>4 DEF CountInv, CountIsHolders
<1>6. QED
  BY <1>2, <1>3, <1>5, HoldersKeep DEF CountInv, Waiters

(* and gives it back                                                       *)
LEMMA ThreadGivesBackKeeps ==
    ASSUME CountInv, NEW from \in Waiters \ {"none"}, ThreadLeaves(from, "none"),
           idle' = Idle!Settled(Idle!IoDecrement(idle)), PnpStays, users' = users
    PROVE  CountInv'
<1> DEFINE m == Idle!IoDecrement(idle)
<1>1. idle.count \in Nat /\ idle.count > 0 /\ waiter # "none" /\ waiter' = "none"
  BY DEF ThreadLeaves, CountInv, CountIsHolders, Idle!IdleMachine
<1>2. m \in Idle!IdleMachine /\ m.count = idle.count - 1
  BY <1>1, IoDecrementCounts DEF CountInv
<1> HIDE DEF m
<1>3. idle' \in Idle!IdleMachine /\ idle'.count = idle.count - 1
  BY <1>2, SettledKeeps DEF m
<1>4. CountIsHolders'
  BY <1>1, <1>3 DEF CountInv, CountIsHolders
<1>5. QED
  BY <1>1, <1>3, <1>4, HoldersKeep DEF CountInv, Waiters

LEMMA ThreadWaitsForD0Keeps ==
    ASSUME CountInv, ThreadWaitsForD0
    PROVE  CountInv'
<1>1. /\ UNCHANGED <<machines, idle, users>> /\ waiter = "pending"
      /\ waiter' \in {"released", "waiting"}
  BY DEF ThreadWaitsForD0, ThreadLeaves
<1>2. PnpStays
  BY <1>1 DEF PnpStays, machines, CountInv
<1>3. QED
  BY <1>1, <1>2, HoldersKeep DEF CountInv, CountIsHolders, Waiters

LEMMA ThreadGoesOnKeeps ==
    ASSUME CountInv, ThreadGoesOn
    PROVE  CountInv'
<1>1. CASE ThreadLeaves("released", "held") /\ UNCHANGED <<machines, idle>>
  <2>1. PnpStays /\ users' = users
    BY <1>1 DEF ThreadGoesOn, PnpStays, machines, CountInv
  <2>2. QED
    BY <1>1, <2>1, HoldersKeep DEF ThreadLeaves, CountInv, CountIsHolders, Waiters
<1>2. CASE /\ ThreadLeaves("released", "none")
           /\ idle' = Idle!Settled(Idle!IoDecrement(idle))
           /\ Posts(IdlePosts(Idle!IoDecrement(idle)))
  <2>1. PnpStays /\ users' = users /\ "released" \in Waiters \ {"none"}
    BY <1>2, PostsStay DEF ThreadGoesOn, Waiters
  <2>2. QED
    BY <1>2, <2>1, ThreadGivesBackKeeps
<1>3. QED
  BY <1>1, <1>2 DEF ThreadGoesOn

LEMMA ThreadDereferencesKeeps ==
    ASSUME CountInv, ThreadDereferences
    PROVE  CountInv'
<1>1. PnpStays /\ users' = users /\ "held" \in Waiters \ {"none"}
  BY PostsStay DEF ThreadDereferences, Waiters
<1>2. QED
  BY <1>1, ThreadGivesBackKeeps DEF ThreadDereferences

LEMMA PowerPolicySetS0IdleStateKeeps ==
    ASSUME CountInv, PowerPolicySetS0IdleState
    PROVE  CountInv'
<1>1. PnpStays /\ UNCHANGED <<idle, waiter>>
  BY PostsStay DEF PowerPolicySetS0IdleState, references
<1>2. users' \in Users /\ users'.pnp = users.pnp /\ users'.queue = users.queue
  BY SettingsAssumption DEF PowerPolicySetS0IdleState, CountInv, Users
<1>3. QED
  BY <1>1, <1>2, HoldersKeep DEF CountInv, CountIsHolders

-----------------------------------------------------------------------------
(***************************************************************************)
(* The composed device                                                     *)
(***************************************************************************)

(* before anything *)
LEMMA CountInit == Init => CountInv
<1> SUFFICES ASSUME Init
             PROVE  CountInv
  OBVIOUS
<1>1. idle \in Idle!IdleMachine /\ idle.count = 0
  BY DEF Init, Idle!InitialIdle, Idle!IdleMachine, Idle!IdleStates
<1>2. users \in Users /\ ~users.pnp /\ users.queue = "empty"
  BY DEF Init, Users
<1>3. DOMAIN at = Machines /\ at["pnp"] = "Init" /\ waiter = "none"
  BY DEF Init, Machines
<1>4. ~PnpHolds
  BY <1>3 DEF PnpHolds, Awaiting, Pending, Leaving
<1>5. QED
  BY <1>1, <1>2, <1>3, <1>4 DEF CountInv, CountIsHolders, Waiters

(* every step *)
LEMMA CountStep == CountInv /\ [Next]_vars => CountInv'
<1> SUFFICES ASSUME CountInv, [Next]_vars
             PROVE  CountInv'
  OBVIOUS
<1>1. CASE PowerNext
  BY <1>1, PowerAside, AsideKeeps
<1>2. CASE PowerPolicyNext
  BY <1>2, PolicyAside, AsideKeeps
<1>3. CASE PnpNext
  BY <1>3, PnpKeepsCount
<1>4. CASE SystemNext
  BY <1>4, SystemAside, AsideKeeps
<1>5. CASE UserNext
  BY <1>5, SetTransitionFromEmptyKeeps, QueueIsEmptyKeeps, ThreadReferencesKeeps,
     ThreadWaitsForD0Keeps, ThreadGoesOnKeeps, ThreadDereferencesKeeps,
     PowerPolicySetS0IdleStateKeeps
     DEF UserNext
<1>6. CASE UNCHANGED vars
  BY <1>6, HoldersKeep DEF vars, CountInv, CountIsHolders, PnpStays
<1>7. QED
  BY <1>1, <1>2, <1>3, <1>4, <1>5, <1>6 DEF Next

(* Whatever the three machines do, and however often requests fail, the    *)
(* system sleeps and the PnP manager comes and goes, m_IoCount is the      *)
(* number of those that hold or wait for a power reference: none is given  *)
(* back twice or forgotten (PnpPowerReferenceDuringQueryPnp and            *)
(* PnpPowerDereferenceSelf, SetTransitionFromEmpty, PowerReferenceWorker). *)
THEOREM ReferencesCounted == Spec => []CountIsHolders
<1>1. CountInv => CountIsHolders
  BY DEF CountInv
<1>2. QED
  BY <1>1, CountInit, CountStep, PTL DEF Spec

-----------------------------------------------------------------------------
(***************************************************************************)
(* The stages that are up, and the types of what the machines share        *)
(***************************************************************************)
Device == [up : SUBSET Stages, smio : SelfManaged!SelfManagedIoStates,
           misused : SUBSET {"stage", "smio"}, ioCallbackFailure : BOOLEAN, powerDownFailure : BOOLEAN,
           powerFailed : BOOLEAN, internalFailure : BOOLEAN]

Irps == [device : Seq([to : {"D0", "Dx"}, stage : {"sent", "pending", "released"}]),
         up : BOOLEAN, down : BOOLEAN]

Os == [sys : {"S0", "sleeping", "Sx"}, manager : DOMAIN ManagerMay,
       pnp : DOMAIN Succeeded \cup {"none"}, ok : BOOLEAN, below : BOOLEAN]

(* The stages up before the entry function of a state of the power machine *)
(* runs, and while the machine waits in it.                                *)
Entering(s) ==
  CASE s \in {"NotifyingD0EntryToWakeInterrupts", "D0StartingConnectInterrupt",
              "WakingConnectInterrupt", "InitialPowerUpFailedPowerDown", "UpFailedPowerDown"} ->
         {"D0Entry"}
    [] s \in {"InitialConnectInterruptFailed", "WakingConnectInterruptFailed"} ->
         {"D0Entry", "Resources"}
    [] s \in {"D0StartingDmaEnable", "WakingDmaEnable"} ->
         {"D0Entry", "Resources", "PostInterrupts"}
    [] s \in {"D0StartingPostHardwareEnabled", "WakingPostHardwareEnabled",
              "InitialDmaEnableFailed", "WakingDmaEnableFailed"} ->
         {"D0Entry", "Resources", "PostInterrupts", "Dma"}
    [] s \in {"D0StartingStartSelfManagedIo", "StartSelfManagedIo",
              "InitialPostHardwareEnabledFailed", "WakingPostHardwareEnabledFailed",
              "NotifyingD0ExitToWakeInterrupts", "GotoDxIoStopped"} ->
         InD0 \ {"Io"}
    [] s \in {"DecideD0State", "D0", "InitialSelfManagedIoFailedStarted",
              "InitialSelfManagedIoFailed", "StartSelfManagedIoFailedStarted",
              "StartSelfManagedIoFailed", "GotoD3Stopped", "GotoDx"} ->
         InD0
    [] OTHER -> {}

Waiting(s) ==
  CASE s = "D0" -> InD0
    [] s \in {"GotoDx", "WakingPostHardwareEnabled"} -> InD0 \ {"Io"}
    [] OTHER -> {}

PowerStages == IF "power" \in entering THEN Entering(at["power"]) ELSE Waiting(at["power"])

(* The same of the hardware and the PnP machine.                           *)
HwWaiting ==
  {"HardwareAvailable", "Started", "QueryStopEnsureDeviceAwake", "QueryRemoveEnsureDeviceAwake",
   "QueryStopPending", "QueryRemovePending", "StartedStopping", "QueriedRemoving", "Restarting",
   "FailedPowerDown", "FailedIoStarting"}

HwEntering ==
  (HwWaiting \ {"HardwareAvailable"}) \cup
  {"EnableInterfaces", "HardwareAvailablePowerPolicyFailed", "StartedCancelStop",
   "StartedCancelRemove", "QueryStopStaticCheck", "QueryStopAskDriver",
   "QueryRemoveStaticCheck", "QueryRemoveAskDriver", "QueryCanceled", "QueriedSurpriseRemove",
   "Stopped", "RemovingDisableInterfaces", "SurpriseRemoveIoStarted", "FailedOwnHardware"}

Prepared == IF "pnp" \in entering THEN at["pnp"] \in HwEntering ELSE at["pnp"] \in HwWaiting

(* Where self managed I/O may run: from its start to its suspension        *)
RunningEntering == {"DecideD0State", "D0", "GotoD3Stopped", "GotoDx"}

Running == IF "power" \in entering THEN at["power"] \in RunningEntering ELSE at["power"] = "D0"

StageInv ==
  /\ device \in Device /\ irps \in Irps /\ os \in Os /\ entering \subseteq Machines
  /\ device.up \cap InD0 = PowerStages
  /\ "Hardware" \in device.up <=> Prepared
  /\ "stage" \notin device.misused
  /\ device.smio = "Started" => Running

After(s, next) ==
    IF next = Null THEN Waiting(s)
    ELSE IF next \in PowerNoEntry THEN Waiting(next) ELSE Entering(next)

(* the entry functions after which self managed I/O runs *)
RunsAfter == {<<"D0StartingStartSelfManagedIo", "DecideD0State">>, <<"StartSelfManagedIo", "D0">>,
              <<"DecideD0State", "D0">>, <<"D0", Null>>}

LEMMA StageNames ==
    /\ InD0 = {"D0Entry", "Resources", "PostInterrupts", "Dma", "PostHardware", "Io"}
    /\ Stages = InD0 \cup {"Hardware"}
<1>1. DOMAIN Ladder = 1..7
  BY DEF Ladder
<1>2. Stages = {Ladder[1], Ladder[2], Ladder[3], Ladder[4], Ladder[5], Ladder[6], Ladder[7]}
  <2>1. \A i \in 1..7 : i = 1 \/ i = 2 \/ i = 3 \/ i = 4 \/ i = 5 \/ i = 6 \/ i = 7
    OBVIOUS
  <2>2. 1 \in 1..7 /\ 2 \in 1..7 /\ 3 \in 1..7 /\ 4 \in 1..7 /\ 5 \in 1..7 /\ 6 \in 1..7 /\ 7 \in 1..7
    OBVIOUS
  <2>3. QED
    BY <1>1, <2>1, <2>2 DEF Stages
<1>3. Stages = {"Hardware", "D0Entry", "Resources", "PostInterrupts", "Dma", "PostHardware", "Io"}
  BY <1>2 DEF Ladder
<1>4. QED
  BY <1>3 DEF InD0

(* what an entry function may do to the device *)
LEMMA Begins ==
    ASSUME NEW d \in Device, NEW s \in SUBSET Stages, s \cap d.up = {}
    PROVE  /\ Begin(d, s) \in Device /\ Begin(d, s).up = d.up \cup s
           /\ Begin(d, s).misused = d.misused /\ Begin(d, s).smio = d.smio
BY DEF Begin, Device

LEMMA Ends ==
    ASSUME NEW d \in Device, NEW s \in SUBSET Stages, s \subseteq d.up
    PROVE  /\ End(d, s) \in Device /\ End(d, s).up = d.up \ s
           /\ End(d, s).misused = d.misused /\ End(d, s).smio = d.smio
BY DEF End, Device

LEMMA SelfManages ==
    ASSUME NEW d \in Device, NEW e, NEW o \in SelfManaged!ProcessEvent(d.smio, e)
    PROVE  /\ SelfManagedBecomes(d, e, o) \in Device
           /\ SelfManagedBecomes(d, e, o).up = d.up
           /\ "stage" \in SelfManagedBecomes(d, e, o).misused <=> "stage" \in d.misused
           /\ SelfManagedBecomes(d, e, o).smio = o.state
           /\ e \in {"Flush", "Cleanup"} /\ o.state = "Started" => d.smio = "Started"
           /\ e = "Suspend" => o.state # "Started"
           /\ e = "Start" /\ ~o.ok => o.state # "Started"
<1>1. d.smio \in SelfManaged!SelfManagedIoStates
  BY DEF Device
<1>2. o.state \in SelfManaged!SelfManagedIoStates
  BY <1>1 DEF SelfManaged!ProcessEvent, SelfManaged!Init, SelfManaged!Restarting, SelfManaged!Suspending,
              SelfManaged!Succeeds, SelfManaged!Outcome, SelfManaged!SelfManagedIoStates
<1>3. /\ e \in {"Flush", "Cleanup"} /\ o.state = "Started" => d.smio = "Started"
      /\ e = "Suspend" => o.state # "Started"
      /\ e = "Start" /\ ~o.ok => o.state # "Started"
  BY <1>1 DEF SelfManaged!ProcessEvent, SelfManaged!Init, SelfManaged!Restarting, SelfManaged!Suspending,
              SelfManaged!Succeeds, SelfManaged!Outcome, SelfManaged!SelfManagedIoStates
<1>4. QED
  BY <1>2, <1>3 DEF SelfManagedBecomes, Device

LEMMA Flags ==
    ASSUME NEW d \in Device, NEW b \in BOOLEAN
    PROVE  /\ [d EXCEPT !.ioCallbackFailure = b] \in Device
           /\ [d EXCEPT !.powerDownFailure = b] \in Device
           /\ [d EXCEPT !.powerFailed = b] \in Device
           /\ [d EXCEPT !.internalFailure = b] \in Device
           /\ \A n \in {[d EXCEPT !.ioCallbackFailure = b], [d EXCEPT !.powerDownFailure = b],
                        [d EXCEPT !.powerFailed = b], [d EXCEPT !.internalFailure = b]} :
                n.up = d.up /\ n.misused = d.misused /\ n.smio = d.smio
BY DEF Device

LEMMA SeqExcept ==
    ASSUME NEW S, NEW s \in Seq(S), NEW i \in DOMAIN s, NEW x \in S
    PROVE  [s EXCEPT ![i] = x] \in Seq(S)
<1>1. PICK n \in Nat : s \in [1..n -> S]
  <2>1. Len(s) \in Nat /\ DOMAIN s = 1..Len(s)
    OBVIOUS
  <2>2. \A j \in 1..Len(s) : s[j] \in S
    OBVIOUS
  <2>3. s \in [1..Len(s) -> S]
    BY <2>1, <2>2
  <2>4. QED
    BY <2>1, <2>3
<1>2. [s EXCEPT ![i] = x] \in [1..n -> S]
  BY <1>1
<1>3. QED
  BY <1>1, <1>2

LEMMA Releases ==
    ASSUME NEW r \in Irps
    PROVE  Release(r) \in Irps
<1> DEFINE I == [to : {"D0", "Dx"}, stage : {"sent", "pending", "released"}]
<1>1. CASE r.device # <<>> /\ Head(r.device).stage = "pending"
  <2>1. r.device \in Seq(I) /\ 1 \in DOMAIN r.device
    BY <1>1 DEF Irps
  <2>2. [r.device[1] EXCEPT !.stage = "released"] \in I
    <3>1. r.device[1] \in I
      <4> HIDE DEF I
      <4>1. QED
        BY <2>1
    <3>2. QED
      BY <3>1
  <2>3. [r.device EXCEPT ![1] = [r.device[1] EXCEPT !.stage = "released"]] \in Seq(I)
    <3> HIDE DEF I
    <3>1. QED
      BY <2>1, <2>2, SeqExcept
  <2>4. Release(r) = [r EXCEPT !.device = [r.device EXCEPT ![1] = [r.device[1] EXCEPT !.stage = "released"]]]
    BY <1>1, <2>1 DEF Release, Irps
  <2>5. QED
    BY <2>3, <2>4 DEF Irps
<1>2. QED
  BY <1>1 DEF Release

(* An entry function of the power machine that ends some stages and starts *)
(* some, as the state it goes to expects                                   *)
LEMMA PowerTurns ==
    ASSUME CountInv, StageInv, NEW s, NEW next, NEW posts, PowerEntry(s, next, posts),
           NEW begun \in SUBSET InD0, NEW ended \in SUBSET InD0,
           (Entering(s) \ ended) \cup begun = After(s, next),
           device' \in Device, device'.up = (device.up \ ended) \cup begun,
           "stage" \notin device'.misused, irps' \in Irps, os' = os,
           device'.smio = "Started" => <<s, next>> \in RunsAfter
    PROVE  StageInv'
<1>1. /\ "power" \in entering /\ at["power"] = s /\ PnpStays /\ DOMAIN at = Machines
  BY PowerEntryStays DEF PowerEntry, Entry, CountInv
<1>2. PowerStages' = After(s, next) /\ entering' \subseteq Machines
  BY <1>1 DEF PowerEntry, Entry, EnterNewState, PowerStages, After, StageInv, Machines
<1>3. device'.up \cap InD0 = After(s, next) /\ ("Hardware" \in device'.up <=> "Hardware" \in device.up)
  BY <1>1, StageNames DEF StageInv, PowerStages
<1>4. Prepared' <=> Prepared
  BY <1>1 DEF PnpStays, Prepared
<1>5. ASSUME <<s, next>> \in RunsAfter
      PROVE  Running'
  <2>1. \/ next \in {"DecideD0State", "D0"} /\ next \notin PowerNoEntry /\ next # Null
        \/ s = "D0" /\ next = Null
    BY <1>5 DEF RunsAfter, PowerNoEntry, Null
  <2>2. QED
    BY <1>1, <2>1 DEF PowerEntry, Entry, EnterNewState, Running, RunningEntering, Machines
<1>6. QED
  BY <1>2, <1>3, <1>4, <1>5 DEF StageInv

(* self managed I/O does not run but in those states *)
LEMMA RunsThere ==
    ASSUME StageInv, NEW s, NEW next, NEW posts, PowerEntry(s, next, posts), s \notin RunningEntering
    PROVE  device.smio # "Started"
BY DEF StageInv, PowerEntry, Entry, Running

LEMMA PowerStaysUp ==
    ASSUME CountInv, StageInv, NEW s, NEW next, NEW posts, PowerEntry(s, next, posts),
           Entering(s) = After(s, next),
           device' \in Device, device'.up = device.up,
           "stage" \notin device'.misused, irps' \in Irps, os' = os,
           device'.smio = "Started" => <<s, next>> \in RunsAfter
    PROVE  StageInv'
<1>1. /\ {} \in SUBSET InD0 /\ (Entering(s) \ {}) \cup {} = After(s, next)
      /\ device'.up = (device.up \ {}) \cup {}
  OBVIOUS
<1>2. QED
  BY <1>1, PowerTurns

LEMMA PowerBegins ==
    ASSUME CountInv, StageInv, NEW s, NEW next, NEW posts, PowerEntry(s, next, posts),
           NEW stages \in SUBSET InD0, Entering(s) \cap stages = {},
           Entering(s) \cup stages = After(s, next), s \notin RunningEntering,
           device' = Begin(device, stages), irps' \in Irps, os' = os
    PROVE  StageInv'
<1>1. device \in Device /\ device.up \cap InD0 = Entering(s) /\ "stage" \notin device.misused
  BY DEF PowerEntry, Entry, StageInv, PowerStages
<1>2. stages \cap device.up = {} /\ stages \in SUBSET Stages
  BY <1>1, StageNames
<1>3. /\ device' \in Device /\ device'.up = device.up \cup stages /\ "stage" \notin device'.misused
      /\ device'.smio # "Started"
  BY <1>1, <1>2, Begins, RunsThere
<1>4. /\ {} \in SUBSET InD0 /\ (Entering(s) \ {}) \cup stages = After(s, next)
      /\ device'.up = (device.up \ {}) \cup stages
  BY <1>3
<1>5. QED
  BY <1>3, <1>4, PowerTurns

LEMMA PowerEnds ==
    ASSUME CountInv, StageInv, NEW s, NEW next, NEW posts, PowerEntry(s, next, posts),
           NEW d \in Device, d.up = device.up, "stage" \notin d.misused,
           NEW stages \in SUBSET InD0, stages \subseteq Entering(s),
           Entering(s) \ stages = After(s, next),
           device' \in Device, device'.up = End(d, stages).up,
           device'.misused = End(d, stages).misused, irps' \in Irps, os' = os,
           device'.smio # "Started"
    PROVE  StageInv'
<1>1. device.up \cap InD0 = Entering(s)
  BY DEF PowerEntry, Entry, StageInv, PowerStages
<1>2. stages \subseteq d.up /\ stages \in SUBSET Stages
  BY <1>1, StageNames
<1>3. device'.up = device.up \ stages /\ "stage" \notin device'.misused
  BY <1>2, Ends
<1>4. /\ {} \in SUBSET InD0 /\ (Entering(s) \ stages) \cup {} = After(s, next)
      /\ device'.up = (device.up \ stages) \cup {}
  BY <1>3
<1>5. QED
  BY <1>3, <1>4, PowerTurns

(* kinds of entry functions *)
LEMMA PowerPassesStages ==
    ASSUME CountInv, StageInv, NEW s, NEW next, PowerPasses(s, next), Entering(s) = After(s, next),
           s \in RunningEntering => <<s, next>> \in RunsAfter
    PROVE  StageInv'
BY PowerStaysUp, RunsThere DEF PowerPasses, Elsewhere, environment, StageInv

LEMMA CallD0EntryStages ==
    ASSUME CountInv, StageInv, NEW s, NEW ok, NEW undo, NEW failed, CallD0Entry(s, ok, undo, failed),
           Entering(s) = {}, After(s, ok) = {"D0Entry"}, After(s, undo) = {"D0Entry"},
           After(s, failed) = {}, s \notin RunningEntering
    PROVE  StageInv'
<1>1. {"D0Entry"} \in SUBSET InD0 /\ irps' = irps /\ os' = os /\ irps \in Irps
  BY StageNames DEF CallD0Entry, Elsewhere, environment, StageInv
<1>2. CASE PowerEntry(s, ok, <<>>) /\ device' = Begin(device, {"D0Entry"})
  BY <1>1, <1>2, PowerBegins
<1>3. CASE PowerEntry(s, undo, <<>>) /\ device' = Begin(device, {"D0Entry"})
  BY <1>1, <1>3, PowerBegins
<1>4. CASE PowerEntry(s, failed, <<>>) /\ UNCHANGED device
  BY <1>1, <1>4, PowerStaysUp, RunsThere DEF StageInv
<1>5. QED
  BY <1>2, <1>3, <1>4 DEF CallD0Entry

LEMMA ConnectInterruptStages ==
    ASSUME CountInv, StageInv, NEW s, NEW ok, NEW failed, ConnectInterrupt(s, ok, failed),
           Entering(s) = {"D0Entry"}, After(s, ok) = {"D0Entry", "Resources", "PostInterrupts"},
           After(s, failed) = {"D0Entry", "Resources"}, s \notin RunningEntering
    PROVE  StageInv'
<1>1. /\ {"Resources", "PostInterrupts"} \in SUBSET InD0 /\ {"Resources"} \in SUBSET InD0
      /\ irps' = irps /\ os' = os /\ irps \in Irps
  BY StageNames DEF ConnectInterrupt, Elsewhere, environment, StageInv
<1>2. CASE PowerEntry(s, ok, <<>>) /\ device' = Begin(device, {"Resources", "PostInterrupts"})
  BY <1>1, <1>2, PowerBegins
<1>3. CASE PowerEntry(s, failed, <<>>) /\ device' = Begin(device, {"Resources"})
  BY <1>1, <1>3, PowerBegins
<1>4. QED
  BY <1>2, <1>3 DEF ConnectInterrupt

LEMMA DmaEnableStages ==
    ASSUME CountInv, StageInv, NEW s, NEW ok, NEW failed, DmaEnable(s, ok, failed),
           "Dma" \notin Entering(s), After(s, ok) = Entering(s) \cup {"Dma"},
           After(s, failed) = Entering(s) \cup {"Dma"}, s \notin RunningEntering
    PROVE  StageInv'
<1>1. {"Dma"} \in SUBSET InD0 /\ irps' = irps /\ os' = os /\ irps \in Irps /\ Entering(s) \cap {"Dma"} = {}
  BY StageNames DEF DmaEnable, Elsewhere, environment, StageInv
<1>2. QED
  BY <1>1, PowerBegins DEF DmaEnable

LEMMA PostHardwareEnabledStages ==
    ASSUME CountInv, StageInv, NEW s, NEW ok, NEW undo, NEW failed, NEW posts,
           PostHardwareEnabled(s, ok, undo, failed, posts),
           "PostHardware" \notin Entering(s), After(s, ok) = Entering(s) \cup {"PostHardware"},
           After(s, undo) = Entering(s) \cup {"PostHardware"}, After(s, failed) = Entering(s),
           s \notin RunningEntering
    PROVE  StageInv'
<1>1. /\ {"PostHardware"} \in SUBSET InD0 /\ irps' = irps /\ os' = os /\ irps \in Irps
      /\ Entering(s) \cap {"PostHardware"} = {}
  BY StageNames DEF PostHardwareEnabled, Elsewhere, environment, StageInv
<1>2. CASE PowerEntry(s, ok, posts) /\ device' = Begin(device, {"PostHardware"})
  BY <1>1, <1>2, PowerBegins
<1>3. CASE PowerEntry(s, undo, <<>>) /\ device' = Begin(device, {"PostHardware"})
  BY <1>1, <1>3, PowerBegins
<1>4. CASE PowerEntry(s, failed, <<>>) /\ UNCHANGED device
  BY <1>1, <1>4, PowerStaysUp, RunsThere DEF StageInv
<1>5. QED
  BY <1>2, <1>3, <1>4 DEF PostHardwareEnabled

(* Starting the I/O may fail, but the queues were started by then *)
LEMMA StartIoStages ==
    ASSUME CountInv, StageInv, NEW s, NEW ok, NEW undo, NEW failed, NEW released \in Irps,
           StartIo(s, ok, undo, failed, released),
           Entering(s) = InD0 \ {"Io"}, After(s, ok) = InD0, After(s, undo) = InD0,
           After(s, failed) = InD0, <<s, ok>> \in RunsAfter
    PROVE  StageInv'
<1>1. PICK o \in SelfManaged!ProcessEvent(device.smio, "Start") :
         /\ \/ PowerSendPowerUpEvents(s, ok) /\ irps' = released
            \/ PowerEntry(s, IF o.client THEN undo ELSE failed, <<>>) /\ irps' = irps /\ ~o.ok
         /\ device' = SelfManagedBecomes(Begin(device, {"Io"}), "Start", o)
  BY DEF StartIo
<1>2. PICK next, posts : next \in {ok, undo, failed} /\ PowerEntry(s, next, posts) /\ irps' \in Irps
                          /\ (next = ok \/ ~o.ok)
  BY <1>1 DEF PowerSendPowerUpEvents, StageInv
<1>3. os' = os /\ device.up \cap InD0 = InD0 \ {"Io"} /\ device \in Device
  BY <1>2 DEF StartIo, environment, StageInv, PowerStages, PowerEntry, Entry
<1>4. {"Io"} \in SUBSET InD0 /\ {"Io"} \in SUBSET Stages /\ {"Io"} \cap device.up = {}
  BY <1>3, StageNames
<1>5. /\ Begin(device, {"Io"}) \in Device /\ Begin(device, {"Io"}).up = device.up \cup {"Io"}
      /\ Begin(device, {"Io"}).misused = device.misused
      /\ Begin(device, {"Io"}).smio = device.smio
  BY <1>3, <1>4, Begins DEF Begin, Device
<1>6. /\ device' \in Device /\ device'.up = (device.up \ {}) \cup {"Io"}
      /\ "stage" \notin device'.misused /\ (~o.ok => device'.smio # "Started")
  BY <1>1, <1>5, SelfManages DEF StageInv
<1>7. {} \in SUBSET InD0 /\ (Entering(s) \ {}) \cup {"Io"} = After(s, next)
  BY <1>2, <1>4
<1>8. QED
  BY <1>2, <1>3, <1>4, <1>6, <1>7, PowerTurns

LEMMA PowerUndoesStages ==
    ASSUME CountInv, StageInv, NEW s, NEW stages \in SUBSET InD0, NEW next, PowerUndoes(s, stages, next),
           stages \subseteq Entering(s), Entering(s) \ stages = After(s, next),
           s \notin RunningEntering
    PROVE  StageInv'
<1>1. /\ device \in Device /\ "stage" \notin device.misused /\ irps' \in Irps /\ os' = os
      /\ PowerEntry(s, next, <<>>) /\ device' = End(device, stages)
  BY DEF PowerUndoes, Elsewhere, environment, StageInv
<1>2. device' \in Device /\ device'.smio # "Started"
  <2>1. stages \subseteq device.up /\ stages \in SUBSET Stages
    BY <1>1, StageNames DEF PowerEntry, Entry, StageInv, PowerStages
  <2>2. QED
    BY <1>1, <2>1, Ends, RunsThere
<1>3. QED
  BY <1>1, <1>2, PowerEnds

LEMMA SuspendsIgnoredStages ==
    ASSUME CountInv, StageInv, NEW s, NEW next, SuspendsIgnored(s, next), Entering(s) = After(s, next)
    PROVE  StageInv'
<1>1. PICK o \in SelfManaged!ProcessEvent(device.smio, "Suspend") :
        PowerEntry(s, next, <<>>) /\ device' = SelfManagedBecomes(device, "Suspend", o)
  BY DEF SuspendsIgnored
<1>2. irps' \in Irps /\ os' = os /\ device \in Device /\ "stage" \notin device.misused
  BY DEF SuspendsIgnored, Elsewhere, environment, StageInv
<1>3. /\ device' \in Device /\ device'.up = device.up /\ "stage" \notin device'.misused
      /\ device'.smio # "Started"
  BY <1>1, <1>2, SelfManages
<1>4. QED
  BY <1>1, <1>2, <1>3, PowerStaysUp

LEMMA PowerSendPowerUpFailureEventStages ==
    ASSUME CountInv, StageInv, NEW s, NEW next, PowerSendPowerUpFailureEvent(s, next),
           irps' \in Irps, Entering(s) = After(s, next), s \notin RunningEntering
    PROVE  StageInv'
<1>1. PICK posts : PowerEntry(s, next, posts)
  BY DEF PowerSendPowerUpFailureEvent
<1>2. /\ device' \in Device /\ device'.up = device.up /\ "stage" \notin device'.misused /\ os' = os
      /\ device'.smio # "Started"
  BY <1>1, RunsThere, Flags DEF PowerSendPowerUpFailureEvent, SetInternalFailure, environment, StageInv, Device
<1>3. QED
  BY <1>1, <1>2, PowerStaysUp

(* a power down, that suspends self managed I/O first *)
LEMMA PowerSuspends ==
    ASSUME StageInv, NEW o \in SelfManaged!ProcessEvent(device.smio, "Suspend"),
           NEW stages \in SUBSET InD0, stages \subseteq device.up,
           NEW d, d = SelfManagedBecomes(device, "Suspend", o)
    PROVE  /\ d \in Device /\ d.up = device.up /\ "stage" \notin d.misused
           /\ End(d, stages) \in Device /\ d.smio # "Started" /\ End(d, stages).smio # "Started"
<1>1. d \in Device /\ d.up = device.up /\ "stage" \notin d.misused /\ d.smio # "Started"
  BY SelfManages DEF StageInv
<1>2. stages \in SUBSET Stages
  BY StageNames
<1>3. QED
  BY <1>1, <1>2, Ends

LEMMA PowerGotoD3StoppedStages ==
    ASSUME CountInv, StageInv, PowerGotoD3Stopped
    PROVE  StageInv'
<1>1. PICK o \in SelfManaged!ProcessEvent(device.smio, "Suspend") :
        device' = End(SelfManagedBecomes(device, "Suspend", o), InD0)
  BY DEF PowerGotoD3Stopped
<1>2. PICK next, posts : next \in {"FinalPowerDownFailed", "Stopped"} /\ PowerEntry("GotoD3Stopped", next, posts)
  BY DEF PowerGotoD3Stopped, ImplicitPowerDown, PowerSendPowerDownEvents
<1>3. /\ Entering("GotoD3Stopped") = InD0 /\ After("GotoD3Stopped", next) = {}
  BY <1>2 DEF Entering, After, Waiting, Null, PowerNoEntry
<1>4. device.up \cap InD0 = InD0 /\ irps' \in Irps /\ os' = os
  BY <1>2, <1>3 DEF PowerEntry, Entry, PowerStages, StageInv, PowerGotoD3Stopped, environment
<1> DEFINE d == SelfManagedBecomes(device, "Suspend", o)
<1>5. /\ d \in Device /\ d.up = device.up /\ "stage" \notin d.misused /\ End(d, InD0) \in Device
      /\ End(d, InD0).smio # "Started"
  BY <1>4, PowerSuspends
<1> HIDE DEF d
<1>6. device' = End(d, InD0)
  BY <1>1 DEF d
<1>7. QED
  BY <1>2, <1>3, <1>4, <1>5, <1>6, PowerEnds

LEMMA PowerGotoDNotZeroStages ==
    ASSUME CountInv, StageInv, PowerGotoDNotZero
    PROVE  StageInv'
<1>1. PICK o \in SelfManaged!ProcessEvent(device.smio, "Suspend") :
        device' = [End(SelfManagedBecomes(device, "Suspend", o), {"Io"})
                   EXCEPT !.ioCallbackFailure = @ \/ ~o.ok]
  BY DEF PowerGotoDNotZero
<1>2. PICK posts : PowerEntry("GotoDx", Null, posts)
  BY DEF PowerGotoDNotZero
<1>3. Entering("GotoDx") = InD0 /\ After("GotoDx", Null) = InD0 \ {"Io"} /\ {"Io"} \in SUBSET InD0
  BY <1>2, StageNames DEF Entering, After, Waiting, Null, PowerNoEntry
<1>4. device.up \cap InD0 = InD0 /\ irps' \in Irps /\ os' = os
  BY <1>2, <1>3 DEF PowerEntry, Entry, PowerStages, StageInv, PowerGotoDNotZero, Elsewhere, environment
<1> DEFINE d == SelfManagedBecomes(device, "Suspend", o)
           e == End(d, {"Io"})
<1>5. /\ d \in Device /\ d.up = device.up /\ "stage" \notin d.misused /\ e \in Device
      /\ e.smio # "Started"
  BY <1>3, <1>4, PowerSuspends
<1> HIDE DEF d
<1>6. device' = [e EXCEPT !.ioCallbackFailure = @ \/ ~o.ok]
  BY <1>1 DEF d
<1> HIDE DEF e
<1>7. /\ device' \in Device /\ device'.up = e.up /\ device'.misused = e.misused
      /\ device'.smio # "Started"
  BY <1>5, <1>6 DEF Device
<1>8. QED
  BY <1>2, <1>3, <1>4, <1>5, <1>7, PowerEnds DEF e

LEMMA PowerGotoDNotZeroIoStoppedStages ==
    ASSUME CountInv, StageInv, PowerGotoDNotZeroIoStopped
    PROVE  StageInv'
<1> DEFINE s == "GotoDxIoStopped"
           e == End(device, InD0 \ {"Io"})
           down == [e EXCEPT !.ioCallbackFailure = FALSE]
<1>1. PICK next, posts : next \in {"GotoDxFailed", "Dx"} /\ PowerEntry(s, next, posts)
  BY DEF PowerGotoDNotZeroIoStopped, PowerSendPowerDownEvents
<1>2. /\ Entering(s) = InD0 \ {"Io"} /\ After(s, next) = {}
  BY <1>1 DEF Entering, After, Waiting, Null, PowerNoEntry
<1>3. device.up \cap InD0 = InD0 \ {"Io"} /\ os' = os
  BY <1>1, <1>2 DEF PowerEntry, Entry, PowerStages, StageInv, PowerGotoDNotZeroIoStopped, environment
<1>4. irps' \in Irps
  BY Releases DEF PowerGotoDNotZeroIoStopped, StageInv
<1>5. /\ device \in Device /\ "stage" \notin device.misused /\ e \in Device
      /\ e.smio # "Started"
  BY <1>1, <1>3, StageNames, Ends, RunsThere DEF StageInv, RunningEntering
<1>6. device' = down \/ device' = [down EXCEPT !.powerDownFailure = TRUE]
  BY DEF PowerGotoDNotZeroIoStopped
<1> HIDE DEF e
<1>7. down \in Device /\ down.up = e.up /\ down.misused = e.misused /\ down.smio # "Started"
  BY <1>5, Flags
<1> HIDE DEF down
<1>8. /\ device' \in Device /\ device'.up = e.up /\ device'.misused = e.misused
      /\ device'.smio # "Started"
  <2>1. CASE device' = down
    BY <1>7, <2>1
  <2>2. CASE device' = [down EXCEPT !.powerDownFailure = TRUE]
    BY <1>7, <2>2 DEF Device
  <2>3. QED
    BY <1>6, <2>1, <2>2
<1>9. QED
  BY <1>1, <1>2, <1>3, <1>4, <1>5, <1>8, PowerEnds DEF e

(* a row of the table *)
LEMMA PowerRowStages ==
    \A r \in PowerRows :
      /\ Waiting(r[1]) = IF r[3] \in PowerNoEntry THEN Waiting(r[3]) ELSE Entering(r[3])
      /\ r[1] = "D0" => r[3] \in RunningEntering \ PowerNoEntry
BY DEF PowerRows, PowerNoEntry, Waiting, Entering, RunningEntering

LEMMA PowerEventStages ==
    ASSUME CountInv, StageInv, PowerProcessEventInner
    PROVE  StageInv'
<1>1. "power" \notin entering /\ DOMAIN at = Machines /\ "power" \in Machines /\ "pnp" # "power"
  BY DEF PowerProcessEventInner, Takes, CountInv, Machines
<1>2. device' = device /\ os' = os /\ irps' \in Irps
  BY Releases DEF PowerProcessEventInner, environment, StageInv
<1>3. ASSUME NEW r \in Row("power", PowerRows), EnterNewState("power", r[3], PowerNoEntry)
      PROVE  StageInv'
  <2>1. r \in PowerRows /\ at["power"] = r[1]
    BY DEF Row
  <2>2. PowerStages' = PowerStages /\ entering' \subseteq Machines
    BY <1>1, <1>3, <2>1, PowerRowStages DEF EnterNewState, PowerStages, StageInv
  <2>3. Prepared' <=> Prepared
    BY <1>1, <1>3 DEF EnterNewState, Prepared
  <2>4. Running => Running'
    BY <1>1, <1>3, <2>1, PowerRowStages DEF EnterNewState, Running
  <2>5. QED
    BY <1>2, <2>2, <2>3, <2>4 DEF StageInv
<1>4. CASE UNCHANGED <<at, entering>>
  BY <1>2, <1>4 DEF StageInv, PowerStages, Prepared, Running
<1>5. QED
  BY <1>3, <1>4 DEF PowerProcessEventInner

(* a step of the machine *)
LEMMA PowerKeepsStages ==
    ASSUME CountInv, StageInv, PowerNext
    PROVE  StageInv'
<1>1. CASE PowerProcessEventInner
  BY <1>1, PowerEventStages
<1>2. CASE PowerStartingCheckDeviceType
  BY <1>2, PowerPassesStages
    DEF PowerStartingCheckDeviceType, After, Entering, Waiting, Null,
        PowerNoEntry, RunningEntering, RunsAfter
<1>3. CASE PowerCheckDeviceType
  BY <1>3, PowerPassesStages
    DEF PowerCheckDeviceType, After, Entering, Waiting, Null, PowerNoEntry,
        RunningEntering, RunsAfter
<1>4. CASE PowerD0Starting
  BY <1>4, CallD0EntryStages
    DEF PowerD0Starting, After, Entering, Waiting, Null, PowerNoEntry,
        RunningEntering, RunsAfter
<1>5. CASE PowerWaking
  BY <1>5, CallD0EntryStages
    DEF PowerWaking, After, Entering, Waiting, Null, PowerNoEntry,
        RunningEntering, RunsAfter
<1>6. CASE PowerNotifyingD0EntryToWakeInterrupts
  BY <1>6, PowerPassesStages
    DEF PowerNotifyingD0EntryToWakeInterrupts, After, Entering, Waiting, Null,
        PowerNoEntry, RunningEntering, RunsAfter
<1>7. CASE PowerD0StartingConnectInterrupt
  BY <1>7, ConnectInterruptStages
    DEF PowerD0StartingConnectInterrupt, After, Entering, Waiting, Null,
        PowerNoEntry, RunningEntering, RunsAfter
<1>8. CASE PowerWakingConnectInterrupt
  BY <1>8, ConnectInterruptStages
    DEF PowerWakingConnectInterrupt, After, Entering, Waiting, Null,
        PowerNoEntry, RunningEntering, RunsAfter
<1>9. CASE PowerD0StartingDmaEnable
  BY <1>9, DmaEnableStages
    DEF PowerD0StartingDmaEnable, After, Entering, Waiting, Null, PowerNoEntry,
        RunningEntering, RunsAfter
<1>10. CASE PowerWakingDmaEnable
  BY <1>10, DmaEnableStages
    DEF PowerWakingDmaEnable, After, Entering, Waiting, Null, PowerNoEntry,
        RunningEntering, RunsAfter
<1>11. CASE PowerD0StartingPostHardwareEnabled
  BY <1>11, PostHardwareEnabledStages, StageNames
    DEF PowerD0StartingPostHardwareEnabled, After, Entering, Waiting, Null,
        PowerNoEntry, RunningEntering, RunsAfter
<1>12. CASE PowerWakingPostHardwareEnabled
  BY <1>12, PostHardwareEnabledStages, StageNames
    DEF PowerWakingPostHardwareEnabled, After, Entering, Waiting, Null,
        PowerNoEntry, RunningEntering, RunsAfter
<1>13. CASE PowerD0StartingStartSelfManagedIo
  BY <1>13, StartIoStages, Releases
    DEF PowerD0StartingStartSelfManagedIo, After, Entering, Waiting, Null,
        PowerNoEntry, RunningEntering, RunsAfter, StageInv
<1>14. CASE PowerStartSelfManagedIo
  BY <1>14, StartIoStages, Releases
    DEF PowerStartSelfManagedIo, After, Entering, Waiting, Null, PowerNoEntry,
        RunningEntering, RunsAfter, StageInv
<1>15. CASE PowerDecideD0State
  BY <1>15, PowerPassesStages
    DEF PowerDecideD0State, After, Entering, Waiting, Null, PowerNoEntry,
        RunningEntering, RunsAfter
<1>16. CASE PowerDZero
  BY <1>16, PowerPassesStages
    DEF PowerDZero, After, Entering, Waiting, Null, PowerNoEntry,
        RunningEntering, RunsAfter
<1>17. CASE PowerInitialSelfManagedIoFailedStarted
  BY <1>17, SuspendsIgnoredStages
    DEF PowerInitialSelfManagedIoFailedStarted, After, Entering, Waiting, Null,
        PowerNoEntry, RunningEntering, RunsAfter
<1>18. CASE PowerStartSelfManagedIoFailedStarted
  BY <1>18, SuspendsIgnoredStages
    DEF PowerStartSelfManagedIoFailedStarted, After, Entering, Waiting, Null,
        PowerNoEntry, RunningEntering, RunsAfter
<1>19. CASE PowerInitialSelfManagedIoFailed
  BY <1>19, PowerUndoesStages, StageNames
    DEF PowerInitialSelfManagedIoFailed, After, Entering, Waiting, Null,
        PowerNoEntry, RunningEntering, RunsAfter
<1>20. CASE PowerStartSelfManagedIoFailed
  BY <1>20, PowerUndoesStages, StageNames
    DEF PowerStartSelfManagedIoFailed, After, Entering, Waiting, Null,
        PowerNoEntry, RunningEntering, RunsAfter
<1>21. CASE PowerInitialPostHardwareEnabledFailed
  BY <1>21, PowerUndoesStages, StageNames
    DEF PowerInitialPostHardwareEnabledFailed, After, Entering, Waiting, Null,
        PowerNoEntry, RunningEntering, RunsAfter
<1>22. CASE PowerWakingPostHardwareEnabledFailed
  BY <1>22, PowerUndoesStages, StageNames
    DEF PowerWakingPostHardwareEnabledFailed, After, Entering, Waiting, Null,
        PowerNoEntry, RunningEntering, RunsAfter
<1>23. CASE PowerInitialDmaEnableFailed
  BY <1>23, PowerUndoesStages, StageNames
    DEF PowerInitialDmaEnableFailed, After, Entering, Waiting, Null,
        PowerNoEntry, RunningEntering, RunsAfter
<1>24. CASE PowerWakingDmaEnableFailed
  BY <1>24, PowerUndoesStages, StageNames
    DEF PowerWakingDmaEnableFailed, After, Entering, Waiting, Null,
        PowerNoEntry, RunningEntering, RunsAfter
<1>25. CASE PowerInitialConnectInterruptFailed
  BY <1>25, PowerUndoesStages, StageNames
    DEF PowerInitialConnectInterruptFailed, After, Entering, Waiting, Null,
        PowerNoEntry, RunningEntering, RunsAfter
<1>26. CASE PowerWakingConnectInterruptFailed
  BY <1>26, PowerUndoesStages, StageNames
    DEF PowerWakingConnectInterruptFailed, After, Entering, Waiting, Null,
        PowerNoEntry, RunningEntering, RunsAfter
<1>27. CASE PowerInitialPowerUpFailedPowerDown
  BY <1>27, PowerUndoesStages, StageNames
    DEF PowerInitialPowerUpFailedPowerDown, After, Entering, Waiting, Null,
        PowerNoEntry, RunningEntering, RunsAfter
<1>28. CASE PowerUpFailedPowerDown
  BY <1>28, PowerUndoesStages, StageNames
    DEF PowerUpFailedPowerDown, After, Entering, Waiting, Null, PowerNoEntry,
        RunningEntering, RunsAfter
<1>29. CASE PowerInitialPowerUpFailedDerefParent
  BY <1>29, PowerPassesStages
    DEF PowerInitialPowerUpFailedDerefParent, After, Entering, Waiting, Null,
        PowerNoEntry, RunningEntering, RunsAfter
<1>30. CASE PowerUpFailedDerefParent
  BY <1>30, PowerPassesStages
    DEF PowerUpFailedDerefParent, After, Entering, Waiting, Null, PowerNoEntry,
        RunningEntering, RunsAfter
<1>31. CASE PowerReportPowerUpFailedDerefParent
  BY <1>31, PowerPassesStages
    DEF PowerReportPowerUpFailedDerefParent, After, Entering, Waiting, Null,
        PowerNoEntry, RunningEntering, RunsAfter
<1>32. CASE PowerInitialPowerUpFailed
  BY <1>32, PowerSendPowerUpFailureEventStages, Releases
    DEF PowerInitialPowerUpFailed, After, Entering, Waiting, Null, PowerNoEntry,
        RunningEntering, RunsAfter, StageInv
<1>33. CASE PowerReportPowerUpFailed
  BY <1>33, PowerSendPowerUpFailureEventStages, Releases
    DEF PowerReportPowerUpFailed, After, Entering, Waiting, Null, PowerNoEntry,
        RunningEntering, RunsAfter, StageInv
<1>34. CASE PowerGotoD3Stopped
  BY <1>34, PowerGotoD3StoppedStages
<1>35. CASE PowerFinalPowerDownFailed
  BY <1>35, PowerStaysUp, RunsThere, Flags
    DEF PowerFinalPowerDownFailed, After, Entering, Waiting, Null, PowerNoEntry,
        RunningEntering, RunsAfter, SetInternalFailure, Elsewhere, environment,
        StageInv
<1>36. CASE PowerGotoDNotZero
  BY <1>36, PowerGotoDNotZeroStages
<1>37. CASE PowerNotifyingD0ExitToWakeInterrupts
  BY <1>37, PowerPassesStages
    DEF PowerNotifyingD0ExitToWakeInterrupts, After, Entering, Waiting, Null,
        PowerNoEntry, RunningEntering, RunsAfter
<1>38. CASE PowerGotoDNotZeroIoStopped
  BY <1>38, PowerGotoDNotZeroIoStoppedStages
<1>39. CASE PowerGotoDxFailed
  BY <1>39, PowerPassesStages
    DEF PowerGotoDxFailed, After, Entering, Waiting, Null, PowerNoEntry,
        RunningEntering, RunsAfter
<1>40. CASE PowerReportPowerDownFailed
  BY <1>40, PowerStaysUp, RunsThere, Flags, Releases
    DEF PowerReportPowerDownFailed, After, Entering, Waiting, Null,
        PowerNoEntry, RunningEntering, RunsAfter, SetInternalFailure,
        environment, StageInv
<1>41. CASE PowerPowerFailedPowerDown
  BY <1>41, PowerStaysUp, RunsThere
    DEF PowerPowerFailedPowerDown, After, Entering, Waiting, Null, PowerNoEntry,
        RunningEntering, RunsAfter, ImplicitPowerDown, PowerSendPowerDownEvents,
        PowerDownWasDone, environment, StageInv
<1>42. CASE PowerGotoDxStoppedDisableInterrupt
  BY <1>42, PowerPassesStages
    DEF PowerGotoDxStoppedDisableInterrupt, After, Entering, Waiting, Null,
        PowerNoEntry, RunningEntering, RunsAfter
<1>43. CASE PowerGotoDxStopped
  BY <1>43, PowerStaysUp, RunsThere
    DEF PowerGotoDxStopped, After, Entering, Waiting, Null, PowerNoEntry,
        RunningEntering, RunsAfter, ImplicitPowerDown, PowerSendPowerDownEvents,
        PowerDownWasDone, environment, StageInv
<1>44. QED
  BY <1>1, <1>2, <1>3, <1>4, <1>5, <1>6, <1>7, <1>8, <1>9, <1>10, <1>11, <1>12,
     <1>13, <1>14, <1>15, <1>16, <1>17, <1>18, <1>19, <1>20, <1>21, <1>22,
     <1>23, <1>24, <1>25, <1>26, <1>27, <1>28, <1>29, <1>30, <1>31, <1>32,
     <1>33, <1>34, <1>35, <1>36, <1>37, <1>38, <1>39, <1>40, <1>41, <1>42, <1>43
    DEF PowerNext, PowerEntersState

(* The power policy machine changes no stage, and keeps the types          *)
LEMMA PolicyTurns ==
    ASSUME CountInv, StageInv, NEW s, NEW next, NEW posts, PolicyEntry(s, next, posts),
           device' \in Device, device'.up = device.up, device'.misused = device.misused,
           device'.smio = device.smio, irps' \in Irps, os' \in Os
    PROVE  StageInv'
<1>1. DOMAIN at = Machines /\ Machines = {"pnp", "policy", "power"}
  BY DEF CountInv, Machines
<1>2. /\ entering' \subseteq Machines /\ PowerStages' = PowerStages /\ (Prepared' <=> Prepared)
      /\ Running' <=> Running
  BY <1>1 DEF PolicyEntry, Entry, EnterNewState, PowerStages, Prepared, Running, StageInv
<1>3. QED
  BY <1>2 DEF StageInv

LEMMA PolicyQuietStages ==
    ASSUME CountInv, StageInv, NEW s, NEW next, NEW posts, PolicyEntry(s, next, posts),
           UNCHANGED <<device, irps, os>>
    PROVE  StageInv'
BY PolicyTurns DEF StageInv

LEMMA PolicyFailsStages ==
    ASSUME CountInv, StageInv, NEW s, NEW next, NEW posts, PolicyEntry(s, next, posts),
           UNCHANGED irps, os' \in Os, device' \in {device, SetInternalFailure(device), PowerFailed(device)}
    PROVE  StageInv'
<1>1. /\ device' \in Device /\ device'.up = device.up /\ device'.misused = device.misused
      /\ device'.smio = device.smio
  <2>1. device \in Device
    BY DEF StageInv
  <2>2. CASE device' = device
    BY <2>1, <2>2
  <2>3. CASE device' = SetInternalFailure(device)
    BY <2>1, <2>3 DEF SetInternalFailure, Device
  <2>4. CASE device' = PowerFailed(device)
    BY <2>1, <2>4 DEF PowerFailed, Device
  <2>5. QED
    BY <2>2, <2>3, <2>4
<1>2. QED
  BY <1>1, PolicyTurns DEF StageInv

LEMMA PolicySendsStages ==
    ASSUME CountInv, StageInv, NEW s, NEW to \in {"D0", "Dx"}, NEW failed, PolicySends(s, to, failed),
           UNCHANGED <<device, os>>
    PROVE  StageInv'
<1> DEFINE r == [irps EXCEPT !.device = Append(@, [to |-> to, stage |-> "sent"])]
           I == [to : {"D0", "Dx"}, stage : {"sent", "pending", "released"}]
<1>1. r \in Irps /\ irps \in Irps
  <2>1. irps \in [device : Seq(I), up : BOOLEAN, down : BOOLEAN] /\ [to |-> to, stage |-> "sent"] \in I
    BY DEF StageInv, Irps
  <2>2. Irps = [device : Seq(I), up : BOOLEAN, down : BOOLEAN]
    BY DEF Irps
  <2> HIDE DEF I
  <2>3. Append(irps.device, [to |-> to, stage |-> "sent"]) \in Seq(I)
    BY <2>1
  <2>4. r \in [device : Seq(I), up : BOOLEAN, down : BOOLEAN]
    BY <2>1, <2>3
  <2>5. QED
    BY <2>1, <2>2, <2>4
<1>2. \A q \in Irps, is \in BOOLEAN : Requested(q, to, is) \in Irps
  BY DEF Requested, Irps
<1>3. irps' = Requested(r, to, TRUE) \/ irps' = Requested(irps, to, FALSE)
  BY DEF PolicySends
<1> HIDE DEF r
<1>4. irps' \in Irps
  BY <1>1, <1>2, <1>3
<1>5. PICK next \in {Null, failed} : PolicyEntry(s, next, <<>>)
  BY DEF PolicySends
<1>6. QED
  BY <1>4, <1>5, PolicyTurns DEF StageInv

LEMMA SystemIrpStages ==
    ASSUME NEW o \in Os
    PROVE  CompleteSystemPowerIrp(o) \in Os
BY DEF CompleteSystemPowerIrp, Os

LEMMA PolicyEventStages ==
    ASSUME CountInv, StageInv, PowerPolicyProcessEventInner
    PROVE  StageInv'
<1>1. DOMAIN at = Machines /\ Machines = {"pnp", "policy", "power"}
  BY DEF CountInv, Machines
<1>2. device' = device /\ irps' = irps /\ os' \in Os
  BY SystemIrpStages DEF PowerPolicyProcessEventInner, StageInv
<1>3. /\ entering' \subseteq Machines /\ PowerStages' = PowerStages /\ (Prepared' <=> Prepared)
      /\ Running' <=> Running
  BY <1>1 DEF PowerPolicyProcessEventInner, EnterNewState, PowerStages, Prepared, Running, StageInv
<1>4. QED
  BY <1>2, <1>3 DEF StageInv

(* a step of the machine *)
LEMMA PolicyKeepsStages ==
    ASSUME CountInv, StageInv, PowerPolicyNext
    PROVE  StageInv'
<1>1. CASE PowerPolicyProcessEventInner
  BY <1>1, PolicyEventStages
<1>2. CASE PowerPolStarting
  BY <1>2, PolicyQuietStages
    DEF PowerPolStarting, PolicyIdles, PolicyKeeps, environment
<1>3. CASE PowerPolStartingPoweredUp
  BY <1>3, PolicyQuietStages
    DEF PowerPolStartingPoweredUp, environment
<1>4. CASE PowerPolStartingPoweredUpFailed
  BY <1>4, PolicyQuietStages
    DEF PowerPolStartingPoweredUpFailed, PolicyPosts, PolicyKeeps, environment
<1>5. CASE PowerPolStartingSucceeded
  BY <1>5, PolicyQuietStages
    DEF PowerPolStartingSucceeded, PolicyPosts, PolicyKeeps, environment
<1>6. CASE PowerPolStartingFailed
  BY <1>6, PolicyQuietStages
    DEF PowerPolStartingFailed, PolicyIdles, PolicyKeeps, environment
<1>7. CASE PowerPolStartingDecideS0Wake
  BY <1>7, PolicyQuietStages
    DEF PowerPolStartingDecideS0Wake, PolicyPasses, PolicyPosts, PolicyKeeps,
        environment
<1>8. CASE PowerPolStarted
  BY <1>8, PolicyQuietStages
    DEF PowerPolStarted, PolicyIdles, PolicyKeeps, environment
<1>9. CASE PowerPolStartedCancelTimer
  BY <1>9, PolicyQuietStages
    DEF PowerPolStartedCancelTimer, CancelsTimer, PolicyIdles, PolicyKeeps,
        environment
<1>10. CASE PowerPolRestarting
  BY <1>10, PolicyQuietStages
    DEF PowerPolRestarting, PolicyIdles, PolicyKeeps, environment
<1>11. CASE PowerPolRestartingFailed
  BY <1>11, PolicyQuietStages
    DEF PowerPolRestartingFailed, PolicyIdles, PolicyKeeps, environment
<1>12. CASE PowerPolStartedIdleCapable
  BY <1>12, PolicyQuietStages
    DEF PowerPolStartedIdleCapable, PolicyIdles, PolicyKeeps, environment
<1>13. CASE PowerPolIdleCapableDeviceIdle
  BY <1>13, PolicyQuietStages
    DEF PowerPolIdleCapableDeviceIdle, PolicyPasses, PolicyPosts, PolicyKeeps,
        environment
<1>14. CASE PowerPolTimerExpiredNoWake
  BY <1>14, PolicySendsStages
    DEF PowerPolTimerExpiredNoWake, PolicyRequests, environment
<1>15. CASE PowerPolTimerExpiredNoWakeCompletePowerDown
  BY <1>15, PolicyQuietStages
    DEF PowerPolTimerExpiredNoWakeCompletePowerDown, PolicyPosts, PolicyKeeps,
        environment
<1>16. CASE PowerPolTimerExpiredNoWakePoweredDownDisableIdleTimer
  BY <1>16, PolicyQuietStages
    DEF PowerPolTimerExpiredNoWakePoweredDownDisableIdleTimer, PolicyIdles,
        PolicyKeeps, environment
<1>17. CASE PowerPolTimerExpiredNoWakePowerDownNotProcessed
  BY <1>17, PolicyFailsStages
    DEF PowerPolTimerExpiredNoWakePowerDownNotProcessed, PolicyFails, StageInv,
        PolicyKeeps, environment
<1>18. CASE PowerPolTimerExpiredNoWakeUndoPowerDown
  BY <1>18, PolicyQuietStages
    DEF PowerPolTimerExpiredNoWakeUndoPowerDown, PolicyPasses, PolicyPosts,
        PolicyKeeps, environment
<1>19. CASE PowerPolTimerExpiredNoWakeReturnToActive
  BY <1>19, PolicyQuietStages
    DEF PowerPolTimerExpiredNoWakeReturnToActive, PolicyPasses, PolicyPosts,
        PolicyKeeps, environment
<1>20. CASE PowerPolWaitingUnarmedQueryIdle
  BY <1>20, PolicyQuietStages
    DEF PowerPolWaitingUnarmedQueryIdle, QueriesIdle, PolicyIdles, PolicyKeeps,
        environment
<1>21. CASE PowerPolS0NoWakePowerUp
  BY <1>21, PolicySendsStages
    DEF PowerPolS0NoWakePowerUp, PolicyRequests, environment
<1>22. CASE PowerPolS0NoWakeCompletePowerUp
  BY <1>22, PolicyQuietStages
    DEF PowerPolS0NoWakeCompletePowerUp, PolicyPosts, PolicyKeeps, environment
<1>23. CASE PowerPolStartedIdleCapableCancelTimerForSleep
  BY <1>23, PolicyQuietStages
    DEF PowerPolStartedIdleCapableCancelTimerForSleep, CancelsTimer,
        PolicyIdles, PolicyKeeps, environment
<1>24. CASE PowerPolStartedIdleCapableTimerCanceledForSleep
  BY <1>24, PolicyQuietStages
    DEF PowerPolStartedIdleCapableTimerCanceledForSleep, PolicyPasses,
        PolicyPosts, PolicyKeeps, environment
<1>25. CASE PowerPolSleeping
  BY <1>25, PolicyQuietStages
    DEF PowerPolSleeping, PolicyPasses, PolicyPosts, PolicyKeeps, environment
<1>26. CASE PowerPolSleepingNoWakePowerDown
  BY <1>26, PolicySendsStages
    DEF PowerPolSleepingNoWakePowerDown, PolicyRequests, environment
<1>27. CASE PowerPolSleepingNoWakeCompletePowerDown
  BY <1>27, PolicyQuietStages
    DEF PowerPolSleepingNoWakeCompletePowerDown, PolicyPosts, PolicyKeeps,
        environment
<1>28. CASE PowerPolSleepingNoWakeDxRequestFailed
  BY <1>28, PolicyFailsStages, SystemIrpStages
    DEF PowerPolSleepingNoWakeDxRequestFailed, CompletesSystemPowerIrp, StageInv
<1>29. CASE PowerPolSleepingPowerDownNotProcessed
  BY <1>29, PolicyFailsStages
    DEF PowerPolSleepingPowerDownNotProcessed, PolicyFails, StageInv,
        PolicyKeeps, environment
<1>30. CASE PowerPolSystemSleepPowerRequestFailed
  BY <1>30, PolicyFailsStages, SystemIrpStages
    DEF PowerPolSystemSleepPowerRequestFailed, CompletesSystemPowerIrp, StageInv
<1>31. CASE PowerPolSystemSleepFromDeviceWaitingUnarmed
  BY <1>31, PolicyQuietStages
    DEF PowerPolSystemSleepFromDeviceWaitingUnarmed, PolicyPasses, PolicyPosts,
        PolicyKeeps, environment
<1>32. CASE PowerPolSystemAsleepNoWake
  BY <1>32, PolicyFailsStages, SystemIrpStages
    DEF PowerPolSystemAsleepNoWake, CompletesSystemPowerIrp, StageInv
<1>33. CASE PowerPolSystemWakeDeviceWakeDisabled
  BY <1>33, PolicyQuietStages
    DEF PowerPolSystemWakeDeviceWakeDisabled, PolicyPasses, PolicyPosts,
        PolicyKeeps, environment
<1>34. CASE PowerPolSystemWakeQueryIdle
  BY <1>34, PolicyQuietStages
    DEF PowerPolSystemWakeQueryIdle, QueriesIdle, PolicyIdles, PolicyKeeps,
        environment
<1>35. CASE PowerPolSystemWakeDeviceToD0
  BY <1>35, PolicySendsStages
    DEF PowerPolSystemWakeDeviceToD0, PolicyRequests, environment
<1>36. CASE PowerPolSystemWakeDeviceToD0CompletePowerUp
  BY <1>36, PolicyQuietStages
    DEF PowerPolSystemWakeDeviceToD0CompletePowerUp, PolicyPosts, PolicyKeeps,
        environment
<1>37. CASE PowerPolSystemWakeDevicePowerRequestFailed
  BY <1>37, PolicyQuietStages
    DEF PowerPolSystemWakeDevicePowerRequestFailed, PolicyPasses, PolicyPosts,
        PolicyKeeps, environment
<1>38. CASE PowerPolSystemWakeDeviceD0PowerRequestFailed
  BY <1>38, PolicyQuietStages
    DEF PowerPolSystemWakeDeviceD0PowerRequestFailed, PolicyPasses, PolicyPosts,
        PolicyKeeps, environment
<1>39. CASE PowerPolDeviceD0PowerRequestFailed
  BY <1>39, PolicyFailsStages
    DEF PowerPolDeviceD0PowerRequestFailed, PolicyFails, StageInv, PolicyKeeps,
        environment
<1>40. CASE PowerPolDevicePowerRequestFailed
  BY <1>40, PolicyFailsStages
    DEF PowerPolDevicePowerRequestFailed, PolicyFails, StageInv, PolicyKeeps,
        environment
<1>41. CASE PowerPolStoppingCancelTimer
  BY <1>41, PolicyQuietStages
    DEF PowerPolStoppingCancelTimer, CancelsTimer, PolicyIdles, PolicyKeeps,
        environment
<1>42. CASE PowerPolStoppingResetDevice
  BY <1>42, PolicySendsStages
    DEF PowerPolStoppingResetDevice, environment
<1>43. CASE PowerPolStoppingResetDeviceCompletePowerUp
  BY <1>43, PolicyQuietStages
    DEF PowerPolStoppingResetDeviceCompletePowerUp, PolicyPosts, PolicyKeeps,
        environment
<1>44. CASE PowerPolStoppingResetDeviceFailed
  BY <1>44, PolicyFailsStages
    DEF PowerPolStoppingResetDeviceFailed, PolicyFails, StageInv, PolicyKeeps,
        environment
<1>45. CASE PowerPolStopping
  BY <1>45, PolicyQuietStages
    DEF PowerPolStopping, PolicyPosts, PolicyKeeps, environment
<1>46. CASE PowerPolStoppingFailed
  BY <1>46, PolicyFailsStages
    DEF PowerPolStoppingFailed, PolicyFails, StageInv, PolicyKeeps, environment
<1>47. CASE PowerPolStoppingSendStatus
  BY <1>47, PolicyTurns, Flags
    DEF PowerPolStoppingSendStatus, PolicyKeeps, environment, StageInv
<1>48. CASE PowerPolStoppedRemoving
  BY <1>48, PolicyQuietStages
    DEF PowerPolStoppedRemoving, PolicyPasses, PolicyPosts, PolicyKeeps,
        environment
<1>49. CASE PowerPolRemoved
  BY <1>49, PolicyQuietStages
    DEF PowerPolRemoved, PolicyPosts, PolicyKeeps, environment
<1>50. QED
  BY <1>1, <1>2, <1>3, <1>4, <1>5, <1>6, <1>7, <1>8, <1>9, <1>10, <1>11, <1>12,
     <1>13, <1>14, <1>15, <1>16, <1>17, <1>18, <1>19, <1>20, <1>21, <1>22,
     <1>23, <1>24, <1>25, <1>26, <1>27, <1>28, <1>29, <1>30, <1>31, <1>32,
     <1>33, <1>34, <1>35, <1>36, <1>37, <1>38, <1>39, <1>40, <1>41, <1>42,
     <1>43, <1>44, <1>45, <1>46, <1>47, <1>48, <1>49
    DEF PowerPolicyNext, PowerPolicyEntersState

(* The PnP machine is the one that prepares and releases the hardware      *)
HwAfter(s, next) ==
    IF next = Null THEN s \in HwWaiting
    ELSE IF next \in PnpNoEntry THEN next \in HwWaiting ELSE next \in HwEntering

LEMMA PnpTurns ==
    ASSUME CountInv, StageInv, NEW s, NEW next, NEW posts, PnpEntry(s, next, posts),
           device' \in Device, device'.up \cap InD0 = device.up \cap InD0,
           "Hardware" \in device'.up <=> HwAfter(s, next),
           device'.smio = "Started" => device.smio = "Started",
           "stage" \notin device'.misused, irps' = irps, os' \in Os
    PROVE  StageInv'
<1>1. DOMAIN at = Machines /\ Machines = {"pnp", "policy", "power"}
  BY DEF CountInv, Machines
<1>2. /\ entering' \subseteq Machines /\ PowerStages' = PowerStages
      /\ (Prepared' <=> HwAfter(s, next)) /\ (Running' <=> Running)
  BY <1>1 DEF PnpEntry, Entry, EnterNewState, PowerStages, Prepared, Running, HwAfter, StageInv
<1>3. QED
  BY <1>2 DEF StageInv

(* an entry function that leaves the hardware as it is *)
LEMMA PnpKeepsHardware ==
    ASSUME CountInv, StageInv, NEW s, NEW next, NEW posts, PnpEntry(s, next, posts),
           s \in HwEntering <=> HwAfter(s, next),
           device' \in Device, device'.up = device.up,
           device'.smio = "Started" => device.smio = "Started",
           "stage" \notin device'.misused, irps' = irps, os' \in Os
    PROVE  StageInv'
<1>1. "Hardware" \in device.up <=> s \in HwEntering
  BY DEF PnpEntry, Entry, StageInv, Prepared
<1>2. QED
  BY <1>1, PnpTurns

(* what becomes of the IRP *)
LEMMA PnpIrpTypes ==
    ASSUME NEW o \in Os
    PROVE  /\ FinishProcessingIrp(o) \in Os
           /\ FailPendingIrp(o) \in Os
           /\ [o EXCEPT !.below = TRUE] \in Os
           /\ [o EXCEPT !.below = FALSE] \in Os
           /\ \A s \in {"S0", "sleeping", "Sx"} : [o EXCEPT !.sys = s] \in Os
           /\ \A irp \in DOMAIN Succeeded : [o EXCEPT !.pnp = irp] \in Os
           /\ [o EXCEPT !.pnp = "none", !.ok = TRUE, !.manager = Succeeded["Remove"]] \in Os
<1>1. \A p \in DOMAIN Succeeded : Succeeded[p] \in DOMAIN ManagerMay /\ Refused[p] \in DOMAIN ManagerMay
  <2>1. DOMAIN Succeeded = {"StartDevice", "QueryStop", "CancelStop", "Stop", "QueryRemove",
                            "CancelRemove", "SurpriseRemove", "Remove"}
    BY DEF Succeeded
  <2>2. DOMAIN ManagerMay = {"added", "started", "startFailed", "stopRefused", "removeRefused",
                             "stopQueried", "stopped", "removeQueried", "surprised", "removed"}
    BY DEF ManagerMay
  <2>3. \A p \in DOMAIN Succeeded : Succeeded[p] \in DOMAIN ManagerMay
    BY <2>1, <2>2 DEF Succeeded
  <2>4. \A p \in DOMAIN Succeeded :
          Refused[p] \in {Succeeded[p], "startFailed", "stopRefused", "removeRefused"}
    BY DEF Refused
  <2>5. QED
    BY <2>2, <2>3, <2>4
<1>2. FinishProcessingIrp(o) \in Os
  <2>1. CASE o.pnp \in {"none", "Remove"}
    BY <2>1 DEF FinishProcessingIrp
  <2>2. CASE o.pnp \notin {"none", "Remove"}
    <3>1. o.pnp \in DOMAIN Succeeded
      BY <2>2 DEF Os
    <3>2. PICK m \in DOMAIN ManagerMay :
            FinishProcessingIrp(o) = [o EXCEPT !.pnp = "none", !.ok = TRUE, !.manager = m]
      BY <1>1, <2>2, <3>1 DEF FinishProcessingIrp
    <3>3. QED
      BY <3>2 DEF Os
  <2>3. QED
    BY <2>1, <2>2
<1>3. [o EXCEPT !.pnp = "none", !.ok = TRUE, !.manager = Succeeded["Remove"]] \in Os
  <2>1. Succeeded["Remove"] \in DOMAIN ManagerMay
    BY <1>1 DEF Succeeded
  <2>2. QED
    BY <2>1 DEF Os
<1>4. QED
  BY <1>2, <1>3 DEF FailPendingIrp, Os

(* kinds of entry functions *)
LEMMA PnpPostsStages ==
    ASSUME CountInv, StageInv, NEW s, NEW next, NEW posts, PnpPosts(s, next, posts),
           s \in HwEntering <=> HwAfter(s, next)
    PROVE  StageInv'
BY PnpKeepsHardware DEF PnpPosts, PnpKeeps, StageInv

LEMMA PnpFinishesStages ==
    ASSUME CountInv, StageInv, NEW s, NEW next, PnpFinishes(s, next),
           s \in HwEntering <=> HwAfter(s, next)
    PROVE  StageInv'
BY PnpKeepsHardware, PnpIrpTypes DEF PnpFinishes, PnpKeeps, StageInv

LEMMA SendsStartDownStages ==
    ASSUME CountInv, StageInv, NEW s, SendsStartDown(s), s \in HwEntering <=> HwAfter(s, Null)
    PROVE  StageInv'
BY PnpKeepsHardware, PnpIrpTypes DEF SendsStartDown, PnpKeeps, StageInv

LEMMA StaticCheckStages ==
    ASSUME CountInv, StageInv, NEW s \in HwEntering, NEW next, StaticCheck(s, next),
           HwAfter(s, next), HwAfter(s, "Started")
    PROVE  StageInv'
<1>1. os' \in Os /\ irps' = irps /\ device' = device
  BY PnpIrpTypes DEF StaticCheck, PnpKeeps, StageInv
<1>2. QED
  BY <1>1, PnpKeepsHardware DEF StaticCheck, StageInv

LEMMA EnsureDeviceAwakeStages ==
    ASSUME CountInv, StageInv, NEW s \in HwEntering, NEW pending, EnsureDeviceAwake(s, pending),
           HwAfter(s, pending), HwAfter(s, "Started"), HwAfter(s, Null)
    PROVE  StageInv'
<1>1. os' \in Os /\ irps' = irps /\ device' = device
  BY PnpIrpTypes DEF EnsureDeviceAwake, StageInv
<1>2. PICK next \in {pending, Null, "Started"}, posts \in {IdlePosts(Idle!IoIncrementForPnp(idle)), <<>>} :
        PnpEntry(s, next, posts)
  BY DEF EnsureDeviceAwake
<1>3. QED
  BY <1>1, <1>2, PnpKeepsHardware DEF StageInv

LEMMA DereferencesStages ==
    ASSUME CountInv, StageInv, NEW s \in HwEntering, NEW next, NEW posts, Dereferences(s, next, posts),
           HwAfter(s, next)
    PROVE  StageInv'
<1>1. PnpEntry(s, next, posts \o IdlePosts(Idle!IoDecrement(idle))) /\ UNCHANGED <<device, irps, os>>
  BY DEF Dereferences
<1>2. QED
  BY <1>1, PnpKeepsHardware DEF StageInv

(* the hardware is prepared, or the IRP fails *)
LEMMA PreparesStages ==
    ASSUME CountInv, StageInv, NEW s, s \notin HwEntering, NEW next, NEW posts, PnpEntry(s, next, posts),
           HwAfter(s, next),
           device' \in {Begin(device, {"Hardware"}), SetInternalFailure(Begin(device, {"Hardware"}))},
           irps' = irps, os' \in Os
    PROVE  StageInv'
<1>1. "Hardware" \notin device.up /\ device \in Device /\ "stage" \notin device.misused
  BY DEF PnpEntry, Entry, StageInv, Prepared
<1> DEFINE d == Begin(device, {"Hardware"})
<1>2. {"Hardware"} \in SUBSET Stages /\ {"Hardware"} \cap device.up = {} /\ "Hardware" \notin InD0
  BY <1>1, StageNames
<1>3. /\ d \in Device /\ d.up = device.up \cup {"Hardware"} /\ d.misused = device.misused
      /\ d.smio = device.smio
  BY <1>1, <1>2, Begins
<1> HIDE DEF d
<1>4. device' = d \/ device' = SetInternalFailure(d)
  BY DEF d
<1>5. /\ device' \in Device /\ device'.up = d.up /\ device'.misused = d.misused
      /\ device'.smio = d.smio
  BY <1>3, <1>4, Flags DEF SetInternalFailure
<1>6. device'.up \cap InD0 = device.up \cap InD0 /\ "Hardware" \in device'.up
  BY <1>2, <1>3, <1>5
<1>7. QED
  BY <1>1, <1>3, <1>5, <1>6, PnpTurns

LEMMA PrepareHardwareStages ==
    ASSUME CountInv, StageInv, NEW s, s \notin HwEntering, NEW ok, NEW posts, NEW early, NEW late,
           PrepareHardware(s, ok, posts, early, late),
           HwAfter(s, ok), HwAfter(s, late), ~HwAfter(s, early)
    PROVE  StageInv'
<1>1. os' \in Os /\ irps' = irps
  BY PnpIrpTypes DEF PrepareHardware, PnpKeeps, StageInv
<1>2. CASE PnpEntry(s, ok, posts) /\ device' = Begin(device, {"Hardware"})
  BY <1>1, <1>2, PreparesStages
<1>3. CASE PnpEntry(s, late, <<>>) /\ device' = SetInternalFailure(Begin(device, {"Hardware"}))
  BY <1>1, <1>3, PreparesStages
<1>4. CASE PnpEntry(s, early, <<>>) /\ device' = SetInternalFailure(device)
  <2>1. /\ device' \in Device /\ device'.up = device.up /\ device'.misused = device.misused
        /\ device'.smio = device.smio
    BY <1>4, Flags DEF SetInternalFailure, StageInv
  <2>2. QED
    BY <1>1, <1>4, <2>1, PnpKeepsHardware DEF StageInv
<1>5. QED
  BY <1>2, <1>3, <1>4 DEF PrepareHardware

(* the hardware is released *)
LEMMA HardwareEnds ==
    ASSUME StageInv, "Hardware" \in device.up, NEW d, d = End(device, {"Hardware"})
    PROVE  /\ d \in Device /\ "stage" \notin d.misused /\ "Hardware" \notin d.up
           /\ d.up \cap InD0 = device.up \cap InD0 /\ d.smio = device.smio
<1>1. {"Hardware"} \in SUBSET Stages /\ {"Hardware"} \subseteq device.up /\ "Hardware" \notin InD0
  BY StageNames
<1>2. device \in Device /\ "stage" \notin device.misused
  BY DEF StageInv
<1>3. /\ d \in Device /\ d.up = device.up \ {"Hardware"} /\ d.misused = device.misused
      /\ d.smio = device.smio
  BY <1>1, <1>2, Ends
<1>4. QED
  BY <1>1, <1>2, <1>3

LEMMA ReleasesHardware ==
    ASSUME CountInv, StageInv, NEW s \in HwEntering, NEW next, NEW posts, PnpEntry(s, next, posts),
           ~HwAfter(s, next), NEW d, d = End(device, {"Hardware"}),
           device' \in Device, device'.up = d.up, device'.smio = "Started" => d.smio = "Started",
           "stage" \in device'.misused => "stage" \in d.misused, irps' = irps, os' \in Os
    PROVE  StageInv'
<1>1. "Hardware" \in device.up
  BY DEF PnpEntry, Entry, StageInv, Prepared
<1>2. QED
  BY <1>1, HardwareEnds, PnpTurns

LEMMA PnpStoppedStages ==
    ASSUME CountInv, StageInv, PnpEventStopped
    PROVE  StageInv'
<1>1. PICK next \in {Null, "Failed"} : PnpEntry("Stopped", next, <<>>)
  BY DEF PnpEventStopped
<1>2. "Stopped" \in HwEntering /\ ~HwAfter("Stopped", next)
  BY <1>1 DEF HwEntering, HwWaiting, HwAfter, Null, PnpNoEntry
<1> DEFINE d == End(device, {"Hardware"})
<1>3. d \in Device
  BY <1>1, <1>2, HardwareEnds DEF PnpEntry, Entry, StageInv, Prepared
<1>4. device' = d \/ device' = SetInternalFailure(d)
  BY DEF PnpEventStopped
<1> HIDE DEF d
<1>5. /\ device' \in Device /\ device'.up = d.up /\ device'.misused = d.misused
      /\ device'.smio = d.smio
  BY <1>3, <1>4, Flags DEF SetInternalFailure
<1>6. irps' = irps /\ os' \in Os
  BY PnpIrpTypes DEF PnpEventStopped, PnpKeeps, StageInv
<1>7. QED
  BY <1>1, <1>2, <1>5, <1>6, ReleasesHardware DEF d

LEMMA PnpRemovingStages ==
    ASSUME CountInv, StageInv, PnpEventRemovingDisableInterfaces
    PROVE  StageInv'
<1> DEFINE s == "RemovingDisableInterfaces"
           d == End(device, {"Hardware"})
<1>1. PnpEntry(s, Null, ToPolicy("Remove")) /\ irps' = irps /\ os' = os
  BY DEF PnpEventRemovingDisableInterfaces, PnpKeeps
<1>2. s \in HwEntering /\ ~HwAfter(s, Null)
  BY DEF HwEntering, HwWaiting, HwAfter, Null, PnpNoEntry
<1>3. d \in Device
  BY <1>1, <1>2, HardwareEnds DEF PnpEntry, Entry, StageInv, Prepared
<1> HIDE DEF d
<1>4. PICK o \in SelfManaged!ProcessEvent(d.smio, "Flush") : device' = SelfManagedBecomes(d, "Flush", o)
  BY DEF PnpEventRemovingDisableInterfaces, CleanupForRemove, d
<1>5. /\ device' \in Device /\ device'.up = d.up /\ ("stage" \in device'.misused <=> "stage" \in d.misused)
      /\ device'.smio = "Started" => d.smio = "Started"
  BY <1>3, <1>4, SelfManages
<1>6. QED
  BY <1>1, <1>2, <1>5, ReleasesHardware DEF d, StageInv

LEMMA PnpFailedOwnHardwareStages ==
    ASSUME CountInv, StageInv, PnpEventFailedOwnHardware
    PROVE  StageInv'
<1> DEFINE s == "FailedOwnHardware"
<1>1. /\ PnpEntry(s, "Failed", <<>>) /\ irps' = irps /\ os' = os
      /\ device' = End(device, {"Hardware"})
  BY DEF PnpEventFailedOwnHardware, PnpKeeps
<1>2. s \in HwEntering /\ ~HwAfter(s, "Failed")
  BY DEF HwEntering, HwWaiting, HwAfter, Null, PnpNoEntry
<1>3. device' \in Device
  BY <1>1, <1>2, HardwareEnds DEF PnpEntry, Entry, StageInv, Prepared
<1>4. QED
  BY <1>1, <1>2, <1>3, ReleasesHardware DEF StageInv

(* self managed I/O is flushed or cleaned up *)
LEMMA PnpSelfManagesStages ==
    ASSUME CountInv, StageInv, NEW s, NEW next, NEW posts, PnpEntry(s, next, posts),
           s \in HwEntering <=> HwAfter(s, next),
           NEW e \in {"Flush", "Cleanup"}, NEW o \in SelfManaged!ProcessEvent(device.smio, e),
           device' = SelfManagedBecomes(device, e, o), irps' = irps, os' = os
    PROVE  StageInv'
BY SelfManages, PnpKeepsHardware DEF StageInv

LEMMA PnpInternalFailureStages ==
    ASSUME CountInv, StageInv, NEW s, NEW next, NEW posts, PnpEntry(s, next, posts),
           s \in HwEntering <=> HwAfter(s, next),
           device' \in {device, SetInternalFailure(device)}, irps' = irps, os' \in Os
    PROVE  StageInv'
<1>1. /\ device' \in Device /\ device'.up = device.up /\ device'.misused = device.misused
      /\ device'.smio = device.smio
  BY Flags DEF SetInternalFailure, StageInv
<1>2. QED
  BY <1>1, PnpKeepsHardware DEF StageInv

(* a row of the table *)
LEMMA PnpRowStages ==
    \A r \in PnpRows :
      r[1] \in HwWaiting <=> IF r[3] \in PnpNoEntry THEN r[3] \in HwWaiting ELSE r[3] \in HwEntering
BY DEF PnpRows, PnpStartRows, PnpStopRows, PnpRemoveRows, PnpNoEntry, HwWaiting, HwEntering

LEMMA PnpEventStages ==
    ASSUME CountInv, StageInv, PnpProcessEventInner
    PROVE  StageInv'
<1>1. "pnp" \notin entering /\ DOMAIN at = Machines /\ "pnp" \in Machines /\ "pnp" # "power"
  BY DEF PnpProcessEventInner, Takes, CountInv, Machines
<1>2. device' = device /\ irps' = irps /\ os' \in Os
  BY PnpIrpTypes DEF PnpProcessEventInner, StageInv
<1>3. ASSUME NEW r \in Row("pnp", PnpRows), EnterNewState("pnp", r[3], PnpNoEntry)
      PROVE  StageInv'
  <2>1. r \in PnpRows /\ at["pnp"] = r[1]
    BY DEF Row
  <2>2. (Prepared' <=> Prepared) /\ entering' \subseteq Machines
    BY <1>1, <1>3, <2>1, PnpRowStages DEF EnterNewState, Prepared, StageInv
  <2>3. PowerStages' = PowerStages /\ (Running' <=> Running)
    BY <1>1, <1>3 DEF EnterNewState, PowerStages, Running
  <2>4. QED
    BY <1>2, <2>2, <2>3 DEF StageInv
<1>4. CASE UNCHANGED <<at, entering>>
  BY <1>2, <1>4 DEF StageInv, PowerStages, Prepared, Running
<1>5. QED
  BY <1>3, <1>4 DEF PnpProcessEventInner

(* a step of the machine *)
LEMMA PnpKeepsStages ==
    ASSUME CountInv, StageInv, PnpNext
    PROVE  StageInv'
<1>1. CASE PnpProcessEventInner
  BY <1>1, PnpEventStages
<1>2. CASE PnpEventInitStarting
  BY <1>2, SendsStartDownStages
    DEF PnpEventInitStarting, HwEntering, HwWaiting, HwAfter, Null, PnpNoEntry
<1>3. CASE PnpEventHardwareAvailable
  BY <1>3, PrepareHardwareStages, PreparesStages, PnpIrpTypes
    DEF PnpEventHardwareAvailable, PnpKeeps, StageInv, HwEntering, HwWaiting,
        HwAfter, Null, PnpNoEntry
<1>4. CASE PnpEventEnableInterfaces
  BY <1>4, PnpInternalFailureStages, PnpIrpTypes
    DEF PnpEventEnableInterfaces, PnpKeeps, StageInv, HwEntering, HwWaiting,
        HwAfter, Null, PnpNoEntry
<1>5. CASE PnpEventHardwareAvailablePowerPolicyFailed
  BY <1>5, PnpInternalFailureStages, PnpIrpTypes
    DEF PnpEventHardwareAvailablePowerPolicyFailed, PnpKeeps, StageInv,
        HwEntering, HwWaiting, HwAfter, Null, PnpNoEntry
<1>6. CASE PnpEventFailedInit
  BY <1>6, PnpFinishesStages
    DEF PnpEventFailedInit, HwEntering, HwWaiting, HwAfter, Null, PnpNoEntry
<1>7. CASE PnpEventStarted
  BY <1>7, PnpFinishesStages
    DEF PnpEventStarted, HwEntering, HwWaiting, HwAfter, Null, PnpNoEntry
<1>8. CASE PnpEventStartedCancelStop
  BY <1>8, PnpPostsStages
    DEF PnpEventStartedCancelStop, PnpPasses, HwEntering, HwWaiting, HwAfter,
        Null, PnpNoEntry
<1>9. CASE PnpEventStartedCancelRemove
  BY <1>9, PnpPostsStages
    DEF PnpEventStartedCancelRemove, PnpPasses, HwEntering, HwWaiting, HwAfter,
        Null, PnpNoEntry
<1>10. CASE PnpEventQueryStopStaticCheck
  BY <1>10, StaticCheckStages
    DEF PnpEventQueryStopStaticCheck, HwEntering, HwWaiting, HwAfter, Null,
        PnpNoEntry
<1>11. CASE PnpEventQueryStopAskDriver
  BY <1>11, StaticCheckStages
    DEF PnpEventQueryStopAskDriver, HwEntering, HwWaiting, HwAfter, Null,
        PnpNoEntry
<1>12. CASE PnpEventQueryRemoveStaticCheck
  BY <1>12, StaticCheckStages
    DEF PnpEventQueryRemoveStaticCheck, HwEntering, HwWaiting, HwAfter, Null,
        PnpNoEntry
<1>13. CASE PnpEventQueryRemoveAskDriver
  BY <1>13, StaticCheckStages
    DEF PnpEventQueryRemoveAskDriver, HwEntering, HwWaiting, HwAfter, Null,
        PnpNoEntry
<1>14. CASE PnpEventQueryStopEnsureDeviceAwake
  BY <1>14, EnsureDeviceAwakeStages
    DEF PnpEventQueryStopEnsureDeviceAwake, HwEntering, HwWaiting, HwAfter,
        Null, PnpNoEntry
<1>15. CASE PnpEventQueryRemoveEnsureDeviceAwake
  BY <1>15, EnsureDeviceAwakeStages
    DEF PnpEventQueryRemoveEnsureDeviceAwake, HwEntering, HwWaiting, HwAfter,
        Null, PnpNoEntry
<1>16. CASE PnpEventQueryStopPending
  BY <1>16, PnpFinishesStages
    DEF PnpEventQueryStopPending, HwEntering, HwWaiting, HwAfter, Null,
        PnpNoEntry
<1>17. CASE PnpEventQueryRemovePending
  BY <1>17, PnpFinishesStages
    DEF PnpEventQueryRemovePending, HwEntering, HwWaiting, HwAfter, Null,
        PnpNoEntry
<1>18. CASE PnpEventQueryCanceled
  BY <1>18, DereferencesStages
    DEF PnpEventQueryCanceled, HwEntering, HwWaiting, HwAfter, Null, PnpNoEntry
<1>19. CASE PnpEventStartedStopping
  BY <1>19, DereferencesStages
    DEF PnpEventStartedStopping, HwEntering, HwWaiting, HwAfter, Null,
        PnpNoEntry
<1>20. CASE PnpEventQueriedRemoving
  BY <1>20, DereferencesStages
    DEF PnpEventQueriedRemoving, HwEntering, HwWaiting, HwAfter, Null,
        PnpNoEntry
<1>21. CASE PnpEventQueriedSurpriseRemove
  BY <1>21, DereferencesStages
    DEF PnpEventQueriedSurpriseRemove, HwEntering, HwWaiting, HwAfter, Null,
        PnpNoEntry
<1>22. CASE PnpEventStopped
  BY <1>22, PnpStoppedStages
<1>23. CASE PnpEventStoppedWaitForStartCompletion
  BY <1>23, SendsStartDownStages
    DEF PnpEventStoppedWaitForStartCompletion, HwEntering, HwWaiting, HwAfter,
        Null, PnpNoEntry
<1>24. CASE PnpEventStartingFromStopped
  BY <1>24, PrepareHardwareStages
    DEF PnpEventStartingFromStopped, HwEntering, HwWaiting, HwAfter, Null,
        PnpNoEntry
<1>25. CASE PnpEventRestarting
  BY <1>25, PnpPostsStages
    DEF PnpEventRestarting, HwEntering, HwWaiting, HwAfter, Null, PnpNoEntry
<1>26. CASE PnpEventRemovingDisableInterfaces
  BY <1>26, PnpRemovingStages
<1>27. CASE PnpEventSurpriseRemoved
  BY <1>27, PnpPostsStages
    DEF PnpEventSurpriseRemoved, PnpPasses, HwEntering, HwWaiting, HwAfter,
        Null, PnpNoEntry
<1>28. CASE PnpEventSurpriseRemoveIoStarted
  BY <1>28, PnpPostsStages
    DEF PnpEventSurpriseRemoveIoStarted, PnpPasses, HwEntering, HwWaiting,
        HwAfter, Null, PnpNoEntry
<1>29. CASE PnpEventFailedPowerDown
  BY <1>29, PnpPostsStages
    DEF PnpEventFailedPowerDown, HwEntering, HwWaiting, HwAfter, Null,
        PnpNoEntry
<1>30. CASE PnpEventFailedIoStarting
  BY <1>30, PnpPostsStages
    DEF PnpEventFailedIoStarting, HwEntering, HwWaiting, HwAfter, Null,
        PnpNoEntry
<1>31. CASE PnpEventFailedOwnHardware
  BY <1>31, PnpFailedOwnHardwareStages
<1>32. CASE PnpEventFailed
  BY <1>32, PnpSelfManagesStages
    DEF PnpEventFailed, CleanupForRemove, PnpKeeps, HwEntering, HwWaiting,
        HwAfter, Null, PnpNoEntry
<1>33. CASE PnpEventFailedPowerPolicyRemoved
  BY <1>33, PnpFinishesStages
    DEF PnpEventFailedPowerPolicyRemoved, HwEntering, HwWaiting, HwAfter, Null,
        PnpNoEntry
<1>34. CASE PnpEventFailedSurpriseRemoved
  BY <1>34, PnpFinishesStages
    DEF PnpEventFailedSurpriseRemoved, HwEntering, HwWaiting, HwAfter, Null,
        PnpNoEntry
<1>35. CASE PnpEventFailedStarted
  BY <1>35, PnpInternalFailureStages, PnpIrpTypes
    DEF PnpEventFailedStarted, PnpKeeps, StageInv, HwEntering, HwWaiting,
        HwAfter, Null, PnpNoEntry
<1>36. CASE PnpEventRemoved
  BY <1>36, PnpPostsStages
    DEF PnpEventRemoved, PnpPasses, HwEntering, HwWaiting, HwAfter, Null,
        PnpNoEntry
<1>37. CASE PnpEventRemovedChildrenRemoved
  BY <1>37, PnpPostsStages
    DEF PnpEventRemovedChildrenRemoved, PnpPasses, HwEntering, HwWaiting,
        HwAfter, Null, PnpNoEntry
<1>38. CASE PnpEventFdoRemoved
  BY <1>38, PnpSelfManagesStages
    DEF PnpEventFdoRemoved, PnpKeeps, HwEntering, HwWaiting, HwAfter, Null,
        PnpNoEntry
<1>39. CASE PnpEventFinal
  <2>1. "Final" \in HwEntering <=> HwAfter("Final", Null)
    BY DEF HwEntering, HwWaiting, HwAfter, Null, PnpNoEntry
  <2>2. QED
    BY <1>39, <2>1, PnpKeepsHardware, PnpIrpTypes DEF PnpEventFinal, PnpKeeps, StageInv
<1>40. QED
  BY <1>1, <1>2, <1>3, <1>4, <1>5, <1>6, <1>7, <1>8, <1>9, <1>10, <1>11, <1>12,
     <1>13, <1>14, <1>15, <1>16, <1>17, <1>18, <1>19, <1>20, <1>21, <1>22,
     <1>23, <1>24, <1>25, <1>26, <1>27, <1>28, <1>29, <1>30, <1>31, <1>32,
     <1>33, <1>34, <1>35, <1>36, <1>37, <1>38, <1>39
    DEF PnpNext, PnpEntersState

(* What the drivers below, the managers, the timer and the users do leaves *)
(* the machines where they are                                             *)
LEMMA AsideStages ==
    ASSUME StageInv, UNCHANGED <<at, entering>>, device' \in Device, device'.up = device.up,
           device'.misused = device.misused, device'.smio = device.smio, irps' \in Irps, os' \in Os
    PROVE  StageInv'
BY DEF StageInv, PowerStages, Prepared, Running

LEMMA DispatchedTypes ==
    ASSUME irps \in Irps, irps.device # <<>>, NEW up \in BOOLEAN, NEW down \in BOOLEAN
    PROVE  /\ [irps EXCEPT !.device[1].stage = "pending", !.up = up, !.down = down] \in Irps
           /\ [irps EXCEPT !.device = Tail(@)] \in Irps
<1> DEFINE I == [to : {"D0", "Dx"}, stage : {"sent", "pending", "released"}]
           first == [irps.device[1] EXCEPT !.stage = "pending"]
<1>1. irps \in [device : Seq(I), up : BOOLEAN, down : BOOLEAN]
  BY DEF Irps
<1>2. irps.device[1] \in I /\ 1 \in DOMAIN irps.device
  <2> HIDE DEF I
  <2>1. QED
    BY <1>1
<1>3. first \in I
  BY <1>2
<1>4. Irps = [device : Seq(I), up : BOOLEAN, down : BOOLEAN]
  BY DEF Irps
<1> HIDE DEF I
<1>5. [irps.device EXCEPT ![1] = first] \in Seq(I) /\ Tail(irps.device) \in Seq(I)
  BY <1>1, <1>2, <1>3, SeqExcept
<1>6. [irps EXCEPT !.device[1].stage = "pending", !.up = up, !.down = down] =
        [irps EXCEPT !.device = [irps.device EXCEPT ![1] = first], !.up = up, !.down = down]
  OBVIOUS
<1> HIDE DEF first
<1>7. [irps EXCEPT !.device = [irps.device EXCEPT ![1] = first], !.up = up, !.down = down] \in Irps
  BY <1>1, <1>4, <1>5
<1>8. [irps EXCEPT !.device = Tail(irps.device)] \in Irps
  BY <1>1, <1>4, <1>5
<1>9. QED
  BY <1>6, <1>7, <1>8

LEMMA SystemKeepsStages ==
    ASSUME StageInv, SystemNext
    PROVE  StageInv'
<1>1. irps \in Irps /\ os \in Os /\ device \in Device
  BY DEF StageInv
<1>2. CASE DispatchDeviceSetPower
  <2>1. irps.device # <<>> /\ (irps.down /\ irps.up) \in BOOLEAN
    BY <1>1, <1>2 DEF DispatchDeviceSetPower, OldestIs, Irps
  <2>2. irps' \in Irps
    BY <1>1, <1>2, <2>1, DispatchedTypes DEF DispatchDeviceSetPower
  <2>3. QED
    BY <1>1, <1>2, <2>2, AsideStages DEF DispatchDeviceSetPower, Posts, environment
<1>3. CASE DevicePowerIrpCompletes
  <2>1. irps.device # <<>>
    BY <1>3 DEF DevicePowerIrpCompletes, OldestIs
  <2>2. irps' \in Irps
    BY <1>1, <1>3, <2>1, DispatchedTypes DEF DevicePowerIrpCompletes
  <2>3. /\ device' \in Device /\ device'.up = device.up /\ device'.misused = device.misused
        /\ device'.smio = device.smio
    BY <1>1, <1>3, Flags DEF DevicePowerIrpCompletes
  <2>4. QED
    BY <1>1, <1>3, <2>2, <2>3, AsideStages DEF DevicePowerIrpCompletes, Posts, environment
<1>4. CASE SystemSleeps
  BY <1>1, <1>4, PnpIrpTypes, AsideStages DEF SystemSleeps, Posts
<1>5. CASE SystemWakes
  BY <1>1, <1>5, PnpIrpTypes, AsideStages DEF SystemWakes, Posts
<1>6. ASSUME NEW irp \in DOMAIN Succeeded, ManagerSends(irp)
      PROVE  StageInv'
  BY <1>1, <1>6, PnpIrpTypes, AsideStages DEF ManagerSends, Posts
<1>7. CASE StartDeviceCompletes
  <2>1. os' \in Os
    <3> DEFINE o == [os EXCEPT !.below = FALSE]
    <3>1. o \in Os
      BY <1>1, PnpIrpTypes
    <3>2. os' = o \/ os' = FinishProcessingIrp(FailPendingIrp(o))
      BY <1>7 DEF StartDeviceCompletes
    <3> HIDE DEF o
    <3>3. QED
      BY <3>1, <3>2, PnpIrpTypes
  <2>2. QED
    BY <1>1, <1>7, <2>1, AsideStages DEF StartDeviceCompletes, Posts
<1>8. CASE TimerDue
  BY <1>1, <1>8, AsideStages DEF TimerDue, machines, environment
<1>9. CASE PowerTimeoutDpcRoutine
  BY <1>1, <1>9, AsideStages DEF PowerTimeoutDpcRoutine, IdleOperation, Posts, environment
<1>10. QED
  BY <1>2, <1>3, <1>4, <1>5, <1>6, <1>7, <1>8, <1>9 DEF SystemNext

LEMMA UserKeepsStages ==
    ASSUME StageInv, UserNext
    PROVE  StageInv'
<1>1. UNCHANGED <<at, entering, device, irps, os>>
  <2>1. CASE SetTransitionFromEmpty
    BY <2>1 DEF SetTransitionFromEmpty, ByUser, IdleOperation, Posts, machines
  <2>2. CASE QueueIsEmpty
    BY <2>2 DEF QueueIsEmpty, ByUser, IdleOperation, Posts, machines
  <2>3. CASE ThreadReferences
    BY <2>3 DEF ThreadReferences, ByUser, Posts
  <2>4. CASE ThreadWaitsForD0
    BY <2>4 DEF ThreadWaitsForD0, ByUser, machines
  <2>5. CASE ThreadGoesOn
    BY <2>5 DEF ThreadGoesOn, ByUser, Posts, machines
  <2>6. CASE ThreadDereferences
    BY <2>6 DEF ThreadDereferences, ByUser, Posts
  <2>7. CASE PowerPolicySetS0IdleState
    BY <2>7 DEF PowerPolicySetS0IdleState, Posts
  <2>8. QED
    BY <2>1, <2>2, <2>3, <2>4, <2>5, <2>6, <2>7 DEF UserNext
<1>2. QED
  BY <1>1, AsideStages DEF StageInv

(* before anything *)
LEMMA StageInit == Init => StageInv
<1> SUFFICES ASSUME Init
             PROVE  StageInv
  OBVIOUS
<1>1. device \in Device /\ device.up = {} /\ device.misused = {} /\ device.smio = "Created"
  BY DEF Init, InitDevice, Device, SelfManaged!SelfManagedIoStates
<1>2. irps \in Irps /\ os \in Os
  BY DEF Init, Irps, Os, ManagerMay
<1>3. entering = {} /\ at["pnp"] = "Init" /\ at["power"] = "ObjectCreated"
  BY DEF Init
<1>4. PowerStages = {} /\ ~Prepared
  BY <1>3 DEF PowerStages, Waiting, Prepared, HwWaiting
<1>5. QED
  BY <1>1, <1>2, <1>3, <1>4 DEF StageInv

(* every step *)
LEMMA StageStep == CountInv /\ StageInv /\ [Next]_vars => StageInv'
<1> SUFFICES ASSUME CountInv, StageInv, [Next]_vars
             PROVE  StageInv'
  OBVIOUS
<1>1. CASE UNCHANGED vars
  BY <1>1, AsideStages DEF vars, StageInv
<1>2. QED
  BY <1>1, PowerKeepsStages, PolicyKeepsStages, PnpKeepsStages, SystemKeepsStages, UserKeepsStages
     DEF Next

(* Every state of the power machine determines which of the device's       *)
(* stages are up, and every state of the PnP machine whether its hardware  *)
(* is prepared, though the two run in threads of their own: so a callback  *)
(* (EvtDeviceD0Entry, EvtDevicePrepareHardware) or a resource is never     *)
(* started twice, or ended without having been started, through power ups  *)
(* and downs that fail at any step (the undo states of the power machine)  *)
(* and removals in any state.  It is the half of CallbacksPaired that is   *)
(* about stages.                                                           *)
THEOREM StagesPaired == Spec => []("stage" \notin device.misused)
<1>1. StageInv => "stage" \notin device.misused
  BY DEF StageInv
<1>2. QED
  BY <1>1, CountInit, CountStep, StageInit, StageStep, PTL DEF Spec

(* The device is in D0 with every stage up when the power machine says so  *)
(* (D0, entered or waited in), none is when it says that it is not (Dx,    *)
(* Stopped, a power up undone), and the hardware is prepared whenever the  *)
(* PnP machine has started the device, and is not when it has given it up. *)
StatesTell ==
    /\ at["power"] = "D0" => InD0 \subseteq device.up
    /\ at["power"] \in {"Dx", "Stopped", "GotoDxFailed", "InitialPowerUpFailed", "ReportPowerUpFailed"} =>
         device.up \cap InD0 = {}
    /\ at["pnp"] = "Started" => "Hardware" \in device.up
    /\ at["pnp"] \in {"Init", "Failed", "Removed", "Final"} => "Hardware" \notin device.up

(* What the machines' states tell is what the driver was called for.       *)
THEOREM StagesFollowStates == Spec => []StatesTell
<1>1. StageInv => StatesTell
  <2> SUFFICES ASSUME StageInv
               PROVE  StatesTell
    OBVIOUS
  <2>1. device.up \cap InD0 = PowerStages /\ ("Hardware" \in device.up <=> Prepared)
    BY DEF StageInv
  <2>2. at["power"] = "D0" => PowerStages = InD0
    BY DEF PowerStages, Entering, Waiting
  <2>3. at["power"] \in {"Dx", "Stopped", "GotoDxFailed", "InitialPowerUpFailed", "ReportPowerUpFailed"} =>
          PowerStages = {}
    BY DEF PowerStages, Entering, Waiting
  <2>4. at["pnp"] = "Started" => Prepared
    BY DEF Prepared, HwEntering, HwWaiting
  <2>5. at["pnp"] \in {"Init", "Failed", "Removed", "Final"} => ~Prepared
    BY DEF Prepared, HwEntering, HwWaiting
  <2>6. QED
    BY <2>1, <2>2, <2>3, <2>4, <2>5 DEF StatesTell
<1>2. QED
  BY <1>1, CountInit, CountStep, StageInit, StageStep, PTL DEF Spec

(* The driver's callbacks that bring the device to D0 and out of it nest:  *)
(* whatever fails, no stage of D0 is up but on those before it, and self   *)
(* managed I/O (EvtDeviceSelfManagedIoInit, Restart) runs only with all of *)
(* them up: with queue I/O started, interrupts connected and DMA enabled.  *)
Nested ==
    /\ \A n \in 3..7 : Ladder[n] \in device.up => Ladder[n - 1] \in device.up
    /\ device.smio = "Started" => InD0 \subseteq device.up

(* Every state keeps the stages nested.                                    *)
THEOREM StagesNest == Spec => []Nested
<1>1. StageInv => Nested
  <2> SUFFICES ASSUME StageInv
               PROVE  Nested
    OBVIOUS
  <2>1. device.up \cap InD0 = PowerStages
    BY DEF StageInv
  <2>2. PowerStages \in {{}, {"D0Entry"}, {"D0Entry", "Resources"},
                        {"D0Entry", "Resources", "PostInterrupts"},
                        {"D0Entry", "Resources", "PostInterrupts", "Dma"}, InD0 \ {"Io"}, InD0}
    BY DEF PowerStages, Entering, Waiting
  <2>3. \A n \in 3..7 : Ladder[n] \in device.up => Ladder[n - 1] \in device.up
    <3> SUFFICES ASSUME NEW n \in 3..7, Ladder[n] \in device.up
                 PROVE  Ladder[n - 1] \in device.up
      OBVIOUS
    <3>1. n = 3 \/ n = 4 \/ n = 5 \/ n = 6 \/ n = 7
      OBVIOUS
    <3>2. \/ Ladder[n] = "Resources" /\ Ladder[n - 1] = "D0Entry"
          \/ Ladder[n] = "PostInterrupts" /\ Ladder[n - 1] = "Resources"
          \/ Ladder[n] = "Dma" /\ Ladder[n - 1] = "PostInterrupts"
          \/ Ladder[n] = "PostHardware" /\ Ladder[n - 1] = "Dma"
          \/ Ladder[n] = "Io" /\ Ladder[n - 1] = "PostHardware"
      BY <3>1 DEF Ladder
    <3>3. Ladder[n] \in InD0 /\ Ladder[n - 1] \in InD0 /\ Ladder[n] \in PowerStages
      BY <2>1, <3>2, StageNames
    <3>4. Ladder[n - 1] \in PowerStages
      BY <2>2, <3>2, <3>3, StageNames
    <3>5. QED
      BY <2>1, <3>4
  <2>4. Running => PowerStages = InD0
    BY DEF Running, RunningEntering, PowerStages, Entering, Waiting
  <2>5. QED
    BY <2>1, <2>3, <2>4 DEF StageInv, Nested
<1>2. QED
  BY <1>1, CountInit, CountStep, StageInit, StageStep, PTL DEF Spec

(* Every variable of the device, of its IRPs and of the managers keeps its *)
(* type, in all plans; in particular the idle machine's count of power     *)
(* references is never decremented below zero.                             *)
THEOREM DeviceTypes == Spec => []TypeOK
<1>1. CountInv /\ StageInv => TypeOK
  <2> SUFFICES ASSUME CountInv, StageInv
               PROVE  TypeOK
    OBVIOUS
  <2>1. idle \in Idle!IdleMachine /\ waiter \in {"none", "pending", "waiting", "released", "held"}
    BY DEF CountInv, Waiters
  <2>2. device.up \subseteq Stages /\ device.smio \in SelfManaged!SelfManagedIoStates
    BY DEF StageInv, Device
  <2>3. /\ irps.device \in Seq([to : {"D0", "Dx"}, stage : {"sent", "pending", "released"}])
        /\ os.sys \in {"S0", "sleeping", "Sx"} /\ os.manager \in DOMAIN ManagerMay
        /\ entering \subseteq Machines
    BY DEF StageInv, Irps, Os
  <2>4. QED
    BY <2>1, <2>2, <2>3 DEF TypeOK, Idle!IdleTypeOK
<1>2. QED
  BY <1>1, CountInit, CountStep, StageInit, StageStep, PTL DEF Spec

=============================================================================
