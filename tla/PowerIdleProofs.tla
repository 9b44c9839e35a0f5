-------------------------- MODULE PowerIdleProofs --------------------------
(***************************************************************************)
(* Proofs about the power idle machine: users that respect its tables get  *)
(* what IdleSound promises, whatever they do in between and however many   *)
(* references they hold.                                                   *)
(*                                                                         *)
(* The functions of the machine are compositions of a few that change one  *)
(* or two of its fields.  Is names the fields of a machine but for what it *)
(* has posted; the lemmas of the first part say how each function changes  *)
(* them, the second part takes the rows of the tables one by one.          *)
(***************************************************************************)
EXTENDS PowerIdle, TLAPS

Timers == {"off", "armed", "fired"}

Is(m, s, f, c, d, t) ==
    /\ m \in IdleMachine
    /\ m.state = s
    /\ m.flags = f
    /\ m.count = c
    /\ m.d0 = d
    /\ m.timer = t
    /\ ~m.trap

Good(m) == m \in IdleMachine /\ IdleSound(m) /\ ~m.trap

(* IdleSound of a machine's fields *)
Sound(s, f, c, d, t) ==
    /\ "TimerStarted" \in f <=> t # "off"
    /\ t # "off" <=> s \in {"TimerRunning", "WaitForTimeout", "DisablingWaitForTimeout"}
    /\ s = "TimerRunning" => c = 0
    /\ s = "TimedOut" /\ c > 0 => "IoPresentSent" \in f
    /\ ~d <=> s \in {"Started", "TimedOut", "InDx"}
    /\ "SendPnpPowerUpEvent" \in f => ~d
    /\ "IsStarted" \in f <=> s # "Stopped"
    /\ "InDx" \in f <=> s = "InDx"
    /\ s \in {"Busy", "TimerRunning", "TimedOut", "WaitForTimeout"} => "TimerEnabled" \in f
    /\ s \in {"Stopped", "Started", "StartedPowerFailed", "Disabled"} => "TimerEnabled" \notin f
    /\ s = "Busy" => c > 0
    /\ s # "PowerFailedWaitForTimeout"

-----------------------------------------------------------------------------
(***************************************************************************)
(* Fields                                                                  *)
(***************************************************************************)

(* A sound machine is one whose fields are sound *)
LEMMA GoodFields ==
    ASSUME NEW m, Good(m)
    PROVE  /\ Is(m, m.state, m.flags, m.count, m.d0, m.timer)
           /\ Sound(m.state, m.flags, m.count, m.d0, m.timer)
BY DEF Good, Is, Sound, IdleSound, TimerTracked, NoTimeoutWhileReferenced,
       IoPresentNotLost, D0EventMeans, FlagsFollow

LEMMA FieldsGood ==
    ASSUME NEW m, NEW s, NEW f, NEW c, NEW d, NEW t,
           Is(m, s, f, c, d, t), Sound(s, f, c, d, t)
    PROVE  Good(m)
BY DEF Good, Is, Sound, IdleSound, TimerTracked, NoTimeoutWhileReferenced,
       IoPresentNotLost, D0EventMeans, FlagsFollow

(* and it stays sound when what it posted is taken *)
LEMMA SettledGood ==
    ASSUME NEW m, Good(m)
    PROVE  Good(Settled(m))
<1> DEFINE s == m.state
           f == m.flags
           c == m.count
           d == m.d0
           t == m.timer
<1>1. Is(m, s, f, c, d, t) /\ Sound(s, f, c, d, t)
  BY GoodFields
<1>2. Is(Settled(m), s, f, c, d, t)
  BY <1>1 DEF Is, Settled, IdleMachine
<1>3. QED
  BY <1>1, <1>2, FieldsGood

(* setting flags *)
LEMMA SetIs ==
    ASSUME NEW m, NEW s, NEW f, NEW c, NEW d, NEW t, Is(m, s, f, c, d, t),
           NEW g \in SUBSET IdleFlags
    PROVE  Is(Set(m, g), s, f \cup g, c, d, t)
BY DEF Is, Set, IdleMachine

(* clearing flags *)
LEMMA ClearIs ==
    ASSUME NEW m, NEW s, NEW f, NEW c, NEW d, NEW t, Is(m, s, f, c, d, t),
           NEW g
    PROVE  Is(Clear(m, g), s, f \ g, c, d, t)
BY DEF Is, Clear, IdleMachine

(* entering a state *)
LEMMA AtIs ==
    ASSUME NEW m, NEW s, NEW f, NEW c, NEW d, NEW t, Is(m, s, f, c, d, t),
           NEW u \in IdleStates
    PROVE  Is(At(m, u), u, f, c, d, t)
BY DEF Is, At, IdleMachine

(* posting an event *)
LEMMA SendIs ==
    ASSUME NEW m, NEW s, NEW f, NEW c, NEW d, NEW t, Is(m, s, f, c, d, t),
           NEW e \in Posts
    PROVE  Is(Send(m, e), s, f, c, d, t)
BY DEF Is, Send, IdleMachine

(* setting or clearing the D0 event *)
LEMMA D0Is ==
    ASSUME NEW m, NEW s, NEW f, NEW c, NEW d, NEW t, Is(m, s, f, c, d, t),
           NEW b \in BOOLEAN
    PROVE  Is([m EXCEPT !.d0 = b], s, f, c, b, t)
BY DEF Is, IdleMachine

(* starting and stopping the timer *)
LEMMA TimerIs ==
    ASSUME NEW m, NEW s, NEW f, NEW c, NEW d, NEW t, Is(m, s, f, c, d, t),
           NEW v \in Timers
    PROVE  Is([m EXCEPT !.timer = v], s, f, c, d, v)
BY DEF Is, IdleMachine, Timers

(* counting a reference *)
LEMMA CountIs ==
    ASSUME NEW m, NEW s, NEW f, NEW c, NEW d, NEW t, Is(m, s, f, c, d, t),
           NEW n \in Nat
    PROVE  Is([m EXCEPT !.count = n], s, f, n, d, t)
BY DEF Is, IdleMachine

(* who waits for the D0 event is released, and the PnP machine is told if it asked *)
LEMMA SendD0NotificationIs ==
    ASSUME NEW m, NEW s, NEW f, NEW c, NEW d, NEW t, Is(m, s, f, c, d, t)
    PROVE  Is(SendD0Notification(m), s, f \ {"SendPnpPowerUpEvent"}, c, TRUE, t)
<1> DEFINE n == [m EXCEPT !.d0 = TRUE]
<1>1. Is(n, s, f, c, TRUE, t)
  BY D0Is
<1>2. n.flags = m.flags /\ m.flags = f
  BY DEF Is, IdleMachine
<1>3. CASE "SendPnpPowerUpEvent" \in f
  <2> HIDE DEF n
  <2>1. Is(Clear(n, {"SendPnpPowerUpEvent"}), s, f \ {"SendPnpPowerUpEvent"}, c, TRUE, t)
    BY <1>1, ClearIs
  <2>2. "DeviceInD0" \in Posts
    BY DEF Posts
  <2>3. Is(Send(Clear(n, {"SendPnpPowerUpEvent"}), "DeviceInD0"),
           s, f \ {"SendPnpPowerUpEvent"}, c, TRUE, t)
    BY <2>1, <2>2, SendIs
  <2>4. SendD0Notification(m) = Send(Clear(n, {"SendPnpPowerUpEvent"}), "DeviceInD0")
    BY <1>2, <1>3 DEF SendD0Notification, n
  <2>5. QED
    BY <2>3, <2>4
<1>4. CASE "SendPnpPowerUpEvent" \notin f
  <2>1. SendD0Notification(m) = n
    BY <1>2, <1>4 DEF SendD0Notification
  <2>2. f \ {"SendPnpPowerUpEvent"} = f
    BY <1>4
  <2>3. QED
    BY <1>1, <2>1, <2>2
<1>5. QED
  BY <1>3, <1>4

-----------------------------------------------------------------------------
(***************************************************************************)
(* Entry functions                                                         *)
(***************************************************************************)

(* no reference is granted *)
LEMMA StoppedIs ==
    ASSUME NEW m, NEW s, NEW f, NEW c, NEW d, NEW t, Is(m, s, f, c, d, t)
    PROVE  Is(Stopped(m), "Stopped", f \ {"IsStarted"}, c, d, t)
BY ClearIs, AtIs DEF Stopped, IdleStates

(* the D0 event is cleared until the first power up *)
LEMMA StartedIs ==
    ASSUME NEW m, NEW s, NEW f, NEW c, NEW d, NEW t, Is(m, s, f, c, d, t)
    PROVE  Is(Started(m), "Started", f \cup {"IsStarted"}, c, FALSE, t)
BY D0Is, SetIs, AtIs DEF Started, IdleStates, IdleFlags

(* references power up nothing, nothing times out *)
LEMMA DisabledIs ==
    ASSUME NEW m, NEW s, NEW f, NEW c, NEW d, NEW t, Is(m, s, f, c, d, t)
    PROVE  Is(Disabled(m), "Disabled", f \ {"TimerEnabled"}, c, d, t)
BY ClearIs, AtIs DEF Disabled, IdleStates

(* the first power up *)
LEMMA StartedPowerUpIs ==
    ASSUME NEW m, NEW s, NEW f, NEW c, NEW d, NEW t, Is(m, s, f, c, d, t)
    PROVE  Is(StartedPowerUp(m), "Disabled", (f \ {"SendPnpPowerUpEvent"}) \ {"TimerEnabled"}, c, TRUE, t)
BY SendD0NotificationIs, DisabledIs DEF StartedPowerUp

(* the first power up failed *)
LEMMA StartedPowerFailedIs ==
    ASSUME NEW m, NEW s, NEW f, NEW c, NEW d, NEW t, Is(m, s, f, c, d, t)
    PROVE  Is(StartedPowerFailed(m), "StartedPowerFailed", (f \cup {"PowerFailed"}) \ {"SendPnpPowerUpEvent"}, c, TRUE, t)
BY SetIs, SendD0NotificationIs, AtIs DEF StartedPowerFailed, IdleStates, IdleFlags

(* nobody holds a reference *)
LEMMA StartTimerIs ==
    ASSUME NEW m, NEW s, NEW f, NEW c, NEW d, NEW t, Is(m, s, f, c, d, t)
    PROVE  Is(StartTimer(m), "TimerRunning", f \cup {"TimerStarted"}, c, d, "armed")
BY TimerIs, SetIs, AtIs DEF StartTimer, IdleStates, IdleFlags, Timers

(* a reference was given back: the last one? *)
LEMMA DecrementIoIs ==
    ASSUME NEW m, NEW s, NEW f, NEW c, NEW d, NEW t, Is(m, s, f, c, d, t)
    PROVE  Is(DecrementIo(m), IF c = 0 THEN "TimerRunning" ELSE "Busy", IF c = 0 THEN f \cup {"TimerStarted"} ELSE f, c, d, IF c = 0 THEN "armed" ELSE t)
<1>1. m.count = c /\ "Busy" \in IdleStates
  BY DEF Is, IdleStates
<1>2. CASE c = 0
  BY <1>1, <1>2, StartTimerIs DEF DecrementIo
<1>3. CASE c # 0
  BY <1>1, <1>3, AtIs DEF DecrementIo
<1>4. QED
  BY <1>2, <1>3

(* the timer is enabled: does anybody hold a reference? *)
LEMMA CheckIoCountIs ==
    ASSUME NEW m, NEW s, NEW f, NEW c, NEW d, NEW t, Is(m, s, f, c, d, t)
    PROVE  Is(CheckIoCount(m), IF c = 0 THEN "TimerRunning" ELSE "Busy", IF c = 0 THEN f \cup {"TimerEnabled", "TimerStarted"}
                                  ELSE f \cup {"TimerEnabled"}, c, d, IF c = 0 THEN "armed" ELSE t)
<1>1. Is(Set(m, {"TimerEnabled"}), s, f \cup {"TimerEnabled"}, c, d, t)
  BY SetIs DEF IdleFlags
<1>2. (f \cup {"TimerEnabled"}) \cup {"TimerStarted"} = f \cup {"TimerEnabled", "TimerStarted"}
  OBVIOUS
<1>3. QED
  BY <1>1, <1>2, DecrementIoIs DEF CheckIoCount

(* the idle timer expired *)
LEMMA TimingOutIs ==
    ASSUME NEW m, NEW s, NEW f, NEW c, NEW d, NEW t, Is(m, s, f, c, d, t)
    PROVE  Is(TimingOut(m), "TimedOut", f \ {"TimerStarted"}, c, FALSE, t)
BY SendIs, ClearIs, D0Is, AtIs DEF TimingOut, IdleStates, Posts

(* the power policy machine is told of a reference *)
LEMMA SendIoPresentIs ==
    ASSUME NEW m, NEW s, NEW f, NEW c, NEW d, NEW t, Is(m, s, f, c, d, t)
    PROVE  Is(SendIoPresent(m), s, f \cup {"IoPresentSent"}, c, d, t)
<1>1. m.flags = f
  BY DEF Is
<1>2. CASE "IoPresentSent" \in f
  <2>1. f \cup {"IoPresentSent"} = f
    BY <1>2
  <2>2. QED
    BY <1>1, <1>2, <2>1 DEF SendIoPresent
<1>3. CASE "IoPresentSent" \notin f
  BY <1>1, <1>3, SendIs, SetIs DEF SendIoPresent, Posts, IdleFlags
<1>4. QED
  BY <1>2, <1>3

(* a reference taken after the timeout *)
LEMMA TimedOutIoIncrementIs ==
    ASSUME NEW m, NEW s, NEW f, NEW c, NEW d, NEW t, Is(m, s, f, c, d, t)
    PROVE  Is(TimedOutIoIncrement(m), "TimedOut", f \cup {"IoPresentSent"}, c, d, t)
BY SendIoPresentIs, AtIs DEF TimedOutIoIncrement, IdleStates

(* the device is in Dx *)
LEMMA InDxIs ==
    ASSUME NEW m, NEW s, NEW f, NEW c, NEW d, NEW t, Is(m, s, f, c, d, t)
    PROVE  Is(InDx(m), "InDx", f \cup {"InDx"}, c, d, t)
BY SetIs, AtIs DEF InDx, IdleStates, IdleFlags

(* powering down *)
LEMMA GoingToDxIs ==
    ASSUME NEW m, NEW s, NEW f, NEW c, NEW d, NEW t, Is(m, s, f, c, d, t)
    PROVE  Is(GoingToDx(m), "InDx", f \cup {"InDx"}, c, FALSE, t)
BY D0Is, InDxIs DEF GoingToDx

(* powering down after a timeout *)
LEMMA TimedOutPowerDownIs ==
    ASSUME NEW m, NEW s, NEW f, NEW c, NEW d, NEW t, Is(m, s, f, c, d, t)
    PROVE  Is(TimedOutPowerDown(m), "InDx", (f \ {"IoPresentSent"}) \cup {"InDx"}, c, FALSE, t)
BY ClearIs, GoingToDxIs DEF TimedOutPowerDown

(* the device can no longer be powered *)
LEMMA PowerFailedIs ==
    ASSUME NEW m, NEW s, NEW f, NEW c, NEW d, NEW t, Is(m, s, f, c, d, t)
    PROVE  Is(PowerFailed(m), "Disabled", (((f \ {"TimerEnabled"}) \cup {"PowerFailed"})
                               \ {"SendPnpPowerUpEvent"}) \ {"TimerEnabled"}, c, TRUE, t)
BY ClearIs, SetIs, SendD0NotificationIs, DisabledIs DEF PowerFailed, IdleFlags

(* a power down that failed after a timeout *)
LEMMA TimedOutPowerDownFailedIs ==
    ASSUME NEW m, NEW s, NEW f, NEW c, NEW d, NEW t, Is(m, s, f, c, d, t)
    PROVE  Is(TimedOutPowerDownFailed(m), "Disabled", ((((f \ {"IoPresentSent"}) \ {"TimerEnabled"}) \cup {"PowerFailed"})
           \ {"SendPnpPowerUpEvent"}) \ {"TimerEnabled"}, c, TRUE, t)
BY ClearIs, PowerFailedIs DEF TimedOutPowerDownFailed

(* a reference taken in Dx *)
LEMMA InDxIoIncrementIs ==
    ASSUME NEW m, NEW s, NEW f, NEW c, NEW d, NEW t, Is(m, s, f, c, d, t)
    PROVE  Is(InDxIoIncrement(m), "InDx", f \cup {"IoPresentSent"}, c, d, t)
BY SendIoPresentIs, AtIs DEF InDxIoIncrement, IdleStates

(* a power up that failed *)
LEMMA InDxPowerUpFailureIs ==
    ASSUME NEW m, NEW s, NEW f, NEW c, NEW d, NEW t, Is(m, s, f, c, d, t)
    PROVE  Is(InDxPowerUpFailure(m), "Disabled", ((((f \ {"InDx", "IoPresentSent"}) \ {"TimerEnabled"}) \cup {"PowerFailed"})
           \ {"SendPnpPowerUpEvent"}) \ {"TimerEnabled"}, c, TRUE, t)
BY ClearIs, PowerFailedIs DEF InDxPowerUpFailure

(* stopped in Dx *)
LEMMA InDxStoppedIs ==
    ASSUME NEW m, NEW s, NEW f, NEW c, NEW d, NEW t, Is(m, s, f, c, d, t)
    PROVE  Is(InDxStopped(m), "Stopped", ((f \ {"SendPnpPowerUpEvent"}) \ {"InDx", "TimerEnabled", "IoPresentSent"})
           \ {"IsStarted"}, c, TRUE, t)
BY SendD0NotificationIs, ClearIs, StoppedIs DEF InDxStopped

(* the timer disabled in Dx *)
LEMMA InDxDisabledIs ==
    ASSUME NEW m, NEW s, NEW f, NEW c, NEW d, NEW t, Is(m, s, f, c, d, t)
    PROVE  Is(InDxDisabled(m), "InDx", (f \ {"TimerEnabled"}) \cup {"InDx"}, c, d, t)
BY ClearIs, InDxIs DEF InDxDisabled

(* the timer enabled in Dx *)
LEMMA InDxEnabledIs ==
    ASSUME NEW m, NEW s, NEW f, NEW c, NEW d, NEW t, Is(m, s, f, c, d, t)
    PROVE  Is(InDxEnabled(m), "InDx", (f \cup {"TimerEnabled"}) \cup {"InDx"}, c, d, t)
BY SetIs, InDxIs DEF InDxEnabled, IdleFlags

(* the timer disabled after a timeout that came to nothing *)
LEMMA TimedOutDisabledIs ==
    ASSUME NEW m, NEW s, NEW f, NEW c, NEW d, NEW t, Is(m, s, f, c, d, t)
    PROVE  Is(TimedOutDisabled(m), "Disabled", ((f \ {"SendPnpPowerUpEvent"}) \ {"IoPresentSent"}) \ {"TimerEnabled"}, c, TRUE, t)
BY SendD0NotificationIs, ClearIs, DisabledIs DEF TimedOutDisabled

(* the DPC that could not be stopped has run *)
LEMMA DisablingTimerExpiredIs ==
    ASSUME NEW m, NEW s, NEW f, NEW c, NEW d, NEW t, Is(m, s, f, c, d, t)
    PROVE  Is(DisablingTimerExpired(m), "Disabled", (f \ {"TimerStarted"}) \ {"TimerEnabled"}, c, d, t)
BY ClearIs, SendIs, DisabledIs DEF DisablingTimerExpired, Posts

(* the timer stopped in time *)
LEMMA CancelIdleTimerIs ==
    ASSUME NEW m, NEW s, NEW f, NEW c, NEW d, NEW t, Is(m, s, f, c, d, t)
    PROVE  Is(CancelIdleTimer(m), s, f \ {"TimerStarted"}, c, d, "off")
BY TimerIs, ClearIs DEF CancelIdleTimer, Timers

-----------------------------------------------------------------------------
(***************************************************************************)
(* Rows of the tables                                                      *)
(***************************************************************************)

(* the timer may start, or the machine be busy, once nothing is going on *)
LEMMA CheckIoCountGood ==
    ASSUME NEW m, NEW s, NEW f, NEW c, Is(m, s, f, c, TRUE, "off"),
           "TimerStarted" \notin f, "SendPnpPowerUpEvent" \notin f,
           "IsStarted" \in f, "InDx" \notin f
    PROVE  Good(CheckIoCount(m))
<1>1. c \in Nat
  BY DEF Is, IdleMachine
<1>2. CASE c = 0
  <2> DEFINE g == f \cup {"TimerEnabled", "TimerStarted"}
  <2>1. Is(CheckIoCount(m), "TimerRunning", g, c, TRUE, "armed")
    BY <1>2, CheckIoCountIs
  <2>2. Sound("TimerRunning", g, c, TRUE, "armed")
    BY <1>2 DEF Sound
  <2>3. QED
    BY <2>1, <2>2, FieldsGood
<1>3. CASE c # 0
  <2> DEFINE g == f \cup {"TimerEnabled"}
  <2>1. Is(CheckIoCount(m), "Busy", g, c, TRUE, "off")
    BY <1>3, CheckIoCountIs
  <2>2. Sound("Busy", g, c, TRUE, "off")
    BY <1>1, <1>3 DEF Sound
  <2>3. QED
    BY <2>1, <2>2, FieldsGood
<1>4. QED
  BY <1>1, <1>2, <1>3

(* Start, of a stopped machine *)
LEMMA StartGood ==
    ASSUME NEW m, Good(m), Legal(m, "Start")
    PROVE  Good(ProcessEventLocked(m, "Start"))
<1> DEFINE s == m.state
           f == m.flags
           c == m.count
           d == m.d0
           t == m.timer
<1>1. Is(m, s, f, c, d, t) /\ Sound(s, f, c, d, t) /\ s \in IdleStates /\ c \in Nat
  BY GoodFields DEF Is, IdleMachine
<1> HIDE DEF s, f, c, d, t
<1>2. CASE s = "Stopped"
  <2>1. ProcessEventLocked(m, "Start") = Started(m)
    BY <1>2 DEF ProcessEventLocked, Enter, s
  <2>2. Is(Started(m), "Started", f \cup {"IsStarted"}, c, FALSE, t)
    BY <1>1, StartedIs
  <2>3. Sound("Started", f \cup {"IsStarted"}, c, FALSE, t)
    BY <1>1, <1>2 DEF Sound
  <2>4. QED
    BY <2>1, <2>2, <2>3, FieldsGood
<1>3. QED
  BY <1>2 DEF Legal, s, f

(* Stop *)
LEMMA StopGood ==
    ASSUME NEW m, Good(m), Legal(m, "Stop")
    PROVE  Good(ProcessEventLocked(m, "Stop"))
<1> DEFINE s == m.state
           f == m.flags
           c == m.count
           d == m.d0
           t == m.timer
<1>1. Is(m, s, f, c, d, t) /\ Sound(s, f, c, d, t) /\ s \in IdleStates /\ c \in Nat
  BY GoodFields DEF Is, IdleMachine
<1> HIDE DEF s, f, c, d, t
<1>2. CASE s = "StartedPowerFailed"
  <2>1. ProcessEventLocked(m, "Stop") = Stopped(m)
    BY <1>2 DEF ProcessEventLocked, Enter, s
  <2>2. Is(Stopped(m), "Stopped", f \ {"IsStarted"}, c, d, t)
    BY <1>1, StoppedIs
  <2>3. Sound("Stopped", f \ {"IsStarted"}, c, d, t)
    BY <1>1, <1>2 DEF Sound
  <2>4. QED
    BY <2>1, <2>2, <2>3, FieldsGood
<1>3. CASE s = "Disabled"
  <2>1. ProcessEventLocked(m, "Stop") = Stopped(m)
    BY <1>3 DEF ProcessEventLocked, Enter, s
  <2>2. Is(Stopped(m), "Stopped", f \ {"IsStarted"}, c, d, t)
    BY <1>1, StoppedIs
  <2>3. Sound("Stopped", f \ {"IsStarted"}, c, d, t)
    BY <1>1, <1>3 DEF Sound
  <2>4. QED
    BY <2>1, <2>2, <2>3, FieldsGood
<1>4. CASE s = "InDx"
  <2>1. ProcessEventLocked(m, "Stop") = InDxStopped(m)
    BY <1>4 DEF ProcessEventLocked, Enter, s
  <2> DEFINE g == ((f \ {"SendPnpPowerUpEvent"}) \ {"InDx", "TimerEnabled", "IoPresentSent"}) \ {"IsStarted"}
  <2>2. Is(InDxStopped(m), "Stopped", g, c, TRUE, t)
    BY <1>1, InDxStoppedIs
  <2>3. Sound("Stopped", g, c, TRUE, t)
    BY <1>1, <1>4 DEF Sound
  <2>4. QED
    BY <2>1, <2>2, <2>3, FieldsGood
<1>5. QED
  BY <1>2, <1>3, <1>4 DEF Legal, s, f

(* a power down *)
LEMMA PowerDownGood ==
    ASSUME NEW m, Good(m), Legal(m, "PowerDown")
    PROVE  Good(ProcessEventLocked(m, "PowerDown"))
<1> DEFINE s == m.state
           f == m.flags
           c == m.count
           d == m.d0
           t == m.timer
<1>1. Is(m, s, f, c, d, t) /\ Sound(s, f, c, d, t) /\ s \in IdleStates /\ c \in Nat
  BY GoodFields DEF Is, IdleMachine
<1> HIDE DEF s, f, c, d, t
<1>2. CASE s = "Disabled"
  <2>1. ProcessEventLocked(m, "PowerDown") = GoingToDx(m)
    BY <1>2 DEF ProcessEventLocked, Enter, s
  <2>2. Is(GoingToDx(m), "InDx", f \cup {"InDx"}, c, FALSE, t)
    BY <1>1, GoingToDxIs
  <2>3. Sound("InDx", f \cup {"InDx"}, c, FALSE, t)
    BY <1>1, <1>2 DEF Sound
  <2>4. QED
    BY <2>1, <2>2, <2>3, FieldsGood
<1>3. CASE s = "TimedOut"
  <2>1. ProcessEventLocked(m, "PowerDown") = TimedOutPowerDown(m)
    BY <1>3 DEF ProcessEventLocked, Enter, s
  <2>2. Is(TimedOutPowerDown(m), "InDx", (f \ {"IoPresentSent"}) \cup {"InDx"}, c, FALSE, t)
    BY <1>1, TimedOutPowerDownIs
  <2>3. Sound("InDx", (f \ {"IoPresentSent"}) \cup {"InDx"}, c, FALSE, t)
    BY <1>1, <1>3 DEF Sound
  <2>4. QED
    BY <2>1, <2>2, <2>3, FieldsGood
<1>4. CASE s = "InDx"
  <2>1. ProcessEventLocked(m, "PowerDown") = InDx(m)
    BY <1>4 DEF ProcessEventLocked, Enter, s
  <2>2. Is(InDx(m), "InDx", f \cup {"InDx"}, c, d, t)
    BY <1>1, InDxIs
  <2>3. Sound("InDx", f \cup {"InDx"}, c, d, t)
    BY <1>1, <1>4 DEF Sound
  <2>4. QED
    BY <2>1, <2>2, <2>3, FieldsGood
<1>5. QED
  BY <1>2, <1>3, <1>4 DEF Legal, s, f

(* a power up that failed *)
LEMMA PowerUpFailedGood ==
    ASSUME NEW m, Good(m), Legal(m, "PowerUpFailed")
    PROVE  Good(ProcessEventLocked(m, "PowerUpFailed"))
<1> DEFINE s == m.state
           f == m.flags
           c == m.count
           d == m.d0
           t == m.timer
<1>1. Is(m, s, f, c, d, t) /\ Sound(s, f, c, d, t) /\ s \in IdleStates /\ c \in Nat
  BY GoodFields DEF Is, IdleMachine
<1> HIDE DEF s, f, c, d, t
<1>2. CASE s = "Started"
  <2>1. ProcessEventLocked(m, "PowerUpFailed") = StartedPowerFailed(m)
    BY <1>2 DEF ProcessEventLocked, Enter, s
  <2> DEFINE g == (f \cup {"PowerFailed"}) \ {"SendPnpPowerUpEvent"}
  <2>2. Is(StartedPowerFailed(m), "StartedPowerFailed", g, c, TRUE, t)
    BY <1>1, StartedPowerFailedIs
  <2>3. Sound("StartedPowerFailed", g, c, TRUE, t)
    BY <1>1, <1>2 DEF Sound
  <2>4. QED
    BY <2>1, <2>2, <2>3, FieldsGood
<1>3. CASE s = "Disabled"
  <2>1. ProcessEventLocked(m, "PowerUpFailed") = PowerFailed(m)
    BY <1>3 DEF ProcessEventLocked, Enter, s
  <2> DEFINE g == (((f \ {"TimerEnabled"}) \cup {"PowerFailed"}) \ {"SendPnpPowerUpEvent"}) \ {"TimerEnabled"}
  <2>2. Is(PowerFailed(m), "Disabled", g, c, TRUE, t)
    BY <1>1, PowerFailedIs
  <2>3. Sound("Disabled", g, c, TRUE, t)
    BY <1>1, <1>3 DEF Sound
  <2>4. QED
    BY <2>1, <2>2, <2>3, FieldsGood
<1>4. CASE s = "InDx"
  <2>1. ProcessEventLocked(m, "PowerUpFailed") = InDxPowerUpFailure(m)
    BY <1>4 DEF ProcessEventLocked, Enter, s
  <2> DEFINE g == ((((f \ {"InDx", "IoPresentSent"}) \ {"TimerEnabled"}) \cup {"PowerFailed"}) \ {"SendPnpPowerUpEvent"}) \ {"TimerEnabled"}
  <2>2. Is(InDxPowerUpFailure(m), "Disabled", g, c, TRUE, t)
    BY <1>1, InDxPowerUpFailureIs
  <2>3. Sound("Disabled", g, c, TRUE, t)
    BY <1>1, <1>4 DEF Sound
  <2>4. QED
    BY <2>1, <2>2, <2>3, FieldsGood
<1>5. QED
  BY <1>2, <1>3, <1>4 DEF Legal, s, f

(* a power down that failed *)
LEMMA PowerDownFailedGood ==
    ASSUME NEW m, Good(m), Legal(m, "PowerDownFailed")
    PROVE  Good(ProcessEventLocked(m, "PowerDownFailed"))
<1> DEFINE s == m.state
           f == m.flags
           c == m.count
           d == m.d0
           t == m.timer
<1>1. Is(m, s, f, c, d, t) /\ Sound(s, f, c, d, t) /\ s \in IdleStates /\ c \in Nat
  BY GoodFields DEF Is, IdleMachine
<1> HIDE DEF s, f, c, d, t
<1>2. CASE s = "Disabled"
  <2>1. ProcessEventLocked(m, "PowerDownFailed") = PowerFailed(m)
    BY <1>2 DEF ProcessEventLocked, Enter, s
  <2> DEFINE g == (((f \ {"TimerEnabled"}) \cup {"PowerFailed"}) \ {"SendPnpPowerUpEvent"}) \ {"TimerEnabled"}
  <2>2. Is(PowerFailed(m), "Disabled", g, c, TRUE, t)
    BY <1>1, PowerFailedIs
  <2>3. Sound("Disabled", g, c, TRUE, t)
    BY <1>1, <1>2 DEF Sound
  <2>4. QED
    BY <2>1, <2>2, <2>3, FieldsGood
<1>3. CASE s = "TimedOut"
  <2>1. ProcessEventLocked(m, "PowerDownFailed") = TimedOutPowerDownFailed(m)
    BY <1>3 DEF ProcessEventLocked, Enter, s
  <2> DEFINE g == ((((f \ {"IoPresentSent"}) \ {"TimerEnabled"}) \cup {"PowerFailed"}) \ {"SendPnpPowerUpEvent"}) \ {"TimerEnabled"}
  <2>2. Is(TimedOutPowerDownFailed(m), "Disabled", g, c, TRUE, t)
    BY <1>1, TimedOutPowerDownFailedIs
  <2>3. Sound("Disabled", g, c, TRUE, t)
    BY <1>1, <1>3 DEF Sound
  <2>4. QED
    BY <2>1, <2>2, <2>3, FieldsGood
<1>4. QED
  BY <1>2, <1>3 DEF Legal, s, f

(* the timer enabled after a timeout that came to nothing *)
LEMMA TimedOutEnabledGood ==
    ASSUME NEW m, NEW s, NEW f, NEW c, NEW d, NEW t, Is(m, s, f, c, d, t), s = "TimedOut", Sound(s, f, c, d, t)
    PROVE  Good(TimedOutEnabled(m))
<1> DEFINE n == Clear(SendD0Notification(m), {"IoPresentSent"})
           g == (f \ {"SendPnpPowerUpEvent"}) \ {"IoPresentSent"}
<1>1. Is(n, s, g, c, TRUE, t)
  BY SendD0NotificationIs, ClearIs
<1>2. /\ t = "off"
      /\ "TimerStarted" \notin g /\ "SendPnpPowerUpEvent" \notin g
      /\ "IsStarted" \in g /\ "InDx" \notin g
  BY DEF Sound
<1>3. TimedOutEnabled(m) = CheckIoCount(n)
  BY DEF TimedOutEnabled
<1> HIDE DEF n, g
<1>4. QED
  BY <1>1, <1>2, <1>3, CheckIoCountGood

(* the DPC that could not be stopped has run; the timer was off by then *)
LEMMA TimerExpiredGood ==
    ASSUME NEW m, NEW s, NEW f, NEW c, NEW d, NEW t, Is(m, s, f, c, d, t), s = "WaitForTimeout",
           t = "off", Sound(s, f, c, d, "fired")
    PROVE  Good(TimerExpired(m))
<1> DEFINE n == Clear(m, {"TimerStarted"})
           g == f \ {"TimerStarted"}
<1>0. d = TRUE
  BY DEF Sound, Is, IdleMachine
<1>1. Is(n, s, g, c, TRUE, "off")
  BY <1>0, ClearIs
<1>2. /\ "TimerStarted" \notin g /\ "SendPnpPowerUpEvent" \notin g
      /\ "IsStarted" \in g /\ "InDx" \notin g
  BY DEF Sound, Is, IdleMachine
<1>3. TimerExpired(m) = CheckIoCount(n)
  BY DEF TimerExpired
<1> HIDE DEF n, g
<1>4. QED
  BY <1>1, <1>2, <1>3, CheckIoCountGood

(* a reference stops the timer, or makes its expiry harmless *)
LEMMA CancelTimerGood ==
    ASSUME NEW m, NEW s, NEW f, NEW c, NEW d, NEW t, Is(m, s, f, c, d, t),
           s = "TimerRunning", "TimerStarted" \in f, "TimerEnabled" \in f,
           "SendPnpPowerUpEvent" \notin f, "IsStarted" \in f, "InDx" \notin f,
           d, t # "off"
    PROVE  Good(CancelTimer(m))
<1>1. m.timer = t /\ d = TRUE /\ c \in Nat
  BY DEF Is, IdleMachine
<1>2. CASE t = "armed"
  <2>1. Is(CancelIdleTimer(m), s, f \ {"TimerStarted"}, c, TRUE, "off")
    BY <1>1, CancelIdleTimerIs
  <2>2. CancelTimer(m) = CheckIoCount(CancelIdleTimer(m))
    BY <1>1, <1>2 DEF CancelTimer, CanCancel
  <2>3. QED
    BY <2>1, <2>2, CheckIoCountGood
<1>3. CASE t # "armed"
  <2>1. Is(At(m, "WaitForTimeout"), "WaitForTimeout", f, c, d, t)
    BY AtIs DEF IdleStates
  <2>2. CancelTimer(m) = At(m, "WaitForTimeout")
    BY <1>1, <1>3 DEF CancelTimer, CanCancel
  <2>3. Sound("WaitForTimeout", f, c, d, t)
    BY <1>1 DEF Sound
  <2>4. QED
    BY <2>1, <2>2, <2>3, FieldsGood
<1>4. QED
  BY <1>2, <1>3

(* the timer is disabled while it runs *)
LEMMA DisablingGood ==
    ASSUME NEW m, NEW s, NEW f, NEW c, NEW d, NEW t, Is(m, s, f, c, d, t), s = "TimerRunning", Sound(s, f, c, d, t)
    PROVE  Good(Disabling(m))
<1>1. m.timer = t
  BY DEF Is
<1>2. CASE t = "armed"
  <2> DEFINE g == (f \ {"TimerStarted"}) \ {"TimerEnabled"}
  <2>1. Is(Disabled(CancelIdleTimer(m)), "Disabled", g, c, d, "off")
    BY CancelIdleTimerIs, DisabledIs
  <2>2. Disabling(m) = Disabled(CancelIdleTimer(m))
    BY <1>1, <1>2 DEF Disabling, CanCancel
  <2>3. Sound("Disabled", g, c, d, "off")
    BY DEF Sound
  <2>4. QED
    BY <2>1, <2>2, <2>3, FieldsGood
<1>3. CASE t # "armed"
  <2>1. Is(At(m, "DisablingWaitForTimeout"), "DisablingWaitForTimeout", f, c, d, t)
    BY AtIs DEF IdleStates
  <2>2. Disabling(m) = At(m, "DisablingWaitForTimeout")
    BY <1>1, <1>3 DEF Disabling, CanCancel
  <2>3. Sound("DisablingWaitForTimeout", f, c, d, t)
    BY DEF Sound
  <2>4. QED
    BY <2>1, <2>2, <2>3, FieldsGood
<1>4. QED
  BY <1>2, <1>3

(* in D0 again: the timer starts if it is enabled and nobody holds a reference *)
LEMMA PowerUpGood ==
    ASSUME NEW m, NEW s, NEW f, NEW c, NEW d, NEW t, Is(m, s, f, c, d, t), s = "InDx", Sound(s, f, c, d, t)
    PROVE  Good(PowerUp(m))
<1> DEFINE n == SendD0Notification(Clear(m, {"InDx", "IoPresentSent"}))
           g == (f \ {"InDx", "IoPresentSent"}) \ {"SendPnpPowerUpEvent"}
<1>1. Is(n, s, g, c, TRUE, t)
  BY ClearIs, SendD0NotificationIs
<1>2. /\ t = "off"
      /\ "TimerStarted" \notin g /\ "SendPnpPowerUpEvent" \notin g
      /\ "IsStarted" \in g /\ "InDx" \notin g
  BY DEF Sound
<1>3. PowerUp(m) = PowerUpComplete(n)
  BY DEF PowerUp
<1> HIDE DEF n
<1>4. n.flags = g
  BY <1>1 DEF Is
<1> HIDE DEF g
<1>5. CASE "TimerEnabled" \notin g
  <2>1. PowerUpComplete(n) = Disabled(n)
    BY <1>4, <1>5 DEF PowerUpComplete
  <2>2. Is(Disabled(n), "Disabled", g \ {"TimerEnabled"}, c, TRUE, t)
    BY <1>1, DisabledIs
  <2>3. Sound("Disabled", g \ {"TimerEnabled"}, c, TRUE, t)
    BY <1>2 DEF Sound
  <2>4. QED
    BY <1>3, <2>1, <2>2, <2>3, FieldsGood
<1>6. CASE "TimerEnabled" \in g
  <2>1. PowerUpComplete(n) = CheckIoCount(n)
    BY <1>2, <1>4, <1>6 DEF PowerUpComplete
  <2>2. QED
    BY <1>1, <1>2, <1>3, <2>1, CheckIoCountGood
<1>7. QED
  BY <1>5, <1>6

(* a power up *)
LEMMA PowerUpCompleteGood ==
    ASSUME NEW m, Good(m), Legal(m, "PowerUpComplete")
    PROVE  Good(ProcessEventLocked(m, "PowerUpComplete"))
<1> DEFINE s == m.state
           f == m.flags
           c == m.count
           d == m.d0
           t == m.timer
<1>1. Is(m, s, f, c, d, t) /\ Sound(s, f, c, d, t) /\ s \in IdleStates /\ c \in Nat
  BY GoodFields DEF Is, IdleMachine
<1> HIDE DEF s, f, c, d, t
<1>2. CASE s = "Started"
  <2>1. ProcessEventLocked(m, "PowerUpComplete") = StartedPowerUp(m)
    BY <1>2 DEF ProcessEventLocked, Enter, s
  <2> DEFINE g == (f \ {"SendPnpPowerUpEvent"}) \ {"TimerEnabled"}
  <2>2. Is(StartedPowerUp(m), "Disabled", g, c, TRUE, t)
    BY <1>1, StartedPowerUpIs
  <2>3. Sound("Disabled", g, c, TRUE, t)
    BY <1>1, <1>2 DEF Sound
  <2>4. QED
    BY <2>1, <2>2, <2>3, FieldsGood
<1>3. CASE s = "InDx"
  <2>1. ProcessEventLocked(m, "PowerUpComplete") = PowerUp(m)
    BY <1>3 DEF ProcessEventLocked, Enter, s
  <2>2. QED
    BY <1>1, <1>3, <2>1, PowerUpGood
<1>4. QED
  BY <1>2, <1>3 DEF Legal, s, f

(* DisableTimer *)
LEMMA DisabledGood ==
    ASSUME NEW m, Good(m), Legal(m, "Disabled")
    PROVE  Good(ProcessEventLocked(m, "Disabled"))
<1> DEFINE s == m.state
           f == m.flags
           c == m.count
           d == m.d0
           t == m.timer
<1>1. Is(m, s, f, c, d, t) /\ Sound(s, f, c, d, t) /\ s \in IdleStates /\ c \in Nat
  BY GoodFields DEF Is, IdleMachine
<1> HIDE DEF s, f, c, d, t
<1>2. CASE s = "Disabled"
  <2>1. ProcessEventLocked(m, "Disabled") = Disabled(m)
    BY <1>2 DEF ProcessEventLocked, Enter, s
  <2>2. Is(Disabled(m), "Disabled", f \ {"TimerEnabled"}, c, d, t)
    BY <1>1, DisabledIs
  <2>3. Sound("Disabled", f \ {"TimerEnabled"}, c, d, t)
    BY <1>1, <1>2 DEF Sound
  <2>4. QED
    BY <2>1, <2>2, <2>3, FieldsGood
<1>3. CASE s = "Busy"
  <2>1. ProcessEventLocked(m, "Disabled") = Disabled(m)
    BY <1>3 DEF ProcessEventLocked, Enter, s
  <2>2. Is(Disabled(m), "Disabled", f \ {"TimerEnabled"}, c, d, t)
    BY <1>1, DisabledIs
  <2>3. Sound("Disabled", f \ {"TimerEnabled"}, c, d, t)
    BY <1>1, <1>3 DEF Sound
  <2>4. QED
    BY <2>1, <2>2, <2>3, FieldsGood
<1>4. CASE s = "TimerRunning"
  <2>1. ProcessEventLocked(m, "Disabled") = Disabling(m)
    BY <1>4 DEF ProcessEventLocked, Enter, s
  <2>2. QED
    BY <1>1, <1>4, <2>1, DisablingGood
<1>5. CASE s = "TimedOut"
  <2>1. ProcessEventLocked(m, "Disabled") = TimedOutDisabled(m)
    BY <1>5 DEF ProcessEventLocked, Enter, s
  <2> DEFINE g == ((f \ {"SendPnpPowerUpEvent"}) \ {"IoPresentSent"}) \ {"TimerEnabled"}
  <2>2. Is(TimedOutDisabled(m), "Disabled", g, c, TRUE, t)
    BY <1>1, TimedOutDisabledIs
  <2>3. Sound("Disabled", g, c, TRUE, t)
    BY <1>1, <1>5 DEF Sound
  <2>4. QED
    BY <2>1, <2>2, <2>3, FieldsGood
<1>6. CASE s = "InDx"
  <2>1. ProcessEventLocked(m, "Disabled") = InDxDisabled(m)
    BY <1>6 DEF ProcessEventLocked, Enter, s
  <2>2. Is(InDxDisabled(m), "InDx", (f \ {"TimerEnabled"}) \cup {"InDx"}, c, d, t)
    BY <1>1, InDxDisabledIs
  <2>3. Sound("InDx", (f \ {"TimerEnabled"}) \cup {"InDx"}, c, d, t)
    BY <1>1, <1>6 DEF Sound
  <2>4. QED
    BY <2>1, <2>2, <2>3, FieldsGood
<1>7. CASE s = "WaitForTimeout"
  <2>1. ProcessEventLocked(m, "Disabled") = At(m, "DisablingWaitForTimeout")
    BY <1>7 DEF ProcessEventLocked, Enter, s
  <2>2. Is(At(m, "DisablingWaitForTimeout"), "DisablingWaitForTimeout", f, c, d, t)
    BY <1>1, AtIs DEF IdleStates
  <2>3. Sound("DisablingWaitForTimeout", f, c, d, t)
    BY <1>1, <1>7 DEF Sound
  <2>4. QED
    BY <2>1, <2>2, <2>3, FieldsGood
<1>8. QED
  BY <1>2, <1>3, <1>4, <1>5, <1>6, <1>7 DEF Legal, s, f

(* EnableTimer *)
LEMMA EnabledGood ==
    ASSUME NEW m, Good(m), Legal(m, "Enabled")
    PROVE  Good(ProcessEventLocked(m, "Enabled"))
<1> DEFINE s == m.state
           f == m.flags
           c == m.count
           d == m.d0
           t == m.timer
<1>1. Is(m, s, f, c, d, t) /\ Sound(s, f, c, d, t) /\ s \in IdleStates /\ c \in Nat
  BY GoodFields DEF Is, IdleMachine
<1> HIDE DEF s, f, c, d, t
<1>2. CASE s = "Disabled"
  <2>1. ProcessEventLocked(m, "Enabled") = CheckIoCount(m)
    BY <1>2 DEF ProcessEventLocked, Enter, s
  <2>2. Is(m, s, f, c, TRUE, "off") /\ "TimerStarted" \notin f
        /\ "SendPnpPowerUpEvent" \notin f /\ "IsStarted" \in f /\ "InDx" \notin f
    BY <1>1, <1>2 DEF Sound, Is, IdleMachine
  <2>3. QED
    BY <2>1, <2>2, CheckIoCountGood
<1>3. CASE s = "TimerRunning"
  <2>1. ProcessEventLocked(m, "Enabled") = CancelTimer(m)
    BY <1>3 DEF ProcessEventLocked, Enter, s
  <2>2. /\ "TimerStarted" \in f /\ "TimerEnabled" \in f /\ "SendPnpPowerUpEvent" \notin f
        /\ "IsStarted" \in f /\ "InDx" \notin f /\ d /\ t # "off"
    BY <1>1, <1>3 DEF Sound
  <2>3. QED
    BY <1>1, <1>3, <2>1, <2>2, CancelTimerGood
<1>4. CASE s = "TimedOut"
  <2>1. ProcessEventLocked(m, "Enabled") = TimedOutEnabled(m)
    BY <1>4 DEF ProcessEventLocked, Enter, s
  <2>2. QED
    BY <1>1, <1>4, <2>1, TimedOutEnabledGood
<1>5. CASE s = "InDx"
  <2>1. ProcessEventLocked(m, "Enabled") = InDxEnabled(m)
    BY <1>5 DEF ProcessEventLocked, Enter, s
  <2>2. Is(InDxEnabled(m), "InDx", (f \cup {"TimerEnabled"}) \cup {"InDx"}, c, d, t)
    BY <1>1, InDxEnabledIs
  <2>3. Sound("InDx", (f \cup {"TimerEnabled"}) \cup {"InDx"}, c, d, t)
    BY <1>1, <1>5 DEF Sound
  <2>4. QED
    BY <2>1, <2>2, <2>3, FieldsGood
<1>6. CASE s \notin {"Disabled", "TimerRunning", "TimedOut", "InDx"} /\ "TimerEnabled" \in f
  <2>1. ProcessEventLocked(m, "Enabled") = [m EXCEPT !.trap = @ \/ FALSE]
    BY <1>6 DEF ProcessEventLocked, Enter, Ignored, s, f
  <2>2. Is([m EXCEPT !.trap = @ \/ FALSE], s, f, c, d, t)
    BY <1>1 DEF Is, IdleMachine
  <2>3. QED
    BY <1>1, <2>1, <2>2, FieldsGood
<1>7. QED
  BY <1>2, <1>3, <1>4, <1>5, <1>6 DEF Legal, s, f

-----------------------------------------------------------------------------
(***************************************************************************)
(* References, the timer and the power policy machine's query              *)
(***************************************************************************)

(* a reference *)
LEMMA IoIncrementGood ==
    ASSUME NEW m, Good(m), CanReference(m)
    PROVE  Good(IoIncrement(m))
<1> DEFINE n == [m EXCEPT !.count = @ + 1]
           s == m.state
           f == m.flags
           c == m.count + 1
           d == m.d0
           t == m.timer
<1>1. Is(m, s, f, m.count, d, t) /\ Sound(s, f, m.count, d, t) /\ s \in IdleStates
  BY GoodFields DEF Is, IdleMachine
<1>2. c \in Nat /\ c > 0
  BY <1>1 DEF Is, IdleMachine
<1>3. Is(n, s, f, c, d, t)
  BY <1>1, <1>2, CountIs
<1>4. IoIncrement(m) = Enter(n, s, "IoIncrement")
  BY <1>3 DEF IoIncrement, ProcessEventLocked, Is
<1> HIDE DEF n, s, f, c, d, t
<1>5. CASE s = "TimerRunning"
  <2>1. IoIncrement(m) = CancelTimer(n)
    BY <1>4, <1>5 DEF Enter
  <2>2. /\ "TimerStarted" \in f /\ "TimerEnabled" \in f /\ "SendPnpPowerUpEvent" \notin f
        /\ "IsStarted" \in f /\ "InDx" \notin f /\ d /\ t # "off"
    BY <1>1, <1>5 DEF Sound
  <2>3. QED
    BY <1>3, <1>5, <2>1, <2>2, CancelTimerGood
<1>6. CASE s = "TimedOut"
  <2>1. IoIncrement(m) = TimedOutIoIncrement(n)
    BY <1>4, <1>6 DEF Enter
  <2>2. Is(TimedOutIoIncrement(n), "TimedOut", f \cup {"IoPresentSent"}, c, d, t)
    BY <1>3, TimedOutIoIncrementIs
  <2>3. Sound("TimedOut", f \cup {"IoPresentSent"}, c, d, t)
    BY <1>1, <1>6 DEF Sound
  <2>4. QED
    BY <2>1, <2>2, <2>3, FieldsGood
<1>7. CASE s = "InDx"
  <2>1. IoIncrement(m) = InDxIoIncrement(n)
    BY <1>4, <1>7 DEF Enter
  <2>2. Is(InDxIoIncrement(n), "InDx", f \cup {"IoPresentSent"}, c, d, t)
    BY <1>3, InDxIoIncrementIs
  <2>3. Sound("InDx", f \cup {"IoPresentSent"}, c, d, t)
    BY <1>1, <1>7 DEF Sound
  <2>4. QED
    BY <2>1, <2>2, <2>3, FieldsGood
<1>8. CASE s \notin {"TimerRunning", "TimedOut", "InDx"}
  <2>1. IoIncrement(m) = [n EXCEPT !.trap = @ \/ ~Ignored(n, "IoIncrement")]
    BY <1>4, <1>8 DEF Enter
  <2>2. Is(IoIncrement(m), s, f, c, d, t)
    BY <1>3, <2>1 DEF Is, IdleMachine, Ignored
  <2>3. Sound(s, f, c, d, t)
    BY <1>1, <1>2, <1>8 DEF Sound
  <2>4. QED
    BY <2>2, <2>3, FieldsGood
<1>9. QED
  BY <1>5, <1>6, <1>7, <1>8

(* a reference of the PnP machine: it is promised an event only if the D0  *)
(* event is still to be set                                                *)
LEMMA IoIncrementForPnpGood ==
    ASSUME NEW m, Good(m), CanReference(m)
    PROVE  Good(IoIncrementForPnp(m))
<1> DEFINE n == IoIncrement(m)
           g == n.flags \cup {"SendPnpPowerUpEvent"}
<1>1. Good(n)
  BY IoIncrementGood
<1>2. IoIncrementForPnp(m) = IF n.d0 THEN n ELSE Set(n, {"SendPnpPowerUpEvent"})
  BY DEF IoIncrementForPnp
<1> HIDE DEF n
<1>3. CASE ~n.d0
  <2>1. /\ Is(n, n.state, n.flags, n.count, n.d0, n.timer)
        /\ Sound(n.state, n.flags, n.count, n.d0, n.timer)
    BY <1>1, GoodFields
  <2>2. Is(Set(n, {"SendPnpPowerUpEvent"}), n.state, g, n.count, n.d0, n.timer)
    BY <2>1, SetIs DEF IdleFlags
  <2>3. Sound(n.state, g, n.count, n.d0, n.timer)
    BY <1>3, <2>1 DEF Sound
  <2>4. QED
    BY <1>2, <1>3, <2>2, <2>3, FieldsGood
<1>4. QED
  BY <1>1, <1>2, <1>3

(* a reference given back *)
LEMMA IoDecrementGood ==
    ASSUME NEW m, Good(m), m.count > 0
    PROVE  Good(IoDecrement(m))
<1> DEFINE n == [m EXCEPT !.count = @ - 1]
           s == m.state
           f == m.flags
           c == m.count - 1
           d == m.d0
           t == m.timer
<1>1. Is(m, s, f, m.count, d, t) /\ Sound(s, f, m.count, d, t) /\ s \in IdleStates
  BY GoodFields DEF Is, IdleMachine
<1>2. c \in Nat /\ m.count > c
  BY <1>1 DEF Is, IdleMachine
<1>3. Is(n, s, f, c, d, t)
  BY <1>1, <1>2, CountIs
<1>4. IoDecrement(m) = Enter(n, s, "IoDecrement")
  BY <1>3 DEF IoDecrement, ProcessEventLocked, Is
<1> HIDE DEF n, s, f, c, d, t
<1>5. CASE s = "Busy"
  <2>1. IoDecrement(m) = DecrementIo(n)
    BY <1>4, <1>5 DEF Enter
  <2>2. CASE c = 0
    <3>1. Is(DecrementIo(n), "TimerRunning", f \cup {"TimerStarted"}, c, d, "armed")
      BY <1>3, <2>2, DecrementIoIs
    <3>2. Sound("TimerRunning", f \cup {"TimerStarted"}, c, d, "armed")
      BY <1>1, <1>5, <2>2 DEF Sound
    <3>3. QED
      BY <2>1, <3>1, <3>2, FieldsGood
  <2>3. CASE c # 0
    <3>1. Is(DecrementIo(n), "Busy", f, c, d, t)
      BY <1>3, <2>3, DecrementIoIs
    <3>2. Sound("Busy", f, c, d, t)
      BY <1>1, <1>2, <1>5, <2>3 DEF Sound
    <3>3. QED
      BY <2>1, <3>1, <3>2, FieldsGood
  <2>4. QED
    BY <2>2, <2>3
<1>6. CASE s = "InDx"
  <2>1. IoDecrement(m) = InDx(n)
    BY <1>4, <1>6 DEF Enter
  <2>2. Is(InDx(n), "InDx", f \cup {"InDx"}, c, d, t)
    BY <1>3, InDxIs
  <2>3. Sound("InDx", f \cup {"InDx"}, c, d, t)
    BY <1>1, <1>6 DEF Sound
  <2>4. QED
    BY <2>1, <2>2, <2>3, FieldsGood
<1>7. CASE s \notin {"Busy", "InDx"}
  <2>1. IoDecrement(m) = [n EXCEPT !.trap = @ \/ ~Ignored(n, "IoDecrement")]
    BY <1>4, <1>7 DEF Enter
  <2>2. Is(IoDecrement(m), s, f, c, d, t)
    BY <1>3, <2>1 DEF Is, IdleMachine, Ignored
  <2>3. Sound(s, f, c, d, t)
    BY <1>1, <1>2, <1>7 DEF Sound
  <2>4. QED
    BY <2>2, <2>3, FieldsGood
<1>8. QED
  BY <1>5, <1>6, <1>7

(* the DPC finds the machine in a state that waits for it *)
LEMMA PowerTimeoutDpcRoutineGood ==
    ASSUME NEW m, Good(m), m.timer = "fired"
    PROVE  Good(PowerTimeoutDpcRoutine(m))
<1> DEFINE n == [m EXCEPT !.timer = "off"]
           s == m.state
           f == m.flags
           c == m.count
           d == m.d0
<1>1. Is(m, s, f, c, d, "fired") /\ Sound(s, f, c, d, "fired")
  BY GoodFields
<1>2. Is(n, s, f, c, d, "off")
  BY <1>1, TimerIs DEF Timers
<1>3. PowerTimeoutDpcRoutine(m) = Enter(n, s, "TimerExpired")
  BY <1>2 DEF PowerTimeoutDpcRoutine, ProcessEventLocked, Is
<1> HIDE DEF n, s, f, c, d
<1>4. CASE s = "TimerRunning"
  <2>1. PowerTimeoutDpcRoutine(m) = TimingOut(n)
    BY <1>3, <1>4 DEF Enter
  <2>2. Is(TimingOut(n), "TimedOut", f \ {"TimerStarted"}, c, FALSE, "off")
    BY <1>2, TimingOutIs
  <2>3. Sound("TimedOut", f \ {"TimerStarted"}, c, FALSE, "off")
    BY <1>1, <1>4 DEF Sound
  <2>4. QED
    BY <2>1, <2>2, <2>3, FieldsGood
<1>5. CASE s = "WaitForTimeout"
  <2>1. PowerTimeoutDpcRoutine(m) = TimerExpired(n)
    BY <1>3, <1>5 DEF Enter
  <2>2. QED
    BY <1>1, <1>2, <1>5, <2>1, TimerExpiredGood
<1>6. CASE s = "DisablingWaitForTimeout"
  <2> DEFINE g == (f \ {"TimerStarted"}) \ {"TimerEnabled"}
  <2>1. PowerTimeoutDpcRoutine(m) = DisablingTimerExpired(n)
    BY <1>3, <1>6 DEF Enter
  <2>2. Is(DisablingTimerExpired(n), "Disabled", g, c, d, "off")
    BY <1>2, DisablingTimerExpiredIs
  <2>3. Sound("Disabled", g, c, d, "off")
    BY <1>1, <1>6 DEF Sound
  <2>4. QED
    BY <2>1, <2>2, <2>3, FieldsGood
<1>7. QED
  BY <1>1, <1>4, <1>5, <1>6 DEF Sound

(* the timer falls due *)
LEMMA TimerFiresGood ==
    ASSUME NEW m, Good(m), m.timer = "armed"
    PROVE  Good(TimerFires(m))
<1>1. /\ Is(m, m.state, m.flags, m.count, m.d0, m.timer)
      /\ Sound(m.state, m.flags, m.count, m.d0, m.timer)
  BY GoodFields
<1>2. Is(TimerFires(m), m.state, m.flags, m.count, m.d0, "fired")
  BY <1>1, TimerIs DEF TimerFires, Timers
<1>3. Sound(m.state, m.flags, m.count, m.d0, "fired")
  BY <1>1 DEF Sound
<1>4. QED
  BY <1>2, <1>3, FieldsGood

(* the query, of a machine that is not timed out *)
LEMMA QueriedGood ==
    ASSUME NEW m, Good(m), m.state # "TimedOut"
    PROVE  Good(Queried(m))
<1> DEFINE g == m.flags \ {"IoPresentSent"}
<1>1. /\ Is(m, m.state, m.flags, m.count, m.d0, m.timer)
      /\ Sound(m.state, m.flags, m.count, m.d0, m.timer)
  BY GoodFields
<1>2. Is(Queried(m), m.state, g, m.count, m.d0, m.timer)
  BY <1>1, ClearIs DEF Queried
<1>3. Sound(m.state, g, m.count, m.d0, m.timer)
  BY <1>1 DEF Sound
<1>4. QED
  BY <1>2, <1>3, FieldsGood

-----------------------------------------------------------------------------
(***************************************************************************)
(* The machine and its users                                               *)
(***************************************************************************)

(* an event of the power or power policy machine *)
LEMMA UserEventGood ==
    ASSUME NEW m, Good(m), NEW e \in IdleEvents, Legal(m, e)
    PROVE  Good(ProcessEventLocked(m, e))
<1>1. e \in {"Start", "Stop", "PowerUpComplete", "PowerUpFailed", "PowerDown",
            "PowerDownFailed", "Enabled", "Disabled"}
  BY DEF IdleEvents, Legal
<1>2. QED
  BY <1>1, StartGood, StopGood, PowerUpCompleteGood, PowerUpFailedGood, PowerDownGood,
     PowerDownFailedGood, EnabledGood, DisabledGood

(* IdleInv is the soundness of the machine *)
LEMMA IdleInvIsGood == IdleInv <=> Good(idle)
BY DEF IdleInv, Good, IdleTypeOK

(* a constructed machine is sound *)
LEMMA IdleInitInv == IdleInit => IdleInv
<1> SUFFICES ASSUME IdleInit
             PROVE  IdleInv
  OBVIOUS
<1>1. Is(idle, "Stopped", {}, 0, TRUE, "off")
  BY DEF IdleInit, InitialIdle, Is, IdleMachine, IdleStates, IdleFlags, Posts
<1>2. Sound("Stopped", {}, 0, TRUE, "off")
  BY DEF Sound
<1>3. QED
  BY <1>1, <1>2, FieldsGood, IdleInvIsGood

(* no step of any user makes it unsound *)
LEMMA IdleStepInv == IdleInv /\ [IdleNext]_idle => IdleInv'
<1> SUFFICES ASSUME IdleInv, [IdleNext]_idle
             PROVE  Good(idle')
  BY DEF IdleInv, Good, IdleTypeOK
<1>1. Good(idle)
  BY IdleInvIsGood
<1>2. ASSUME NEW e \in IdleEvents, UserEvent(e)
      PROVE  Good(idle')
  BY <1>1, <1>2, UserEventGood, SettledGood DEF UserEvent
<1>3. CASE Reference
  BY <1>1, <1>3, IoIncrementGood, SettledGood DEF Reference
<1>4. CASE ReferenceForPnp
  BY <1>1, <1>4, IoIncrementForPnpGood, SettledGood DEF ReferenceForPnp
<1>5. CASE Dereference
  BY <1>1, <1>5, IoDecrementGood, SettledGood DEF Dereference
<1>6. CASE Query
  BY <1>1, <1>6, QueriedGood, SettledGood DEF Query
<1>7. CASE TimerDue
  BY <1>1, <1>7, TimerFiresGood DEF TimerDue
<1>8. CASE TimerDpc
  BY <1>1, <1>8, PowerTimeoutDpcRoutineGood, SettledGood DEF TimerDpc
<1>9. CASE UNCHANGED idle
  BY <1>1, <1>9
<1>10. QED
  BY <1>2, <1>3, <1>4, <1>5, <1>6, <1>7, <1>8, <1>9 DEF IdleNext

(* However its users interleave, as long as they send events only in       *)
(* states whose tables list them, the idle machine traps on none, runs the *)
(* timer only unreferenced, loses no IoPresent, and leaves nobody waiting  *)
(* for a D0 event that nothing will set (ProcessEventLocked).              *)
THEOREM IdleMachineSound == IdleSpec => []IdleInv
<1>1. QED
  BY IdleInitInv, IdleStepInv, PTL DEF IdleSpec

-----------------------------------------------------------------------------
(***************************************************************************)
(* What the users see of the machine                                       *)
(***************************************************************************)

(* However a function changes it: a power failure is remembered, an event  *)
(* the PnP machine asked for is posted once and then no longer asked for,  *)
(* and nothing times out unless the timer does (expires).                  *)
Minds(m, n, expires) ==
    /\ n \in IdleMachine
    /\ "PowerFailed" \in m.flags => "PowerFailed" \in n.flags
    /\ "SendPnpPowerUpEvent" \in n.flags => "SendPnpPowerUpEvent" \in m.flags
    /\ "DeviceInD0" \in n.sent =>
         \/ "DeviceInD0" \in m.sent
         \/ "SendPnpPowerUpEvent" \in m.flags /\ "SendPnpPowerUpEvent" \notin n.flags
    /\ "PowerTimeoutExpired" \in n.sent => "PowerTimeoutExpired" \in m.sent \/ expires

LEMMA MindsChain ==
    ASSUME NEW m, NEW n, NEW k, NEW x, Minds(m, n, x), Minds(n, k, x)
    PROVE  Minds(m, k, x)
BY DEF Minds

LEMMA SetMinds ==
    ASSUME NEW m \in IdleMachine, NEW x, NEW g \in SUBSET (IdleFlags \ {"SendPnpPowerUpEvent"})
    PROVE  Minds(m, Set(m, g), x)
BY DEF Minds, Set, IdleMachine

LEMMA ClearMinds ==
    ASSUME NEW m \in IdleMachine, NEW x, NEW g, "PowerFailed" \notin g
    PROVE  Minds(m, Clear(m, g), x)
BY DEF Minds, Clear, IdleMachine

LEMMA AtMinds ==
    ASSUME NEW m \in IdleMachine, NEW x, NEW u \in IdleStates
    PROVE  Minds(m, At(m, u), x)
BY DEF Minds, At, IdleMachine

LEMMA SendMinds ==
    ASSUME NEW m \in IdleMachine, NEW x
    PROVE  /\ Minds(m, Send(m, "IoPresent"), x)
           /\ Minds(m, Send(m, "PowerTimeoutExpired"), TRUE)
BY DEF Minds, Send, IdleMachine, Posts

LEMMA FieldsMind ==
    ASSUME NEW m \in IdleMachine, NEW x
    PROVE  /\ Minds(m, m, x)
           /\ \A b \in BOOLEAN : Minds(m, [m EXCEPT !.d0 = b], x) /\ Minds(m, [m EXCEPT !.trap = b], x)
           /\ \A v \in Timers : Minds(m, [m EXCEPT !.timer = v], x)
           /\ \A c \in Nat : Minds(m, [m EXCEPT !.count = c], x)
BY DEF Minds, IdleMachine, Timers

LEMMA SendD0NotificationMinds ==
    ASSUME NEW m \in IdleMachine, NEW x
    PROVE  Minds(m, SendD0Notification(m), x)
<1> DEFINE n == [m EXCEPT !.d0 = TRUE]
<1>1. n \in IdleMachine /\ n.flags = m.flags /\ n.sent = m.sent
  BY DEF IdleMachine
<1>2. CASE "SendPnpPowerUpEvent" \in m.flags
  <2> DEFINE k == Clear(n, {"SendPnpPowerUpEvent"})
  <2>1. k \in IdleMachine /\ k.flags = n.flags \ {"SendPnpPowerUpEvent"} /\ k.sent = n.sent
    BY <1>1 DEF Clear, IdleMachine
  <2>2. /\ Send(k, "DeviceInD0") \in IdleMachine
        /\ Send(k, "DeviceInD0").flags = k.flags
        /\ Send(k, "DeviceInD0").sent = k.sent \cup {"DeviceInD0"}
    BY <2>1 DEF Send, IdleMachine, Posts
  <2>3. SendD0Notification(m) = Send(k, "DeviceInD0")
    BY <1>2 DEF SendD0Notification
  <2> HIDE DEF k
  <2>4. QED
    BY <1>1, <1>2, <2>1, <2>2, <2>3 DEF Minds
<1>3. CASE "SendPnpPowerUpEvent" \notin m.flags
  BY <1>1, <1>3 DEF Minds, SendD0Notification
<1>4. QED
  BY <1>2, <1>3

LEMMA StoppedMinds ==
    ASSUME NEW m \in IdleMachine, NEW x
    PROVE  Minds(m, Stopped(m), x)
BY ClearMinds, AtMinds, MindsChain DEF Stopped, Minds, IdleStates

LEMMA StartedMinds ==
    ASSUME NEW m \in IdleMachine, NEW x
    PROVE  Minds(m, Started(m), x)
<1> DEFINE n == [m EXCEPT !.d0 = FALSE]
<1>1. Minds(m, n, x) /\ n \in IdleMachine
  BY FieldsMind DEF Minds
<1> HIDE DEF n
<1>2. Minds(n, Set(n, {"IsStarted"}), x)
  BY <1>1, SetMinds DEF IdleFlags
<1>3. Minds(Set(n, {"IsStarted"}), At(Set(n, {"IsStarted"}), "Started"), x)
  BY <1>2, AtMinds DEF Minds, IdleStates
<1>4. QED
  BY <1>1, <1>2, <1>3, MindsChain DEF Started, n

LEMMA DisabledMinds ==
    ASSUME NEW m \in IdleMachine, NEW x
    PROVE  Minds(m, Disabled(m), x)
<1>1. Minds(m, Clear(m, {"TimerEnabled"}), x) /\ Clear(m, {"TimerEnabled"}) \in IdleMachine
  BY ClearMinds DEF Minds
<1>2. QED
  BY <1>1, AtMinds, MindsChain DEF Disabled, IdleStates

(* who is told of D0, and what follows in one more state *)
LEMMA NotifiedMinds ==
    ASSUME NEW m \in IdleMachine, NEW x
    PROVE  LET n == SendD0Notification(m)
           IN  /\ Minds(m, Disabled(n), x)
               /\ \A u \in IdleStates : Minds(m, At(n, u), x)
BY SendD0NotificationMinds, DisabledMinds, AtMinds, MindsChain DEF Minds

LEMMA StartedPowerUpMinds ==
    ASSUME NEW m \in IdleMachine, NEW x
    PROVE  Minds(m, StartedPowerUp(m), x)
BY NotifiedMinds DEF StartedPowerUp

LEMMA StartedPowerFailedMinds ==
    ASSUME NEW m \in IdleMachine, NEW x
    PROVE  Minds(m, StartedPowerFailed(m), x) /\ "PowerFailed" \in StartedPowerFailed(m).flags
<1> DEFINE n == Set(m, {"PowerFailed"})
<1>1. Minds(m, n, x) /\ n \in IdleMachine
  BY SetMinds DEF IdleFlags, Minds
<1>2. "PowerFailed" \in n.flags
  BY DEF Set, IdleMachine
<1> HIDE DEF n
<1>3. Minds(n, At(SendD0Notification(n), "StartedPowerFailed"), x)
  BY <1>1, NotifiedMinds DEF IdleStates
<1>4. QED
  BY <1>1, <1>2, <1>3, MindsChain DEF StartedPowerFailed, n, Minds

LEMMA StartTimerMinds ==
    ASSUME NEW m \in IdleMachine, NEW x
    PROVE  Minds(m, StartTimer(m), x)
<1> DEFINE n == [m EXCEPT !.timer = "armed"]
           k == Set(n, {"TimerStarted"})
<1>1. Minds(m, n, x) /\ n \in IdleMachine
  BY FieldsMind DEF Minds, Timers
<1>2. Minds(n, k, x) /\ k \in IdleMachine
  BY <1>1, SetMinds DEF IdleFlags, Minds
<1>3. StartTimer(m) = At(k, "TimerRunning")
  BY DEF StartTimer
<1> HIDE DEF n, k
<1>4. Minds(k, At(k, "TimerRunning"), x)
  BY <1>2, AtMinds DEF IdleStates
<1>5. QED
  BY <1>1, <1>2, <1>3, <1>4, MindsChain

LEMMA DecrementIoMinds ==
    ASSUME NEW m \in IdleMachine, NEW x
    PROVE  Minds(m, DecrementIo(m), x)
BY StartTimerMinds, AtMinds DEF DecrementIo, IdleStates

LEMMA CheckIoCountMinds ==
    ASSUME NEW m \in IdleMachine, NEW x
    PROVE  Minds(m, CheckIoCount(m), x)
BY SetMinds, DecrementIoMinds, MindsChain DEF CheckIoCount, IdleFlags, Minds

LEMMA TimingOutMinds ==
    ASSUME NEW m \in IdleMachine
    PROVE  Minds(m, TimingOut(m), TRUE)
<1> DEFINE n == Send(m, "PowerTimeoutExpired")
           k == Clear(n, {"TimerStarted"})
           l == [k EXCEPT !.d0 = FALSE]
<1>1. Minds(m, n, TRUE) /\ n \in IdleMachine
  BY SendMinds DEF Minds
<1>2. Minds(n, k, TRUE) /\ k \in IdleMachine
  BY <1>1, ClearMinds DEF Minds
<1>3. Minds(k, l, TRUE) /\ l \in IdleMachine
  BY <1>2, FieldsMind DEF Minds
<1>4. TimingOut(m) = At(l, "TimedOut")
  BY Zenon DEF TimingOut
<1> HIDE DEF n, k, l
<1>5. Minds(l, At(l, "TimedOut"), TRUE)
  BY <1>3, AtMinds DEF IdleStates
<1>6. Minds(m, k, TRUE)
  BY <1>1, <1>2, MindsChain
<1>7. Minds(m, l, TRUE)
  BY <1>2, <1>3, <1>6, MindsChain
<1>8. QED
  BY <1>3, <1>4, <1>5, <1>7, MindsChain

LEMMA SendIoPresentMinds ==
    ASSUME NEW m \in IdleMachine, NEW x
    PROVE  Minds(m, SendIoPresent(m), x)
<1>1. Minds(m, Send(m, "IoPresent"), x) /\ Minds(m, m, x)
  BY SendMinds, FieldsMind
<1>2. Minds(Send(m, "IoPresent"), Set(Send(m, "IoPresent"), {"IoPresentSent"}), x)
  BY <1>1, SetMinds DEF Minds, IdleFlags
<1>3. QED
  BY <1>1, <1>2, MindsChain DEF SendIoPresent

LEMMA IoPresentMinds ==
    ASSUME NEW m \in IdleMachine, NEW x
    PROVE  Minds(m, TimedOutIoIncrement(m), x) /\ Minds(m, InDxIoIncrement(m), x)
BY SendIoPresentMinds, AtMinds, MindsChain DEF TimedOutIoIncrement, InDxIoIncrement, Minds, IdleStates

LEMMA InDxMinds ==
    ASSUME NEW m \in IdleMachine, NEW x
    PROVE  Minds(m, InDx(m), x)
BY SetMinds, AtMinds, MindsChain DEF InDx, Minds, IdleStates, IdleFlags

LEMMA GoingToDxMinds ==
    ASSUME NEW m \in IdleMachine, NEW x
    PROVE  Minds(m, GoingToDx(m), x)
<1> DEFINE n == [m EXCEPT !.d0 = FALSE]
<1>1. Minds(m, n, x) /\ n \in IdleMachine
  BY FieldsMind DEF Minds
<1> HIDE DEF n
<1>2. QED
  BY <1>1, InDxMinds, MindsChain DEF GoingToDx, n

LEMMA PowerFailedMinds ==
    ASSUME NEW m \in IdleMachine, NEW x
    PROVE  Minds(m, PowerFailed(m), x) /\ "PowerFailed" \in PowerFailed(m).flags
<1> DEFINE n == Clear(m, {"TimerEnabled"})
           k == Set(n, {"PowerFailed"})
<1>1. Minds(m, n, x) /\ n \in IdleMachine
  BY ClearMinds DEF Minds
<1>2. Minds(n, k, x) /\ k \in IdleMachine
  BY <1>1, SetMinds DEF IdleFlags, Minds
<1>3. "PowerFailed" \in k.flags
  BY <1>1 DEF Set, IdleMachine
<1>4. PowerFailed(m) = Disabled(SendD0Notification(k))
  BY DEF PowerFailed
<1> HIDE DEF n, k
<1>5. Minds(k, Disabled(SendD0Notification(k)), x)
  BY <1>2, NotifiedMinds
<1>6. QED
  BY <1>1, <1>2, <1>3, <1>4, <1>5, MindsChain DEF Minds

(* a flag or two cleared first *)
LEMMA ClearedMinds ==
    ASSUME NEW m \in IdleMachine, NEW x
    PROVE  /\ Minds(m, TimedOutPowerDown(m), x)
           /\ Minds(m, TimedOutPowerDownFailed(m), x) /\ "PowerFailed" \in TimedOutPowerDownFailed(m).flags
           /\ Minds(m, InDxPowerUpFailure(m), x) /\ "PowerFailed" \in InDxPowerUpFailure(m).flags
           /\ Minds(m, InDxDisabled(m), x)
           /\ Minds(m, TimerExpired(m), x)
<1>1. \A g : "PowerFailed" \notin g => Minds(m, Clear(m, g), x) /\ Clear(m, g) \in IdleMachine
  BY ClearMinds DEF Minds
<1>2. \A n \in IdleMachine : /\ Minds(n, GoingToDx(n), x) /\ Minds(n, InDx(n), x) /\ Minds(n, CheckIoCount(n), x)
                             /\ Minds(n, PowerFailed(n), x) /\ "PowerFailed" \in PowerFailed(n).flags
  BY GoingToDxMinds, InDxMinds, CheckIoCountMinds, PowerFailedMinds
<1>3. QED
  BY <1>1, <1>2, MindsChain
  DEF TimedOutPowerDown, TimedOutPowerDownFailed, InDxPowerUpFailure, InDxDisabled, TimerExpired

LEMMA InDxEnabledMinds ==
    ASSUME NEW m \in IdleMachine, NEW x
    PROVE  Minds(m, InDxEnabled(m), x)
BY SetMinds, InDxMinds, MindsChain DEF InDxEnabled, IdleFlags, Minds

LEMMA InDxStoppedMinds ==
    ASSUME NEW m \in IdleMachine, NEW x
    PROVE  Minds(m, InDxStopped(m), x)
<1> DEFINE n == SendD0Notification(m)
           k == Clear(n, {"InDx", "TimerEnabled", "IoPresentSent"})
<1>1. Minds(m, n, x) /\ n \in IdleMachine
  BY SendD0NotificationMinds DEF Minds
<1>2. Minds(n, k, x) /\ k \in IdleMachine
  BY <1>1, ClearMinds DEF Minds
<1>3. InDxStopped(m) = Stopped(k)
  BY DEF InDxStopped
<1> HIDE DEF n, k
<1>4. QED
  BY <1>1, <1>2, <1>3, StoppedMinds, MindsChain

LEMMA PowerUpMinds ==
    ASSUME NEW m \in IdleMachine, NEW x
    PROVE  Minds(m, PowerUp(m), x)
<1> DEFINE n == Clear(m, {"InDx", "IoPresentSent"})
           k == SendD0Notification(n)
<1>1. Minds(m, n, x) /\ n \in IdleMachine
  BY ClearMinds DEF Minds
<1>2. Minds(n, k, x) /\ k \in IdleMachine
  BY <1>1, SendD0NotificationMinds DEF Minds
<1>3. PowerUp(m) = PowerUpComplete(k)
  BY DEF PowerUp
<1> HIDE DEF n, k
<1>4. Minds(k, PowerUpComplete(k), x)
  BY <1>2, DisabledMinds, AtMinds, CheckIoCountMinds DEF PowerUpComplete, IdleStates
<1>5. QED
  BY <1>1, <1>2, <1>3, <1>4, MindsChain

LEMMA TimedOutEndsMinds ==
    ASSUME NEW m \in IdleMachine, NEW x
    PROVE  Minds(m, TimedOutDisabled(m), x) /\ Minds(m, TimedOutEnabled(m), x)
<1> DEFINE n == SendD0Notification(m)
           k == Clear(n, {"IoPresentSent"})
<1>1. Minds(m, n, x) /\ n \in IdleMachine
  BY SendD0NotificationMinds DEF Minds
<1>2. Minds(n, k, x) /\ k \in IdleMachine
  BY <1>1, ClearMinds DEF Minds
<1>3. TimedOutDisabled(m) = Disabled(k) /\ TimedOutEnabled(m) = CheckIoCount(k)
  BY DEF TimedOutDisabled, TimedOutEnabled
<1> HIDE DEF n, k
<1>4. Minds(k, Disabled(k), x) /\ Minds(k, CheckIoCount(k), x)
  BY <1>2, DisabledMinds, CheckIoCountMinds
<1>5. QED
  BY <1>1, <1>2, <1>3, <1>4, MindsChain

LEMMA CancelIdleTimerMinds ==
    ASSUME NEW m \in IdleMachine, NEW x
    PROVE  Minds(m, CancelIdleTimer(m), x)
<1> DEFINE n == [m EXCEPT !.timer = "off"]
<1>1. Minds(m, n, x) /\ n \in IdleMachine
  BY FieldsMind DEF Minds, Timers
<1> HIDE DEF n
<1>2. QED
  BY <1>1, ClearMinds, MindsChain DEF CancelIdleTimer, n

LEMMA CancelsMind ==
    ASSUME NEW m \in IdleMachine, NEW x
    PROVE  Minds(m, CancelTimer(m), x) /\ Minds(m, Disabling(m), x)
<1>1. \A u \in IdleStates : Minds(m, At(m, u), x)
  BY AtMinds
<1>2. Minds(m, CancelIdleTimer(m), x) /\ CancelIdleTimer(m) \in IdleMachine
  BY CancelIdleTimerMinds DEF Minds
<1>3. Minds(m, CheckIoCount(CancelIdleTimer(m)), x) /\ Minds(m, Disabled(CancelIdleTimer(m)), x)
  BY <1>2, CheckIoCountMinds, DisabledMinds, MindsChain
<1>4. QED
  BY <1>1, <1>3 DEF CancelTimer, Disabling, IdleStates

LEMMA DisablingTimerExpiredMinds ==
    ASSUME NEW m \in IdleMachine
    PROVE  Minds(m, DisablingTimerExpired(m), TRUE)
<1> DEFINE n == Clear(m, {"TimerStarted"})
           k == Send(n, "PowerTimeoutExpired")
<1>1. Minds(m, n, TRUE) /\ n \in IdleMachine
  BY ClearMinds DEF Minds
<1>2. Minds(n, k, TRUE) /\ k \in IdleMachine
  BY <1>1, SendMinds DEF Minds
<1>3. DisablingTimerExpired(m) = Disabled(k)
  BY DEF DisablingTimerExpired
<1> HIDE DEF n, k
<1>4. QED
  BY <1>1, <1>2, <1>3, DisabledMinds, MindsChain

(* and so does every event *)
LEMMA EventMinds ==
    ASSUME NEW m \in IdleMachine, NEW e
    PROVE  Minds(m, ProcessEventLocked(m, e), e = "TimerExpired")
<1> DEFINE x == e = "TimerExpired"
           s == m.state
<1>1. /\ Minds(m, Stopped(m), x) /\ Minds(m, Started(m), x) /\ Minds(m, Disabled(m), x)
      /\ Minds(m, StartedPowerUp(m), x) /\ Minds(m, StartedPowerFailed(m), x)
      /\ Minds(m, CheckIoCount(m), x) /\ Minds(m, DecrementIo(m), x)
  BY StoppedMinds, StartedMinds, DisabledMinds, StartedPowerUpMinds, StartedPowerFailedMinds,
     CheckIoCountMinds, DecrementIoMinds
<1>2. /\ Minds(m, TimedOutPowerDown(m), x) /\ Minds(m, TimedOutPowerDownFailed(m), x)
      /\ Minds(m, InDxPowerUpFailure(m), x) /\ Minds(m, InDxDisabled(m), x)
      /\ Minds(m, TimerExpired(m), x) /\ Minds(m, GoingToDx(m), x)
      /\ Minds(m, PowerFailed(m), x) /\ Minds(m, InDx(m), x) /\ Minds(m, InDxEnabled(m), x)
  BY ClearedMinds, GoingToDxMinds, PowerFailedMinds, InDxMinds, InDxEnabledMinds
<1>3. /\ Minds(m, TimedOutIoIncrement(m), x) /\ Minds(m, InDxIoIncrement(m), x)
      /\ Minds(m, InDxStopped(m), x) /\ Minds(m, PowerUp(m), x)
      /\ Minds(m, TimedOutDisabled(m), x) /\ Minds(m, TimedOutEnabled(m), x)
      /\ Minds(m, CancelTimer(m), x) /\ Minds(m, Disabling(m), x)
  BY IoPresentMinds, InDxStoppedMinds, PowerUpMinds, TimedOutEndsMinds, CancelsMind
<1>4. /\ Minds(m, TimingOut(m), TRUE) /\ Minds(m, DisablingTimerExpired(m), TRUE)
      /\ \A u \in IdleStates : Minds(m, At(m, u), x)
      /\ \A b \in BOOLEAN : Minds(m, [m EXCEPT !.trap = b], x)
  BY TimingOutMinds, DisablingTimerExpiredMinds, AtMinds, FieldsMind
<1>5. \A b \in BOOLEAN : (m.trap \/ b) \in BOOLEAN
  BY DEF IdleMachine
<1>6. Minds(m, [m EXCEPT !.trap = @ \/ ~Ignored(m, e)], x)
  BY <1>4, <1>5 DEF Ignored
<1>7. {"PowerFailedWaitForTimeout", "DisablingWaitForTimeout"} \subseteq IdleStates
  BY DEF IdleStates
<1>8. QED
  BY <1>1, <1>2, <1>3, <1>4, <1>6, <1>7 DEF ProcessEventLocked, Enter

(* Where an event takes the machine *)
LEMMA StartTurns ==
    ASSUME NEW m, Good(m), Legal(m, "Start")
    PROVE  ProcessEventLocked(m, "Start").state = "Started"
<1>1. Is(m, m.state, m.flags, m.count, m.d0, m.timer)
  BY GoodFields
<1>2. ProcessEventLocked(m, "Start") = Started(m)
  BY DEF ProcessEventLocked, Enter, Legal
<1>3. QED
  BY <1>1, <1>2, StartedIs DEF Is

LEMMA StopTurns ==
    ASSUME NEW m, Good(m), Legal(m, "Stop")
    PROVE  ProcessEventLocked(m, "Stop").state = "Stopped"
<1>1. Is(m, m.state, m.flags, m.count, m.d0, m.timer)
  BY GoodFields
<1>2. ProcessEventLocked(m, "Stop") = Stopped(m) \/ ProcessEventLocked(m, "Stop") = InDxStopped(m)
  BY DEF ProcessEventLocked, Enter, Legal
<1>3. QED
  BY <1>1, <1>2, StoppedIs, InDxStoppedIs DEF Is

LEMMA CheckIoCountTurns ==
    ASSUME NEW m, NEW s, NEW f, NEW c, NEW d, NEW t, Is(m, s, f, c, d, t)
    PROVE  CheckIoCount(m).state \in {"TimerRunning", "Busy"}
<1> DEFINE n == CheckIoCount(m)
<1>1. Is(n, IF c = 0 THEN "TimerRunning" ELSE "Busy", IF c = 0 THEN f \cup {"TimerEnabled", "TimerStarted"}
                                  ELSE f \cup {"TimerEnabled"}, c, d, IF c = 0 THEN "armed" ELSE t)
  BY CheckIoCountIs
<1> HIDE DEF n
<1>2. n.state = IF c = 0 THEN "TimerRunning" ELSE "Busy"
  BY <1>1 DEF Is
<1>3. QED
  BY <1>2 DEF n

LEMMA PowerUpCompleteTurns ==
    ASSUME NEW m, Good(m), Legal(m, "PowerUpComplete")
    PROVE  LET n == ProcessEventLocked(m, "PowerUpComplete")
           IN  n.state \in IF "TimerEnabled" \notin m.flags THEN {"Disabled"} ELSE {"TimerRunning", "Busy"}
<1> DEFINE s == m.state
           f == m.flags
           c == m.count
           d == m.d0
           t == m.timer
<1>1. Is(m, s, f, c, d, t) /\ Sound(s, f, c, d, t)
  BY GoodFields
<1>2. s \in {"Started", "InDx"}
  BY DEF Legal
<1>3. CASE s = "Started"
  <2>1. ProcessEventLocked(m, "PowerUpComplete") = StartedPowerUp(m)
    BY <1>3 DEF ProcessEventLocked, Enter
  <2>2. StartedPowerUp(m).state = "Disabled"
    BY <1>1, StartedPowerUpIs DEF Is
  <2>3. "TimerEnabled" \notin f
    BY <1>1, <1>3 DEF Sound
  <2>4. QED
    BY <2>1, <2>2, <2>3
<1>4. CASE s = "InDx"
  <2> DEFINE n == SendD0Notification(Clear(m, {"InDx", "IoPresentSent"}))
             g == (f \ {"InDx", "IoPresentSent"}) \ {"SendPnpPowerUpEvent"}
  <2>1. Is(n, s, g, c, TRUE, t)
    BY <1>1, ClearIs, SendD0NotificationIs
  <2>2. ProcessEventLocked(m, "PowerUpComplete") = PowerUpComplete(n)
    BY <1>4 DEF ProcessEventLocked, Enter, PowerUp
  <2>3. /\ "TimerStarted" \notin g
        /\ "TimerEnabled" \in g <=> "TimerEnabled" \in f
    BY <1>1, <1>4 DEF Sound
  <2> HIDE DEF n, g, s, f, c, d, t
  <2>4. n.flags = g
    BY <2>1 DEF Is
  <2>5. Disabled(n).state = "Disabled"
    BY <2>1, DisabledIs DEF Is
  <2>6. CheckIoCount(n).state \in {"TimerRunning", "Busy"}
    BY <2>1, CheckIoCountTurns
  <2>7. PowerUpComplete(n) = IF "TimerEnabled" \notin g THEN Disabled(n) ELSE CheckIoCount(n)
    BY <2>3, <2>4 DEF PowerUpComplete
  <2>8. QED
    BY <2>2, <2>3, <2>5, <2>6, <2>7 DEF f
<1>5. QED
  BY <1>2, <1>3, <1>4

LEMMA PowerUpFailedTurns ==
    ASSUME NEW m, Good(m), Legal(m, "PowerUpFailed")
    PROVE  LET n == ProcessEventLocked(m, "PowerUpFailed")
           IN  /\ n.state = IF m.state = "Started" THEN "StartedPowerFailed" ELSE "Disabled"
               /\ "PowerFailed" \in n.flags
<1>1. Is(m, m.state, m.flags, m.count, m.d0, m.timer) /\ m \in IdleMachine
  BY GoodFields DEF Is
<1>2. m.state \in {"Started", "Disabled", "InDx"}
  BY DEF Legal
<1>3. ProcessEventLocked(m, "PowerUpFailed") =
        CASE m.state = "Started" -> StartedPowerFailed(m)
          [] m.state = "Disabled" -> PowerFailed(m)
          [] m.state = "InDx" -> InDxPowerUpFailure(m)
  BY <1>2 DEF ProcessEventLocked, Enter
<1>4. /\ StartedPowerFailed(m).state = "StartedPowerFailed"
      /\ PowerFailed(m).state = "Disabled"
      /\ InDxPowerUpFailure(m).state = "Disabled"
  BY <1>1, StartedPowerFailedIs, PowerFailedIs, InDxPowerUpFailureIs DEF Is
<1>5. /\ "PowerFailed" \in StartedPowerFailed(m).flags
      /\ "PowerFailed" \in PowerFailed(m).flags
      /\ "PowerFailed" \in InDxPowerUpFailure(m).flags
  BY <1>1, StartedPowerFailedMinds, PowerFailedMinds, ClearedMinds
<1>6. QED
  BY <1>2, <1>3, <1>4, <1>5

LEMMA PowerDownTurns ==
    ASSUME NEW m, Good(m), Legal(m, "PowerDown")
    PROVE  LET n == ProcessEventLocked(m, "PowerDown")
           IN  /\ n.state = "InDx"
               /\ "TimerEnabled" \in n.flags => "TimerEnabled" \in m.flags
               /\ "SendPnpPowerUpEvent" \in m.flags => "SendPnpPowerUpEvent" \in n.flags
<1> DEFINE s == m.state
           f == m.flags
           c == m.count
           d == m.d0
           t == m.timer
<1>1. Is(m, s, f, c, d, t)
  BY GoodFields
<1>2. s \in {"Disabled", "TimedOut", "InDx"}
  BY DEF Legal
<1>3. ProcessEventLocked(m, "PowerDown") =
        CASE s = "Disabled" -> GoingToDx(m)
          [] s = "TimedOut" -> TimedOutPowerDown(m)
          [] s = "InDx" -> InDx(m)
  BY <1>2 DEF ProcessEventLocked, Enter
<1> HIDE DEF s, c, d, t, f
<1>4. GoingToDx(m).state = "InDx" /\ GoingToDx(m).flags = f \cup {"InDx"}
  BY <1>1, GoingToDxIs DEF Is
<1>5. /\ TimedOutPowerDown(m).state = "InDx"
      /\ TimedOutPowerDown(m).flags = (f \ {"IoPresentSent"}) \cup {"InDx"}
  BY <1>1, TimedOutPowerDownIs DEF Is
<1>6. InDx(m).state = "InDx" /\ InDx(m).flags = f \cup {"InDx"}
  BY <1>1, InDxIs DEF Is
<1>7. QED
  BY <1>2, <1>3, <1>4, <1>5, <1>6 DEF f

LEMMA PowerDownFailedTurns ==
    ASSUME NEW m, Good(m), Legal(m, "PowerDownFailed")
    PROVE  LET n == ProcessEventLocked(m, "PowerDownFailed")
           IN  n.state = "Disabled" /\ "PowerFailed" \in n.flags
<1>1. Is(m, m.state, m.flags, m.count, m.d0, m.timer) /\ m \in IdleMachine
  BY GoodFields DEF Is
<1>2. m.state \in {"Disabled", "TimedOut"}
  BY DEF Legal
<1>3. ProcessEventLocked(m, "PowerDownFailed") =
        IF m.state = "Disabled" THEN PowerFailed(m) ELSE TimedOutPowerDownFailed(m)
  BY <1>2 DEF ProcessEventLocked, Enter
<1>4. PowerFailed(m).state = "Disabled" /\ TimedOutPowerDownFailed(m).state = "Disabled"
  BY <1>1, PowerFailedIs, TimedOutPowerDownFailedIs DEF Is
<1>5. "PowerFailed" \in PowerFailed(m).flags /\ "PowerFailed" \in TimedOutPowerDownFailed(m).flags
  BY <1>1, PowerFailedMinds, ClearedMinds
<1>6. QED
  BY <1>2, <1>3, <1>4, <1>5

LEMMA EnabledTurns ==
    ASSUME NEW m, Good(m), m.state \in {"Disabled", "TimedOut"}
    PROVE  ProcessEventLocked(m, "Enabled").state \in {"TimerRunning", "Busy"}
<1> DEFINE n == Clear(SendD0Notification(m), {"IoPresentSent"})
<1>1. Is(m, m.state, m.flags, m.count, m.d0, m.timer)
  BY GoodFields
<1>2. Is(n, m.state, (m.flags \ {"SendPnpPowerUpEvent"}) \ {"IoPresentSent"}, m.count, TRUE, m.timer)
  BY <1>1, SendD0NotificationIs, ClearIs
<1>3. ProcessEventLocked(m, "Enabled") = IF m.state = "Disabled" THEN CheckIoCount(m) ELSE CheckIoCount(n)
  BY DEF ProcessEventLocked, Enter, TimedOutEnabled
<1> HIDE DEF n
<1>4. QED
  BY <1>1, <1>2, <1>3, CheckIoCountTurns

LEMMA DisabledTurns ==
    ASSUME NEW m, Good(m), Legal(m, "Disabled")
    PROVE  LET n == ProcessEventLocked(m, "Disabled")
           IN  /\ CASE m.state \in {"Disabled", "Busy", "TimedOut"} -> n.state = "Disabled"
                    [] m.state = "TimerRunning" -> n.state \in {"Disabled", "DisablingWaitForTimeout"}
                    [] m.state = "WaitForTimeout" -> n.state = "DisablingWaitForTimeout"
                    [] m.state = "InDx" -> n.state = "InDx" /\ "TimerEnabled" \notin n.flags
               /\ DisabledImmediately(n) <=> n.state # "DisablingWaitForTimeout"
<1> DEFINE s == m.state
           f == m.flags
           c == m.count
           d == m.d0
           t == m.timer
           n == ProcessEventLocked(m, "Disabled")
<1>1. Is(m, s, f, c, d, t)
  BY GoodFields
<1>2. s \in {"Disabled", "Busy", "TimerRunning", "TimedOut", "InDx", "WaitForTimeout"}
  BY DEF Legal
<1>3. n = CASE s \in {"Disabled", "Busy"} -> Disabled(m)
            [] s = "TimerRunning" -> Disabling(m)
            [] s = "TimedOut" -> TimedOutDisabled(m)
            [] s = "InDx" -> InDxDisabled(m)
            [] s = "WaitForTimeout" -> At(m, "DisablingWaitForTimeout")
  BY <1>2 DEF ProcessEventLocked, Enter
<1>4. Good(n)
  BY DisabledGood
<1> HIDE DEF s, f, c, d, t
<1>5. /\ Disabled(m).state = "Disabled" /\ TimedOutDisabled(m).state = "Disabled"
      /\ At(m, "DisablingWaitForTimeout").state = "DisablingWaitForTimeout"
  <2>1. Is(At(m, "DisablingWaitForTimeout"), "DisablingWaitForTimeout", f, c, d, t)
    BY <1>1, AtIs DEF IdleStates
  <2>2. Disabled(m).state = "Disabled"
    BY <1>1, DisabledIs DEF Is
  <2>3. TimedOutDisabled(m).state = "Disabled"
    BY <1>1, TimedOutDisabledIs DEF Is
  <2>4. QED
    BY <2>1, <2>2, <2>3 DEF Is
<1>6. InDxDisabled(m).state = "InDx" /\ InDxDisabled(m).flags = (f \ {"TimerEnabled"}) \cup {"InDx"}
  BY <1>1, InDxDisabledIs DEF Is
<1>7. Disabling(m).state \in {"Disabled", "DisablingWaitForTimeout"}
  <2>1. Is(Disabled(CancelIdleTimer(m)), "Disabled", (f \ {"TimerStarted"}) \ {"TimerEnabled"}, c, d, "off")
    BY <1>1, CancelIdleTimerIs, DisabledIs
  <2>2. QED
    BY <1>5, <2>1 DEF Disabling, Is
<1>8. CASE s \in {"Disabled", "Busy", "TimedOut"}
  <2>1. n.state = "Disabled"
    BY <1>3, <1>5, <1>8
  <2>2. DisabledImmediately(n)
    BY <1>4, <2>1, GoodFields DEF Sound, DisabledImmediately
  <2> HIDE DEF n
  <2>3. QED
    BY <1>8, <2>1, <2>2 DEF n, s
<1>9. CASE s \in {"TimerRunning", "WaitForTimeout"}
  <2>1. n.state \in {"Disabled", "DisablingWaitForTimeout"}
        /\ (s = "WaitForTimeout" => n.state = "DisablingWaitForTimeout")
    BY <1>3, <1>5, <1>7, <1>9
  <2>2. DisabledImmediately(n) <=> n.state # "DisablingWaitForTimeout"
    BY <1>4, <2>1, GoodFields DEF Sound, DisabledImmediately
  <2> HIDE DEF n
  <2>3. QED
    BY <1>9, <2>1, <2>2 DEF n, s
<1>10. CASE s = "InDx"
  <2>1. n.state = "InDx" /\ "TimerEnabled" \notin n.flags
    BY <1>3, <1>6, <1>10
  <2>2. DisabledImmediately(n)
    BY <1>4, <2>1, GoodFields DEF Sound, DisabledImmediately
  <2> HIDE DEF n
  <2>3. QED
    BY <1>10, <2>1, <2>2 DEF n, s
<1>11. QED
  BY <1>2, <1>8, <1>9, <1>10

(* A reference taken or given back moves the machine among the states in   *)
(* which the device is up and may time out, and no further                 *)
Awake == {"Busy", "TimerRunning", "WaitForTimeout"}

Uses(m, n) ==
    /\ n.state = m.state \/ (m.state \in Awake /\ n.state \in Awake)
    /\ m.state = "InDx" => ("TimerEnabled" \in n.flags <=> "TimerEnabled" \in m.flags)
    /\ m.state \in {"TimedOut", "InDx"} /\ "SendPnpPowerUpEvent" \in m.flags =>
         "SendPnpPowerUpEvent" \in n.flags

LEMMA CancelTimerTurns ==
    ASSUME NEW m, NEW s, NEW f, NEW c, NEW d, NEW t, Is(m, s, f, c, d, t)
    PROVE  CancelTimer(m).state \in Awake
<1>1. CheckIoCount(CancelIdleTimer(m)).state \in {"TimerRunning", "Busy"}
  BY CancelIdleTimerIs, CheckIoCountTurns
<1>2. At(m, "WaitForTimeout").state = "WaitForTimeout"
  <2>1. Is(At(m, "WaitForTimeout"), "WaitForTimeout", f, c, d, t)
    BY AtIs DEF IdleStates
  <2>2. QED
    BY <2>1 DEF Is
<1>3. QED
  BY <1>1, <1>2 DEF CancelTimer, Awake

LEMMA IoIncrementTurns ==
    ASSUME NEW m, Good(m)
    PROVE  Uses(m, IoIncrement(m)) /\ Minds(m, IoIncrement(m), FALSE)
<1> DEFINE n == [m EXCEPT !.count = @ + 1]
           s == m.state
           f == m.flags
           c == m.count + 1
           d == m.d0
           t == m.timer
<1>1. Is(m, s, f, m.count, d, t) /\ m \in IdleMachine
  BY GoodFields DEF Is
<1>2. c \in Nat
  BY <1>1 DEF IdleMachine
<1>3. Is(n, s, f, c, d, t) /\ Minds(m, n, FALSE)
  BY <1>1, <1>2, CountIs, FieldsMind
<1>4. IoIncrement(m) = Enter(n, s, "IoIncrement") /\ IoIncrement(m) = ProcessEventLocked(n, "IoIncrement")
  BY <1>3 DEF IoIncrement, ProcessEventLocked, Is
<1>5. Minds(m, IoIncrement(m), FALSE)
  <2>1. Minds(n, ProcessEventLocked(n, "IoIncrement"), FALSE)
    BY <1>3, EventMinds DEF Is
  <2> HIDE DEF n
  <2>2. QED
    BY <1>3, <1>4, <2>1, MindsChain
<1> HIDE DEF n, s, f, c, d, t
<1>6. CASE s = "TimerRunning"
  <2>1. IoIncrement(m) = CancelTimer(n)
    BY <1>4, <1>6 DEF Enter
  <2>2. QED
    BY <1>3, <1>5, <1>6, <2>1, CancelTimerTurns DEF Uses, Awake, s
<1>7. CASE s = "TimedOut"
  <2>1. IoIncrement(m) = TimedOutIoIncrement(n)
    BY <1>4, <1>7 DEF Enter
  <2>2. Is(TimedOutIoIncrement(n), "TimedOut", f \cup {"IoPresentSent"}, c, d, t)
    BY <1>3, TimedOutIoIncrementIs
  <2>3. IoIncrement(m).state = "TimedOut" /\ IoIncrement(m).flags = f \cup {"IoPresentSent"}
    BY <2>1, <2>2 DEF Is
  <2>4. QED
    BY <1>5, <1>7, <2>3 DEF Uses, s, f
<1>8. CASE s = "InDx"
  <2>1. IoIncrement(m) = InDxIoIncrement(n)
    BY <1>4, <1>8 DEF Enter
  <2>2. Is(InDxIoIncrement(n), "InDx", f \cup {"IoPresentSent"}, c, d, t)
    BY <1>3, InDxIoIncrementIs
  <2>3. IoIncrement(m).state = "InDx" /\ IoIncrement(m).flags = f \cup {"IoPresentSent"}
    BY <2>1, <2>2 DEF Is
  <2>4. QED
    BY <1>5, <1>8, <2>3 DEF Uses, s, f
<1>9. CASE s \notin {"TimerRunning", "TimedOut", "InDx"}
  <2>1. IoIncrement(m) = [n EXCEPT !.trap = @ \/ ~Ignored(n, "IoIncrement")]
    BY <1>4, <1>9 DEF Enter
  <2>2. IoIncrement(m).state = s
    BY <1>3, <2>1 DEF Is, IdleMachine
  <2>3. QED
    BY <1>5, <1>9, <2>2 DEF Uses, s
<1>10. QED
  BY <1>6, <1>7, <1>8, <1>9

LEMMA IoDecrementTurns ==
    ASSUME NEW m, Good(m), m.count > 0
    PROVE  Uses(m, IoDecrement(m)) /\ Minds(m, IoDecrement(m), FALSE)
<1> DEFINE n == [m EXCEPT !.count = @ - 1]
           s == m.state
           f == m.flags
           c == m.count - 1
           d == m.d0
           t == m.timer
<1>1. Is(m, s, f, m.count, d, t) /\ m \in IdleMachine
  BY GoodFields DEF Is
<1>2. c \in Nat
  BY <1>1 DEF IdleMachine
<1>3. Is(n, s, f, c, d, t) /\ Minds(m, n, FALSE)
  BY <1>1, <1>2, CountIs, FieldsMind
<1>4. IoDecrement(m) = Enter(n, s, "IoDecrement") /\ IoDecrement(m) = ProcessEventLocked(n, "IoDecrement")
  BY <1>3 DEF IoDecrement, ProcessEventLocked, Is
<1>5. Minds(m, IoDecrement(m), FALSE)
  <2>1. Minds(n, ProcessEventLocked(n, "IoDecrement"), FALSE)
    BY <1>3, EventMinds DEF Is
  <2> HIDE DEF n
  <2>2. QED
    BY <1>3, <1>4, <2>1, MindsChain
<1> HIDE DEF n, s, f, c, d, t
<1>6. CASE s = "Busy"
  <2>1. IoDecrement(m) = DecrementIo(n)
    BY <1>4, <1>6 DEF Enter
  <2>2. Is(DecrementIo(n), IF c = 0 THEN "TimerRunning" ELSE "Busy", IF c = 0 THEN f \cup {"TimerStarted"} ELSE f,
           c, d, IF c = 0 THEN "armed" ELSE t)
    BY <1>3, DecrementIoIs
  <2>3. IoDecrement(m).state = IF c = 0 THEN "TimerRunning" ELSE "Busy"
    BY <2>1, <2>2 DEF Is
  <2>4. QED
    BY <1>5, <1>6, <2>3 DEF Uses, Awake, s
<1>7. CASE s = "InDx"
  <2>1. IoDecrement(m) = InDx(n)
    BY <1>4, <1>7 DEF Enter
  <2>2. Is(InDx(n), "InDx", f \cup {"InDx"}, c, d, t)
    BY <1>3, InDxIs
  <2>3. IoDecrement(m).state = "InDx" /\ IoDecrement(m).flags = f \cup {"InDx"}
    BY <2>1, <2>2 DEF Is
  <2>4. QED
    BY <1>5, <1>7, <2>3 DEF Uses, s, f
<1>8. CASE s \notin {"Busy", "InDx"}
  <2>1. IoDecrement(m) = [n EXCEPT !.trap = @ \/ ~Ignored(n, "IoDecrement")]
    BY <1>4, <1>8 DEF Enter
  <2>2. IoDecrement(m).state = s /\ IoDecrement(m).flags = f
    BY <1>3, <2>1 DEF Is, IdleMachine
  <2>3. QED
    BY <1>5, <1>8, <2>2 DEF Uses, s, f
<1>9. QED
  BY <1>6, <1>7, <1>8

(* the PnP machine asks for an event only where one will come *)
LEMMA IoIncrementForPnpTurns ==
    ASSUME NEW m, Good(m)
    PROVE  LET n == IoIncrementForPnp(m)
           IN  /\ n \in IdleMachine /\ Uses(m, n)
               /\ "PowerFailed" \in m.flags => "PowerFailed" \in n.flags
               /\ "DeviceInD0" \in n.sent => "DeviceInD0" \in m.sent \/ "SendPnpPowerUpEvent" \in m.flags
               /\ "PowerTimeoutExpired" \in n.sent => "PowerTimeoutExpired" \in m.sent
               /\ n.d0 => Minds(m, n, FALSE)
<1> DEFINE n == IoIncrement(m)
           k == Set(n, {"SendPnpPowerUpEvent"})
<1>1. Uses(m, n) /\ Minds(m, n, FALSE) /\ n \in IdleMachine
  BY IoIncrementTurns DEF Minds
<1>2. IoIncrementForPnp(m) = IF n.d0 THEN n ELSE k
  BY DEF IoIncrementForPnp
<1>3. /\ k \in IdleMachine /\ k.state = n.state /\ k.sent = n.sent /\ k.d0 = n.d0
      /\ k.flags = n.flags \cup {"SendPnpPowerUpEvent"}
  BY <1>1 DEF Set, IdleMachine, IdleFlags
<1> HIDE DEF n, k
<1>4. QED
  BY <1>1, <1>2, <1>3 DEF Uses, Minds

(* The device times out only unreferenced, and an expiry that comes too    *)
(* late does nothing but free who waits for it                             *)
LEMMA PowerTimeoutDpcRoutineTurns ==
    ASSUME NEW m, Good(m), m.timer = "fired"
    PROVE  LET n == PowerTimeoutDpcRoutine(m)
           IN  /\ CASE m.state = "TimerRunning" -> n.state = "TimedOut" /\ m.count = 0
                    [] m.state = "DisablingWaitForTimeout" -> n.state = "Disabled"
                    [] m.state = "WaitForTimeout" -> n.state \in {"TimerRunning", "Busy"}
                    [] OTHER -> FALSE
               /\ Minds(m, n, m.state # "WaitForTimeout")
<1> DEFINE n == [m EXCEPT !.timer = "off"]
           s == m.state
           f == m.flags
           c == m.count
           d == m.d0
<1>1. Is(m, s, f, c, d, "fired") /\ Sound(s, f, c, d, "fired") /\ m \in IdleMachine
  BY GoodFields DEF Is
<1>2. Is(n, s, f, c, d, "off") /\ n \in IdleMachine /\ Minds(m, n, TRUE) /\ Minds(m, n, FALSE)
  <2>1. Is(n, s, f, c, d, "off")
    BY <1>1, TimerIs DEF Timers
  <2>2. Minds(m, n, TRUE) /\ Minds(m, n, FALSE)
    BY <1>1, FieldsMind DEF Timers
  <2>3. QED
    BY <2>1, <2>2 DEF Is
<1>3. PowerTimeoutDpcRoutine(m) = Enter(n, s, "TimerExpired")
  BY <1>2 DEF PowerTimeoutDpcRoutine, ProcessEventLocked, Is
<1> HIDE DEF n, s, f, c, d
<1>4. CASE s = "TimerRunning"
  <2>1. PowerTimeoutDpcRoutine(m) = TimingOut(n)
    BY <1>3, <1>4 DEF Enter
  <2>2. TimingOut(n).state = "TimedOut"
    BY <1>2, TimingOutIs DEF Is
  <2>3. c = 0
    BY <1>1, <1>4 DEF Sound
  <2>4. Minds(m, TimingOut(n), TRUE)
    BY <1>2, TimingOutMinds, MindsChain
  <2>5. QED
    BY <1>4, <2>1, <2>2, <2>3, <2>4 DEF s, c
<1>5. CASE s = "WaitForTimeout"
  <2>1. PowerTimeoutDpcRoutine(m) = TimerExpired(n)
    BY <1>3, <1>5 DEF Enter
  <2>2. TimerExpired(n).state \in {"TimerRunning", "Busy"}
    BY <1>2, ClearIs, CheckIoCountTurns DEF TimerExpired
  <2>3. Minds(m, TimerExpired(n), FALSE)
    BY <1>2, ClearedMinds, MindsChain
  <2>4. QED
    BY <1>5, <2>1, <2>2, <2>3 DEF s
<1>6. CASE s = "DisablingWaitForTimeout"
  <2>1. PowerTimeoutDpcRoutine(m) = DisablingTimerExpired(n)
    BY <1>3, <1>6 DEF Enter
  <2>2. DisablingTimerExpired(n).state = "Disabled"
    BY <1>2, DisablingTimerExpiredIs DEF Is
  <2>3. Minds(m, DisablingTimerExpired(n), TRUE)
    BY <1>2, DisablingTimerExpiredMinds, MindsChain
  <2>4. QED
    BY <1>6, <2>1, <2>2, <2>3 DEF s
<1>7. QED
  BY <1>1, <1>4, <1>5, <1>6 DEF Sound

(* The due time and the query change nothing that the others see           *)
LEMMA AsideTurns ==
    ASSUME NEW m, Good(m)
    PROVE  /\ Uses(m, TimerFires(m)) /\ TimerFires(m).state = m.state /\ TimerFires(m).flags = m.flags
           /\ TimerFires(m).sent = m.sent
           /\ Uses(m, Queried(m)) /\ Minds(m, Queried(m), FALSE) /\ Queried(m).state = m.state
BY ClearMinds DEF TimerFires, Queried, Clear, Uses, Good, IdleMachine

=============================================================================
