---------------------------- MODULE DevicePower ----------------------------
(***************************************************************************)
(* The PnP, power policy and power machines of a device with its idle and  *)
(* self managed I/O machines, composed with everything that drives them:   *)
(* the PnP and power managers and their IRPs, the lower and upper drivers, *)
(* the idle timer, an I/O queue and a driver thread that use the device,   *)
(* and a driver that changes its S0 idle settings.                         *)
(***************************************************************************)
EXTENDS Power, PowerPolicy, Pnp

CONSTANT S0IdleSettings   \* what the driver may set S0 idling to: enabled, or not

ASSUME SettingsAssumption == S0IdleSettings \subseteq BOOLEAN

InitDevice == [up |-> {}, smio |-> "Created", misused |-> {},
               ioCallbackFailure |-> FALSE, powerDownFailure |-> FALSE,
               powerFailed |-> FALSE, internalFailure |-> FALSE]

Init ==
    /\ at = [pnp |-> "Init", policy |-> "ObjectCreated", power |-> "ObjectCreated"]
    /\ entering = {}
    /\ queue = [pnp |-> <<>>, policy |-> <<>>, power |-> <<>>,
                lost |-> FALSE]
    /\ idle = Idle!InitialIdle
    /\ waiter = "none"
    /\ device = InitDevice
    /\ irps = [device |-> <<>>, up |-> FALSE, down |-> FALSE]
    /\ os = [sys |-> "S0", manager |-> "added", pnp |-> "none", ok |-> TRUE, below |-> FALSE]
    /\ \E on \in BOOLEAN : users = [queue |-> "empty", pnp |-> FALSE, s0idle |-> on]
    /\ budget \in Plans

Posts(posts) == queue' = PostAll(queue, posts) /\ UNCHANGED <<at, entering>>

-----------------------------------------------------------------------------
(***************************************************************************)
(* Device power IRPs                                                       *)
(***************************************************************************)
Oldest == Head(irps.device)

OldestIs(stage) == irps.device # <<>> /\ Oldest.stage = stage

(* DispatchDeviceSetPower.  A Dx is for the power machine at once; a D0    *)
(* when the lower drivers have completed it (RaiseDevicePowerCompletion).  *)
DispatchDeviceSetPower ==
    /\ OldestIs("sent")
    /\ irps' = [irps EXCEPT !.device[1].stage = "pending",
                            !.up = FALSE, !.down = @ /\ irps.up]
    /\ Posts(ToPower(Oldest.to))
    /\ UNCHANGED <<references, device, environment, budget>>

(* _PowerPolDevicePowerDownComplete; of a power down that failed, the PnP  *)
(* machine is told too                                                     *)
PowerDownCompletePosts ==
    IF device.powerDownFailure
    THEN <<<<"policy", "PowerDownFailed">>, <<"pnp", "PowerDownFailed">>>>
    ELSE <<<<"policy", "PowerDown">>>>

(* Mutant: the power machine is taken not to have seen the IRP *)
PowerUpNeverSeen == <<<<"policy", "PowerUpNotSeen">>>>
(* _PowerPolDevicePowerUpComplete; the IRP may have been completed by a    *)
(* driver above, and never seen here                                       *)
PowerUpCompletePosts == IF irps.up THEN <<<<"policy", "PowerUpNotSeen">>>> ELSE <<>>

DevicePowerIrpCompletes ==
    /\ (OldestIs("released") /\ Works) \/ (OldestIs("sent") /\ Fails)
    /\ irps' = [irps EXCEPT !.device = Tail(@)]
    /\ \/ /\ Oldest.to = "Dx"
          /\ Posts(PowerDownCompletePosts)
          /\ device' = [device EXCEPT !.powerDownFailure = FALSE]
       \/ /\ Oldest.to = "D0"
          /\ Posts(PowerUpCompletePosts)
          /\ device' = device
    /\ UNCHANGED <<references, environment>>

-----------------------------------------------------------------------------
(***************************************************************************)
(* System power.  The power manager and the PnP manager exclude each       *)
(* other: the system does not sleep in the middle of a PnP operation.      *)
(***************************************************************************)
SystemSleeps ==
    /\ os.sys = "S0"
    /\ os.pnp = "none"
    /\ os.manager \in {"added", "started", "surprised"}
    /\ budget.sleeps > 0
    /\ os' = [os EXCEPT !.sys = "sleeping"]
    /\ budget' = [budget EXCEPT !.sleeps = @ - 1]
    /\ Posts(<<<<"policy", "Sx">>>>)
    /\ UNCHANGED <<references, device, irps, users>>

SystemWakes ==
    /\ os.sys = "Sx"
    /\ os' = [os EXCEPT !.sys = "S0"]
    /\ Posts(<<<<"policy", "S0">>>>)
    /\ UNCHANGED <<references, device, irps, users, budget>>

-----------------------------------------------------------------------------
(***************************************************************************)
(* The PnP manager: one IRP at a time, and none that does not follow       *)
(***************************************************************************)
ManagerMay ==
    [added |-> {"StartDevice"}, started |-> {"QueryStop", "QueryRemove", "SurpriseRemove"},
     startFailed |-> {"Remove"}, stopRefused |-> {"CancelStop"},
     removeRefused |-> {"CancelRemove"},
     stopQueried |-> {"Stop", "CancelStop", "SurpriseRemove"},
     stopped |-> {"StartDevice", "SurpriseRemove"},
     removeQueried |-> {"Remove", "CancelRemove", "SurpriseRemove"},
     surprised |-> {"Remove"}, removed |-> {}]

(* it starts these at will, but only so often, unless the device failed;   *)
(* then it surprise removes a started device                               *)
AtWill(irp) == ~device.internalFailure /\ irp \in {"QueryStop", "QueryRemove", "SurpriseRemove"}

ManagerSends(irp) ==
    /\ os.sys = "S0"
    /\ os.pnp = "none"
    /\ irp \in ManagerMay[os.manager]
    /\ device.internalFailure /\ os.manager = "started" => irp = "SurpriseRemove"
    /\ AtWill(irp) => budget.cycles > 0
    /\ budget' = IF AtWill(irp) THEN [budget EXCEPT !.cycles = @ - 1] ELSE budget
    /\ os' = [os EXCEPT !.pnp = irp]
    /\ Posts(<<<<"pnp", irp>>>>)
    /\ UNCHANGED <<references, device, irps, users>>

(* _PnpStartDeviceCompletionRoutine *)
StartDeviceCompletes ==
    /\ os.below
    /\ \/ /\ Works
          /\ os' = [os EXCEPT !.below = FALSE]
          /\ Posts(ToPnp("StartDeviceComplete"))
       \/ /\ Fails
          /\ os' = FinishProcessingIrp(FailPendingIrp([os EXCEPT !.below = FALSE]))
          /\ Posts(ToPnp("StartDeviceFailed"))
    /\ UNCHANGED <<references, device, irps, users>>

-----------------------------------------------------------------------------
(***************************************************************************)
(* The idle timer and those who hold power references                      *)
(***************************************************************************)
TimerDue ==
    /\ idle.timer = "armed"
    /\ idle' = Idle!TimerFires(idle)
    /\ UNCHANGED <<machines, waiter, device, irps, environment, budget>>

IdleOperation(m) == Posts(IdlePosts(m)) /\ IdleBecomes(m)

PowerTimeoutDpcRoutine ==
    /\ idle.timer = "fired"
    /\ IdleOperation(Idle!PowerTimeoutDpcRoutine(idle))
    /\ UNCHANGED <<device, irps, environment, budget>>

ByUser == UNCHANGED <<device, irps, os, budget>>

(* SetTransitionFromEmpty, of a power managed queue: it takes a reference  *)
(* when it gets a request, and keeps the request without one if refused.   *)
SetTransitionFromEmpty ==
    /\ "queue" \in budget.holders
    /\ users.queue # "referenced"
    /\ \/ /\ Idle!CanReference(idle)
          /\ users.queue = "empty" \/ "Io" \in device.up
          /\ IdleOperation(Idle!IoIncrement(idle))
          /\ users' = [users EXCEPT !.queue = "referenced"]
       \/ /\ ~Idle!CanReference(idle)
          /\ os.manager \notin {"added", "removed"}
          /\ users.queue = "empty"
          /\ users' = [users EXCEPT !.queue = "unreferenced"]
          /\ UNCHANGED <<machines, references>>
    /\ ByUser

(* Mutant: a reference is given back whether or not one was got *)
QueueIsEmptyAnyway ==
    /\ users.queue # "empty"
    /\ IdleOperation(Idle!IoDecrement(idle))
    /\ users' = [users EXCEPT !.queue = "empty"]
    /\ ByUser
(* The last request is completed *)
QueueIsEmpty ==
    /\ \/ /\ users.queue = "referenced"
          /\ IdleOperation(Idle!IoDecrement(idle))
       \/ /\ users.queue = "unreferenced"
          /\ UNCHANGED <<machines, references>>
    /\ users' = [users EXCEPT !.queue = "empty"]
    /\ ByUser

ThreadLeaves(from, to) == waiter = from /\ waiter' = to

(* PowerReferenceWorker: counted under the lock; then, if the device is    *)
(* not in D0, the thread waits for the D0 event; and looks again.          *)
ThreadReferences ==
    LET m == Idle!IoIncrement(idle)
    IN  /\ "thread" \in budget.holders
        /\ Idle!CanReference(idle)
        /\ ThreadLeaves("none", IF m.d0 THEN "held" ELSE "pending")
        /\ idle' = Idle!Settled(m)
        /\ Posts(IdlePosts(m))
        /\ ByUser /\ UNCHANGED users

ThreadWaitsForD0 ==
    /\ ThreadLeaves("pending", IF idle.d0 THEN "released" ELSE "waiting")
    /\ ByUser /\ UNCHANGED <<machines, idle, users>>

ThreadGoesOn ==
    LET m == Idle!IoDecrement(idle)
    IN  /\ \/ /\ Idle!CanReference(idle)
              /\ ThreadLeaves("released", "held")
              /\ UNCHANGED <<machines, idle>>
           \/ /\ ~Idle!CanReference(idle)
              /\ ThreadLeaves("released", "none")
              /\ idle' = Idle!Settled(m)
              /\ Posts(IdlePosts(m))
        /\ ByUser /\ UNCHANGED users

ThreadDereferences ==
    LET m == Idle!IoDecrement(idle)
    IN  /\ ThreadLeaves("held", "none")
        /\ idle' = Idle!Settled(m)
        /\ Posts(IdlePosts(m))
        /\ ByUser /\ UNCHANGED users

(* PowerPolicySetS0IdleState, by the driver of a started device *)
PowerPolicySetS0IdleState ==
    /\ at["pnp"] = "Started"
    /\ budget.changes > 0
    /\ \E on \in S0IdleSettings : users' = [users EXCEPT !.s0idle = on]
    /\ budget' = [budget EXCEPT !.changes = @ - 1]
    /\ Posts(<<<<"policy", "S0IdlePolicyChanged">>>>)
    /\ UNCHANGED <<references, device, irps, os>>

-----------------------------------------------------------------------------
UserNext ==
    \/ SetTransitionFromEmpty \/ QueueIsEmpty
    \/ ThreadReferences \/ ThreadWaitsForD0 \/ ThreadGoesOn \/ ThreadDereferences
    \/ PowerPolicySetS0IdleState

SystemNext ==
    \/ DispatchDeviceSetPower \/ DevicePowerIrpCompletes
    \/ SystemSleeps \/ SystemWakes
    \/ \E irp \in DOMAIN Succeeded : ManagerSends(irp)
    \/ StartDeviceCompletes
    \/ TimerDue \/ PowerTimeoutDpcRoutine

Next == PowerNext \/ PowerPolicyNext \/ PnpNext \/ SystemNext \/ UserNext

Spec == Init /\ [][Next]_vars

(* Each machine is run by some thread as long as it has an event or a      *)
(* state to enter, the drivers below and the timer do their part, and the  *)
(* system wakes in the end.  Nothing makes the system sleep, the PnP       *)
(* manager act, a driver take or give back a reference, or a request fail. *)
Below == DispatchDeviceSetPower \/ DevicePowerIrpCompletes \/ StartDeviceCompletes \/ SystemWakes
Timer == TimerDue \/ PowerTimeoutDpcRoutine
Waiter == ThreadWaitsForD0 \/ ThreadGoesOn

Fairness ==
    /\ WF_vars(PowerNext) /\ WF_vars(PowerPolicyNext) /\ WF_vars(PnpNext)
    /\ WF_vars(Below) /\ WF_vars(Timer) /\ WF_vars(Waiter)

FairSpec == Spec /\ Fairness

-----------------------------------------------------------------------------
(***************************************************************************)
(* Properties                                                              *)
(***************************************************************************)
Machines == {"pnp", "policy", "power"}

(* Every variable keeps its type; the count of power references of the     *)
(* idle machine is a natural number, so none is given back twice.          *)
TypeOK ==
    /\ Idle!IdleTypeOK
    /\ entering \subseteq Machines
    /\ waiter \in {"none", "pending", "waiting", "released", "held"}
    /\ device.up \subseteq Stages
    /\ device.smio \in SelfManaged!SelfManagedIoStates
    /\ irps.device \in Seq([to : {"D0", "Dx"}, stage : {"sent", "pending", "released"}])
    /\ os.sys \in {"S0", "sleeping", "Sx"}
    /\ os.manager \in DOMAIN ManagerMay

Rows == [pnp |-> PnpRows, policy |-> PolicyRows, power |-> PowerRows]
Open == [pnp |-> PnpOpen, policy |-> PolicyOpen, power |-> PowerOpen]
KnownDropped == [pnp |-> PnpKnownDropped, policy |-> PolicyKnownDropped,
                 power |-> PowerKnownDropped]

(* an event is about to be dropped that its state neither lists nor knows *)
DropsUnexpected(m) ==
    /\ m \notin entering
    /\ queue[m] # <<>>
    /\ Head(queue[m]) \in Priority(m) \/ at[m] \in Open[m]
    /\ Row(m, Rows[m]) = {}
    /\ <<at[m], Head(queue[m])>> \notin KnownDropped[m]

(* events that only tell what the state of the machine they come to may    *)
(* have made pointless: not answers, not orders                            *)
Advice == {"Sx", "IoPresent", "S0IdlePolicyChanged", "PowerTimeoutExpired",
           "PowerUpFailed", "PowerDownFailed"}

(* The three machines keep in step though each runs in a thread of its own *)
(* and the IRPs in others: no order (start, stop, remove, implicit D0, D3) *)
(* and no answer (power up and down, started, stopped) ever comes to a     *)
(* machine in a state whose table does not expect it; the code would drop  *)
(* it, and trap in a checked build (PnpProcessEventInner and its like).    *)
NoAnswerDropped ==
    \A m \in Machines : DropsUnexpected(m) => Head(queue[m]) \in Advice

(* No event queue of PnpProcessEvent, PowerPolicyProcessEvent or           *)
(* PowerProcessEvent overflows, as their ASSERTs say ("The Power queue is  *)
(* full.  This shouldn't be able to happen."): the power policy machine's  *)
(* does, while an attempt to put the device to sleep fails.                *)
NoEventLost == ~queue.lost

(* No callback or resource is started twice or ended without having been   *)
(* started, through power ups and downs that fail at any step, and self    *)
(* managed I/O gets no event its table does not list.                      *)
CallbacksPaired == device.misused = {}

SelfManagedIo ==
    CASE device.smio = "Created" -> "fresh"
      [] device.smio = "Started" -> "running"
      [] device.smio = "Final" -> "gone"
      [] OTHER -> "suspended"

Callbacks == INSTANCE DriverCallbacks WITH up <- device.up, io <- SelfManagedIo

(* The driver sees the order of callbacks it is promised: the composed     *)
(* machines implement DriverCallbacks, whatever the PnP manager, the power *)
(* manager, the idle timer and failures do in between.                     *)
CallbackContract == Callbacks!CallbacksSpec

(* m_IoCount of the idle machine is the number of those that hold, or wait *)
(* for, a reference: one refused to an I/O queue by SetTransitionFromEmpty *)
(* is not given back when the queue is empty, one taken by a query of the  *)
(* PnP manager is given back exactly once however the query ends, and one  *)
(* of a thread that waited for D0 in vain is given back for it.            *)
CountIsHolders ==
    idle.count = (IF users.queue = "referenced" THEN 1 ELSE 0) + (IF users.pnp THEN 1 ELSE 0)
                 + (IF waiter = "none" THEN 0 ELSE 1)

(* The power policy machine does not find, where it decides whether the    *)
(* started device may idle, both that it may and a PowerTimeoutExpired     *)
(* left from before.  In the code it can: the driver changes the setting   *)
(* (PowerPolicySetS0IdleState) while the timer runs out, DisableTimer says *)
(* that the timer is stopped, and if idling is still or again allowed the  *)
(* old event idles the device out under who was granted a reference since. *)
(* What is checked and proved of the idle machine and its users is said of *)
(* all behaviours up to this moment.                                       *)
NoStaleTimeout ==
    at["policy"] = "StartingDecideS0Wake"
        /\ (\E i \in DOMAIN queue["policy"] : queue["policy"][i] = "PowerTimeoutExpired")
    => ~users.s0idle

IdlingOut == {"IdleCapableDeviceIdle", "TimerExpiredNoWake",
              "TimerExpiredNoWakeCompletePowerDown"}

(* was told that the device is in D0 and stays there *)
Granted == waiter = "held" \/ at["pnp"] \in {"QueryStopPending", "QueryRemovePending"}

(* A device is not idled out under who was granted a power reference,      *)
(* though the idle timer's DPC and its event to the power policy machine   *)
(* were under way when the reference was taken.  (After a failed power up  *)
(* or down references are granted without power: PowerFailed.)             *)
ReferenceKeepsDeviceUp ==
    Granted /\ "PowerFailed" \notin idle.flags => at["policy"] \notin IdlingOut

(* The query of a PnP manager that wants to stop or remove the device      *)
(* succeeds only with the device in D0 and the machine's reference taken   *)
(* (PnpEventQueryRemoveEnsureDeviceAwake), or after power failed.          *)
QueriedDeviceIsUp ==
    at["pnp"] \in {"QueryStopPending", "QueryRemovePending"} =>
        users.pnp /\ (InD0 \subseteq device.up \/ "PowerFailed" \in idle.flags)

(* The system goes to sleep only with the device out of D0, or the device  *)
(* reported as failed: the system power IRP is completed neither before    *)
(* the device's own, nor by a state that drops it.                         *)
SleepsPoweredDown ==
    os.sys = "Sx" => device.up \cap InD0 = {} \/ device.internalFailure

(* All who use the idle machine keep to its tables: the composed machines, *)
(* the timer, the queue and the thread are the users of IdleSpec, so that  *)
(* what is proved of it (IdleInv) holds of them, and no event it is given  *)
(* is one its code traps on.                                               *)
IdleRefinement == Idle!IdleSpec

(* Every IRP of the PnP manager is answered and every sleep is let happen: *)
(* both managers wait for the driver, and hold up the whole system.        *)
ManagersAnswered == []<>(os.sys # "sleeping" /\ os.pnp = "none")

(* A thread that waits in PowerReference for D0 is released, with the      *)
(* device in D0, or when it failed or was stopped.                         *)
WaiterReleased == waiter = "waiting" ~> waiter # "waiting"

Usable == "Io" \in device.up
Serves == at["pnp"] = "Started" /\ ~device.internalFailure

(* A queue that got a reference for its requests comes to be able to       *)
(* dispatch them: IoPresent is not lost between a timeout, a power down,   *)
(* the query whether to power up again, and a system sleep.                *)
ReferencePowersUp ==
    users.queue = "referenced" /\ Serves ~> Usable \/ users.queue = "empty" \/ ~Serves

Quiet == Serves /\ idle.count = 0 /\ users.s0idle /\ os.sys = "S0"

(* A device nobody uses, that may idle, leaves D0: the idle timer is       *)
(* always restarted, and its event finds its way through the tables.       *)
IdleDevicePowersDown == Quiet ~> ~Quiet \/ "D0Entry" \notin device.up

=============================================================================
