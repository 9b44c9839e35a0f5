------------------------------ MODULE FxPkgPnp ------------------------------
(***************************************************************************)
(* What the PnP, power policy and power machines of one device share       *)
(* (FxPkgPnp).  Each machine has a state, a queue of events and a lock; a   *)
(* thread that holds the lock takes the event at the head, looks the       *)
(* state's row for it up in the table, enters the target state and runs    *)
(* its entry function, which may name the next state to enter, until one   *)
(* returns Null.  Machines talk only by posting events to one another.     *)
(*                                                                         *)
(* The device modelled is an FDO that owns its power policy: a driver      *)
(* managed idle timeout, no wake from Sx or S0, no child devices, no wake  *)
(* interrupts, pageable.                                                   *)
(***************************************************************************)
EXTENDS Naturals, Sequences

CONSTANT Plans   \* the bounds, one of which a behaviour stays within

(* callbacks and requests that fail; times the system goes to Sx; PnP IRPs  *)
(* after the first start; times the driver changes its S0 idle settings;    *)
(* and who takes power references                                           *)
ASSUME PlansAssumption ==
    Plans \subseteq [faults : Nat, sleeps : Nat, cycles : Nat, changes : Nat,
                     holders : SUBSET {"queue", "thread"}]

VARIABLES at,        \* m_CurrentState of each machine
          entering,  \* the machines whose entry function has yet to run
          queue,     \* the events queued to each machine, and whether one was lost
          idle,      \* m_PowerIdleMachine
          waiter,    \* a thread that takes a power reference and waits for D0
          device,    \* what was called on the device, and failure flags
          irps,      \* device power IRPs, oldest first, and who asked
          os,        \* power manager, PnP manager and the IRPs it has sent
          users,     \* the I/O queue's and the PnP machine's power reference; the S0 idle setting
          budget     \* what is left of the bounds of the plan

Idle == INSTANCE PowerIdle WITH idle <- idle
SelfManaged == INSTANCE SelfManagedIo

machines == <<at, entering, queue>>
references == <<idle, waiter>>
environment == <<os, users>>
vars == <<at, entering, queue, idle, waiter, device, irps, os, users, budget>>

-----------------------------------------------------------------------------
(***************************************************************************)
(* Events and their queues (FxEventQueue)                                  *)
(***************************************************************************)
QueueDepth == 8

PowerPriorityEventsMask == {"CompleteD0", "CompleteDx"}

PwrPolPriorityEventsMask ==
    {"PowerUp", "PowerDown", "PowerUpFailed", "PowerDownFailed",
     "PowerDownIoStopped", "PowerUpHwStarted", "PowerUpNotSeen"}

PnpPriorityEventsMask ==
    {"PwrPolStarted", "PwrPolStartFailed", "PwrPolStopped", "PwrPolStopFailed",
     "PwrPolRemoved", "DeviceInD0"}

Priority(m) == CASE m = "power" -> PowerPriorityEventsMask
                 [] m = "policy" -> PwrPolPriorityEventsMask
                 [] m = "pnp" -> PnpPriorityEventsMask

PowerPolSingularEventMask == {"S0IdlePolicyChanged"}

(* IsFull: one place of the ring is never used *)
IsFull(q, m) == Len(q[m]) = QueueDepth - 1

(* priority events go to the head, the others to the tail *)
Insert(q, m, e) == [q EXCEPT ![m] = IF e \in Priority(m) THEN <<e>> \o @ ELSE Append(@, e)]

IsSingularPresent(q, m, e) ==
    e \in PowerPolSingularEventMask /\ \E i \in DOMAIN q[m] : q[m][i] = e

(* PnpProcessEvent, PowerPolicyProcessEvent and PowerProcessEvent; a post  *)
(* is <<machine, event>>.  An event that finds its queue full is lost.     *)
Post(q, post) ==
    IF IsSingularPresent(q, post[1], post[2]) THEN q
    ELSE IF IsFull(q, post[1]) THEN [q EXCEPT !.lost = TRUE]
    ELSE Insert(q, post[1], post[2])

(* in this order *)
PostAll(q, posts) ==
    LET After[n \in 0..Len(posts)] == IF n = 0 THEN q ELSE Post(After[n - 1], posts[n])
    IN  After[Len(posts)]

(* What the idle machine posted during the operation that left it as m:    *)
(* one event at most, for each is posted in an entry function of its own   *)
IdlePosts(m) ==
    CASE "DeviceInD0" \in m.sent -> <<<<"pnp", "DeviceInD0">>>>
      [] "PowerTimeoutExpired" \in m.sent -> <<<<"policy", "PowerTimeoutExpired">>>>
      [] "IoPresent" \in m.sent -> <<<<"policy", "IoPresent">>>>
      [] OTHER -> <<>>

-----------------------------------------------------------------------------
(***************************************************************************)
(* A machine takes an event, and runs the entry function of the state it   *)
(* enters.  Priority events are taken in any state, others in a state      *)
(* whose queue is open.                                                    *)
(***************************************************************************)
Null == "Null"

Takes(m, open) ==
    /\ m \notin entering
    /\ queue[m] # <<>>
    /\ Head(queue[m]) \in Priority(m) \/ at[m] \in open
    /\ queue' = [queue EXCEPT ![m] = Tail(@)]

Row(m, rows) == {r \in rows : r[1] = at[m] /\ r[2] = Head(queue[m])}

(* EnterNewState; noEntry are the states with a NULL entry function *)
EnterNewState(m, s, noEntry) ==
    /\ at' = [at EXCEPT ![m] = s]
    /\ entering' = IF s \in noEntry THEN entering \ {m} ELSE entering \cup {m}

(* The entry function of state s of machine m ends: it names the state to  *)
(* enter next, and posted these events.                                    *)
Entry(m, s, next, noEntry, posts) ==
    /\ m \in entering
    /\ at[m] = s
    /\ IF next = Null
       THEN at' = at /\ entering' = entering \ {m}
       ELSE EnterNewState(m, next, noEntry)
    /\ queue' = PostAll(queue, posts)

(* The idle machine becomes m; setting its D0 event releases a waiter *)
IdleBecomes(m) ==
    /\ idle' = Idle!Settled(m)
    /\ waiter' = IF waiter = "waiting" /\ m.d0 THEN "released" ELSE waiter

(* A callback or a request fails, or does not *)
Fails == budget.faults > 0 /\ budget' = [budget EXCEPT !.faults = @ - 1]
Works == budget' = budget

-----------------------------------------------------------------------------
(***************************************************************************)
(* The device.  "up" are the stages whose callbacks were made to start     *)
(* them and not yet to end them, in the order in which they are started:   *)
(* EvtDevicePrepareHardware, EvtDeviceD0Entry, the interrupts and other    *)
(* resources (NotifyResourceObjectsD0), D0EntryPostInterruptsEnabled, DMA  *)
(* enablers, D0EntryPostHardwareEnabled, and queue I/O.  "misused" has     *)
(* "stage" once a stage was ended that was not up or started when it was,  *)
(* and "smio" once the self managed I/O machine got an event it does not   *)
(* list.                                                                   *)
(***************************************************************************)
Ladder == <<"Hardware", "D0Entry", "Resources", "PostInterrupts", "Dma",
            "PostHardware", "Io">>

Stages == {Ladder[i] : i \in DOMAIN Ladder}

InD0 == Stages \ {"Hardware"}

Begin(d, s) ==
    [d EXCEPT !.up = @ \cup s,
              !.misused = IF s \cap d.up = {} THEN @ ELSE @ \cup {"stage"}]

End(d, s) ==
    [d EXCEPT !.up = @ \ s,
              !.misused = IF s \subseteq d.up THEN @ ELSE @ \cup {"stage"}]

SelfManagedBecomes(d, e, o) ==
    [d EXCEPT !.smio = o.state,
              !.misused = IF SelfManaged!Lists(d.smio, e) THEN @ ELSE @ \cup {"smio"}]

(* SetInternalFailure: the PnP manager is asked to look at the device *)
SetInternalFailure(d) == [d EXCEPT !.internalFailure = TRUE]

(* A power IRP set to the device: asked for, pending in the power machine, *)
(* or released by it and on its way up to the completion routine.          *)
Release(r) ==
    IF r.device # <<>> /\ Head(r.device).stage = "pending"
    THEN [r EXCEPT !.device[1].stage = "released"] ELSE r

=============================================================================
