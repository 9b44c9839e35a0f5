--------------------------- MODULE MCDevicePower ---------------------------
(***************************************************************************)
(* The device power machines as TLC checks them: the plans of each run.    *)
(***************************************************************************)
EXTENDS DevicePower

Plan(faults, sleeps, cycles, changes, holders) ==
    [faults |-> faults, sleeps |-> sleeps, cycles |-> cycles, changes |-> changes,
     holders |-> holders]

Queue == {"queue"}
Thread == {"thread"}
Both == Queue \cup Thread

(* every two of fault, sleep, PnP operation, change of the S0 idle setting *)
(* and holder meet in one of these, but for a sleep and a change: then     *)
(* SleepsPoweredDown fails (see the README)                                *)
SafetyPlans ==
    {Plan(1, 0, 1, 0, Queue), Plan(1, 0, 1, 0, Thread), Plan(2, 0, 1, 0, {}),
     Plan(1, 1, 0, 0, Thread), Plan(0, 1, 0, 0, Both), Plan(1, 1, 1, 0, {}),
     Plan(0, 0, 0, 1, Both), Plan(1, 0, 0, 1, {}), Plan(0, 0, 1, 1, {})}

(* no request fails while the PnP manager queries: see QueryPlans *)
LivePlans ==
    {Plan(1, 0, 0, 0, Queue), Plan(1, 0, 0, 0, Thread), Plan(0, 1, 0, 0, Queue),
     Plan(0, 1, 0, 0, Thread), Plan(0, 0, 1, 0, Queue), Plan(0, 1, 1, 0, {})}

QueryPlans == {Plan(1, 0, 1, 0, {})}

(* a queue posts IoPresent over and over to a power policy machine that    *)
(* does not take events while it waits                                     *)
OverflowPlans == {Plan(0, 1, 1, 0, Queue), Plan(0, 2, 0, 0, Queue), Plan(1, 1, 0, 0, Queue)}

=============================================================================
