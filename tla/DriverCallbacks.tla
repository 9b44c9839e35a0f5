--------------------------- MODULE DriverCallbacks ---------------------------
(***************************************************************************)
(* What the framework promises the driver of a device about the callbacks  *)
(* that bring it up and take it down: the abstract specification of the    *)
(* PnP, power policy and power machines together, whose hundreds of states *)
(* the driver never sees.  "up" are the stages it was called to start and  *)
(* not yet to end; "io" is its self managed I/O: fresh until Init was      *)
(* called, running, suspended, or gone after Cleanup.                      *)
(***************************************************************************)
EXTENDS Naturals, FiniteSets

VARIABLES up, io

(* EvtDevicePrepareHardware, EvtDeviceD0Entry, the interrupts and other    *)
(* resources, EvtDeviceD0EntryPostInterruptsEnabled, the DMA enablers,     *)
(* EvtDeviceD0EntryPostHardwareEnabled, and the I/O of the queues          *)
Rung == [Hardware |-> 1, D0Entry |-> 2, Resources |-> 3, PostInterrupts |-> 4,
         Dma |-> 5, PostHardware |-> 6, Io |-> 7]

Stages == DOMAIN Rung

(* the stages are started in this order and ended in the reverse of it *)
Levels == {{s \in Stages : Rung[s] <= n} : n \in 0..7}

CallbacksInit == up = {} /\ io = "fresh"

(* The next stage is started; the resources and what follows them may be   *)
(* started in one step.  Only with the last stage does self managed I/O    *)
(* start or restart, or fail to.                                           *)
Starts ==
    /\ io # "gone"
    /\ up' \in Levels
    /\ up \subseteq up' /\ Cardinality(up' \ up) \in {1, 2}
    /\ io' = io \/ ("Io" \in up' /\ io' \in {"running", "suspended"})

(* Stages are ended, the hardware alone and last, and none while self      *)
(* managed I/O runs: it is suspended before.                               *)
Ends ==
    /\ up' \in Levels
    /\ up' \subseteq up /\ up' # up
    /\ up' = {} => up = {"Hardware"}
    /\ io' = IF io = "running" THEN "suspended" ELSE io

(* Self managed I/O is suspended while the device is up all the way: the   *)
(* framework is about to end the other stages                              *)
Suspends == io = "running" /\ io' = "suspended" /\ UNCHANGED up

(* Only a device that is all down is cleaned up after, and then over with. *)
CleansUp == up = {} /\ io \in {"fresh", "suspended"} /\ io' = "gone" /\ UNCHANGED up

CallbacksNext == Starts \/ Ends \/ Suspends \/ CleansUp

CallbacksSpec == CallbacksInit /\ [][CallbacksNext]_<<up, io>>

-----------------------------------------------------------------------------
(* What a driver may rely on: it runs self managed I/O, and gets requests, *)
(* only with every other stage up; and its hardware is there in D0.        *)
RunsWithAllUp == io = "running" => up = Stages
HardwareFirst == up # {} => "Hardware" \in up
NothingAfterCleanup == io = "gone" => up = {}

CallbacksInv ==
    /\ up \in Levels
    /\ io \in {"fresh", "running", "suspended", "gone"}
    /\ RunsWithAllUp
    /\ HardwareFirst
    /\ NothingAfterCleanup

=============================================================================
