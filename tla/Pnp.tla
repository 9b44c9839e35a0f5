-------------------------------- MODULE Pnp --------------------------------
(***************************************************************************)
(* The PnP machine of FxPkgPnp (pnpstatemachine.cpp): it answers the PnP   *)
(* manager's IRPs.  It prepares and releases the hardware, has the power   *)
(* policy machine start and stop the device, and holds a power reference   *)
(* from a successful query until its outcome is known.  One action per     *)
(* entry function, of the states of an FDO that never ejects and whose     *)
(* IRPs come in the order the PnP manager sends them.                      *)
(***************************************************************************)
EXTENDS FxPkgPnp

(* m_WdfPnpStates: the rows <<state, event, target>> of starting,          *)
PnpStartRows ==
    {<<"Init", "StartDevice", "InitStarting">>,
     <<"Init", "Remove", "Removed">>,
     <<"InitStarting", "StartDeviceComplete", "HardwareAvailable">>,
     <<"InitStarting", "StartDeviceFailed", "Init">>,
     <<"HardwareAvailable", "PwrPolStarted", "EnableInterfaces">>,
     <<"HardwareAvailable", "PwrPolStartFailed", "HardwareAvailablePowerPolicyFailed">>,
     <<"Started", "QueryRemove", "QueryRemoveStaticCheck">>,
     <<"Started", "QueryStop", "QueryStopStaticCheck">>,
     <<"Started", "CancelStop", "StartedCancelStop">>,
     <<"Started", "CancelRemove", "StartedCancelRemove">>,
     <<"Started", "SurpriseRemove", "SurpriseRemoveIoStarted">>,
     <<"Started", "PowerUpFailed", "FailedIoStarting">>,
     <<"Started", "PowerDownFailed", "FailedPowerDown">>}

(* of stopping and starting again,                                         *)
PnpStopRows ==
    {<<"QueryStopEnsureDeviceAwake", "DeviceInD0", "QueryStopPending">>,
     <<"QueryStopPending", "Stop", "StartedStopping">>,
     <<"QueryStopPending", "CancelStop", "QueryCanceled">>,
     <<"QueryStopPending", "SurpriseRemove", "QueriedSurpriseRemove">>,
     <<"StartedStopping", "PwrPolStopped", "Stopped">>,
     <<"StartedStopping", "PwrPolStopFailed", "FailedOwnHardware">>,
     <<"Stopped", "StartDevice", "StoppedWaitForStartCompletion">>,
     <<"Stopped", "SurpriseRemove", "SurpriseRemove">>,
     <<"StoppedWaitForStartCompletion", "StartDeviceComplete", "StartingFromStopped">>,
     <<"StoppedWaitForStartCompletion", "StartDeviceFailed", "Failed">>,
     <<"Restarting", "PwrPolStarted", "Started">>,
     <<"Restarting", "PwrPolStartFailed", "HardwareAvailablePowerPolicyFailed">>}

(* and of removal, orderly or after a failure.                             *)
PnpRemoveRows ==
    {<<"QueryRemoveEnsureDeviceAwake", "DeviceInD0", "QueryRemovePending">>,
     <<"QueryRemovePending", "Remove", "QueriedRemoving">>,
     <<"QueryRemovePending", "CancelRemove", "QueryCanceled">>,
     <<"QueryRemovePending", "SurpriseRemove", "QueriedSurpriseRemove">>,
     <<"QueriedRemoving", "PwrPolStopped", "RemovingDisableInterfaces">>,
     <<"QueriedRemoving", "PwrPolStopFailed", "RemovingDisableInterfaces">>,
     <<"RemovingDisableInterfaces", "PwrPolRemoved", "Removed">>,
     <<"FailedPowerDown", "PwrPolStopped", "FailedOwnHardware">>,
     <<"FailedPowerDown", "PwrPolStopFailed", "FailedOwnHardware">>,
     <<"FailedIoStarting", "PwrPolStopped", "FailedOwnHardware">>,
     <<"FailedIoStarting", "PwrPolStopFailed", "FailedOwnHardware">>,
     <<"Failed", "PwrPolRemoved", "FailedPowerPolicyRemoved">>,
     <<"FailedWaitForRemove", "Remove", "Removed">>,
     <<"FailedWaitForRemove", "SurpriseRemove", "FailedSurpriseRemoved">>,
     <<"FailedWaitForRemove", "StartDevice", "FailedStarted">>}

PnpRows == PnpStartRows \cup PnpStopRows \cup PnpRemoveRows

PnpOpen == {"Init", "InitStarting", "Started", "QueryStopPending", "QueryRemovePending",
            "StartedStopping", "Stopped", "StoppedWaitForStartCompletion",
            "FailedWaitForRemove", "RemovedChildrenRemoved", "Final"}

PnpKnownDropped ==
    ({"HardwareAvailable", "Restarting"} \X {"PowerUpFailed"})
    \cup ({"StartedStopping", "QueriedRemoving", "FailedIoStarting"}
            \X {"PowerUpFailed", "PowerDownFailed"})
    \cup ({"FailedPowerDown", "Final"} \X {"PowerDownFailed"})
    \cup ({"FailedWaitForRemove"}
            \X {"PowerUpFailed", "PowerDownFailed", "QueryRemove", "CancelStop", "CancelRemove"})

(* events that come with an IRP, which is completed if they are dropped *)
PnpEventPending == {"StartDeviceComplete", "QueryRemove", "QueryStop", "CancelRemove",
                    "CancelStop", "Stop", "SurpriseRemove"}

PnpNoEntry == {"Init", "FailedWaitForRemove"}

PnpEntry(s, next, posts) == Entry("pnp", s, next, PnpNoEntry, posts)

(* Where an IRP leaves the PnP manager, when it succeeds and when it fails *)
Succeeded == [StartDevice |-> "started", QueryStop |-> "stopQueried", CancelStop |-> "started",
              Stop |-> "stopped", QueryRemove |-> "removeQueried", CancelRemove |-> "started",
              SurpriseRemove |-> "surprised", Remove |-> "removed"]

Refused == [Succeeded EXCEPT !.StartDevice = "startFailed", !.QueryStop = "stopRefused",
                             !.QueryRemove = "removeRefused"]

(* PnpFinishProcessingIrp: the IRP, if one is pending, is completed or     *)
(* sent on down with the status it has.  A Remove is never pended: its     *)
(* thread waits in _PnpRemoveDevice until the machine has dealt with it.   *)
FinishProcessingIrp(o) ==
    IF o.pnp \in {"none", "Remove"} THEN o
    ELSE [o EXCEPT !.pnp = "none", !.ok = TRUE,
                   !.manager = IF o.ok THEN Succeeded[o.pnp] ELSE Refused[o.pnp]]

(* SetPendingPnpIrpStatus, of a failure *)
FailPendingIrp(o) == [o EXCEPT !.ok = FALSE]

PnpProcessEventInner ==
    /\ Takes("pnp", PnpOpen)
    /\ \/ /\ \E r \in Row("pnp", PnpRows) : EnterNewState("pnp", r[3], PnpNoEntry)
          /\ os' = os
       \/ /\ Row("pnp", PnpRows) = {}
          /\ os' = IF Head(queue["pnp"]) \in PnpEventPending THEN FinishProcessingIrp(os) ELSE os
          /\ UNCHANGED <<at, entering>>
    /\ UNCHANGED <<references, device, irps, users, budget>>

-----------------------------------------------------------------------------
PnpKeeps == UNCHANGED <<references, irps, users>>

PnpPosts(s, next, posts) ==
    PnpEntry(s, next, posts) /\ UNCHANGED <<device, os, budget>> /\ PnpKeeps

PnpPasses(s, next) == PnpPosts(s, next, <<>>)

ToPolicy(e) == <<<<"policy", e>>>>

(* finishes the IRP *)
PnpFinishes(s, next) ==
    /\ PnpEntry(s, next, <<>>)
    /\ os' = FinishProcessingIrp(os)
    /\ UNCHANGED <<device, budget>>
    /\ PnpKeeps

(* The IRP is sent down, its completion routine will post                  *)
SendsStartDown(s) ==
    /\ PnpEntry(s, Null, <<>>)
    /\ os' = [os EXCEPT !.below = TRUE]
    /\ UNCHANGED <<device, budget>>
    /\ PnpKeeps

(* PnpPrepareHardware: works; fails before the client driver's callback    *)
(* was called; or fails after                                              *)
PrepareHardware(s, ok, posts, early, late) ==
    /\ \/ /\ PnpEntry(s, ok, posts) /\ Works
          /\ device' = Begin(device, {"Hardware"})
          /\ os' = os
       \/ /\ PnpEntry(s, early, <<>>) /\ Fails
          /\ device' = SetInternalFailure(device)
          /\ os' = FailPendingIrp(os)
       \/ /\ PnpEntry(s, late, <<>>) /\ Fails
          /\ device' = SetInternalFailure(Begin(device, {"Hardware"}))
          /\ os' = FailPendingIrp(os)
    /\ PnpKeeps

(* PnpCleanupForRemove, of what d is about: self managed I/O is flushed *)
CleanupForRemove(d) ==
    \E o \in SelfManaged!ProcessEvent(d.smio, "Flush") :
        device' = SelfManagedBecomes(d, "Flush", o)

-----------------------------------------------------------------------------
(* Starting                                                                *)
PnpEventInitStarting == SendsStartDown("InitStarting")

PnpEventHardwareAvailable ==
    \/ PrepareHardware("HardwareAvailable", Null, ToPolicy("Start"), "FailedInit",
                       "FailedOwnHardware")
    \/ (* QueryForCapabilities fails *)
       /\ PnpEntry("HardwareAvailable", "FailedOwnHardware", <<>>) /\ Fails
       /\ device' = Begin(device, {"Hardware"})
       /\ os' = FailPendingIrp(os)
       /\ PnpKeeps

PnpEventEnableInterfaces ==
    /\ \/ PnpEntry("EnableInterfaces", "Started", <<>>) /\ Works /\ UNCHANGED <<device, os>>
       \/ /\ PnpEntry("EnableInterfaces", "FailedPowerDown", <<>>) /\ Fails
          /\ device' = SetInternalFailure(device)
          /\ os' = FailPendingIrp(os)
    /\ PnpKeeps

PnpEventHardwareAvailablePowerPolicyFailed ==
    /\ PnpEntry("HardwareAvailablePowerPolicyFailed", "FailedOwnHardware", <<>>)
    /\ os' = FailPendingIrp(os)
    /\ UNCHANGED <<device, budget>>
    /\ PnpKeeps

PnpEventFailedInit == PnpFinishes("FailedInit", "Init")

PnpEventStarted == PnpFinishes("Started", Null)

PnpEventStartedCancelStop == PnpPasses("StartedCancelStop", "Started")
PnpEventStartedCancelRemove == PnpPasses("StartedCancelRemove", "Started")

-----------------------------------------------------------------------------
(* Queries.  The driver, or a use the device is put to, may refuse.        *)
StaticCheck(s, next) ==
    /\ \/ PnpEntry(s, next, <<>>) /\ Works /\ os' = os
       \/ PnpEntry(s, "Started", <<>>) /\ Fails /\ os' = FailPendingIrp(os)
    /\ UNCHANGED device
    /\ PnpKeeps

PnpEventQueryStopStaticCheck == StaticCheck("QueryStopStaticCheck", "QueryStopAskDriver")
PnpEventQueryStopAskDriver == StaticCheck("QueryStopAskDriver", "QueryStopEnsureDeviceAwake")
PnpEventQueryRemoveStaticCheck == StaticCheck("QueryRemoveStaticCheck", "QueryRemoveAskDriver")
PnpEventQueryRemoveAskDriver == StaticCheck("QueryRemoveAskDriver", "QueryRemoveEnsureDeviceAwake")

(* Mutant: the reference asks for no event when the device is in D0 *)
EnsureDeviceAwakeUnasked(s, pending) ==
    LET m == Idle!IoIncrement(idle)
    IN  /\ IF Idle!CanReference(idle)
           THEN /\ PnpEntry(s, IF m.d0 THEN pending ELSE Null, IdlePosts(m))
                /\ IdleBecomes(m)
                /\ users' = [users EXCEPT !.pnp = TRUE]
                /\ os' = os
           ELSE /\ PnpEntry(s, "Started", <<>>)
                /\ os' = FailPendingIrp(os)
                /\ UNCHANGED <<references, users>>
        /\ UNCHANGED <<device, irps, budget>>
(* Mutant: goes on at once though the device is not in D0 yet *)
EnsureDeviceAwakeAtOnce(s, pending) ==
    LET m == Idle!IoIncrementForPnp(idle)
    IN  /\ Idle!CanReference(idle)
        /\ PnpEntry(s, pending, IdlePosts(m))
        /\ IdleBecomes(m)
        /\ users' = [users EXCEPT !.pnp = TRUE]
        /\ UNCHANGED <<os, device, irps, budget>>
(* PnpPowerReferenceDuringQueryPnp: goes on at once if the device is in    *)
(* D0, waits for DeviceInD0 if it is not, and fails the query if refused   *)
EnsureDeviceAwake(s, pending) ==
    LET m == Idle!IoIncrementForPnp(idle)
    IN  /\ IF Idle!CanReference(idle)
           THEN /\ PnpEntry(s, IF m.d0 THEN pending ELSE Null, IdlePosts(m))
                /\ IdleBecomes(m)
                /\ users' = [users EXCEPT !.pnp = TRUE]
                /\ os' = os
           ELSE /\ PnpEntry(s, "Started", <<>>)
                /\ os' = FailPendingIrp(os)
                /\ UNCHANGED <<references, users>>
        /\ UNCHANGED <<device, irps, budget>>

PnpEventQueryStopEnsureDeviceAwake ==
    EnsureDeviceAwake("QueryStopEnsureDeviceAwake", "QueryStopPending")
PnpEventQueryRemoveEnsureDeviceAwake ==
    EnsureDeviceAwake("QueryRemoveEnsureDeviceAwake", "QueryRemovePending")

PnpEventQueryStopPending == PnpFinishes("QueryStopPending", Null)
PnpEventQueryRemovePending == PnpFinishes("QueryRemovePending", Null)

(* PnpPowerDereferenceSelf, after these posts *)
Dereferences(s, next, posts) ==
    LET m == Idle!IoDecrement(idle)
    IN  /\ PnpEntry(s, next, posts \o IdlePosts(m))
        /\ IdleBecomes(m)
        /\ users' = [users EXCEPT !.pnp = FALSE]
        /\ UNCHANGED <<device, irps, os, budget>>

PnpEventQueryCanceled == Dereferences("QueryCanceled", "Started", <<>>)

PnpEventStartedStopping == Dereferences("StartedStopping", Null, ToPolicy("Stop"))

PnpEventQueriedRemoving == Dereferences("QueriedRemoving", Null, ToPolicy("Stop"))

PnpEventQueriedSurpriseRemove ==
    Dereferences("QueriedSurpriseRemove", "SurpriseRemoveIoStarted", <<>>)

-----------------------------------------------------------------------------
(* Stopping and starting again                                             *)
PnpEventStopped ==
    /\ \/ /\ PnpEntry("Stopped", Null, <<>>) /\ Works
          /\ device' = End(device, {"Hardware"})
       \/ /\ PnpEntry("Stopped", "Failed", <<>>) /\ Fails
          /\ device' = SetInternalFailure(End(device, {"Hardware"}))
    /\ os' = FinishProcessingIrp(os)
    /\ PnpKeeps

PnpEventStoppedWaitForStartCompletion == SendsStartDown("StoppedWaitForStartCompletion")

PnpEventStartingFromStopped ==
    PrepareHardware("StartingFromStopped", "Restarting", <<>>, "Failed", "FailedOwnHardware")

PnpEventRestarting == PnpPosts("Restarting", Null, ToPolicy("Start"))

-----------------------------------------------------------------------------
(* Removal, orderly or after a failure                                     *)
PnpEventRemovingDisableInterfaces ==
    /\ PnpEntry("RemovingDisableInterfaces", Null, ToPolicy("Remove"))
    /\ CleanupForRemove(End(device, {"Hardware"}))
    /\ UNCHANGED <<os, budget>>
    /\ PnpKeeps

PnpEventSurpriseRemoved == PnpPasses("SurpriseRemove", "Failed")
PnpEventSurpriseRemoveIoStarted == PnpPasses("SurpriseRemoveIoStarted", "FailedIoStarting")

PnpEventFailedPowerDown == PnpPosts("FailedPowerDown", Null, ToPolicy("Stop"))

(* Mutant: the power policy machine is not waited for *)
FailedIoStartingAtOnce ==
    PnpPosts("FailedIoStarting", "FailedOwnHardware", ToPolicy("SurpriseRemove"))
PnpEventFailedIoStarting == PnpPosts("FailedIoStarting", Null, ToPolicy("SurpriseRemove"))

PnpEventFailedOwnHardware ==
    /\ PnpEntry("FailedOwnHardware", "Failed", <<>>)
    /\ device' = End(device, {"Hardware"})
    /\ UNCHANGED <<os, budget>>
    /\ PnpKeeps

PnpEventFailed ==
    /\ PnpEntry("Failed", Null, ToPolicy("Remove"))
    /\ CleanupForRemove(device)
    /\ UNCHANGED <<os, budget>>
    /\ PnpKeeps

PnpEventFailedPowerPolicyRemoved == PnpFinishes("FailedPowerPolicyRemoved", "FailedWaitForRemove")

PnpEventFailedSurpriseRemoved == PnpFinishes("FailedSurpriseRemoved", "FailedWaitForRemove")

PnpEventFailedStarted ==
    /\ PnpEntry("FailedStarted", "FailedWaitForRemove", <<>>)
    /\ os' = FinishProcessingIrp(FailPendingIrp(os))
    /\ UNCHANGED <<device, budget>>
    /\ PnpKeeps

PnpEventRemoved == PnpPasses("Removed", "RemovedChildrenRemoved")

PnpEventRemovedChildrenRemoved == PnpPasses("RemovedChildrenRemoved", "FdoRemoved")

(* PnpEventRemovedCommonCode *)
PnpEventFdoRemoved ==
    /\ PnpEntry("FdoRemoved", "Final", <<>>)
    /\ \E o \in SelfManaged!ProcessEvent(device.smio, "Cleanup") :
         device' = SelfManagedBecomes(device, "Cleanup", o)
    /\ UNCHANGED <<os, budget>>
    /\ PnpKeeps

(* the thread that waits in _PnpRemoveDevice goes on; removes succeed always *)
PnpEventFinal ==
    /\ PnpEntry("Final", Null, <<>>)
    /\ os' = [os EXCEPT !.pnp = "none", !.ok = TRUE, !.manager = Succeeded["Remove"]]
    /\ UNCHANGED <<device, budget>>
    /\ PnpKeeps

-----------------------------------------------------------------------------
(* the entry function of the state entered last *)
PnpEntersState ==
    \/ PnpEventInitStarting \/ PnpEventHardwareAvailable \/ PnpEventEnableInterfaces
    \/ PnpEventHardwareAvailablePowerPolicyFailed \/ PnpEventFailedInit
    \/ PnpEventStarted \/ PnpEventStartedCancelStop \/ PnpEventStartedCancelRemove
    \/ PnpEventQueryStopStaticCheck \/ PnpEventQueryStopAskDriver
    \/ PnpEventQueryRemoveStaticCheck \/ PnpEventQueryRemoveAskDriver
    \/ PnpEventQueryStopEnsureDeviceAwake \/ PnpEventQueryRemoveEnsureDeviceAwake
    \/ PnpEventQueryStopPending \/ PnpEventQueryRemovePending
    \/ PnpEventQueryCanceled \/ PnpEventStartedStopping
    \/ PnpEventQueriedRemoving \/ PnpEventQueriedSurpriseRemove
    \/ PnpEventStopped \/ PnpEventStoppedWaitForStartCompletion
    \/ PnpEventStartingFromStopped \/ PnpEventRestarting
    \/ PnpEventRemovingDisableInterfaces
    \/ PnpEventSurpriseRemoved \/ PnpEventSurpriseRemoveIoStarted
    \/ PnpEventFailedPowerDown \/ PnpEventFailedIoStarting
    \/ PnpEventFailedOwnHardware \/ PnpEventFailed \/ PnpEventFailedPowerPolicyRemoved
    \/ PnpEventFailedSurpriseRemoved \/ PnpEventFailedStarted
    \/ PnpEventRemoved \/ PnpEventRemovedChildrenRemoved \/ PnpEventFdoRemoved
    \/ PnpEventFinal

PnpNext == PnpProcessEventInner \/ ("pnp" \in entering /\ PnpEntersState)

=============================================================================
