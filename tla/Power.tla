------------------------------- MODULE Power -------------------------------
(***************************************************************************)
(* The power machine of FxPkgPnp (powerstatemachine.cpp): it brings the    *)
(* device to D0 and out of it by the driver's callbacks, in order, when it *)
(* is told to implicitly (ImplicitD0, ImplicitD3, at start and stop) or by *)
(* a device power IRP (D0, Dx).  One action per entry function.            *)
(***************************************************************************)
EXTENDS FxPkgPnp

(* m_WdfPowerStates: the rows <<state, event, target>> of an FDO's states  *)
PowerRows ==
    {<<"ObjectCreated", "ImplicitD0", "StartingCheckDeviceType">>,
     <<"D0", "Dx", "GotoDx">>,
     <<"D0", "ImplicitD3", "GotoD3Stopped">>,
     <<"Stopped", "ImplicitD0", "StartingCheckDeviceType">>,
     <<"GotoDx", "CompleteDx", "NotifyingD0ExitToWakeInterrupts">>,
     <<"Dx", "D0", "CheckDeviceType">>,
     <<"Dx", "ImplicitD3", "GotoDxStoppedDisableInterrupt">>,
     <<"WakingPostHardwareEnabled", "CompleteD0", "StartSelfManagedIo">>,
     <<"ReportPowerUpFailed", "ImplicitD3", "PowerFailedPowerDown">>,
     <<"ReportPowerDownFailed", "ImplicitD3", "PowerFailedPowerDown">>}

PowerOpen == {"ObjectCreated", "D0", "Stopped", "Dx", "ReportPowerUpFailed",
              "ReportPowerDownFailed"}

PowerKnownDropped ==
    {<<"ObjectCreated", "Dx">>, <<"ObjectCreated", "D0">>, <<"D0", "D0">>,
     <<"Stopped", "D0">>, <<"Dx", "Dx">>}

PowerNoEntry == {"ObjectCreated", "Stopped", "Dx"}

PowerEntry(s, next, posts) == Entry("power", s, next, PowerNoEntry, posts)

(* an event the state has no row for is dropped, its IRP released          *)
PowerProcessEventInner ==
    /\ Takes("power", PowerOpen)
    /\ \/ /\ \E r \in Row("power", PowerRows) : EnterNewState("power", r[3], PowerNoEntry)
          /\ irps' = irps
       \/ /\ Row("power", PowerRows) = {}
          /\ irps' = IF Head(queue["power"]) \in {"D0", "Dx"} THEN Release(irps) ELSE irps
          /\ UNCHANGED <<at, entering>>
    /\ UNCHANGED <<references, device, environment, budget>>

-----------------------------------------------------------------------------
(***************************************************************************)
(* The ladder up.  Starting and waking take the same steps, in states of   *)
(* their own; each step that fails leads to the state that undoes it.      *)
(***************************************************************************)
Elsewhere == UNCHANGED <<references, irps, environment>>

(* only names the next state *)
PowerPasses(s, next) ==
    PowerEntry(s, next, <<>>) /\ UNCHANGED <<device, budget>> /\ Elsewhere

PowerStartingCheckDeviceType == PowerPasses("StartingCheckDeviceType", "D0Starting")

PowerCheckDeviceType == PowerPasses("CheckDeviceType", "Waking")

(* Mutant: the two failures are told apart the wrong way round *)
CallD0EntrySwapped(s, ok, undo, failed) ==
    /\ \/ PowerEntry(s, ok, <<>>) /\ Works /\ device' = Begin(device, {"D0Entry"})
       \/ PowerEntry(s, failed, <<>>) /\ Fails /\ device' = Begin(device, {"D0Entry"})
       \/ PowerEntry(s, undo, <<>>) /\ Fails /\ UNCHANGED device
    /\ Elsewhere
(* EvtDeviceD0Entry: ends in ok; in undo when it failed after the client   *)
(* driver's own callback had succeeded; in failed when before.             *)
CallD0Entry(s, ok, undo, failed) ==
    /\ \/ PowerEntry(s, ok, <<>>) /\ Works /\ device' = Begin(device, {"D0Entry"})
       \/ PowerEntry(s, undo, <<>>) /\ Fails /\ device' = Begin(device, {"D0Entry"})
       \/ PowerEntry(s, failed, <<>>) /\ Fails /\ UNCHANGED device
    /\ Elsewhere

PowerD0Starting ==
    CallD0Entry("D0Starting", "D0StartingConnectInterrupt",
                "InitialPowerUpFailedPowerDown", "InitialPowerUpFailedDerefParent")

PowerWaking ==
    CallD0Entry("Waking", "NotifyingD0EntryToWakeInterrupts",
                "UpFailedPowerDown", "UpFailedDerefParent")

PowerNotifyingD0EntryToWakeInterrupts ==
    PowerPasses("NotifyingD0EntryToWakeInterrupts", "WakingConnectInterrupt")

(* NotifyResourceObjectsD0 may fail halfway; what it started is undone     *)
(* together.  Then EvtDeviceD0EntryPostInterruptsEnabled.                  *)
ConnectInterrupt(s, ok, failed) ==
    /\ \/ PowerEntry(s, ok, <<>>) /\ Works /\ device' = Begin(device, {"Resources", "PostInterrupts"})
       \/ PowerEntry(s, failed, <<>>) /\ Fails /\ device' = Begin(device, {"Resources"})
    /\ Elsewhere

PowerD0StartingConnectInterrupt ==
    ConnectInterrupt("D0StartingConnectInterrupt", "D0StartingDmaEnable",
                     "InitialConnectInterruptFailed")

PowerWakingConnectInterrupt ==
    ConnectInterrupt("WakingConnectInterrupt", "WakingDmaEnable",
                     "WakingConnectInterruptFailed")

DmaEnable(s, ok, failed) ==
    /\ \/ PowerEntry(s, ok, <<>>) /\ Works
       \/ PowerEntry(s, failed, <<>>) /\ Fails
    /\ device' = Begin(device, {"Dma"})
    /\ Elsewhere

PowerD0StartingDmaEnable ==
    DmaEnable("D0StartingDmaEnable", "D0StartingPostHardwareEnabled", "InitialDmaEnableFailed")

PowerWakingDmaEnable ==
    DmaEnable("WakingDmaEnable", "WakingPostHardwareEnabled", "WakingDmaEnableFailed")

(* EvtDeviceD0EntryPostHardwareEnabled: a failure in the precalls leaves   *)
(* nothing of it to undo                                                   *)
PostHardwareEnabled(s, ok, undo, failed, posts) ==
    /\ \/ PowerEntry(s, ok, posts) /\ Works /\ device' = Begin(device, {"PostHardware"})
       \/ PowerEntry(s, undo, <<>>) /\ Fails /\ device' = Begin(device, {"PostHardware"})
       \/ PowerEntry(s, failed, <<>>) /\ Fails /\ UNCHANGED device
    /\ Elsewhere

PowerD0StartingPostHardwareEnabled ==
    PostHardwareEnabled("D0StartingPostHardwareEnabled", "D0StartingStartSelfManagedIo",
                        "InitialPostHardwareEnabledFailed", "InitialDmaEnableFailed", <<>>)

(* waits for the power policy machine to say CompleteD0 *)
PowerWakingPostHardwareEnabled ==
    PostHardwareEnabled("WakingPostHardwareEnabled", Null,
                        "WakingPostHardwareEnabledFailed", "WakingDmaEnableFailed",
                        <<<<"policy", "PowerUpHwStarted">>>>)

(* Mutant: the idle machine is not told *)
PowerSendPowerUpEventsUntold(s, next) ==
    PowerEntry(s, next, <<<<"policy", "PowerUp">>>>) /\ UNCHANGED references
(* PowerSendPowerUpEvents: to the idle machine, then to the power policy   *)
PowerSendPowerUpEvents(s, next) ==
    LET m == Idle!ProcessPowerEvent(idle, "PowerUpComplete")
    IN  PowerEntry(s, next, IdlePosts(m) \o <<<<"policy", "PowerUp">>>>) /\ IdleBecomes(m)

(* Queue I/O is resumed, then the self managed I/O machine started *)
StartIo(s, ok, undo, failed, released) ==
    /\ \E o \in SelfManaged!ProcessEvent(device.smio, "Start") :
         /\ \/ /\ o.ok
               /\ PowerSendPowerUpEvents(s, ok)
               /\ Works /\ irps' = released
            \/ /\ ~o.ok
               /\ PowerEntry(s, IF o.client THEN undo ELSE failed, <<>>)
               /\ Fails /\ UNCHANGED <<references, irps>>
         /\ device' = SelfManagedBecomes(Begin(device, {"Io"}), "Start", o)
    /\ UNCHANGED environment

PowerD0StartingStartSelfManagedIo ==
    StartIo("D0StartingStartSelfManagedIo", "DecideD0State",
            "InitialSelfManagedIoFailedStarted", "InitialSelfManagedIoFailed", irps)

PowerDecideD0State == PowerPasses("DecideD0State", "D0")

PowerDZero == PowerPasses("D0", Null)

PowerStartSelfManagedIo ==
    StartIo("StartSelfManagedIo", "D0", "StartSelfManagedIoFailedStarted",
            "StartSelfManagedIoFailed", Release(irps))

-----------------------------------------------------------------------------
(***************************************************************************)
(* The ladder down, after a power up that failed at the step named         *)
(***************************************************************************)

(* ends these stages; what ending them returns is ignored *)
PowerUndoes(s, stages, next) ==
    PowerEntry(s, next, <<>>) /\ device' = End(device, stages) /\ UNCHANGED budget /\ Elsewhere

SuspendsIgnored(s, next) ==
    /\ PowerEntry(s, next, <<>>)
    /\ \E o \in SelfManaged!ProcessEvent(device.smio, "Suspend") :
         device' = SelfManagedBecomes(device, "Suspend", o) /\ (IF o.ok THEN Works ELSE Fails)
    /\ Elsewhere

PowerInitialSelfManagedIoFailedStarted ==
    SuspendsIgnored("InitialSelfManagedIoFailedStarted", "InitialSelfManagedIoFailed")
PowerStartSelfManagedIoFailedStarted ==
    SuspendsIgnored("StartSelfManagedIoFailedStarted", "StartSelfManagedIoFailed")

PowerInitialSelfManagedIoFailed ==
    PowerUndoes("InitialSelfManagedIoFailed", {"Io"}, "InitialPostHardwareEnabledFailed")
PowerStartSelfManagedIoFailed ==
    PowerUndoes("StartSelfManagedIoFailed", {"Io"}, "WakingPostHardwareEnabledFailed")

PowerInitialPostHardwareEnabledFailed ==
    PowerUndoes("InitialPostHardwareEnabledFailed", {"PostHardware"}, "InitialDmaEnableFailed")
PowerWakingPostHardwareEnabledFailed ==
    PowerUndoes("WakingPostHardwareEnabledFailed", {"PostHardware"}, "WakingDmaEnableFailed")

PowerInitialDmaEnableFailed ==
    PowerUndoes("InitialDmaEnableFailed", {"Dma", "PostInterrupts"}, "InitialConnectInterruptFailed")
PowerWakingDmaEnableFailed ==
    PowerUndoes("WakingDmaEnableFailed", {"Dma", "PostInterrupts"}, "WakingConnectInterruptFailed")

PowerInitialConnectInterruptFailed ==
    PowerUndoes("InitialConnectInterruptFailed", {"Resources", "D0Entry"},
                "InitialPowerUpFailedDerefParent")
PowerWakingConnectInterruptFailed ==
    PowerUndoes("WakingConnectInterruptFailed", {"Resources", "D0Entry"},
                "ReportPowerUpFailedDerefParent")

PowerInitialPowerUpFailedPowerDown ==
    PowerUndoes("InitialPowerUpFailedPowerDown", {"D0Entry"}, "InitialPowerUpFailedDerefParent")
PowerUpFailedPowerDown ==
    PowerUndoes("UpFailedPowerDown", {"D0Entry"}, "UpFailedDerefParent")

PowerInitialPowerUpFailedDerefParent ==
    PowerPasses("InitialPowerUpFailedDerefParent", "InitialPowerUpFailed")
PowerUpFailedDerefParent ==
    PowerPasses("UpFailedDerefParent", "ReportPowerUpFailedDerefParent")
PowerReportPowerUpFailedDerefParent ==
    PowerPasses("ReportPowerUpFailedDerefParent", "ReportPowerUpFailed")

PowerSendPowerUpFailureEvent(s, next) ==
    LET m == Idle!ProcessPowerEvent(idle, "PowerUpFailed")
    IN  /\ PowerEntry(s, next, IdlePosts(m) \o <<<<"policy", "PowerUpFailed">>,
                                                 <<"pnp", "PowerUpFailed">>>>)
        /\ device' = SetInternalFailure(device)
        /\ IdleBecomes(m)
        /\ UNCHANGED <<environment, budget>>

PowerInitialPowerUpFailed ==
    PowerSendPowerUpFailureEvent("InitialPowerUpFailed", "Stopped") /\ UNCHANGED irps

PowerReportPowerUpFailed ==
    PowerSendPowerUpFailureEvent("ReportPowerUpFailed", Null) /\ irps' = Release(irps)

-----------------------------------------------------------------------------
(***************************************************************************)
(* Out of D0                                                               *)
(***************************************************************************)

(* PowerSendPowerDownEvents: to the idle machine; when the power down is   *)
(* implicit, to the power policy machine too                               *)
PowerSendPowerDownEvents(s, next, posts) ==
    LET m == Idle!ProcessPowerEvent(idle, "PowerDown")
    IN  PowerEntry(s, next, IdlePosts(m) \o posts) /\ IdleBecomes(m)

ImplicitPowerDown(s, next) ==
    PowerSendPowerDownEvents(s, next, <<<<"policy", "PowerDown">>>>)

(* every stage is ended, whatever the ones before returned *)
PowerGotoD3Stopped ==
    /\ \E o \in SelfManaged!ProcessEvent(device.smio, "Suspend"), failed \in BOOLEAN :
         /\ ~o.ok => failed
         /\ \/ failed /\ PowerEntry("GotoD3Stopped", "FinalPowerDownFailed", <<>>)
                      /\ Fails /\ UNCHANGED references
            \/ ~failed /\ ImplicitPowerDown("GotoD3Stopped", "Stopped") /\ Works
         /\ device' = End(SelfManagedBecomes(device, "Suspend", o), InD0)
    /\ UNCHANGED <<irps, environment>>

PowerFinalPowerDownFailed ==
    /\ PowerEntry("FinalPowerDownFailed", "Stopped", <<<<"policy", "PowerDownFailed">>>>)
    /\ device' = SetInternalFailure(device)
    /\ UNCHANGED budget
    /\ Elsewhere

(* PowerGotoDx, then wait for the power policy machine to say CompleteDx *)
PowerGotoDNotZero ==
    /\ PowerEntry("GotoDx", Null, <<<<"policy", "PowerDownIoStopped">>>>)
    /\ \E o \in SelfManaged!ProcessEvent(device.smio, "Suspend") :
         /\ device' = [End(SelfManagedBecomes(device, "Suspend", o), {"Io"})
                       EXCEPT !.ioCallbackFailure = @ \/ ~o.ok]
         /\ IF o.ok THEN Works ELSE Fails
    /\ Elsewhere

PowerNotifyingD0ExitToWakeInterrupts ==
    PowerPasses("NotifyingD0ExitToWakeInterrupts", "GotoDxIoStopped")

(* PowerGotoDxIoStoppedCommon.  A failure is reported only once the IRP is *)
(* released: m_PowerDownFailure tells its completion routine.              *)
PowerGotoDNotZeroIoStopped ==
    /\ \E failed \in BOOLEAN :
         LET down == [End(device, InD0 \ {"Io"}) EXCEPT !.ioCallbackFailure = FALSE]
         IN  /\ \/ /\ failed \/ device.ioCallbackFailure
                   /\ PowerEntry("GotoDxIoStopped", "GotoDxFailed", <<>>)
                   /\ device' = [down EXCEPT !.powerDownFailure = TRUE]
                   /\ UNCHANGED <<references, irps>>
                \/ /\ ~failed /\ ~device.ioCallbackFailure
                   /\ PowerSendPowerDownEvents("GotoDxIoStopped", "Dx", <<>>)
                   /\ device' = down
                   /\ irps' = Release(irps)
             /\ IF failed THEN Fails ELSE Works
    /\ UNCHANGED environment

PowerGotoDxFailed == PowerPasses("GotoDxFailed", "ReportPowerDownFailed")

PowerReportPowerDownFailed ==
    LET m == Idle!ProcessPowerEvent(idle, "PowerDownFailed")
    IN  /\ PowerEntry("ReportPowerDownFailed", Null, IdlePosts(m))
        /\ IdleBecomes(m)
        /\ device' = SetInternalFailure(device)
        /\ irps' = Release(irps)
        /\ UNCHANGED <<environment, budget>>

PowerDownWasDone == UNCHANGED <<device, irps, environment, budget>>

PowerPowerFailedPowerDown ==
    ImplicitPowerDown("PowerFailedPowerDown", "Stopped") /\ PowerDownWasDone

PowerGotoDxStoppedDisableInterrupt ==
    PowerPasses("GotoDxStoppedDisableInterrupt", "GotoDxStopped")

PowerGotoDxStopped == ImplicitPowerDown("GotoDxStopped", "Stopped") /\ PowerDownWasDone

-----------------------------------------------------------------------------
(* the entry function of the state entered last *)
PowerEntersState ==
    \/ PowerStartingCheckDeviceType \/ PowerCheckDeviceType
    \/ PowerD0Starting \/ PowerWaking
    \/ PowerNotifyingD0EntryToWakeInterrupts
    \/ PowerD0StartingConnectInterrupt \/ PowerWakingConnectInterrupt
    \/ PowerD0StartingDmaEnable \/ PowerWakingDmaEnable
    \/ PowerD0StartingPostHardwareEnabled \/ PowerWakingPostHardwareEnabled
    \/ PowerD0StartingStartSelfManagedIo \/ PowerStartSelfManagedIo
    \/ PowerDecideD0State \/ PowerDZero
    \/ PowerInitialSelfManagedIoFailedStarted \/ PowerStartSelfManagedIoFailedStarted
    \/ PowerInitialSelfManagedIoFailed \/ PowerStartSelfManagedIoFailed
    \/ PowerInitialPostHardwareEnabledFailed \/ PowerWakingPostHardwareEnabledFailed
    \/ PowerInitialDmaEnableFailed \/ PowerWakingDmaEnableFailed
    \/ PowerInitialConnectInterruptFailed \/ PowerWakingConnectInterruptFailed
    \/ PowerInitialPowerUpFailedPowerDown \/ PowerUpFailedPowerDown
    \/ PowerInitialPowerUpFailedDerefParent \/ PowerUpFailedDerefParent
    \/ PowerReportPowerUpFailedDerefParent
    \/ PowerInitialPowerUpFailed \/ PowerReportPowerUpFailed
    \/ PowerGotoD3Stopped \/ PowerFinalPowerDownFailed
    \/ PowerGotoDNotZero \/ PowerNotifyingD0ExitToWakeInterrupts
    \/ PowerGotoDNotZeroIoStopped \/ PowerGotoDxFailed \/ PowerReportPowerDownFailed
    \/ PowerPowerFailedPowerDown
    \/ PowerGotoDxStoppedDisableInterrupt \/ PowerGotoDxStopped

PowerNext == PowerProcessEventInner \/ ("power" \in entering /\ PowerEntersState)

=============================================================================
