---------------------------- MODULE PowerPolicy ----------------------------
(***************************************************************************)
(* The power policy machine of FxPkgPnp (powerpolicystatemachine.cpp): it  *)
(* decides when the device goes to Dx and back, by itself when it has been *)
(* idle, with the system when it sleeps, and asks for the device power     *)
(* IRPs that take it there.  It starts and stops the power machine for the *)
(* PnP machine.  One action per entry function.                            *)
(***************************************************************************)
EXTENDS FxPkgPnp

(* m_WdfPowerPolicyStates: the rows <<state, event, target>> of the states *)
(* of a device without wake: starting and running,                         *)
StartRows ==
    {<<"ObjectCreated", "Start", "Starting">>,
     <<"ObjectCreated", "Remove", "Removed">>,
     <<"Starting", "PowerUp", "StartingPoweredUp">>,
     <<"Starting", "PowerUpFailed", "StartingFailed">>,
     <<"StartingPoweredUpFailed", "PowerDown", "StartingFailed">>,
     <<"StartingFailed", "Remove", "Removed">>,
     <<"Restarting", "PowerUp", "StartingSucceeded">>,
     <<"Restarting", "PowerUpFailed", "RestartingFailed">>,
     <<"Started", "Sx", "Sleeping">>,
     <<"Started", "Stop", "Stopping">>,
     <<"Started", "SurpriseRemove", "Stopping">>,
     <<"Started", "S0IdlePolicyChanged", "StartingDecideS0Wake">>,
     <<"StartedWaitForIdleTimeout", "PowerTimeoutExpired", "StartingDecideS0Wake">>,
     <<"StartedWaitForIdleTimeout", "Stop", "StoppingWaitForIdleTimeout">>,
     <<"StartedWaitForIdleTimeout", "SurpriseRemove", "StoppingWaitForIdleTimeout">>}

(* idling out and returning to D0,                                         *)
IdleRows ==
    {<<"StartedIdleCapable", "PowerTimeoutExpired", "IdleCapableDeviceIdle">>,
     <<"StartedIdleCapable", "Sx", "StartedIdleCapableCancelTimerForSleep">>,
     <<"StartedIdleCapable", "Stop", "StoppingCancelTimer">>,
     <<"StartedIdleCapable", "SurpriseRemove", "StoppingCancelTimer">>,
     <<"StartedIdleCapable", "S0IdlePolicyChanged", "StartedCancelTimer">>,
     <<"TimerExpiredNoWake", "PowerDownIoStopped", "TimerExpiredNoWakeCompletePowerDown">>,
     <<"TimerExpiredNoWake", "PowerDown", "TimerExpiredNoWakePowerDownNotProcessed">>,
     <<"TimerExpiredNoWakeCompletePowerDown", "PowerDown",
       "TimerExpiredNoWakePoweredDownDisableIdleTimer">>,
     <<"TimerExpiredNoWakeCompletePowerDown", "PowerDownFailed", "DevicePowerRequestFailed">>,
     <<"WaitingUnarmed", "IoPresent", "WaitingUnarmedQueryIdle">>,
     <<"WaitingUnarmed", "Sx", "SystemSleepFromDeviceWaitingUnarmed">>,
     <<"WaitingUnarmed", "Stop", "StoppingResetDevice">>,
     <<"WaitingUnarmed", "SurpriseRemove", "StoppingCancelTimer">>,
     <<"WaitingUnarmed", "S0IdlePolicyChanged", "S0NoWakePowerUp">>,
     <<"S0NoWakePowerUp", "PowerUpHwStarted", "S0NoWakeCompletePowerUp">>,
     <<"S0NoWakePowerUp", "PowerUpFailed", "DevicePowerRequestFailed">>,
     <<"S0NoWakePowerUp", "PowerUpNotSeen", "DeviceD0PowerRequestFailed">>,
     <<"S0NoWakeCompletePowerUp", "PowerUp", "StartingDecideS0Wake">>,
     <<"S0NoWakeCompletePowerUp", "PowerUpFailed", "DevicePowerRequestFailed">>}

(* sleeping with the system and waking,                                    *)
SleepRows ==
    {<<"StartedIdleCapableWaitForIdleTimeout", "PowerTimeoutExpired",
       "StartedIdleCapableTimerCanceledForSleep">>,
     <<"SleepingNoWakePowerDown", "PowerDownIoStopped", "SleepingNoWakeCompletePowerDown">>,
     <<"SleepingNoWakePowerDown", "PowerDown", "SleepingPowerDownNotProcessed">>,
     <<"SleepingNoWakeCompletePowerDown", "PowerDown", "SystemAsleepNoWake">>,
     <<"SleepingNoWakeCompletePowerDown", "PowerDownFailed", "SystemSleepPowerRequestFailed">>,
     <<"SystemAsleepNoWake", "S0", "SystemWakeDeviceWakeDisabled">>,
     <<"SystemWakeDeviceToD0", "PowerUpHwStarted", "SystemWakeDeviceToD0CompletePowerUp">>,
     <<"SystemWakeDeviceToD0", "PowerUpFailed", "SystemWakeDevicePowerRequestFailed">>,
     <<"SystemWakeDeviceToD0", "PowerUpNotSeen", "SystemWakeDeviceD0PowerRequestFailed">>,
     <<"SystemWakeDeviceToD0CompletePowerUp", "PowerUp", "StartingDecideS0Wake">>,
     <<"SystemWakeDeviceToD0CompletePowerUp", "PowerUpFailed", "DevicePowerRequestFailed">>}

(* and stopping.                                                           *)
StopRows ==
    {<<"StoppingResetDevice", "PowerUpHwStarted", "StoppingResetDeviceCompletePowerUp">>,
     <<"StoppingResetDevice", "PowerUpFailed", "StoppingResetDeviceFailed">>,
     <<"StoppingResetDevice", "PowerUpNotSeen", "DeviceD0PowerRequestFailed">>,
     <<"StoppingResetDeviceCompletePowerUp", "PowerUp", "Stopping">>,
     <<"StoppingResetDeviceCompletePowerUp", "PowerUpFailed", "StoppingResetDeviceFailed">>,
     <<"StoppingWaitForIdleTimeout", "PowerTimeoutExpired", "Stopping">>,
     <<"Stopping", "PowerDown", "StoppingSendStatus">>,
     <<"Stopping", "PowerDownFailed", "StoppingFailed">>,
     <<"Stopped", "Start", "Restarting">>,
     <<"Stopped", "Remove", "StoppedRemoving">>,
     <<"Removed", "Start", "Starting">>,
     <<"Removed", "Remove", "Removed">>,
     <<"DevicePowerRequestFailed", "Stop", "StoppingCancelTimer">>,
     <<"DevicePowerRequestFailed", "SurpriseRemove", "Stopping">>}

PolicyRows == StartRows \cup IdleRows \cup SleepRows \cup StopRows

PolicyOpen ==
    {"ObjectCreated", "StartingFailed", "StartedIdleCapable", "WaitingUnarmed",
     "SystemAsleepNoWake", "DevicePowerRequestFailed", "Started", "StartedWaitForIdleTimeout",
     "StartedIdleCapableWaitForIdleTimeout", "StoppingWaitForIdleTimeout", "Stopped",
     "Removed"}

(* the events a state drops knowingly *)
PolicyKnownDropped ==
    ({"ObjectCreated", "Removed"} \X {"S0", "Sx", "S0IdlePolicyChanged"})
    \cup ({"Starting"} \X {"PowerUpFailed"})
    \cup ({"StartedIdleCapable"} \X {"S0", "PowerUp", "IoPresent"})
    \cup ({"WaitingUnarmed"} \X {"S0"})
    \cup ({"SystemAsleepNoWake"} \X {"S0IdlePolicyChanged", "IoPresent", "PowerTimeoutExpired"})
    \cup ({"Started"} \X {"S0", "PowerUp", "IoPresent", "PowerTimeoutExpired"})
    \cup ({"Stopped"} \X {"S0", "IoPresent", "PowerTimeoutExpired"})
    \cup ({"DevicePowerRequestFailed"} \X {"S0", "Sx", "IoPresent"})

PolicyNoEntry == {"ObjectCreated", "WaitingUnarmed", "StartedWaitForIdleTimeout",
                  "StartedIdleCapableWaitForIdleTimeout", "StoppingWaitForIdleTimeout",
                  "Stopped"}

PolicyEntry(s, next, posts) == Entry("policy", s, next, PolicyNoEntry, posts)

(* PowerPolicyCompleteSystemPowerIrp: the system goes to sleep *)
CompleteSystemPowerIrp(o) == [o EXCEPT !.sys = "Sx"]

ToPower(e) == <<<<"power", e>>>>
ToPnp(e) == <<<<"pnp", e>>>>

(* an event the state has no row for is dropped; an Sx then keeps the      *)
(* system from sleeping no longer                                          *)
PowerPolicyProcessEventInner ==
    /\ Takes("policy", PolicyOpen)
    /\ \/ /\ \E r \in Row("policy", PolicyRows) : EnterNewState("policy", r[3], PolicyNoEntry)
          /\ os' = os
       \/ /\ Row("policy", PolicyRows) = {}
          /\ os' = IF Head(queue["policy"]) = "Sx" THEN CompleteSystemPowerIrp(os) ELSE os
          /\ UNCHANGED <<at, entering>>
    /\ UNCHANGED <<references, device, irps, users, budget>>

-----------------------------------------------------------------------------
(***************************************************************************)
(* Kinds of entry functions                                                *)
(***************************************************************************)
PolicyKeeps == UNCHANGED <<irps, environment, budget>>

(* only posts events and names the next state *)
PolicyPosts(s, next, posts) ==
    PolicyEntry(s, next, posts) /\ UNCHANGED <<references, device>> /\ PolicyKeeps

PolicyPasses(s, next) == PolicyPosts(s, next, <<>>)

(* gives the idle machine an event, that leaves it as m *)
PolicyIdles(s, next, m, posts) ==
    PolicyEntry(s, next, IdlePosts(m) \o posts) /\ IdleBecomes(m)
    /\ UNCHANGED device /\ PolicyKeeps

(* PowerPolicySendDevicePowerRequest: _Requested tells that the IRP is the *)
(* machine's own; the completion routine looks at it too.                  *)
Requested(r, to, is) == IF to = "D0" THEN [r EXCEPT !.up = is] ELSE [r EXCEPT !.down = is]

PolicySends(s, to, failed) ==
    \/ /\ PolicyEntry(s, Null, <<>>)
       /\ irps' = Requested([irps EXCEPT !.device = Append(@, [to |-> to, stage |-> "sent"])],
                            to, TRUE)
       /\ Works
    \/ /\ PolicyEntry(s, failed, <<>>)
       /\ irps' = Requested(irps, to, FALSE)
       /\ Fails

PolicyRequests(s, to, failed) ==
    PolicySends(s, to, failed) /\ UNCHANGED <<references, device, environment>>

PolicyFails(s, d, next, posts) ==
    PolicyEntry(s, next, posts) /\ device' = d /\ UNCHANGED references /\ PolicyKeeps

PowerFailed(d) == [d EXCEPT !.powerFailed = TRUE]

(* DisableTimer: next if the timer is stopped, wait if its DPC must be     *)
(* waited for                                                              *)
CancelsTimer(s, next, wait) ==
    LET m == Idle!DisableTimer(idle)
    IN  PolicyIdles(s, IF Idle!DisabledImmediately(m) THEN next ELSE wait, m, <<>>)

QueriesIdle(s, idleNext, busyNext) ==
    PolicyIdles(s, IF Idle!IsIdle(idle) THEN idleNext ELSE busyNext, Idle!Queried(idle), <<>>)

-----------------------------------------------------------------------------
(* Starting                                                                *)
PowerPolStarting == PolicyIdles("Starting", Null, Idle!Start(idle), ToPower("ImplicitD0"))

PowerPolStartingPoweredUp ==
    /\ \/ PolicyEntry("StartingPoweredUp", "StartingSucceeded", <<>>) /\ Works
       \/ PolicyEntry("StartingPoweredUp", "StartingPoweredUpFailed", <<>>) /\ Fails
    /\ UNCHANGED <<references, device, irps, environment>>

PowerPolStartingPoweredUpFailed ==
    PolicyPosts("StartingPoweredUpFailed", Null, ToPower("ImplicitD3"))

PowerPolStartingSucceeded ==
    PolicyPosts("StartingSucceeded", "StartingDecideS0Wake", ToPnp("PwrPolStarted"))

PowerPolStartingFailed ==
    PolicyIdles("StartingFailed", Null, Idle!Stop(idle), ToPnp("PwrPolStartFailed"))

PowerPolStartingDecideS0Wake ==
    PolicyPasses("StartingDecideS0Wake", IF users.s0idle THEN "StartedIdleCapable" ELSE "Started")

PowerPolStarted == PolicyIdles("Started", Null, Idle!DisableTimer(idle), <<>>)

PowerPolStartedCancelTimer ==
    CancelsTimer("StartedCancelTimer", "StartingDecideS0Wake", "StartedWaitForIdleTimeout")

PowerPolRestarting == PolicyIdles("Restarting", Null, Idle!Start(idle), ToPower("ImplicitD0"))

PowerPolRestartingFailed ==
    PolicyIdles("RestartingFailed", "Stopped", Idle!Stop(idle), ToPnp("PwrPolStartFailed"))

-----------------------------------------------------------------------------
(* Idling out                                                              *)
PowerPolStartedIdleCapable ==
    PolicyIdles("StartedIdleCapable", Null, Idle!EnableTimer(idle), <<>>)

PowerPolIdleCapableDeviceIdle == PolicyPasses("IdleCapableDeviceIdle", "TimerExpiredNoWake")

(* PowerPolicyCanIdlePowerDown, of a device without children *)
PowerPolTimerExpiredNoWake ==
    PolicyRequests("TimerExpiredNoWake", "Dx", "TimerExpiredNoWakeUndoPowerDown")

PowerPolTimerExpiredNoWakeCompletePowerDown ==
    PolicyPosts("TimerExpiredNoWakeCompletePowerDown", Null, ToPower("CompleteDx"))

PowerPolTimerExpiredNoWakePoweredDownDisableIdleTimer ==
    PolicyIdles("TimerExpiredNoWakePoweredDownDisableIdleTimer", "WaitingUnarmedQueryIdle",
                Idle!DisableTimer(idle), <<>>)

PowerPolTimerExpiredNoWakePowerDownNotProcessed ==
    PolicyFails("TimerExpiredNoWakePowerDownNotProcessed", SetInternalFailure(device),
                "TimerExpiredNoWakeUndoPowerDown", <<>>)

PowerPolTimerExpiredNoWakeUndoPowerDown ==
    PolicyPasses("TimerExpiredNoWakeUndoPowerDown", "TimerExpiredNoWakeReturnToActive")

PowerPolTimerExpiredNoWakeReturnToActive ==
    PolicyPasses("TimerExpiredNoWakeReturnToActive", "StartedIdleCapable")

PowerPolWaitingUnarmedQueryIdle ==
    QueriesIdle("WaitingUnarmedQueryIdle", "WaitingUnarmed", "S0NoWakePowerUp")

PowerPolS0NoWakePowerUp ==
    PolicyRequests("S0NoWakePowerUp", "D0", "DeviceD0PowerRequestFailed")

PowerPolS0NoWakeCompletePowerUp ==
    PolicyPosts("S0NoWakeCompletePowerUp", Null, ToPower("CompleteD0"))

-----------------------------------------------------------------------------
(* Sleeping with the system and waking                                     *)
PowerPolStartedIdleCapableCancelTimerForSleep ==
    CancelsTimer("StartedIdleCapableCancelTimerForSleep",
                 "StartedIdleCapableTimerCanceledForSleep",
                 "StartedIdleCapableWaitForIdleTimeout")

PowerPolStartedIdleCapableTimerCanceledForSleep ==
    PolicyPasses("StartedIdleCapableTimerCanceledForSleep", "Sleeping")

PowerPolSleeping == PolicyPasses("Sleeping", "SleepingNoWakePowerDown")

(* Mutant: the system goes to sleep before the device is in Dx *)
SleepingNoWakePowerDownEarly ==
    /\ PolicySends("SleepingNoWakePowerDown", "Dx", "SleepingNoWakeDxRequestFailed")
    /\ os' = CompleteSystemPowerIrp(os)
    /\ UNCHANGED <<references, device, users>>
(* PowerPolicyPowerDownForSx *)
PowerPolSleepingNoWakePowerDown ==
    PolicyRequests("SleepingNoWakePowerDown", "Dx", "SleepingNoWakeDxRequestFailed")

PowerPolSleepingNoWakeCompletePowerDown ==
    PolicyPosts("SleepingNoWakeCompletePowerDown", Null, ToPower("CompleteDx"))

(* completes the system power IRP, and enters next *)
CompletesSystemPowerIrp(s, d, next, posts) ==
    /\ PolicyEntry(s, next, posts)
    /\ os' = CompleteSystemPowerIrp(os)
    /\ device' = d
    /\ UNCHANGED <<references, irps, users, budget>>

PowerPolSleepingNoWakeDxRequestFailed ==
    CompletesSystemPowerIrp("SleepingNoWakeDxRequestFailed", SetInternalFailure(device),
                            "DevicePowerRequestFailed", ToPnp("PowerDownFailed"))

PowerPolSleepingPowerDownNotProcessed ==
    PolicyFails("SleepingPowerDownNotProcessed", SetInternalFailure(device),
                "SystemSleepPowerRequestFailed", <<>>)

PowerPolSystemSleepPowerRequestFailed ==
    CompletesSystemPowerIrp("SystemSleepPowerRequestFailed", device,
                            "DevicePowerRequestFailed", <<>>)

PowerPolSystemSleepFromDeviceWaitingUnarmed ==
    PolicyPasses("SystemSleepFromDeviceWaitingUnarmed", "SystemAsleepNoWake")

PowerPolSystemAsleepNoWake ==
    CompletesSystemPowerIrp("SystemAsleepNoWake", device, Null, <<>>)

PowerPolSystemWakeDeviceWakeDisabled ==
    PolicyPasses("SystemWakeDeviceWakeDisabled",
                 IF users.s0idle THEN "SystemWakeQueryIdle" ELSE "SystemWakeDeviceToD0")

PowerPolSystemWakeQueryIdle ==
    QueriesIdle("SystemWakeQueryIdle", "WaitingUnarmed", "SystemWakeDeviceToD0")

PowerPolSystemWakeDeviceToD0 ==
    PolicyRequests("SystemWakeDeviceToD0", "D0", "SystemWakeDeviceD0PowerRequestFailed")

PowerPolSystemWakeDeviceToD0CompletePowerUp ==
    PolicyPosts("SystemWakeDeviceToD0CompletePowerUp", Null, ToPower("CompleteD0"))

PowerPolSystemWakeDevicePowerRequestFailed ==
    PolicyPasses("SystemWakeDevicePowerRequestFailed", "DevicePowerRequestFailed")

PowerPolSystemWakeDeviceD0PowerRequestFailed ==
    PolicyPasses("SystemWakeDeviceD0PowerRequestFailed", "DeviceD0PowerRequestFailed")

PowerPolDeviceD0PowerRequestFailed ==
    PolicyFails("DeviceD0PowerRequestFailed", SetInternalFailure(device),
                "DevicePowerRequestFailed", ToPnp("PowerUpFailed"))

PowerPolDevicePowerRequestFailed ==
    PolicyFails("DevicePowerRequestFailed", PowerFailed(device), Null, <<>>)

-----------------------------------------------------------------------------
(* Stopping                                                                *)
PowerPolStoppingCancelTimer ==
    CancelsTimer("StoppingCancelTimer", "Stopping", "StoppingWaitForIdleTimeout")

PowerPolStoppingResetDevice ==
    LET m == Idle!DisableTimer(idle)
    IN  /\ PolicySends("StoppingResetDevice", "D0", "DeviceD0PowerRequestFailed")
        /\ IdleBecomes(m)
        /\ UNCHANGED <<device, environment>>

PowerPolStoppingResetDeviceCompletePowerUp ==
    PolicyPosts("StoppingResetDeviceCompletePowerUp", Null, ToPower("CompleteD0"))

PowerPolStoppingResetDeviceFailed ==
    PolicyFails("StoppingResetDeviceFailed", PowerFailed(device), "Stopping", <<>>)

PowerPolStopping == PolicyPosts("Stopping", Null, ToPower("ImplicitD3"))

PowerPolStoppingFailed ==
    PolicyFails("StoppingFailed", PowerFailed(device), "StoppingSendStatus", <<>>)

PowerPolStoppingSendStatus ==
    LET m == Idle!Stop(idle)
        answer == IF device.powerFailed THEN "PwrPolStopFailed" ELSE "PwrPolStopped"
    IN  /\ PolicyEntry("StoppingSendStatus", "Stopped", IdlePosts(m) \o ToPnp(answer))
        /\ IdleBecomes(m)
        /\ device' = [device EXCEPT !.powerFailed = FALSE]
        /\ PolicyKeeps

PowerPolStoppedRemoving == PolicyPasses("StoppedRemoving", "Removed")

PowerPolRemoved == PolicyPosts("Removed", Null, ToPnp("PwrPolRemoved"))

-----------------------------------------------------------------------------
(* the entry function of the state entered last *)
PowerPolicyEntersState ==
    \/ PowerPolStarting \/ PowerPolStartingPoweredUp \/ PowerPolStartingPoweredUpFailed
    \/ PowerPolStartingSucceeded \/ PowerPolStartingFailed \/ PowerPolStartingDecideS0Wake
    \/ PowerPolStarted \/ PowerPolStartedCancelTimer
    \/ PowerPolRestarting \/ PowerPolRestartingFailed
    \/ PowerPolStartedIdleCapable \/ PowerPolIdleCapableDeviceIdle
    \/ PowerPolTimerExpiredNoWake \/ PowerPolTimerExpiredNoWakeCompletePowerDown
    \/ PowerPolTimerExpiredNoWakePoweredDownDisableIdleTimer
    \/ PowerPolTimerExpiredNoWakePowerDownNotProcessed
    \/ PowerPolTimerExpiredNoWakeUndoPowerDown \/ PowerPolTimerExpiredNoWakeReturnToActive
    \/ PowerPolWaitingUnarmedQueryIdle
    \/ PowerPolS0NoWakePowerUp \/ PowerPolS0NoWakeCompletePowerUp
    \/ PowerPolStartedIdleCapableCancelTimerForSleep
    \/ PowerPolStartedIdleCapableTimerCanceledForSleep
    \/ PowerPolSleeping \/ PowerPolSleepingNoWakePowerDown
    \/ PowerPolSleepingNoWakeCompletePowerDown
    \/ PowerPolSleepingNoWakeDxRequestFailed \/ PowerPolSleepingPowerDownNotProcessed
    \/ PowerPolSystemSleepPowerRequestFailed \/ PowerPolSystemSleepFromDeviceWaitingUnarmed
    \/ PowerPolSystemAsleepNoWake \/ PowerPolSystemWakeDeviceWakeDisabled
    \/ PowerPolSystemWakeQueryIdle \/ PowerPolSystemWakeDeviceToD0
    \/ PowerPolSystemWakeDeviceToD0CompletePowerUp
    \/ PowerPolSystemWakeDevicePowerRequestFailed
    \/ PowerPolSystemWakeDeviceD0PowerRequestFailed
    \/ PowerPolDeviceD0PowerRequestFailed \/ PowerPolDevicePowerRequestFailed
    \/ PowerPolStoppingCancelTimer
    \/ PowerPolStoppingResetDevice \/ PowerPolStoppingResetDeviceCompletePowerUp
    \/ PowerPolStoppingResetDeviceFailed
    \/ PowerPolStopping \/ PowerPolStoppingFailed \/ PowerPolStoppingSendStatus
    \/ PowerPolStoppedRemoving \/ PowerPolRemoved

PowerPolicyNext == PowerPolicyProcessEventInner \/ ("policy" \in entering /\ PowerPolicyEntersState)

=============================================================================
