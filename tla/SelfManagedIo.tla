--------------------------- MODULE SelfManagedIo ---------------------------
(***************************************************************************)
(* The self managed I/O machine, FxSelfManagedIoMachine                    *)
(* (selfmanagediostatemachine.cpp).  The power and PnP machines give it    *)
(* events; it calls EvtDeviceSelfManagedIoInit, Restart, Suspend, Flush    *)
(* and Cleanup.  An event runs to its end under the machine's lock, so it  *)
(* is a set of outcomes here: the state it ends in, the status returned,   *)
(* and whether the client driver's own callback had succeeded when the     *)
(* status was already a failure (FxCxCallbackProgressClientSucceeded).     *)
(***************************************************************************)

SelfManagedIoStates == {"Created", "InitFailed", "Started", "Stopped", "Failed",
                        "Flushed", "Final"}

Outcome(s, ok, client) == [state |-> s, ok |-> ok, client |-> client]

Succeeds(s) == Outcome(s, TRUE, TRUE)

(* Init: a failure before the client driver was called leaves nothing to   *)
(* undo; one after it succeeded is followed by a Suspend callback.         *)
Init == {Succeeds("Started"), Outcome("Created", FALSE, FALSE),
         Outcome("InitFailed", FALSE, FALSE), Outcome("InitFailed", FALSE, TRUE)}

Restarting == {Succeeds("Started"), Outcome("Failed", FALSE, FALSE),
               Outcome("Failed", FALSE, TRUE)}

Suspending == {Succeeds("Stopped"), Outcome("Failed", FALSE, FALSE)}

(* An event no row of m_StateTable lists leaves the machine alone and      *)
(* reports success.                                                        *)
ProcessEvent(s, e) ==
    CASE s = "Created" /\ e = "Start" -> Init
      [] s \in {"Stopped", "Flushed"} /\ e = "Start" -> Restarting
      [] s = "Started" /\ e = "Suspend" -> Suspending
      [] s \in {"InitFailed", "Stopped", "Failed"} /\ e = "Flush" -> {Succeeds("Flushed")}
      [] s \in {"Created", "Flushed"} /\ e = "Cleanup" -> {Succeeds("Final")}
      [] OTHER -> {Succeeds(s)}

(* The rows of m_StateTable: the events each state lists *)
Lists(s, e) ==
    \/ e = "Start" /\ s \in {"Created", "Stopped", "Flushed"}
    \/ e = "Suspend" /\ s \in {"InitFailed", "Started", "Stopped", "Failed"}
    \/ e = "Flush" /\ s \in {"Created", "InitFailed", "Stopped", "Failed", "Flushed"}
    \/ e = "Cleanup" /\ s \in {"Created", "Flushed"}

=============================================================================
