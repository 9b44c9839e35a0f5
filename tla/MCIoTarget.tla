----------------------------- MODULE MCIoTarget -----------------------------
(***************************************************************************)
(* The I/O target as TLC checks it: what the driver does in each instance. *)
(***************************************************************************)
EXTENDS IoTarget, TLC

CONSTANTS r1, r2

Plan(sends1, sends2, cancels, calls) ==
    [sends |-> r1 :> sends1 @@ r2 :> sends2, cancels |-> cancels, calls |-> calls]

Plain   == {}
Timed   == {"Timeout"}
Sync    == {"Synchronous", "Timeout"}
Ignore  == {"IgnoreState"}
NoPend  == {"FailOnPend"}

(* a timeout, the driver and a Start, or a Purge, meet over a pended request; *)
(* a stop cancels while a timeout does, and another request is pended;     *)
(* the same with the driver cancelling, and the request sent again;        *)
(* a purge and a removal while a request ignores the target's state;       *)
(* a stop waits for a synchronous sender that gives up;                    *)
(* two stops with a start between them; every way to be refused; and a     *)
(* request that ignored the target's state is reused for one that does not *)
TargetPlans == {
    Plan(<<Timed>>, <<>>, 1, <<"StopLeave", "Start", "Remove">>),
    Plan(<<Timed>>, <<>>, 1, <<"StopLeave", "Purge">>),
    Plan(<<Timed>>, <<Plain>>, 0, <<"StopCancel", "Start">>),
    Plan(<<Timed, Plain>>, <<>>, 1, <<"StopCancel", "Start", "Remove">>),
    Plan(<<Plain>>, <<Ignore>>, 1, <<"Purge", "Remove">>),
    Plan(<<Sync>>, <<Plain>>, 0, <<"StopWait", "Remove">>),
    Plan(<<Plain>>, <<Plain>>, 0, <<"StopLeave", "Start", "StopCancel">>),
    Plan(<<NoPend>>, <<Ignore>>, 0, <<"StopLeave", "PurgeNoWait", "CancelSentIo">>),
    Plan(<<Ignore, Plain>>, <<>>, 1, <<"StopCancel", "Start", "Purge", "Remove">>),
    Plan(<<Ignore, Timed>>, <<>>, 1, <<"StopWait", "Purge">>),
    Plan(<<Sync, Plain>>, <<>>, 1, <<"StopCancel">>)}

=============================================================================
