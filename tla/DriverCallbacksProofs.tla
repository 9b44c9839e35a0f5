------------------------ MODULE DriverCallbacksProofs ------------------------
(***************************************************************************)
(* What a driver may rely on follows from the order of callbacks it is     *)
(* promised.                                                               *)
(***************************************************************************)
EXTENDS DriverCallbacks, TLAPS

(* a level without its first stage is empty, one with its last is full *)
LEMMA LevelFacts ==
    /\ {} \in Levels
    /\ \A l \in Levels : l # {} => "Hardware" \in l
    /\ \A l \in Levels : "Io" \in l => l = Stages
<1>1. \A s \in Stages : Rung[s] \in 1..7
  BY DEF Stages, Rung
<1>2. {} \in Levels
  <2>1. {s \in Stages : Rung[s] <= 0} = {}
    BY <1>1
  <2>2. QED
    BY <2>1 DEF Levels
<1>3. ASSUME NEW n \in 0..7, {s \in Stages : Rung[s] <= n} # {}
      PROVE  "Hardware" \in {s \in Stages : Rung[s] <= n}
  <2>1. n >= 1
    BY <1>1, <1>3
  <2>2. "Hardware" \in Stages /\ Rung["Hardware"] = 1
    BY DEF Stages, Rung
  <2>3. QED
    BY <2>1, <2>2
<1>4. ASSUME NEW n \in 0..7, "Io" \in {s \in Stages : Rung[s] <= n}
      PROVE  {s \in Stages : Rung[s] <= n} = Stages
  <2>1. n = 7
    BY <1>4 DEF Stages, Rung
  <2>2. QED
    BY <1>1, <2>1
<1>5. QED
  BY <1>2, <1>3, <1>4 DEF Levels

(* before any callback *)
LEMMA CallbacksInitInv == CallbacksInit => CallbacksInv
BY LevelFacts DEF CallbacksInit, CallbacksInv, RunsWithAllUp, HardwareFirst,
                  NothingAfterCleanup

(* each callback *)
LEMMA CallbacksStepInv == CallbacksInv /\ [CallbacksNext]_<<up, io>> => CallbacksInv'
<1> SUFFICES ASSUME CallbacksInv, [CallbacksNext]_<<up, io>>
             PROVE  CallbacksInv'
  OBVIOUS
<1> USE DEF CallbacksInv, RunsWithAllUp, HardwareFirst, NothingAfterCleanup
<1>1. CASE Starts
  <2>1. up' \in Levels /\ up \subseteq up' /\ io # "gone"
    BY <1>1 DEF Starts
  <2>2. (up' # {} => "Hardware" \in up') /\ ("Io" \in up' => up' = Stages)
    BY <2>1, LevelFacts
  <2>3. "Io" \in Stages
    BY DEF Stages, Rung
  <2>4. CASE io' = io
    BY <2>1, <2>2, <2>3, <2>4
  <2>5. CASE "Io" \in up' /\ io' \in {"running", "suspended"}
    BY <2>1, <2>2, <2>5
  <2>6. QED
    BY <1>1, <2>4, <2>5 DEF Starts
<1>2. CASE Ends
  BY <1>2, LevelFacts DEF Ends
<1>3. CASE Suspends
  BY <1>3 DEF Suspends
<1>4. CASE CleansUp
  BY <1>4 DEF CleansUp
<1>5. CASE UNCHANGED <<up, io>>
  BY <1>5
<1>6. QED
  BY <1>1, <1>2, <1>3, <1>4, <1>5 DEF CallbacksNext

(* A driver whose callbacks come in the promised order runs self managed   *)
(* I/O, and gets requests, only with every other stage up, is given its    *)
(* hardware before anything else, and has nothing up after its cleanup     *)
(* (powerstatemachine.cpp).                                                *)
THEOREM CallbacksSound == CallbacksSpec => []CallbacksInv
<1>1. QED
  BY CallbacksInitInv, CallbacksStepInv, PTL DEF CallbacksSpec

=============================================================================
