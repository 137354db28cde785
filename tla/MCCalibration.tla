---------------------------- MODULE MCCalibration ----------------------------
(* Small instances of Calibration: two validators with two gold cases each,   *)
(* one a human passed and one a human failed.                                *)
EXTENDS Calibration, TLC

CONSTANTS sad, prd, ok1, bad1, ok2, bad2, gate

MCValidatorOf == ok1 :> sad @@ bad1 :> sad @@ ok2 :> prd @@ bad2 :> prd

MCExpected == [c \in Cases |-> gate :> IF c \in {ok1, ok2} THEN "PASS" ELSE "FAIL"]

(* FLOOR_MIN_* and the thresholds, scaled to two cases: a judge may be wrong   *)
(* on one of them and still agree often enough.                              *)
MCFloor == [cases |-> 2, exempt |-> 1, pass |-> 1, fail |-> 1]

MCAgreementMin == "freeze-gate" :> <<1, 2>> @@ "advisory" :> <<1, 2>>

Symmetry == Permutations(Processes) \cup Permutations(Prompts) \cup Permutations(Models)
=============================================================================
