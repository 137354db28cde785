-------------------------- MODULE AutoResearch_proofs --------------------------
(* What AutoResearch promises of its result, for every budget, batch size and   *)
(* set of values.                                                             *)
EXTENDS AutoResearch, FiniteSetTheorems, TLAPS

(* Only a variation that is left is tried.                                    *)
Inv == TypeOK /\ (pc = "try" => left > 0)

----------------------------------------------------------------------------
(* Operators.                                                                *)

(* The new experiment is the last of the history; the others stay.             *)
LEMMA Recorded ==
    ASSUME history \in Seq(Experiment), NEW e \in Experiment, Record(e)
    PROVE  /\ history' \in Seq(Experiment)
           /\ Len(history) \in Nat /\ Len(history') = Len(history) + 1
           /\ history'[Len(history) + 1] = e
           /\ \A i \in 1..Len(history) : history'[i] = history[i]
BY DEF Record

(* A round fits the budget, but for one that prunes.                           *)
LEMMA Fits ==
    ASSUME TypeOK, Len(history) < budget, strategy \in Strategies,
           NEW n \in Variations[strategy]
    PROVE  n \in Nat /\ Len(history) + n <= Most
<1>1. budget \in Int /\ Len(history) \in Nat /\ BatchSize \in Nat /\ BatchSize > 0
      /\ Upstream \in Nat /\ Orders \in Nat /\ Orders > 0
  BY ConstantsAssumption DEF TypeOK
<1>2. Count \in Nat /\ Len(history) + Count <= budget
  <2>. DEFINE rest == budget - Len(history)
  <2>1. rest \in Nat /\ Count = LeastOf(BatchSize, rest)
    BY <1>1 DEF Count
  <2>. QED  BY <1>1, <2>1 DEF LeastOf
<1>3. LeastOf(Count, Orders) \in Int /\ LeastOf(Count, Orders) <= Count
  BY <1>1, <1>2 DEF LeastOf
<1>4. CASE strategy = "prompt_phrasing"
  BY <1>1, <1>2, <1>4 DEF Variations, Most
<1>5. CASE strategy = "constraint_ordering"
  BY <1>1, <1>2, <1>3, <1>5 DEF Variations, Most
<1>6. CASE strategy = "context_pruning"
  BY <1>1, <1>6 DEF Variations, Most
<1>7. CASE strategy = "model_comparison"
  BY <1>1, <1>2, <1>7 DEF Variations, Most
<1>. QED  BY <1>4, <1>5, <1>6, <1>7 DEF Strategies

(* The new experiment adds to the successes, and takes none away.              *)
LEMMA SuccessesGrow ==
    ASSUME history \in Seq(Experiment), NEW e \in Experiment, Record(e)
    PROVE  /\ Successes \subseteq Successes'
           /\ Successes' = IF e.ok THEN Successes \cup {Len(history) + 1} ELSE Successes
BY Recorded DEF Successes

----------------------------------------------------------------------------
(* Types and the budget.                                                      *)

LEMMA TypesInit == Init => Inv
<1>. SUFFICES ASSUME Init PROVE Inv
  OBVIOUS
<1>1. budget \in Int /\ Upstream \in Nat
  BY ConstantsAssumption DEF Init
<1>2. Len(history) = 0 /\ history \in Seq(Experiment) /\ Most \in Nat
  BY <1>1 DEF Init, Most
<1>3. /\ operator \in Operators /\ strategy \in Strategies \cup {"unknown"}
      /\ budget \in Budgets /\ pc = "vary" /\ left = 0 /\ best = 0 /\ met = FALSE
      /\ shown = {}
  BY DEF Init
<1>4. Len(history) + left <= Most /\ left \in Nat /\ best \in 0..Len(history)
  BY <1>2, <1>3
<1>. QED  BY <1>2, <1>3, <1>4 DEF Inv, TypeOK

LEMMA TypesNext == Inv /\ [Next]_vars => Inv'
<1>. SUFFICES ASSUME Inv, [Next]_vars PROVE Inv'
  OBVIOUS
<1>. USE DEF Inv, TypeOK, inputs
<1>1. CASE Vary
  <2>1. PICK n \in Variations[strategy] :
           left' = n /\ pc' = IF n > 0 THEN "try" ELSE "done"
    BY <1>1 DEF Vary
  <2>2. n \in Nat /\ Len(history) + n <= Most
    BY <1>1, Fits DEF Vary
  <2>3. Most' = Most /\ Successes' = Successes
    BY <1>1 DEF Vary, Most, Successes
  <2>4. shown' \subseteq Successes
    BY <1>1 DEF Vary, Prior
  <2>. QED  BY <1>1, <2>1, <2>2, <2>3, <2>4 DEF Vary
<1>2. CASE Unknown
  BY <1>2 DEF Unknown, Most, Successes
<1>3. CASE Exhausted
  BY <1>3 DEF Exhausted, Most, Successes
<1>4. CASE Fail
  <2>1. [ok |-> FALSE, value |-> 0] \in Experiment
    BY DEF Experiment
  <2>2. /\ history' \in Seq(Experiment) /\ Len(history) \in Nat
        /\ Len(history') = Len(history) + 1 /\ Successes \subseteq Successes'
    BY <1>4, <2>1, Recorded, SuccessesGrow DEF Fail
  <2>3. Most' = Most /\ left \in Nat /\ left > 0 /\ left' = left - 1
        /\ pc' \in {"vary", "try", "done"} /\ (pc' = "try" => left # 1)
    BY <1>4 DEF Fail, Most, Advance
  <2>. QED  BY <1>4, <2>2, <2>3 DEF Fail
<1>5. ASSUME NEW v \in Measured, Succeed(v) PROVE Inv'
  <2>1. [ok |-> TRUE, value |-> v] \in Experiment
    BY DEF Experiment
  <2>2. /\ history' \in Seq(Experiment) /\ Len(history) \in Nat
        /\ Len(history') = Len(history) + 1 /\ Successes \subseteq Successes'
    BY <1>5, <2>1, Recorded, SuccessesGrow DEF Succeed
  <2>3. Most' = Most /\ left \in Nat /\ left > 0 /\ left' = left - 1
        /\ pc' \in {"vary", "try", "done"} /\ (pc' = "try" => left # 1)
    BY <1>5 DEF Succeed, Most, Advance
  <2>4. best' \in 0..Len(history') /\ met' \in BOOLEAN
    BY <1>5, <2>2 DEF Succeed, Meets
  <2>. QED  BY <1>5, <2>2, <2>3, <2>4 DEF Succeed
<1>6. CASE UNCHANGED vars
  BY <1>6 DEF vars, Most, Successes
<1>. QED  BY <1>1, <1>2, <1>3, <1>4, <1>5, <1>6 DEF Next

(* The budget bounds the experiments, for every strategy and batch size: but   *)
(* for pruning, no more are run than the caller paid for                       *)
(* (auto_research.py:87-100).                                                 *)
THEOREM TypeCorrect == Spec => []TypeOK
<1>1. Inv => TypeOK
  BY DEF Inv
<1>. QED  BY <1>1, TypesInit, TypesNext, PTL DEF Spec

(* The same of the strengthening the step needs.                               *)
LEMMA Invariant == Spec => []Inv
BY TypesInit, TypesNext, PTL DEF Spec

----------------------------------------------------------------------------
(* The winner.                                                               *)

(* A measurement is a number or NaN.                                          *)
LEMMA ValueType ==
    ASSUME history \in Seq(Experiment), NEW i \in Numbered
    PROVE  /\ i \in 1..Len(history) /\ Value(i) \in Int
           /\ -Infinity <= Value(i) /\ Value(i) <= Infinity
<1>1. i \in 1..Len(history) /\ history[i].ok /\ history[i].value # NaN
  BY DEF Numbered, Successes, Value
<1>2. history[i] \in Experiment
  BY <1>1
<1>3. history[i].value \in Values \cup {Infinity, -Infinity}
  BY <1>1, <1>2 DEF Experiment, Measured
<1>4. \A v \in Values \cup {Infinity, -Infinity} :
         v \in Int /\ -Infinity <= v /\ v <= Infinity
  BY ConstantsAssumption
<1>. QED  BY <1>1, <1>3, <1>4 DEF Value

(* Of a failure nothing changes.                                              *)
LEMMA FailKeeps ==
    ASSUME Inv, BestIsBest, Fail
    PROVE  BestIsBest'
<1>1. [ok |-> FALSE, value |-> 0] \in Experiment
  BY DEF Experiment
<1>2. history \in Seq(Experiment)
  BY DEF Inv, TypeOK
<1>3. Successes' = Successes
  BY <1>1, <1>2, SuccessesGrow DEF Fail
<1>4. \A i \in Successes : Value(i)' = Value(i)
  BY <1>1, <1>2, Recorded DEF Fail, Value, Successes
<1>5. Numbered' = Numbered /\ Numbered \subseteq Successes
  BY <1>3, <1>4 DEF Numbered
<1>6. /\ \A i, j \in Numbered : Above(i, j) => Above(i, j)'
      /\ Candidates' = Candidates /\ Candidates \subseteq Numbered
  BY <1>4, <1>5 DEF Above, Better, Upward, Worst, Candidates, Fail, inputs
<1>7. WinnerUnbeaten'
  BY <1>5, <1>6 DEF Fail, BestIsBest, WinnerUnbeaten
<1>8. \A i \in Successes : Meets(Value(i))' <=> Meets(Value(i))
  BY <1>4 DEF Meets, Fail, inputs
<1>9. {i \in Successes : Meets(Value(i))} = {} /\ met = FALSE
  BY DEF Fail, BestIsBest, StopsAtTarget, Inv, TypeOK
<1>10. {i \in Successes : Meets(Value(i))}' = {}
  BY <1>3, <1>8, <1>9
<1>11. StopsAtTarget'
  BY <1>9, <1>10 DEF Fail, StopsAtTarget
<1>. QED  BY <1>7, <1>11 DEF BestIsBest

(* A success is the winner if it is better than the last one was, and the end   *)
(* if it meets the target.                                                    *)
LEMMA SuccessKeeps ==
    ASSUME Inv, BestIsBest, NEW v \in Measured, Succeed(v)
    PROVE  BestIsBest'
<1>. DEFINE Hits == {i \in Successes : Meets(Value(i))}
<1>1. [ok |-> TRUE, value |-> v] \in Experiment
  BY DEF Experiment
<1>2. history \in Seq(Experiment) /\ Len(history) \in Nat /\ best \in 0..Len(history)
  BY DEF Inv, TypeOK
<1>. PICK n \in Nat : n = Len(history) + 1
  BY <1>2
<1>3. Successes' = Successes \cup {n} /\ n \notin Successes
  BY <1>1, <1>2, SuccessesGrow DEF Succeed, Successes
<1>4. Value(n)' = v /\ Len(history') = n
  BY <1>1, <1>2, Recorded DEF Succeed, Value
<1>5. \A i \in Successes : Value(i)' = Value(i)
  BY <1>1, <1>2, Recorded DEF Succeed, Value, Successes
<1>6. Numbered' = IF v # NaN THEN Numbered \cup {n} ELSE Numbered
  BY <1>3, <1>4, <1>5 DEF Numbered
<1>7. \A i \in Numbered : /\ i \in 1..Len(history) /\ Value(i) \in Int /\ Value(i)' = Value(i)
                         /\ -Infinity <= Value(i) /\ Value(i) <= Infinity
  BY <1>2, <1>5, ValueType DEF Numbered
<1>8. /\ operator' = operator /\ v \in Int \cup {NaN} /\ NaN \notin Values /\ Threshold \in Int
      /\ Infinity \in Nat /\ -Infinity < Threshold /\ Threshold < Infinity
      /\ Worst' = Worst /\ Worst \in Int /\ Worst # NaN
      /\ Worst = IF Upward THEN -Infinity ELSE Infinity
  BY ConstantsAssumption DEF Succeed, inputs, Measured, Worst, Upward
<1>9. best # 0 => /\ best \in Numbered /\ Value(best) # Worst
                  /\ \A i \in Numbered \ {best} : Above(best, i)
  BY DEF BestIsBest, WinnerUnbeaten, Candidates
<1>10. best = 0 => \A i \in Numbered : Value(i) = Worst
  BY DEF BestIsBest, WinnerUnbeaten, Candidates
<1>11. v # NaN => v \in Int /\ -Infinity <= v /\ v <= Infinity
  BY ConstantsAssumption DEF Measured
<1>19. Candidates' = IF v # NaN /\ v # Worst THEN Candidates \cup {n} ELSE Candidates
  BY <1>4, <1>6, <1>7, <1>8 DEF Candidates
<1>12. ASSUME Improves(v) PROVE WinnerUnbeaten'
  <2>1. best' = n /\ v # NaN /\ v \in Int
    BY <1>11, <1>12 DEF Succeed, Improves, Better
  <2>5. v # Worst
    <3>1. CASE best = 0
      BY <1>8, <1>12, <2>1, <3>1 DEF Improves, Better
    <3>2. CASE best # 0
      BY <1>7, <1>8, <1>9, <1>12, <2>1, <3>2 DEF Improves, Better
    <3>. QED  BY <3>1, <3>2
  <2>2. \A i \in Numbered : Better(v, Value(i))
    <3>1. CASE best = 0
      BY <1>10, <1>12, <3>1 DEF Improves
    <3>2. CASE best # 0
      <4>1. Better(v, Value(best)) /\ best \in Numbered
        BY <1>9, <1>12, <3>2 DEF Improves
      <4>2. ASSUME NEW i \in Numbered, i # best
            PROVE  Better(v, Value(i))
        <5>1. Above(best, i) /\ Value(i) \in Int /\ Value(best) \in Int
          BY <1>7, <1>9, <3>2, <4>1, <4>2
        <5>2. Value(i) # NaN
          BY <4>2 DEF Numbered
        <5>. QED  BY <2>1, <4>1, <5>1, <5>2 DEF Above, Better
      <4>. QED  BY <4>1, <4>2
    <3>. QED  BY <3>1, <3>2
  <2>3. \A i \in Numbered' \ {n} : Above(n, i)'
    BY <1>4, <1>6, <1>7, <1>8, <2>1, <2>2 DEF Above, Better, Upward
  <2>4. WinnerUnbeaten'
    BY <1>2, <1>19, <2>1, <2>3, <2>5 DEF WinnerUnbeaten
  <2>. QED  BY <2>4
<1>13. ASSUME ~Improves(v) PROVE WinnerUnbeaten'
  <2>1. best' = best
    BY <1>13 DEF Succeed
  <2>2. CASE best = 0
    <3>1. v = NaN \/ v = Worst
      BY <1>8, <1>11, <1>13, <2>2 DEF Improves, Better
    <3>2. Candidates = {}
      BY <1>10 , <2>2 DEF Candidates
    <3>. QED  BY <1>19, <2>1, <2>2, <3>1, <3>2 DEF WinnerUnbeaten
  <2>3. CASE best # 0
    <3>1. best \in Numbered /\ ~Better(v, Value(best)) /\ best < n /\ best # n
      BY <1>2, <1>9, <1>13, <2>3 DEF Improves
    <3>2. \A i \in Numbered \ {best} : Above(best, i)'
      BY <1>7, <1>8, <1>9, <2>1, <2>3 DEF Above, Better, Upward
    <3>3. v # NaN => Above(best, n)'
      BY <1>4, <1>7, <1>8, <2>1, <3>1 DEF Above, Better, Upward
    <3>4. \A i \in Numbered' \ {best'} : Above(best, i)'
      BY <1>6, <2>1, <3>2, <3>3
    <3>5. Candidates' # {} /\ best' # 0 /\ best' \in Candidates'
      BY <1>9, <1>19, <2>1, <2>3 DEF Candidates
    <3>. QED  BY <3>4, <3>5 DEF WinnerUnbeaten
  <2>. QED  BY <2>2, <2>3
<1>14. Hits = {} /\ met = FALSE
  BY DEF Succeed, BestIsBest, StopsAtTarget, Inv, TypeOK
<1>15. Meets(v)' = Meets(v) /\ \A i \in Successes : ~Meets(Value(i))'
  BY <1>5, <1>8, <1>14 DEF Meets
<1>16. Hits' = IF Meets(v) THEN {n} ELSE {}
  BY <1>3, <1>4, <1>15 DEF Meets
<1>17. Meets(v) /\ operator # "==" => best' = n
  <2>1. SUFFICES ASSUME Meets(v), operator # "==" PROVE Improves(v)
    BY DEF Succeed
  <2>2. v \in Int /\ v # NaN
    BY <1>11, <2>1 DEF Meets
  <2>3. CASE best = 0
    BY <1>8, <2>1, <2>2, <2>3 DEF Improves, Better, Meets, Upward, Operators, Inv, TypeOK
  <2>4. CASE best # 0
    <3>1. best \in Numbered /\ Value(best) \in Int /\ Value(best) # NaN
      BY <1>7, <1>9, <2>4 DEF Numbered
    <3>2. ~Meets(Value(best))
      BY <1>14, <3>1 DEF Numbered
    <3>3. Better(v, Value(best))
      BY <1>8, <2>1, <2>2, <3>1, <3>2 DEF Meets, Better, Upward, Operators, Inv, TypeOK
    <3>. QED  BY <2>4, <3>3 DEF Improves
  <2>. QED  BY <2>3, <2>4
<1>18. StopsAtTarget'
  <2>1. met' = Meets(v) /\ (Meets(v) => pc' = "done")
    BY DEF Succeed, Advance
  <2>2. Meets(v) \in BOOLEAN
    BY DEF Meets
  <2>. QED  BY <1>4, <1>8, <1>16, <1>17, <2>1, <2>2 DEF StopsAtTarget
<1>. QED  BY <1>12, <1>13, <1>18 DEF BestIsBest

LEMMA BestInit == Init => BestIsBest
BY DEF Init, BestIsBest, WinnerUnbeaten, StopsAtTarget, Candidates, Numbered, Successes

(* What a step that records nothing leaves alone.                             *)
LEMMA OthersKeep ==
    ASSUME Inv, BestIsBest, UNCHANGED <<inputs, history, best, met>>,
           pc = "done" => pc' = "done"
    PROVE  BestIsBest'
<1>1. /\ Successes' = Successes /\ Numbered' = Numbered /\ Candidates' = Candidates
      /\ \A i, j : Above(i, j)' <=> Above(i, j)
      /\ \A i : Meets(Value(i))' <=> Meets(Value(i))
  BY DEF Successes, Numbered, Candidates, Worst, Value, Above, Better, Upward, Meets, inputs
<1>2. WinnerUnbeaten'
  BY <1>1 DEF BestIsBest, WinnerUnbeaten
<1>3. StopsAtTarget'
  BY <1>1 DEF BestIsBest, StopsAtTarget, inputs
<1>. QED  BY <1>2, <1>3 DEF BestIsBest

LEMMA BestNext == Inv /\ BestIsBest /\ [Next]_vars => BestIsBest'
<1>. SUFFICES ASSUME Inv, BestIsBest, [Next]_vars PROVE BestIsBest'
  OBVIOUS
<1>1. CASE Vary
  BY <1>1, OthersKeep DEF Vary
<1>2. CASE Unknown
  BY <1>2, OthersKeep DEF Unknown
<1>3. CASE Exhausted
  BY <1>3, OthersKeep DEF Exhausted
<1>4. CASE Fail
  BY <1>4, FailKeeps
<1>5. ASSUME NEW v \in Measured, Succeed(v) PROVE BestIsBest'
  BY <1>5, SuccessKeeps
<1>6. CASE UNCHANGED vars
  BY <1>6, OthersKeep DEF vars, inputs
<1>. QED  BY <1>1, <1>2, <1>3, <1>4, <1>5, <1>6 DEF Next

(* Whatever experiments measure or raise, NaN included, the winner is the first *)
(* of the best successes, and the run stops at the target, says so and, but for *)
(* "==", hands that experiment back (auto_research.py:98-163, 362-382).        *)
THEOREM Best == Spec => []BestIsBest
BY Invariant, BestInit, BestNext, PTL DEF Spec

----------------------------------------------------------------------------
(* The results a model is shown.                                              *)

(* A selection of at least one success that puts nothing below what it leaves    *)
(* out does not leave the winner out.                                         *)
LEMMA WinnerSelected ==
    ASSUME Inv, BestIsBest, Numbered = Successes, best # 0, Shown > 0,
           NEW S \in Prior
    PROVE  best \in S
<1>1. best \in Successes /\ \A i \in Successes \ {best} : Above(best, i)
  BY DEF BestIsBest, WinnerUnbeaten, Candidates, Numbered
<1>2. /\ S \subseteq Successes /\ Cardinality(S) = LeastOf(Shown, Cardinality(Successes))
      /\ \A i \in S, j \in Successes \ S : Above(i, j)
  BY DEF Prior, Numbered
<1>3. SUFFICES ASSUME best \notin S PROVE FALSE
  OBVIOUS
<1>4. S = {}
  <2>1. SUFFICES ASSUME NEW i \in S PROVE FALSE
    OBVIOUS
  <2>2. Above(i, best) /\ Above(best, i)
    BY <1>1, <1>2, <1>3
  <2>3. /\ i \in Int /\ best \in Int /\ i # best
        /\ Value(i) \in Int /\ Value(best) \in Int /\ Value(i) # NaN /\ Value(best) # NaN
    BY <1>1, <1>2, <1>3, ValueType DEF Inv, TypeOK, Numbered, Successes
  <2>. QED  BY <2>2, <2>3 DEF Above, Better
<1>5. Cardinality(S) = 0
  BY <1>4, FS_EmptySet
<1>6. IsFiniteSet(Successes)
  <2>1. Len(history) \in Nat
    BY DEF Inv, TypeOK
  <2>2. IsFiniteSet(1..Len(history))
    BY <2>1, FS_Interval
  <2>. QED  BY <2>2, FS_Subset DEF Successes
<1>7. Cardinality(Successes) \in Nat /\ Cardinality(Successes) # 0
  BY <1>1, <1>6, FS_CardinalityType, FS_EmptySet
<1>. QED  BY <1>2, <1>5, <1>7, ConstantsAssumption DEF LeastOf

LEMMA ShownStep == Inv /\ BestIsBest /\ [Next]_vars => [ShowsWinner]_vars
<1>. SUFFICES ASSUME Inv, BestIsBest, [Next]_vars, ShowsWinner = FALSE
              PROVE  UNCHANGED vars
  BY DEF ShowsWinner
<1>1. /\ pc = "vary" /\ pc' = "try" /\ strategy = "prompt_phrasing"
      /\ Numbered = Successes /\ best # 0 /\ Shown > 0 /\ best \notin shown'
  BY DEF ShowsWinner
<1>2. CASE Vary
  <2>1. shown' \in Prior
    BY <1>1, <1>2 DEF Vary
  <2>. QED  BY <1>1, <2>1, WinnerSelected
<1>3. ~Unknown /\ ~Exhausted /\ ~Fail /\ \A v \in Measured : ~Succeed(v)
  BY <1>1 DEF Unknown, Exhausted, Fail, Succeed
<1>. QED  BY <1>2, <1>3 DEF Next

(* The winner so far is among the results the next round's model is shown: the *)
(* strict comparison of the loop and the stable sort of the prompt pick the     *)
(* same (auto_research.py:135-138, 198-211).                                  *)
THEOREM ShownIsBest == Spec => WinnerShown
BY Invariant, Best, ShownStep, PTL DEF Spec, WinnerShown

=============================================================================
