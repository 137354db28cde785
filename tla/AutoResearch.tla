----------------------------- MODULE AutoResearch -----------------------------
(****************************************************************************)
(* The optimization loop of src/auto_research.py: rounds of variations of a   *)
(* request, each tried and measured, until one meets the target, none can be  *)
(* made or the budget is spent.                                              *)
(*                                                                          *)
(* What is nondeterministic is what adapters answer: how many variations a    *)
(* model writes, what each experiment measures, and what raises.  The         *)
(* variations themselves and what calls cost are left out.                   *)
(****************************************************************************)
EXTENDS Integers, Sequences, FiniteSets

CONSTANTS
    Values,       \* what a metric may come to, in steps wider than 0.001
    NaN,          \* json reads NaN as a number; no comparison with it is true
    Infinity,     \* json reads Infinity and -Infinity, too
    Threshold,    \* of the target
    Budgets,      \* max_experiments, as callers give it
    BatchSize,    \* batch_size
    Orders,       \* distinct orders of the correction constraints
    Upstream,     \* number of upstream artifacts of the request
    Shown         \* how many prior results a model is shown, 3 in the code

Operators == {">=", ">", "<=", "<", "=="}

Strategies == {"prompt_phrasing", "constraint_ordering", "context_pruning",
               "model_comparison"}

ASSUME ConstantsAssumption ==
    /\ Infinity \in Nat
    /\ Values \subseteq Int /\ \A v \in Values : -Infinity < v /\ v < Infinity
    /\ Threshold \in Int /\ -Infinity < Threshold /\ Threshold < Infinity
    /\ NaN \notin Values \cup {Infinity, -Infinity}
    /\ Budgets \subseteq Int
    /\ BatchSize \in Nat \ {0}
    /\ Orders \in Nat \ {0}
    /\ Upstream \in Nat
    /\ Shown \in Nat

Measured == Values \cup {NaN, Infinity, -Infinity}

(* An experiment that raised is recorded with the value 0.                   *)
Experiment == [ok: {TRUE}, value: Measured] \cup [ok: {FALSE}, value: {0}]

VARIABLES
    operator,   \* of the target
    strategy,
    budget,
    pc,
    left,       \* variations of the round still to be tried
    history,
    best,       \* the best experiment's place in history, 0 if there is none
    met,        \* target_met of the result
    shown       \* the prior results the last round's model was shown

vars == <<operator, strategy, budget, pc, left, history, best, met, shown>>

inputs == <<operator, strategy, budget>>

Init ==
    /\ operator \in Operators
    /\ strategy \in Strategies \cup {"unknown"}
    /\ budget \in Budgets
    /\ pc = "vary" /\ left = 0
    /\ history = <<>> /\ best = 0 /\ met = FALSE /\ shown = {}

----------------------------------------------------------------------------
LeastOf(m, n) == IF m <= n THEN m ELSE n

(* _is_better: a target that is a lower bound asks for more, others for less. *)
Upward == operator \in {">=", ">"}

Better(v, w) == v # NaN /\ w # NaN /\ IF Upward THEN v > w ELSE v < w

Meets(v) ==
    /\ v # NaN
    /\ \/ operator = ">=" /\ v >= Threshold
       \/ operator = ">"  /\ v > Threshold
       \/ operator = "<=" /\ v <= Threshold
       \/ operator = "<"  /\ v < Threshold
       \/ operator = "==" /\ v = Threshold

Value(i) == history[i].value

Successes == {i \in 1..Len(history) : history[i].ok}

(* sorted is stable, and reversed it still is: of two equal values the earlier *)
(* one comes first.                                                          *)
Above(i, j) ==
    Better(Value(i), Value(j)) \/ (~Better(Value(j), Value(i)) /\ i < j)

Ascending(i, j) == Value(i) < Value(j) \/ (Value(i) = Value(j) /\ i < j)

Prior_Ascending ==
    LET n == LeastOf(Shown, Cardinality(Successes)) IN
    {S \in SUBSET Successes :
        /\ Cardinality(S) = n
        /\ (\A i \in Successes : Value(i) # NaN) =>
              \A i \in S, j \in Successes \ S : Ascending(i, j)}

(* The first of the successes, best first.  A NaN upsets sorted, so that any    *)
(* may come first then.                                                      *)
Prior ==
    LET n == LeastOf(Shown, Cardinality(Successes)) IN
    {S \in SUBSET Successes :
        /\ Cardinality(S) = n
        /\ (\A i \in Successes : Value(i) # NaN) =>
              \A i \in S, j \in Successes \ S : Above(i, j)}

----------------------------------------------------------------------------
(* _generate_variations.                                                     *)

Count_Whole == BatchSize

Count == LeastOf(BatchSize, budget - Len(history))

(* How many variations a round may have.  A model may write fewer than asked   *)
(* for, or raise; shuffling may not find every order; pruning does not count.  *)
Variations ==
    [prompt_phrasing     |-> 0..Count,
     constraint_ordering |-> 1..LeastOf(Count, Orders),
     context_pruning     |-> {Upstream + 1},
     model_comparison    |-> {Count}]

Vary_GoesOn ==
    /\ pc = "vary" /\ Len(history) < budget /\ strategy \in Strategies
    /\ \E n \in Variations[strategy] :
          /\ left' = n
          /\ pc' = IF n > 0 THEN "try" ELSE "vary"
    /\ shown' \in IF strategy = "prompt_phrasing" THEN Prior ELSE {{}}
    /\ UNCHANGED <<inputs, history, best, met>>

Vary ==
    /\ pc = "vary" /\ Len(history) < budget /\ strategy \in Strategies
    /\ \E n \in Variations[strategy] :
          /\ left' = n
          /\ pc' = IF n > 0 THEN "try" ELSE "done"
    /\ shown' \in IF strategy = "prompt_phrasing" THEN Prior ELSE {{}}
    /\ UNCHANGED <<inputs, history, best, met>>

Unknown ==
    /\ pc = "vary" /\ Len(history) < budget /\ strategy \notin Strategies
    /\ pc' = "raised"
    /\ UNCHANGED <<inputs, left, history, best, met, shown>>

Exhausted ==
    /\ pc = "vary" /\ Len(history) >= budget
    /\ pc' = "done"
    /\ UNCHANGED <<inputs, left, history, best, met, shown>>

----------------------------------------------------------------------------
(* One experiment.                                                           *)

(* The worst there is: what best_value starts from.                           *)
Worst == IF Upward THEN -Infinity ELSE Infinity

Improves(v) == Better(v, IF best = 0 THEN Worst ELSE Value(best))

Record(experiment) == history' = Append(history, experiment)

Advance(stop) ==
    /\ left' = left - 1
    /\ pc' = IF stop THEN "done" ELSE IF left = 1 THEN "vary" ELSE "try"

Succeed_LateStop(v) ==
    /\ pc = "try"
    /\ Record([ok |-> TRUE, value |-> v])
    /\ best' = IF Improves(v) THEN Len(history) + 1 ELSE best
    /\ met' = (met \/ Meets(v))
    /\ Advance(left = 1 /\ (met \/ Meets(v)))
    /\ UNCHANGED <<inputs, shown>>

Succeed(v) ==
    /\ pc = "try"
    /\ Record([ok |-> TRUE, value |-> v])
    /\ best' = IF Improves(v) THEN Len(history) + 1 ELSE best
    /\ met' = Meets(v)
    /\ Advance(Meets(v))
    /\ UNCHANGED <<inputs, shown>>

Fail_Counts ==
    /\ pc = "try"
    /\ Record([ok |-> FALSE, value |-> 0])
    /\ best' = IF Improves(0) THEN Len(history) + 1 ELSE best
    /\ Advance(FALSE)
    /\ UNCHANGED <<inputs, met, shown>>

(* The adapter raises, or the measurement does.                              *)
Fail ==
    /\ pc = "try"
    /\ Record([ok |-> FALSE, value |-> 0])
    /\ Advance(FALSE)
    /\ UNCHANGED <<inputs, best, met, shown>>

Next == Vary \/ Unknown \/ Exhausted \/ Fail \/ \E v \in Measured : Succeed(v)

Spec == Init /\ [][Next]_vars

(* Every call of an adapter returns or raises (adapters/: clients time out).  *)
FairSpec == Spec /\ WF_vars(Next)

----------------------------------------------------------------------------
(* No more experiments than the caller paid for, whatever the round sizes; a   *)
(* pruning round is one per artifact and one more, whatever is left, so that    *)
(* it may exceed the budget by as many as there are artifacts.                *)
Most ==
    IF strategy = "context_pruning" /\ budget > 0 THEN budget + Upstream
    ELSE IF budget > 0 THEN budget ELSE 0

(* Types, and the budget that bounds the history.                            *)
TypeOK ==
    /\ operator \in Operators
    /\ strategy \in Strategies \cup {"unknown"}
    /\ budget \in Budgets
    /\ pc \in {"vary", "try", "done", "raised"}
    /\ history \in Seq(Experiment)
    /\ left \in Nat /\ Len(history) + left <= Most
    /\ best \in 0..Len(history)
    /\ met \in BOOLEAN
    /\ shown \subseteq Successes

Numbered == {i \in Successes : Value(i) # NaN}

(* What can win: a success that measured something better than the worst.      *)
Candidates == {i \in Numbered : Value(i) # Worst}

(* The winner is the first of the successes no other success beats: a failure, *)
(* recorded as 0, never wins, not even where 0 would be the best value.  There  *)
(* is a winner as soon as a success measured a number but the worst infinity,  *)
(* which the loop takes for no result (auto_research.py:84, 134-138, 377-382).  *)
WinnerUnbeaten ==
    /\ best = 0 <=> Candidates = {}
    /\ best # 0 =>
          /\ best \in Candidates
          /\ \A i \in Numbered \ {best} : Above(best, i)

(* The run stops at the experiment that meets the target and at no later one,  *)
(* says so, and, but for "==", hands back that very experiment as the winner   *)
(* (auto_research.py:140-151).                                                *)
StopsAtTarget ==
    LET Hits == {i \in Successes : Meets(Value(i))} IN
    /\ met <=> Hits # {}
    /\ Hits # {} => Hits = {Len(history)} /\ pc = "done"
    /\ met /\ operator # "==" => best = Len(history)

(* The result is right: the winner and the claim about the target.             *)
BestIsBest == WinnerUnbeaten /\ StopsAtTarget

(* Two selections of the best agree: the winner so far is among the prior       *)
(* results the model that writes the next round's prompts is shown             *)
(* (auto_research.py:198-211).                                                *)
ShowsWinner ==
    /\ pc = "vary" /\ pc' = "try" /\ strategy = "prompt_phrasing"
    /\ Numbered = Successes /\ best # 0 /\ Shown > 0
    => best \in shown'

WinnerShown == [][ShowsWinner]_vars

(* A run ends: rounds that bring nothing, failures and a target that is never   *)
(* met all use the budget up or break the loop (auto_research.py:87-99).       *)
Terminates == <>(pc \in {"done", "raised"})

=============================================================================
