----------------------------- MODULE Convergence -----------------------------
(****************************************************************************)
(* ConvergenceLoop.run of src/convergence.py: generate a draft, have the      *)
(* validator judge it, then the lens reviewers; correct and try again within  *)
(* the budget.  Every call of a model is a step, with whatever it may answer. *)
(*                                                                          *)
(* A verdict keeps what the loop decides by: its status, its failing hard     *)
(* gates and its blocking issues, at most one description for a gate.  An     *)
(* entry of the issue list that is not an object makes the loop raise when    *)
(* it reads the list (broken); issues then holds the entries before it.       *)
(****************************************************************************)
EXTENDS Naturals, Sequences, FiniteSets

CONSTANTS
    Budgets,        \* the values max_iterations may be configured to
    NumLenses,      \* lens reviewers 1..NumLenses, in the order of the dict
    Gates, Descs,
    Verdicts,       \* what the validator may answer
    LensVerdicts    \* what a lens may answer

Validator == 0
Judges == 0..NumLenses

(* A status other than PASS and FAIL parses, and counts as neither.           *)
Status == {"PASS", "FAIL", "UNKNOWN"}

ValidationResult ==
    [status : Status, failed : SUBSET Gates, issues : SUBSET (Gates \X Descs),
     broken : BOOLEAN]

ASSUME ConstantsAssumption ==
    /\ Budgets \subseteq Nat
    /\ NumLenses \in Nat
    /\ Verdicts \subseteq ValidationResult
    /\ LensVerdicts \subseteq ValidationResult

Entry == [iteration : Nat, judge : Judges, result : ValidationResult]

Outcomes == Status \cup {"none", "truncated", "raised"}

VARIABLES
    max,        \* max_iterations of this loop
    pc,         \* the call that comes next
    iteration,  \* current_iteration
    request,    \* correction constraints the next draft is asked to meet
    ledger,     \* state.ledger
    lens,       \* the lens whose turn it is
    findings,   \* lens_issues
    warnings,   \* <<kind, iteration>> of the warnings logged
    outcome,    \* how run ended
    reported    \* the blocking issues of the result it returned

vars == <<max, pc, iteration, request, ledger, lens, findings, warnings,
          outcome, reported>>

Constraint == Judges \X (Gates \X Descs)

TypeOK ==
    /\ max \in Budgets
    /\ pc \in {"generate", "validate", "review", "done"}
    /\ iteration \in 0..max
    /\ request \subseteq Constraint
    /\ ledger \in Seq(Entry)
    /\ lens \in 1..NumLenses + 1
    /\ findings \subseteq Constraint
    /\ warnings \subseteq {"stale", "oscillating"} \X Nat
    /\ outcome \in Outcomes
    /\ reported \subseteq Constraint
    /\ pc = "done" <=> outcome # "none"
    /\ pc \in {"validate", "review"} => iteration > 0

Init ==
    /\ max \in Budgets
    /\ pc = "generate"
    /\ iteration = 0
    /\ request = {}
    /\ ledger = <<>>
    /\ lens = 1
    /\ findings = {}
    /\ warnings = {}
    /\ outcome = "none"
    /\ reported = {}

Stop(how, issues) ==
    /\ pc' = "done"
    /\ outcome' = how
    /\ reported' = issues

(* _build_correction_request starts from the original request each time: the  *)
(* constraints of an earlier round are not carried over.                      *)
Correct(issues) ==
    /\ pc' = "generate"
    /\ request' = issues
    /\ UNCHANGED <<outcome, reported>>

Tagged(judge, result) == {judge} \X result.issues

----------------------------------------------------------------------------
(* Step 1 of run: the generator is called.                                   *)

Generate_OnePast ==
    /\ pc = "generate"
    /\ iteration <= max
    /\ iteration' = iteration + 1
    /\ \/ pc' = "validate" /\ UNCHANGED <<outcome, reported>>
       \/ Stop("truncated", {})
       \/ Stop("raised", {})
    /\ UNCHANGED <<max, request, ledger, lens, findings, warnings>>

Generate ==
    /\ pc = "generate"
    /\ iteration < max
    /\ iteration' = iteration + 1
    /\ \/ pc' = "validate" /\ UNCHANGED <<outcome, reported>>
       \/ Stop("truncated", {})
       \/ Stop("raised", {})
    /\ UNCHANGED <<max, request, ledger, lens, findings, warnings>>

(* A budget of zero: the loop body never runs and gen_response is unbound.    *)
NoRound ==
    /\ pc = "generate"
    /\ iteration = max
    /\ Stop("raised", {})
    /\ UNCHANGED <<max, iteration, request, ledger, lens, findings, warnings>>

----------------------------------------------------------------------------
(* Steps 2 to 5: the validator is called.                                    *)

Record(judge, result) ==
    ledger' = Append(ledger,
                     [iteration |-> iteration, judge |-> judge, result |-> result])

Last(entries, n) == entries[Len(entries) - n].result

Stale_LongerWindow(entries) ==
    /\ Len(entries) >= 3
    /\ \E issue \in Last(entries, 0).issues \cap Last(entries, 1).issues :
          issue[1] \in Last(entries, 0).failed \cap Last(entries, 1).failed

(* _detect_staleness.                                                        *)
Stale(entries) ==
    /\ Len(entries) >= 2
    /\ \E issue \in Last(entries, 0).issues \cap Last(entries, 1).issues :
          issue[1] \in Last(entries, 0).failed \cap Last(entries, 1).failed

(* _detect_oscillation.                                                      *)
Oscillating(entries) ==
    /\ Len(entries) >= 3
    /\ \E gate \in Last(entries, 2).failed :
          gate \notin Last(entries, 1).failed /\ gate \in Last(entries, 0).failed

Warn(entries) ==
    warnings' = warnings
        \cup (IF Stale(entries) THEN {<<"stale", iteration>>} ELSE {})
        \cup (IF Oscillating(entries) THEN {<<"oscillating", iteration>>} ELSE {})

ValidatorPasses(v) ==
    /\ pc = "validate"
    /\ v.status = "PASS"
    /\ Record(Validator, v)
    /\ \/ NumLenses = 0 /\ Stop("PASS", {}) /\ UNCHANGED <<lens, findings>>
       \/ /\ NumLenses > 0
          /\ pc' = "review"
          /\ lens' = 1
          /\ findings' = {}
          /\ UNCHANGED <<outcome, reported>>
    /\ UNCHANGED <<max, iteration, request, warnings>>

ValidatorFails_JudgeAgain(v) ==
    /\ pc = "validate"
    /\ v.status # "PASS"
    /\ iteration < max
    /\ Record(Validator, v)
    /\ \/ ~v.broken /\ pc' = "validate" /\ UNCHANGED <<request, outcome, reported>>
       \/ v.broken /\ Stop("raised", {}) /\ UNCHANGED request
    /\ UNCHANGED <<max, iteration, lens, findings, warnings>>

ValidatorFails_KeepsOld(v) ==
    /\ pc = "validate"
    /\ v.status # "PASS"
    /\ iteration < max
    /\ Record(Validator, v)
    /\ \/ ~v.broken /\ Warn(ledger') /\ Correct(request \cup Tagged(Validator, v))
       \/ v.broken /\ Stop("raised", {}) /\ UNCHANGED <<request, warnings>>
    /\ UNCHANGED <<max, iteration, lens, findings>>

ValidatorFails(v) ==
    /\ pc = "validate"
    /\ v.status # "PASS"
    /\ iteration < max
    /\ Record(Validator, v)
    /\ \/ ~v.broken /\ Warn(ledger') /\ Correct(Tagged(Validator, v))
       \/ v.broken /\ Stop("raised", {}) /\ UNCHANGED <<request, warnings>>
    /\ UNCHANGED <<max, iteration, lens, findings>>

(* Step 6: the last verdict is returned as it is.                            *)
ValidatorFailsLast(v) ==
    /\ pc = "validate"
    /\ v.status # "PASS"
    /\ iteration = max
    /\ Record(Validator, v)
    /\ Stop(v.status, Tagged(Validator, v))
    /\ UNCHANGED <<max, iteration, request, lens, findings, warnings>>

ValidatorUnusable_TryAgain ==
    /\ pc = "validate"
    /\ pc' = "generate"
    /\ iteration' = iteration - 1
    /\ UNCHANGED <<max, request, ledger, lens, findings, warnings, outcome, reported>>

(* The call fails, or parse_validation_result finds no verdict in the answer. *)
ValidatorUnusable ==
    /\ pc = "validate"
    /\ Stop("raised", {})
    /\ UNCHANGED <<max, iteration, request, ledger, lens, findings, warnings>>

----------------------------------------------------------------------------
(* _run_lens_reviews, and what run does with its result.                      *)

Review_LastOnly(v) ==
    /\ pc = "review"
    /\ lens <= NumLenses
    /\ Record(lens, v)
    /\ findings' = IF v.status = "FAIL" THEN Tagged(lens, v) ELSE {}
    /\ lens' = lens + 1
    /\ UNCHANGED <<max, pc, iteration, request, warnings, outcome, reported>>

Review(v) ==
    /\ pc = "review"
    /\ lens <= NumLenses
    /\ Record(lens, v)
    /\ findings' = findings \cup (IF v.status = "FAIL" THEN Tagged(lens, v) ELSE {})
    /\ lens' = lens + 1
    /\ UNCHANGED <<max, pc, iteration, request, warnings, outcome, reported>>

(* A lens that fails, or whose answer is not a verdict, does not block.       *)
ReviewUnusable ==
    /\ pc = "review"
    /\ lens <= NumLenses
    /\ lens' = lens + 1
    /\ UNCHANGED <<max, pc, iteration, request, ledger, findings, warnings,
                   outcome, reported>>

ReviewsDone ==
    /\ pc = "review"
    /\ lens = NumLenses + 1
    /\ \/ findings = {} /\ Stop("PASS", {}) /\ UNCHANGED request
       \/ findings # {} /\ iteration < max /\ Correct(findings)
       \/ findings # {} /\ iteration = max /\ Stop("FAIL", findings) /\ UNCHANGED request
    /\ UNCHANGED <<max, iteration, ledger, lens, findings, warnings>>

Validate ==
    \/ \E v \in Verdicts : ValidatorPasses(v) \/ ValidatorFails(v) \/ ValidatorFailsLast(v)
    \/ ValidatorUnusable

RunLensReviews ==
    \/ \E v \in LensVerdicts : Review(v)
    \/ ReviewUnusable
    \/ ReviewsDone

Next == Generate \/ NoRound \/ Validate \/ RunLensReviews

Spec == Init /\ [][Next]_vars

(* Calls of a model return or raise: the providers' clients time out.         *)
FairSpec == Spec /\ WF_vars(Next)

----------------------------------------------------------------------------
(* Properties.                                                               *)

Objects(entry) ==
    IF entry.judge = Validator THEN entry.result.status # "PASS"
    ELSE entry.result.status = "FAIL"

(* What was said of the draft of round k.                                     *)
EntriesOf(k) == {i \in DOMAIN ledger : ledger[i].iteration = k}

ObjectionsTo(k) == {i \in EntriesOf(k) : Objects(ledger[i])}

ObjectorsOf(k) == {ledger[i].judge : i \in ObjectionsTo(k)}

IssuesOf(k) == UNION {Tagged(ledger[i].judge, ledger[i].result) : i \in ObjectionsTo(k)}

Passed(k) ==
    \E i \in EntriesOf(k) : ledger[i].judge = Validator /\ ledger[i].result.status = "PASS"

(* The loop converges on a draft the validator passed and no lens objected to *)
(* (convergence.py:96-99, 199-229).                                           *)
AcceptedUnopposed ==
    outcome = "PASS" => Passed(iteration) /\ ObjectorsOf(iteration) = {}

(* A new draft is asked to meet the issues of those who objected to the last  *)
(* one, all of them and no older ones, and there was somebody who objected    *)
(* (convergence.py:214-218, 392-419).                                         *)
CorrectionAnswers ==
    pc = "generate" /\ iteration > 0 =>
        /\ ObjectorsOf(iteration) # {}
        /\ request = IssuesOf(iteration)

(* No judge is asked twice about a draft until it gives in, and a lens is     *)
(* asked only about a draft the validator passed (convergence.py:135-199).    *)
OneVerdictPerDraft ==
    \A i, j \in DOMAIN ledger : ledger[i].iteration = ledger[j].iteration =>
        /\ ledger[i].judge = ledger[j].judge => i = j
        /\ ledger[i].judge # Validator =>
              \E k \in 1..i : /\ ledger[k].iteration = ledger[i].iteration
                              /\ ledger[k].judge = Validator
                              /\ ledger[k].result.status = "PASS"

(* Correction is going round in circles: the validator fails a gate in two    *)
(* rounds running with the same description, or fails it again after a round  *)
(* in which it did not.                                                      *)
Judged(k) == {ledger[i].result : i \in {j \in EntriesOf(k) : ledger[j].judge = Validator}}

Repeats(u, v) == \E issue \in u.issues \cap v.issues : issue[1] \in u.failed \cap v.failed

FlipFlops(u, v, w) == \E gate \in u.failed \cap w.failed : gate \notin v.failed

(* That is warned of while there is budget left, whatever lens verdicts stand *)
(* in the ledger around the rounds in question (convergence.py:231-246,       *)
(* 333-390).                                                                 *)
CirclesWarned ==
    outcome # "raised" => \A k \in 1..iteration :
        \A u \in Judged(k), v \in Judged(k + 1) :
            u.status # "PASS" /\ v.status # "PASS" =>
                /\ k + 1 < max /\ Repeats(u, v) => <<"stale", k + 1>> \in warnings
                /\ \A w \in Judged(k + 2) :
                      k + 2 < max /\ w.status # "PASS" /\ FlipFlops(u, v, w)
                          => <<"oscillating", k + 2>> \in warnings

(* Each draft is judged as it should be and what the verdicts of the rounds     *)
(* say together is heeded (convergence.py:135-246, 333-390).                  *)
HistoryHeeded == OneVerdictPerDraft /\ CirclesWarned

(* The loop ends, whatever the models answer (convergence.py:135).            *)
Terminates == <>(pc = "done")

(* The state of the round in hand: while the reviewers are at it the validator *)
(* has passed the draft and the findings are their objections so far.         *)
RoundInHand ==
    /\ \A i \in DOMAIN ledger :
          /\ ledger[i].iteration <= iteration
          /\ ledger[i].judge # Validator => ledger[i].result \in LensVerdicts
    /\ pc = "validate" => EntriesOf(iteration) = {}
    /\ pc = "review" =>
          /\ Passed(iteration)
          /\ \A i \in ObjectionsTo(iteration) : ledger[i].judge # Validator
          /\ findings = IssuesOf(iteration)

(* The ledger is written in the order of the rounds, and within a round in    *)
(* the order of the judges.                                                  *)
InTurn ==
    /\ \A i, j \in DOMAIN ledger : i <= j => ledger[i].iteration <= ledger[j].iteration
    /\ pc = "review" => \A i \in EntriesOf(iteration) : ledger[i].judge < lens

Standing ==
    [none |-> "open", PASS |-> "accepted", FAIL |-> "rejected", UNKNOWN |-> "rejected",
     truncated |-> "aborted", raised |-> "aborted"]

(* The loop keeps the promise of ReviewRounds, step by step.                  *)
Rounds == INSTANCE ReviewRounds WITH
    budget    <- max,
    drafts    <- iteration,
    objectors <- ObjectorsOf(iteration),
    standing  <- Standing[outcome]

ImplementsRounds == Rounds!Spec
=============================================================================
