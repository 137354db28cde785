-------------------------- MODULE Convergence_proofs --------------------------
(****************************************************************************)
(* Proofs about Convergence, for every budget, every number of lenses and      *)
(* every answer the models may give.                                          *)
(****************************************************************************)
EXTENDS Convergence, TLAPS

LEMMA RecordType ==
    ASSUME TypeOK, NEW j \in Judges, NEW v \in ValidationResult, Record(j, v)
    PROVE  ledger' \in Seq(Entry)
BY ConstantsAssumption DEF TypeOK, Record, Entry

LEMMA TaggedType ==
    ASSUME NEW j \in Judges, NEW v \in ValidationResult
    PROVE  Tagged(j, v) \subseteq Constraint
BY DEF Tagged, Constraint, ValidationResult

LEMMA LensType ==
    /\ Validator \in Judges
    /\ \A l \in 1..NumLenses + 1 : l <= NumLenses =>
          l \in Judges /\ l # Validator /\ l + 1 \in 1..NumLenses + 1
    /\ 1 \in 1..NumLenses + 1
BY ConstantsAssumption DEF Judges, Validator

LEMMA RoundsType ==
    ASSUME TypeOK
    PROVE  max \in Nat /\ iteration \in Nat /\ iteration <= max
BY ConstantsAssumption DEF TypeOK

LEMMA NextType ==
    ASSUME TypeOK, [Next]_vars
    PROVE  TypeOK'
<1> USE DEF Stop, Correct, Outcomes, Status
<1>1. CASE Generate
  <2>1. iteration' \in 0..max /\ iteration' > 0
    BY <1>1, RoundsType DEF Generate
  <2> QED
    BY <1>1, <2>1 DEF Generate, TypeOK
<1>2. CASE NoRound
  BY <1>2 DEF NoRound, TypeOK
<1>3. ASSUME NEW v \in Verdicts, ValidatorPasses(v)
      PROVE  TypeOK'
  <2>1. ledger' \in Seq(Entry)
    BY <1>3, RecordType, LensType, ConstantsAssumption DEF ValidatorPasses
  <2> QED
    BY <1>3, <2>1, LensType DEF ValidatorPasses, TypeOK
<1>4. ASSUME NEW v \in Verdicts, ValidatorFails(v)
      PROVE  TypeOK'
  <2>1. ledger' \in Seq(Entry) /\ Tagged(Validator, v) \subseteq Constraint
    BY <1>4, RecordType, TaggedType, LensType, ConstantsAssumption DEF ValidatorFails
  <2>2. warnings' \subseteq {"stale", "oscillating"} \X Nat
    BY <1>4, RoundsType DEF ValidatorFails, Warn, TypeOK
  <2> QED
    BY <1>4, <2>1, <2>2 DEF ValidatorFails, TypeOK
<1>5. ASSUME NEW v \in Verdicts, ValidatorFailsLast(v)
      PROVE  TypeOK'
  <2>1. ledger' \in Seq(Entry) /\ Tagged(Validator, v) \subseteq Constraint
    BY <1>5, RecordType, TaggedType, LensType, ConstantsAssumption DEF ValidatorFailsLast
  <2>2. v.status \in Status
    BY ConstantsAssumption DEF ValidationResult
  <2> QED
    BY <1>5, <2>1, <2>2 DEF ValidatorFailsLast, TypeOK
<1>6. CASE ValidatorUnusable
  BY <1>6 DEF ValidatorUnusable, TypeOK
<1>7. ASSUME NEW v \in LensVerdicts, Review(v)
      PROVE  TypeOK'
  <2>1. lens \in Judges /\ lens' \in 1..NumLenses + 1
    BY <1>7, LensType DEF Review, TypeOK
  <2>2. ledger' \in Seq(Entry) /\ Tagged(lens, v) \subseteq Constraint
    BY <1>7, <2>1, RecordType, TaggedType, ConstantsAssumption DEF Review
  <2> QED
    BY <1>7, <2>1, <2>2 DEF Review, TypeOK
<1>8. CASE ReviewUnusable
  BY <1>8, LensType DEF ReviewUnusable, TypeOK
<1>9. CASE ReviewsDone
  BY <1>9 DEF ReviewsDone, TypeOK
<1>10. CASE UNCHANGED vars
  BY <1>10 DEF vars, TypeOK
<1> QED
  BY <1>1, <1>2, <1>3, <1>4, <1>5, <1>6, <1>7, <1>8, <1>9, <1>10
  DEF Next, Validate, RunLensReviews

(* The loop stays within its budget (iteration <= max, convergence.py:135;    *)
(* invariants.py:134-146) and its records keep their types, whatever the      *)
(* models answer.                                                            *)
THEOREM TypeCorrect == Spec => []TypeOK
<1>1. Init => TypeOK
  <2>1. \A m \in Budgets : m \in Nat /\ 0 \in 0..m
    BY ConstantsAssumption
  <2> QED
    BY <2>1, LensType DEF Init, TypeOK, Outcomes, Entry
<1> QED
  BY <1>1, NextType, PTL DEF Spec

----------------------------------------------------------------------------
(* The ledger.                                                               *)

TheEntry(j, v) == [iteration |-> iteration, judge |-> j, result |-> v]

(* A verdict is added to the ledger of the round in hand, and only there.     *)
LEMMA Recorded ==
    ASSUME TypeOK, NEW j \in Judges, NEW v \in ValidationResult, Record(j, v),
           UNCHANGED iteration
    PROVE  \E n \in Nat :
              /\ n \notin DOMAIN ledger
              /\ DOMAIN ledger' = DOMAIN ledger \cup {n}
              /\ ledger'[n] = TheEntry(j, v)
              /\ \A i \in DOMAIN ledger : ledger'[i] = ledger[i]
              /\ EntriesOf(iteration)' = EntriesOf(iteration) \cup {n}
<1> DEFINE n == Len(ledger) + 1
<1>1. TheEntry(j, v) \in Entry /\ ledger \in Seq(Entry)
  BY RoundsType DEF TheEntry, Entry, TypeOK
<1>2. /\ n \in Nat /\ n \notin DOMAIN ledger
      /\ DOMAIN ledger' = DOMAIN ledger \cup {n}
      /\ ledger'[n] = TheEntry(j, v)
      /\ \A i \in DOMAIN ledger : ledger'[i] = ledger[i]
  BY <1>1 DEF Record, TheEntry
<1>3. EntriesOf(iteration)' = EntriesOf(iteration) \cup {n}
  BY <1>2 DEF EntriesOf, TheEntry
<1> QED
  BY <1>2, <1>3

LEMMA Objected ==
    ASSUME TypeOK, NEW j \in Judges, NEW v \in ValidationResult, Record(j, v),
           UNCHANGED iteration, Objects(TheEntry(j, v))
    PROVE  /\ \A i \in ObjectionsTo(iteration)' :
                 \/ i \in ObjectionsTo(iteration) /\ ledger'[i] = ledger[i]
                 \/ ledger'[i] = TheEntry(j, v)
           /\ ObjectorsOf(iteration)' = ObjectorsOf(iteration) \cup {j}
           /\ IssuesOf(iteration)' = IssuesOf(iteration) \cup Tagged(j, v)
<1>1. PICK n \in Nat :
              /\ n \notin DOMAIN ledger
              /\ DOMAIN ledger' = DOMAIN ledger \cup {n}
              /\ ledger'[n] = TheEntry(j, v)
              /\ \A i \in DOMAIN ledger : ledger'[i] = ledger[i]
              /\ EntriesOf(iteration)' = EntriesOf(iteration) \cup {n}
  BY Recorded
<1>2. \A i \in EntriesOf(iteration) : i # n /\ ledger'[i] = ledger[i]
  BY <1>1 DEF EntriesOf
<1>3. ObjectionsTo(iteration)' = ObjectionsTo(iteration) \cup {n}
  BY <1>1, <1>2 DEF ObjectionsTo, Objects
<1>4. \A i \in ObjectionsTo(iteration) : i # n /\ ledger'[i] = ledger[i]
  BY <1>2 DEF ObjectionsTo
<1>5. ledger'[n].judge = j /\ ledger'[n].result = v
  BY <1>1 DEF TheEntry
<1> QED
  BY <1>1, <1>3, <1>4, <1>5 DEF ObjectorsOf, IssuesOf

LEMMA NotObjected ==
    ASSUME TypeOK, NEW j \in Judges, NEW v \in ValidationResult, Record(j, v),
           UNCHANGED iteration, ~Objects(TheEntry(j, v))
    PROVE  /\ ObjectionsTo(iteration)' = ObjectionsTo(iteration)
           /\ \A i \in ObjectionsTo(iteration) : ledger'[i] = ledger[i]
           /\ ObjectorsOf(iteration)' = ObjectorsOf(iteration)
           /\ IssuesOf(iteration)' = IssuesOf(iteration)
<1>1. PICK n \in Nat :
              /\ n \notin DOMAIN ledger
              /\ DOMAIN ledger' = DOMAIN ledger \cup {n}
              /\ ledger'[n] = TheEntry(j, v)
              /\ \A i \in DOMAIN ledger : ledger'[i] = ledger[i]
              /\ EntriesOf(iteration)' = EntriesOf(iteration) \cup {n}
  BY Recorded
<1>2. \A i \in EntriesOf(iteration) : i # n /\ ledger'[i] = ledger[i]
  BY <1>1 DEF EntriesOf
<1>3. ObjectionsTo(iteration)' = ObjectionsTo(iteration)
  BY <1>1, <1>2 DEF ObjectionsTo, Objects
<1>4. \A i \in ObjectionsTo(iteration) : ledger'[i] = ledger[i]
  BY <1>2 DEF ObjectionsTo
<1> QED
  BY <1>3, <1>4 DEF ObjectorsOf, IssuesOf

(* What is said of a draft stands for as long as the ledger does.             *)
LEMMA SameLedger ==
    ASSUME UNCHANGED <<ledger, iteration>>
    PROVE  /\ EntriesOf(iteration)' = EntriesOf(iteration)
           /\ ObjectionsTo(iteration)' = ObjectionsTo(iteration)
           /\ ObjectorsOf(iteration)' = ObjectorsOf(iteration)
           /\ IssuesOf(iteration)' = IssuesOf(iteration)
           /\ Passed(iteration)' <=> Passed(iteration)
BY DEF EntriesOf, ObjectionsTo, ObjectorsOf, IssuesOf, Passed, Objects

(* A new round has no verdict yet.                                           *)
LEMMA NewRound ==
    ASSUME TypeOK, RoundInHand, iteration' = iteration + 1, UNCHANGED ledger
    PROVE  EntriesOf(iteration)' = {} /\ ObjectorsOf(iteration)' = {}
<1>1. \A i \in DOMAIN ledger : ledger[i].iteration # iteration + 1
  BY RoundsType DEF RoundInHand, TypeOK, Entry
<1> QED
  BY <1>1 DEF EntriesOf, ObjectorsOf, ObjectionsTo

LEMMA LedgerBound ==
    ASSUME TypeOK, RoundInHand, NEW j \in Judges, NEW v \in ValidationResult,
           Record(j, v), UNCHANGED iteration, j # Validator => v \in LensVerdicts
    PROVE  \A i \in DOMAIN ledger' :
              /\ ledger'[i].iteration <= iteration
              /\ ledger'[i].judge # Validator => ledger'[i].result \in LensVerdicts
<1>1. PICK n \in Nat :
              /\ DOMAIN ledger' = DOMAIN ledger \cup {n}
              /\ ledger'[n] = TheEntry(j, v)
              /\ \A i \in DOMAIN ledger : ledger'[i] = ledger[i]
  BY Recorded
<1>2. ledger'[n].iteration <= iteration /\ ledger'[n].judge = j /\ ledger'[n].result = v
  BY <1>1, RoundsType DEF TheEntry
<1> QED
  BY <1>1, <1>2 DEF RoundInHand

----------------------------------------------------------------------------
(* The round in hand.                                                        *)

LEMMA PassRecorded ==
    ASSUME TypeOK, NEW v \in Verdicts, ValidatorPasses(v)
    PROVE  /\ Passed(iteration)'
           /\ ObjectionsTo(iteration)' = ObjectionsTo(iteration)
           /\ \A i \in ObjectionsTo(iteration) : ledger'[i] = ledger[i]
           /\ ObjectorsOf(iteration)' = ObjectorsOf(iteration)
           /\ IssuesOf(iteration)' = IssuesOf(iteration)
<1>1. /\ Record(Validator, v) /\ UNCHANGED iteration /\ v.status = "PASS"
      /\ Validator \in Judges /\ v \in ValidationResult
  BY LensType, ConstantsAssumption DEF ValidatorPasses
<1>2. PICK n \in Nat :
              /\ ledger'[n] = TheEntry(Validator, v)
              /\ EntriesOf(iteration)' = EntriesOf(iteration) \cup {n}
  BY <1>1, Recorded
<1>3. TheEntry(Validator, v).judge = Validator /\ TheEntry(Validator, v).result = v
  BY DEF TheEntry
<1>4. Passed(iteration)'
  BY <1>1, <1>2, <1>3 DEF Passed
<1>5. ~Objects(TheEntry(Validator, v))
  BY <1>1, <1>3 DEF Objects
<1> QED
  BY <1>1, <1>4, <1>5, NotObjected

LEMMA FailRecorded ==
    ASSUME TypeOK, NEW v \in Verdicts, ValidatorFails(v) \/ ValidatorFailsLast(v)
    PROVE  /\ ObjectorsOf(iteration)' = ObjectorsOf(iteration) \cup {Validator}
           /\ IssuesOf(iteration)' = IssuesOf(iteration) \cup Tagged(Validator, v)
<1>1. /\ Record(Validator, v) /\ UNCHANGED iteration /\ v.status # "PASS"
      /\ Validator \in Judges /\ v \in ValidationResult
  BY LensType, ConstantsAssumption DEF ValidatorFails, ValidatorFailsLast
<1>2. Objects(TheEntry(Validator, v))
  BY <1>1 DEF Objects, TheEntry
<1> QED
  BY <1>1, <1>2, Objected

LEMMA ReviewRound ==
    ASSUME TypeOK, RoundInHand, NEW v \in LensVerdicts, Review(v)
    PROVE  /\ RoundInHand'
           /\ ObjectorsOf(iteration) \subseteq ObjectorsOf(iteration)'
<1>1. /\ Record(lens, v) /\ UNCHANGED <<iteration, pc>> /\ pc = "review"
      /\ lens \in Judges /\ lens # Validator /\ v \in ValidationResult
      /\ findings' = findings \cup (IF v.status = "FAIL" THEN Tagged(lens, v) ELSE {})
  BY LensType, ConstantsAssumption DEF Review, TypeOK
<1>2. /\ Passed(iteration) /\ findings = IssuesOf(iteration)
      /\ \A i \in ObjectionsTo(iteration) : ledger[i].judge # Validator
  BY <1>1 DEF RoundInHand
<1>3. Passed(iteration)'
  BY <1>1, <1>2, Recorded DEF Passed, EntriesOf
<1>4. TheEntry(lens, v).judge = lens /\ TheEntry(lens, v).result = v
  BY DEF TheEntry
<1>5. CASE v.status = "FAIL"
  <2>1. Objects(TheEntry(lens, v))
    BY <1>1, <1>4, <1>5 DEF Objects
  <2> QED
    BY <1>1, <1>2, <1>3, <1>4, <1>5, <2>1, Objected, LedgerBound DEF RoundInHand
<1>6. CASE v.status # "FAIL"
  <2>1. ~Objects(TheEntry(lens, v))
    BY <1>1, <1>4, <1>6 DEF Objects
  <2> QED
    BY <1>1, <1>2, <1>3, <1>4, <1>6, <2>1, NotObjected, LedgerBound DEF RoundInHand
<1> QED
  BY <1>5, <1>6

LEMMA NextRound ==
    ASSUME TypeOK, RoundInHand, [Next]_vars
    PROVE  RoundInHand'
<1>1. CASE Generate
  <2>1. /\ iteration' = iteration + 1 /\ UNCHANGED ledger
        /\ pc' = "validate" \/ pc' = "done"
    BY <1>1 DEF Generate, Stop
  <2> QED
    <3>1. \A i \in DOMAIN ledger : ledger[i].iteration <= iteration + 1
      <4>1. \A i \in DOMAIN ledger : ledger[i] \in Entry
        BY DEF TypeOK
      <4>2. \A i \in DOMAIN ledger : ledger[i].iteration \in Nat
        BY <4>1 DEF Entry
      <4> QED
        BY <4>2, RoundsType DEF RoundInHand
    <3> QED
      BY <2>1, <3>1, NewRound DEF RoundInHand
<1>2. CASE NoRound \/ ValidatorUnusable
  BY <1>2, SameLedger DEF NoRound, ValidatorUnusable, Stop, RoundInHand
<1>3. ASSUME NEW v \in Verdicts, ValidatorPasses(v)
      PROVE  RoundInHand'
  <2>1. /\ Record(Validator, v) /\ UNCHANGED iteration /\ pc = "validate"
        /\ pc' = "done" \/ (pc' = "review" /\ findings' = {})
        /\ Validator \in Judges /\ v \in ValidationResult
    BY <1>3, LensType, ConstantsAssumption DEF ValidatorPasses, Stop
  <2>2. ObjectionsTo(iteration) = {} /\ IssuesOf(iteration) = {}
    BY <2>1 DEF RoundInHand, ObjectionsTo, IssuesOf
  <2> QED
    BY <1>3, <2>1, <2>2, PassRecorded, LedgerBound DEF RoundInHand
<1>4. ASSUME NEW v \in Verdicts, ValidatorFails(v) \/ ValidatorFailsLast(v)
      PROVE  RoundInHand'
  <2>1. /\ Record(Validator, v) /\ UNCHANGED iteration
        /\ pc' = "done" \/ pc' = "generate"
        /\ Validator \in Judges /\ v \in ValidationResult
    BY <1>4, LensType, ConstantsAssumption DEF ValidatorFails, ValidatorFailsLast, Stop, Correct
  <2> QED
    BY <2>1, LedgerBound DEF RoundInHand
<1>5. CASE ReviewUnusable
  BY <1>5, SameLedger DEF ReviewUnusable, RoundInHand
<1>6. CASE ReviewsDone
  <2>1. UNCHANGED <<ledger, iteration>> /\ (pc' = "done" \/ pc' = "generate")
    BY <1>6 DEF ReviewsDone, Stop, Correct
  <2> QED
    BY <2>1, SameLedger DEF RoundInHand
<1>7. CASE UNCHANGED vars
  BY <1>7, SameLedger DEF vars, RoundInHand
<1> QED
  BY <1>1, <1>2, <1>3, <1>4, <1>5, <1>6, <1>7, ReviewRound
  DEF Next, Validate, RunLensReviews

(* While the reviewers are at it the validator has passed the draft, and the  *)
(* findings are exactly their objections so far (convergence.py:265-331).     *)
THEOREM Round == Spec => []RoundInHand
<1>1. Init => RoundInHand
  BY DEF Init, RoundInHand
<1> QED
  BY <1>1, NextRound, TypeCorrect, PTL DEF Spec

----------------------------------------------------------------------------
(* What the rounds lead to.                                                  *)

LEMMA CorrectedStep ==
    ASSUME TypeOK, RoundInHand, CorrectionAnswers, [Next]_vars
    PROVE  CorrectionAnswers'
<1>1. ASSUME NEW v \in Verdicts, ValidatorFails(v)
      PROVE  CorrectionAnswers'
  <2>1. /\ UNCHANGED iteration /\ IssuesOf(iteration) = {}
        /\ pc' = "generate" => request' = Tagged(Validator, v)
    BY <1>1 DEF ValidatorFails, Correct, Stop, RoundInHand, IssuesOf, ObjectionsTo
  <2> QED
    BY <1>1, <2>1, FailRecorded DEF CorrectionAnswers
<1>2. CASE ReviewsDone
  <2>1. /\ UNCHANGED <<ledger, iteration>>
        /\ pc' = "generate" => request' = IssuesOf(iteration) /\ IssuesOf(iteration) # {}
    BY <1>2 DEF ReviewsDone, Correct, Stop, RoundInHand
  <2>2. IssuesOf(iteration) # {} => ObjectorsOf(iteration) # {}
    BY DEF IssuesOf, ObjectorsOf
  <2> QED
    BY <2>1, <2>2, SameLedger DEF CorrectionAnswers
<1>3. CASE UNCHANGED vars
  BY <1>3, SameLedger DEF vars, CorrectionAnswers
<1>4. ASSUME pc' # "generate"
      PROVE  CorrectionAnswers'
  BY <1>4 DEF CorrectionAnswers
<1>5. Next => \/ \E v \in Verdicts : ValidatorFails(v)
              \/ ReviewsDone
              \/ pc' # "generate"
  BY DEF Next, Generate, NoRound, Validate, ValidatorPasses, ValidatorFailsLast,
     ValidatorUnusable, RunLensReviews, Review, ReviewUnusable, Stop
<1> QED
  BY <1>1, <1>2, <1>3, <1>4, <1>5

(* A new draft answers the objections to the last one, all of them and no     *)
(* older ones, and there was an objection (convergence.py:214-218, 392-419).  *)
THEOREM Corrected == Spec => []CorrectionAnswers
<1>1. Init => CorrectionAnswers
  BY DEF Init, CorrectionAnswers
<1> QED
  BY <1>1, CorrectedStep, TypeCorrect, Round, PTL DEF Spec

----------------------------------------------------------------------------
(* The history.                                                              *)

(* What a verdict adds to the ledger, by its place in it.                     *)
LEMMA Appended ==
    ASSUME TypeOK, NEW j \in Judges, NEW v \in ValidationResult, Record(j, v)
    PROVE  /\ Len(ledger) \in Nat /\ DOMAIN ledger = 1..Len(ledger)
           /\ Len(ledger') = Len(ledger) + 1
           /\ DOMAIN ledger' = 1..Len(ledger) + 1
           /\ \A i \in DOMAIN ledger : ledger'[i] = ledger[i]
           /\ ledger'[Len(ledger) + 1].iteration = iteration
           /\ ledger'[Len(ledger) + 1].judge = j
           /\ ledger'[Len(ledger) + 1].result = v
<1>1. TheEntry(j, v) \in Entry /\ ledger \in Seq(Entry)
  BY RoundsType DEF TheEntry, Entry, TypeOK
<1>2. /\ Len(ledger) \in Nat /\ DOMAIN ledger = 1..Len(ledger)
      /\ Len(ledger') = Len(ledger) + 1
      /\ DOMAIN ledger' = 1..Len(ledger) + 1
      /\ \A i \in DOMAIN ledger : ledger'[i] = ledger[i]
      /\ ledger'[Len(ledger) + 1] = TheEntry(j, v)
  BY <1>1 DEF Record, TheEntry
<1> QED
  BY <1>2 DEF TheEntry

LEMMA EntryIs ==
    ASSUME TypeOK, NEW i \in DOMAIN ledger
    PROVE  /\ i \in 1..Len(ledger) /\ Len(ledger) \in Nat
           /\ ledger[i].iteration \in Nat /\ ledger[i].judge \in Judges
           /\ ledger[i].result \in ValidationResult
<1>1. ledger \in Seq(Entry)
  BY DEF TypeOK
<1>2. i \in 1..Len(ledger) /\ Len(ledger) \in Nat /\ ledger[i] \in Entry
  BY <1>1
<1> QED
  BY <1>2 DEF Entry

(* A draft gets its verdicts one by one, each from another judge.             *)
LEMMA TurnKept ==
    ASSUME TypeOK, RoundInHand, InTurn, OneVerdictPerDraft,
           NEW j \in Judges, NEW v \in ValidationResult, Record(j, v),
           UNCHANGED iteration,
           \/ EntriesOf(iteration) = {} /\ j = Validator
           \/ Passed(iteration) /\ j # Validator
              /\ \A i \in EntriesOf(iteration) : ledger[i].judge # j
    PROVE  /\ OneVerdictPerDraft'
           /\ \A i, k \in DOMAIN ledger' :
                 i <= k => ledger'[i].iteration <= ledger'[k].iteration
<1> DEFINE n == Len(ledger) + 1
<1>1. /\ n \in Nat /\ DOMAIN ledger = 1..n - 1 /\ DOMAIN ledger' = 1..n
      /\ \A i \in 1..n - 1 : ledger'[i] = ledger[i]
      /\ ledger'[n].iteration = iteration
      /\ ledger'[n].judge = j
  BY Appended
<1> HIDE DEF n
<1>2. \A i \in 1..n - 1 : ledger[i].iteration \in Nat /\ ledger[i].iteration <= iteration
  BY <1>1, EntryIs DEF RoundInHand
<1>3. \A i, k \in 1..n : i <= k => ledger'[i].iteration <= ledger'[k].iteration
  <2> SUFFICES ASSUME NEW i \in 1..n, NEW k \in 1..n, i <= k
               PROVE  ledger'[i].iteration <= ledger'[k].iteration
    OBVIOUS
  <2>1. CASE k \in 1..n - 1
    <3>1. i \in 1..n - 1
      BY <1>1, <2>1
    <3> QED
      BY <1>1, <2>1, <3>1 DEF InTurn
  <2>2. CASE k = n /\ i \in 1..n - 1
    BY <1>1, <1>2, <2>2
  <2>3. CASE k = n /\ i = n
    BY <1>1, <2>3, RoundsType
  <2> QED
    BY <1>1, <2>1, <2>2, <2>3
<1>4. \A i \in 1..n - 1 : ledger'[i].iteration = iteration => ledger'[i].judge # j
  BY <1>1 DEF EntriesOf
<1>5. ASSUME NEW i \in 1..n, ledger'[i].judge # Validator
      PROVE  \E k \in 1..i : /\ ledger'[k].iteration = ledger'[i].iteration
                             /\ ledger'[k].judge = Validator
                             /\ ledger'[k].result.status = "PASS"
  <2>1. CASE i \in 1..n - 1
    <3>1. PICK k \in 1..i : /\ ledger[k].iteration = ledger[i].iteration
                            /\ ledger[k].judge = Validator
                            /\ ledger[k].result.status = "PASS"
      BY <1>1, <1>5, <2>1 DEF OneVerdictPerDraft
    <3>2. k \in 1..n - 1
      BY <1>1, <2>1
    <3> QED
      BY <1>1, <2>1, <3>1, <3>2
  <2>2. CASE i = n
    <3>1. PICK k \in EntriesOf(iteration) :
             ledger[k].judge = Validator /\ ledger[k].result.status = "PASS"
      BY <1>1, <1>5, <2>2 DEF Passed
    <3>2. k \in 1..n - 1 /\ k \in 1..i /\ ledger[k].iteration = iteration
      BY <1>1, <2>2, <3>1 DEF EntriesOf
    <3> QED
      BY <1>1, <2>2, <3>1, <3>2
  <2> QED
    BY <1>1, <2>1, <2>2
<1>6. ASSUME NEW i \in 1..n, NEW k \in 1..n, ledger'[i].iteration = ledger'[k].iteration,
             ledger'[i].judge = ledger'[k].judge
      PROVE  i = k
  <2>1. CASE i \in 1..n - 1 /\ k \in 1..n - 1
    BY <1>1, <1>6, <2>1 DEF OneVerdictPerDraft
  <2> QED
    BY <1>1, <1>4, <1>6, <2>1
<1> QED
  BY <1>1, <1>3, <1>5, <1>6 DEF OneVerdictPerDraft

LEMMA TurnStep ==
    ASSUME TypeOK, RoundInHand, InTurn, OneVerdictPerDraft, [Next]_vars
    PROVE  InTurn' /\ OneVerdictPerDraft'
<1>1. ASSUME NEW v \in Verdicts,
             ValidatorPasses(v) \/ ValidatorFails(v) \/ ValidatorFailsLast(v)
      PROVE  InTurn' /\ OneVerdictPerDraft'
  <2>1. /\ Record(Validator, v) /\ UNCHANGED iteration
        /\ Validator \in Judges /\ v \in ValidationResult
        /\ EntriesOf(iteration) = {}
        /\ pc' = "review" => lens' = 1
    BY <1>1, LensType, ConstantsAssumption
    DEF ValidatorPasses, ValidatorFails, ValidatorFailsLast, Correct, Stop, RoundInHand
  <2>2. /\ OneVerdictPerDraft'
        /\ \A i, k \in DOMAIN ledger' : i <= k => ledger'[i].iteration <= ledger'[k].iteration
    BY <2>1, TurnKept
  <2>3. \A i \in EntriesOf(iteration)' : ledger'[i].judge = Validator
    BY <2>1, Appended DEF EntriesOf
  <2> QED
    BY <2>1, <2>2, <2>3 DEF InTurn, Validator
<1>2. ASSUME NEW v \in LensVerdicts, Review(v)
      PROVE  InTurn' /\ OneVerdictPerDraft'
  <2>1. /\ Record(lens, v) /\ UNCHANGED <<iteration, pc>> /\ pc = "review"
        /\ lens \in Judges /\ lens # Validator /\ v \in ValidationResult
        /\ lens' = lens + 1 /\ lens \in Nat
    BY <1>2, LensType, ConstantsAssumption DEF Review, TypeOK, Judges
  <2>2. /\ Passed(iteration)
        /\ \A i \in EntriesOf(iteration) :
              i \in DOMAIN ledger /\ ledger[i].judge \in Nat /\ ledger[i].judge < lens
    BY <2>1, EntryIs, ConstantsAssumption DEF RoundInHand, InTurn, EntriesOf, Judges
  <2>3. /\ OneVerdictPerDraft'
        /\ \A i, k \in DOMAIN ledger' : i <= k => ledger'[i].iteration <= ledger'[k].iteration
    BY <2>1, <2>2, TurnKept
  <2>4. ASSUME NEW i \in EntriesOf(iteration)' PROVE ledger'[i].judge < lens'
    <3>1. \/ i \in EntriesOf(iteration) /\ ledger'[i] = ledger[i]
          \/ ledger'[i].judge = lens
      BY <2>1, Appended DEF EntriesOf
    <3> QED
      BY <2>1, <2>2, <3>1
  <2> QED
    BY <2>1, <2>3, <2>4 DEF InTurn
<1>3. ASSUME UNCHANGED ledger, pc' # "review"
      PROVE  InTurn' /\ OneVerdictPerDraft'
  BY <1>3 DEF InTurn, OneVerdictPerDraft
<1>4. Generate \/ NoRound \/ ValidatorUnusable \/ ReviewsDone
      => UNCHANGED ledger /\ pc' # "review"
  BY DEF Generate, NoRound, ValidatorUnusable, ReviewsDone, Correct, Stop
<1>5. CASE ReviewUnusable
  <2>1. /\ UNCHANGED <<ledger, iteration, pc>> /\ pc = "review"
        /\ lens' = lens + 1 /\ lens \in Nat
    BY <1>5, ConstantsAssumption DEF ReviewUnusable, TypeOK
  <2>2. \A i \in EntriesOf(iteration) : ledger[i].judge \in Nat /\ ledger[i].judge < lens
    BY <2>1, EntryIs, ConstantsAssumption DEF InTurn, EntriesOf, Judges
  <2> QED
    BY <2>1, <2>2, SameLedger DEF InTurn, OneVerdictPerDraft
<1>6. CASE UNCHANGED vars
  BY <1>6, SameLedger DEF vars, InTurn, OneVerdictPerDraft
<1> QED
  BY <1>1, <1>2, <1>3, <1>4, <1>5, <1>6 DEF Next, Validate, RunLensReviews

(* A draft the validator failed has no other verdict.                         *)
LEMMA FailedAlone ==
    ASSUME OneVerdictPerDraft,
           NEW i \in DOMAIN ledger, NEW j \in DOMAIN ledger,
           ledger[i].iteration = ledger[j].iteration,
           ledger[i].judge = Validator, ledger[i].result.status # "PASS",
           TypeOK
    PROVE  j = i
<1>1. CASE ledger[j].judge = Validator
  BY <1>1 DEF OneVerdictPerDraft
<1>2. CASE ledger[j].judge # Validator
  <2>1. PICK k \in 1..j : /\ ledger[k].iteration = ledger[j].iteration
                          /\ ledger[k].judge = Validator
                          /\ ledger[k].result.status = "PASS"
    BY <1>2 DEF OneVerdictPerDraft
  <2>2. k \in DOMAIN ledger
    BY <2>1, EntryIs DEF TypeOK
  <2>3. k = i
    BY <2>1, <2>2 DEF OneVerdictPerDraft
  <2> QED
    BY <2>1, <2>3
<1> QED
  BY <1>1, <1>2

(* The verdict on a draft the validator failed is followed in the ledger by   *)
(* those on the next draft.                                                  *)
LEMMA FailedThenNext ==
    ASSUME TypeOK, InTurn, OneVerdictPerDraft,
           NEW i \in DOMAIN ledger, NEW j \in DOMAIN ledger,
           ledger[i].judge = Validator, ledger[i].result.status # "PASS",
           ledger[j].iteration = ledger[i].iteration + 1,
           \A k \in DOMAIN ledger : k < j => ledger[k].iteration <= ledger[i].iteration
    PROVE  j = i + 1
<1>1. /\ i \in 1..Len(ledger) /\ j \in 1..Len(ledger) /\ Len(ledger) \in Nat
      /\ DOMAIN ledger = 1..Len(ledger)
      /\ ledger[i].iteration \in Nat
  BY EntryIs DEF TypeOK
<1>2. i < j
  BY <1>1 DEF InTurn
<1>3. ASSUME i + 1 < j PROVE FALSE
  <2>1. i + 1 \in DOMAIN ledger /\ i + 1 < j
    BY <1>1, <1>2, <1>3
  <2>2. /\ ledger[i].iteration <= ledger[i + 1].iteration
        /\ ledger[i + 1].iteration <= ledger[i].iteration
        /\ ledger[i + 1].iteration \in Nat
    BY <1>1, <2>1, EntryIs DEF InTurn
  <2>3. ledger[i + 1].iteration = ledger[i].iteration
    BY <1>1, <2>2
  <2>4. i + 1 = i
    BY <2>1, <2>3, FailedAlone
  <2> QED
    BY <1>1, <2>4
<1> QED
  BY <1>1, <1>2, <1>3

(* When the validator fails a draft, its verdicts on the drafts just before   *)
(* are the last entries of the ledger, if it failed those too.                *)
LEMMA FailedBefore ==
    ASSUME TypeOK, RoundInHand, InTurn, OneVerdictPerDraft, pc = "validate",
           NEW k \in Nat, k + 1 = iteration,
           NEW v \in Judged(k), v.status # "PASS"
    PROVE  /\ Len(ledger) \in DOMAIN ledger
           /\ ledger[Len(ledger)].iteration = k
           /\ ledger[Len(ledger)].judge = Validator
           /\ ledger[Len(ledger)].result = v
<1>1. PICK i \in DOMAIN ledger :
         ledger[i].iteration = k /\ ledger[i].judge = Validator /\ ledger[i].result = v
  BY DEF Judged, EntriesOf
<1>2. /\ DOMAIN ledger = 1..Len(ledger) /\ Len(ledger) \in Nat
      /\ i \in 1..Len(ledger)
  BY EntryIs DEF TypeOK
<1> DEFINE n == Len(ledger)
<1>3. n \in DOMAIN ledger /\ i <= n
  BY <1>2
<1>4. ledger[n].iteration = k
  <2>1. /\ ledger[n].iteration \in Nat /\ ledger[n].iteration <= iteration
        /\ k <= ledger[n].iteration
    BY <1>1, <1>3, EntryIs DEF RoundInHand, InTurn
  <2>2. ledger[n].iteration # iteration
    BY <1>3 DEF RoundInHand, EntriesOf
  <2> QED
    BY <2>1, <2>2, RoundsType
<1>5. n = i
  BY <1>1, <1>3, <1>4, FailedAlone
<1> QED
  BY <1>1, <1>3, <1>5

LEMMA FailedTwoBefore ==
    ASSUME TypeOK, RoundInHand, InTurn, OneVerdictPerDraft, pc = "validate",
           NEW k \in Nat, k + 2 = iteration,
           NEW u \in Judged(k), u.status # "PASS",
           NEW v \in Judged(k + 1), v.status # "PASS"
    PROVE  /\ Len(ledger) \in Nat /\ Len(ledger) >= 2
           /\ ledger[Len(ledger)].result = v
           /\ ledger[Len(ledger) - 1].result = u
<1> DEFINE n == Len(ledger)
<1>1. /\ n \in DOMAIN ledger /\ ledger[n].iteration = k + 1
      /\ ledger[n].judge = Validator /\ ledger[n].result = v
  BY FailedBefore
<1>2. PICK i \in DOMAIN ledger :
         ledger[i].iteration = k /\ ledger[i].judge = Validator /\ ledger[i].result = u
  BY DEF Judged, EntriesOf
<1>3. \A j \in DOMAIN ledger : j < n => ledger[j].iteration <= k
  <2> SUFFICES ASSUME NEW j \in DOMAIN ledger, j < n PROVE ledger[j].iteration <= k
    OBVIOUS
  <2>1. ledger[j].iteration \in Nat /\ ledger[j].iteration <= k + 1
    BY <1>1, EntryIs DEF InTurn
  <2>2. ledger[j].iteration # k + 1
    BY <1>1, FailedAlone
  <2> QED
    BY <2>1, <2>2
<1>4. n = i + 1
  BY <1>1, <1>2, <1>3, FailedThenNext
<1> QED
  BY <1>1, <1>2, <1>4, EntryIs

(* What the validator has said of the drafts, after a verdict of its own or a *)
(* lens's.                                                                   *)
LEMMA JudgedAfter ==
    ASSUME TypeOK, NEW j \in Judges, NEW v \in ValidationResult, Record(j, v),
           UNCHANGED iteration
    PROVE  \A k : \A u \in Judged(k)' :
              u \in Judged(k) \/ (k = iteration /\ j = Validator /\ u = v)
<1> SUFFICES ASSUME NEW k, NEW u \in Judged(k)'
             PROVE  u \in Judged(k) \/ (k = iteration /\ j = Validator /\ u = v)
  OBVIOUS
<1>1. PICK i \in DOMAIN ledger' :
         ledger'[i].iteration = k /\ ledger'[i].judge = Validator /\ ledger'[i].result = u
  BY DEF Judged, EntriesOf
<1>2. CASE i \in DOMAIN ledger
  BY <1>1, <1>2, Appended DEF Judged, EntriesOf
<1>3. CASE i = Len(ledger) + 1
  BY <1>1, <1>3, Appended
<1> QED
  BY <1>1, <1>2, <1>3, Appended

LEMMA NotJudgedYet ==
    ASSUME TypeOK, RoundInHand, NEW k \in Nat
    PROVE  /\ k > iteration => Judged(k) = {}
           /\ pc = "validate" /\ k = iteration => Judged(k) = {}
BY RoundsType DEF RoundInHand, Judged, EntriesOf

LEMMA CirclesStep ==
    ASSUME TypeOK, RoundInHand, InTurn, OneVerdictPerDraft, CirclesWarned, [Next]_vars
    PROVE  CirclesWarned'
<1>0. /\ iteration \in Nat /\ max \in Nat /\ iteration <= max
      /\ max' = max
  BY RoundsType
  DEF Next, Generate, NoRound, Validate, ValidatorPasses, ValidatorFails,
      ValidatorFailsLast, ValidatorUnusable, RunLensReviews, Review, ReviewUnusable,
      ReviewsDone, vars
<1>1. ASSUME NEW v \in Verdicts, ValidatorFails(v)
      PROVE  CirclesWarned'
  <2>1. CASE v.broken
    BY <1>1, <2>1 DEF ValidatorFails, Stop, CirclesWarned
  <2>2. CASE ~v.broken
    <3>1. /\ Record(Validator, v) /\ UNCHANGED <<iteration, outcome>> /\ pc = "validate"
          /\ Validator \in Judges /\ v \in ValidationResult
          /\ warnings \subseteq warnings'
          /\ Stale(ledger') => <<"stale", iteration>> \in warnings'
          /\ Oscillating(ledger') => <<"oscillating", iteration>> \in warnings'
          /\ outcome # "raised"
      BY <1>1, <2>2, LensType, ConstantsAssumption DEF ValidatorFails, Warn, Correct, TypeOK
    <3>2. /\ Len(ledger) \in Nat /\ Len(ledger') = Len(ledger) + 1
          /\ DOMAIN ledger = 1..Len(ledger)
          /\ \A i \in DOMAIN ledger : ledger'[i] = ledger[i]
          /\ ledger'[Len(ledger')].result = v
      BY <3>1, Appended
    <3>3. ASSUME NEW k \in 1..iteration, NEW u \in Judged(k)', NEW w \in Judged(k + 1)',
                 u.status # "PASS", w.status # "PASS", k + 1 < max, Repeats(u, w)
          PROVE  <<"stale", k + 1>> \in warnings'
      <4>1. CASE w \in Judged(k + 1)
        <5>1. u \in Judged(k)
          BY <1>0, <3>1, <3>3, <4>1, JudgedAfter, NotJudgedYet
        <5> QED
          BY <1>0, <3>1, <3>3, <4>1, <5>1 DEF CirclesWarned
      <4>2. CASE k + 1 = iteration /\ w = v
        <5>1. u \in Judged(k) /\ k \in Nat
          BY <1>0, <3>1, <3>3, <4>2, JudgedAfter
        <5>2. Len(ledger) \in DOMAIN ledger /\ ledger[Len(ledger)].result = u
          BY <3>1, <3>3, <4>2, <5>1, FailedBefore
        <5>3. /\ Last(ledger', 0) = v /\ Last(ledger', 1) = u /\ Len(ledger') >= 2
          BY <3>2, <5>2 DEF Last
        <5>4. Stale(ledger')
          BY <3>3, <4>2, <5>3 DEF Stale, Repeats
        <5> QED
          BY <3>1, <4>2, <5>4
      <4> QED
        BY <3>1, <3>3, <4>1, <4>2, JudgedAfter
    <3>4. ASSUME NEW k \in 1..iteration, NEW u \in Judged(k)', NEW w \in Judged(k + 1)',
                 u.status # "PASS", w.status # "PASS",
                 NEW x \in Judged(k + 2)', k + 2 < max, x.status # "PASS",
                 FlipFlops(u, w, x)
          PROVE  <<"oscillating", k + 2>> \in warnings'
      <4>1. CASE x \in Judged(k + 2)
        <5>1. k + 2 <= iteration /\ k + 2 # iteration
          BY <1>0, <3>1, <4>1, NotJudgedYet
        <5>2. u \in Judged(k) /\ w \in Judged(k + 1)
          BY <1>0, <3>1, <3>4, <5>1, JudgedAfter
        <5> QED
          BY <1>0, <3>1, <3>4, <4>1, <5>2 DEF CirclesWarned
      <4>2. CASE k + 2 = iteration /\ x = v
        <5>1. u \in Judged(k) /\ w \in Judged(k + 1) /\ k \in Nat
          BY <1>0, <3>1, <3>4, <4>2, JudgedAfter
        <5>2. /\ Len(ledger) >= 2 /\ ledger[Len(ledger)].result = w
              /\ ledger[Len(ledger) - 1].result = u
          BY <3>1, <3>4, <4>2, <5>1, FailedTwoBefore
        <5>3. /\ Last(ledger', 0) = v /\ Last(ledger', 1) = w /\ Last(ledger', 2) = u
              /\ Len(ledger') >= 3
          BY <3>2, <5>2 DEF Last
        <5>4. Oscillating(ledger')
          BY <3>4, <4>2, <5>3 DEF Oscillating, FlipFlops
        <5> QED
          BY <3>1, <4>2, <5>4
      <4> QED
        BY <3>1, <3>4, <4>1, <4>2, JudgedAfter
    <3> QED
      BY <1>0, <3>1, <3>3, <3>4 DEF CirclesWarned
  <2> QED
    BY <2>1, <2>2
<1>2. ASSUME NEW j \in Judges, NEW v \in ValidationResult, Record(j, v),
             UNCHANGED <<iteration, warnings>>, outcome # "raised",
             j = Validator => iteration = max \/ v.status = "PASS"
      PROVE  CirclesWarned'
  <2>1. ASSUME NEW k \in 1..iteration, NEW u \in Judged(k)', NEW w \in Judged(k + 1)',
               u.status # "PASS", w.status # "PASS", k + 1 < max, Repeats(u, w)
        PROVE  <<"stale", k + 1>> \in warnings
    <3>1. u \in Judged(k) /\ w \in Judged(k + 1)
      BY <1>0, <1>2, <2>1, JudgedAfter
    <3> QED
      BY <1>2, <2>1, <3>1 DEF CirclesWarned
  <2>2. ASSUME NEW k \in 1..iteration, NEW u \in Judged(k)', NEW w \in Judged(k + 1)',
               u.status # "PASS", w.status # "PASS",
               NEW x \in Judged(k + 2)', k + 2 < max, x.status # "PASS",
               FlipFlops(u, w, x)
        PROVE  <<"oscillating", k + 2>> \in warnings
    <3>1. u \in Judged(k) /\ w \in Judged(k + 1) /\ x \in Judged(k + 2)
      BY <1>0, <1>2, <2>2, JudgedAfter
    <3> QED
      BY <1>2, <2>2, <3>1 DEF CirclesWarned
  <2> QED
    BY <1>0, <1>2, <2>1, <2>2 DEF CirclesWarned
<1>3. ASSUME NEW v \in Verdicts, ValidatorPasses(v) \/ ValidatorFailsLast(v)
      PROVE  CirclesWarned'
  <2>1. /\ Record(Validator, v) /\ UNCHANGED <<iteration, warnings>> /\ outcome # "raised"
        /\ iteration = max \/ v.status = "PASS"
        /\ Validator \in Judges /\ v \in ValidationResult
    BY <1>3, LensType, ConstantsAssumption DEF ValidatorPasses, ValidatorFailsLast, TypeOK
  <2> QED
    BY <1>2, <2>1
<1>4. ASSUME NEW v \in LensVerdicts, Review(v)
      PROVE  CirclesWarned'
  <2>1. /\ Record(lens, v) /\ UNCHANGED <<iteration, warnings>> /\ outcome # "raised"
        /\ lens \in Judges /\ lens # Validator /\ v \in ValidationResult
    BY <1>4, LensType, ConstantsAssumption DEF Review, TypeOK
  <2> QED
    BY <1>2, <2>1
<1>5. ASSUME UNCHANGED <<ledger, warnings, max>>, outcome' = "raised" \/ outcome # "raised",
             iteration' \in {iteration, iteration + 1}
      PROVE  CirclesWarned'
  <2> SUFFICES ASSUME outcome' # "raised" PROVE CirclesWarned'
    BY DEF CirclesWarned
  <2>1. \A k : Judged(k)' = Judged(k)
    BY <1>5 DEF Judged, EntriesOf
  <2>2. \A k \in 1..iteration' : Judged(k) # {} => k \in 1..iteration
    BY <1>0, <1>5, NotJudgedYet
  <2> QED
    BY <1>5, <2>1, <2>2 DEF CirclesWarned
<1>6. Generate \/ NoRound \/ ValidatorUnusable \/ ReviewUnusable \/ ReviewsDone
      => /\ UNCHANGED <<ledger, warnings, max>>
         /\ outcome # "raised" /\ iteration' \in {iteration, iteration + 1}
  BY DEF Generate, NoRound, ValidatorUnusable, ReviewUnusable, ReviewsDone, TypeOK
<1>7. UNCHANGED vars => /\ UNCHANGED <<ledger, warnings, max>> /\ outcome' = outcome
                        /\ iteration' = iteration
  BY DEF vars
<1> QED
  BY <1>1, <1>3, <1>4, <1>5, <1>6, <1>7 DEF Next, Validate, RunLensReviews

(* No judge is asked twice about a draft, a lens is asked only about one the  *)
(* validator passed, and while there is budget left a correction that goes    *)
(* round in circles is warned of, whatever stands in the ledger around the    *)
(* rounds in question (convergence.py:135-246, 333-390).                      *)
THEOREM Heeded == Spec => []HistoryHeeded
<1>1. Init => InTurn /\ OneVerdictPerDraft /\ CirclesWarned
  BY DEF Init, InTurn, OneVerdictPerDraft, CirclesWarned
<1>2. /\ TypeOK /\ RoundInHand /\ InTurn /\ OneVerdictPerDraft /\ CirclesWarned
      /\ [Next]_vars
      => InTurn' /\ OneVerdictPerDraft' /\ CirclesWarned'
  BY TurnStep, CirclesStep
<1> QED
  BY <1>1, <1>2, TypeCorrect, Round, PTL DEF Spec, HistoryHeeded

----------------------------------------------------------------------------
(* Acceptance.                                                               *)

(* A lens that fails a draft lists an issue that can be read.                 *)
LensesExplain == \A v \in LensVerdicts : v.status = "FAIL" => v.issues # {}

LEMMA NoFindings ==
    ASSUME LensesExplain, TypeOK, RoundInHand, pc = "review", findings = {}
    PROVE  Passed(iteration) /\ ObjectorsOf(iteration) = {}
<1>1. SUFFICES ASSUME NEW i \in ObjectionsTo(iteration) PROVE FALSE
  BY DEF RoundInHand, ObjectorsOf
<1>2. /\ i \in DOMAIN ledger /\ Objects(ledger[i]) /\ ledger[i].judge # Validator
      /\ ledger[i].result \in LensVerdicts
  BY DEF RoundInHand, ObjectionsTo, EntriesOf
<1>3. ledger[i].result.issues # {}
  BY <1>2 DEF Objects, LensesExplain
<1>4. Tagged(ledger[i].judge, ledger[i].result) # {}
  <2>1. PICK issue \in ledger[i].result.issues : TRUE
    BY <1>3
  <2>2. <<ledger[i].judge, issue>> \in {ledger[i].judge} \X ledger[i].result.issues
    BY <2>1
  <2> QED
    BY <2>2 DEF Tagged
<1>5. Tagged(ledger[i].judge, ledger[i].result) \subseteq IssuesOf(iteration)
  BY DEF IssuesOf
<1>6. IssuesOf(iteration) = {}
  BY DEF RoundInHand
<1> QED
  BY <1>4, <1>5, <1>6

LEMMA AcceptedStep ==
    ASSUME LensesExplain, TypeOK, RoundInHand, AcceptedUnopposed, [Next]_vars
    PROVE  AcceptedUnopposed'
<1>1. ASSUME NEW v \in Verdicts, ValidatorPasses(v)
      PROVE  AcceptedUnopposed'
  <2>1. UNCHANGED iteration /\ ObjectorsOf(iteration) = {}
    BY <1>1 DEF ValidatorPasses, RoundInHand, ObjectorsOf, ObjectionsTo
  <2> QED
    BY <1>1, <2>1, PassRecorded DEF AcceptedUnopposed
<1>2. CASE ReviewsDone
  <2>1. UNCHANGED <<ledger, iteration>> /\ pc = "review"
        /\ (outcome' = "PASS" => outcome = "PASS" \/ findings = {})
    BY <1>2 DEF ReviewsDone, Correct, Stop
  <2> QED
    BY <2>1, NoFindings, SameLedger DEF AcceptedUnopposed
<1>3. CASE UNCHANGED vars
  BY <1>3, SameLedger DEF vars, AcceptedUnopposed
<1>4. ASSUME outcome' # "PASS"
      PROVE  AcceptedUnopposed'
  BY <1>4 DEF AcceptedUnopposed
<1>5. Next => \/ \E v \in Verdicts : ValidatorPasses(v)
              \/ ReviewsDone
              \/ outcome' # "PASS"
  <2>1. Next => pc # "done"
    BY DEF Next, Generate, NoRound, Validate, ValidatorPasses, ValidatorFails,
       ValidatorFailsLast, ValidatorUnusable, RunLensReviews, Review, ReviewUnusable,
       ReviewsDone
  <2>2. pc # "done" => outcome = "none"
    BY DEF TypeOK
  <2> QED
    BY <2>1, <2>2 DEF Next, Generate, NoRound, Validate, ValidatorFails,
       ValidatorFailsLast, Correct, ValidatorUnusable, RunLensReviews, Review,
       ReviewUnusable, Stop
<1> QED
  BY <1>1, <1>2, <1>3, <1>4, <1>5

(* If a lens that fails a draft always says why, the loop converges only on a *)
(* draft the validator passed and no lens failed (convergence.py:96-99,       *)
(* 199-229).                                                                 *)
THEOREM Accepted ==
    ASSUME LensesExplain
    PROVE  Spec => []AcceptedUnopposed
<1>1. Init => AcceptedUnopposed
  BY DEF Init, AcceptedUnopposed
<1>2. LensesExplain /\ TypeOK /\ RoundInHand /\ AcceptedUnopposed /\ [Next]_vars
      => AcceptedUnopposed'
  BY AcceptedStep
<1>3. LensesExplain
  OBVIOUS
<1> QED
  BY <1>1, <1>2, <1>3, TypeCorrect, Round, PTL DEF Spec

----------------------------------------------------------------------------
(* The promise to the caller.                                                *)

LEMMA StandingIs ==
    /\ Standing["none"] = "open" /\ Standing["PASS"] = "accepted"
    /\ Standing["FAIL"] = "rejected" /\ Standing["UNKNOWN"] = "rejected"
    /\ Standing["truncated"] = "aborted" /\ Standing["raised"] = "aborted"
BY DEF Standing

LEMMA MappedInit ==
    Init => Rounds!Init
<1> SUFFICES ASSUME Init PROVE Rounds!Init
  OBVIOUS
<1>1. max \in Nat /\ iteration = 0 /\ Standing[outcome] = "open"
  BY ConstantsAssumption, StandingIs DEF Init
<1>2. ObjectorsOf(iteration) = {}
  BY DEF Init, ObjectorsOf, ObjectionsTo, EntriesOf
<1> QED
  BY <1>1, <1>2 DEF Rounds!Init

LEMMA MappedNext ==
    ASSUME LensesExplain, TypeOK, RoundInHand, CorrectionAnswers, [Next]_vars
    PROVE  [Rounds!Next]_Rounds!vars
<1> USE DEF Rounds!Next, Rounds!vars
<1>1. Next => pc # "done" /\ Standing[outcome] = "open"
  <2>1. Next => pc # "done"
    BY DEF Next, Generate, NoRound, Validate, ValidatorPasses, ValidatorFails,
       ValidatorFailsLast, ValidatorUnusable, RunLensReviews, Review, ReviewUnusable,
       ReviewsDone
  <2> QED
    BY <2>1, StandingIs DEF TypeOK
<1>2. max' = max
  BY DEF Next, Generate, NoRound, Validate, ValidatorPasses, ValidatorFails,
     ValidatorFailsLast, ValidatorUnusable, RunLensReviews, Review, ReviewUnusable,
     ReviewsDone, vars
<1>3. CASE Generate
  <2>1. /\ iteration < max /\ iteration' = iteration + 1 /\ iteration' <= max
        /\ ObjectorsOf(iteration)' = {}
        /\ iteration = 0 \/ ObjectorsOf(iteration) # {}
    BY <1>3, NewRound, RoundsType DEF Generate, CorrectionAnswers
  <2>2. \/ outcome' = outcome
        \/ Standing[outcome'] = "aborted"
    BY <1>3, StandingIs DEF Generate, Stop
  <2>3. ASSUME outcome' = outcome PROVE Rounds!Draft
    BY <1>2, <2>1, <2>3 DEF Rounds!Draft
  <2>4. ASSUME Standing[outcome'] = "aborted" PROVE Rounds!Abort
    BY <1>2, <2>1, <2>4 DEF Rounds!Abort
  <2> QED
    BY <1>1, <1>3, <2>2, <2>3, <2>4 DEF Next
<1>4. CASE NoRound \/ ValidatorUnusable
  <2>1. iteration' = iteration /\ iteration <= max /\ Standing[outcome'] = "aborted"
    BY <1>4, StandingIs, RoundsType DEF NoRound, ValidatorUnusable, Stop
  <2>2. Rounds!Abort
    BY <1>2, <2>1 DEF Rounds!Abort
  <2> QED
    BY <1>1, <1>4, <2>2 DEF Next, Validate
<1>5. ASSUME NEW v \in Verdicts, ValidatorPasses(v)
      PROVE  [Rounds!Next]_Rounds!vars
  <2>1. /\ iteration' = iteration /\ iteration > 0
        /\ ObjectorsOf(iteration) = {} /\ ObjectorsOf(iteration)' = {}
    BY <1>5, PassRecorded DEF ValidatorPasses, TypeOK, RoundInHand, ObjectorsOf, ObjectionsTo
  <2>2. outcome' = outcome \/ Standing[outcome'] = "accepted"
    BY <1>5, StandingIs DEF ValidatorPasses, Stop
  <2>3. Standing[outcome'] = "accepted" => Rounds!Accept
    BY <1>2, <2>1 DEF Rounds!Accept
  <2> QED
    BY <1>1, <1>2, <1>5, <2>1, <2>2, <2>3 DEF Next, Validate
<1>6. ASSUME NEW v \in Verdicts, ValidatorFails(v)
      PROVE  [Rounds!Next]_Rounds!vars
  <2>1. /\ iteration' = iteration /\ iteration > 0 /\ iteration <= max
        /\ ObjectorsOf(iteration)' = ObjectorsOf(iteration) \cup {Validator}
    BY <1>6, FailRecorded, RoundsType DEF ValidatorFails, TypeOK
  <2>2. outcome' = outcome \/ Standing[outcome'] = "aborted"
    BY <1>6, StandingIs DEF ValidatorFails, Correct, Stop
  <2>3. outcome' = outcome => Rounds!Object
    BY <1>2, <2>1 DEF Rounds!Object
  <2>4. Standing[outcome'] = "aborted" => Rounds!Abort
    BY <1>2, <2>1 DEF Rounds!Abort
  <2> QED
    BY <1>1, <1>6, <2>2, <2>3, <2>4 DEF Next, Validate
<1>7. ASSUME NEW v \in Verdicts, ValidatorFailsLast(v)
      PROVE  [Rounds!Next]_Rounds!vars
  <2>1. /\ iteration' = iteration /\ iteration > 0 /\ iteration = max
        /\ ObjectorsOf(iteration)' = ObjectorsOf(iteration) \cup {Validator}
    BY <1>7, FailRecorded DEF ValidatorFailsLast, TypeOK
  <2>2. v.status \in Status
    BY ConstantsAssumption DEF ValidationResult
  <2>3. Standing[outcome'] = "rejected"
    BY <1>7, <2>2, StandingIs DEF ValidatorFailsLast, Stop, Status
  <2>4. Rounds!Reject
    BY <1>2, <2>1, <2>3 DEF Rounds!Reject
  <2> QED
    BY <1>1, <1>7, <2>4 DEF Next, Validate
<1>8. ASSUME NEW v \in LensVerdicts, Review(v)
      PROVE  [Rounds!Next]_Rounds!vars
  <2>1. /\ iteration' = iteration /\ iteration > 0 /\ outcome' = outcome
        /\ ObjectorsOf(iteration) \subseteq ObjectorsOf(iteration)'
    BY <1>8, ReviewRound DEF Review, TypeOK
  <2>2. Rounds!Object
    BY <1>2, <2>1 DEF Rounds!Object
  <2> QED
    BY <1>1, <1>8, <2>2 DEF Next, RunLensReviews
<1>9. CASE ReviewUnusable \/ UNCHANGED vars
  BY <1>9, SameLedger DEF ReviewUnusable, vars
<1>10. CASE ReviewsDone
  <2>1. /\ pc = "review" /\ iteration' = iteration /\ iteration > 0
        /\ ObjectorsOf(iteration)' = ObjectorsOf(iteration)
    BY <1>10, SameLedger DEF ReviewsDone, TypeOK
  <2>2. \/ outcome' = outcome
        \/ Standing[outcome'] = "accepted" /\ findings = {}
        \/ Standing[outcome'] = "rejected" /\ findings # {} /\ iteration = max
    BY <1>10, StandingIs DEF ReviewsDone, Correct, Stop
  <2>3. findings = {} => ObjectorsOf(iteration) = {}
    BY <2>1, NoFindings
  <2>4. findings # {} => ObjectorsOf(iteration) # {}
    BY <2>1 DEF RoundInHand, IssuesOf, ObjectorsOf
  <2>5. Standing[outcome'] = "accepted" /\ findings = {} => Rounds!Accept
    BY <1>2, <2>1, <2>3 DEF Rounds!Accept
  <2>6. Standing[outcome'] = "rejected" /\ findings # {} /\ iteration = max
        => Rounds!Reject
    BY <1>2, <2>1, <2>4 DEF Rounds!Reject
  <2> QED
    BY <1>1, <1>2, <1>10, <2>1, <2>2, <2>5, <2>6 DEF Next, RunLensReviews
<1> QED
  BY <1>3, <1>4, <1>5, <1>6, <1>7, <1>8, <1>9, <1>10 DEF Next, Validate, RunLensReviews

(* If a lens that fails a draft always says why, every step of the loop is a  *)
(* step of ReviewRounds: at most budget drafts, each after somebody objected  *)
(* to the last, and only an unopposed draft accepted (convergence.py:114-263). *)
THEOREM Implements ==
    ASSUME LensesExplain
    PROVE  Spec => ImplementsRounds
<1>1. LensesExplain /\ TypeOK /\ RoundInHand /\ CorrectionAnswers /\ [Next]_vars
      => [Rounds!Next]_Rounds!vars
  BY MappedNext
<1>2. LensesExplain
  OBVIOUS
<1> QED
  BY <1>1, <1>2, MappedInit, TypeCorrect, Round, Corrected, PTL
  DEF Spec, ImplementsRounds, Rounds!Spec
=============================================================================
