------------------------- MODULE WDDExecution_proofs -------------------------
(****************************************************************************)
(* Proofs about WDDExecution: types, the order a run keeps between threads,   *)
(* phases and groups, what its counts and gates attest to, and what the       *)
(* ledger on disk is worth to the run that resumes.                          *)
(****************************************************************************)
EXTENDS WDDExecution, FiniteSetTheorems, TLAPS

(* The program's operators on the ledger.                                     *)

LEMMA BlankType == Blank \in Ledger /\ NoSave \in Save
BY ConstantsAssumption DEF Blank, Ledger, NoSave, Save, Row

LEMMA BlankRows ==
    ASSUME NEW i \in Items, NEW p \in Phases
    PROVE  ~Complete(Blank, i, p)
BY DEF Blank, Complete

LEMMA LedgerParts ==
    ASSUME NEW l \in Ledger
    PROVE  /\ \A i \in Items, p \in Phases : l.rows[i][p] \in Row
           /\ \A g \in Groups : l.gates[g] \in {"none", "passed", "failed"}
BY DEF Ledger

(* A change of the ledger, its text and its save.                              *)
LEMMA ChangeIs ==
    ASSUME TypeOK, NEW t \in Threads, NEW l \in Ledger, Change(t, l)
    PROVE  /\ mem' = l /\ save' \in [Threads -> Save] /\ save'[t].text = mem' /\ ~Saved(t)'
           /\ save'[t].step = "truncate"
           /\ \A u \in Threads \ {t} : save'[u] = save[u]
<1>1. [step |-> "truncate", text |-> l] \in Save
  BY DEF Save
<1> QED
  BY <1>1 DEF Change, Saved, TypeOK

LEMMA RecordIs ==
    ASSUME TypeOK, NEW t \in Threads, NEW i \in Items, NEW p \in Phases, NEW row \in Row,
           Record(t, i, p, row)
    PROVE  /\ mem' \in Ledger /\ mem'.gates = mem.gates
           /\ \A j \in Items, q \in Phases : mem'.rows[j][q] =
                  IF j = i /\ q = p THEN row ELSE mem.rows[j][q]
           /\ save' \in [Threads -> Save] /\ save'[t].text = mem' /\ ~Saved(t)'
           /\ save'[t].step = "truncate"
           /\ \A u \in Threads \ {t} : save'[u] = save[u]
<1> DEFINE l == [mem EXCEPT !.rows[i][p] = row]
<1>1. mem \in Ledger
  BY DEF TypeOK
<1>2. /\ l \in Ledger /\ l.gates = mem.gates
      /\ \A j \in Items, q \in Phases :
             l.rows[j][q] = IF j = i /\ q = p THEN row ELSE mem.rows[j][q]
  BY <1>1 DEF Ledger
<1>3. Change(t, l)
  BY DEF Record
<1> QED
  BY <1>2, <1>3, ChangeIs

LEMMA MoveIs ==
    ASSUME TypeOK, NEW i \in Items, NEW place \in Places, NEW p \in Phases, Move(i, place, p)
    PROVE  /\ worker' \in [Items -> [at : Places, phase : Phases]]
           /\ worker'[i].at = place /\ worker'[i].phase = p
           /\ \A j \in Items \ {i} : worker'[j] = worker[j]
BY DEF Move, TypeOK

LEMMA TruncateIs ==
    ASSUME TypeOK, NEW t \in Threads, Truncate(t)
    PROVE  /\ save' \in [Threads -> Save]
           /\ save'[t].step = "write" /\ save'[t].text = save[t].text
           /\ \A u \in Threads \ {t} : save'[u] = save[u]
           /\ \A u \in Threads : Saved(u)' = Saved(u)
BY DEF Truncate, TypeOK, Save, Saved

LEMMA WriteIs ==
    ASSUME TypeOK, NEW t \in Threads, WriteText(t)
    PROVE  /\ save' \in [Threads -> Save] /\ save'[t] = NoSave /\ Saved(t)' /\ ~Saved(t)
           /\ \A u \in Threads \ {t} : save'[u] = save[u]
           /\ disk' = save[t].text
BY BlankType DEF WriteText, TypeOK, NoSave, Saved

LEMMA LoadedIs ==
    ASSUME NEW l \in Ledger, NEW m \in Loaded(l)
    PROVE  /\ m \in Ledger
           /\ \A i \in Items, p \in Phases : Complete(m, i, p) <=> Complete(l, i, p)
           /\ Items = {} => m = l
<1> DEFINE failed == {x \in Items \X Phases : l.rows[x[1]][x[2]] = "failed"}
<1>1. PICK dropped \in SUBSET failed :
         m = [l EXCEPT !.rows = [i \in Items |-> [p \in Phases |->
                IF <<i, p>> \in dropped THEN "none" ELSE l.rows[i][p]]]]
  BY DEF Loaded
<1>2. \A i \in Items, p \in Phases : <<i, p>> \in dropped => l.rows[i][p] = "failed"
  BY <1>1
<1>3. m \in Ledger /\ \A i \in Items, p \in Phases :
         m.rows[i][p] = IF <<i, p>> \in dropped THEN "none" ELSE l.rows[i][p]
  <2> DEFINE R == [i \in Items |-> [p \in Phases |->
                     IF <<i, p>> \in dropped THEN "none" ELSE l.rows[i][p]]]
  <2>1. R \in [Items -> [Phases -> Row]]
    BY DEF Ledger, Row
  <2>2. \A i \in Items, p \in Phases :
           R[i][p] = IF <<i, p>> \in dropped THEN "none" ELSE l.rows[i][p]
    OBVIOUS
  <2>3. m = [l EXCEPT !.rows = R]
    BY <1>1
  <2> HIDE DEF R
  <2>4. m \in Ledger /\ m.rows = R
    BY <2>1, <2>3 DEF Ledger
  <2> QED
    BY <2>2, <2>4
<1>4. ASSUME Items = {} PROVE m = l
  <2>1. m.gates = l.gates /\ m.rows = l.rows
    BY <1>1, <1>4 DEF Ledger
  <2> QED
    BY <1>3, <2>1 DEF Ledger
<1> QED
  BY <1>2, <1>3, <1>4 DEF Complete

LEMMA Numbers == /\ NumPhases \in Nat \ {0} /\ 1 \in Phases /\ NumPhases \in Phases
                 /\ NumGroups \in Nat /\ \A i \in Items : GroupOf[i] \in Groups
                 /\ Main \in Threads /\ Items \subseteq Threads /\ Main \notin Items
BY ConstantsAssumption DEF Phases, Threads

----------------------------------------------------------------------------
(* Types.                                                                    *)

LEMMA InitType == Init => TypeOK
BY BlankType, Numbers, ConstantsAssumption DEF Init, TypeOK, AllIdle, Places, Groups

LEMMA SavingType ==
    ASSUME TypeOK, NEW t \in Threads, Saving(t)
    PROVE  TypeOK'
<1>1. CASE Truncate(t)
  BY <1>1, TruncateIs, BlankType DEF Truncate, TypeOK
<1>2. CASE WriteText(t)
  <2>1. save[t].text \in Ledger
    BY DEF TypeOK, Save
  <2> QED
    BY <1>2, <2>1, WriteIs DEF WriteText, TypeOK
<1> QED
  BY <1>1, <1>2 DEF Saving

LEMMA WorkType ==
    ASSUME TypeOK, NEW i \in Items, Work(i)
    PROVE  TypeOK'
<1>0. worker[i].phase \in Phases /\ i \in Threads
  BY Numbers DEF TypeOK
<1>1. CASE Dequeue(i)
  <2>1. worker' \in [Items -> [at : Places, phase : Phases]]
    BY <1>0, <1>1, MoveIs DEF Dequeue, Places
  <2> QED
    BY <1>1, <2>1 DEF Dequeue, TypeOK
<1>2. CASE StartPhase(i)
  <2>1. worker' \in [Items -> [at : Places, phase : Phases]]
    BY <1>0, <1>2, MoveIs DEF StartPhase, Places
  <2>2. mem' \in Ledger /\ save' \in [Threads -> Save]
    BY <1>0, <1>2, RecordIs DEF StartPhase, Row
  <2> QED
    BY <1>2, <2>1, <2>2 DEF StartPhase, TypeOK
<1>3. CASE Converge(i)
  <2>1. worker' \in [Items -> [at : Places, phase : Phases]]
    BY <1>0, <1>3, MoveIs DEF Converge, Places
  <2>2. out' \in [Items -> SUBSET Phases]
    BY <1>3 DEF Converge, TypeOK
  <2> QED
    BY <1>3, <2>1, <2>2 DEF Converge, TypeOK
<1>4. CASE Store(i)
  <2>1. CASE Move(i, "raised", worker[i].phase) /\ UNCHANGED <<out, mem, save>>
    <3>1. worker' \in [Items -> [at : Places, phase : Phases]]
      BY <1>0, <2>1, MoveIs DEF Places
    <3> QED
      BY <1>4, <2>1, <3>1 DEF Store, TypeOK
  <2>2. CASE out' = [out EXCEPT ![i] = @ \cup {worker[i].phase}] /\ Return(i)
    <3>1. worker' \in [Items -> [at : Places, phase : Phases]]
      <4>1. worker[i].phase < NumPhases => worker[i].phase + 1 \in Phases
        BY <1>0, Numbers DEF Phases
      <4> QED
        BY <1>0, <2>2, <4>1, MoveIs DEF Return, Places
    <3>2. mem' \in Ledger /\ save' \in [Threads -> Save]
      BY <1>0, <2>2, RecordIs DEF Return, Row, TypeOK
    <3>3. out' \in [Items -> SUBSET Phases]
      BY <1>0, <2>2 DEF TypeOK
    <3> QED
      BY <1>4, <3>1, <3>2, <3>3 DEF Store, TypeOK
  <2> QED
    BY <1>4, <2>1, <2>2 DEF Store
<1> QED
  BY <1>1, <1>2, <1>3, <1>4 DEF Work

LEMMA SubmittingType ==
    ASSUME TypeOK, NEW i \in Items,
           HumanStart(i) \/ HumanComplete(i) \/ SubmitSkip(i) \/ SubmitStart(i) \/ Submit(i)
    PROVE  TypeOK'
<1>0. worker[i].phase \in Phases /\ phase \in Phases
  BY DEF TypeOK
<1>1. CASE HumanStart(i)
  <2> DEFINE p == IF Synchronous(group) THEN phase ELSE 1
  <2>1. p \in Phases /\ Record(Main, i, p, "running") /\ Move(i, "submitted", p)
    BY <1>0, <1>1, Numbers DEF HumanStart
  <2> HIDE DEF p
  <2>2. mem' \in Ledger /\ save' \in [Threads -> Save]
    BY <2>1, Numbers, RecordIs DEF Row
  <2>3. worker' \in [Items -> [at : Places, phase : Phases]]
    BY <2>1, MoveIs DEF Places
  <2>4. tally' \in [completed : Nat, failed : Nat, human : Nat]
    BY <1>1 DEF HumanStart, TypeOK
  <2> QED
    BY <1>1, <2>2, <2>3, <2>4 DEF HumanStart, TypeOK
<1>2. CASE HumanComplete(i)
  <2> DEFINE p == worker[i].phase
  <2>1. CASE Record(Main, i, p, "passed") /\ UNCHANGED <<worker, todo>>
    <3>1. mem' \in Ledger /\ save' \in [Threads -> Save]
      BY <1>0, <2>1, Numbers, RecordIs DEF Row
    <3> QED
      BY <1>2, <2>1, <3>1 DEF HumanComplete, TypeOK
  <2>2. CASE p < NumPhases /\ Record(Main, i, p + 1, "running") /\ Move(i, "submitted", p + 1)
             /\ UNCHANGED todo
    <3>0. p + 1 \in Phases
      BY <1>0, <2>2, Numbers DEF Phases
    <3>1. mem' \in Ledger /\ save' \in [Threads -> Save]
      BY <2>2, <3>0, Numbers, RecordIs DEF Row
    <3>2. worker' \in [Items -> [at : Places, phase : Phases]]
      BY <2>2, <3>0, MoveIs DEF Places
    <3> QED
      BY <1>2, <2>2, <3>1, <3>2 DEF HumanComplete, TypeOK
  <2>3. CASE Move(i, "idle", 1) /\ todo' = todo \ {i} /\ UNCHANGED <<mem, save>>
    <3>1. worker' \in [Items -> [at : Places, phase : Phases]]
      BY <2>3, MoveIs, Numbers DEF Places
    <3> QED
      BY <1>2, <2>3, <3>1 DEF HumanComplete, TypeOK
  <2> QED
    BY <1>2, <2>1, <2>2, <2>3 DEF HumanComplete
<1>3. CASE SubmitSkip(i)
  BY <1>3 DEF SubmitSkip, TypeOK
<1>4. CASE SubmitStart(i)
  <2>1. mem' \in Ledger /\ save' \in [Threads -> Save]
    BY <1>0, <1>4, Numbers, RecordIs DEF SubmitStart, Row
  <2>2. worker' \in [Items -> [at : Places, phase : Phases]]
    BY <1>0, <1>4, MoveIs DEF SubmitStart, Places
  <2> QED
    BY <1>4, <2>1, <2>2 DEF SubmitStart, TypeOK
<1>5. CASE Submit(i)
  <2>1. worker' \in [Items -> [at : Places, phase : Phases]]
    BY <1>0, <1>5, MoveIs, Numbers DEF Submit, Places
  <2> QED
    BY <1>5, <2>1 DEF Submit, TypeOK
<1> QED
  BY <1>1, <1>2, <1>3, <1>4, <1>5

LEMMA CollectType ==
    ASSUME TypeOK, NEW i \in Items, CollectPhase(i) \/ CollectItem(i)
    PROVE  TypeOK'
<1>0. phase \in Phases
  BY DEF TypeOK
<1>1. worker' \in [Items -> [at : Places, phase : Phases]]
  BY MoveIs, Numbers DEF CollectPhase, CollectItem, Places
<1>2. mem' \in Ledger /\ save' \in [Threads -> Save]
  BY <1>0, Numbers, RecordIs DEF CollectPhase, CollectItem, Row, TypeOK
<1>3. tally' \in [completed : Nat, failed : Nat, human : Nat]
  BY DEF CollectPhase, CollectItem, Count, TypeOK
<1> QED
  BY <1>1, <1>2, <1>3 DEF CollectPhase, CollectItem, TypeOK

LEMMA MainType ==
    ASSUME TypeOK, NextGroup \/ RecordGate \/ GateRecorded \/ Submitted \/ Collected
    PROVE  TypeOK'
<1>1. CASE NextGroup
  BY <1>1, Numbers DEF NextGroup, TypeOK, Members, Groups
<1>2. CASE RecordGate
  <2>1. [mem EXCEPT !.gates[group] = IF tally.failed = 0 THEN "passed" ELSE "failed"] \in Ledger
    BY <1>2 DEF RecordGate, TypeOK, Ledger
  <2>2. mem' \in Ledger /\ save' \in [Threads -> Save]
    BY <1>2, <2>1, ChangeIs, Numbers DEF RecordGate
  <2> QED
    BY <1>2, <2>2 DEF RecordGate, TypeOK
<1>3. CASE GateRecorded
  BY <1>3, Numbers DEF GateRecorded, TypeOK, Groups
<1>4. CASE Submitted
  BY <1>4 DEF Submitted, TypeOK
<1>5. CASE Collected
  BY <1>5, Numbers DEF Collected, TypeOK, Members, Phases
<1> QED
  BY <1>1, <1>2, <1>3, <1>4, <1>5

LEMMA NextType == TypeOK /\ [Next]_vars => TypeOK'
<1> SUFFICES ASSUME TypeOK, [Next]_vars PROVE TypeOK'
  OBVIOUS
<1>1. CASE Start
  <2>1. mem' \in Ledger
    BY <1>1, LoadedIs DEF Start, TypeOK
  <2> QED
    BY <1>1, <2>1, Numbers, ConstantsAssumption DEF Start, TypeOK
<1>2. CASE Die
  BY <1>2, BlankType, Numbers DEF Die, TypeOK, AllIdle, Places
<1>3. CASE UNCHANGED vars
  BY <1>3 DEF vars, TypeOK
<1> QED
  BY <1>1, <1>2, <1>3, SavingType, WorkType, SubmittingType, CollectType, MainType
  DEF Next, Execute

(* The program counter, the ledger, the saves and the counts keep their types,  *)
(* and no gate is recorded of a group there is not (orchestrator.py:89-155).    *)
THEOREM TypeCorrect == Spec => []TypeOK
BY InitType, NextType, PTL DEF Spec

----------------------------------------------------------------------------
(* The order of a run.                                                       *)

(* What a step of item i leaves as it is.                                     *)
OthersSame(i) ==
    /\ UNCHANGED <<pc, group, phase>>
    /\ \A j \in Items \ {i} :
          /\ worker'[j] = worker[j] /\ (j \in todo' <=> j \in todo)
          /\ Saved(j)' = Saved(j) /\ out'[j] = out[j]
          /\ \A q \in Phases : mem'.rows[j][q] = mem.rows[j][q]
    /\ tally.failed \in Nat /\ tally'.failed \in Nat /\ tally'.failed >= tally.failed

LEMMA OthersInStep ==
    ASSUME TypeOK, NEW i \in Items, OthersSame(i), NEW j \in Items, j # i,
           ItemInStep(j), OverInStep(j)
    PROVE  ItemInStep(j)' /\ OverInStep(j)'
<1>0. /\ phase \in Phases /\ worker[j].phase \in Phases /\ NumPhases \in Phases
      /\ \A n \in Phases : 1..n - 1 \subseteq Phases
  BY Numbers DEF TypeOK, Phases
<1>1. ItemInStep(j)'
  BY <1>0 DEF OthersSame, ItemInStep, Saved, Complete, Synchronous, Members, Share
<1>2. OverInStep(j)'
  BY <1>0 DEF OthersSame, OverInStep, Over, Complete, Synchronous, Members, Share
<1> QED
  BY <1>1, <1>2

LEMMA ItemStepInOrder ==
    ASSUME TypeOK, RunInStep, NEW i \in Items, OthersSame(i), pc \in {"submit", "collect"},
           ItemInStep(i)', OverInStep(i)'
    PROVE  RunInStep'
<1>1. MainInStep'
  BY DEF OthersSame, MainInStep
<1> QED
  BY <1>1, OthersInStep DEF RunInStep

LEMMA GroupSame ==
    ASSUME group' = group
    PROVE  Synchronous(group)' <=> Synchronous(group)
BY DEF Synchronous, Members, Share

(* A record of main for item i, who is moved to a place, and one of the item's   *)
(* own thread.                                                               *)
LEMMA MainRecords ==
    ASSUME TypeOK, NEW i \in Items, NEW p \in Phases, NEW row \in Row,
           Record(Main, i, p, row)
    PROVE  /\ \A j \in Items : save'[j] = save[j] /\ Saved(j)' = Saved(j)
           /\ \A j \in Items, q \in Phases : mem'.rows[j][q] =
                  IF j = i /\ q = p THEN row ELSE mem.rows[j][q]
<1>1. \A j \in Items : j \in Threads \ {Main}
  BY Numbers
<1> QED
  BY <1>1, RecordIs, Numbers DEF Saved

LEMMA ThreadRecords ==
    ASSUME TypeOK, NEW i \in Items, NEW p \in Phases, NEW row \in Row,
           Record(i, i, p, row)
    PROVE  /\ \A j \in Items \ {i} : save'[j] = save[j] /\ Saved(j)' = Saved(j)
           /\ ~Saved(i)'
           /\ \A j \in Items, q \in Phases : mem'.rows[j][q] =
                  IF j = i /\ q = p THEN row ELSE mem.rows[j][q]
<1>1. \A j \in Items \ {i} : j \in Threads \ {i}
  BY Numbers
<1> QED
  BY <1>1, RecordIs, Numbers DEF Saved

LEMMA WorkInOrder ==
    ASSUME TypeOK, RunInStep, NEW i \in Items, Work(i)
    PROVE  RunInStep'
<1>0. /\ ItemInStep(i) /\ OverInStep(i) /\ i \in Threads
      /\ worker[i].phase \in Phases /\ phase \in Phases /\ NumPhases \in Phases
      /\ \A n \in Phases : 1..n - 1 \subseteq Phases
      /\ tally.failed \in Nat /\ Phases \subseteq Nat /\ ~(group < group)
  BY Numbers DEF RunInStep, TypeOK, Phases
<1>1. CASE Dequeue(i)
  <2>1. /\ GroupOf[i] = group /\ pc \in {"submit", "collect"} /\ i \notin Human /\ i \notin todo
        /\ Saved(i)
    BY <1>0, <1>1 DEF Dequeue, ItemInStep
  <2>2. /\ worker'[i].at = IF Synchronous(group) THEN "converge" ELSE "ready"
        /\ worker'[i].phase = worker[i].phase
        /\ \A j \in Items \ {i} : worker'[j] = worker[j]
    BY <1>0, <1>1, <2>1, MoveIs DEF Dequeue, Places
  <2>3. OthersSame(i)
    BY <1>0, <1>1, <2>2 DEF Dequeue, OthersSame, Saved
  <2>4. ItemInStep(i)'
    BY <1>0, <1>1, <2>1, <2>2, GroupSame DEF Dequeue, ItemInStep, Saved, Complete
  <2>5. OverInStep(i)'
    BY <1>0, <1>1, <2>1, <2>2, GroupSame DEF Dequeue, OverInStep, Over
  <2> QED
    BY <2>1, <2>3, <2>4, <2>5, ItemStepInOrder
<1>2. CASE StartPhase(i)
  <2>1. /\ GroupOf[i] = group /\ pc \in {"submit", "collect"} /\ i \notin Human /\ i \notin todo
        /\ Saved(i) /\ ~Synchronous(group)
    BY <1>0, <1>2 DEF StartPhase, ItemInStep
  <2>2. /\ worker'[i].at = "converge" /\ worker'[i].phase = worker[i].phase
        /\ \A j \in Items \ {i} : worker'[j] = worker[j]
    BY <1>0, <1>2, MoveIs DEF StartPhase, Places
  <2>3. /\ \A j \in Items \ {i} : save'[j] = save[j] /\ Saved(j)' = Saved(j)
        /\ \A j \in Items, q \in Phases : mem'.rows[j][q] =
              IF j = i /\ q = worker[i].phase THEN "running" ELSE mem.rows[j][q]
    <3> DEFINE p == worker[i].phase
    <3>1. "running" \in Row /\ p \in Phases /\ Record(i, i, p, "running")
      BY <1>0, <1>2 DEF StartPhase, Row
    <3> HIDE DEF p
    <3>2. /\ \A j \in Items \ {i} : save'[j] = save[j] /\ Saved(j)' = Saved(j)
          /\ \A j \in Items, q \in Phases : mem'.rows[j][q] =
                IF j = i /\ q = p THEN "running" ELSE mem.rows[j][q]
      BY <3>1, ThreadRecords
    <3> QED
      BY <3>2 DEF p
  <2>4. OthersSame(i)
    BY <1>0, <1>2, <2>2, <2>3 DEF StartPhase, OthersSame
  <2>5. ItemInStep(i)'
    <3>1. \A q \in 1..worker'[i].phase - 1 : q \in Phases /\ q # worker[i].phase
      <4>1. worker[i].phase \in Nat /\ 1..worker[i].phase - 1 \subseteq Phases
        BY <1>0
      <4> QED
        BY <2>2, <4>1
    <3>2. \A q \in 1..worker'[i].phase - 1 : Complete(mem, i, q)'
      BY <1>0, <1>2, <2>1, <2>2, <2>3, <3>1 DEF StartPhase, ItemInStep, Complete
    <3> QED
      BY <1>0, <1>2, <2>1, <2>2, <3>2, GroupSame DEF StartPhase, ItemInStep
  <2>6. OverInStep(i)'
    BY <1>0, <1>2, <2>1, <2>2, GroupSame DEF StartPhase, OverInStep, Over
  <2> QED
    BY <2>1, <2>4, <2>5, <2>6, ItemStepInOrder
<1>3. CASE Converge(i)
  <2>1. /\ GroupOf[i] = group /\ pc \in {"submit", "collect"} /\ i \notin Human /\ i \notin todo
        /\ Saved(i)
    BY <1>0, <1>3 DEF Converge, ItemInStep
  <2>2. /\ worker'[i].at \in {"store", "raised"} /\ worker'[i].phase = worker[i].phase
        /\ \A j \in Items \ {i} : worker'[j] = worker[j] /\ out'[j] = out[j]
    <3>1. \A j \in Items \ {i} : out'[j] = out[j]
      BY <1>3 DEF Converge, TypeOK
    <3> QED
      BY <1>0, <1>3, <3>1, MoveIs DEF Converge, Places
  <2>3. OthersSame(i)
    BY <1>0, <1>3, <2>2 DEF Converge, OthersSame, Saved
  <2>4. ItemInStep(i)'
    BY <1>0, <1>3, <2>1, <2>2, GroupSame DEF Converge, ItemInStep, Saved, Complete
  <2>5. OverInStep(i)'
    BY <1>0, <1>3, <2>1, <2>2, GroupSame DEF Converge, OverInStep, Over
  <2> QED
    BY <2>1, <2>3, <2>4, <2>5, ItemStepInOrder
<1>4. CASE Store(i)
  <2> DEFINE p == worker[i].phase
  <2>1. /\ GroupOf[i] = group /\ pc \in {"submit", "collect"} /\ i \notin Human /\ i \notin todo
        /\ Saved(i) /\ (Synchronous(group) => p = phase)
    BY <1>0, <1>4 DEF Store, ItemInStep
  <2>2. CASE Move(i, "raised", p) /\ UNCHANGED <<out, mem, save>>
    <3>1. /\ worker'[i].at = "raised" /\ worker'[i].phase = p
          /\ \A j \in Items \ {i} : worker'[j] = worker[j]
      BY <1>0, <2>2, MoveIs DEF Places
    <3>2. OthersSame(i)
      BY <1>0, <1>4, <2>2, <3>1 DEF Store, OthersSame, Saved
    <3>3. ItemInStep(i)'
      BY <1>0, <1>4, <2>1, <2>2, <3>1, GroupSame DEF Store, ItemInStep, Saved, Complete
    <3>4. OverInStep(i)'
      BY <1>0, <1>4, <2>1, <2>2, <3>1, GroupSame DEF Store, OverInStep, Over
    <3> QED
      BY <2>1, <3>2, <3>3, <3>4, ItemStepInOrder
  <2>3. CASE out' = [out EXCEPT ![i] = @ \cup {p}] /\ Return(i)
    <3>1. p \in out'[i] /\ \A j \in Items \ {i} : out'[j] = out[j]
      BY <2>3 DEF TypeOK
    <3>2. CASE Synchronous(group)
      <4>1. Move(i, "returned", p) /\ UNCHANGED <<mem, save>>
        BY <2>1, <2>3, <3>2 DEF Return
      <4>2. /\ worker'[i].at = "returned" /\ worker'[i].phase = p
            /\ \A j \in Items \ {i} : worker'[j] = worker[j]
        BY <1>0, <4>1, MoveIs DEF Places
      <4>3. OthersSame(i)
        BY <1>0, <1>4, <3>1, <4>1, <4>2 DEF Store, OthersSame, Saved
      <4>4. ItemInStep(i)'
        BY <1>0, <1>4, <2>1, <3>1, <3>2, <4>1, <4>2, GroupSame
        DEF Store, ItemInStep, Saved, Complete
      <4>5. OverInStep(i)'
        BY <1>0, <1>4, <2>1, <4>2, <4>1, GroupSame DEF Store, OverInStep, Over
      <4> QED
        BY <2>1, <4>3, <4>4, <4>5, ItemStepInOrder
    <3>3. CASE ~Synchronous(group)
      <4>1. /\ Record(i, i, p, "passed")
            /\ IF p < NumPhases THEN Move(i, "ready", p + 1) ELSE Move(i, "returned", p)
        BY <2>1, <2>3, <3>3 DEF Return
      <4>2. p < NumPhases => p + 1 \in Phases
        BY <1>0, Numbers DEF Phases
      <4>3. /\ \A j \in Items \ {i} : worker'[j] = worker[j]
            /\ IF p < NumPhases THEN worker'[i].at = "ready" /\ worker'[i].phase = p + 1
               ELSE worker'[i].at = "returned" /\ worker'[i].phase = p
        BY <1>0, <4>1, <4>2, MoveIs DEF Places
      <4>4. /\ \A j \in Items \ {i} : save'[j] = save[j] /\ Saved(j)' = Saved(j)
            /\ \A j \in Items, q \in Phases : mem'.rows[j][q] =
                  IF j = i /\ q = p THEN "passed" ELSE mem.rows[j][q]
        <5>1. "passed" \in Row /\ p \in Phases
          BY <1>0 DEF Row
        <5> HIDE DEF p
        <5> QED
          BY <4>1, <5>1, ThreadRecords
      <4>5. OthersSame(i)
        BY <1>0, <1>4, <3>1, <4>3, <4>4 DEF Store, OthersSame
      <4>6. \A q \in Phases : q <= p => mem'.rows[i][q] = "passed"
        <5>1. \A q \in 1..p - 1 : mem.rows[i][q] = "passed"
          BY <1>0, <1>4, <3>3 DEF Store, ItemInStep, Complete
        <5>2. \A q \in Phases : q <= p => q = p \/ q \in 1..p - 1
          BY <1>0 DEF Phases
        <5> QED
          BY <1>0, <4>4, <5>1, <5>2
      <4>7. ItemInStep(i)'
        <5>1. CASE p < NumPhases
          <6>1. \A q \in 1..worker'[i].phase - 1 : q \in Phases /\ q <= p
            BY <1>0, <4>2, <4>3, <5>1 DEF Phases
          <6> QED
            BY <1>0, <1>4, <2>1, <3>3, <4>3, <4>6, <5>1, <6>1, GroupSame
            DEF Store, ItemInStep, Complete
        <5>2. CASE ~(p < NumPhases)
          <6>1. \A q \in Phases : q <= p
            BY <1>0, <5>2 DEF Phases
          <6>2. \A q \in 1..worker'[i].phase - 1 : q \in Phases
            BY <1>0, <4>3, <5>2
          <6> QED
            BY <1>0, <1>4, <2>1, <3>3, <4>3, <4>6, <5>2, <6>1, <6>2, GroupSame
            DEF Store, ItemInStep, Complete
        <5> QED
          BY <5>1, <5>2
      <4>8. OverInStep(i)'
        BY <1>0, <1>4, <2>1, <3>3, <4>3, GroupSame DEF Store, OverInStep, Over
      <4> QED
        BY <2>1, <4>5, <4>7, <4>8, ItemStepInOrder
    <3> QED
      BY <3>2, <3>3
  <2> QED
    BY <1>4, <2>2, <2>3 DEF Store
<1> QED
  BY <1>1, <1>2, <1>3, <1>4 DEF Work

LEMMA SubmitInOrder ==
    ASSUME TypeOK, RunInStep, NEW i \in Items, SubmitSkip(i) \/ SubmitStart(i) \/ Submit(i)
    PROVE  RunInStep'
<1>0. /\ ItemInStep(i) /\ OverInStep(i) /\ i \in Threads
      /\ worker[i].phase \in Phases /\ phase \in Phases /\ 1 \in Phases
      /\ \A n \in Phases : 1..n - 1 \subseteq Phases
      /\ tally \in [completed : Nat, failed : Nat, human : Nat]
      /\ Phases \subseteq Nat /\ ~(group < group)
  BY Numbers DEF RunInStep, TypeOK, Phases
<1>1. /\ i \in todo /\ GroupOf[i] = group /\ pc = "submit" /\ i \notin Human
      /\ Saved(i) \/ ~Synchronous(group)
      /\ worker[i].at \in {"idle", "submitted"} /\ Saved(i)
  BY <1>0 DEF SubmitSkip, SubmitStart, Submit, Submitting, ItemInStep
<1>2. CASE SubmitSkip(i)
  <2>1. OthersSame(i)
    BY <1>0, <1>2 DEF SubmitSkip, OthersSame, Saved
  <2>2. worker[i].at = "idle" /\ worker'[i] = worker[i]
    BY <1>1, <1>2 DEF SubmitSkip, Submitting
  <2>3. ItemInStep(i)'
    BY <1>0, <1>1, <1>2, <2>2, GroupSame DEF SubmitSkip, ItemInStep, Saved
  <2>4. OverInStep(i)'
    BY <1>0, <1>1, <1>2, <2>2, GroupSame DEF SubmitSkip, OverInStep, Over, Complete
  <2> QED
    BY <1>1, <2>1, <2>3, <2>4, ItemStepInOrder
<1>3. CASE SubmitStart(i)
  <2>1. "running" \in Row /\ Record(Main, i, phase, "running")
    BY <1>3 DEF SubmitStart, Row
  <2>2. /\ \A j \in Items : save'[j] = save[j] /\ Saved(j)' = Saved(j)
        /\ \A j \in Items, q \in Phases : mem'.rows[j][q] =
               IF j = i /\ q = phase THEN "running" ELSE mem.rows[j][q]
    BY <1>0, <2>1, MainRecords
  <2>3. /\ worker'[i].at = "submitted" /\ worker'[i].phase = phase
        /\ \A j \in Items \ {i} : worker'[j] = worker[j]
    BY <1>0, <1>3, MoveIs DEF SubmitStart, Places
  <2>4. OthersSame(i)
    BY <1>0, <1>3, <2>2, <2>3 DEF SubmitStart, OthersSame
  <2>5. ItemInStep(i)'
    BY <1>0, <1>1, <1>3, <2>2, <2>3, GroupSame DEF SubmitStart, ItemInStep
  <2>6. OverInStep(i)'
    <3>1. \A q \in 1..phase - 1 : mem'.rows[i][q] = mem.rows[i][q]
      <4>1. phase \in Nat /\ 1..phase - 1 \subseteq Phases
        BY <1>0
      <4>2. \A q \in 1..phase - 1 : q # phase
        BY <4>1
      <4> QED
        BY <2>2, <4>1, <4>2
    <3> QED
      BY <1>0, <1>1, <1>3, <2>3, <3>1, GroupSame DEF SubmitStart, OverInStep, Over
  <2> QED
    BY <1>1, <2>4, <2>5, <2>6, ItemStepInOrder
<1>4. CASE Submit(i)
  <2>1. /\ worker'[i].at = "queued"
        /\ worker'[i].phase = IF Synchronous(group) THEN phase ELSE 1
        /\ \A j \in Items \ {i} : worker'[j] = worker[j]
        /\ Synchronous(group) => worker[i].at = "submitted"
    <3>1. worker[i].at = "submitted" => Synchronous(group)
      BY <1>0, <1>1 DEF ItemInStep
    <3>2. worker[i].at # "submitted" => ~Synchronous(group)
      BY <1>4 DEF Submit
    <3>3. CASE worker[i].at = "submitted"
      <4>1. Move(i, "queued", phase)
        BY <1>4, <3>1, <3>3 DEF Submit
      <4> QED
        BY <1>0, <3>1, <3>3, <4>1, MoveIs DEF Places
    <3>4. CASE worker[i].at # "submitted"
      <4>1. Move(i, "queued", 1)
        BY <1>4, <3>4 DEF Submit
      <4> QED
        BY <1>0, <3>2, <3>4, <4>1, MoveIs DEF Places
    <3> QED
      BY <3>3, <3>4
  <2>2. OthersSame(i)
    BY <1>0, <1>4, <2>1 DEF Submit, OthersSame, Saved
  <2>3. ItemInStep(i)'
    <3>1. 1..1 - 1 = {}
      OBVIOUS
    <3>2. i \notin todo' /\ Saved(i)' /\ pc' = pc /\ group' = group /\ phase' = phase /\ mem' = mem
      BY <1>1, <1>4 DEF Submit, Saved
    <3> QED
      BY <1>0, <1>1, <2>1, <3>1, <3>2, GroupSame DEF ItemInStep
  <2>4. OverInStep(i)'
    BY <1>0, <1>1, <1>4, <2>1, GroupSame DEF Submit, OverInStep, Over
  <2> QED
    BY <1>1, <2>2, <2>3, <2>4, ItemStepInOrder
<1> QED
  BY <1>2, <1>3, <1>4

LEMMA HumanInOrder ==
    ASSUME TypeOK, RunInStep, NEW i \in Items, HumanStart(i) \/ HumanComplete(i)
    PROVE  RunInStep'
<1>0. /\ ItemInStep(i) /\ OverInStep(i) /\ i \in Threads
      /\ worker[i].phase \in Phases /\ phase \in Phases /\ 1 \in Phases /\ NumPhases \in Phases
      /\ \A n \in Phases : 1..n - 1 \subseteq Phases /\ \A q \in 1..n - 1 : q # n
      /\ tally \in [completed : Nat, failed : Nat, human : Nat]
      /\ Phases \subseteq Nat /\ ~(group < group)
  BY Numbers DEF RunInStep, TypeOK, Phases
<1>1. /\ i \in todo /\ GroupOf[i] = group /\ pc = "submit" /\ i \in Human
      /\ worker[i].at \in {"idle", "submitted"} /\ Saved(i)
  BY <1>0 DEF HumanStart, HumanComplete, Submitting, ItemInStep
<1>2. CASE HumanStart(i)
  <2> DEFINE p == IF Synchronous(group) THEN phase ELSE 1
  <2>1. /\ p \in Phases /\ Record(Main, i, p, "running") /\ Move(i, "submitted", p)
        /\ "running" \in Row /\ (Synchronous(group) => p = phase) /\ (~Synchronous(group) => p = 1)
    BY <1>0, <1>2 DEF HumanStart, Row
  <2> HIDE DEF p
  <2>2. /\ \A j \in Items : save'[j] = save[j] /\ Saved(j)' = Saved(j)
        /\ \A j \in Items, q \in Phases : mem'.rows[j][q] =
               IF j = i /\ q = p THEN "running" ELSE mem.rows[j][q]
    BY <2>1, MainRecords
  <2>3. /\ worker'[i].at = "submitted" /\ worker'[i].phase = p
        /\ \A j \in Items \ {i} : worker'[j] = worker[j]
    BY <2>1, MoveIs DEF Places
  <2>4. OthersSame(i)
    BY <1>0, <1>2, <2>2, <2>3 DEF HumanStart, OthersSame
  <2>5. ItemInStep(i)'
    <3>1. 1..1 - 1 = {}
      OBVIOUS
    <3> QED
      BY <1>0, <1>1, <1>2, <2>1, <2>2, <2>3, <3>1, GroupSame DEF HumanStart, ItemInStep
  <2>6. OverInStep(i)'
    BY <1>0, <1>1, <1>2, <2>1, <2>2, <2>3, GroupSame DEF HumanStart, OverInStep, Over
  <2> QED
    BY <1>1, <2>4, <2>5, <2>6, ItemStepInOrder
<1>3. CASE HumanComplete(i)
  <2> DEFINE p == worker[i].phase
  <2>0. /\ worker[i].at = "submitted" /\ p \in Phases
        /\ mem.rows[i][p] \in {"running", "passed"} /\ (Synchronous(group) => p = phase)
        /\ ~Synchronous(group) => \A q \in 1..p - 1 : Complete(mem, i, q)
    BY <1>0, <1>1, <1>3 DEF HumanComplete, ItemInStep
  <2>1. CASE Record(Main, i, p, "passed") /\ UNCHANGED <<worker, todo>>
    <3>1. "passed" \in Row
      BY DEF Row
    <3>2. /\ \A j \in Items : save'[j] = save[j] /\ Saved(j)' = Saved(j)
          /\ \A j \in Items, q \in Phases : mem'.rows[j][q] =
                 IF j = i /\ q = p THEN "passed" ELSE mem.rows[j][q]
      <4> HIDE DEF p
      <4> QED
        BY <2>0, <2>1, <3>1, MainRecords
    <3>3. OthersSame(i)
      BY <1>0, <1>3, <2>1, <3>2 DEF HumanComplete, OthersSame
    <3>4. ItemInStep(i)'
      <4>1. mem'.rows[i][p] = "passed"
        BY <2>0, <3>2
      <4>2. ~Synchronous(group) => \A q \in 1..p - 1 : Complete(mem, i, q)'
        BY <1>0, <2>0, <3>2 DEF Complete
      <4>3. /\ i \in todo' /\ Saved(i)' /\ pc' = pc /\ group' = group /\ phase' = phase
            /\ worker'[i].at = "submitted" /\ worker'[i].phase = p
        BY <1>1, <1>3, <2>0, <2>1, <3>2 DEF HumanComplete
      <4> HIDE DEF p
      <4> QED
        BY <1>1, <2>0, <4>1, <4>2, <4>3, GroupSame DEF ItemInStep
    <3>5. OverInStep(i)'
      BY <1>0, <1>1, <1>3, <2>0, <2>1, <3>2, GroupSame DEF HumanComplete, OverInStep, Over
    <3> QED
      BY <1>1, <3>3, <3>4, <3>5, ItemStepInOrder
  <2>2. CASE /\ ~Synchronous(group) /\ p < NumPhases /\ mem.rows[i][p] # "running"
             /\ Record(Main, i, p + 1, "running") /\ Move(i, "submitted", p + 1)
             /\ UNCHANGED todo
    <3>1. "running" \in Row /\ p + 1 \in Phases /\ p \in Nat
      BY <2>0, <2>2, Numbers DEF Row, Phases
    <3>2. /\ \A j \in Items : save'[j] = save[j] /\ Saved(j)' = Saved(j)
          /\ \A j \in Items, q \in Phases : mem'.rows[j][q] =
                 IF j = i /\ q = p + 1 THEN "running" ELSE mem.rows[j][q]
      <4> HIDE DEF p
      <4>1. PICK n \in Phases : n = p + 1
        BY <3>1
      <4> QED
        BY <2>2, <3>1, <4>1, MainRecords
    <3>3. /\ worker'[i].at = "submitted" /\ worker'[i].phase = p + 1
          /\ \A j \in Items \ {i} : worker'[j] = worker[j]
      BY <2>2, <3>1, MoveIs DEF Places
    <3>4. OthersSame(i)
      BY <1>0, <1>3, <2>2, <3>2, <3>3 DEF HumanComplete, OthersSame
    <3>5. \A q \in 1..(p + 1) - 1 : mem'.rows[i][q] = "passed"
      <4>1. \A q \in 1..(p + 1) - 1 : q = p \/ q \in 1..p - 1
        BY <3>1
      <4>2. \A q \in 1..(p + 1) - 1 : q # p + 1 /\ q \in Phases
        BY <1>0, <3>1
      <4>3. mem.rows[i][p] = "passed"
        BY <2>0, <2>2
      <4> QED
        BY <2>0, <2>2, <3>2, <4>1, <4>2, <4>3 DEF Complete
    <3>6. ItemInStep(i)'
      BY <1>0, <1>1, <1>3, <2>2, <3>1, <3>2, <3>3, <3>5, GroupSame
      DEF HumanComplete, ItemInStep, Complete
    <3>7. OverInStep(i)'
      BY <1>0, <1>1, <1>3, <2>2, <3>3, GroupSame DEF HumanComplete, OverInStep, Over
    <3> QED
      BY <1>1, <3>4, <3>6, <3>7, ItemStepInOrder
  <2>3. CASE /\ (Synchronous(group) \/ ~(p < NumPhases)) /\ mem.rows[i][p] # "running"
             /\ Move(i, "idle", 1) /\ todo' = todo \ {i} /\ UNCHANGED <<mem, save>>
    <3>1. /\ worker'[i].at = "idle" /\ worker'[i].phase = 1
          /\ \A j \in Items \ {i} : worker'[j] = worker[j]
      BY <1>0, <2>3, MoveIs DEF Places
    <3>2. OthersSame(i)
      BY <1>0, <1>3, <2>3, <3>1 DEF HumanComplete, OthersSame, Saved
    <3>3. /\ i \notin todo' /\ Saved(i)' /\ pc' = pc /\ group' = group /\ phase' = phase
          /\ mem' = mem /\ tally' = tally
      BY <1>1, <1>3, <2>3 DEF HumanComplete, Saved
    <3>4. ItemInStep(i)'
      BY <1>0, <1>1, <3>1, <3>3, GroupSame DEF ItemInStep
    <3>5. mem.rows[i][p] = "passed"
      BY <2>0, <2>3
    <3>6. ~Synchronous(group) => \A q \in Phases : Complete(mem, i, q)
      <4>1. ASSUME ~Synchronous(group), NEW q \in Phases PROVE q = p \/ q \in 1..p - 1
        BY <2>0, <2>3, <4>1, Numbers DEF Phases
      <4> QED
        BY <2>0, <3>5, <4>1 DEF Complete
    <3>7. OverInStep(i)'
      <4>1. Synchronous(group) /\ phase = NumPhases => Complete(mem, i, NumPhases)
        BY <2>0, <3>5 DEF Complete
      <4> QED
        BY <1>0, <1>1, <2>0, <3>1, <3>3, <3>5, <3>6, <4>1, GroupSame
        DEF OverInStep, Over, Complete
    <3> QED
      BY <1>1, <3>2, <3>4, <3>7, ItemStepInOrder
  <2> QED
    BY <1>3, <2>1, <2>2, <2>3 DEF HumanComplete
<1> QED
  BY <1>2, <1>3

LEMMA CollectInOrder ==
    ASSUME TypeOK, RunInStep, NEW i \in Items, CollectPhase(i) \/ CollectItem(i)
    PROVE  RunInStep'
<1>0. /\ ItemInStep(i) /\ OverInStep(i) /\ i \in Threads
      /\ worker[i].phase \in Phases /\ phase \in Phases /\ 1 \in Phases /\ NumPhases \in Phases
      /\ \A n \in Phases : 1..n - 1 \subseteq Phases /\ \A q \in 1..n - 1 : q # n
      /\ tally \in [completed : Nat, failed : Nat, human : Nat]
      /\ Phases \subseteq Nat /\ ~(group < group)
  BY Numbers DEF RunInStep, TypeOK, Phases
<1>1. /\ i \notin todo /\ GroupOf[i] = group /\ pc = "collect" /\ i \notin Human
      /\ worker[i].at \in {"returned", "raised"} /\ Saved(i)
  BY <1>0 DEF CollectPhase, CollectItem, ItemInStep
<1>2. /\ worker'[i].at = "idle" /\ \A j \in Items \ {i} : worker'[j] = worker[j]
      /\ UNCHANGED <<pc, group, phase, todo, disk, out>>
  BY <1>0, MoveIs DEF CollectPhase, CollectItem, Places
<1>3. CASE CollectPhase(i)
  <2>1. PICK row \in {"passed", "failed"} :
           /\ Record(Main, i, phase, row)
           /\ row = "passed" => tally'.failed = tally.failed
           /\ row = "failed" => tally'.failed = IF phase = NumPhases THEN tally.failed + 1
                                                                     ELSE tally.failed
    <3>1. CASE /\ Record(Main, i, phase, "passed")
               /\ IF phase = NumPhases THEN Count("completed") ELSE UNCHANGED tally
      BY <1>0, <3>1 DEF Count
    <3>2. CASE /\ Record(Main, i, phase, "failed")
               /\ IF phase = NumPhases THEN Count("failed") ELSE UNCHANGED tally
      BY <1>0, <3>2 DEF Count
    <3> QED
      BY <1>3, <3>1, <3>2 DEF CollectPhase
  <2>2. row \in Row /\ Synchronous(group) /\ tally.failed \in Nat
    BY <1>0, <1>3 DEF CollectPhase, Row
  <2>3. /\ \A j \in Items : save'[j] = save[j] /\ Saved(j)' = Saved(j)
        /\ \A j \in Items, q \in Phases : mem'.rows[j][q] =
               IF j = i /\ q = phase THEN row ELSE mem.rows[j][q]
    BY <1>0, <2>1, <2>2, MainRecords
  <2>4. OthersSame(i)
    BY <1>0, <1>2, <2>1, <2>2, <2>3 DEF OthersSame
  <2>5. ItemInStep(i)'
    BY <1>0, <1>1, <1>2, <2>3, GroupSame DEF ItemInStep
  <2>6. OverInStep(i)'
    <3>1. \A q \in 1..phase - 1 : mem'.rows[i][q] \in {"passed", "failed"}
      BY <1>0, <1>1, <2>2, <2>3 DEF OverInStep
    <3>2. mem'.rows[i][phase] = row
      BY <1>0, <2>3
    <3>3. phase = NumPhases /\ tally'.failed = 0 => row = "passed"
      BY <2>1, <2>2
    <3> QED
      BY <1>0, <1>1, <1>2, <2>2, <3>1, <3>2, <3>3, GroupSame DEF OverInStep, Over, Complete
  <2> QED
    BY <1>1, <2>4, <2>5, <2>6, ItemStepInOrder
<1>4. CASE CollectItem(i)
  <2>1. /\ ~Synchronous(group) /\ UNCHANGED <<mem, save>>
        /\ \/ worker[i].at = "returned" /\ tally'.failed = tally.failed
           \/ worker[i].at = "raised" /\ tally'.failed = tally.failed + 1
    BY <1>0, <1>4 DEF CollectItem, Count
  <2>2. OthersSame(i)
    BY <1>0, <1>2, <2>1 DEF OthersSame, Saved
  <2>3. ItemInStep(i)'
    BY <1>0, <1>1, <1>2, <2>1, GroupSame DEF ItemInStep, Saved
  <2>4. OverInStep(i)'
    <3>1. tally'.failed = 0 => worker[i].at = "returned"
      BY <1>0, <2>1
    <3>2. tally'.failed = 0 => \A q \in Phases : Complete(mem, i, q)
      BY <1>0, <2>1, <3>1 DEF ItemInStep
    <3> QED
      BY <1>0, <1>1, <1>2, <2>1, <3>2, GroupSame DEF OverInStep, Over, Complete
  <2> QED
    BY <1>1, <2>2, <2>3, <2>4, ItemStepInOrder
<1> QED
  BY <1>3, <1>4

LEMMA SavingInOrder ==
    ASSUME TypeOK, RunInStep, NEW t \in Threads, Saving(t)
    PROVE  RunInStep'
<1>0. /\ ~Saved(t) /\ UNCHANGED <<pc, group, phase, todo, worker, mem, out, tally, runs>>
  BY DEF Saving, Truncate, WriteText, Saved
<1>1. \A u \in Threads : ~Saved(u)' => ~Saved(u)
  BY TruncateIs, WriteIs DEF Saving, Saved
<1>2. ASSUME NEW j \in Items PROVE ItemInStep(j)' /\ OverInStep(j)'
  <2>1. ItemInStep(j) /\ OverInStep(j) /\ j \in Threads
    BY Numbers DEF RunInStep
  <2>2. ItemInStep(j)'
    BY <1>0, <1>1, <2>1, GroupSame DEF ItemInStep, Complete
  <2>3. OverInStep(j)'
    BY <1>0, <2>1, GroupSame DEF OverInStep, Over, Complete
  <2> QED
    BY <2>2, <2>3
<1>3. pc \in {"submit", "collect"} \/ t = Main
  BY <1>0, Numbers DEF Threads, RunInStep, ItemInStep
<1>4. CASE pc \in {"submit", "collect"}
  BY <1>0, <1>4, <1>2 DEF RunInStep, MainInStep
<1>5. CASE t = Main /\ pc \notin {"submit", "collect"}
  <2>1. pc = "gated" /\ save[Main].text = mem
    BY <1>0, <1>5 DEF RunInStep, MainInStep, TypeOK
  <2>2. IF Saved(Main)' THEN disk' = mem' ELSE save'[Main].text = mem'
    BY <1>0, <1>5, <2>1, TruncateIs, WriteIs DEF Saving
  <2>3. MainInStep'
    BY <1>0, <2>1, <2>2 DEF MainInStep
  <2> QED
    BY <1>2, <2>3 DEF RunInStep
<1> QED
  BY <1>3, <1>4, <1>5

(* Outside the loops of a group nothing is in hand.                            *)
LEMMA AllQuiet ==
    ASSUME TypeOK, RunInStep, pc \notin {"submit", "collect"}, NEW j \in Items
    PROVE  j \notin todo /\ worker[j].at = "idle" /\ Saved(j)
BY DEF RunInStep, ItemInStep

LEMMA MainInOrder ==
    ASSUME TypeOK, RunInStep,
           NextGroup \/ RecordGate \/ GateRecorded \/ Submitted \/ Collected
    PROVE  RunInStep'
<1>0. /\ MainInStep /\ \A j \in Items : ItemInStep(j) /\ OverInStep(j)
      /\ phase \in Phases /\ 1 \in Phases /\ NumPhases \in Phases /\ Phases \subseteq Nat
      /\ group \in Nat /\ \A j \in Items : GroupOf[j] \in Nat /\ GroupOf[j] <= NumGroups
      /\ tally.failed \in Nat /\ NumGroups \in Nat
  BY Numbers DEF RunInStep, TypeOK, Phases, Groups
<1>1. CASE NextGroup
  <2>1. pc = "group" /\ UNCHANGED <<group, worker, mem, save, disk, out, tally, runs>> /\ phase' = 1
    BY <1>1 DEF NextGroup
  <2>2. \A j \in Items : j \notin todo /\ worker[j].at = "idle" /\ Saved(j)
    BY <2>1, AllQuiet
  <2>3. CASE group <= NumGroups /\ pc' = "submit" /\ todo' = Members(group)
    <3>1. MainInStep'
      BY <2>3 DEF MainInStep
    <3>2. ASSUME NEW j \in Items PROVE ItemInStep(j)' /\ OverInStep(j)'
      <4>1. j \in todo' <=> GroupOf[j] = group
        BY <2>3 DEF Members
      <4>2. ItemInStep(j)'
        BY <2>1, <2>2, <2>3, <4>1 DEF ItemInStep, Saved
      <4>3. 1..1 - 1 = {}
        OBVIOUS
      <4>4. Over(j)' => Over(j) /\ GroupOf[j] < group
        BY <2>1, <2>3, <4>1 DEF Over
      <4>5. OverInStep(j)'
        BY <1>0, <2>1, <2>3, <4>1, <4>3, <4>4, GroupSame DEF OverInStep, Complete
      <4> QED
        BY <4>2, <4>5
    <3> QED
      BY <3>1, <3>2 DEF RunInStep
  <2>4. CASE group > NumGroups /\ pc' = "done" /\ UNCHANGED todo
    <3>1. MainInStep'
      <4>1. group > 1 \/ NumGroups = 0
        BY <1>0, <2>4, Numbers DEF TypeOK
      <4> QED
        BY <1>0, <2>1, <2>4, <4>1 DEF MainInStep, Saved
    <3>2. ASSUME NEW j \in Items PROVE ItemInStep(j)' /\ OverInStep(j)'
      <4>1. ItemInStep(j)'
        BY <2>1, <2>2, <2>4 DEF ItemInStep, Saved
      <4>2. Over(j)' => Over(j) /\ GroupOf[j] < group
        BY <1>0, <2>1, <2>4 DEF Over
      <4>3. OverInStep(j)'
        BY <1>0, <2>1, <2>4, <4>2 DEF OverInStep, Complete
      <4> QED
        BY <4>1, <4>3
    <3> QED
      BY <3>1, <3>2 DEF RunInStep
  <2> QED
    BY <1>1, <2>3, <2>4 DEF NextGroup
<1>2. CASE RecordGate
  <2> DEFINE l == [mem EXCEPT !.gates[group] = IF tally.failed = 0 THEN "passed" ELSE "failed"]
  <2>1. /\ pc = "gate" /\ pc' = "gated" /\ Change(Main, l)
        /\ UNCHANGED <<group, phase, todo, worker, disk, out, tally, runs>>
    BY <1>2 DEF RecordGate
  <2>2. l \in Ledger /\ l.rows = mem.rows
    BY <2>1 DEF TypeOK, Ledger
  <2> HIDE DEF l
  <2>3. /\ mem'.rows = mem.rows /\ save'[Main].text = mem' /\ ~Saved(Main)'
        /\ \A u \in Threads \ {Main} : save'[u] = save[u]
    BY <2>1, <2>2, ChangeIs, Numbers
  <2>4. \A j \in Items : j \notin todo /\ worker[j].at = "idle" /\ Saved(j)
    BY <2>1, AllQuiet
  <2>5. ASSUME NEW j \in Items PROVE ItemInStep(j)' /\ OverInStep(j)'
    <3>1. Saved(j)'
      BY <2>3, <2>4, Numbers DEF Saved
    <3>2. ItemInStep(j)'
      BY <2>1, <2>4, <3>1 DEF ItemInStep
    <3>3. OverInStep(j)'
      BY <1>0, <2>1, <2>3 DEF OverInStep, Over, Complete
    <3> QED
      BY <3>2, <3>3
  <2>6. MainInStep'
    BY <2>1, <2>3 DEF MainInStep
  <2> QED
    BY <2>5, <2>6 DEF RunInStep
<1>3. CASE GateRecorded
  <2>1. /\ pc = "gated" /\ Saved(Main) /\ disk = mem
        /\ UNCHANGED <<phase, todo, worker, mem, save, disk, out, tally, runs>>
    BY <1>0, <1>3 DEF GateRecorded, MainInStep
  <2>2. \A j \in Items : j \notin todo /\ worker[j].at = "idle" /\ Saved(j)
    BY <2>1, AllQuiet
  <2>3. \/ pc' = "group" /\ group' = group + 1 /\ tally.failed = 0
        \/ pc' = "done" /\ group' = group
    BY <1>3 DEF GateRecorded
  <2>4. MainInStep'
    BY <2>1, <2>3 DEF MainInStep, Saved
  <2>5. ASSUME NEW j \in Items PROVE ItemInStep(j)' /\ OverInStep(j)'
    <3>1. ItemInStep(j)'
      BY <2>1, <2>2, <2>3 DEF ItemInStep, Saved
    <3>2. Over(j)' => Over(j) /\ (GroupOf[j] < group' => GroupOf[j] < group \/ tally.failed = 0)
      BY <1>0, <2>1, <2>3 DEF Over
    <3>3. OverInStep(j)'
      BY <1>0, <2>1, <2>3, <3>2 DEF OverInStep, Complete
    <3> QED
      BY <3>1, <3>3
  <2> QED
    BY <2>4, <2>5 DEF RunInStep
<1>4. CASE Submitted
  <2>1. /\ pc = "submit" /\ pc' = "collect" /\ todo = {}
        /\ UNCHANGED <<group, phase, todo, worker, mem, save, disk, out, tally, runs>>
    BY <1>4 DEF Submitted
  <2>2. ASSUME NEW j \in Items PROVE ItemInStep(j)' /\ OverInStep(j)'
    <3>1. ItemInStep(j)'
      BY <1>0, <2>1, GroupSame DEF ItemInStep, Saved, Complete
    <3>2. OverInStep(j)'
      BY <1>0, <2>1, GroupSame DEF OverInStep, Over, Complete
    <3> QED
      BY <3>1, <3>2
  <2> QED
    BY <2>1, <2>2 DEF RunInStep, MainInStep
<1>5. CASE Collected
  <2>1. /\ pc = "collect" /\ Saved(Main) /\ \A j \in Items : worker[j].at = "idle" /\ j \notin todo
        /\ UNCHANGED <<group, worker, mem, save, disk, out, tally, runs>>
    BY <1>0, <1>5 DEF Collected, ItemInStep
  <2>2. \A j \in Items : Saved(j)
    BY <1>0, <2>1 DEF ItemInStep
  <2>3. CASE /\ Synchronous(group) /\ phase < NumPhases
             /\ pc' = "submit" /\ phase' = phase + 1 /\ todo' = Members(group)
    <3>1. ASSUME NEW j \in Items PROVE ItemInStep(j)' /\ OverInStep(j)'
      <4>1. j \in todo' <=> GroupOf[j] = group
        BY <2>3 DEF Members
      <4>2. ItemInStep(j)'
        BY <2>1, <2>2, <2>3, <4>1 DEF ItemInStep, Saved
      <4>3. \A q \in 1..(phase + 1) - 1 : q = phase \/ q \in 1..phase - 1
        BY <1>0
      <4>4. GroupOf[j] = group =>
               \A q \in 1..(phase + 1) - 1 : mem.rows[j][q] \in {"passed", "failed"}
        BY <1>0, <2>1, <2>3, <4>3 DEF OverInStep
      <4>5. Over(j)' => Over(j) /\ GroupOf[j] < group
        BY <2>1, <2>3, <4>1 DEF Over
      <4>6. OverInStep(j)'
        BY <1>0, <2>1, <2>3, <4>1, <4>4, <4>5, GroupSame DEF OverInStep, Complete
      <4> QED
        BY <4>2, <4>6
    <3> QED
      BY <2>3, <3>1 DEF RunInStep, MainInStep
  <2>4. CASE /\ ~Synchronous(group) \/ phase = NumPhases
             /\ pc' = "gate" /\ UNCHANGED <<phase, todo>>
    <3>1. ASSUME NEW j \in Items PROVE ItemInStep(j)' /\ OverInStep(j)'
      <4>1. ItemInStep(j)'
        BY <2>1, <2>2, <2>4 DEF ItemInStep, Saved
      <4>2. Over(j)' => Over(j)
        BY <2>1, <2>4 DEF Over
      <4>3. OverInStep(j)'
        BY <1>0, <2>1, <2>4, <4>2 DEF OverInStep, Complete
      <4> QED
        BY <4>1, <4>3
    <3> QED
      BY <2>1, <2>4, <3>1 DEF RunInStep, MainInStep, Saved
  <2> QED
    BY <1>5, <2>3, <2>4 DEF Collected
<1> QED
  BY <1>1, <1>2, <1>3, <1>4, <1>5

LEMMA StartInOrder ==
    ASSUME TypeOK, RunInStep, Start
    PROVE  RunInStep'
<1>1. /\ pc \notin {"submit", "collect", "gated"} /\ pc' = "group" /\ group' = 1 /\ tally'.failed = 0
      /\ mem' \in Loaded(disk) /\ UNCHANGED <<todo, worker, save, disk, out>>
  BY DEF Start
<1>2. \A j \in Items : j \notin todo /\ worker[j].at = "idle" /\ Saved(j)
  BY <1>1, AllQuiet
<1>3. MainInStep'
  <2>1. Saved(Main)'
    BY <1>1 DEF RunInStep, MainInStep, Saved, TypeOK
  <2>2. NumGroups = 0 => mem' = disk'
    <3>1. NumGroups = 0 => Items = {}
      BY Numbers DEF Groups
    <3> QED
      BY <1>1, <3>1, LoadedIs DEF TypeOK
  <2> QED
    BY <1>1, <2>1, <2>2 DEF MainInStep
<1>4. ASSUME NEW j \in Items PROVE ItemInStep(j)' /\ OverInStep(j)'
  <2>1. ItemInStep(j)'
    BY <1>1, <1>2 DEF ItemInStep, Saved
  <2>2. ~(GroupOf[j] < group')
    BY <1>1, Numbers DEF Groups
  <2>3. ~Over(j)'
    BY <1>1, <2>2 DEF Over
  <2> QED
    BY <1>1, <2>1, <2>3 DEF OverInStep
<1> QED
  BY <1>3, <1>4 DEF RunInStep

LEMMA DieInOrder == Die => RunInStep'
<1> SUFFICES ASSUME Die PROVE RunInStep'
  OBVIOUS
<1>1. \A t \in Threads : Saved(t)'
  BY DEF Die, Saved, NoSave
<1>2. \A j \in Items : worker'[j].at = "idle" /\ j \notin todo'
  BY DEF Die, AllIdle
<1>3. pc' = "down" /\ group' = 1 /\ mem' = Blank
  BY DEF Die, Blank
<1> QED
  BY <1>1, <1>2, <1>3, Numbers DEF RunInStep, MainInStep, ItemInStep, OverInStep, Over

LEMMA InitInOrder == Init => RunInStep
<1> SUFFICES ASSUME Init PROVE RunInStep
  OBVIOUS
<1>1. \A t \in Threads : Saved(t)
  BY DEF Init, Saved, NoSave
<1>2. \A j \in Items : worker[j].at = "idle" /\ j \notin todo
  BY DEF Init, AllIdle
<1> QED
  BY <1>1, <1>2, Numbers DEF Init, RunInStep, MainInStep, ItemInStep, OverInStep, Over

LEMMA NextInOrder == TypeOK /\ RunInStep /\ [Next]_vars => RunInStep'
<1> SUFFICES ASSUME TypeOK, RunInStep, [Next]_vars PROVE RunInStep'
  OBVIOUS
<1>1. CASE UNCHANGED vars
  BY <1>1, GroupSame
  DEF vars, RunInStep, MainInStep, ItemInStep, OverInStep, Over, Saved, Complete
<1> QED
  BY <1>1, StartInOrder, DieInOrder, SavingInOrder, WorkInOrder, SubmitInOrder,
     HumanInOrder, CollectInOrder, MainInOrder
  DEF Next, Execute

(* Main, its threads, their saves and the ledger in memory keep in step, through *)
(* deaths and restarts (orchestrator.py:89-252, 322-343).                      *)
THEOREM StepByStep == Spec => []RunInStep
BY InitInOrder, NextInOrder, TypeCorrect, PTL DEF Spec

----------------------------------------------------------------------------
(* The counts.                                                               *)

Total == tally.completed + tally.failed + tally.human

LEMMA TotalType == TypeOK => Total \in Nat
BY DEF TypeOK, Total

LEMMA SameCounted ==
    ASSUME TypeOK, TallyInStep, pc # "down", Total' = Total,
           \A j \in Items : Counted(j)' <=> Counted(j)
    PROVE  TallyInStep'
<1>1. {j \in Items : Counted(j)'} = {j \in Items : Counted(j)}
  OBVIOUS
<1> QED
  BY <1>1 DEF TallyInStep, Total

LEMMA OneCounted ==
    ASSUME TypeOK, TallyInStep, pc # "down", NEW i \in Items, Total' = Total + 1,
           ~Counted(i), Counted(i)',
           \A j \in Items \ {i} : Counted(j)' <=> Counted(j)
    PROVE  TallyInStep'
<1> DEFINE C == {j \in Items : Counted(j)}
           D == {j \in Items : Counted(j)'}
<1>1. IsFiniteSet(C)
  BY ConstantsAssumption, FS_Subset
<1>2. D = C \cup {i} /\ i \notin C
  OBVIOUS
<1>3. Total = Cardinality(C)
  BY DEF TallyInStep, Total
<1> HIDE DEF C, D
<1>4. Cardinality(D) = Cardinality(C) + 1
  BY <1>1, <1>2, FS_AddElement
<1>5. Total' = Cardinality(D)
  BY <1>3, <1>4
<1> QED
  BY <1>5 DEF TallyInStep, Total, D

(* A step of an item counts no other.                                          *)
LEMMA ItemCounts ==
    ASSUME TypeOK, TallyInStep, NEW i \in Items, pc # "down",
           UNCHANGED <<pc, group, phase>>,
           \A j \in Items \ {i} : worker'[j] = worker[j] /\ (j \in todo' <=> j \in todo),
           \/ (Counted(i)' <=> Counted(i)) /\ Total' = Total
           \/ ~Counted(i) /\ Counted(i)' /\ Total' = Total + 1
    PROVE  TallyInStep'
<1>1. \A j \in Items \ {i} : Counted(j)' <=> Counted(j)
  BY GroupSame DEF Counted, Over
<1> QED
  BY <1>1, SameCounted, OneCounted

LEMMA WorkCounts ==
    ASSUME TypeOK, RunInStep, TallyInStep, NEW i \in Items, Work(i)
    PROVE  TallyInStep'
<1>0. /\ ItemInStep(i) /\ worker[i].phase \in Phases /\ i \in Threads
  BY Numbers DEF RunInStep, TypeOK
<1>1. /\ worker[i].at \notin {"idle", "submitted"} /\ worker'[i].at # "idle"
      /\ \A j \in Items \ {i} : worker'[j] = worker[j]
      /\ UNCHANGED <<pc, group, phase, todo, tally>>
  <2>1. worker[i].phase < NumPhases => worker[i].phase + 1 \in Phases
    BY <1>0, Numbers DEF Phases
  <2>2. PICK place \in {"converge", "ready", "store", "raised", "returned"}, p \in Phases :
           Move(i, place, p)
    BY <1>0, <2>1 DEF Work, Dequeue, StartPhase, Converge, Store, Return
  <2>3. place \in Places
    BY DEF Places
  <2>4. /\ worker'[i].at # "idle" /\ \A j \in Items \ {i} : worker'[j] = worker[j]
    BY <2>2, <2>3, MoveIs
  <2> QED
    BY <2>4 DEF Work, Dequeue, StartPhase, Converge, Store
<1>2. pc # "down" /\ i \notin Human
  BY <1>0, <1>1 DEF ItemInStep
<1>3. (Counted(i)' <=> Counted(i)) /\ Total' = Total
  BY <1>0, <1>1, <1>2, GroupSame DEF Counted, Over, Total, ItemInStep
<1> QED
  BY <1>1, <1>2, <1>3, ItemCounts

LEMMA SubmitCounts ==
    ASSUME TypeOK, RunInStep, TallyInStep, NEW i \in Items,
           SubmitSkip(i) \/ SubmitStart(i) \/ Submit(i)
    PROVE  TallyInStep'
<1>0. /\ ItemInStep(i) /\ phase \in Phases /\ 1 \in Phases /\ ~(group < group)
      /\ tally \in [completed : Nat, failed : Nat, human : Nat]
  BY Numbers DEF RunInStep, TypeOK
<1>1. /\ i \in todo /\ GroupOf[i] = group /\ pc = "submit" /\ i \notin Human
      /\ UNCHANGED <<pc, group, phase>>
  BY <1>0 DEF SubmitSkip, SubmitStart, Submit, Submitting, ItemInStep
<1>2. ~Counted(i)
  BY <1>0, <1>1 DEF Counted, Over
<1>3. CASE SubmitSkip(i)
  <2>1. /\ worker[i].at = "idle" /\ worker' = worker /\ todo' = todo \ {i} /\ Synchronous(group)
    BY <1>0, <1>1, <1>3 DEF SubmitSkip, Submitting, ItemInStep
  <2>2. CASE phase = NumPhases
    <3>1. Total' = Total + 1
      BY <1>0, <1>3, <2>2 DEF SubmitSkip, Total
    <3>2. Counted(i)'
      BY <1>1, <2>1, <2>2, GroupSame DEF Counted, Over
    <3> QED
      BY <1>1, <1>2, <2>1, <3>1, <3>2, ItemCounts
  <2>3. CASE phase # NumPhases
    <3>1. Total' = Total
      BY <1>3, <2>3 DEF SubmitSkip, Total
    <3>2. ~Counted(i)'
      BY <1>0, <1>1, <2>1, <2>3, GroupSame DEF Counted, Over
    <3> QED
      BY <1>1, <1>2, <2>1, <3>1, <3>2, ItemCounts
  <2> QED
    BY <2>2, <2>3
<1>4. CASE SubmitStart(i) \/ Submit(i)
  <2>1. worker'[i].at # "idle" /\ \A j \in Items \ {i} : worker'[j] = worker[j]
    <3>1. PICK place \in {"submitted", "queued"}, p \in Phases : Move(i, place, p)
      BY <1>0, <1>4 DEF SubmitStart, Submit
    <3>2. place \in Places
      BY DEF Places
    <3> QED
      BY <3>1, <3>2, MoveIs
  <2>2. ~Counted(i)'
    BY <1>0, <1>1, <2>1 DEF Counted, Over
  <2>3. Total' = Total
    BY <1>4 DEF SubmitStart, Submit, Total
  <2>4. \A j \in Items \ {i} : j \in todo' <=> j \in todo
    BY <1>4 DEF SubmitStart, Submit
  <2> QED
    BY <1>1, <1>2, <2>1, <2>2, <2>3, <2>4, ItemCounts
<1> QED
  BY <1>3, <1>4

LEMMA HumanCounts ==
    ASSUME TypeOK, RunInStep, TallyInStep, NEW i \in Items, HumanStart(i) \/ HumanComplete(i)
    PROVE  TallyInStep'
<1>0. /\ ItemInStep(i) /\ phase \in Phases /\ 1 \in Phases /\ ~(group < group)
      /\ worker[i].phase \in Phases /\ NumPhases \in Phases /\ Phases \subseteq Nat
      /\ tally \in [completed : Nat, failed : Nat, human : Nat]
  BY Numbers DEF RunInStep, TypeOK, Phases
<1>1. /\ i \in todo /\ GroupOf[i] = group /\ pc = "submit" /\ i \in Human
      /\ UNCHANGED <<pc, group, phase>>
  BY <1>0 DEF HumanStart, HumanComplete, Submitting, ItemInStep
<1>2. CASE HumanStart(i)
  <2> DEFINE p == IF Synchronous(group) THEN phase ELSE 1
  <2>1. /\ p \in Phases /\ Move(i, "submitted", p) /\ todo' = todo /\ worker[i].at = "idle"
        /\ tally' = IF p = 1 THEN [tally EXCEPT !.human = @ + 1] ELSE tally
    BY <1>0, <1>1, <1>2 DEF HumanStart, Submitting, ItemInStep
  <2>2. worker'[i].at = "submitted" /\ \A j \in Items \ {i} : worker'[j] = worker[j]
    <3> HIDE DEF p
    <3> QED
      BY <2>1, MoveIs DEF Places
  <2>3. Counted(i)'
    BY <1>1, <2>2 DEF Counted
  <2>4. CASE p = 1
    <3>1. Total' = Total + 1
      BY <1>0, <2>1, <2>4 DEF Total
    <3>2. ~(Synchronous(group) /\ phase > 1)
      BY <1>0, <2>4
    <3>3. ~Counted(i)
      BY <1>0, <1>1, <2>1, <3>2 DEF Counted, Over
    <3> QED
      BY <1>1, <2>1, <2>2, <2>3, <3>1, <3>3, ItemCounts
  <2>5. CASE p # 1
    <3>1. Total' = Total
      BY <2>1, <2>5 DEF Total
    <3>2. Synchronous(group) /\ phase > 1
      BY <1>0, <2>5 DEF Phases
    <3>3. Counted(i)
      BY <1>1, <3>2 DEF Counted
    <3> QED
      BY <1>1, <2>1, <2>2, <2>3, <3>1, <3>3, ItemCounts
  <2> QED
    BY <2>4, <2>5
<1>3. CASE HumanComplete(i)
  <2>1. /\ worker[i].at = "submitted" /\ tally' = tally
        /\ \A j \in Items \ {i} : j \in todo' <=> j \in todo
        /\ todo' = todo \/ i \notin todo'
    BY <1>3 DEF HumanComplete
  <2>2. /\ \A j \in Items \ {i} : worker'[j] = worker[j]
        /\ worker'[i].at = "submitted" \/ i \notin todo'
    <3>1. worker[i].phase < NumPhases => worker[i].phase + 1 \in Phases
      BY <1>0, Numbers DEF Phases
    <3>2. \/ worker' = worker
          \/ \E p \in Phases : Move(i, "submitted", p)
          \/ Move(i, "idle", 1) /\ i \notin todo'
      BY <1>3, <3>1 DEF HumanComplete
    <3>3. "submitted" \in Places /\ "idle" \in Places
      BY DEF Places
    <3> QED
      BY <1>0, <2>1, <3>2, <3>3, MoveIs
  <2>3. Counted(i) /\ Counted(i)'
    BY <1>1, <2>1, <2>2 DEF Counted
  <2>4. Total' = Total
    BY <2>1 DEF Total
  <2> QED
    BY <1>1, <2>1, <2>2, <2>3, <2>4, ItemCounts
<1> QED
  BY <1>2, <1>3

LEMMA CollectCounts ==
    ASSUME TypeOK, RunInStep, TallyInStep, NEW i \in Items, CollectPhase(i) \/ CollectItem(i)
    PROVE  TallyInStep'
<1>0. /\ ItemInStep(i) /\ 1 \in Phases /\ ~(group < group)
      /\ tally \in [completed : Nat, failed : Nat, human : Nat]
  BY Numbers DEF RunInStep, TypeOK
<1>1. /\ i \notin todo /\ GroupOf[i] = group /\ pc = "collect" /\ i \notin Human
      /\ worker[i].at # "idle" /\ UNCHANGED <<pc, group, phase, todo>>
  BY <1>0 DEF CollectPhase, CollectItem, ItemInStep
<1>2. /\ worker'[i].at = "idle" /\ \A j \in Items \ {i} : worker'[j] = worker[j]
  BY <1>0, MoveIs DEF CollectPhase, CollectItem, Places
<1>3. ~Counted(i)
  BY <1>0, <1>1 DEF Counted, Over
<1>4. Counted(i)' <=> (Synchronous(group) => phase = NumPhases)
  BY <1>0, <1>1, <1>2, GroupSame DEF Counted, Over
<1>5. Total' = IF Synchronous(group) /\ phase # NumPhases THEN Total ELSE Total + 1
  BY <1>0 DEF CollectPhase, CollectItem, Count, Total
<1>6. CASE Synchronous(group) => phase = NumPhases
  BY <1>1, <1>2, <1>3, <1>4, <1>5, <1>6, ItemCounts
<1>7. CASE ~(Synchronous(group) => phase = NumPhases)
  BY <1>1, <1>2, <1>3, <1>4, <1>5, <1>7, ItemCounts
<1> QED
  BY <1>6, <1>7

LEMMA MainCounts ==
    ASSUME TypeOK, RunInStep, TallyInStep,
           NextGroup \/ RecordGate \/ GateRecorded \/ Submitted \/ Collected
    PROVE  TallyInStep'
<1>0. /\ \A j \in Items : ItemInStep(j) /\ GroupOf[j] \in Nat /\ GroupOf[j] <= NumGroups
      /\ phase \in Nat /\ phase >= 1 /\ NumPhases \in Nat
      /\ group \in Nat /\ NumGroups \in Nat
  BY Numbers DEF RunInStep, TypeOK, Phases, Groups
<1>1. pc # "down" /\ Total' = Total
  BY DEF NextGroup, RecordGate, GateRecorded, Submitted, Collected, Total
<1>2. ASSUME NEW j \in Items PROVE Counted(j)' <=> Counted(j)
  <2>1. CASE NextGroup
    <3>1. CASE group <= NumGroups /\ pc' = "submit" /\ todo' = Members(group)
      <4>1. ~(phase' > 1) /\ worker'[j].at = "idle" /\ (j \in todo' <=> GroupOf[j] = group)
        BY <2>1, <3>1, AllQuiet DEF NextGroup, Members
      <4> QED
        BY <2>1, <3>1, <4>1 DEF NextGroup, Counted, Over
    <3>2. CASE group > NumGroups /\ pc' = "done" /\ UNCHANGED todo
      BY <1>0, <2>1, <3>2 DEF NextGroup, Counted, Over
    <3> QED
      BY <2>1, <3>1, <3>2 DEF NextGroup
  <2>2. CASE RecordGate
    BY <2>2 DEF RecordGate, Counted, Over
  <2>3. CASE GateRecorded
    <3>1. GroupOf[j] < group + 1 <=> GroupOf[j] < group \/ GroupOf[j] = group
      BY <1>0
    <3>2. GroupOf[j] = group + 1 => ~(GroupOf[j] < group)
      BY <1>0
    <3> QED
      BY <2>3, <3>1, <3>2 DEF GateRecorded, Counted, Over
  <2>4. CASE Submitted
    BY <2>4, GroupSame DEF Submitted, Counted, Over
  <2>5. CASE Collected
    <3>1. worker[j].at = "idle" /\ j \notin todo /\ worker' = worker /\ group' = group
      BY <1>0, <2>5 DEF Collected, ItemInStep
    <3>2. CASE /\ Synchronous(group) /\ phase < NumPhases
               /\ pc' = "submit" /\ phase' = phase + 1 /\ todo' = Members(group)
      <4>1. phase' > 1 /\ phase # NumPhases /\ (j \in todo' <=> GroupOf[j] = group)
        BY <1>0, <3>2 DEF Members
      <4>2. pc = "collect"
        BY <2>5 DEF Collected
      <4> QED
        BY <3>1, <3>2, <4>1, <4>2, GroupSame DEF Counted, Over
    <3>3. CASE /\ ~Synchronous(group) \/ phase = NumPhases
               /\ pc' = "gate" /\ UNCHANGED <<phase, todo>>
      <4>1. pc = "collect"
        BY <2>5 DEF Collected
      <4> QED
        BY <3>1, <3>3, <4>1, GroupSame DEF Counted, Over
    <3> QED
      BY <2>5, <3>2, <3>3 DEF Collected
  <2> QED
    BY <2>1, <2>2, <2>3, <2>4, <2>5
<1> QED
  BY <1>1, <1>2, SameCounted

LEMMA NextCounts == TypeOK /\ RunInStep /\ TallyInStep /\ [Next]_vars => TallyInStep'
<1> SUFFICES ASSUME TypeOK, RunInStep, TallyInStep, [Next]_vars PROVE TallyInStep'
  OBVIOUS
<1>1. CASE Start
  <2>1. \A j \in Items : ~Counted(j)'
    BY <1>1, Numbers DEF Start, Counted, Over, Groups
  <2>2. {j \in Items : Counted(j)'} = {}
    BY <2>1
  <2>3. tally'.completed + tally'.failed + tally'.human = 0
    BY <1>1 DEF Start
  <2> QED
    BY <2>2, <2>3, FS_EmptySet DEF TallyInStep
<1>2. CASE Die
  BY <1>2 DEF Die, TallyInStep
<1>3. CASE UNCHANGED vars \/ \E t \in Threads : Saving(t)
  <2>1. UNCHANGED <<pc, group, phase, todo, worker, tally>>
    BY <1>3 DEF vars, Saving, Truncate, WriteText
  <2>2. \A j \in Items : Counted(j)' <=> Counted(j)
    BY <2>1, GroupSame DEF Counted, Over
  <2>3. CASE pc = "down"
    BY <2>1, <2>3 DEF TallyInStep
  <2>4. CASE pc # "down"
    BY <2>1, <2>2, <2>4, SameCounted DEF Total
  <2> QED
    BY <2>3, <2>4
<1> QED
  BY <1>1, <1>2, <1>3, WorkCounts, SubmitCounts, HumanCounts, CollectCounts, MainCounts
  DEF Next, Execute

(* Work on a phase begins when the earlier ones are over, and what a run goes   *)
(* past was reviewed, every item counted once, for any plan, any number of      *)
(* workers and any death in between (orchestrator.py:43-44, 89-252, 322-343).   *)
THEOREM OrderKept == Spec => []InOrder
<1>1. Init => TallyInStep
  BY DEF Init, TallyInStep
<1>2. TypeOK /\ RunInStep /\ TallyInStep => InOrder
  <2> SUFFICES ASSUME TypeOK, RunInStep, TallyInStep PROVE PhaseOrder /\ PastIsDone
    BY DEF InOrder
  <2>1. PhaseOrder
    BY DEF PhaseOrder, AtWork, RunInStep, ItemInStep, OverInStep, Members
  <2>2. ASSUME pc # "down", NEW i \in Items, GroupOf[i] < group
        PROVE  \A p \in Phases : p = NumPhases \/ ~Synchronous(GroupOf[i]) => Complete(mem, i, p)
    BY <2>2 DEF RunInStep, OverInStep, Over
  <2>3. ASSUME pc \in {"group", "gate", "gated", "done"}
        PROVE  {i \in Items : Counted(i)} =
                  {i \in Items : \/ GroupOf[i] < group
                                 \/ GroupOf[i] = group /\ pc \in {"gate", "gated", "done"}}
    BY <2>3 DEF Counted, Over
  <2>4. PastIsDone
    BY <2>2, <2>3 DEF PastIsDone, TallyInStep
  <2> QED
    BY <2>1, <2>4
<1> QED
  BY <1>1, <1>2, NextCounts, TypeCorrect, StepByStep, PTL DEF Spec

----------------------------------------------------------------------------
(* What the ledger calls passed.                                              *)

(* A step that passes or unpasses nothing a resuming run looks at.             *)
LEMMA PassedAside ==
    ASSUME TypeOK, PassedInStep, disk' = disk, pc # "down", pc' # "down",
           \A i \in Items \ Human, p \in Phases : Synchronous(GroupOf[i]) =>
               (Complete(mem, i, p)' <=> Complete(mem, i, p)),
           \A i \in Items \ Human, p \in Phases : Synchronous(GroupOf[i]) =>
               (Complete(mem, i, p) /\ p \in out[i] => p \in out'[i]),
           \A t \in Threads : save'[t] = save[t] \/ save'[t].text = mem'
    PROVE  PassedInStep'
<1> SUFFICES ASSUME NEW i \in Items \ Human, NEW p \in Phases, Synchronous(GroupOf[i])
             PROVE  /\ Complete(mem, i, p)' => p \in out'[i]
                    /\ Complete(disk, i, p) => p \in out'[i] /\ Complete(mem, i, p)'
                    /\ \A t \in Threads : ~Saved(t)' =>
                          (Complete(save[t].text, i, p)' <=> Complete(mem, i, p)')
  BY DEF PassedInStep, Complete
<1>1. ASSUME NEW t \in Threads, ~Saved(t)'
      PROVE  Complete(save[t].text, i, p)' <=> Complete(mem, i, p)'
  BY <1>1 DEF PassedInStep, Complete, Saved
<1> QED
  BY <1>1 DEF PassedInStep

(* A record of an item whose phases are run again anyway, and one of main.      *)
LEMMA RecordAside ==
    ASSUME TypeOK, PassedInStep, disk' = disk, pc # "down", pc' # "down",
           NEW t \in Threads, NEW k \in Items, NEW q \in Phases, NEW row \in Row,
           Record(t, k, q, row), k \in Human \/ ~Synchronous(GroupOf[k]),
           \A i \in Items \ {k} : out'[i] = out[i], k \in Human => out'[k] = out[k]
    PROVE  PassedInStep'
<1>1. /\ \A j \in Items, p \in Phases : mem'.rows[j][p] =
             IF j = k /\ p = q THEN row ELSE mem.rows[j][p]
      /\ save'[t].text = mem' /\ \A u \in Threads \ {t} : save'[u] = save[u]
  BY RecordIs
<1>2. \A i \in Items \ Human : Synchronous(GroupOf[i]) => i # k
  OBVIOUS
<1> QED
  BY <1>1, <1>2, PassedAside DEF Complete

LEMMA MainRecordPassed ==
    ASSUME TypeOK, PassedInStep, UNCHANGED <<disk, out>>, pc # "down", pc' # "down",
           \A u \in Items : Saved(u),
           NEW k \in Items, NEW q \in Phases, NEW row \in Row, Record(Main, k, q, row),
           ~Complete(mem, k, q), row = "passed" => q \in out[k]
    PROVE  PassedInStep'
<1>1. /\ \A j \in Items, p \in Phases : mem'.rows[j][p] =
             IF j = k /\ p = q THEN row ELSE mem.rows[j][p]
      /\ save'[Main].text = mem' /\ \A u \in Threads \ {Main} : save'[u] = save[u]
  BY RecordIs, Numbers
<1>2. \A u \in Threads : ~Saved(u)' => u = Main
  BY <1>1 DEF Threads, Saved
<1> SUFFICES ASSUME NEW i \in Items \ Human, NEW p \in Phases, Synchronous(GroupOf[i])
             PROVE  /\ Complete(mem, i, p)' => p \in out[i]
                    /\ Complete(disk, i, p) => p \in out[i] /\ Complete(mem, i, p)'
                    /\ \A t \in Threads : ~Saved(t)' =>
                          (Complete(save[t].text, i, p)' <=> Complete(mem, i, p)')
  BY DEF PassedInStep, Complete
<1>3. Complete(mem, i, p)' => p \in out[i]
  BY <1>1 DEF PassedInStep, Complete
<1>4. Complete(mem, i, p) => Complete(mem, i, p)'
  BY <1>1 DEF Complete
<1>5. Complete(disk, i, p) => p \in out[i] /\ Complete(mem, i, p)
  BY DEF PassedInStep
<1>6. \A t \in Threads : ~Saved(t)' =>
         (Complete(save[t].text, i, p)' <=> Complete(mem, i, p)')
  BY <1>1, <1>2 DEF Complete
<1> QED
  BY <1>3, <1>4, <1>5, <1>6

LEMMA WorkPassed ==
    ASSUME TypeOK, RunInStep, PassedInStep, NEW i \in Items, Work(i)
    PROVE  PassedInStep'
<1>0. /\ ItemInStep(i) /\ worker[i].phase \in Phases /\ phase \in Phases /\ i \in Threads
  BY Numbers DEF RunInStep, TypeOK
<1>1. /\ pc \in {"submit", "collect"} /\ pc' = pc /\ disk' = disk /\ GroupOf[i] = group
  BY <1>0 DEF Work, Dequeue, StartPhase, Converge, Store, ItemInStep
<1>2. CASE Dequeue(i)
  BY <1>1, <1>2, PassedAside DEF Dequeue, Complete
<1>3. CASE StartPhase(i)
  <2>1. ~Synchronous(GroupOf[i])
    BY <1>0, <1>1, <1>3 DEF StartPhase, ItemInStep
  <2> DEFINE p == worker[i].phase
  <2>2. "running" \in Row /\ p \in Phases /\ Record(i, i, p, "running")
    BY <1>0, <1>3 DEF StartPhase, Row
  <2>3. out' = out
    BY <1>3 DEF StartPhase
  <2> HIDE DEF p
  <2> QED
    BY <1>0, <1>1, <2>1, <2>2, <2>3, RecordAside
<1>4. CASE Converge(i)
  <2>1. Synchronous(GroupOf[i]) => mem.rows[i][worker[i].phase] # "passed"
    BY <1>0, <1>1, <1>4 DEF Converge, ItemInStep
  <2>2. /\ \A j \in Items : \A p \in Phases : p \in out[j] /\ ~(j = i /\ p = worker[i].phase)
                                             => p \in out'[j]
        /\ UNCHANGED <<mem, save>>
    BY <1>4 DEF Converge, TypeOK
  <2>3. \A j \in Items \ Human, p \in Phases : Synchronous(GroupOf[j]) =>
               (Complete(mem, j, p) /\ p \in out[j] => p \in out'[j])
    BY <2>1, <2>2 DEF Complete
  <2> QED
    BY <1>1, <2>2, <2>3, PassedAside DEF Complete
<1>5. CASE Store(i)
  <2>1. CASE UNCHANGED <<out, mem, save>>
    BY <1>1, <2>1, PassedAside DEF Complete
  <2>2. CASE out' = [out EXCEPT ![i] = @ \cup {worker[i].phase}] /\ Return(i)
    <3>1. (\A j \in Items : out[j] \subseteq out'[j]) /\ \A j \in Items \ {i} : out'[j] = out[j]
      BY <2>2 DEF TypeOK
    <3>2. CASE Synchronous(GroupOf[i])
      <4>1. UNCHANGED <<mem, save>>
        BY <2>2, <3>2 DEF Return
      <4> QED
        BY <1>1, <3>1, <4>1, PassedAside DEF Complete
    <3>3. CASE ~Synchronous(GroupOf[i])
      <4> DEFINE p == worker[i].phase
      <4>1. "passed" \in Row /\ p \in Phases /\ Record(i, i, p, "passed")
        BY <1>0, <2>2, <3>3 DEF Return, Row
      <4>2. i \notin Human
        BY <1>0, <1>5 DEF Store, ItemInStep
      <4> HIDE DEF p
      <4> QED
        BY <1>0, <1>1, <3>1, <3>3, <4>1, <4>2, RecordAside
    <3> QED
      BY <3>2, <3>3
  <2> QED
    BY <1>5, <2>1, <2>2 DEF Store
<1> QED
  BY <1>2, <1>3, <1>4, <1>5 DEF Work

LEMMA ItemPassed ==
    ASSUME TypeOK, RunInStep, PassedInStep, NEW i \in Items,
           \/ SubmitSkip(i) \/ SubmitStart(i) \/ Submit(i)
           \/ HumanStart(i) \/ HumanComplete(i) \/ CollectPhase(i) \/ CollectItem(i)
    PROVE  PassedInStep'
<1>0. /\ ItemInStep(i) /\ worker[i].phase \in Phases /\ phase \in Phases /\ 1 \in Phases
      /\ Main \in Threads
      /\ Row = {"none", "running", "passed", "failed"}
  BY Numbers DEF RunInStep, TypeOK, Row
<1>1. /\ pc \in {"submit", "collect"} /\ pc' = pc /\ UNCHANGED <<disk, out>>
  BY <1>0 DEF SubmitSkip, SubmitStart, Submit, HumanStart, HumanComplete, CollectPhase,
              CollectItem, Submitting, ItemInStep
<1>2. Synchronous(group) => \A u \in Items : Saved(u)
  BY DEF RunInStep, ItemInStep
<1>3. CASE SubmitSkip(i) \/ Submit(i) \/ CollectItem(i)
  <2>1. UNCHANGED <<mem, save>>
    BY <1>3 DEF SubmitSkip, Submit, CollectItem
  <2> QED
    BY <1>1, <2>1, PassedAside DEF Complete
<1>4. CASE SubmitStart(i)
  <2>1. Record(Main, i, phase, "running") /\ ~Complete(mem, i, phase) /\ Synchronous(group)
    BY <1>4 DEF SubmitStart
  <2> QED
    BY <1>0, <1>1, <1>2, <2>1, MainRecordPassed
<1>5. CASE CollectPhase(i)
  <2>1. /\ Synchronous(group) /\ mem.rows[i][phase] = "running"
        /\ worker[i].at = "returned" => phase \in out[i]
    BY <1>0, <1>5 DEF CollectPhase, ItemInStep
  <2>2. ~Complete(mem, i, phase)
    BY <2>1 DEF Complete
  <2>3. PICK row \in {"passed", "failed"} :
           Record(Main, i, phase, row) /\ (row = "passed" => worker[i].at = "returned")
    BY <1>5 DEF CollectPhase
  <2>4. row \in Row /\ (row = "passed" => phase \in out[i])
    BY <1>0, <2>1, <2>3
  <2> QED
    BY <1>0, <1>1, <1>2, <2>1, <2>2, <2>3, <2>4, MainRecordPassed
<1>6. CASE HumanStart(i)
  <2> DEFINE p == IF Synchronous(group) THEN phase ELSE 1
  <2>1. p \in Phases /\ Record(Main, i, p, "running") /\ i \in Human
    BY <1>0, <1>6 DEF HumanStart
  <2> HIDE DEF p
  <2> QED
    BY <1>0, <1>1, <2>1, RecordAside
<1>7. CASE HumanComplete(i)
  <2>1. worker[i].phase < NumPhases => worker[i].phase + 1 \in Phases
    BY <1>0, Numbers DEF Phases
  <2>2. CASE UNCHANGED <<mem, save>>
    BY <1>1, <2>2, PassedAside DEF Complete
  <2>3. CASE \E p \in Phases, row \in {"running", "passed"} : Record(Main, i, p, row)
    <3>1. i \in Human
      BY <1>7 DEF HumanComplete
    <3> QED
      BY <1>0, <1>1, <2>3, <3>1, RecordAside
  <2> QED
    BY <1>0, <1>7, <2>1, <2>2, <2>3 DEF HumanComplete
<1> QED
  BY <1>3, <1>4, <1>5, <1>6, <1>7

LEMMA SavingPassed ==
    ASSUME TypeOK, RunInStep, PassedInStep, NEW t \in Threads, Saving(t)
    PROVE  PassedInStep'
<1>1. /\ UNCHANGED <<pc, mem, out>> /\ ~Saved(t)
  BY DEF Saving, Truncate, WriteText, Saved
<1> SUFFICES ASSUME NEW i \in Items \ Human, NEW p \in Phases, Synchronous(GroupOf[i])
             PROVE  /\ Complete(disk, i, p)' => p \in out[i] /\ Complete(mem, i, p)
                    /\ \A u \in Threads : ~Saved(u)' =>
                          (Complete(save[u].text, i, p)' <=> Complete(mem, i, p))
  BY <1>1 DEF PassedInStep, Complete
<1>2. /\ Complete(save[t].text, i, p) <=> Complete(mem, i, p)
      /\ Complete(mem, i, p) => p \in out[i]
  BY <1>1 DEF PassedInStep
<1>3. CASE Truncate(t)
  <2>1. ~Complete(disk, i, p)'
    BY <1>3, BlankRows DEF Truncate, Complete
  <2> QED
    BY <1>3, <2>1, TruncateIs DEF PassedInStep, Complete
<1>4. CASE WriteText(t)
  <2>1. Complete(disk, i, p)' <=> Complete(save[t].text, i, p)
    BY <1>4, WriteIs DEF Complete
  <2>2. \A u \in Threads : ~Saved(u)' => ~Saved(u) /\ save'[u] = save[u]
    BY <1>4, WriteIs DEF Saved
  <2>3. ASSUME NEW u \in Threads, ~Saved(u)'
        PROVE  Complete(save[u].text, i, p)' <=> Complete(mem, i, p)
    BY <2>2, <2>3 DEF PassedInStep, Complete
  <2> QED
    BY <1>2, <2>1, <2>3
<1> QED
  BY <1>3, <1>4 DEF Saving

LEMMA NextPassed == TypeOK /\ RunInStep /\ PassedInStep /\ [Next]_vars => PassedInStep'
<1> SUFFICES ASSUME TypeOK, RunInStep, PassedInStep, [Next]_vars PROVE PassedInStep'
  OBVIOUS
<1>1. CASE Start
  <2>1. /\ mem' \in Loaded(disk) /\ UNCHANGED <<save, disk, out>> /\ disk \in Ledger
        /\ pc \in {"down", "done"}
    BY <1>1 DEF Start, TypeOK
  <2>2. \A t \in Threads : Saved(t)'
    <3>1. \A t \in Items : Saved(t)
      BY <2>1, AllQuiet
    <3> QED
      BY <2>1, <3>1 DEF RunInStep, MainInStep, Saved, Threads
  <2>3. \A i \in Items, p \in Phases : Complete(mem, i, p)' <=> Complete(disk, i, p)
    BY <2>1, LoadedIs DEF Complete
  <2> QED
    BY <2>1, <2>2, <2>3 DEF PassedInStep, Complete
<1>2. CASE Die
  <2>1. /\ mem' = Blank /\ UNCHANGED <<disk, out>> /\ pc' = "down"
        /\ \A t \in Threads : Saved(t)'
    BY <1>2 DEF Die, Saved, NoSave
  <2>2. \A i \in Items, p \in Phases : ~Complete(mem, i, p)'
    BY <2>1, BlankRows DEF Complete
  <2> QED
    BY <2>1, <2>2 DEF PassedInStep, Complete
<1>3. CASE UNCHANGED vars
  BY <1>3 DEF vars, PassedInStep, Complete, Saved
<1>4. CASE NextGroup \/ GateRecorded \/ Submitted \/ Collected
  <2>1. UNCHANGED <<mem, save, disk, out>> /\ pc # "down" /\ pc' # "down"
    BY <1>4 DEF NextGroup, GateRecorded, Submitted, Collected
  <2> QED
    BY <2>1, PassedAside DEF Complete
<1>5. CASE RecordGate
  <2> DEFINE l == [mem EXCEPT !.gates[group] = IF tally.failed = 0 THEN "passed" ELSE "failed"]
  <2>1. /\ pc = "gate" /\ pc' = "gated" /\ Change(Main, l) /\ UNCHANGED <<disk, out>>
    BY <1>5 DEF RecordGate
  <2>2. l \in Ledger /\ l.rows = mem.rows
    BY <2>1 DEF TypeOK, Ledger
  <2> HIDE DEF l
  <2>3. /\ mem'.rows = mem.rows /\ save'[Main].text = mem'
        /\ \A u \in Threads \ {Main} : save'[u] = save[u]
    BY <2>1, <2>2, ChangeIs, Numbers
  <2> QED
    BY <2>1, <2>3, PassedAside DEF Complete
<1> QED
  BY <1>1, <1>2, <1>3, <1>4, <1>5, WorkPassed, ItemPassed, SavingPassed DEF Next, Execute

(* What the ledger calls passed has its output, and no save on its way knows      *)
(* less than the memory or the disk (orchestrator.py:307-320,                   *)
(* execution_ledger.py:118-121).                                               *)
THEOREM PassedKept == Spec => []PassedInStep
<1>1. Init => PassedInStep
  BY BlankRows DEF Init, PassedInStep, Saved, NoSave
<1> QED
  BY <1>1, NextPassed, TypeCorrect, StepByStep, PTL DEF Spec

(* Between groups and at the end of a run the ledger on disk is the one in      *)
(* memory, however the saves of the threads overtook one another, and what it   *)
(* calls passed has its output (execution_ledger.py:118-121, 206-207,           *)
(* orchestrator.py:179-182, 307-320).                                          *)
THEOREM LedgerTold == Spec => []LedgerTells
<1>1. RunInStep /\ PassedInStep => LedgerTells
  BY DEF RunInStep, MainInStep, PassedInStep, LedgerTells, LedgerSaved, PassedHasOutput
<1> QED
  BY <1>1, StepByStep, PassedKept, PTL

(* A record keeps the texts that are being written.                            *)
LEMMA RecordKeeps ==
    ASSUME TypeOK, NEW t \in Threads, NEW k \in Items, NEW q \in Phases, NEW row \in Row,
           Record(t, k, q, row), Saved(t)
    PROVE  \A u \in Threads : save[u].step = "write" => save'[u] = save[u]
BY RecordIs DEF Saved

LEMMA ItemKeeps ==
    ASSUME TypeOK, RunInStep, NEW i \in Items,
           \/ Work(i) \/ SubmitSkip(i) \/ SubmitStart(i) \/ Submit(i)
           \/ HumanStart(i) \/ HumanComplete(i) \/ CollectPhase(i) \/ CollectItem(i)
    PROVE  /\ disk' = disk
           /\ \A u \in Threads : save[u].step = "write" => save'[u] = save[u]
<1>0. /\ ItemInStep(i) /\ worker[i].phase \in Phases /\ phase \in Phases /\ 1 \in Phases
      /\ Main \in Threads /\ i \in Threads
      /\ {"running", "passed", "failed"} \subseteq Row
  BY Numbers DEF RunInStep, TypeOK, Row
<1>1. disk' = disk
  BY DEF Work, Dequeue, StartPhase, Converge, Store, SubmitSkip, SubmitStart, Submit,
         HumanStart, HumanComplete, CollectPhase, CollectItem
<1>2. \/ UNCHANGED save
      \/ \E t \in {i, Main}, q \in Phases, row \in {"running", "passed", "failed"} :
            Record(t, i, q, row) /\ Saved(t)
  <2>1. CASE Dequeue(i) \/ Converge(i) \/ SubmitSkip(i) \/ Submit(i) \/ CollectItem(i)
    BY <2>1 DEF Dequeue, Converge, SubmitSkip, Submit, CollectItem
  <2>2. CASE StartPhase(i)
    BY <1>0, <2>2 DEF StartPhase
  <2>3. CASE Store(i)
    <3>1. Saved(i)
      BY <1>0, <2>3 DEF Store, ItemInStep
    <3> QED
      BY <1>0, <2>3, <3>1 DEF Store, Return
  <2>4. CASE SubmitStart(i)
    BY <1>0, <2>4 DEF SubmitStart, Submitting
  <2>5. CASE HumanStart(i)
    BY <1>0, <2>5 DEF HumanStart, Submitting
  <2>6. CASE HumanComplete(i)
    <3>1. worker[i].phase < NumPhases => worker[i].phase + 1 \in Phases
      BY <1>0, Numbers DEF Phases
    <3> QED
      BY <1>0, <2>6, <3>1 DEF HumanComplete
  <2>7. CASE CollectPhase(i)
    BY <1>0, <2>7 DEF CollectPhase
  <2> QED
    BY <2>1, <2>2, <2>3, <2>4, <2>5, <2>6, <2>7 DEF Work
<1> QED
  BY <1>0, <1>1, <1>2, RecordKeeps

LEMMA NextDurable ==
    ASSUME ~TornWrites, TypeOK, RunInStep, PassedInStep, [Next]_vars,
           NEW i \in Items \ Human, NEW p \in Phases, Synchronous(GroupOf[i]), Durable(i, p)
    PROVE  Durable(i, p)'
<1>1. ASSUME NEW t \in Threads, Saving(t) PROVE Durable(i, p)'
  <2>1. ~Saved(t)
    BY <1>1 DEF Saving, Truncate, WriteText, Saved
  <2>2. pc # "down"
    BY <2>1, AllQuiet DEF RunInStep, MainInStep, Threads
  <2>3. Complete(save[t].text, i, p) <=> Complete(mem, i, p)
    BY <2>1 DEF PassedInStep
  <2>4. Complete(mem, i, p)
    BY <2>2 DEF Durable, PassedInStep, Saved
  <2>5. CASE Truncate(t)
    BY <2>3, <2>4, <2>5, TruncateIs DEF Durable, Complete
  <2>6. CASE WriteText(t)
    BY <2>3, <2>4, <2>6, WriteIs DEF Durable, Complete
  <2> QED
    BY <1>1, <2>5, <2>6 DEF Saving
<1>2. CASE Die
  BY <1>2 DEF Die, Durable, Complete
<1>3. ASSUME disk' = disk, \A t \in Threads : save[t].step = "write" => save'[t] = save[t]
      PROVE  Durable(i, p)'
  BY <1>3 DEF Durable, Complete
<1>4. CASE \/ UNCHANGED vars \/ Start \/ NextGroup \/ GateRecorded \/ Submitted \/ Collected
  <2>1. UNCHANGED <<disk, save>>
    BY <1>4 DEF vars, Start, NextGroup, GateRecorded, Submitted, Collected
  <2> QED
    BY <1>3, <2>1
<1>5. CASE RecordGate
  <2>1. Saved(Main) /\ disk' = disk
    BY <1>5 DEF RecordGate, RunInStep, MainInStep
  <2>2. \A t \in Threads \ {Main} : save'[t] = save[t]
    BY <1>5 DEF RecordGate, Change, TypeOK
  <2> QED
    BY <1>3, <2>1, <2>2 DEF Saved
<1> QED
  BY <1>1, <1>2, <1>3, <1>4, <1>5, ItemKeeps DEF Next, Execute

(* A phase on disk as passed stays so through deaths, restarts and the saves of *)
(* other threads, as long as no death tears a save (execution_ledger.py:3-5,    *)
(* 118-121, orchestrator.py:178-182).                                          *)
THEOREM WorkIsKept == ASSUME ~TornWrites PROVE Spec => WorkKept
<1>1. TypeOK /\ RunInStep /\ PassedInStep /\ [Next]_vars =>
         \A i \in Items \ Human, p \in Phases :
            Synchronous(GroupOf[i]) /\ Durable(i, p) => Durable(i, p)'
  BY NextDurable
<1> QED
  BY <1>1, TypeCorrect, StepByStep, PassedKept, PTL DEF Spec, WorkKept

=============================================================================
