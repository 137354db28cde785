-------------------------- MODULE FreezeGate_proofs --------------------------
(****************************************************************************)
(* Proofs about FreezeGate, for every set of types, bodies, humans and        *)
(* drivers: type correctness and the verdict record under any interleaving,   *)
(* and, when drivers keep to one call at a time, that what is FROZEN was      *)
(* approved and stays, and that the books agree with the files.              *)
(****************************************************************************)
EXTENDS FreezeGate, TLAPS

(* The memory a call starts from and returns to.                             *)
LEMMA NoJobType == NoJob \in Job
BY ConstantsAssumption DEF NoJob, Job, Text, Absent, Signature, ArtifactStatus

(* TypeOK for a step that leaves the files alone and moves one driver.        *)
LEMMA MoveType ==
    ASSUME TypeOK, NEW p \in Drivers,
           NEW step \in {"idle"} \cup RunSteps \cup FreezeSteps \cup MarkSteps,
           NEW j \in Job,
           Goto(p, step, j),
           JobOK(p)',
           file' \in [Types -> Text],
           \A t \in Types : file[t] # Absent => file'[t] # Absent,
           er' \in Nat \cup {Malformed},
           journal' \in Seq([art: Types, text: Text]),
           verdicts' \subseteq Types \X {"PASS", "FAIL"},
           decisions' = decisions,
           basis' \in [Types -> SUBSET (Types \X Bodies)],
           freezes' \in Nat
    PROVE  TypeOK'
<1>1. /\ pc' \in [Drivers -> {"idle"} \cup RunSteps \cup FreezeSteps \cup MarkSteps]
      /\ job' \in [Drivers -> Job]
  BY DEF TypeOK, Goto
<1>2. ASSUME NEW q \in Drivers, q # p
      PROVE  JobOK(q)'
  <2>1. pc'[q] = pc[q] /\ job'[q] = job[q] /\ JobOK(q)
    BY <1>2 DEF TypeOK, Goto
  <2>2. pc[q] \in FreezeSteps \cup MarkSteps => job[q].art \in Types
    BY <2>1 DEF JobOK, FreezeSteps, MarkSteps
  <2> QED
    BY <2>1, <2>2 DEF JobOK
<1>3. decisions' \subseteq FreezeGateDecision
  BY DEF TypeOK
<1>4. \A q \in Drivers : JobOK(q)'
  BY <1>2
<1> QED
  BY <1>1, <1>3, <1>4 DEF TypeOK

(* UNCHANGED disk, in the parts the proofs speak of.                         *)
LEMMA DiskUnchanged ==
    ASSUME UNCHANGED disk
    PROVE  UNCHANGED file /\ UNCHANGED er /\ UNCHANGED journal /\ UNCHANGED verdicts
BY DEF disk

LEMMA ReturnType ==
    ASSUME TypeOK, NEW p \in Drivers, Return(p), UNCHANGED <<er, journal>>,
           file' \in [Types -> Text],
           \A t \in Types : file[t] # Absent => file'[t] # Absent,
           verdicts' \subseteq Types \X {"PASS", "FAIL"},
           decisions' = decisions,
           basis' \in [Types -> SUBSET (Types \X Bodies)],
           freezes' \in Nat
    PROVE  TypeOK'
<1>1. Goto(p, "idle", NoJob) /\ JobOK(p)'
  BY DEF Return, Goto, JobOK, TypeOK, FreezeSteps, MarkSteps
<1>2. er' \in Nat \cup {Malformed} /\ journal' \in Seq([art: Types, text: Text])
  BY DEF TypeOK
<1> QED
  BY <1>1, <1>2, NoJobType, MoveType

LEMMA RunType ==
    ASSUME TypeOK, NEW p \in Drivers, RunArtifact(p)
    PROVE  TypeOK'
<1> USE DEF TypeOK, RunSteps, FreezeSteps, MarkSteps
<1>1. ASSUME NEW t \in Types, RunStart(p, t)
      PROVE  TypeOK'
  <2> DEFINE j == [NoJob EXCEPT !.art = t]
  <2>1. j \in Job /\ j.art = t
    BY NoJobType DEF Job
  <2>2. Goto(p, "gate", j) /\ JobOK(p)'
    BY <1>1, <2>1 DEF RunStart, Goto, JobOK
  <2> HIDE DEF j
  <2> QED
    BY <1>1, <2>1, <2>2, DiskUnchanged, MoveType DEF RunStart
<1>2. CASE RunGate(p)
  <2>1. CASE Goto(p, "collect", job[p])
    <3>1. JobOK(p)'
      BY <1>2, <2>1 DEF RunGate, Goto, JobOK
    <3> QED
      BY <1>2, <2>1, <3>1, DiskUnchanged, MoveType DEF RunGate
  <2>2. CASE Return(p)
    BY <1>2, <2>2, DiskUnchanged, ReturnType DEF RunGate
  <2> QED
    BY <1>2, <2>1, <2>2 DEF RunGate
<1>3. CASE RunCollect(p)
  <2> DEFINE j == [job[p] EXCEPT !.basis = CollectUpstream]
  <2>1. CollectUpstream \subseteq Types \X Bodies
    BY DEF CollectUpstream, IsFrozen, Text, Absent
  <2>2. j \in Job /\ j.art = job[p].art
    BY <2>1 DEF Job
  <2>3. Goto(p, "loop", j) /\ JobOK(p)'
    BY <1>3, <2>2 DEF RunCollect, Goto, JobOK
  <2> HIDE DEF j
  <2> QED
    BY <1>3, <2>2, <2>3, DiskUnchanged, MoveType DEF RunCollect
<1>4. CASE RunLoop(p)
  <2>1. job[p].art \in Types
    BY <1>4 DEF RunLoop, JobOK
  <2>2. CASE Return(p)
    <3>1. verdicts' \subseteq Types \X {"PASS", "FAIL"}
      <4>1. \/ UNCHANGED verdicts
            \/ verdicts' = verdicts \cup {<<job[p].art, "FAIL">>}
            \/ verdicts' = verdicts \cup {<<job[p].art, "PASS">>}
        BY <1>4 DEF RunLoop
      <4> QED
        BY <2>1, <4>1
    <3> QED
      BY <1>4, <2>2, <3>1, ReturnType DEF RunLoop
  <2>3. ASSUME NEW b \in Bodies,
               verdicts' = verdicts \cup {<<job[p].art, "PASS">>},
               Goto(p, "recheck", [job[p] EXCEPT !.body = b])
        PROVE  TypeOK'
    <3> DEFINE j == [job[p] EXCEPT !.body = b]
    <3>1. j \in Job /\ j.art = job[p].art /\ j.body = b
      BY DEF Job
    <3>2. Goto(p, "recheck", j) /\ JobOK(p)'
      BY <2>1, <2>3, <3>1 DEF Goto, JobOK
    <3>3. verdicts' \subseteq Types \X {"PASS", "FAIL"}
      BY <2>1, <2>3
    <3> HIDE DEF j
    <3> QED
      BY <1>4, <3>1, <3>2, <3>3, MoveType DEF RunLoop
  <2>4. \/ Return(p)
        \/ \E b \in Bodies :
              /\ verdicts' = verdicts \cup {<<job[p].art, "PASS">>}
              /\ Goto(p, "recheck", [job[p] EXCEPT !.body = b])
    BY <1>4 DEF RunLoop
  <2> QED
    BY <2>2, <2>3, <2>4
<1>5. CASE RunRecheck(p)
  <2>1. CASE Goto(p, "persist", job[p])
    <3>1. JobOK(p)'
      BY <1>5, <2>1 DEF RunRecheck, Goto, JobOK
    <3> QED
      BY <1>5, <2>1, <3>1, DiskUnchanged, MoveType DEF RunRecheck
  <2>2. CASE Return(p)
    BY <1>5, <2>2, DiskUnchanged, ReturnType DEF RunRecheck
  <2> QED
    BY <1>5, <2>1, <2>2 DEF RunRecheck
<1>6. CASE RunPersist(p)
  <2> DEFINE x == [status |-> "FREEZE_PENDING", body |-> job[p].body, by |-> NoOne]
  <2>1. job[p].art \in Types /\ job[p].body \in Bodies /\ job[p].basis \subseteq Types \X Bodies
    BY <1>6 DEF RunPersist, JobOK, Job
  <2>2. x \in Text /\ x # Absent
    BY <2>1 DEF Text, Absent, ArtifactStatus, Signature
  <2>3. file' = [file EXCEPT ![job[p].art] = x]
    BY <1>6 DEF RunPersist
  <2> HIDE DEF x
  <2>4. /\ file' \in [Types -> Text]
        /\ \A t \in Types : file[t] # Absent => file'[t] # Absent
    BY <2>1, <2>2, <2>3
  <2>5. basis' \in [Types -> SUBSET (Types \X Bodies)]
    BY <1>6, <2>1 DEF RunPersist
  <2> QED
    BY <1>6, <2>4, <2>5, ReturnType DEF RunPersist
<1>7. ASSUME NEW t \in Assembled, RunLifecycle(p, t) PROVE TypeOK'
  BY <1>7, ConstantsAssumption DEF RunLifecycle, JobOK
<1> QED
  BY <1>1, <1>2, <1>3, <1>4, <1>5, <1>6, <1>7 DEF RunArtifact

(* A step that reads an artifact's text into the call's memory.              *)
LEMMA ReadTextType ==
    ASSUME TypeOK, NEW p \in Drivers,
           \/ ReadText(p, "readStatus", "writeStatus")
           \/ ReadText(p, "readRows", "writeRows")
    PROVE  TypeOK'
<1> USE DEF TypeOK, FreezeSteps, MarkSteps
<1> DEFINE j == [job[p] EXCEPT !.text = file[job[p].art]]
<1>1. job[p].art \in Types /\ file[job[p].art] \in Text /\ file[job[p].art] # Absent
  BY DEF ReadText, JobOK
<1>2. j \in Job /\ j.art = job[p].art /\ j.text = file[job[p].art]
  BY <1>1 DEF Job
<1>3. PICK step \in {"writeStatus", "writeRows"} : Goto(p, step, j)
  BY DEF ReadText
<1>4. UNCHANGED disk /\ UNCHANGED <<decisions, basis, freezes>>
  BY DEF ReadText
<1> HIDE DEF j
<1>5. JobOK(p)'
  BY <1>1, <1>2, <1>3, <1>4, DiskUnchanged DEF Goto, JobOK
<1> QED
  BY <1>2, <1>3, <1>4, <1>5, DiskUnchanged, MoveType

(* A step that writes a text it holds back over the artifact.                *)
LEMMA WriteTextType ==
    ASSUME TypeOK, NEW p \in Drivers, NEW x \in Text, x # Absent,
           job[p].art \in Types,
           file' = [file EXCEPT ![job[p].art] = x]
    PROVE  /\ file' \in [Types -> Text]
           /\ \A t \in Types : file[t] # Absent => file'[t] # Absent
BY DEF TypeOK

LEMMA FreezeType ==
    ASSUME TypeOK, NEW p \in Drivers, ApplyFreezeDecision(p)
    PROVE  TypeOK'
<1> USE DEF TypeOK, RunSteps, FreezeSteps, MarkSteps
<1>1. ASSUME NEW d \in decisions, FreezeCheck(p, d)
      PROVE  TypeOK'
  <2> DEFINE j == [NoJob EXCEPT !.art = d.art, !.seen = d.text, !.by = d.by]
  <2>1. d \in FreezeGateDecision
    OBVIOUS
  <2>2. j \in Job /\ j.art = d.art
    BY <2>1, NoJobType DEF Job, FreezeGateDecision
  <2>3. Goto(p, "readStatus", j) /\ UNCHANGED file
    BY <1>1, DiskUnchanged DEF FreezeCheck
  <2>4. d.art \in Types /\ d.text # Absent /\ file[d.art] = d.text
    BY <1>1, <2>1 DEF FreezeCheck, HashMatches, FreezeGateDecision
  <2>5. /\ UNCHANGED <<er, journal, verdicts, decisions, basis>>
        /\ freezes' \in Nat
    BY <1>1, DiskUnchanged DEF FreezeCheck
  <2> HIDE DEF j
  <2>6. JobOK(p)'
    BY <2>2, <2>3, <2>4 DEF Goto, JobOK
  <2> QED
    BY <2>2, <2>3, <2>5, <2>6, MoveType
<1>2. CASE FreezeReadStatus(p)
  BY <1>2, ReadTextType DEF FreezeReadStatus
<1>3. CASE FreezeWriteStatus(p)
  <2>1. job[p].art \in Types /\ job[p].text \in Text /\ job[p].text # Absent
    BY <1>3 DEF FreezeWriteStatus, JobOK, Job
  <2> DEFINE x == [job[p].text EXCEPT !.status = "FROZEN"]
  <2>2. x \in Text /\ x # Absent
    BY <2>1 DEF Text, Absent, ArtifactStatus
  <2>3. file' = [file EXCEPT ![job[p].art] = x]
    BY <1>3 DEF FreezeWriteStatus
  <2> HIDE DEF x
  <2>4. /\ file' \in [Types -> Text]
        /\ \A t \in Types : file[t] # Absent => file'[t] # Absent
    BY <2>1, <2>2, <2>3, WriteTextType
  <2>5. job[p] \in Job /\ Goto(p, "readRows", job[p])
    BY <1>3 DEF FreezeWriteStatus
  <2>6. JobOK(p)'
    BY <2>1, <2>2, <2>3, <2>5 DEF Goto, JobOK
  <2> QED
    BY <1>3, <2>4, <2>5, <2>6, MoveType DEF FreezeWriteStatus
<1>4. CASE FreezeReadRows(p)
  BY <1>4, ReadTextType DEF FreezeReadRows
<1>5. CASE FreezeWriteRows(p)
  <2>1. /\ job[p].art \in Types /\ job[p].text \in Text /\ job[p].text # Absent
        /\ job[p].by \in Signature
    BY <1>5 DEF FreezeWriteRows, JobOK, Job
  <2> DEFINE x == [job[p].text EXCEPT !.by = job[p].by]
  <2>2. x \in Text /\ x # Absent
    BY <2>1 DEF Text, Absent
  <2>3. file' = [file EXCEPT ![job[p].art] = x]
    BY <1>5 DEF FreezeWriteRows
  <2> HIDE DEF x
  <2>4. /\ file' \in [Types -> Text]
        /\ \A t \in Types : file[t] # Absent => file'[t] # Absent
    BY <2>1, <2>2, <2>3, WriteTextType
  <2>5. job[p] \in Job /\ Goto(p, "readCount", job[p])
    BY <1>5 DEF FreezeWriteRows
  <2>6. JobOK(p)'
    BY <2>1, <2>2, <2>3, <2>5 DEF Goto, JobOK
  <2> QED
    BY <1>5, <2>4, <2>5, <2>6, MoveType DEF FreezeWriteRows
<1>6. CASE FreezeReadCount(p)
  <2>1. CASE Return(p)
    BY <1>6, <2>1, DiskUnchanged, ReturnType DEF FreezeReadCount
  <2>2. CASE er # Malformed /\ Goto(p, "writeCount", [job[p] EXCEPT !.count = er + 1])
    <3> DEFINE j == [job[p] EXCEPT !.count = er + 1]
    <3> DEFINE n == er + 1
    <3>0. n \in Nat /\ job[p] \in Job /\ j = [job[p] EXCEPT !.count = n]
      BY <2>2
    <3> HIDE DEF n
    <3>1. j \in Job /\ j.art = job[p].art
      BY <3>0 DEF Job
    <3>2. Goto(p, "writeCount", j) /\ UNCHANGED file
      BY <1>6, <2>2, DiskUnchanged DEF FreezeReadCount
    <3>3. JobOK(p)'
      BY <1>6, <3>1, <3>2 DEF FreezeReadCount, Goto, JobOK
    <3> HIDE DEF j
    <3> QED
      BY <1>6, <3>1, <3>2, <3>3, DiskUnchanged, MoveType DEF FreezeReadCount
  <2> QED
    BY <1>6, <2>1, <2>2 DEF FreezeReadCount
<1>7. CASE FreezeWriteCount(p)
  <2>1. job[p] \in Job /\ job[p].count \in Nat
    BY DEF Job
  <2>2. JobOK(p)'
    BY <1>7 DEF FreezeWriteCount, Goto, JobOK
  <2> QED
    BY <1>7, <2>1, <2>2, MoveType DEF FreezeWriteCount
<1>8. CASE FreezeJournal(p)
  <2>1. journal' \in Seq([art: Types, text: Text])
    BY <1>8 DEF FreezeJournal, JobOK, Job
  <2>2. Goto(p, "idle", NoJob) /\ JobOK(p)'
    BY <1>8 DEF FreezeJournal, Return, Goto, JobOK
  <2> QED
    BY <1>8, <2>1, <2>2, NoJobType, MoveType DEF FreezeJournal
<1> QED
  BY <1>1, <1>2, <1>3, <1>4, <1>5, <1>6, <1>7, <1>8 DEF ApplyFreezeDecision

LEMMA MarkType ==
    ASSUME TypeOK, NEW p \in Drivers, MarkStatus(p)
    PROVE  TypeOK'
<1> USE DEF TypeOK, RunSteps, FreezeSteps, MarkSteps
<1>1. ASSUME NEW t \in Types, NEW s \in {"HALTED", "FAULTED"}, MarkRead(p, t, s)
      PROVE  TypeOK'
  <2> DEFINE j == [NoJob EXCEPT !.art = t, !.text = file[t], !.mark = s]
  <2>1. j \in Job /\ j.art = t /\ j.text = file[t] /\ j.mark = s
    BY NoJobType DEF Job, ArtifactStatus
  <2>2. Goto(p, "mark", j) /\ UNCHANGED file /\ file[t] # Absent
    BY <1>1, DiskUnchanged DEF MarkRead, Absent
  <2>3. JobOK(p)'
    BY <2>1, <2>2 DEF Goto, JobOK
  <2> HIDE DEF j
  <2> QED
    BY <1>1, <2>1, <2>2, <2>3, DiskUnchanged, MoveType DEF MarkRead
<1>2. CASE MarkWrite(p)
  <2>1. /\ job[p].art \in Types /\ job[p].text \in Text /\ job[p].text # Absent
        /\ job[p].mark \in {"HALTED", "FAULTED"}
    BY <1>2 DEF MarkWrite, JobOK, Job
  <2> DEFINE x == [job[p].text EXCEPT !.status = job[p].mark]
  <2>2. x \in Text /\ x # Absent
    BY <2>1 DEF Text, Absent, ArtifactStatus
  <2>3. file' = [file EXCEPT ![job[p].art] = x]
    BY <1>2 DEF MarkWrite
  <2> HIDE DEF x
  <2>4. /\ file' \in [Types -> Text]
        /\ \A t \in Types : file[t] # Absent => file'[t] # Absent
    BY <2>1, <2>2, <2>3, WriteTextType
  <2> QED
    BY <1>2, <2>4, ReturnType DEF MarkWrite
<1> QED
  BY <1>1, <1>2 DEF MarkStatus

(* Every value stays in its type, whatever the interleaving and wherever a    *)
(* driver dies: in particular a text that is written back is never that of a  *)
(* file that does not exist (state.py:140-159).                              *)
THEOREM TypeCorrect == Spec => []TypeOK
<1>1. Init => TypeOK
  BY NoJobType, ConstantsAssumption
  DEF Init, TypeOK, JobOK, Text, Absent, Signature, ArtifactStatus, FreezeSteps, MarkSteps
<1>2. TypeOK /\ [Next]_vars => TypeOK'
  <2> SUFFICES ASSUME TypeOK, [Next]_vars PROVE TypeOK'
    OBVIOUS
  <2>1. ASSUME NEW p \in Drivers, RunArtifact(p) PROVE TypeOK'
    BY <2>1, RunType
  <2>2. ASSUME NEW p \in Drivers, ApplyFreezeDecision(p) PROVE TypeOK'
    BY <2>2, FreezeType
  <2>3. ASSUME NEW p \in Drivers, MarkStatus(p) PROVE TypeOK'
    BY <2>3, MarkType
  <2>4. ASSUME NEW p \in Drivers, Crash(p) PROVE TypeOK'
    BY <2>4, DiskUnchanged, ReturnType DEF Crash, TypeOK
  <2>5. ASSUME NEW t \in Types, NEW s \in Submissions, Decide(t, s)
        PROVE  TypeOK'
    <3> DEFINE d == [art |-> t, text |-> file[t],
                   outcome |-> s.outcome, by |-> s.by, auto |-> s.auto]
    <3>1. d \in FreezeGateDecision /\ decisions' = decisions \cup {d}
      BY <2>5, ConstantsAssumption DEF Decide, FreezeGateDecision, TypeOK, Absent, Signature
    <3> HIDE DEF d
    <3> QED
      BY <2>5, <3>1, DiskUnchanged DEF Decide, TypeOK, JobOK
  <2>6. CASE UNCHANGED vars
    BY <2>6 DEF vars, TypeOK, JobOK
  <2> QED
    BY <2>1, <2>2, <2>3, <2>4, <2>5, <2>6 DEF Next
<1> QED
  BY <1>1, <1>2, PTL DEF Spec

----------------------------------------------------------------------------
(* With one call at a time, only the driver that moves can disturb what a     *)
(* call relies on.                                                           *)
LEMMA OwnedStep ==
    ASSUME Exclusive, TypeOK, CallOwnsDisk, NEW p \in Drivers, NEW step, NEW j,
           Goto(p, step, j),
           pc[p] # "idle" \/ MayStart(p),
           CallOK(p)'
    PROVE  CallOwnsDisk'
<1>1. pc' = [pc EXCEPT ![p] = step] /\ job' = [job EXCEPT ![p] = j]
  BY DEF Goto
<1>2. \A q \in Drivers : q # p => pc'[q] = "idle"
  BY <1>1 DEF MayStart, CallOwnsDisk, TypeOK
<1>3. ASSUME NEW q \in Drivers, q # p PROVE CallOK(q)'
  BY <1>2, <1>3 DEF CallOK, RunSteps, FreezeSteps
<1> QED
  BY <1>2, <1>3 DEF CallOwnsDisk

LEMMA OwnedReturn ==
    ASSUME Exclusive, TypeOK, CallOwnsDisk, NEW p \in Drivers,
           Return(p), pc[p] # "idle"
    PROVE  CallOwnsDisk'
<1>1. Goto(p, "idle", NoJob) /\ CallOK(p)'
  BY DEF Return, Goto, CallOK, RunSteps, FreezeSteps, TypeOK
<1> QED
  BY <1>1, OwnedStep

LEMMA RunOwns ==
    ASSUME Exclusive, TypeOK, CallOwnsDisk, NEW p \in Drivers, RunArtifact(p)
    PROVE  CallOwnsDisk'
<1>0. CallOK(p) /\ job[p] \in Job
  BY DEF CallOwnsDisk, TypeOK
<1>1. ASSUME NEW t \in Types, RunStart(p, t) PROVE CallOwnsDisk'
  <2> DEFINE j == [NoJob EXCEPT !.art = t]
  <2>1. j.art = t
    BY NoJobType DEF Job
  <2>2. Goto(p, "gate", j) /\ UNCHANGED file /\ ~IsFrozen(t) /\ MayStart(p)
    BY <1>1, DiskUnchanged DEF RunStart
  <2> HIDE DEF j
  <2>3. pc'[p] = "gate" /\ job'[p] = j
    BY <2>2 DEF Goto, TypeOK
  <2>4. CallOK(p)'
    BY <2>1, <2>2, <2>3 DEF CallOK, IsFrozen, RunSteps, FreezeSteps
  <2> QED
    BY <2>2, <2>4, OwnedStep
<1>2. CASE RunGate(p)
  <2>1. CASE UpstreamFrozen(job[p].art) /\ Goto(p, "collect", job[p])
    <3>1. pc[p] = "gate" /\ pc'[p] = "collect" /\ job'[p] = job[p] /\ UNCHANGED file
      BY <1>2, <2>1, DiskUnchanged DEF RunGate, Goto, TypeOK
    <3>2. CallOK(p)'
      BY <1>0, <2>1, <3>1 DEF CallOK, UpstreamFrozen, IsFrozen, RunSteps, FreezeSteps
    <3> QED
      BY <2>1, <3>1, <3>2, OwnedStep
  <2>2. CASE Return(p)
    BY <1>2, <2>2, OwnedReturn DEF RunGate
  <2> QED
    BY <1>2, <2>1, <2>2 DEF RunGate
<1>3. CASE RunCollect(p)
  <2> DEFINE j == [job[p] EXCEPT !.basis = CollectUpstream]
  <2>1. j.art = job[p].art /\ j.basis = CollectUpstream
    BY <1>0 DEF Job
  <2>2. Goto(p, "loop", j) /\ UNCHANGED file /\ pc[p] = "collect"
    BY <1>3, DiskUnchanged DEF RunCollect
  <2> HIDE DEF j
  <2>3. pc'[p] = "loop" /\ job'[p] = j
    BY <2>2 DEF Goto, TypeOK
  <2>4. CallOK(p)'
    BY <1>0, <2>1, <2>2, <2>3
    DEF CallOK, UpstreamFrozen, IsFrozen, CollectUpstream, RunSteps, FreezeSteps
  <2> QED
    BY <2>2, <2>4, OwnedStep
<1>4. CASE RunLoop(p)
  <2>1. CASE Return(p)
    BY <1>4, <2>1, OwnedReturn DEF RunLoop
  <2>2. ASSUME NEW b \in Bodies, Goto(p, "recheck", [job[p] EXCEPT !.body = b])
        PROVE  CallOwnsDisk'
    <3> DEFINE j == [job[p] EXCEPT !.body = b]
    <3>1. j.art = job[p].art /\ j.basis = job[p].basis
      BY <1>0 DEF Job
    <3>2. Goto(p, "recheck", j) /\ UNCHANGED file /\ pc[p] = "loop"
      BY <1>4, <2>2 DEF RunLoop
    <3> HIDE DEF j
    <3>3. pc'[p] = "recheck" /\ job'[p] = j
      BY <3>2 DEF Goto, TypeOK
    <3>4. CallOK(p)'
      BY <1>0, <3>1, <3>2, <3>3
      DEF CallOK, UpstreamFrozen, IsFrozen, CollectUpstream, RunSteps, FreezeSteps
    <3> QED
      BY <3>2, <3>4, OwnedStep
  <2> QED
    BY <1>4, <2>1, <2>2 DEF RunLoop
<1>5. CASE RunRecheck(p)
  <2>1. CASE Goto(p, "persist", job[p])
    <3>1. pc[p] = "recheck" /\ pc'[p] = "persist" /\ job'[p] = job[p] /\ UNCHANGED file
      BY <1>5, <2>1, DiskUnchanged DEF RunRecheck, Goto, TypeOK
    <3>2. CallOK(p)'
      BY <1>0, <3>1 DEF CallOK, UpstreamFrozen, IsFrozen, CollectUpstream, RunSteps, FreezeSteps
    <3> QED
      BY <2>1, <3>1, <3>2, OwnedStep
  <2>2. CASE Return(p)
    BY <1>5, <2>2, OwnedReturn DEF RunRecheck
  <2> QED
    BY <1>5, <2>1, <2>2 DEF RunRecheck
<1>6. CASE RunPersist(p)
  BY <1>6, OwnedReturn DEF RunPersist
<1>7. ASSUME NEW t \in Assembled, RunLifecycle(p, t) PROVE CallOwnsDisk'
  BY <1>7 DEF RunLifecycle, CallOwnsDisk, CallOK, IsFrozen, UpstreamFrozen, CollectUpstream, Approved
<1> QED
  BY <1>1, <1>2, <1>3, <1>4, <1>5, <1>6, <1>7 DEF RunArtifact

(* What a write of the artifact's own text back over it does.                *)
LEMMA WriteBack ==
    ASSUME TypeOK, NEW p \in Drivers, NEW x \in Text, job[p].art \in Types,
           file' = [file EXCEPT ![job[p].art] = x]
    PROVE  /\ file'[job[p].art] = x
           /\ \A t \in Types : t # job[p].art => file'[t] = file[t]
BY DEF TypeOK

(* What the two freeze writes put on disk when the call owns it.             *)
LEMMA FreezeWrites ==
    ASSUME TypeOK, CallOwnsDisk, NEW p \in Drivers,
           FreezeWriteStatus(p) \/ FreezeWriteRows(p)
    PROVE  LET t == job[p].art IN
           /\ t \in Types
           /\ file'[t].status = "FROZEN"
           /\ file'[t].body = file[t].body
           /\ file'[t].by = IF pc[p] = "writeRows" THEN job[p].by ELSE file[t].by
           /\ \A u \in Types : u # t => file'[u] = file[u]
<1> DEFINE t == job[p].art
<1>1. /\ t \in Types /\ job[p] \in Job /\ job[p].text = file[t] /\ file[t] \in Text
      /\ file[t] # Absent
      /\ FreezeWriteRows(p) => file[t].status = "FROZEN"
  BY DEF FreezeWriteStatus, FreezeWriteRows, TypeOK, JobOK, CallOwnsDisk, CallOK,
         FreezeSteps, IsFrozen
<1>2. CASE FreezeWriteStatus(p)
  <2> DEFINE x == [job[p].text EXCEPT !.status = "FROZEN"]
  <2>1. /\ x \in Text /\ x.status = "FROZEN" /\ x.body = file[t].body
        /\ x.by = file[t].by
    BY <1>1 DEF Text, Absent, ArtifactStatus
  <2>2. file' = [file EXCEPT ![job[p].art] = x] /\ pc[p] = "writeStatus"
    BY <1>2 DEF FreezeWriteStatus
  <2> HIDE DEF x
  <2> QED
    BY <1>1, <2>1, <2>2, WriteBack
<1>3. CASE FreezeWriteRows(p)
  <2> DEFINE x == [job[p].text EXCEPT !.by = job[p].by]
  <2>1. /\ x \in Text /\ x.status = "FROZEN" /\ x.body = file[t].body
        /\ x.by = job[p].by
    BY <1>1, <1>3 DEF Text, Absent, Job
  <2>2. file' = [file EXCEPT ![job[p].art] = x] /\ pc[p] = "writeRows"
    BY <1>3 DEF FreezeWriteRows
  <2> HIDE DEF x
  <2> QED
    BY <1>1, <2>1, <2>2, WriteBack
<1> QED
  BY <1>2, <1>3

LEMMA FreezeOwns ==
    ASSUME Exclusive, TypeOK, CallOwnsDisk, NEW p \in Drivers, ApplyFreezeDecision(p)
    PROVE  CallOwnsDisk'
<1>0. CallOK(p) /\ job[p] \in Job
  BY DEF CallOwnsDisk, TypeOK
<1>1. ASSUME NEW d \in decisions, FreezeCheck(p, d) PROVE CallOwnsDisk'
  <2> DEFINE j == [NoJob EXCEPT !.art = d.art, !.seen = d.text, !.by = d.by]
  <2>1. j.art = d.art /\ j.seen = d.text
    BY NoJobType DEF Job
  <2>2. /\ Goto(p, "readStatus", j) /\ MayStart(p)
        /\ UNCHANGED file /\ UNCHANGED decisions
    BY <1>1, DiskUnchanged DEF FreezeCheck
  <2>3. file[d.art] = d.text /\ Approved(d.art, d.text.body)
    BY <1>1 DEF FreezeCheck, HashMatches, Approved
  <2> HIDE DEF j
  <2>4. pc'[p] = "readStatus" /\ job'[p] = j
    BY <2>2 DEF Goto, TypeOK
  <2>5. CallOK(p)'
    BY <2>1, <2>2, <2>3, <2>4 DEF CallOK, Approved, RunSteps, FreezeSteps
  <2> QED
    BY <2>2, <2>5, OwnedStep
<1>2. ASSUME NEW step \in FreezeSteps, NEW next \in {"writeStatus", "writeRows"},
             ReadText(p, step, next),
             next = "writeRows" => step = "readRows"
      PROVE  CallOwnsDisk'
  <2> DEFINE j == [job[p] EXCEPT !.text = file[job[p].art]]
  <2>1. j.art = job[p].art /\ j.seen = job[p].seen /\ j.text = file[job[p].art]
    BY <1>0 DEF Job
  <2>2. /\ Goto(p, next, j) /\ pc[p] = step
        /\ UNCHANGED file /\ UNCHANGED decisions
    BY <1>2, DiskUnchanged DEF ReadText
  <2> HIDE DEF j
  <2>3. pc'[p] = next /\ job'[p] = j
    BY <2>2 DEF Goto, TypeOK
  <2>4. CallOK(p)'
    BY <1>0, <1>2, <2>1, <2>2, <2>3 DEF CallOK, Approved, IsFrozen, RunSteps, FreezeSteps
  <2> QED
    BY <2>2, <2>4, OwnedStep DEF FreezeSteps
<1>3. ASSUME NEW next \in {"readRows", "readCount"},
             FreezeWriteStatus(p) \/ FreezeWriteRows(p),
             Goto(p, next, job[p])
      PROVE  CallOwnsDisk'
  <2>1. /\ pc'[p] = next /\ job'[p] = job[p]
        /\ pc[p] \in {"writeStatus", "writeRows"} /\ UNCHANGED decisions
    BY <1>3 DEF Goto, TypeOK, FreezeWriteStatus, FreezeWriteRows
  <2>2. CallOK(p)'
    BY <1>0, <1>3, <2>1, FreezeWrites DEF CallOK, Approved, IsFrozen, RunSteps, FreezeSteps
  <2> QED
    BY <1>3, <2>1, <2>2, OwnedStep
<1>4. ASSUME NEW j \in Job, NEW step \in {"writeCount", "journal"},
             j.art = job[p].art, j.seen = job[p].seen,
             Goto(p, step, j), pc[p] \in {"readCount", "writeCount"},
             UNCHANGED file, UNCHANGED decisions
      PROVE  CallOwnsDisk'
  <2>1. pc'[p] = step /\ job'[p] = j
    BY <1>4 DEF Goto, TypeOK
  <2>2. CallOK(p)'
    BY <1>0, <1>4, <2>1 DEF CallOK, Approved, IsFrozen, RunSteps, FreezeSteps
  <2> QED
    BY <1>4, <2>2, OwnedStep
<1>5. CASE FreezeReadCount(p)
  <2>1. CASE Return(p)
    BY <1>5, <2>1, OwnedReturn DEF FreezeReadCount
  <2>2. CASE er # Malformed /\ Goto(p, "writeCount", [job[p] EXCEPT !.count = er + 1])
    <3> DEFINE n == er + 1
    <3>1. n \in Nat
      BY <2>2 DEF TypeOK
    <3>2. /\ pc[p] = "readCount" /\ Goto(p, "writeCount", [job[p] EXCEPT !.count = n])
          /\ UNCHANGED file /\ UNCHANGED decisions
      BY <1>5, <2>2, DiskUnchanged DEF FreezeReadCount
    <3> HIDE DEF n
    <3> DEFINE j == [job[p] EXCEPT !.count = n]
    <3>3. j \in Job /\ j.art = job[p].art /\ j.seen = job[p].seen
      BY <1>0, <3>1 DEF Job
    <3> HIDE DEF j
    <3>4. Goto(p, "writeCount", j)
      BY <3>2 DEF j
    <3> QED
      BY <1>4, <3>2, <3>3, <3>4
  <2> QED
    BY <1>5, <2>1, <2>2 DEF FreezeReadCount
<1>6. CASE FreezeWriteCount(p)
  BY <1>0, <1>4, <1>6 DEF FreezeWriteCount
<1>7. CASE FreezeJournal(p)
  BY <1>7, OwnedReturn DEF FreezeJournal
<1>8. FreezeReadStatus(p) \/ FreezeReadRows(p) => CallOwnsDisk'
  BY <1>2 DEF FreezeReadStatus, FreezeReadRows, FreezeSteps
<1>9. FreezeWriteStatus(p) \/ FreezeWriteRows(p) => CallOwnsDisk'
  BY <1>3 DEF FreezeWriteStatus, FreezeWriteRows
<1> QED
  BY <1>1, <1>5, <1>6, <1>7, <1>8, <1>9 DEF ApplyFreezeDecision

LEMMA MarkOwns ==
    ASSUME Exclusive, TypeOK, CallOwnsDisk, NEW p \in Drivers, MarkStatus(p)
    PROVE  CallOwnsDisk'
<1>1. ASSUME NEW t \in Types, NEW s \in {"HALTED", "FAULTED"}, MarkRead(p, t, s)
      PROVE  CallOwnsDisk'
  <2> DEFINE j == [NoJob EXCEPT !.art = t, !.text = file[t], !.mark = s]
  <2>1. j.art = t /\ j.text = file[t]
    BY NoJobType DEF Job
  <2>2. /\ Goto(p, "mark", j) /\ UNCHANGED file /\ MayStart(p)
        /\ AndonAnywhere \/ ~IsFrozen(t)
    BY <1>1, DiskUnchanged DEF MarkRead
  <2> HIDE DEF j
  <2>3. pc'[p] = "mark" /\ job'[p] = j
    BY <2>2 DEF Goto, TypeOK
  <2>4. CallOK(p)'
    BY <2>1, <2>2, <2>3 DEF CallOK, IsFrozen, RunSteps, FreezeSteps
  <2> QED
    BY <2>2, <2>4, OwnedStep
<1>2. CASE MarkWrite(p)
  BY <1>2, OwnedReturn DEF MarkWrite
<1> QED
  BY <1>1, <1>2 DEF MarkStatus

LEMMA NextOwns ==
    ASSUME Exclusive, TypeOK, CallOwnsDisk, [Next]_vars
    PROVE  CallOwnsDisk'
<1>1. ASSUME NEW p \in Drivers, Crash(p) PROVE CallOwnsDisk'
  BY <1>1, OwnedReturn DEF Crash
<1>2. ASSUME NEW t \in Types, NEW s \in Submissions, Decide(t, s)
      PROVE  CallOwnsDisk'
  <2>1. UNCHANGED <<file, pc, job>> /\ decisions \subseteq decisions'
    BY <1>2, DiskUnchanged DEF Decide
  <2> QED
    BY <2>1 DEF CallOwnsDisk, CallOK, Approved, UpstreamFrozen, CollectUpstream, IsFrozen
<1>3. CASE UNCHANGED vars
  BY <1>3 DEF vars, CallOwnsDisk, CallOK, Approved, UpstreamFrozen, CollectUpstream, IsFrozen
<1> QED
  BY <1>1, <1>2, <1>3, RunOwns, FreezeOwns, MarkOwns DEF Next

(* With one call at a time, what a call read and checked stays true until it  *)
(* returns (driver.py:143-224, freeze.py:110-164): the inductive invariant    *)
(* the theorems below rest on, together with type correctness.               *)
THEOREM CallsOwnDisk == ASSUME Exclusive PROVE Spec => []CallOwnsDisk
<1>1. Init => CallOwnsDisk
  BY DEF Init, CallOwnsDisk, CallOK, RunSteps, FreezeSteps
<1>2. TypeOK /\ CallOwnsDisk /\ [Next]_vars => CallOwnsDisk'
  BY NextOwns
<1> QED
  BY <1>1, <1>2, TypeCorrect, PTL DEF Spec

----------------------------------------------------------------------------
(* What a step with one call at a time may do to the files.                  *)
OthersKept(t) == \A u \in Types : u # t => file'[u] = file[u]

Revised(t) ==
    /\ ~IsFrozen(t) /\ UpstreamFrozen(t) /\ OthersKept(t)
    /\ file'[t].status = "FREEZE_PENDING" /\ file'[t].body \in Bodies
    /\ basis' = [basis EXCEPT ![t] = CollectUpstream]
    /\ UNCHANGED decisions

Frozen(t) ==
    /\ Approved(t, file[t].body) /\ OthersKept(t)
    /\ file[t].status # "ABSENT"
    /\ file'[t].status = "FROZEN" /\ file'[t].body = file[t].body
    /\ UNCHANGED <<basis, decisions>>

Marked(t) ==
    /\ AndonAnywhere \/ ~IsFrozen(t)
    /\ OthersKept(t)
    /\ file[t].status # "ABSENT"
    /\ file'[t].status \in {"HALTED", "FAULTED"} /\ file'[t].body = file[t].body
    /\ UNCHANGED <<basis, decisions>>

Decided(t, d) ==
    /\ file[t].status # "ABSENT" /\ file[t].body \in Bodies
    /\ d.art = t /\ d.text = file[t]
    /\ decisions' = decisions \cup {d}
    /\ UNCHANGED <<file, basis>>

LEMMA FileStep ==
    ASSUME TypeOK, CallOwnsDisk, [Next]_vars
    PROVE  \/ UNCHANGED <<file, basis, decisions>>
           \/ \E t \in Types : \E d : Decided(t, d)
           \/ \E t \in Types : Revised(t) \/ Frozen(t) \/ Marked(t)
<1>1. CASE UNCHANGED vars
  BY <1>1 DEF vars
<1>2. ASSUME NEW t \in Types, NEW s \in Submissions, Decide(t, s)
      PROVE  \E u \in Types : \E d : Decided(u, d)
  <2> DEFINE d == [art |-> t, text |-> file[t],
                   outcome |-> s.outcome, by |-> s.by, auto |-> s.auto]
  <2>1. file[t].status # "ABSENT" /\ file[t].body \in Bodies
    BY <1>2 DEF Decide, TypeOK, Text, Absent
  <2>2. Decided(t, d)
    BY <1>2, <2>1, DiskUnchanged DEF Decide, Decided
  <2> HIDE DEF d
  <2> QED
    BY <2>2
<1>3. ASSUME NEW p \in Drivers, RunPersist(p)
      PROVE  \E t \in Types : Revised(t)
  <2> DEFINE t == job[p].art
             x == [status |-> "FREEZE_PENDING", body |-> job[p].body, by |-> NoOne]
  <2>1. /\ t \in Types /\ job[p] \in Job /\ job[p].body \in Bodies
        /\ ~IsFrozen(t) /\ UpstreamFrozen(t) /\ job[p].basis = CollectUpstream
    BY <1>3 DEF RunPersist, TypeOK, JobOK, CallOwnsDisk, CallOK, RunSteps
  <2>2. x \in Text /\ x.status = "FREEZE_PENDING" /\ x.body = job[p].body
    BY <2>1 DEF Text, ArtifactStatus, Signature
  <2>3. file' = [file EXCEPT ![job[p].art] = x]
    BY <1>3 DEF RunPersist
  <2>4. basis' = [basis EXCEPT ![t] = CollectUpstream] /\ UNCHANGED decisions
    BY <1>3, <2>1 DEF RunPersist
  <2> HIDE DEF x
  <2>5. Revised(t)
    BY <2>1, <2>2, <2>3, <2>4, WriteBack DEF Revised, OthersKept
  <2> QED
    BY <2>1, <2>5
<1>4. ASSUME NEW p \in Drivers, FreezeWriteStatus(p) \/ FreezeWriteRows(p)
      PROVE  \E t \in Types : Frozen(t)
  <2> DEFINE t == job[p].art
  <2>1. /\ t \in Types /\ Approved(t, file[t].body)
        /\ file[t].status # "ABSENT"
    BY <1>4 DEF FreezeWriteStatus, FreezeWriteRows, TypeOK, JobOK, CallOwnsDisk,
                CallOK, FreezeSteps, Text
  <2>2. UNCHANGED <<basis, decisions>>
    BY <1>4 DEF FreezeWriteStatus, FreezeWriteRows
  <2>3. Frozen(t)
    BY <1>4, <2>1, <2>2, FreezeWrites DEF Frozen, OthersKept
  <2> QED
    BY <2>1, <2>3
<1>5. ASSUME NEW p \in Drivers, MarkWrite(p)
      PROVE  \E t \in Types : Marked(t)
  <2> DEFINE t == job[p].art
             x == [job[p].text EXCEPT !.status = job[p].mark]
  <2>1. /\ t \in Types /\ job[p] \in Job /\ job[p].text = file[t] /\ file[t] \in Text
        /\ file[t] # Absent /\ job[p].mark \in {"HALTED", "FAULTED"}
        /\ AndonAnywhere \/ ~IsFrozen(t)
    BY <1>5 DEF MarkWrite, TypeOK, JobOK, CallOwnsDisk, CallOK, MarkSteps
  <2>2. /\ x \in Text /\ x.status \in {"HALTED", "FAULTED"} /\ x.body = file[t].body
        /\ file[t].status # "ABSENT"
    BY <2>1 DEF Text, Absent, ArtifactStatus
  <2>3. file' = [file EXCEPT ![job[p].art] = x] /\ UNCHANGED <<basis, decisions>>
    BY <1>5 DEF MarkWrite
  <2> HIDE DEF x
  <2>4. Marked(t)
    BY <2>1, <2>2, <2>3, WriteBack DEF Marked, OthersKept
  <2> QED
    BY <2>1, <2>4
<1>6. ASSUME NEW p \in Drivers, RunArtifact(p), ~RunPersist(p)
      PROVE  UNCHANGED <<file, basis, decisions>>
  BY <1>6, DiskUnchanged
  DEF RunArtifact, RunStart, RunGate, RunCollect, RunLoop, RunRecheck, RunLifecycle
<1>7. ASSUME NEW p \in Drivers, ApplyFreezeDecision(p),
             ~FreezeWriteStatus(p), ~FreezeWriteRows(p)
      PROVE  UNCHANGED <<file, basis, decisions>>
  BY <1>7, DiskUnchanged
  DEF ApplyFreezeDecision, FreezeCheck, FreezeReadStatus, FreezeReadRows, ReadText,
      FreezeReadCount, FreezeWriteCount, FreezeJournal
<1>8. ASSUME NEW p \in Drivers, MarkStatus(p), ~MarkWrite(p)
      PROVE  UNCHANGED <<file, basis, decisions>>
  BY <1>8, DiskUnchanged DEF MarkStatus, MarkRead
<1>9. ASSUME NEW p \in Drivers, Crash(p)
      PROVE  UNCHANGED <<file, basis, decisions>>
  BY <1>9, DiskUnchanged DEF Crash
<1> QED
  BY <1>1, <1>2, <1>3, <1>4, <1>5, <1>6, <1>7, <1>8, <1>9 DEF Next

----------------------------------------------------------------------------
(* With one call at a time, what is FROZEN is content a named human approved, *)
(* for any number of drivers, artifacts and decisions (freeze.py:110-132).    *)
THEOREM FrozenApproved == ASSUME Exclusive PROVE Spec => []FrozenWasApproved
<1>1. Init => FrozenWasApproved
  BY DEF Init, FrozenWasApproved, IsFrozen, Absent
<1>2. TypeOK /\ CallOwnsDisk /\ FrozenWasApproved /\ [Next]_vars => FrozenWasApproved'
  <2> SUFFICES ASSUME TypeOK, CallOwnsDisk, FrozenWasApproved, [Next]_vars
               PROVE  FrozenWasApproved'
    OBVIOUS
  <2>1. CASE UNCHANGED <<file, basis>> /\ decisions \subseteq decisions'
    BY <2>1 DEF FrozenWasApproved, IsFrozen, Approved
  <2>2. ASSUME NEW t \in Types, Revised(t) \/ Frozen(t) \/ Marked(t)
        PROVE  FrozenWasApproved'
    BY <2>2 DEF Revised, Frozen, Marked, OthersKept, FrozenWasApproved, IsFrozen, Approved
  <2> QED
    BY <2>1, <2>2, FileStep DEF Decided
<1> QED
  BY <1>1, <1>2, TypeCorrect, CallsOwnDisk, PTL DEF Spec

(* With one call at a time, and the andon cord pulled only on what is not     *)
(* FROZEN, a FROZEN artifact keeps its status and body (driver.py:73-79).     *)
THEOREM Immutable ==
    ASSUME Exclusive, ~AndonAnywhere PROVE Spec => FrozenImmutable
<1>1. TypeOK /\ CallOwnsDisk /\ [Next]_vars =>
        \A t \in Types :
          IsFrozen(t) => file'[t].status = "FROZEN" /\ file'[t].body = file[t].body
  <2> SUFFICES ASSUME TypeOK, CallOwnsDisk, [Next]_vars, NEW t \in Types, IsFrozen(t)
               PROVE  file'[t].status = "FROZEN" /\ file'[t].body = file[t].body
    OBVIOUS
  <2>1. ASSUME NEW u \in Types, Revised(u) \/ Frozen(u) \/ Marked(u)
        PROVE  file'[t].status = "FROZEN" /\ file'[t].body = file[t].body
    BY <2>1 DEF Revised, Frozen, Marked, OthersKept, IsFrozen
  <2> QED
    BY <2>1, FileStep DEF IsFrozen, Decided
<1> QED
  BY <1>1, TypeCorrect, CallsOwnDisk, PTL DEF Spec, FrozenImmutable

(* With one call at a time, an artifact on disk was derived from every        *)
(* upstream type it requires, and only from approved content                  *)
(* (driver.py:152-166, invariants.py:80-116).                                 *)
THEOREM Promoted == ASSUME Exclusive PROVE Spec => []PromotedFromApproved
<1>1. Init => PromotedFromApproved
  BY DEF Init, PromotedFromApproved, Absent
<1>2. /\ TypeOK /\ CallOwnsDisk /\ FrozenWasApproved /\ PromotedFromApproved
      /\ [Next]_vars
      => PromotedFromApproved'
  <2> SUFFICES ASSUME TypeOK, CallOwnsDisk, FrozenWasApproved, PromotedFromApproved,
                      [Next]_vars
               PROVE  PromotedFromApproved'
    OBVIOUS
  <2>1. CASE UNCHANGED <<file, basis>> /\ decisions \subseteq decisions'
    BY <2>1 DEF PromotedFromApproved, Approved
  <2>2. ASSUME NEW t \in Types, Revised(t)
        PROVE  PromotedFromApproved'
    <3>1. \A u \in Upstream[t] :
            /\ u \in Types /\ file[u].body \in Bodies
            /\ <<u, file[u].body>> \in CollectUpstream
      <4> SUFFICES ASSUME NEW u \in Upstream[t]
                   PROVE  /\ u \in Types /\ file[u].body \in Bodies
                          /\ <<u, file[u].body>> \in CollectUpstream
        OBVIOUS
      <4>1. u \in Types /\ IsFrozen(u)
        BY <2>2, ConstantsAssumption DEF Revised, UpstreamFrozen
      <4>2. file[u] \in Text /\ file[u].status = "FROZEN"
        BY <4>1 DEF TypeOK, IsFrozen
      <4> QED
        BY <4>1, <4>2 DEF CollectUpstream, Text, Absent
    <3>2. \A ub \in CollectUpstream : Approved(ub[1], ub[2])
      BY DEF CollectUpstream, FrozenWasApproved
    <3>3. basis'[t] = CollectUpstream /\ \A u \in Types : u # t => basis'[u] = basis[u]
      BY <2>2 DEF Revised, TypeOK
    <3>4. \A u \in Types : u # t => file'[u] = file[u]
      BY <2>2 DEF Revised, OthersKept
    <3>5. UNCHANGED decisions
      BY <2>2 DEF Revised
    <3> QED
      BY <3>1, <3>2, <3>3, <3>4, <3>5 DEF PromotedFromApproved, Approved
  <2>3. ASSUME NEW t \in Types, Frozen(t) \/ Marked(t)
        PROVE  PromotedFromApproved'
    BY <2>3 DEF Frozen, Marked, OthersKept, PromotedFromApproved, Approved
  <2> QED
    BY <2>1, <2>2, <2>3, FileStep DEF Decided
<1> QED
  BY <1>1, <1>2, TypeCorrect, CallsOwnDisk, FrozenApproved, PTL DEF Spec

(* Under the assumptions of Immutable, what an artifact was derived from is   *)
(* still frozen with that content, however long ago it was derived            *)
(* (driver.py:73-79 and 166).                                                 *)
THEOREM Chain == ASSUME Exclusive, ~AndonAnywhere PROVE Spec => []ChainConsistent
<1>1. Init => ChainConsistent
  BY DEF Init, ChainConsistent
<1>2. TypeOK /\ CallOwnsDisk /\ ChainConsistent /\ [Next]_vars => ChainConsistent'
  <2> SUFFICES ASSUME TypeOK, CallOwnsDisk, ChainConsistent, [Next]_vars
               PROVE  ChainConsistent'
    OBVIOUS
  <2>1. CASE UNCHANGED <<file, basis>>
    BY <2>1 DEF ChainConsistent, IsFrozen
  <2>2. \A t \in Types : \A ub \in basis[t] : ub[1] \in Types
    BY DEF TypeOK
  <2>3. ASSUME NEW t \in Types, Revised(t)
        PROVE  ChainConsistent'
    <3>1. basis'[t] = CollectUpstream /\ \A u \in Types : u # t => basis'[u] = basis[u]
      BY <2>3 DEF Revised, TypeOK
    <3>2. ~IsFrozen(t) /\ \A u \in Types : u # t => file'[u] = file[u]
      BY <2>3 DEF Revised, OthersKept
    <3>3. \A ub \in CollectUpstream :
            ub[1] \in Types /\ IsFrozen(ub[1]) /\ file[ub[1]].body = ub[2]
      BY DEF CollectUpstream
    <3>4. ASSUME NEW v \in Types, NEW ub \in basis'[v]
          PROVE  /\ ub[1] \in Types /\ ub[1] # t
                 /\ IsFrozen(ub[1]) /\ file[ub[1]].body = ub[2]
      BY <2>2, <3>1, <3>2, <3>3 DEF ChainConsistent
    <3> QED
      BY <3>2, <3>4 DEF ChainConsistent, IsFrozen
  <2>4. ASSUME NEW t \in Types, Frozen(t) \/ Marked(t)
        PROVE  ChainConsistent'
    BY <2>2, <2>4 DEF Frozen, Marked, OthersKept, ChainConsistent, IsFrozen
  <2> QED
    BY <2>1, <2>3, <2>4, FileStep DEF Decided
<1> QED
  BY <1>1, <1>2, TypeCorrect, CallsOwnDisk, PTL DEF Spec

----------------------------------------------------------------------------
(* The refinement: under the assumptions of Immutable, the interleaved calls  *)
(* with all their reads, writes and crashes are, to a reader of the files,    *)
(* the atomic Revise, Approve and Freeze of FreezeAuthority.                  *)
content == [t \in Types |-> file[t].body]
frozen == {t \in Types : IsFrozen(t)}
approved == {tb \in Types \X Bodies : Approved(tb[1], tb[2])}

(* The initial files are the abstract initial state.                          *)
LEMMA AuthorityInit ==
    ASSUME Init
    PROVE  Authority!Init
BY DEF Init, Authority!Init, Absent, IsFrozen, Approved

LEMMA AuthorityRevise ==
    ASSUME TypeOK, NEW t \in Types, Revised(t), NEW b, b = file'[t].body
    PROVE  Authority!Revise(t, b)
<1>1. \A u \in Types : u # t => file'[u] = file[u]
  BY DEF Revised, OthersKept
<1>2. content' = [content EXCEPT ![t] = b]
  BY <1>1 DEF content
<1>3. frozen' = frozen
  BY <1>1 DEF frozen, IsFrozen, Revised
<1>4. approved' = approved
  BY DEF approved, Approved, Revised
<1>5. t \notin frozen /\ Upstream[t] \subseteq frozen
  BY ConstantsAssumption DEF frozen, Revised, UpstreamFrozen
<1> QED
  BY <1>2, <1>3, <1>4, <1>5 DEF Authority!Revise, content, frozen, approved

LEMMA AuthorityFreeze ==
    ASSUME TypeOK, NEW t \in Types, Frozen(t)
    PROVE  Authority!Freeze(t)
<1>1. \A u \in Types : u # t => file'[u] = file[u]
  BY DEF Frozen, OthersKept
<1>2. content' = content
  BY <1>1 DEF content, Frozen
<1>3. frozen' = frozen \cup {t}
  BY <1>1 DEF frozen, IsFrozen, Frozen
<1>4. approved' = approved
  BY DEF approved, Approved, Frozen
<1>5. file[t].body \in Bodies
  BY DEF Frozen, TypeOK, Text, Absent
<1>6. content[t] = file[t].body /\ <<t, content[t]>> \in approved
  BY <1>5 DEF content, approved, Frozen
<1> QED
  BY <1>2, <1>3, <1>4, <1>6 DEF Authority!Freeze, content, frozen, approved

LEMMA AuthorityMark ==
    ASSUME TypeOK, ~AndonAnywhere, NEW t \in Types, Marked(t)
    PROVE  UNCHANGED <<content, frozen, approved>>
<1>1. \A u \in Types : u # t => file'[u] = file[u]
  BY DEF Marked, OthersKept
<1>2. content' = content
  BY <1>1 DEF content, Marked
<1>3. frozen' = frozen
  BY <1>1 DEF frozen, IsFrozen, Marked
<1>4. approved' = approved
  BY DEF approved, Approved, Marked
<1> QED
  BY <1>2, <1>3, <1>4

LEMMA AuthorityDecide ==
    ASSUME NEW t \in Types, NEW d, Decided(t, d)
    PROVE  Authority!Approve(t) \/ UNCHANGED <<content, frozen, approved>>
<1>1. UNCHANGED <<content, frozen>>
  BY DEF Decided, content, frozen, IsFrozen
<1>2. content[t] # Blank /\ content[t] = file[t].body /\ content[t] \in Bodies
  BY ConstantsAssumption DEF Decided, content
<1>3. \A u, b : Approved(u, b)' <=>
         \/ Approved(u, b)
         \/ u = t /\ b = file[t].body /\ Authorized(d) /\ Approving(d)
  BY DEF Decided, Approved
<1>4. CASE Authorized(d) /\ Approving(d)
  <2>1. approved' = approved \cup {<<t, content[t]>>}
    BY <1>2, <1>3, <1>4 DEF approved
  <2> QED
    BY <1>1, <1>2, <2>1 DEF Authority!Approve, content, frozen, approved
<1>5. CASE ~(Authorized(d) /\ Approving(d))
  <2>1. approved' = approved
    BY <1>3, <1>5 DEF approved
  <2> QED
    BY <1>1, <2>1
<1> QED
  BY <1>4, <1>5

(* The calls of src/ implement FreezeAuthority: no interleaving or crash      *)
(* shows a reader of the files anything its atomic operations could not       *)
(* (driver.py:123-225, freeze.py:81-199, cli.py:1040-1067).                   *)
THEOREM Implements ==
    ASSUME Exclusive, ~AndonAnywhere PROVE Spec => ImplementsAuthority
<1>1. TypeOK /\ CallOwnsDisk /\ [Next]_vars => [Authority!Next]_(Authority!vars)
  <2> SUFFICES ASSUME TypeOK, CallOwnsDisk, [Next]_vars
               PROVE  [Authority!Next]_(Authority!vars)
    OBVIOUS
  <2>1. CASE UNCHANGED <<file, basis, decisions>>
    <3>1. UNCHANGED <<content, frozen, approved>>
      BY <2>1 DEF content, frozen, approved, IsFrozen, Approved
    <3> QED
      BY <3>1 DEF Authority!vars, content, frozen, approved
  <2>2. ASSUME NEW t \in Types, NEW d, Decided(t, d)
        PROVE  [Authority!Next]_(Authority!vars)
    BY <2>2, AuthorityDecide DEF Authority!Next, Authority!vars, content, frozen, approved
  <2>3. ASSUME NEW t \in Types, Revised(t)
        PROVE  [Authority!Next]_(Authority!vars)
    <3>1. PICK b \in Bodies : b = file'[t].body
      BY <2>3 DEF Revised
    <3>2. Authority!Revise(t, b)
      BY <2>3, <3>1, AuthorityRevise
    <3> QED
      BY <3>2 DEF Authority!Next
  <2>4. ASSUME NEW t \in Types, Frozen(t)
        PROVE  [Authority!Next]_(Authority!vars)
    BY <2>4, AuthorityFreeze DEF Authority!Next
  <2>5. ASSUME NEW t \in Types, Marked(t)
        PROVE  [Authority!Next]_(Authority!vars)
    BY <2>5, AuthorityMark DEF Authority!vars, content, frozen, approved
  <2> QED
    BY <2>1, <2>2, <2>3, <2>4, <2>5, FileStep
<1> QED
  BY <1>1, AuthorityInit, TypeCorrect, CallsOwnDisk, PTL
  DEF Spec, ImplementsAuthority, Authority!Spec
----------------------------------------------------------------------------
(* The records.                                                              *)

(* No step takes a verdict off the record, and a file that exists did so      *)
(* before the step or is the one a run that passed has written.              *)
LEMMA VerdictsGrow ==
    ASSUME TypeOK, [Next]_vars
    PROVE  /\ verdicts \subseteq verdicts'
           /\ \A t \in Types : file'[t].status # "ABSENT" =>
                 \/ file[t].status # "ABSENT"
                 \/ \E p \in Drivers : pc[p] = "persist" /\ job[p].art = t
<1>1. ASSUME NEW p \in Drivers,
             RunPersist(p) \/ FreezeWriteStatus(p) \/ FreezeWriteRows(p) \/ MarkWrite(p)
      PROVE  /\ UNCHANGED verdicts
             /\ \A t \in Types : t # job[p].art => file'[t] = file[t]
             /\ pc[p] # "persist" => file[job[p].art].status # "ABSENT"
  BY <1>1 DEF RunPersist, FreezeWriteStatus, FreezeWriteRows, MarkWrite, TypeOK, JobOK,
              FreezeSteps, MarkSteps, Text
<1>2. ASSUME NEW p \in Drivers, RunPersist(p) PROVE pc[p] = "persist"
  BY <1>2 DEF RunPersist
<1>3. ASSUME NEW p \in Drivers, RunArtifact(p), ~RunPersist(p)
      PROVE  verdicts \subseteq verdicts' /\ UNCHANGED file
  BY <1>3, DiskUnchanged
  DEF RunArtifact, RunStart, RunGate, RunCollect, RunLoop, RunRecheck, RunLifecycle
<1>4. ASSUME NEW p \in Drivers, ApplyFreezeDecision(p),
             ~FreezeWriteStatus(p), ~FreezeWriteRows(p)
      PROVE  UNCHANGED <<file, verdicts>>
  BY <1>4, DiskUnchanged
  DEF ApplyFreezeDecision, FreezeCheck, FreezeReadStatus, FreezeReadRows, ReadText,
      FreezeReadCount, FreezeWriteCount, FreezeJournal
<1>5. ASSUME NEW p \in Drivers, (MarkStatus(p) /\ ~MarkWrite(p)) \/ Crash(p)
      PROVE  UNCHANGED <<file, verdicts>>
  BY <1>5, DiskUnchanged DEF MarkStatus, MarkRead, Crash
<1>6. ASSUME NEW t \in Types, NEW s \in Submissions, Decide(t, s)
      PROVE  UNCHANGED <<file, verdicts>>
  BY <1>6, DiskUnchanged DEF Decide
<1>7. CASE UNCHANGED vars
  BY <1>7 DEF vars
<1>8. ASSUME NEW p \in Drivers,
             RunArtifact(p) \/ ApplyFreezeDecision(p) \/ MarkStatus(p) \/ Crash(p)
      PROVE  /\ verdicts \subseteq verdicts'
             /\ \A t \in Types : file'[t].status # "ABSENT" =>
                   \/ file[t].status # "ABSENT"
                   \/ pc[p] = "persist" /\ job[p].art = t
  BY <1>1, <1>3, <1>4, <1>5, <1>8
<1> QED
  BY <1>6, <1>7, <1>8 DEF Next

(* A run that is about to write its artifact has just recorded its PASS, or   *)
(* had done so before the step.                                              *)
LEMMA VerdictComesFirst ==
    ASSUME TypeOK, [Next]_vars, NEW p \in Drivers, VerdictFirst(p)
    PROVE  VerdictFirst(p)'
<1>1. ASSUME NEW q \in Drivers, RunLoop(q)
      PROVE  VerdictFirst(p)'
  <2>1. CASE Return(q)
    BY <1>1, <2>1, VerdictsGrow DEF Return, Goto, TypeOK, VerdictFirst
  <2>2. ASSUME NEW b \in Bodies,
               verdicts' = verdicts \cup {<<job[q].art, "PASS">>},
               Goto(q, "recheck", [job[q] EXCEPT !.body = b])
        PROVE  VerdictFirst(p)'
    <3>1. job[q] \in Job
      BY DEF TypeOK
    <3>2. job'[q].art = job[q].art /\ (q # p => pc'[p] = pc[p] /\ job'[p] = job[p])
      BY <2>2, <3>1 DEF Goto, TypeOK, Job
    <3> QED
      BY <2>2, <3>2 DEF VerdictFirst
  <2> QED
    BY <1>1, <2>1, <2>2 DEF RunLoop
<1>2. ASSUME NEW q \in Drivers, RunRecheck(q)
      PROVE  VerdictFirst(p)'
  BY <1>2, VerdictsGrow DEF RunRecheck, Return, Goto, TypeOK, VerdictFirst
<1>3. ASSUME UNCHANGED <<pc, job>>
      PROVE  VerdictFirst(p)'
  BY <1>3, VerdictsGrow DEF VerdictFirst
<1>4. ASSUME NEW q \in Drivers, NEW step, NEW j, Goto(q, step, j),
             step # "recheck", step # "persist"
      PROVE  VerdictFirst(p)'
  <2>1. pc'[q] = step /\ (q # p => pc'[p] = pc[p] /\ job'[p] = job[p])
    BY <1>4 DEF Goto, TypeOK
  <2> QED
    BY <1>4, <2>1, VerdictsGrow DEF VerdictFirst
<1>5. ASSUME NEW q \in Drivers, Return(q)
      PROVE  VerdictFirst(p)'
  BY <1>4, <1>5 DEF Return
<1>6. ASSUME NEW q \in Drivers, RunArtifact(q)
      PROVE  VerdictFirst(p)'
  <2>1. ASSUME NEW t \in Types, RunStart(q, t) PROVE VerdictFirst(p)'
    BY <1>4, <2>1 DEF RunStart
  <2>2. ASSUME NEW t \in Assembled, RunLifecycle(q, t) PROVE VerdictFirst(p)'
    BY <1>3, <2>2 DEF RunLifecycle
  <2>3. RunGate(q) => VerdictFirst(p)'
    BY <1>4, <1>5 DEF RunGate
  <2>4. RunCollect(q) => VerdictFirst(p)'
    BY <1>4 DEF RunCollect
  <2>5. RunPersist(q) => VerdictFirst(p)'
    BY <1>5 DEF RunPersist
  <2> QED
    BY <1>1, <1>2, <1>6, <2>1, <2>2, <2>3, <2>4, <2>5 DEF RunArtifact
<1>7. ASSUME NEW q \in Drivers, ApplyFreezeDecision(q) \/ MarkStatus(q) \/ Crash(q)
      PROVE  VerdictFirst(p)'
  <2>1. ASSUME NEW d \in decisions, FreezeCheck(q, d) PROVE VerdictFirst(p)'
    BY <1>4, <2>1 DEF FreezeCheck
  <2>2. FreezeReadStatus(q) \/ FreezeReadRows(q) => VerdictFirst(p)'
    BY <1>4 DEF FreezeReadStatus, FreezeReadRows, ReadText
  <2>3. FreezeWriteStatus(q) \/ FreezeWriteRows(q) => VerdictFirst(p)'
    BY <1>4 DEF FreezeWriteStatus, FreezeWriteRows
  <2>4. FreezeReadCount(q) \/ FreezeWriteCount(q) => VerdictFirst(p)'
    BY <1>4, <1>5 DEF FreezeReadCount, FreezeWriteCount
  <2>5. FreezeJournal(q) \/ MarkWrite(q) \/ Crash(q) => VerdictFirst(p)'
    BY <1>5 DEF FreezeJournal, MarkWrite, Crash
  <2>6. ASSUME NEW t \in Types, NEW s \in {"HALTED", "FAULTED"}, MarkRead(q, t, s)
        PROVE  VerdictFirst(p)'
    BY <1>4, <2>6 DEF MarkRead
  <2> QED
    BY <1>7, <2>1, <2>2, <2>3, <2>4, <2>5, <2>6 DEF ApplyFreezeDecision, MarkStatus
<1>8. ASSUME NEW t \in Types, NEW s \in Submissions, Decide(t, s)
      PROVE  VerdictFirst(p)'
  BY <1>3, <1>8 DEF Decide
<1>9. CASE UNCHANGED vars
  BY <1>3, <1>9 DEF vars
<1> QED
  BY <1>6, <1>7, <1>8, <1>9 DEF Next

(* An artifact offered to the freeze gate, or frozen, has a PASS on record,   *)
(* whatever the interleaving and wherever a driver dies (driver.py:215-223).  *)
THEOREM VerdictOnRecord == Spec => []PendingHasVerdict
<1> DEFINE First == \A p \in Drivers : VerdictFirst(p)
<1>1. Init => First /\ PendingHasVerdict
  BY DEF Init, VerdictFirst, PendingHasVerdict, Absent
<1>2. TypeOK /\ First /\ [Next]_vars => First'
  BY VerdictComesFirst
<1>3. TypeOK /\ First /\ PendingHasVerdict /\ [Next]_vars => PendingHasVerdict'
  BY VerdictsGrow DEF VerdictFirst, PendingHasVerdict
<1> HIDE DEF First
<1> QED
  BY <1>1, <1>2, <1>3, TypeCorrect, PTL DEF Spec

(* A step that neither moves a freeze nor touches what is FROZEN.             *)
Quiet ==
    /\ UNCHANGED <<er, journal, freezes>>
    /\ \A t \in Types : IsFrozen(t) \/ IsFrozen(t)' => file'[t] = file[t]
    /\ \A p \in Drivers :
          pc'[p] \in FreezeSteps => pc'[p] = pc[p] /\ job'[p] = job[p]

LEMMA QuietSteps ==
    ASSUME ~AndonAnywhere, TypeOK, CallOwnsDisk, [Next]_vars,
           \A p \in Drivers : ApplyFreezeDecision(p) => FreezeReadCount(p) /\ Return(p)
    PROVE  Quiet
<1>1. ASSUME NEW p \in Drivers, Return(p), UNCHANGED <<file, er, journal, freezes>>
      PROVE  Quiet
  BY <1>1 DEF Quiet, Return, Goto, TypeOK, FreezeSteps, IsFrozen
<1>2. ASSUME NEW p \in Drivers, NEW step \in RunSteps \cup MarkSteps, NEW j,
             Goto(p, step, j), UNCHANGED <<file, er, journal, freezes>>
      PROVE  Quiet
  BY <1>2 DEF Quiet, Goto, TypeOK, RunSteps, FreezeSteps, MarkSteps, IsFrozen
<1>3. ASSUME UNCHANGED <<file, er, journal, freezes, pc, job>>
      PROVE  Quiet
  BY <1>3 DEF Quiet, IsFrozen
<1>4. ASSUME NEW p \in Drivers, RunPersist(p) \/ MarkWrite(p)
      PROVE  Quiet
  <2>1. /\ job[p].art \in Types /\ ~IsFrozen(job[p].art)
        /\ pc[p] = "mark" =>
              job[p].text \in Text /\ job[p].text # Absent /\ job[p].mark # "FROZEN"
    BY <1>4 DEF RunPersist, MarkWrite, TypeOK, JobOK, Job, CallOwnsDisk, CallOK, RunSteps
  <2>2. /\ file'[job[p].art].status # "FROZEN"
        /\ \A t \in Types : t # job[p].art => file'[t] = file[t]
    BY <1>4, <2>1 DEF RunPersist, MarkWrite, TypeOK, Text, Absent
  <2>3. UNCHANGED <<er, journal, freezes>> /\ Return(p)
    BY <1>4 DEF RunPersist, MarkWrite
  <2> QED
    BY <2>1, <2>2, <2>3 DEF Quiet, Return, Goto, TypeOK, FreezeSteps, IsFrozen
<1>5. ASSUME NEW p \in Drivers, RunArtifact(p)
      PROVE  Quiet
  <2> USE DiskUnchanged DEF RunSteps
  <2>1. ASSUME NEW t \in Types, RunStart(p, t) PROVE Quiet
    BY <1>2, <2>1 DEF RunStart
  <2>2. ASSUME NEW t \in Assembled, RunLifecycle(p, t) PROVE Quiet
    BY <1>3, <2>2 DEF RunLifecycle
  <2>3. RunGate(p) \/ RunRecheck(p) => Quiet
    BY <1>1, <1>2 DEF RunGate, RunRecheck
  <2>4. RunCollect(p) => Quiet
    BY <1>2 DEF RunCollect
  <2>5. RunLoop(p) => Quiet
    BY <1>1, <1>2 DEF RunLoop
  <2> QED
    BY <1>4, <1>5, <2>1, <2>2, <2>3, <2>4, <2>5 DEF RunArtifact
<1>6. ASSUME NEW p \in Drivers, MarkStatus(p) \/ Crash(p)
      PROVE  Quiet
  <2>1. ASSUME NEW t \in Types, NEW s \in {"HALTED", "FAULTED"}, MarkRead(p, t, s)
        PROVE  Quiet
    BY <1>2, <2>1, DiskUnchanged DEF MarkRead, MarkSteps
  <2>2. Crash(p) => Quiet
    BY <1>1, DiskUnchanged DEF Crash
  <2> QED
    BY <1>4, <1>6, <2>1, <2>2 DEF MarkStatus
<1>7. ASSUME NEW p \in Drivers, ApplyFreezeDecision(p)
      PROVE  Quiet
  BY <1>1, <1>7, DiskUnchanged DEF FreezeReadCount
<1>8. ASSUME NEW t \in Types, NEW s \in Submissions, Decide(t, s)
      PROVE  Quiet
  BY <1>3, <1>8, DiskUnchanged DEF Decide
<1>9. CASE UNCHANGED vars
  BY <1>3, <1>9 DEF vars
<1> QED
  BY <1>5, <1>6, <1>7, <1>8, <1>9 DEF Next

LEMMA EntryTypes ==
    ASSUME TypeOK
    PROVE  \A i \in 1..Len(journal) : journal[i].art \in Types
<1> DEFINE Entry == [art: Types, text: Text]
<1>1. journal \in Seq(Entry) /\ \A e \in Entry : e.art \in Types
  BY DEF TypeOK
<1> HIDE DEF Entry
<1> QED
  BY <1>1

LEMMA QuietKeeps ==
    ASSUME TypeOK, JournalMatchesDisk, BooksInStep, Quiet
    PROVE  JournalMatchesDisk' /\ BooksInStep'
<1>1. /\ UNCHANGED <<er, journal, freezes>>
      /\ \A t \in Types : IsFrozen(t)' => IsFrozen(t) /\ file'[t] = file[t]
      /\ \A t \in Types : IsFrozen(t) => IsFrozen(t)' /\ file'[t] = file[t]
  BY DEF Quiet, IsFrozen
<1>3. JournalMatchesDisk'
  BY <1>1, EntryTypes DEF JournalMatchesDisk
<1>4. ASSUME NEW p \in Drivers
      PROVE  FreezeInStep(p)' /\ OneBehind(p)'
  BY <1>1 DEF BooksInStep, FreezeInStep, OneBehind, Booked, Quiet
<1>5. NoneBehind'
  <2>1. SUFFICES ASSUME freezes = Len(journal),
                        \A p \in Drivers : pc'[p] \notin FreezeSteps
                 PROVE  /\ er # Malformed => er = Len(journal)
                        /\ \A t \in Types : IsFrozen(t)' => Booked(t)'
    BY <1>1 DEF NoneBehind
  <2>2. \A p \in Drivers : pc[p] \notin FreezeSteps
    BY <2>1 DEF BooksInStep, FreezeInStep, TypeOK
  <2> QED
    BY <1>1, <2>1, <2>2 DEF BooksInStep, NoneBehind, Booked
<1> QED
  BY <1>1, <1>3, <1>4, <1>5 DEF BooksInStep

(* A freeze that goes on needs only its own account: no other call runs.      *)
LEMMA FreezeGoesOn ==
    ASSUME Exclusive, TypeOK, CallOwnsDisk, NEW p \in Drivers,
           NEW step \in FreezeSteps, NEW j,
           Goto(p, step, j),
           pc[p] # "idle" \/ MayStart(p),
           Len(journal') <= freezes',
           FreezeInStep(p)', OneBehind(p)'
    PROVE  BooksInStep'
<1>1. pc'[p] = step /\ \A q \in Drivers : q # p => pc'[q] = "idle"
  BY DEF Goto, MayStart, CallOwnsDisk, TypeOK
<1>2. ASSUME NEW q \in Drivers, q # p PROVE FreezeInStep(q)' /\ OneBehind(q)'
  BY <1>1, <1>2 DEF FreezeInStep, OneBehind, FreezeSteps
<1>3. NoneBehind'
  BY <1>1 DEF NoneBehind
<1> QED
  BY <1>2, <1>3 DEF BooksInStep

LEMMA FreezeBooks ==
    ASSUME Exclusive, TypeOK, CallOwnsDisk, JournalMatchesDisk, BooksInStep,
           NEW p \in Drivers, ApplyFreezeDecision(p),
           ~(FreezeReadCount(p) /\ Return(p))
    PROVE  JournalMatchesDisk' /\ BooksInStep'
<1>0. /\ FreezeInStep(p) /\ OneBehind(p) /\ CallOK(p) /\ job[p] \in Job
      /\ Len(journal) \in Nat /\ freezes \in Nat /\ er \in Nat \cup {Malformed}
      /\ Malformed \notin Nat
  BY ConstantsAssumption DEF BooksInStep, CallOwnsDisk, TypeOK
<1>1. ASSUME NEW d \in decisions, FreezeCheck(p, d)
      PROVE  JournalMatchesDisk' /\ BooksInStep'
  <2> DEFINE j == [NoJob EXCEPT !.art = d.art, !.seen = d.text, !.by = d.by]
  <2>1. j.by = d.by /\ j.art = d.art
    BY NoJobType DEF Job
  <2>2. /\ Goto(p, "readStatus", j) /\ MayStart(p) /\ d.by # NoOne
        /\ UNCHANGED <<file, er, journal>> /\ freezes' = freezes + 1
    BY <1>1, DiskUnchanged DEF FreezeCheck, Authorized
  <2> HIDE DEF j
  <2>3. pc'[p] = "readStatus" /\ job'[p] = j
    BY <2>2 DEF Goto, TypeOK
  <2>4. \A q \in Drivers : pc[q] \notin FreezeSteps
    BY <2>2 DEF MayStart, FreezeSteps
  <2>5. FreezeInStep(p)' /\ Len(journal') <= freezes'
    BY <1>0, <2>1, <2>2, <2>3 DEF FreezeInStep, BooksInStep
  <2>6. OneBehind(p)'
    BY <1>0, <2>2, <2>3, <2>4 DEF OneBehind, NoneBehind, BooksInStep, Booked, IsFrozen
  <2> QED
    BY <2>2, <2>5, <2>6, FreezeGoesOn DEF JournalMatchesDisk, IsFrozen, FreezeSteps
<1>2. CASE FreezeReadStatus(p) \/ FreezeReadRows(p)
  <2> DEFINE j == [job[p] EXCEPT !.text = file[job[p].art]]
  <2>1. j.by = job[p].by /\ j.art = job[p].art
    BY <1>0 DEF Job
  <2>2. PICK step \in {"writeStatus", "writeRows"} :
           /\ Goto(p, step, j)
           /\ pc[p] \in {"readStatus", "readRows"}
           /\ UNCHANGED <<file, er, journal>> /\ freezes' = freezes
           /\ step = "writeStatus" => pc[p] = "readStatus"
    BY <1>2, DiskUnchanged DEF FreezeReadStatus, FreezeReadRows, ReadText
  <2> HIDE DEF j
  <2>3. pc'[p] = step /\ job'[p] = j
    BY <2>2 DEF Goto, TypeOK
  <2>4. FreezeInStep(p)' /\ Len(journal') <= freezes'
    BY <1>0, <2>1, <2>2, <2>3 DEF FreezeInStep, BooksInStep, FreezeSteps
  <2>5. OneBehind(p)'
    BY <1>0, <2>1, <2>2, <2>3 DEF OneBehind, Booked, IsFrozen, FreezeSteps
  <2> QED
    BY <2>2, <2>4, <2>5, FreezeGoesOn DEF JournalMatchesDisk, IsFrozen, FreezeSteps
<1>3. CASE FreezeWriteStatus(p) \/ FreezeWriteRows(p)
  <2> DEFINE t == job[p].art
  <2>1. /\ t \in Types
        /\ file'[t].status = "FROZEN" /\ file'[t].body = file[t].body
        /\ file'[t].by = IF pc[p] = "writeRows" THEN job[p].by ELSE file[t].by
        /\ \A u \in Types : u # t => file'[u] = file[u]
    BY <1>3, FreezeWrites
  <2>2. PICK step \in {"readRows", "readCount"} :
           /\ Goto(p, step, job[p])
           /\ pc[p] = IF step = "readRows" THEN "writeStatus" ELSE "writeRows"
           /\ UNCHANGED <<er, journal, freezes>>
    BY <1>3 DEF FreezeWriteStatus, FreezeWriteRows
  <2>3. pc'[p] = step /\ job'[p] = job[p]
    BY <2>2 DEF Goto, TypeOK
  <2>4. FreezeInStep(p)' /\ Len(journal') <= freezes'
    BY <1>0, <2>2, <2>3 DEF FreezeInStep, BooksInStep, FreezeSteps
  <2>5. job[p].by # NoOne
    BY <1>0, <2>2 DEF FreezeInStep, FreezeSteps
  <2>6. ASSUME NEW u \in Types, Booked(u) PROVE Booked(u)'
    BY <2>1, <2>2, <2>5, <2>6 DEF Booked
  <2>7. ASSUME NEW u \in Types, IsFrozen(u)', u # t
        PROVE  IsFrozen(u)
    BY <2>1, <2>7 DEF IsFrozen
  <2>8. OneBehind(p)'
    <3> SUFFICES ASSUME freezes = Len(journal) + 1
                 PROVE  /\ er # Malformed => er = Len(journal)
                        /\ \A u \in Types : IsFrozen(u)' =>
                              Booked(u)' \/ (u = t /\ (step = "readRows" \/ file'[u].by # NoOne))
      BY <1>0, <2>2, <2>3 DEF OneBehind
    <3>1. /\ er # Malformed => er = Len(journal)
          /\ \A u \in Types : IsFrozen(u) => Booked(u) \/ u = t
      BY <1>0, <2>2 DEF OneBehind, FreezeSteps
    <3>2. step = "readRows" \/ file'[t].by # NoOne
      BY <2>1, <2>2, <2>5
    <3> QED
      BY <2>6, <2>7, <3>1, <3>2
  <2>9. JournalMatchesDisk'
    <3>1. ASSUME NEW i \in 1..Len(journal), IsFrozen(journal[i].art),
                 file[journal[i].art].body = journal[i].text.body,
                 journal[i].art \in Types
          PROVE  IsFrozen(journal[i].art)' /\ file'[journal[i].art].body = journal[i].text.body
      BY <2>1, <2>2, <3>1 DEF IsFrozen
    <3> QED
      BY <2>2, <3>1, EntryTypes DEF JournalMatchesDisk
  <2> QED
    BY <2>2, <2>4, <2>8, <2>9, FreezeGoesOn DEF FreezeSteps
<1>4. CASE FreezeReadCount(p)
  <2> DEFINE n == er + 1
             j == [job[p] EXCEPT !.count = n]
  <2>1. /\ Goto(p, "writeCount", j) /\ er # Malformed /\ pc[p] = "readCount"
        /\ UNCHANGED <<file, er, journal>> /\ freezes' = freezes
    BY <1>4, DiskUnchanged DEF FreezeReadCount
  <2>2. n \in Nat
    BY <1>0, <2>1
  <2> HIDE DEF n
  <2>3. j.by = job[p].by /\ j.art = job[p].art /\ j.count = n
    BY <1>0, <2>2 DEF Job
  <2> HIDE DEF j
  <2>4. pc'[p] = "writeCount" /\ job'[p] = j
    BY <2>1 DEF Goto, TypeOK
  <2>5. FreezeInStep(p)' /\ Len(journal') <= freezes'
    BY <1>0, <2>1, <2>3, <2>4 DEF FreezeInStep, BooksInStep, FreezeSteps, n
  <2>6. OneBehind(p)'
    BY <1>0, <2>1, <2>3, <2>4 DEF OneBehind, Booked, IsFrozen, FreezeSteps
  <2> QED
    BY <2>1, <2>5, <2>6, FreezeGoesOn DEF JournalMatchesDisk, IsFrozen, FreezeSteps
<1>5. CASE FreezeWriteCount(p)
  <2>1. /\ Goto(p, "journal", job[p]) /\ pc[p] = "writeCount"
        /\ UNCHANGED <<file, journal, freezes>> /\ er' = job[p].count
    BY <1>5 DEF FreezeWriteCount
  <2>2. pc'[p] = "journal" /\ job'[p] = job[p]
    BY <2>1 DEF Goto, TypeOK
  <2>3. er \in Nat /\ er' = er + 1 /\ er' # Malformed /\ er >= Len(journal)
    BY <1>0, <2>1 DEF FreezeInStep, FreezeSteps, JournalMatchesDisk
  <2>4. FreezeInStep(p)' /\ Len(journal') <= freezes'
    BY <1>0, <2>1, <2>2, <2>3 DEF FreezeInStep, BooksInStep, FreezeSteps
  <2>5. OneBehind(p)'
    BY <1>0, <2>1, <2>2, <2>3 DEF OneBehind, Booked, IsFrozen, FreezeSteps
  <2>6. JournalMatchesDisk'
    BY <1>0, <2>1, <2>3 DEF JournalMatchesDisk, IsFrozen
  <2> QED
    BY <2>1, <2>4, <2>5, <2>6, FreezeGoesOn DEF FreezeSteps
<1>6. CASE FreezeJournal(p)
  <2> DEFINE t == job[p].art
             e == [art |-> t, text |-> job[p].seen]
  <2>1. /\ Return(p) /\ pc[p] = "journal" /\ journal' = Append(journal, e)
        /\ UNCHANGED <<file, er, freezes>>
    BY <1>6 DEF FreezeJournal
  <2>2. /\ t \in Types /\ IsFrozen(t) /\ file[t].body = e.text.body /\ e.art = t
        /\ e \in [art: Types, text: Text]
    BY <1>0, <2>1 DEF TypeOK, JobOK, CallOK, FreezeSteps, Job
  <2> HIDE DEF e
  <2>3. /\ Len(journal') = Len(journal) + 1
        /\ \A i \in 1..Len(journal) : journal'[i] = journal[i]
        /\ journal'[Len(journal) + 1] = e
    BY <2>1, <2>2 DEF TypeOK
  <2>4. \A q \in Drivers : pc'[q] = "idle"
    BY <2>1 DEF Return, Goto, CallOwnsDisk, TypeOK
  <2>5. Len(journal) < freezes /\ er # Malformed /\ er > Len(journal)
    BY <1>0, <2>1 DEF FreezeInStep, FreezeSteps
  <2>6. JournalMatchesDisk'
    <3>1. ASSUME NEW i \in 1..Len(journal')
          PROVE  (IsFrozen(journal[i].art) /\ file[journal[i].art].body = journal[i].text.body)'
      <4>1. CASE i \in 1..Len(journal)
        BY <2>1, <2>3, <4>1 DEF JournalMatchesDisk, IsFrozen
      <4>2. CASE i = Len(journal) + 1
        BY <2>1, <2>2, <2>3, <4>2 DEF IsFrozen
      <4> QED
        BY <1>0, <2>3, <4>1, <4>2
    <3> QED
      BY <1>0, <2>1, <2>3, <2>5, <3>1 DEF JournalMatchesDisk
  <2>7. ASSUME freezes' = Len(journal')
        PROVE  /\ er' # Malformed => er' = Len(journal')
               /\ \A u \in Types : IsFrozen(u)' => Booked(u)'
    <3>1. /\ er = freezes
          /\ \A u \in Types : IsFrozen(u) => Booked(u) \/ (u = t /\ file[u].by # NoOne)
      BY <1>0, <2>1, <2>3, <2>5, <2>7 DEF OneBehind, FreezeSteps
    <3>2. ASSUME NEW u \in Types, Booked(u) PROVE Booked(u)'
      BY <1>0, <2>1, <2>3, <3>2 DEF Booked
    <3>3. ASSUME NEW u \in Types, u = t, file[u].by # NoOne PROVE Booked(u)'
      <4>1. Len(journal) + 1 \in 1..Len(journal')
        BY <1>0, <2>3
      <4> QED
        BY <2>1, <2>2, <2>3, <3>3, <4>1 DEF Booked
    <3> QED
      BY <2>1, <2>7, <3>1, <3>2, <3>3 DEF IsFrozen
  <2>8. BooksInStep'
    BY <1>0, <2>1, <2>3, <2>4, <2>5, <2>7
    DEF BooksInStep, FreezeInStep, OneBehind, NoneBehind, FreezeSteps
  <2> QED
    BY <2>6, <2>8
<1> QED
  BY <1>1, <1>2, <1>3, <1>4, <1>5, <1>6 DEF ApplyFreezeDecision

(* With one call at a time, the andon cord pulled only on what is not FROZEN  *)
(* and an Engagement Record that says 0 or nothing readable when the          *)
(* initiative opens, the books agree with the files whenever no call runs,    *)
(* and tell of nothing the disk does not show at any step or crash            *)
(* (freeze.py:144-185, driver.py:215-223).                                    *)
THEOREM RecordsKept ==
    ASSUME Exclusive, ~AndonAnywhere, InitialCounts \subseteq {0, Malformed}
    PROVE  Spec => []RecordsAgree
<1> DEFINE Books == JournalMatchesDisk /\ BooksInStep
<1>1. Init => Books
  BY DEF Init, JournalMatchesDisk, BooksInStep, FreezeInStep, OneBehind, NoneBehind,
         FreezeSteps, IsFrozen, Absent
<1>2. TypeOK /\ CallOwnsDisk /\ Books /\ [Next]_vars => Books'
  <2> SUFFICES ASSUME TypeOK, CallOwnsDisk, Books, [Next]_vars PROVE Books'
    OBVIOUS
  <2>1. ASSUME NEW p \in Drivers, ApplyFreezeDecision(p),
               ~(FreezeReadCount(p) /\ Return(p))
        PROVE  Books'
    BY <2>1, FreezeBooks
  <2>2. CASE \A p \in Drivers : ApplyFreezeDecision(p) => FreezeReadCount(p) /\ Return(p)
    BY <2>2, QuietSteps, QuietKeeps
  <2> QED
    BY <2>1, <2>2
<1>3. Books => JournalMatchesDisk /\ BookkeepingComplete
  BY DEF BookkeepingComplete, BooksInStep, NoneBehind, Idle, FreezeSteps
<1> HIDE DEF Books
<1> QED
  BY <1>1, <1>2, <1>3, TypeCorrect, CallsOwnDisk, VerdictOnRecord, PTL DEF Spec, RecordsAgree

=============================================================================
