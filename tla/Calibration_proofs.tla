------------------------- MODULE Calibration_proofs -------------------------
(* Proofs about Calibration: its types, that a fresh lock speaks of a judge   *)
(* that was measured and found sound, and that a lock nobody shares in the    *)
(* middle of a write keeps every entry.                                      *)
EXTENDS Calibration, TLAPS

----------------------------------------------------------------------------
(* Types.                                                                    *)

LEMMA FilesType ==
    /\ \A f : f \in Table => f # NoFile /\ f \notin Unreadable
    /\ Empty # NoFile /\ Garbage # NoFile
    /\ Empty \in Unreadable /\ Garbage \in Unreadable
    /\ NoEntries \in Table
<1>1. \A f : f \in Table => f # NoFile /\ f \notin Unreadable
  BY FilesAssumption
<1>2. Empty # NoFile /\ Garbage # NoFile /\ Empty \in Unreadable /\ Garbage \in Unreadable
  BY FilesAssumption DEF Unreadable
<1>3. NoEntries \in Table
  BY DEF NoEntries, Table
<1> QED
  BY <1>1, <1>2, <1>3

LEMMA EntriesType ==
    ASSUME NEW f
    PROVE  EntriesIn(f) \in Table
  BY FilesType DEF EntriesIn

LEMMA WithEntryType ==
    ASSUME NEW table \in Table, NEW j \in Job
    PROVE  WithEntry(table, j) \in Table
  BY DEF WithEntry, EntryOf, Entry, Job, Table

(* A step of one command that leaves its job well typed.                     *)
LEMMA GotoType ==
    ASSUME TypeOK, NEW p \in Processes,
           NEW step \in {"idle", "judge", "read"} \cup LockSteps,
           NEW j \in Job \cup {NoJob}, Goto(p, step, j), step # "idle" => j \in Job
    PROVE  /\ pc' \in [Processes -> {"idle", "judge", "read"} \cup LockSteps]
           /\ job' \in [Processes -> Job \cup {NoJob}]
           /\ \A q \in Processes : pc'[q] # "idle" => job'[q] \in Job
           /\ pc'[p] = step
           /\ \A q \in Processes : q # p => pc'[q] = pc[q]
  BY DEF TypeOK, Goto

LEMMA ReturnType ==
    ASSUME TypeOK, NEW p \in Processes, Return(p)
    PROVE  /\ pc' \in [Processes -> {"idle", "judge", "read"} \cup LockSteps]
           /\ job' \in [Processes -> Job \cup {NoJob}]
           /\ \A q \in Processes : pc'[q] # "idle" => job'[q] \in Job
           /\ pc'[p] = "idle"
           /\ \A q \in Processes : q # p => pc'[q] = pc[q]
  BY GotoType DEF Return

LEMMA CommandType ==
    ASSUME TypeOK, NEW p \in Processes, Calibrate(p)
    PROVE  TypeOK'
<1>1. ASSUME NEW v \in Validators, NEW S \in SUBSET Cases, NEW role \in Roles,
             Load(p, v, S, role)
      PROVE  TypeOK'
  <2> DEFINE j == [validator |-> v, prompt |-> prompt[v], model |-> model,
                   role |-> role, cases |-> S, table |-> NoEntries]
  <2>1. j \in Job
    BY FilesType DEF TypeOK, Job
  <2>2. Goto(p, "judge", j) /\ pc[p] = "idle" /\ commands' = commands + 1
        /\ UNCHANGED <<prompt, model, lock, tmp, handle, certified, minted, overlap>>
    BY <1>1 DEF Load, files
  <2> HIDE DEF j
  <2> QED
    BY <2>1, <2>2, GotoType DEF TypeOK, LockSteps
<1>2. CASE Judge(p)
  <2>0. pc[p] = "judge" /\ job[p] \in Job
    BY <1>2 DEF Judge, TypeOK
  <2>1. UNCHANGED <<commands, prompt, model, lock, tmp, handle, minted, overlap>>
    BY <1>2 DEF Judge, files
  <2>2. CASE Return(p) /\ UNCHANGED certified
    BY <2>0, <2>1, <2>2, ReturnType DEF TypeOK
  <2>3. ASSUME NEW answers \in [Items(job[p].cases) -> [Runs -> Answers]],
               certified' = certified \cup {CertificateOf(job[p], answers)},
               Goto(p, "read", job[p])
        PROVE  TypeOK'
    <3>1. CertificateOf(job[p], answers) \in Certificate
      BY <2>0 DEF CertificateOf, Certificate, Job
    <3> QED
      BY <2>0, <2>1, <2>3, <3>1, GotoType DEF TypeOK
  <2> QED
    BY <1>2, <2>2, <2>3 DEF Judge
<1>3. CASE ReadLock(p)
  <2> DEFINE j == [job[p] EXCEPT !.table = WithEntry(EntriesIn(lock), job[p])]
  <2>1. pc[p] = "read" /\ job[p] \in Job
    BY <1>3 DEF ReadLock, TypeOK
  <2>2. j \in Job
    BY <2>1, EntriesType, WithEntryType DEF Job
  <2>3. Goto(p, "open", j) /\ overlap' \in BOOLEAN
        /\ UNCHANGED <<commands, prompt, model, lock, tmp, handle, certified, minted>>
    BY <1>3 DEF ReadLock, files, TypeOK
  <2> HIDE DEF j
  <2> QED
    BY <2>1, <2>2, <2>3, GotoType DEF TypeOK, LockSteps
<1>4. CASE OpenTmp(p)
  <2>1. pc[p] = "open" /\ job[p] \in Job
    BY <1>4 DEF OpenTmp, TypeOK
  <2>2. Goto(p, "fill", job[p]) /\ tmp' = Empty /\ handle' = [handle EXCEPT ![p] = "tmp"]
        /\ UNCHANGED <<commands, prompt, model, lock, certified, minted, overlap>>
    BY <1>4 DEF OpenTmp
  <2> QED
    BY <2>1, <2>2, GotoType, FilesType DEF TypeOK, LockSteps
<1>5. CASE FillTmp(p)
  <2>1. pc[p] = "fill" /\ job[p] \in Job /\ job[p].table \in Table
    BY <1>5 DEF FillTmp, TypeOK, Job
  <2>2. Goto(p, "replace", job[p]) /\ handle' = [handle EXCEPT ![p] = "none"]
        /\ UNCHANGED <<commands, prompt, model, certified, minted, overlap>>
    BY <1>5 DEF FillTmp
  <2>3. \A f : Overwritten(f, job[p].table) \subseteq Unreadable \cup Table
    BY <2>1, FilesType DEF Overwritten
  <2>4. /\ lock' \in {NoFile} \cup Unreadable \cup Table
        /\ tmp' \in {NoFile} \cup Unreadable \cup Table
        /\ tmp # NoFile => tmp' # NoFile
    BY <1>5, <2>1, <2>3, FilesType, FilesAssumption DEF FillTmp, TypeOK
  <2> QED
    BY <2>1, <2>2, <2>4, GotoType DEF TypeOK, LockSteps
<1>6. CASE ReplaceLock(p)
  <2>1. pc[p] = "replace" /\ job[p] \in Job
    BY <1>6 DEF ReplaceLock, TypeOK
  <2>2. Return(p) /\ UNCHANGED <<commands, prompt, model, certified, overlap>>
    BY <1>6 DEF ReplaceLock
  <2>3. CASE tmp # NoFile
    <3>1. /\ lock' = tmp /\ tmp' = NoFile
          /\ handle' = [q \in Processes |-> Moved[handle[q]]]
          /\ minted' = [minted EXCEPT ![job[p].validator] = EntryOf(job[p])]
      BY <1>6, <2>3 DEF ReplaceLock
    <3>2. minted' \in Table
      BY <2>1, <3>1 DEF TypeOK, Table, EntryOf, Entry, Job
    <3>3. \A q \in Processes :
             /\ handle'[q] \in {"none", "lock", "gone"}
             /\ handle'[q] = "none" <=> handle[q] = "none"
      BY <3>1 DEF Moved, TypeOK
    <3> QED
      BY <2>1, <2>2, <3>1, <3>2, <3>3, ReturnType DEF TypeOK, LockSteps
  <2>4. CASE tmp = NoFile
    <3>1. UNCHANGED <<lock, tmp, handle, minted>>
      BY <1>6, <2>4 DEF ReplaceLock, files
    <3> QED
      BY <2>1, <2>2, <3>1, ReturnType DEF TypeOK, LockSteps
  <2> QED
    BY <2>3, <2>4
<1>7. CASE Die(p)
  <2>1. Return(p) /\ handle' = [handle EXCEPT ![p] = "none"]
        /\ UNCHANGED <<commands, prompt, model, lock, tmp, certified, minted, overlap>>
    BY <1>7 DEF Die
  <2> QED
    BY <2>1, ReturnType DEF TypeOK
<1> QED
  BY <1>1, <1>2, <1>3, <1>4, <1>5, <1>6, <1>7 DEF Calibrate

LEMMA EditType ==
    ASSUME TypeOK, NEW v \in Validators, NEW x \in Prompts, EditPrompt(v, x)
    PROVE  TypeOK'
  BY DEF EditPrompt, TypeOK, files

LEMMA SwitchType ==
    ASSUME TypeOK, NEW m \in Models, SwitchModel(m)
    PROVE  TypeOK'
  BY DEF SwitchModel, TypeOK, files

(* What every file, handle and command holds stays of its kind, however       *)
(* commands overlap or die; a handle on the temporary file is on one that     *)
(* exists (calibration.py:633-639, 705-747).                                 *)
THEOREM TypeCorrect == Spec => []TypeOK
<1>1. Init => TypeOK
  <2> SUFFICES ASSUME Init PROVE TypeOK
    OBVIOUS
  <2>1. \A p \in Processes : pc[p] = "idle" /\ handle[p] = "none"
    BY DEF Init
  <2>2. /\ prompt \in [Validators -> Prompts] /\ model \in Models
        /\ lock = NoFile /\ tmp = NoFile
        /\ handle \in [Processes -> {"none", "tmp", "lock", "gone"}]
        /\ pc \in [Processes -> {"idle", "judge", "read"} \cup LockSteps]
        /\ job \in [Processes -> Job \cup {NoJob}]
        /\ commands \in Nat /\ certified \subseteq Certificate
        /\ overlap \in BOOLEAN
    BY DEF Init
  <2>3. minted \in Table
    BY FilesType DEF Init
  <2> QED
    BY <2>1, <2>2, <2>3 DEF TypeOK
<1>2. TypeOK /\ [Next]_vars => TypeOK'
  <2> SUFFICES ASSUME TypeOK, [Next]_vars PROVE TypeOK'
    OBVIOUS
  <2>1. CASE UNCHANGED vars
    BY <2>1 DEF vars, TypeOK
  <2> QED
    BY <2>1, CommandType, EditType, SwitchType DEF Next
<1> QED
  BY <1>1, <1>2, PTL DEF Spec

----------------------------------------------------------------------------
(* What is written was measured.                                             *)

Backed(C, v, e) ==
    \E r \in C : /\ r.validator = v /\ r.prompt = e.prompt /\ r.model = e.model
                 /\ Sound(r)

AllBacked(C, table) == \A v \in Validators : table[v] # NoEntry => Backed(C, v, table[v])

Enough(j) == MeetsFloor(j.cases) /\ \A c \in j.cases : ValidatorOf[c] = j.validator

(* The inductive invariant: every entry on disk, in the temporary file or in  *)
(* a command's memory is backed by a certificate, and so is what a command    *)
(* past its judgment is about to add.                                        *)
EntriesBacked ==
    /\ lock \in Table => AllBacked(certified, lock)
    /\ tmp \in Table => AllBacked(certified, tmp)
    /\ \A p \in Processes :
          /\ pc[p] \in LockSteps => AllBacked(certified, job[p].table)
          /\ pc[p] = "read" => Backed(certified, job[p].validator, EntryOf(job[p]))
          /\ pc[p] = "judge" => Enough(job[p])

(* The verdict is what the certificate says: no flips, and no false pass of a *)
(* role that gates freezes.                                                  *)
LEMMA PassesSound ==
    ASSUME NEW j \in Job, NEW answers \in [Items(j.cases) -> [Runs -> Answers]],
           Enough(j), Passes(j.role, answers)
    PROVE  Sound(CertificateOf(j, answers))
<1> DEFINE r == CertificateOf(j, answers)
<1>1. r.cases = j.cases /\ r.validator = j.validator /\ r.role = j.role
  BY DEF CertificateOf
<1>2. \A i \in Items(j.cases) : \E a \in Answers : \A k \in Runs : answers[i][k] = a
  <2> SUFFICES ASSUME NEW i \in Items(j.cases)
               PROVE  \E a \in Answers : \A k \in Runs : answers[i][k] = a
    OBVIOUS
  <2>1. 1 \in Runs
    BY ConstantsAssumption DEF Runs
  <2>2. answers[i][1] \in Answers
    BY <2>1
  <2>3. \A k \in Runs : answers[i][k] = answers[i][1]
    BY <2>1 DEF Passes, StabilityFlips
  <2> QED
    BY <2>2, <2>3
<1>3. ~r.wavered
  BY <1>2 DEF CertificateOf
<1>4. j.role = "freeze-gate" => ~r.lenient
  BY DEF CertificateOf, Passes, FalsePasses
<1> QED
  BY <1>1, <1>3, <1>4 DEF Sound, Enough

LEMMA AllBackedStays ==
    ASSUME NEW C, NEW D, C \subseteq D, NEW table, AllBacked(C, table)
    PROVE  AllBacked(D, table)
  BY DEF AllBacked, Backed

LEMMA NoEntriesBacked == ASSUME NEW C PROVE AllBacked(C, NoEntries)
  BY DEF AllBacked, NoEntries

LEMMA WithEntryBacked ==
    ASSUME NEW C, NEW table \in Table, NEW j \in Job, AllBacked(C, table),
           Backed(C, j.validator, EntryOf(j))
    PROVE  AllBacked(C, WithEntry(table, j))
  BY DEF AllBacked, WithEntry, Table, Job

(* A step of one command: what the files and the others hold is as it was,    *)
(* or moved from where it was backed.                                        *)
LEMMA StepBacked ==
    ASSUME TypeOK, EntriesBacked, certified \subseteq certified',
           NEW p \in Processes, NEW step, NEW j, Goto(p, step, j),
           lock' \in Table => AllBacked(certified, lock'),
           tmp' \in Table => AllBacked(certified, tmp'),
           step \in LockSteps => AllBacked(certified, j.table),
           step = "read" => Backed(certified', j.validator, EntryOf(j)),
           step = "judge" => Enough(j)
    PROVE  EntriesBacked'
<1>1. /\ pc'[p] = step /\ job'[p] = j
      /\ \A q \in Processes : q # p => pc'[q] = pc[q] /\ job'[q] = job[q]
  BY DEF TypeOK, Goto
<1>2. lock' \in Table => AllBacked(certified', lock')
  BY AllBackedStays
<1>3. tmp' \in Table => AllBacked(certified', tmp')
  BY AllBackedStays
<1>4. ASSUME NEW q \in Processes, pc'[q] \in LockSteps
      PROVE  AllBacked(certified', job'[q].table)
  BY <1>1, <1>4, AllBackedStays DEF EntriesBacked
<1>5. ASSUME NEW q \in Processes, pc'[q] = "read"
      PROVE  Backed(certified', job'[q].validator, EntryOf(job'[q]))
  BY <1>1, <1>5 DEF EntriesBacked, Backed
<1>6. ASSUME NEW q \in Processes, pc'[q] = "judge"
      PROVE  Enough(job'[q])
  BY <1>1, <1>6 DEF EntriesBacked
<1> QED
  BY <1>2, <1>3, <1>4, <1>5, <1>6 DEF EntriesBacked

LEMMA ReturnBacked ==
    ASSUME TypeOK, EntriesBacked, certified \subseteq certified',
           NEW p \in Processes, Return(p),
           lock' \in Table => AllBacked(certified, lock'),
           tmp' \in Table => AllBacked(certified, tmp')
    PROVE  EntriesBacked'
  BY StepBacked DEF Return, LockSteps

LEMMA CommandBacked ==
    ASSUME TypeOK, EntriesBacked, NEW p \in Processes, Calibrate(p)
    PROVE  EntriesBacked'
<1>0. /\ lock \in Table => AllBacked(certified, lock)
      /\ tmp \in Table => AllBacked(certified, tmp)
  BY DEF EntriesBacked
<1>1. ASSUME NEW v \in Validators, NEW S \in SUBSET Cases, NEW role \in Roles,
             Load(p, v, S, role)
      PROVE  EntriesBacked'
  <2> DEFINE j == [validator |-> v, prompt |-> prompt[v], model |-> model,
                   role |-> role, cases |-> S, table |-> NoEntries]
  <2>1. Enough(j)
    BY <1>1 DEF Load, Enough
  <2>2. Goto(p, "judge", j) /\ UNCHANGED <<lock, tmp, certified>>
    BY <1>1 DEF Load, files
  <2> HIDE DEF j
  <2> QED
    BY <1>0, <2>1, <2>2, StepBacked DEF LockSteps
<1>2. CASE Judge(p)
  <2>0. pc[p] = "judge" /\ job[p] \in Job /\ Enough(job[p])
    BY <1>2 DEF Judge, TypeOK, EntriesBacked
  <2>1. UNCHANGED <<lock, tmp>>
    BY <1>2 DEF Judge, files
  <2>2. CASE Return(p) /\ UNCHANGED certified
    BY <1>0, <2>1, <2>2, ReturnBacked
  <2>3. ASSUME NEW answers \in [Items(job[p].cases) -> [Runs -> Answers]],
               Passes(job[p].role, answers),
               certified' = certified \cup {CertificateOf(job[p], answers)},
               Goto(p, "read", job[p])
        PROVE  EntriesBacked'
    <3>1. Sound(CertificateOf(job[p], answers))
      BY <2>0, <2>3, PassesSound
    <3>2. Backed(certified', job[p].validator, EntryOf(job[p]))
      BY <2>3, <3>1 DEF Backed, EntryOf, CertificateOf
    <3> QED
      BY <1>0, <2>1, <2>3, <3>2, StepBacked DEF LockSteps
  <2> QED
    BY <1>2, <2>2, <2>3 DEF Judge
<1>3. CASE ReadLock(p)
  <2> DEFINE j == [job[p] EXCEPT !.table = WithEntry(EntriesIn(lock), job[p])]
  <2>1. pc[p] = "read" /\ job[p] \in Job /\ Backed(certified, job[p].validator, EntryOf(job[p]))
    BY <1>3 DEF ReadLock, TypeOK, EntriesBacked
  <2>2. AllBacked(certified, EntriesIn(lock))
    BY <1>0, NoEntriesBacked DEF EntriesIn
  <2>3. AllBacked(certified, WithEntry(EntriesIn(lock), job[p]))
    BY <2>1, <2>2, EntriesType, WithEntryBacked
  <2>4. AllBacked(certified, j.table)
    BY <2>1, <2>3 DEF Job
  <2>5. Goto(p, "open", j) /\ UNCHANGED <<lock, tmp, certified>>
    BY <1>3 DEF ReadLock, files
  <2> HIDE DEF j
  <2> QED
    BY <1>0, <2>4, <2>5, StepBacked
<1>4. CASE OpenTmp(p)
  <2>1. Goto(p, "fill", job[p]) /\ AllBacked(certified, job[p].table)
    BY <1>4 DEF OpenTmp, EntriesBacked, LockSteps
  <2>2. tmp' \notin Table /\ UNCHANGED <<lock, certified>>
    BY <1>4, FilesType DEF OpenTmp
  <2> QED
    BY <1>0, <2>1, <2>2, StepBacked
<1>5. CASE FillTmp(p)
  <2>1. Goto(p, "replace", job[p]) /\ AllBacked(certified, job[p].table) /\ UNCHANGED certified
    BY <1>5 DEF FillTmp, EntriesBacked, LockSteps
  <2>2. \A f, g : g \in Overwritten(f, job[p].table) /\ g \in Table => g = job[p].table
    BY FilesType DEF Overwritten
  <2>3. /\ lock' \in Table => AllBacked(certified, lock')
        /\ tmp' \in Table => AllBacked(certified, tmp')
    BY <1>0, <1>5, <2>1, <2>2 DEF FillTmp
  <2> QED
    BY <2>1, <2>3, StepBacked
<1>6. CASE ReplaceLock(p)
  <2>1. Return(p) /\ UNCHANGED certified
    BY <1>6 DEF ReplaceLock
  <2>2. \/ lock' = tmp /\ tmp' = NoFile
        \/ UNCHANGED <<lock, tmp>>
    BY <1>6 DEF ReplaceLock, files
  <2> QED
    BY <1>0, <2>1, <2>2, FilesType, ReturnBacked
<1>7. CASE Die(p)
  BY <1>0, <1>7, ReturnBacked DEF Die
<1> QED
  BY <1>1, <1>2, <1>3, <1>4, <1>5, <1>6, <1>7 DEF Calibrate

LEMMA NextBacked ==
    ASSUME TypeOK, EntriesBacked, [Next]_vars
    PROVE  EntriesBacked'
<1>1. CASE UNCHANGED <<lock, tmp, pc, job, certified>>
  BY <1>1 DEF EntriesBacked
<1>2. CASE \E p \in Processes : Calibrate(p)
  BY <1>2, CommandBacked
<1> QED
  BY <1>1, <1>2 DEF Next, vars, files, EditPrompt, SwitchModel

(* However commands that share the lock and its temporary file overlap, and   *)
(* wherever they die, a fresh lock speaks of a judge with the prompt and the  *)
(* model in use that was measured for the validator and found sound           *)
(* (calibration.py:705-747, 755-793).                                        *)
THEOREM Measured == Spec => []FreshMeansMeasured
<1>1. Init => EntriesBacked
  BY FilesType DEF Init, EntriesBacked, LockSteps
<1>2. TypeOK /\ EntriesBacked /\ [Next]_vars => EntriesBacked'
  BY NextBacked
<1>3. EntriesBacked => FreshMeansMeasured
  <2> SUFFICES ASSUME EntriesBacked, NEW v \in Validators, CheckLock(v) = "fresh"
               PROVE  \E r \in certified :
                         /\ r.validator = v /\ r.prompt = prompt[v] /\ r.model = model
                         /\ Sound(r)
    BY DEF FreshMeansMeasured
  <2> DEFINE e == EntriesIn(lock)[v]
  <2>1. e # NoEntry /\ e.prompt = prompt[v] /\ e.model = model
    BY DEF CheckLock
  <2>2. AllBacked(certified, EntriesIn(lock))
    BY NoEntriesBacked DEF EntriesBacked, EntriesIn
  <2>3. Backed(certified, v, e)
    BY <2>1, <2>2 DEF AllBacked
  <2> QED
    BY <2>1, <2>3 DEF Backed
<1> QED
  BY <1>1, <1>2, <1>3, TypeCorrect, PTL DEF Spec

----------------------------------------------------------------------------
(* A lock that is rewritten by one command at a time.                         *)

(* The command that rewrites the lock, if no two ever did at once, knows what *)
(* is in it, and the temporary file is its own.                              *)
WriterAlone ==
    ~overlap =>
        /\ lock \notin Unreadable
        /\ EntriesIn(lock) = minted
        /\ \A p, q \in Processes : pc[p] \in LockSteps /\ pc[q] \in LockSteps => p = q
        /\ \A p \in Processes :
              /\ pc[p] \in LockSteps => job[p].table = WithEntry(minted, job[p])
              /\ pc[p] = "fill" => tmp = Empty /\ handle[p] = "tmp"
              /\ pc[p] = "replace" => tmp = job[p].table

(* A command that goes on to no step of the rewrite, the lock as it was.      *)
LEMMA AwayAlone ==
    ASSUME TypeOK, WriterAlone, NEW p \in Processes, NEW step, NEW j, Goto(p, step, j),
           step \notin LockSteps, UNCHANGED <<lock, tmp, minted, overlap>>,
           \A q \in Processes : q # p => handle'[q] = handle[q]
    PROVE  WriterAlone'
<1>1. /\ pc'[p] = step
      /\ \A q \in Processes : q # p => pc'[q] = pc[q] /\ job'[q] = job[q]
  BY DEF TypeOK, Goto
<1>2. \A q \in Processes : pc'[q] \in LockSteps =>
          q # p /\ pc'[q] = pc[q] /\ job'[q] = job[q] /\ handle'[q] = handle[q]
  BY <1>1
<1> QED
  BY <1>2 DEF WriterAlone, LockSteps, WithEntry, EntriesIn, EntryOf

(* The command that rewrites the lock goes on to the next step.               *)
LEMMA WriterGoesOn ==
    ASSUME TypeOK, WriterAlone, ~overlap, NEW p \in Processes, pc[p] \in LockSteps
    PROVE  /\ \A q \in Processes : pc[q] \in LockSteps => q = p
           /\ job[p] \in Job /\ job[p].table = WithEntry(minted, job[p])
           /\ lock \notin Unreadable /\ EntriesIn(lock) = minted
  BY DEF TypeOK, WriterAlone, LockSteps

LEMMA CommandAlone ==
    ASSUME TypeOK, WriterAlone, NEW p \in Processes, Calibrate(p)
    PROVE  WriterAlone'
<1>1. ASSUME NEW v \in Validators, NEW S \in SUBSET Cases, NEW role \in Roles,
             Load(p, v, S, role)
      PROVE  WriterAlone'
  BY <1>1, AwayAlone DEF Load, files, LockSteps
<1>2. CASE Judge(p)
  BY <1>2, AwayAlone DEF Judge, Return, files, LockSteps
<1>3. CASE ReadLock(p)
  <2> SUFFICES ASSUME ~overlap' PROVE WriterAlone'
    BY DEF WriterAlone
  <2> DEFINE j == [job[p] EXCEPT !.table = WithEntry(EntriesIn(lock), job[p])]
  <2>1. job[p] \in Job /\ ~overlap /\ \A q \in Processes : pc[q] \notin LockSteps
    BY <1>3 DEF ReadLock, TypeOK
  <2>2. j.table = WithEntry(minted, job[p]) /\ j.validator = job[p].validator
        /\ EntryOf(j) = EntryOf(job[p])
    BY <2>1 DEF WriterAlone, Job, EntryOf
  <2>3. j.table = WithEntry(minted, j)
    BY <2>2 DEF WithEntry
  <2>4. Goto(p, "open", j) /\ UNCHANGED <<lock, minted>>
    BY <1>3 DEF ReadLock, files
  <2> HIDE DEF j
  <2>5. /\ pc'[p] = "open" /\ job'[p] = j
        /\ \A q \in Processes : q # p => pc'[q] = pc[q]
    BY <2>4 DEF TypeOK, Goto
  <2>6. lock' \notin Unreadable /\ EntriesIn(lock') = minted'
    BY <2>1, <2>4 DEF WriterAlone
  <2>7. job'[p].table = WithEntry(minted', job'[p])
    BY <2>3, <2>4, <2>5
  <2> QED
    BY <2>1, <2>5, <2>6, <2>7 DEF WriterAlone, LockSteps
<1>4. CASE OpenTmp(p)
  <2> SUFFICES ASSUME ~overlap' PROVE WriterAlone'
    BY DEF WriterAlone
  <2>1. ~overlap /\ pc[p] \in LockSteps
    BY <1>4 DEF OpenTmp, LockSteps
  <2>2. /\ pc'[p] = "fill" /\ job'[p] = job[p] /\ tmp' = Empty /\ handle'[p] = "tmp"
        /\ \A q \in Processes : q # p => pc'[q] = pc[q]
        /\ UNCHANGED <<lock, minted>>
    BY <1>4 DEF OpenTmp, Goto, TypeOK
  <2> QED
    BY <2>1, <2>2, WriterGoesOn DEF WriterAlone, LockSteps, EntriesIn
<1>5. CASE FillTmp(p)
  <2> SUFFICES ASSUME ~overlap' PROVE WriterAlone'
    BY DEF WriterAlone
  <2>1. ~overlap /\ pc[p] \in LockSteps /\ tmp = Empty /\ handle[p] = "tmp"
    BY <1>5 DEF FillTmp, LockSteps, WriterAlone
  <2>2. /\ pc'[p] = "replace" /\ job'[p] = job[p]
        /\ \A q \in Processes : q # p => pc'[q] = pc[q]
        /\ UNCHANGED minted
    BY <1>5 DEF FillTmp, Goto, TypeOK
  <2>3. tmp' = job[p].table /\ UNCHANGED lock
    BY <1>5, <2>1 DEF FillTmp, Overwritten
  <2> QED
    BY <2>1, <2>2, <2>3, WriterGoesOn DEF WriterAlone, LockSteps, EntriesIn
<1>6. CASE ReplaceLock(p)
  <2> SUFFICES ASSUME ~overlap' PROVE WriterAlone'
    BY DEF WriterAlone
  <2>1. ~overlap /\ pc[p] \in LockSteps /\ tmp = job[p].table
    BY <1>6 DEF ReplaceLock, LockSteps, WriterAlone
  <2>2. tmp \in Table /\ tmp # NoFile /\ tmp \notin Unreadable
    BY <2>1, WriterGoesOn, FilesType DEF Job
  <2>3. /\ lock' = tmp
        /\ minted' = WithEntry(minted, job[p])
        /\ pc'[p] = "idle" /\ \A q \in Processes : q # p => pc'[q] = pc[q]
    BY <1>6, <2>2 DEF ReplaceLock, Return, Goto, TypeOK, WithEntry
  <2>4. lock' = minted'
    BY <2>1, <2>3, WriterGoesOn
  <2>5. \A q \in Processes : pc'[q] \notin LockSteps
    BY <2>1, <2>3, WriterGoesOn DEF LockSteps
  <2>6. lock' \notin Unreadable /\ EntriesIn(lock') = minted'
    BY <2>2, <2>3, <2>4 DEF EntriesIn
  <2> QED
    BY <2>5, <2>6 DEF WriterAlone, LockSteps
<1>7. CASE Die(p)
  <2>1. \A q \in Processes : q # p => handle'[q] = handle[q]
    BY <1>7 DEF Die, TypeOK
  <2> QED
    BY <1>7, <2>1, AwayAlone DEF Die, Return, LockSteps
<1> QED
  BY <1>1, <1>2, <1>3, <1>4, <1>5, <1>6, <1>7 DEF Calibrate

LEMMA NextAlone ==
    ASSUME TypeOK, WriterAlone, [Next]_vars
    PROVE  WriterAlone'
<1>1. CASE UNCHANGED <<lock, tmp, handle, pc, job, minted, overlap>>
  BY <1>1 DEF WriterAlone, EntriesIn, WithEntry, EntryOf
<1>2. CASE \E p \in Processes : Calibrate(p)
  BY <1>2, CommandAlone
<1> QED
  BY <1>1, <1>2 DEF Next, vars, files, EditPrompt, SwitchModel

(* Without overlap the lock has, for every validator, the entry last written  *)
(* for it, and can be read, wherever commands died (calibration.py:633-639,   *)
(* 710-747).                                                                 *)
THEOREM Kept == Spec => []EntriesKept
<1>1. Init => WriterAlone
  <2> SUFFICES ASSUME Init PROVE WriterAlone
    OBVIOUS
  <2>1. NoFile \notin Table /\ NoFile \notin Unreadable
    BY FilesAssumption
  <2>2. lock \notin Unreadable /\ EntriesIn(lock) = minted
    BY <2>1 DEF Init, EntriesIn
  <2>3. \A p \in Processes : pc[p] = "idle"
    BY DEF Init
  <2> QED
    BY <2>2, <2>3 DEF WriterAlone, LockSteps
<1>2. TypeOK /\ WriterAlone /\ [Next]_vars => WriterAlone'
  BY NextAlone
<1>3. WriterAlone => EntriesKept
  BY DEF WriterAlone, EntriesKept
<1> QED
  BY <1>1, <1>2, <1>3, TypeCorrect, PTL DEF Spec
=============================================================================
