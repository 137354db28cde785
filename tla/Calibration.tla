----------------------------- MODULE Calibration -----------------------------
(****************************************************************************)
(* Judge calibration (src/calibration.py and cmd_calibrate of src/cli.py): a  *)
(* judge answers for every gate of every gold case RunsPerCase times, the     *)
(* answers are scored, and a judge that passes gets an entry in               *)
(* calibration.lock, which CI compares with the prompt and model in use.      *)
(*                                                                          *)
(* Calibrations of several validators may run at the same time and share one  *)
(* lock file.  Its write goes through calibration.lock.tmp: truncated when    *)
(* opened, filled, and moved over the lock.  An open handle follows the file  *)
(* it was opened on, also when that has become the lock (POSIX).             *)
(****************************************************************************)
EXTENDS Naturals, FiniteSets

CONSTANTS
    Validators,         \* the judged roles, as named by gold cases
    Prompts,            \* versions of a validator prompt, told apart by SHA-256
    Models,
    Cases,              \* gold cases
    Gates,
    ValidatorOf,        \* ValidatorOf[c]: the validator case c is for
    Expected,           \* Expected[c]: the label of each gate the case names
    Exempt,             \* the cases of a spec exemption
    RunsPerCase,        \* RUNS_PER_CASE, 3 in the code
    Floor,              \* FLOOR_MIN_*: 12 cases, 2 exempt, 1 pass, 1 fail
    AgreementMin,       \* gate_agreement_min of each role, as <<num, den>>
    NoFile,             \* there is no such file
    Empty,              \* a file that was truncated
    Garbage,            \* one text written over a longer one
    NoEntry,
    Processes,          \* calibrate commands running at the same time
    MaxCommands         \* bound: commands started

Labels == {"PASS", "FAIL"}

(* MISSING stands for a gate the judge left out.                             *)
Answers == Labels \cup {"MISSING"}

Roles == {"freeze-gate", "advisory"}

ASSUME ConstantsAssumption ==
    /\ IsFiniteSet(Cases) /\ IsFiniteSet(Gates)
    /\ ValidatorOf \in [Cases -> Validators]
    /\ \A c \in Cases : \E G \in SUBSET Gates : Expected[c] \in [G -> Labels]
    /\ Exempt \subseteq Cases
    /\ RunsPerCase \in Nat \ {0}
    /\ Floor \in [{"cases", "exempt", "pass", "fail"} -> Nat]
    /\ AgreementMin \in [Roles -> Nat \X Nat]
    /\ MaxCommands \in Nat

(* What an entry of the lock pins; its scores and dates decide nothing.       *)
Entry == [prompt: Prompts, model: Models]

Table == [Validators -> Entry \cup {NoEntry}]

NoEntries == [v \in Validators |-> NoEntry]

(* What a file holds that json.loads refuses.                                *)
Unreadable == {Empty, Garbage}

ASSUME FilesAssumption ==
    /\ NoEntry \notin Entry
    /\ NoFile \notin Unreadable
    /\ ({NoFile} \cup Unreadable) \cap Table = {}

----------------------------------------------------------------------------
(* The gold set.                                                             *)

AllPass(c) == \A g \in DOMAIN Expected[c] : Expected[c][g] = "PASS"

(* Below the floor a set of cases measures nothing: no call, no lock.        *)
MeetsFloor(S) ==
    /\ Cardinality(S) >= Floor["cases"]
    /\ Cardinality(S \cap Exempt) >= Floor["exempt"]
    /\ Cardinality({c \in S : AllPass(c)}) >= Floor["pass"]
    /\ Cardinality({c \in S : ~AllPass(c)}) >= Floor["fail"]

(* The <<case, gate>> pairs a judge is scored on.                            *)
Items(S) == {i \in S \X Gates : i[2] \in DOMAIN Expected[i[1]]}

Label(i) == Expected[i[1]][i[2]]

Runs == 1..RunsPerCase

----------------------------------------------------------------------------
(* Scoring.  answers[i][k] is what the judge said of item i in run k.         *)

Agreements(answers) ==
    {ik \in (DOMAIN answers) \X Runs : answers[ik[1]][ik[2]] = Label(ik[1])}

FalsePasses(answers) ==
    {i \in DOMAIN answers : Label(i) = "FAIL" /\ \E k \in Runs : answers[i][k] = "PASS"}

(* The runs of an item are identical calls: a difference is instability.      *)
StabilityFlips(answers) ==
    {i \in DOMAIN answers : \E k, l \in Runs : answers[i][k] # answers[i][l]}

Agrees(role, answers) ==
    Cardinality(Agreements(answers)) * AgreementMin[role][2]
        >= AgreementMin[role][1] * Cardinality(DOMAIN answers) * RunsPerCase

Passes_ScoreOnly(role, answers) ==
    /\ role = "freeze-gate" => FalsePasses(answers) = {}
    /\ Agrees(role, answers)

(* Flips and, for a role that gates freezes, false passes fail a judge        *)
(* whatever its score.                                                       *)
Passes(role, answers) ==
    /\ StabilityFlips(answers) = {}
    /\ role = "freeze-gate" => FalsePasses(answers) = {}
    /\ Agrees(role, answers)

----------------------------------------------------------------------------
(* What is remembered of a judge that passed: what it was measured on, and    *)
(* whether it ever contradicted itself or was lenient with a human's FAIL.    *)
Certificate == [validator: Validators, prompt: Prompts, model: Models, role: Roles,
                cases: SUBSET Cases, wavered: BOOLEAN, lenient: BOOLEAN]

(* What a calibrate command holds in memory; table is what it will write.     *)
Job == [validator: Validators, prompt: Prompts, model: Models, role: Roles,
        cases: SUBSET Cases, table: Table]

LockSteps == {"open", "fill", "replace"}

VARIABLES
    prompt,     \* prompt[v]: the text of the validator's prompt file
    model,      \* the judge model of the configuration
    lock,       \* calibration.lock
    tmp,        \* calibration.lock.tmp
    handle,     \* the file a process has open for writing, by what it is now
    pc, job,    \* the command of each process
    commands,   \* commands started, bounded by MaxCommands
    certified,  \* history: what was measured of every judge that passed
    minted,     \* history: the entry last written for each validator
    overlap     \* history: two commands were between read and replace at once

files == <<lock, tmp, handle>>
vars == <<prompt, model, lock, tmp, handle, pc, job, commands, certified, minted, overlap>>

NoJob == [validator |-> NoEntry]

TypeOK ==
    /\ prompt \in [Validators -> Prompts] /\ model \in Models
    /\ lock \in {NoFile} \cup Unreadable \cup Table
    /\ tmp \in {NoFile} \cup Unreadable \cup Table
    /\ handle \in [Processes -> {"none", "tmp", "lock", "gone"}]
    /\ pc \in [Processes -> {"idle", "judge", "read"} \cup LockSteps]
    /\ job \in [Processes -> Job \cup {NoJob}]
    /\ \A p \in Processes :
          /\ pc[p] # "idle" => job[p] \in Job
          /\ (handle[p] = "none") <=> (pc[p] # "fill")
          /\ handle[p] = "tmp" => tmp # NoFile
    /\ commands \in Nat
    /\ certified \subseteq Certificate
    /\ minted \in Table
    /\ overlap \in BOOLEAN

Init ==
    /\ prompt \in [Validators -> Prompts] /\ model \in Models
    /\ lock = NoFile /\ tmp = NoFile
    /\ handle = [p \in Processes |-> "none"]
    /\ pc = [p \in Processes |-> "idle"]
    /\ job = [p \in Processes |-> NoJob]
    /\ commands = 0 /\ certified = {} /\ minted = NoEntries /\ overlap = FALSE

Goto(p, step, j) ==
    /\ pc' = [pc EXCEPT ![p] = step]
    /\ job' = [job EXCEPT ![p] = j]

Return(p) == Goto(p, "idle", NoJob)

----------------------------------------------------------------------------
(* calibrate.                                                                *)

(* The gold directory holds the cases S, all of validator v and enough of     *)
(* them; prompt file and configuration are read once, here.                  *)
Load(p, v, S, role) ==
    /\ pc[p] = "idle" /\ commands < MaxCommands
    /\ commands' = commands + 1
    /\ \A c \in S : ValidatorOf[c] = v
    /\ MeetsFloor(S)
    /\ Goto(p, "judge", [validator |-> v, prompt |-> prompt[v], model |-> model,
                         role |-> role, cases |-> S, table |-> NoEntries])
    /\ UNCHANGED <<prompt, model, files, certified, minted, overlap>>

CertificateOf(j, answers) ==
    [validator |-> j.validator, prompt |-> j.prompt, model |-> j.model,
     role |-> j.role, cases |-> j.cases,
     wavered |-> \E i \in Items(j.cases) :
                     ~ \E a \in Answers : \A k \in Runs : answers[i][k] = a,
     lenient |-> \E i \in Items(j.cases), k \in Runs :
                     Label(i) = "FAIL" /\ answers[i][k] = "PASS"]

(* All the calls, and the score: nothing else reads or writes meanwhile.  A   *)
(* provider error or a failing judge ends the command; the lock is untouched. *)
Judge(p) ==
    /\ pc[p] = "judge"
    /\ \/ /\ Return(p)
          /\ UNCHANGED certified
       \/ \E answers \in [Items(job[p].cases) -> [Runs -> Answers]] :
             /\ Passes(job[p].role, answers)
             /\ certified' = certified \cup {CertificateOf(job[p], answers)}
             /\ Goto(p, "read", job[p])
    /\ UNCHANGED <<commands, prompt, model, files, minted, overlap>>

(* The entries of a file; a lock that cannot be read is rebuilt.              *)
EntriesIn(file) == IF file \in Table THEN file ELSE NoEntries

EntryOf(j) == [prompt |-> j.prompt, model |-> j.model]

WithEntry_Rebuilt(table, j) == [NoEntries EXCEPT ![j.validator] = EntryOf(j)]

WithEntry(table, j) == [table EXCEPT ![j.validator] = EntryOf(j)]

(* write_lock reads the lock once and writes it back whole.                  *)
ReadLock(p) ==
    /\ pc[p] = "read"
    /\ Goto(p, "open", [job[p] EXCEPT !.table = WithEntry(EntriesIn(lock), job[p])])
    /\ overlap' = (overlap \/ \E q \in Processes : pc[q] \in LockSteps)
    /\ UNCHANGED <<commands, prompt, model, files, certified, minted>>

OpenTmp(p) ==
    /\ pc[p] = "open"
    /\ tmp' = Empty
    /\ handle' = [handle EXCEPT ![p] = "tmp"]
    /\ Goto(p, "fill", job[p])
    /\ UNCHANGED <<commands, prompt, model, lock, certified, minted, overlap>>

(* A text written from the start of a file that has another one meanwhile     *)
(* may leave the rest of that behind.                                        *)
Overwritten(file, text) == IF file = Empty THEN {text} ELSE {text, Garbage}

FillTmp(p) ==
    /\ pc[p] = "fill"
    /\ \/ handle[p] = "tmp" /\ tmp' \in Overwritten(tmp, job[p].table) /\ UNCHANGED lock
       \/ handle[p] = "lock" /\ lock' \in Overwritten(lock, job[p].table) /\ UNCHANGED tmp
       \/ handle[p] = "gone" /\ UNCHANGED <<lock, tmp>>
    /\ handle' = [handle EXCEPT ![p] = "none"]
    /\ Goto(p, "replace", job[p])
    /\ UNCHANGED <<commands, prompt, model, certified, minted, overlap>>

Moved == [tmp |-> "lock", lock |-> "gone", gone |-> "gone", none |-> "none"]

ReplaceLock_HandlesStay(p) ==
    /\ pc[p] = "replace"
    /\ \/ /\ tmp # NoFile
          /\ lock' = tmp /\ tmp' = NoFile
          /\ minted' = [minted EXCEPT ![job[p].validator] = EntryOf(job[p])]
       \/ tmp = NoFile /\ UNCHANGED <<lock, tmp, minted>>
    /\ Return(p)
    /\ UNCHANGED <<commands, prompt, model, handle, certified, overlap>>

(* os.replace; it raises when another command has moved the file away.        *)
ReplaceLock(p) ==
    /\ pc[p] = "replace"
    /\ \/ /\ tmp # NoFile
          /\ lock' = tmp /\ tmp' = NoFile
          /\ handle' = [q \in Processes |-> Moved[handle[q]]]
          /\ minted' = [minted EXCEPT ![job[p].validator] = EntryOf(job[p])]
       \/ tmp = NoFile /\ UNCHANGED <<files, minted>>
    /\ Return(p)
    /\ UNCHANGED <<commands, prompt, model, certified, overlap>>

(* The process dies between two steps; the files stay as they are.            *)
Die(p) ==
    /\ pc[p] # "idle"
    /\ handle' = [handle EXCEPT ![p] = "none"]
    /\ Return(p)
    /\ UNCHANGED <<commands, prompt, model, lock, tmp, certified, minted, overlap>>

Calibrate(p) ==
    \/ \E v \in Validators, S \in SUBSET Cases, role \in Roles : Load(p, v, S, role)
    \/ Judge(p) \/ ReadLock(p) \/ OpenTmp(p) \/ FillTmp(p) \/ ReplaceLock(p) \/ Die(p)

(* The kit's prompt of a validator is edited; another judge is configured.    *)
EditPrompt(v, x) ==
    /\ prompt' = [prompt EXCEPT ![v] = x]
    /\ UNCHANGED <<commands, model, files, pc, job, certified, minted, overlap>>

SwitchModel(m) ==
    /\ model' = m
    /\ UNCHANGED <<commands, prompt, files, pc, job, certified, minted, overlap>>

Next ==
    \/ \E p \in Processes : Calibrate(p)
    \/ \E v \in Validators, x \in Prompts : EditPrompt(v, x)
    \/ \E m \in Models : SwitchModel(m)

Spec == Init /\ [][Next]_vars

----------------------------------------------------------------------------
(* check_lock, for the prompt and the model in use.                          *)

CheckLock(v) ==
    LET entry == EntriesIn(lock)[v] IN
    IF lock = NoFile THEN "missing_lock"
    ELSE IF lock \in Unreadable THEN "bad_lock"
    ELSE IF entry = NoEntry THEN "unknown_validator"
    ELSE IF entry.prompt # prompt[v] THEN "prompt_changed"
    ELSE IF entry.model # model THEN "model_changed"
    ELSE "fresh"

----------------------------------------------------------------------------
(* Properties.                                                               *)

(* A judge measured on a gold set above the floor, that said the same in all  *)
(* its runs and, if it gates freezes, let nothing pass that a human failed.   *)
Sound(r) ==
    /\ MeetsFloor(r.cases)
    /\ \A c \in r.cases : ValidatorOf[c] = r.validator
    /\ ~r.wavered
    /\ r.role = "freeze-gate" => ~r.lenient

(* A fresh lock speaks of the judge in use: one with this prompt and this     *)
(* model was measured for this validator and found sound, however commands    *)
(* that share the lock and its temporary file overlapped or died              *)
(* (calibration.py:705-747, 755-793).                                        *)
FreshMeansMeasured ==
    \A v \in Validators : CheckLock(v) = "fresh" =>
        \E r \in certified :
            /\ r.validator = v /\ r.prompt = prompt[v] /\ r.model = model
            /\ Sound(r)

(* Unless two commands were between read and replace at once, the lock has    *)
(* for every validator the entry last written for it, whatever command died   *)
(* where: the entries of others are preserved and the lock can be read        *)
(* (calibration.py:633-639, 710-712).                                        *)
EntriesKept ==
    ~overlap => /\ lock \notin Unreadable
                /\ EntriesIn(lock) = minted
=============================================================================
