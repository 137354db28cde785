------------------------------ MODULE FreezeGate ------------------------------
(****************************************************************************)
(* One initiative on disk and the calls that write it: the artifact files   *)
(* under docs/sdlc with their Document Control block (src/state.py), the     *)
(* conductor's run_artifact (src/driver.py), the single freeze authority     *)
(* apply_freeze_decision (src/freeze.py) and the andon writer mark-status    *)
(* (src/cli.py).  Nothing is held in memory between calls and no call locks  *)
(* a file, so each call is a sequence of separate reads and writes, between  *)
(* which another driver may run (unless Exclusive) or the process may die.   *)
(*                                                                          *)
(* A call the code refuses before it has written anything (ALREADY_FROZEN,   *)
(* UpstreamNotFrozenError at the first read, every FreezeError) leaves the   *)
(* disk alone: it is a stuttering step here, the guard of the action.        *)
(****************************************************************************)
EXTENDS Naturals, Sequences, FiniteSets

CONSTANTS
    Types,          \* artifact types; an initiative has one artifact of each
    Upstream,       \* Upstream[t]: the types that must be frozen before t
    Bodies,         \* what a provider may generate, told apart by content
    Humans,         \* identities that may stand in decided_by
    NoOne,          \* an empty decided_by, an absent "Frozen By" row
    Blank,          \* no artifact, no body
    Drivers,        \* processes: conductor, console, sherpa
    Malformed,      \* a Frozen Count cell that int() does not parse
    InitialCounts,  \* what the ER says when the initiative is opened
    Submissions,    \* the outcomes, decided_by and auto flags submitted
    Assembled,      \* the types run_artifact_lifecycle is called for
    Exclusive,      \* drivers keep to one call at a time (the FR-019 lock)
    Crashes,        \* a driver process may die between two steps
    AndonAnywhere,  \* mark-status is also called on a FROZEN artifact
    MaxDecisions,   \* bound: decisions recorded
    MaxFreezes      \* bound: freezes started

DecisionOutcome == {"APPROVE", "APPROVE_WITH_CONDITIONS", "BLOCK",
                    "REMEDIATE_AND_RETRY", "REQUIRE_REDESIGN", "ROLLBACK"}

ApprovingOutcomes == {"APPROVE", "APPROVE_WITH_CONDITIONS"}

ASSUME ConstantsAssumption ==
    /\ Upstream \in [Types -> SUBSET Types]
    /\ Blank \notin Types /\ Blank \notin Bodies
    /\ NoOne \notin Humans
    /\ Malformed \notin Nat
    /\ InitialCounts \subseteq Nat \cup {Malformed}
    /\ Submissions \subseteq [outcome: DecisionOutcome, by: Humans \cup {NoOne},
                             auto: BOOLEAN]
    /\ Assembled \subseteq Types
    /\ Exclusive \in BOOLEAN /\ Crashes \in BOOLEAN
    /\ AndonAnywhere \in BOOLEAN
    /\ MaxDecisions \in Nat /\ MaxFreezes \in Nat

----------------------------------------------------------------------------
(* An artifact file is its whole text.  Hashing the text pins the status     *)
(* cell and the provenance rows as well as the body, so the text itself       *)
(* stands for its SHA-256 digest.                                            *)

ArtifactStatus == {"ABSENT", "FREEZE_PENDING", "FROZEN", "HALTED", "FAULTED"}

Signature == Humans \cup {NoOne}

Absent == [status |-> "ABSENT", body |-> Blank, by |-> NoOne]

Text == {Absent} \cup
        [status: ArtifactStatus \ {"ABSENT"}, body: Bodies, by: Signature]

(* Its content_hash is that of an artifact that exists.                      *)
FreezeGateDecision == [art: Types, text: Text \ {Absent}, outcome: DecisionOutcome,
                       by: Signature, auto: BOOLEAN]

RunSteps    == {"gate", "collect", "loop", "recheck", "persist"}
FreezeSteps == {"readStatus", "writeStatus", "readRows", "writeRows",
                "readCount", "writeCount", "journal"}
MarkSteps   == {"mark"}

(* What a driver's call holds in memory.                                     *)
Job == [art: Types \cup {Blank},
        seen: Text,                           \* the decision's content_hash
        by: Signature,                        \* the decision's decided_by
        text: Text,                           \* the file text last read
        body: Bodies \cup {Blank},            \* the converged artifact
        basis: SUBSET (Types \X Bodies),      \* upstream put in the prompt
        count: Nat,                           \* er_state.frozen_count
        mark: ArtifactStatus]                 \* mark-status argument

NoJob == [art |-> Blank, seen |-> Absent, by |-> NoOne, text |-> Absent,
          body |-> Blank, basis |-> {}, count |-> 0, mark |-> "ABSENT"]

VARIABLES
    file,       \* docs/sdlc: the text of each artifact
    er,         \* the Frozen Count cell of docs/engagement/er.md
    journal,    \* the POST_FREEZE entries of docs/engagement/journal.md
    verdicts,   \* .aieos/verdicts.jsonl, as <<type, status>> pairs
    decisions,  \* every FreezeGateDecision submitted so far
    basis,      \* history: the upstream bodies each artifact was derived from
    freezes,    \* freezes started, bounded by MaxFreezes
    pc, job     \* the call each driver is in

disk == <<file, er, journal, verdicts>>
vars == <<file, er, journal, verdicts, decisions, basis, freezes, pc, job>>

(* What a call's memory holds at each of its steps.                          *)
JobOK(p) ==
    /\ pc[p] # "idle" => job[p].art \in Types
    /\ pc[p] \in {"recheck", "persist"} => job[p].body \in Bodies
    /\ pc[p] \in FreezeSteps \cup MarkSteps => file[job[p].art] # Absent
    /\ pc[p] \in {"writeStatus", "writeRows", "mark"} => job[p].text # Absent
    /\ pc[p] = "mark" => job[p].mark \in {"HALTED", "FAULTED"}

TypeOK ==
    /\ file \in [Types -> Text]
    /\ er \in Nat \cup {Malformed}
    /\ journal \in Seq([art: Types, text: Text])
    /\ verdicts \subseteq Types \X {"PASS", "FAIL"}
    /\ decisions \subseteq FreezeGateDecision
    /\ basis \in [Types -> SUBSET (Types \X Bodies)]
    /\ freezes \in Nat
    /\ pc \in [Drivers -> {"idle"} \cup RunSteps \cup FreezeSteps \cup MarkSteps]
    /\ job \in [Drivers -> Job]
    /\ \A p \in Drivers : JobOK(p)

Init ==
    /\ file = [t \in Types |-> Absent]
    /\ er \in InitialCounts
    /\ journal = <<>>
    /\ verdicts = {}
    /\ decisions = {}
    /\ basis = [t \in Types |-> {}]
    /\ freezes = 0
    /\ pc = [p \in Drivers |-> "idle"]
    /\ job = [p \in Drivers |-> NoJob]

----------------------------------------------------------------------------
(* Bookkeeping of a call: when one may start, where it is, how it returns.   *)

MayStart(p) ==
    /\ pc[p] = "idle"
    /\ Exclusive => \A q \in Drivers : pc[q] = "idle"

Goto(p, step, j) ==
    /\ pc' = [pc EXCEPT ![p] = step]
    /\ job' = [job EXCEPT ![p] = j]

Return(p) == Goto(p, "idle", NoJob)

----------------------------------------------------------------------------
(* HarnessDriver.run_artifact.                                               *)

IsFrozen(t) == file[t].status = "FROZEN"

UpstreamFrozen_PresentOnly(t) == \A u \in Upstream[t] : file[u] # Absent

UpstreamFrozen(t) == \A u \in Upstream[t] : IsFrozen(u)

CollectUpstream_AnyStatus ==
    {<<u, file[u].body>> : u \in {v \in Types : file[v] # Absent}}

(* The upstream contents put in both requests: every FROZEN artifact.        *)
CollectUpstream == {<<u, file[u].body>> : u \in {v \in Types : IsFrozen(v)}}

RunStart(p, t) ==
    /\ MayStart(p)
    /\ ~IsFrozen(t)
    /\ Goto(p, "gate", [NoJob EXCEPT !.art = t])
    /\ UNCHANGED <<disk, decisions, basis, freezes>>

RunGate(p) ==
    /\ pc[p] = "gate"
    /\ \/ /\ UpstreamFrozen(job[p].art)
          /\ Goto(p, "collect", job[p])
       \/ /\ ~UpstreamFrozen(job[p].art)
          /\ Return(p)
    /\ UNCHANGED <<disk, decisions, basis, freezes>>

RunCollect(p) ==
    /\ pc[p] = "collect"
    /\ Goto(p, "loop", [job[p] EXCEPT !.basis = CollectUpstream])
    /\ UNCHANGED <<disk, decisions, basis, freezes>>

(* The bounded loop and the verdict record: it raises before any verdict is  *)
(* kept (truncation, provider failure), escalates, or converges on a body.   *)
RunLoop(p) ==
    /\ pc[p] = "loop"
    /\ \/ Return(p) /\ UNCHANGED verdicts
       \/ /\ verdicts' = verdicts \cup {<<job[p].art, "FAIL">>}
          /\ Return(p)
       \/ \E b \in Bodies :
             /\ verdicts' = verdicts \cup {<<job[p].art, "PASS">>}
             /\ Goto(p, "recheck", [job[p] EXCEPT !.body = b])
    /\ UNCHANGED <<file, er, journal, decisions, basis, freezes>>

(* FrozenArtifactError when the artifact was frozen in the meantime.         *)
RunRecheck(p) ==
    /\ pc[p] = "recheck"
    /\ \/ IsFrozen(job[p].art) /\ Return(p)
       \/ ~IsFrozen(job[p].art) /\ Goto(p, "persist", job[p])
    /\ UNCHANGED <<disk, decisions, basis, freezes>>

RunPersist(p) ==
    /\ pc[p] = "persist"
    /\ file' = [file EXCEPT ![job[p].art] =
                   [status |-> "FREEZE_PENDING", body |-> job[p].body, by |-> NoOne]]
    /\ basis' = [basis EXCEPT ![job[p].art] = job[p].basis]
    /\ Return(p)
    /\ UNCHANGED <<er, journal, verdicts, decisions, freezes>>

(* run_artifact_lifecycle: the loop on requests somebody else assembled.  It  *)
(* keeps the verdicts and writes no artifact; one that raises stutters.       *)
RunLifecycle(p, t) ==
    /\ MayStart(p)
    /\ \E s \in {"PASS", "FAIL"} : verdicts' = verdicts \cup {<<t, s>>}
    /\ UNCHANGED <<file, er, journal, decisions, basis, freezes, pc, job>>

----------------------------------------------------------------------------
(* A decision on what is on disk when it is made: a human's, or one a driver *)
(* makes up (auto_freeze_attempted, or without decided_by).                  *)

Decide(t, s) ==
    /\ file[t].status # "ABSENT"
    /\ Cardinality(decisions) < MaxDecisions
    /\ decisions' = decisions \cup
          {[art |-> t, text |-> file[t], outcome |-> s.outcome, by |-> s.by, auto |-> s.auto]}
    /\ UNCHANGED <<disk, basis, freezes, pc, job>>

Authorized(d) == ~d.auto /\ d.by # NoOne

Approving(d) == d.outcome \in ApprovingOutcomes

HashMatches_Skipped(d) == file[d.art] # Absent

HashMatches(d) == file[d.art] = d.text

(* apply_freeze_decision: the four guards, then the writes one by one.  ER   *)
(* and journal exist, so the fourth guard holds.                             *)
FreezeCheck(p, d) ==
    /\ MayStart(p)
    /\ freezes < MaxFreezes
    /\ Authorized(d)
    /\ Approving(d)
    /\ HashMatches(d)
    /\ Goto(p, "readStatus", [NoJob EXCEPT !.art = d.art, !.seen = d.text, !.by = d.by])
    /\ freezes' = freezes + 1
    /\ UNCHANGED <<disk, decisions, basis>>

ReadText_Cached(p, step, next) ==
    /\ pc[p] = step
    /\ Goto(p, next, [job[p] EXCEPT !.text = job[p].seen])
    /\ UNCHANGED <<disk, decisions, basis, freezes>>

ReadText(p, step, next) ==
    /\ pc[p] = step
    /\ Goto(p, next, [job[p] EXCEPT !.text = file[job[p].art]])
    /\ UNCHANGED <<disk, decisions, basis, freezes>>

FreezeReadStatus(p) == ReadText(p, "readStatus", "writeStatus")

FreezeWriteStatus(p) ==
    /\ pc[p] = "writeStatus"
    /\ file' = [file EXCEPT ![job[p].art] = [job[p].text EXCEPT !.status = "FROZEN"]]
    /\ Goto(p, "readRows", job[p])
    /\ UNCHANGED <<er, journal, verdicts, decisions, basis, freezes>>

FreezeReadRows(p) == ReadText(p, "readRows", "writeRows")

(* Owner, Frozen By and Frozen Date.                                         *)
FreezeWriteRows(p) ==
    /\ pc[p] = "writeRows"
    /\ file' = [file EXCEPT ![job[p].art] = [job[p].text EXCEPT !.by = job[p].by]]
    /\ Goto(p, "readCount", job[p])
    /\ UNCHANGED <<er, journal, verdicts, decisions, basis, freezes>>

FreezeReadCount_NoIncrement(p) ==
    /\ pc[p] = "readCount"
    /\ Goto(p, "writeCount", [job[p] EXCEPT !.count = er])
    /\ UNCHANGED <<disk, decisions, basis, freezes>>

(* int() of a malformed cell raises out of the call.                         *)
FreezeReadCount(p) ==
    /\ pc[p] = "readCount"
    /\ \/ er = Malformed /\ Return(p)
       \/ er # Malformed /\ Goto(p, "writeCount", [job[p] EXCEPT !.count = er + 1])
    /\ UNCHANGED <<disk, decisions, basis, freezes>>

FreezeWriteCount(p) ==
    /\ pc[p] = "writeCount"
    /\ er' = job[p].count
    /\ Goto(p, "journal", job[p])
    /\ UNCHANGED <<file, journal, verdicts, decisions, basis, freezes>>

FreezeJournal(p) ==
    /\ pc[p] = "journal"
    /\ journal' = Append(journal, [art |-> job[p].art, text |-> job[p].seen])
    /\ Return(p)
    /\ UNCHANGED <<file, er, verdicts, decisions, basis, freezes>>

----------------------------------------------------------------------------
(* mark-status: HALTED or FAULTED, whatever the artifact's status is.        *)
(* AndonAnywhere = FALSE states what the caller has to guarantee: the andon   *)
(* cord marks the artifact in flight, never one that is FROZEN.              *)

MarkRead_NoFile(p, t, s) ==
    /\ MayStart(p)
    /\ AndonAnywhere \/ ~IsFrozen(t)
    /\ Goto(p, "mark", [NoJob EXCEPT !.art = t, !.text = file[t], !.mark = s])
    /\ UNCHANGED <<disk, decisions, basis, freezes>>

MarkRead(p, t, s) ==
    /\ MayStart(p)
    /\ file[t].status # "ABSENT"
    /\ AndonAnywhere \/ ~IsFrozen(t)
    /\ Goto(p, "mark", [NoJob EXCEPT !.art = t, !.text = file[t], !.mark = s])
    /\ UNCHANGED <<disk, decisions, basis, freezes>>

MarkWrite(p) ==
    /\ pc[p] = "mark"
    /\ file' = [file EXCEPT ![job[p].art] = [job[p].text EXCEPT !.status = job[p].mark]]
    /\ Return(p)
    /\ UNCHANGED <<er, journal, verdicts, decisions, basis, freezes>>

----------------------------------------------------------------------------

(* The process dies between two steps: memory is lost, the disk stays.       *)
Crash(p) ==
    /\ Crashes
    /\ pc[p] # "idle"
    /\ Return(p)
    /\ UNCHANGED <<disk, decisions, basis, freezes>>

RunArtifact(p) ==
    \/ \E t \in Types : RunStart(p, t)
    \/ \E t \in Assembled : RunLifecycle(p, t)
    \/ RunGate(p) \/ RunCollect(p) \/ RunLoop(p) \/ RunRecheck(p) \/ RunPersist(p)

ApplyFreezeDecision(p) ==
    \/ \E d \in decisions : FreezeCheck(p, d)
    \/ FreezeReadStatus(p) \/ FreezeWriteStatus(p)
    \/ FreezeReadRows(p) \/ FreezeWriteRows(p)
    \/ FreezeReadCount(p) \/ FreezeWriteCount(p) \/ FreezeJournal(p)

MarkStatus(p) ==
    \/ \E t \in Types, s \in {"HALTED", "FAULTED"} : MarkRead(p, t, s)
    \/ MarkWrite(p)

Next ==
    \/ \E p \in Drivers :
          RunArtifact(p) \/ ApplyFreezeDecision(p) \/ MarkStatus(p) \/ Crash(p)
    \/ \E t \in Types, s \in Submissions : Decide(t, s)

Spec == Init /\ [][Next]_vars

----------------------------------------------------------------------------
(* Properties.                                                               *)

Idle == \A p \in Drivers : pc[p] = "idle"

(* A human approved exactly this content of this artifact.                   *)
Approved(t, b) ==
    \E d \in decisions :
        d.art = t /\ d.text.body = b /\ Authorized(d) /\ Approving(d)

(* What a call may rely on at each of its steps, when no other call runs.     *)
CallOK(p) ==
    LET t == job[p].art IN
    /\ pc[p] \in RunSteps => ~IsFrozen(t)
    /\ pc[p] \in RunSteps \ {"gate"} => UpstreamFrozen(t)
    /\ pc[p] \in {"loop", "recheck", "persist"} => job[p].basis = CollectUpstream
    /\ pc[p] \in FreezeSteps =>
          file[t].body = job[p].seen.body /\ Approved(t, job[p].seen.body)
    /\ pc[p] \in {"writeStatus", "writeRows", "mark"} => job[p].text = file[t]
    /\ pc[p] \in FreezeSteps \ {"readStatus", "writeStatus"} => IsFrozen(t)
    /\ pc[p] = "mark" => AndonAnywhere \/ ~IsFrozen(t)

(* With the lock, what a call read and checked stays true until it returns:   *)
(* the gate it passed, the upstream it put in the prompt, the hash it         *)
(* compared and the text it writes back (driver.py:143-224,                   *)
(* freeze.py:110-164, none of which is read again where it is used).          *)
CallOwnsDisk ==
    /\ \A p, q \in Drivers : pc[p] # "idle" /\ pc[q] # "idle" => p = q
    /\ \A p \in Drivers : CallOK(p)

(* What stands as FROZEN is content a named human approved, whatever was      *)
(* regenerated, marked, retried or lost in a crash between the approval and   *)
(* the freeze (freeze.py:110-132, the authorization and content hash guards). *)
FrozenWasApproved ==
    \A t \in Types : IsFrozen(t) => Approved(t, file[t].body)

(* A FROZEN artifact is immutable (driver.py:73-79): no step takes it out of  *)
(* FROZEN or changes its body.                                                *)
FrozenImmutable ==
    [][\A t \in Types :
          IsFrozen(t) => file'[t].status = "FROZEN" /\ file'[t].body = file[t].body]_vars

(* Freeze-before-promote (invariants.py:80-116, driver.py:152-166): an        *)
(* artifact on disk was derived from every upstream type it requires, and     *)
(* only from content a human had approved.                                    *)
PromotedFromApproved ==
    \A t \in Types : file[t].status # "ABSENT" =>
        /\ \A u \in Upstream[t] : \E b \in Bodies : <<u, b>> \in basis[t]
        /\ \A ub \in basis[t] : Approved(ub[1], ub[2])

(* The chain of frozen artifacts never goes stale: what an artifact was       *)
(* derived from is still frozen with that content (ADR-0002: a frozen         *)
(* boundary is a safe switch point).                                          *)
ChainConsistent ==
    \A t \in Types : \A ub \in basis[t] :
        IsFrozen(ub[1]) /\ file[ub[1]].body = ub[2]

(* The books never claim what the disk does not show, after any crash: the    *)
(* artifact of each POST_FREEZE entry is frozen with the body the entry's     *)
(* hash pins, and the Engagement Record has counted it before the journal     *)
(* tells of it (freeze.py:144-185, status, then count, then entry).           *)
JournalMatchesDisk ==
    /\ \A i \in 1..Len(journal) :
          /\ IsFrozen(journal[i].art)
          /\ file[journal[i].art].body = journal[i].text.body
    /\ er # Malformed => er >= Len(journal)

(* A FROZEN artifact carries its provenance and its journal entry.            *)
Booked(t) ==
    /\ file[t].by # NoOne
    /\ \E i \in 1..Len(journal) :
          journal[i].art = t /\ journal[i].text.body = file[t].body

(* When no call is running and every freeze that was started reached the      *)
(* journal, none died or raised, every FROZEN artifact carries its            *)
(* provenance, has its journal entry, and the count is the number of entries  *)
(* (freeze.py:144-185).                                                       *)
BookkeepingComplete ==
    Idle /\ freezes = Len(journal) =>
        /\ er # Malformed => er = Len(journal)
        /\ \A t \in Types : IsFrozen(t) => Booked(t)

(* An artifact offered to the freeze gate, or frozen, has a PASS on record,   *)
(* with the lock or without (driver.py:215-223, the verdict is kept before    *)
(* the file is written).                                                      *)
PendingHasVerdict ==
    \A t \in Types : file[t].status # "ABSENT" => <<t, "PASS">> \in verdicts

(* The records agree with the files: journal, count and verdicts, in whatever  *)
(* order calls interleave and wherever one dies (freeze.py:144-185,            *)
(* driver.py:215-223).                                                        *)
RecordsAgree == JournalMatchesDisk /\ BookkeepingComplete /\ PendingHasVerdict

(* How far a freeze under way has come: it was counted as started, it holds   *)
(* the next count before it writes it, and it has counted itself before it    *)
(* reaches the journal.                                                      *)
FreezeInStep(p) ==
    pc[p] \in FreezeSteps =>
        /\ job[p].by # NoOne
        /\ Len(journal) < freezes
        /\ pc[p] = "writeCount" => er # Malformed /\ job[p].count = er + 1
        /\ pc[p] = "journal" => er # Malformed /\ er > Len(journal)

(* As long as no earlier freeze was lost, the count and the provenance lag    *)
(* behind by exactly what the freeze under way has not done yet.              *)
OneBehind(p) ==
    pc[p] \in FreezeSteps /\ freezes = Len(journal) + 1 =>
        /\ er # Malformed =>
              er = IF pc[p] = "journal" THEN freezes ELSE Len(journal)
        /\ \A t \in Types : IsFrozen(t) =>
              \/ Booked(t)
              \/ /\ t = job[p].art
                 /\ pc[p] \in {"readRows", "writeRows"} \/ file[t].by # NoOne

NoneBehind ==
    freezes = Len(journal) /\ (\A p \in Drivers : pc[p] \notin FreezeSteps) =>
        /\ er # Malformed => er = Len(journal)
        /\ \A t \in Types : IsFrozen(t) => Booked(t)

(* The verdict is on record before the call that earned it writes the file.   *)
VerdictFirst(p) ==
    pc[p] \in {"recheck", "persist"} => <<job[p].art, "PASS">> \in verdicts

BooksInStep ==
    /\ Len(journal) <= freezes
    /\ \A p \in Drivers : FreezeInStep(p) /\ OneBehind(p)
    /\ NoneBehind

(* freeze.py:150-152 says a FROZEN block always satisfies                     *)
(* frozen_requires_provenance; read here between calls only.                  *)
FrozenHasProvenance ==
    Idle => \A t \in Types : IsFrozen(t) => file[t].by # NoOne

(* The calls together keep the promise of FreezeAuthority, step by step.      *)
Authority == INSTANCE FreezeAuthority WITH
    content  <- [t \in Types |-> file[t].body],
    frozen   <- {t \in Types : IsFrozen(t)},
    approved <- {tb \in Types \X Bodies : Approved(tb[1], tb[2])}

ImplementsAuthority == Authority!Spec
=============================================================================
