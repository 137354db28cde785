----------------------------- MODULE WDDExecution -----------------------------
(****************************************************************************)
(* The WDD orchestrator of src/orchestrator.py and its execution ledger       *)
(* (src/execution_ledger.py): groups one after the other, the items of a      *)
(* group in a pool of threads, phase by phase or each on its own, and a       *)
(* ledger whose every change is saved by rewriting the file.                  *)
(*                                                                          *)
(* A record of the ledger is its status.  A call of the convergence loop      *)
(* returns, whatever its verdict, or raises.  The texts put together for the  *)
(* models are left out.                                                     *)
(****************************************************************************)
EXTENDS Naturals, FiniteSets

CONSTANTS
    Items,
    Human,        \* items whose assignee type is Human
    Files,        \* files_touched of an item
    NumGroups,
    GroupOf,      \* the group of an item
    Mode,         \* mode of a group, as the plan gives it
    NumPhases,    \* PHASES: tests, plan, code, review
    MaxWorkers,
    MaxRuns,      \* bound: how often the orchestrator is started
    TornWrites    \* whether the process may die while the ledger is blank

Groups == 1..NumGroups
Phases == 1..NumPhases
Main == "main"
Threads == Items \cup {Main}

ASSUME ConstantsAssumption ==
    /\ IsFiniteSet(Items) /\ Main \notin Items
    /\ Human \subseteq Items
    /\ DOMAIN Files = Items
    /\ NumGroups \in Nat
    /\ GroupOf \in [Items -> Groups]
    /\ Mode \in [Groups -> {"phase_sync", "independent"}]
    /\ NumPhases \in Nat \ {0}
    /\ MaxWorkers \in Nat \ {0}
    /\ MaxRuns \in Nat
    /\ TornWrites \in BOOLEAN

Members(g) == {i \in Items : GroupOf[i] = g}

(* _check_file_overlap.                                                      *)
Share(i, j) == i # j /\ Files[i] \cap Files[j] # {}

Synchronous(g) ==
    Mode[g] = "phase_sync" \/ \E i, j \in Members(g) : Share(i, j)

Row == {"none", "running", "passed", "failed"}

Ledger == [rows : [Items -> [Phases -> Row]],
           gates : [Groups -> {"none", "passed", "failed"}]]

Blank == [rows |-> [i \in Items |-> [p \in Phases |-> "none"]],
          gates |-> [g \in Groups |-> "none"]]

Save == [step : {"none", "truncate", "write"}, text : Ledger]

NoSave == [step |-> "none", text |-> Blank]

(* submitted: main has recorded the start.  queued: in the pool's queue.       *)
(* ready: a thread of the pool has it (independent).  converge, store: inside  *)
(* a phase.  returned, raised: the future is done.                            *)
Places == {"idle", "submitted", "queued", "ready", "converge", "store",
           "returned", "raised"}

InPool == {"ready", "converge", "store"}

VARIABLES
    pc,       \* where execute is
    group,    \* index of the group
    phase,    \* the phase of a phase_sync group
    todo,     \* items the submitting loop has not come to
    worker,   \* where each item is, and at which of its phases
    mem,      \* the ledger in memory
    save,     \* the save each thread is in
    disk,     \* the ledger on disk
    out,      \* the phases of each item whose output file is written
    tally,    \* items completed, failed, human
    runs

vars == <<pc, group, phase, todo, worker, mem, save, disk, out, tally, runs>>

TypeOK ==
    /\ pc \in {"down", "group", "submit", "collect", "gate", "gated", "done"}
    /\ group \in 1..NumGroups + 1
    /\ pc \in {"submit", "collect", "gate", "gated"} => group \in Groups
    /\ phase \in Phases
    /\ todo \subseteq Items
    /\ worker \in [Items -> [at : Places, phase : Phases]]
    /\ mem \in Ledger
    /\ save \in [Threads -> Save]
    /\ disk \in Ledger
    /\ out \in [Items -> SUBSET Phases]
    /\ tally \in [completed : Nat, failed : Nat, human : Nat]
    /\ runs \in 0..MaxRuns

AllIdle == [i \in Items |-> [at |-> "idle", phase |-> 1]]

Init ==
    /\ pc = "down"
    /\ group = 1
    /\ phase = 1
    /\ todo = {}
    /\ worker = AllIdle
    /\ mem = Blank
    /\ save = [t \in Threads |-> NoSave]
    /\ disk = Blank
    /\ out = [i \in Items |-> {}]
    /\ tally = [completed |-> 0, failed |-> 0, human |-> 0]
    /\ runs = 0

----------------------------------------------------------------------------
(* The ledger.                                                               *)

Complete(ledger, i, p) == ledger.rows[i][p] = "passed"

Saved(t) == save[t].step = "none"

(* A change of the ledger, and the text that save() makes of it.              *)
Change(t, ledger) ==
    /\ mem' = ledger
    /\ save' = [save EXCEPT ![t] = [step |-> "truncate", text |-> ledger]]

Record(t, i, p, row) == Change(t, [mem EXCEPT !.rows[i][p] = row])

(* write_text opens the file, which truncates it, and then writes the text.   *)
Truncate(t) ==
    /\ save[t].step = "truncate"
    /\ disk' = Blank
    /\ save' = [save EXCEPT ![t].step = "write"]
    /\ UNCHANGED <<pc, group, phase, todo, worker, mem, out, tally, runs>>

WriteText(t) ==
    /\ save[t].step = "write"
    /\ disk' = save[t].text
    /\ save' = [save EXCEPT ![t] = NoSave]
    /\ UNCHANGED <<pc, group, phase, todo, worker, mem, out, tally, runs>>

(* load: a failed row whose error text holds a line break or a bar does not    *)
(* parse, and is dropped.                                                    *)
Loaded(ledger) ==
    { [ledger EXCEPT !.rows = [i \in Items |-> [p \in Phases |->
          IF <<i, p>> \in dropped THEN "none" ELSE ledger.rows[i][p]]]] :
      dropped \in SUBSET {x \in Items \X Phases : ledger.rows[x[1]][x[2]] = "failed"} }

----------------------------------------------------------------------------
(* execute: the groups in turn.                                              *)

Move(i, place, p) == worker' = [worker EXCEPT ![i] = [at |-> place, phase |-> p]]

Start ==
    /\ pc \in {"down", "done"}
    /\ runs < MaxRuns
    /\ runs' = runs + 1
    /\ mem' \in Loaded(disk)
    /\ pc' = "group"
    /\ group' = 1
    /\ tally' = [completed |-> 0, failed |-> 0, human |-> 0]
    /\ UNCHANGED <<phase, todo, worker, save, disk, out>>

NextGroup ==
    /\ pc = "group"
    /\ \/ /\ group <= NumGroups
          /\ pc' = "submit"
          /\ todo' = Members(group)
       \/ /\ group > NumGroups
          /\ pc' = "done"
          /\ UNCHANGED todo
    /\ phase' = 1
    /\ UNCHANGED <<group, worker, mem, save, disk, out, tally, runs>>

RecordGate_Unsaved ==
    /\ pc = "gate"
    /\ mem' = [mem EXCEPT !.gates[group] =
                  IF tally.failed = 0 THEN "passed" ELSE "failed"]
    /\ pc' = "gated"
    /\ UNCHANGED <<group, phase, todo, worker, save, disk, out, tally, runs>>

(* A failed group stops the run, so tally counts failures of this group only. *)
RecordGate ==
    /\ pc = "gate"
    /\ Change(Main, [mem EXCEPT !.gates[group] =
                        IF tally.failed = 0 THEN "passed" ELSE "failed"])
    /\ pc' = "gated"
    /\ UNCHANGED <<group, phase, todo, worker, disk, out, tally, runs>>

GateRecorded_GoesOn ==
    /\ pc = "gated"
    /\ Saved(Main)
    /\ pc' = "group" /\ group' = group + 1
    /\ UNCHANGED <<phase, todo, worker, mem, save, disk, out, tally, runs>>

GateRecorded ==
    /\ pc = "gated"
    /\ Saved(Main)
    /\ \/ tally.failed = 0 /\ pc' = "group" /\ group' = group + 1
       \/ tally.failed > 0 /\ pc' = "done" /\ UNCHANGED group
    /\ UNCHANGED <<phase, todo, worker, mem, save, disk, out, tally, runs>>

----------------------------------------------------------------------------
(* Submitting the items of a group.                                          *)

Submitting(i) ==
    /\ pc = "submit"
    /\ Saved(Main)
    /\ i \in todo
    /\ \A j \in Items : worker[j].at # "submitted"

(* The phase whose records main makes: of a phase_sync group the phase in      *)
(* hand, of an independent one each phase of a human item.                    *)
HumanStart(i) ==
    /\ i \in Human
    /\ Submitting(i)
    /\ LET p == IF Synchronous(group) THEN phase ELSE 1 IN
       /\ Record(Main, i, p, "running")
       /\ Move(i, "submitted", p)
       /\ tally' = IF p = 1 THEN [tally EXCEPT !.human = @ + 1] ELSE tally
    /\ UNCHANGED <<pc, group, phase, todo, disk, out, runs>>

HumanComplete(i) ==
    LET p == worker[i].phase IN
    /\ i \in Human
    /\ worker[i].at = "submitted"
    /\ Saved(Main)
    /\ IF mem.rows[i][p] = "running"
       THEN Record(Main, i, p, "passed") /\ UNCHANGED <<worker, todo>>
       ELSE IF ~Synchronous(group) /\ p < NumPhases
       THEN Record(Main, i, p + 1, "running") /\ Move(i, "submitted", p + 1) /\ UNCHANGED todo
       ELSE Move(i, "idle", 1) /\ todo' = todo \ {i} /\ UNCHANGED <<mem, save>>
    /\ UNCHANGED <<pc, group, phase, disk, out, tally, runs>>

(* Resumption: a phase the ledger calls passed is not run again.              *)
SubmitSkip(i) ==
    /\ i \notin Human
    /\ Submitting(i)
    /\ Synchronous(group)
    /\ Complete(mem, i, phase)
    /\ todo' = todo \ {i}
    /\ tally' = IF phase = NumPhases THEN [tally EXCEPT !.completed = @ + 1] ELSE tally
    /\ UNCHANGED <<pc, group, phase, worker, mem, save, disk, out, runs>>

SubmitStart_Again(i) ==
    /\ i \notin Human
    /\ Submitting(i)
    /\ Synchronous(group)
    /\ Record(Main, i, phase, "running")
    /\ Move(i, "submitted", phase)
    /\ UNCHANGED <<pc, group, phase, todo, disk, out, tally, runs>>

SubmitStart(i) ==
    /\ i \notin Human
    /\ Submitting(i)
    /\ Synchronous(group)
    /\ ~Complete(mem, i, phase)
    /\ Record(Main, i, phase, "running")
    /\ Move(i, "submitted", phase)
    /\ UNCHANGED <<pc, group, phase, todo, disk, out, tally, runs>>

(* executor.submit.                                                          *)
Submit(i) ==
    /\ i \notin Human
    /\ \/ worker[i].at = "submitted" /\ Saved(Main) /\ Move(i, "queued", phase)
       \/ Submitting(i) /\ ~Synchronous(group) /\ Move(i, "queued", 1)
    /\ todo' = todo \ {i}
    /\ UNCHANGED <<pc, group, phase, mem, save, disk, out, tally, runs>>

Submitted ==
    /\ pc = "submit"
    /\ todo = {}
    /\ pc' = "collect"
    /\ UNCHANGED <<group, phase, todo, worker, mem, save, disk, out, tally, runs>>

----------------------------------------------------------------------------
(* A thread of the pool.                                                     *)

Dequeue(i) ==
    /\ worker[i].at = "queued"
    /\ Cardinality({j \in Items : worker[j].at \in InPool \/ ~Saved(j)}) < MaxWorkers
    /\ Move(i, IF Synchronous(GroupOf[i]) THEN "converge" ELSE "ready", worker[i].phase)
    /\ UNCHANGED <<pc, group, phase, todo, mem, save, disk, out, tally, runs>>

(* _execute_item_all_phases records the start of each phase itself.            *)
StartPhase(i) ==
    /\ worker[i].at = "ready"
    /\ Saved(i)
    /\ Record(i, i, worker[i].phase, "running")
    /\ Move(i, "converge", worker[i].phase)
    /\ UNCHANGED <<pc, group, phase, todo, disk, out, tally, runs>>

(* The loop returns and the output file is opened, which truncates it; either  *)
(* may raise.                                                                *)
Converge(i) ==
    /\ worker[i].at = "converge"
    /\ Saved(i)
    /\ \/ /\ out' = [out EXCEPT ![i] = @ \ {worker[i].phase}]
          /\ Move(i, "store", worker[i].phase)
       \/ /\ Move(i, "raised", worker[i].phase)
          /\ UNCHANGED out
    /\ UNCHANGED <<pc, group, phase, todo, mem, save, disk, tally, runs>>

(* The output is in its file: a thread of a phase_sync group returns, one of   *)
(* an independent group records the phase and goes on to the next.            *)
Return(i) ==
    LET p == worker[i].phase IN
    IF Synchronous(GroupOf[i])
    THEN Move(i, "returned", p) /\ UNCHANGED <<mem, save>>
    ELSE /\ Record(i, i, p, "passed")
         /\ IF p < NumPhases THEN Move(i, "ready", p + 1) ELSE Move(i, "returned", p)

Store_Unchecked(i) ==
    /\ worker[i].at = "store"
    /\ \/ out' = [out EXCEPT ![i] = @ \cup {worker[i].phase}]
       \/ UNCHANGED out
    /\ Return(i)
    /\ UNCHANGED <<pc, group, phase, todo, disk, tally, runs>>

Store(i) ==
    /\ worker[i].at = "store"
    /\ \/ /\ out' = [out EXCEPT ![i] = @ \cup {worker[i].phase}]
          /\ Return(i)
       \/ /\ Move(i, "raised", worker[i].phase)
          /\ UNCHANGED <<out, mem, save>>
    /\ UNCHANGED <<pc, group, phase, todo, disk, tally, runs>>

----------------------------------------------------------------------------
(* as_completed: what has returned or raised is recorded, in any order.        *)

Count(field) == tally' = [tally EXCEPT ![field] = @ + 1]

CollectPhase(i) ==
    /\ pc = "collect"
    /\ Synchronous(group)
    /\ Saved(Main)
    /\ \/ /\ worker[i].at = "returned"
          /\ Record(Main, i, phase, "passed")
          /\ IF phase = NumPhases THEN Count("completed") ELSE UNCHANGED tally
       \/ /\ worker[i].at = "raised"
          /\ Record(Main, i, phase, "failed")
          /\ IF phase = NumPhases THEN Count("failed") ELSE UNCHANGED tally
    /\ Move(i, "idle", 1)
    /\ UNCHANGED <<pc, group, phase, todo, disk, out, runs>>

CollectItem_NoException(i) ==
    /\ pc = "collect"
    /\ ~Synchronous(group)
    /\ Saved(i)
    /\ worker[i].at = "returned" /\ Count("completed")
    /\ Move(i, "idle", 1)
    /\ UNCHANGED <<pc, group, phase, todo, mem, save, disk, out, runs>>

(* An independent item records for itself: one that raised stays running.      *)
CollectItem(i) ==
    /\ pc = "collect"
    /\ ~Synchronous(group)
    /\ Saved(i)
    /\ \/ worker[i].at = "returned" /\ Count("completed")
       \/ worker[i].at = "raised" /\ Count("failed")
    /\ Move(i, "idle", 1)
    /\ UNCHANGED <<pc, group, phase, todo, mem, save, disk, out, runs>>

Collected_Early ==
    /\ pc = "collect"
    /\ Saved(Main)
    /\ \/ /\ Synchronous(group) /\ phase < NumPhases
          /\ pc' = "submit" /\ phase' = phase + 1
          /\ todo' = {i \in Members(group) : worker[i].at = "idle"}
       \/ /\ ~Synchronous(group) \/ phase = NumPhases
          /\ \A i \in Items : worker[i].at = "idle"
          /\ pc' = "gate"
          /\ UNCHANGED <<phase, todo>>
    /\ UNCHANGED <<group, worker, mem, save, disk, out, tally, runs>>

Collected_OnePast ==
    /\ pc = "collect"
    /\ Saved(Main)
    /\ \A i \in Items : worker[i].at = "idle"
    /\ \/ /\ Synchronous(group) /\ phase <= NumPhases
          /\ pc' = "submit" /\ phase' = phase + 1 /\ todo' = Members(group)
       \/ /\ ~Synchronous(group) \/ phase > NumPhases
          /\ pc' = "gate"
          /\ UNCHANGED <<phase, todo>>
    /\ UNCHANGED <<group, worker, mem, save, disk, out, tally, runs>>

(* The pool of the phase, or of the group, is shut down.                      *)
Collected ==
    /\ pc = "collect"
    /\ Saved(Main)
    /\ \A i \in Items : worker[i].at = "idle"
    /\ \/ /\ Synchronous(group) /\ phase < NumPhases
          /\ pc' = "submit" /\ phase' = phase + 1 /\ todo' = Members(group)
       \/ /\ ~Synchronous(group) \/ phase = NumPhases
          /\ pc' = "gate"
          /\ UNCHANGED <<phase, todo>>
    /\ UNCHANGED <<group, worker, mem, save, disk, out, tally, runs>>

(* The process dies, and with it every thread and the ledger in memory (a      *)
(* death that no run follows is left out).                                    *)
Die ==
    /\ pc \notin {"down", "done"} /\ runs < MaxRuns
    /\ TornWrites \/ \A t \in Threads : save[t].step # "write"
    /\ pc' = "down"
    /\ group' = 1 /\ phase' = 1 /\ todo' = {}
    /\ worker' = AllIdle
    /\ mem' = Blank
    /\ save' = [t \in Threads |-> NoSave]
    /\ tally' = [completed |-> 0, failed |-> 0, human |-> 0]
    /\ UNCHANGED <<disk, out, runs>>

----------------------------------------------------------------------------
Execute ==
    \/ NextGroup \/ RecordGate \/ GateRecorded
    \/ \E i \in Items : \/ HumanStart(i) \/ HumanComplete(i)
                        \/ SubmitSkip(i) \/ SubmitStart(i) \/ Submit(i)
                        \/ CollectPhase(i) \/ CollectItem(i)
    \/ Submitted \/ Collected

Work(i) ==
    Dequeue(i) \/ StartPhase(i) \/ Converge(i) \/ Store(i)

Saving(t) == Truncate(t) \/ WriteText(t)

Next ==
    \/ Start \/ Execute \/ Die
    \/ \E i \in Items : Work(i)
    \/ \E t \in Threads : Saving(t)

Spec == Init /\ [][Next]_vars

(* Something runs while anything can; the convergence loop returns or raises.  *)
Fairness ==
    WF_vars(Execute \/ (\E i \in Items : Work(i)) \/ (\E t \in Threads : Saving(t)))

FairSpec == Spec /\ Fairness

----------------------------------------------------------------------------
(* Properties.                                                               *)

AtWork(i) == worker[i].at \in {"converge", "store"}

(* Work on a phase begins when the earlier phases are over: in a phase_sync    *)
(* group for all its items, passed or failed; in an independent one passed,    *)
(* for the item itself (orchestrator.py:43-44, 157-219, 322-343).             *)
PhaseOrder ==
    \A i \in Items : AtWork(i) =>
        /\ GroupOf[i] = group
        /\ \A q \in 1..worker[i].phase - 1 :
              IF Synchronous(group)
              THEN \A j \in Members(group) : mem.rows[j][q] \in {"passed", "failed"}
              ELSE Complete(mem, i, q)

(* What a run goes past is done: every item reviewed, and in an independent   *)
(* group every phase passed in this run; and every item of the groups it took  *)
(* up is counted once (orchestrator.py:96-155).                               *)
PastIsDone ==
    LET Taken == {i \in Items : \/ GroupOf[i] < group
                                \/ GroupOf[i] = group /\ pc \in {"gate", "gated", "done"}}
    IN /\ pc # "down" => \A i \in Items : GroupOf[i] < group =>
             \A p \in Phases : p = NumPhases \/ ~Synchronous(GroupOf[i]) => Complete(mem, i, p)
       /\ pc \in {"group", "gate", "gated", "done"} =>
             tally.completed + tally.failed + tally.human = Cardinality(Taken)

(* The order a run keeps between its threads, phases and groups is the one its  *)
(* gates and counts attest to (orchestrator.py:89-252).                       *)
InOrder == PhaseOrder /\ PastIsDone

(* Between groups, and when a run has ended, the ledger on disk is the one in  *)
(* memory, however the saves of the threads overtook one another              *)
(* (execution_ledger.py:118-121, 206-207).                                   *)
LedgerSaved ==
    pc = "done" \/ (pc = "group" /\ group > 1) => disk = mem

(* What the ledger on disk calls passed has its output on disk: a run that     *)
(* resumes skips it for good (orchestrator.py:179-182, 307-320).              *)
PassedHasOutput ==
    \A i \in Items \ Human, p \in Phases :
        Synchronous(GroupOf[i]) /\ Complete(disk, i, p) => p \in out[i]

(* The ledger a later run reads tells what this one did (execution_ledger.py:   *)
(* 118-121, 206-207, orchestrator.py:179-182).                                *)
LedgerTells == LedgerSaved /\ PassedHasOutput

(* A phase of a phase_sync group, once on disk as passed, stays so through     *)
(* crashes, restarts and the saves of other threads: it is never paid for      *)
(* twice (execution_ledger.py:3-5, orchestrator.py:178-182).                  *)
Durable(i, p) ==
    Complete(disk, i, p) \/ \E t \in Threads :
        save[t].step = "write" /\ Complete(save[t].text, i, p)

WorkKept ==
    [][\A i \in Items \ Human, p \in Phases :
          Synchronous(GroupOf[i]) /\ Durable(i, p) => Durable(i, p)']_vars

(* A run ends, or the process dies (orchestrator.py:89-155).                  *)
Finishes == pc = "group" ~> pc \in {"done", "down"}

----------------------------------------------------------------------------
(* The invariants these rest on.                                             *)

(* The saves of a thread are its own, and main saves nothing where it goes from *)
(* one group to the next, nor do the threads of a pool that is shut down.       *)
MainInStep ==
    /\ pc \in {"down", "group", "gate", "done"} => Saved(Main)
    /\ pc = "gated" => IF Saved(Main) THEN disk = mem ELSE save[Main].text = mem
    /\ pc = "group" => tally.failed = 0 /\ (group > 1 \/ NumGroups = 0 => disk = mem)
    /\ pc = "done" => disk = mem
    /\ pc = "down" => group = 1 /\ mem = Blank

(* Where an item is, and what the ledger in memory says of it: the phase in     *)
(* hand is running, the earlier ones are over, and its thread saves only what   *)
(* it records itself (orchestrator.py:157-252, 322-343).                       *)
ItemInStep(i) ==
    LET w == worker[i] IN
    /\ i \in todo => pc = "submit" /\ GroupOf[i] = group /\ w.at \in {"idle", "submitted"}
    /\ w.at = "submitted" => i \in todo
    /\ w.at # "idle" => pc \in {"submit", "collect"} /\ GroupOf[i] = group
    /\ w.at \notin {"idle", "submitted"} => i \notin Human
    /\ ~Saved(i) => ~Synchronous(group) /\ w.at \in {"ready", "converge", "returned"}
    /\ w.at # "idle" =>
          IF Synchronous(group)
          THEN /\ w.phase = phase /\ w.at # "ready"
               /\ w.at = "returned" => phase \in out[i]
               /\ \/ mem.rows[i][phase] = "running"
                  \/ i \in Human /\ mem.rows[i][phase] = "passed"
          ELSE /\ w.at # "raised" => \A q \in 1..w.phase - 1 : Complete(mem, i, q)
               /\ w.at = "returned" => \A q \in Phases : Complete(mem, i, q)
               /\ w.at = "submitted" =>
                     i \in Human /\ mem.rows[i][w.phase] \in {"running", "passed"}

(* An item the run is through with, as far as it has come.                      *)
Over(i) ==
    \/ GroupOf[i] < group
    \/ /\ GroupOf[i] = group
       /\ \/ pc \in {"gate", "gated", "done"}
          \/ /\ pc \in {"submit", "collect"} /\ i \notin todo /\ worker[i].at = "idle"
             /\ Synchronous(group) => phase = NumPhases

(* An item the tally has counted: a human one is when it is first recorded.     *)
Counted(i) ==
    \/ Over(i)
    \/ /\ i \in Human /\ GroupOf[i] = group /\ pc \in {"submit", "collect"}
       /\ i \notin todo \/ worker[i].at # "idle" \/ (Synchronous(group) /\ phase > 1)

(* What the ledger in memory says of phases and items that are over; where      *)
(* nothing failed, they have passed (orchestrator.py:178-219, 238-252).        *)
OverInStep(i) ==
    /\ pc \in {"submit", "collect"} /\ GroupOf[i] = group /\ Synchronous(group) =>
          /\ \A q \in 1..phase - 1 : mem.rows[i][q] \in {"passed", "failed"}
          /\ worker[i].at = "idle" /\ i \notin todo =>
                mem.rows[i][phase] \in {"passed", "failed"}
    /\ pc # "down" /\ Over(i) /\ (GroupOf[i] < group \/ tally.failed = 0) =>
          \A p \in Phases : p = NumPhases \/ ~Synchronous(GroupOf[i]) => Complete(mem, i, p)

(* The run is in step with its threads, its ledger and its counts.              *)
RunInStep ==
    /\ MainInStep
    /\ \A i \in Items : ItemInStep(i) /\ OverInStep(i)

TallyInStep ==
    pc # "down" =>
        tally.completed + tally.failed + tally.human = Cardinality({i \in Items : Counted(i)})

(* What the ledger, in memory, on disk or in a save, calls passed: its output   *)
(* is there, and no save on its way knows less than the memory or the disk      *)
(* (orchestrator.py:179-182, 307-320, execution_ledger.py:118-121).            *)
PassedInStep ==
    \A i \in Items \ Human, p \in Phases : Synchronous(GroupOf[i]) =>
        /\ Complete(mem, i, p) => p \in out[i]
        /\ Complete(disk, i, p) => p \in out[i] /\ (pc # "down" => Complete(mem, i, p))
        /\ \A t \in Threads : ~Saved(t) => (Complete(save[t].text, i, p) <=> Complete(mem, i, p))

=============================================================================
