# A TLA+ model of the AIEOS agent harness

The harness drives an initiative, a directory of Markdown artifacts, through
generate / validate / freeze. Its state is files: no database, no long-lived
process. Several processes (the conductor, the console, sherpa, a CI job) call
into it, each call reads some files, thinks, and writes some back. What can go
wrong is therefore what happens *between* the reads and the writes of a call:
another process, another thread, or the process's own death. That is what these
modules model.

Paths below are relative to the repository; `freeze.py` is `src/freeze.py`.

Contents: 1 inventory, 2 plan, 3 the freeze boundary, 4 the initiative lock,
5 the convergence loop, 6 work-unit execution, 7 the capability registry and
its agents, 8 judge calibration, 9 routing, 10 auto-research, 11 the proofs,
12 where code and documents part, 13 what is not modelled.

## 1. Inventory

| Component | State it keeps | Operations | Hard behaviour | What makes it correct |
|---|---|---|---|---|
| Freeze boundary (`driver.py`, `freeze.py`, `state.py`, `invariants.py`, `cli.py` mark-status) | `docs/sdlc/*.md` (status, body, provenance), `er.md` (frozen count), `journal.md`, `.aieos/verdicts.jsonl` | `run_artifact`, `apply_freeze_decision`, `mark-status` | reads and writes of two calls interleave; a freeze is four writes; a crash leaves a prefix | what is FROZEN was approved, and stays; nothing is derived from unapproved content |
| Initiative lock (`lock.py`) | `.aieos/lock`, `.aieos/halt` | acquire, renew, release, `is_takeable` | check-then-write on a file, lease expiry, dead owners, several hosts | one driver at a time; a takeover stops the old owner; a dead owner's lock is takeable |
| Convergence loop (`convergence.py`) | iteration count, ledger, constraints (in memory) | `run` | bounded retries, truncated generations, lens reviews, staleness, oscillation | it ends within the budget; PASS means every reviewer passed the artifact returned |
| Work-unit execution (`orchestrator.py`, `execution_ledger.py`, `wdd_parser.py`) | `execution-ledger.md`, output files | `execute`, phases, group gates, `save` / `load` | a thread pool shares one ledger object and one file; resume after a crash | phases in order; a gate says what happened; resume skips only what is there |
| Capability registry (`cicd/registry.py`, `artifact_store.py`, `attestation.py`, `cli.py`) | one file per adapter version, one index per process | `register_adapter`, `find_adapters`, rebuild | re-registration, failing puts, restart, several processes | only what was vetted is found; the index follows the store |
| Task agents and run events (`cicd/agents.py`, `cicd/events.py`) | the attempt in hand, the event stream | `receive_task` | lookups between registrations, retries, judgments and sinks that raise | the events tell what happened; the task ends |
| Routing (`routing.py`, `lifecycle.py`) | the circuit breaker's failure counts and opening times, event bindings | `route` (consensus, pipeline, fallback, cost-aware), `resolve`, `execute` | threads share a breaker without a lock; adapters raise, answer late or in any order; circuits expire | the breaker counts exactly and shuts nobody out for good; nobody is left out of turn; a consensus is one |
| Calibration (`calibration.py`) | `runs.json`, lock file of judged specs | `run_calibration`, `score`, `write_lock`, `check_lock` | read-modify-write of a shared file, activation floor, boundary cases of the verdict | a spec is unlocked only on evidence that covers both classes |
| Auto-research (`auto_research.py`) | best experiment so far, history, counter (in memory) | `optimize` | rounds that do not divide the budget, failed and unmeasurable experiments, a model without suggestions | keeps to its budget; the winner is the best; it ends |
| Observability (`observability.py`) | JSONL of execution records | append, aggregate | append order | sums over what was recorded |
| CLI, configuration, context builder, pipelines (`cli.py`, `config.py`, `context_builder.py`, `pipelines.py`) | none of their own | argument parsing, file collection, prompt assembly | none | wiring |
| Provider adapters (`adapters/`) | none | HTTP and subprocess calls | retries live in the SDKs | pure I/O |

How they meet: the driver runs the convergence loop, which calls two adapters
(possibly behind the router); its result goes to the artifact files. The freeze
authority and mark-status write the same files. The lock is meant to keep
these calls apart, but nothing in `src/` takes it: the drivers outside the
repository do (ADR-0002, FR-019). The orchestrator runs convergence loops of its
own on a thread pool and keeps its own ledger. `cicd/` imports nothing from the
rest and is not imported by it (ADR-0001).

Every hazard found on the way is in `PROJECT.json`, at its line, with the
properties that would catch it going wrong.

## 2. Plan

Each component gets its module, an abstract specification where it makes a
promise to others, an MC module with its configurations, and a proofs module.
Most important first:

| Module | Abstract specification | Runs | Proofs | State |
|---|---|---|---|---|
| `FreezeGate` | `FreezeAuthority` | freeze_locked, freeze_provenance | `FreezeGate_proofs` | done |
| `InitiativeLock` | `LeaseLock` | lock_serial, lock_heartbeat, lock_raced | `InitiativeLock_proofs` | done |
| `Convergence` | `ReviewRounds` | convergence, convergence_lens | `Convergence_proofs` | done |
| `WDDExecution` | | wdd | `WDDExecution_proofs` | done |
| `CapabilityRegistry`, `TaskAgents` (extends it) | | agents | `TaskAgents_proofs` | done |
| `Routing` | | routing | `Routing_proofs` | done |
| `Calibration` | | calibration | `Calibration_proofs` | done |
| `AutoResearch` | | research | `AutoResearch_proofs` | done |

The runs are kept few: one for each question, and several facts that answer the
same question are the conjuncts of one property.

Modules are parameterised by constants with named assumptions, have one action
per operation or step of one, and declare no RECURSIVE operator, so that each of
them can be proved about. Definitions whose name has an underscore after that
of an action (`Generate_OnePast`) are the plausible slips each property is tried
against; no specification uses them.

## 3. The freeze boundary: FreezeGate

One action per read or write of a call. `pc[p]` is the step driver `p` is at and
`job[p]` what its call holds in memory; between two steps any other driver may
run, and with `Crashes` the process may die, which leaves the disk as it is.

| Code | Model |
|---|---|
| artifact file, its Document Control block | `file[t]`: status, body, Frozen By |
| `er.md` frozen count, `journal.md`, `verdicts.jsonl` | `er`, `journal`, `verdicts` |
| `run_artifact` (driver.py) | `RunStart`, `RunGate`, `RunCollect`, `RunLoop`, `RunRecheck`, `RunPersist` |
| `run_artifact_lifecycle` (driver.py), which keeps verdicts and writes no file | `RunLifecycle` |
| a `FreezeGateDecision` a human or a driver submits | `Decide`, kept in `decisions` and usable again |
| `apply_freeze_decision` (freeze.py) | `FreezeCheck` (four guards), then a read and a write for each of status, provenance rows and count, then `FreezeJournal` |
| `mark-status` (cli.py) | `MarkRead`, `MarkWrite` |

`FreezeAuthority` is what the boundary promises: revise only on top of frozen
upstream, freeze only what was approved, what is frozen stays.

Assumptions, each a constant. `Exclusive`: drivers keep to one call at a time,
the lock of FR-019 being honoured (section 4 is about whether it can be).
`AndonAnywhere = FALSE`: the andon cord is pulled on the artifact in flight, not
on one that is FROZEN. A file write is one step, `er.md` and `journal.md` exist,
there is one file for each artifact ID, and equal hashes mean equal texts.

| Run | What it shows |
|---|---|
| freeze_locked | Two drivers, one call at a time, dying at any step: frozen content was approved by a named human (`FrozenWasApproved`) and stays (`FrozenImmutable`); an artifact is derived from approved frozen upstream that is still there (`PromotedFromApproved`, `ChainConsistent`); the records agree (`RecordsAgree`: journal and count follow the disk, and are exact when every freeze that was started reached the journal, though the count may not parse at first; nothing reaches the gate without its PASS on record); the calls implement `FreezeAuthority`, which has one step that freezes. |
| freeze_provenance | Violated: a crash between the FROZEN write and the provenance write, and no retry can complete it. |

Bounds: a PRD and a SAD (one dependency, which is what freezing before promoting
is about), two bodies (approved and not), `run_artifact_lifecycle` called for the
SAD (`Assembled`; no upstream gate stands before it), two drivers, two decisions
(each sound, or refused for one of the reasons there are: `Submissions`), two
freezes. Each property speaks of one artifact, or of one and its upstream, and
of at most two calls. The proofs of section 11 lift the bounds.

## 4. The initiative lock: InitiativeLock

`lock` is the file `.aieos/lock`, `halt` the sentinel. A call reads the lock
(`AcquireRead`, `RenewRead`, `ReleaseRead`), judges it, and writes the sentinel
and the lock in later steps; with `TornWrites` a death in the write leaves a
file that does not parse. Time is relative: `age` is how old the record's
`renewed_at` is, `elapsed[s]` how old the running call's reading of the clock,
`Skew` how wrong each host's clock is. Both saturate beyond the lease, where
they decide nothing more. The drivers themselves live outside the repository:
`StartArtifact`, `FinishArtifact` and `StandDown` do what lock.py and ADR-0004
ask of them.

`LeaseLock` is what the lock promises: it changes hands by a release, or once
the owner's claim has lapsed and a stand-down is posted.

| Run | What it shows |
|---|---|
| lock_serial | Three sessions on two hosts, skewed clocks, deaths, torn writes, reused PIDs, sessions resumed in a new process, no driver renewing in time; calls do not interleave but may be cut off anywhere: two drivers are never inside an artifact (`OneDriverProceeds`), a displaced one has the sentinel in front of it (`DisplacedIsHalted`). |
| lock_heartbeat | At the boundary heartbeat + skew = lease, where the strict comparison of lock.py:197 matters: a driver that renews in time keeps its lock (`HolderOwns`), the calls implement `LeaseLock`, and the lock of a dead session comes to a live one (`NotWedged`). |
| lock_raced | Violated: two acquisitions interleave and both drivers proceed. |

`Serial` is the assumption on which the first two stand, and lock_raced shows
that the code does not provide it. lock_heartbeat leaves out torn
writes, which break NotWedged, and resumption, which breaks HolderOwns (section 12);
PIDs may be reused in it, and a lock whose owner only seems alive comes free by its
lease. Three sessions are an owner, a taker and a second taker; two hosts
give the PID check and the lease check; a second process of a session is the
first one resumed.

Fairness: SF of the clock, because calls that take no time disable it only
while they run; WF of each step of a running call; WF of acquisition by a
driver without the lock, which is that drivers try again. None of it is assumed
of the human who clears the sentinel.

## 5. The convergence loop: Convergence

Sequential; what is nondeterministic is what models answer. One action per call:
`Generate` (a draft, a truncated one, or an exception), `Validate(v)` for each
answer `v` the validator may give, `Review(v)` for each lens in turn, and the
decision after the last lens. A verdict keeps what the loop decides by: status,
failing gates, issues with a description, whether the list breaks the loop when
it is read. Several issues of one gate with different descriptions are left out.

`ReviewRounds` is what a caller relies on: at most `budget` drafts, a new one
only after an objection, acceptance only without one.

| Run | What it shows |
|---|---|
| convergence | Budgets 0, 1 and 4, two lenses that say why they fail a draft, answers of every kind: PASS is returned only for a draft the validator passed and no lens failed (`AcceptedUnopposed`); a correction asks for all and only the last round's objections (`CorrectionAnswers`); the history is kept and heeded (`HistoryHeeded`: each judge speaks once of a draft, lenses only after a PASS, and corrections that go in circles are warned of); the loop ends (`Terminates`); it implements `ReviewRounds`. |
| convergence_lens | Violated: a lens fails a draft with no readable issue and the loop returns PASS. |

Budget 4 is the least at which oscillation (three rounds) is warned of with a
round to spare; 0 and 1 are the boundary cases. Two lenses: one that objects
and one that does not. Fairness is WF of the loop itself: providers' clients
time out (adapters/), so a call returns or raises.

## 6. Work-unit execution: WDDExecution

`execute` is a main thread that goes through the groups (`NextGroup`,
`RecordGate`, `GateRecorded`), submits items (`HumanStart`, `HumanComplete`,
`SubmitSkip`, `SubmitStart`, `Submit`) and collects their futures in any order
(`CollectPhase`, `CollectItem`, `Collected`). A pool of `MaxWorkers` threads
takes items from its queue (`Dequeue`), runs a convergence loop (`Converge`),
opens the output file and writes it (`Store`); either may raise. In a phase_sync
group main makes the ledger's records; in an independent one each thread makes
its own. Every record changes the ledger in memory and is saved by truncating
the file and writing the text (`Truncate`, `WriteText`), so saves overtake one
another. `Die` loses memory and threads; `Start` loads the file.

| Run | What it shows |
|---|---|
| wdd | Work on a phase begins when the earlier ones are over, and what a run goes past was reviewed, everything counted once (`InOrder`); between groups and at the end the ledger on disk is the one in memory, and what the disk calls passed has its output (`LedgerTells`); it stays passed through crashes and restarts (`WorkKept`); a run ends (`Finishes`). |

Bounds: a phase_sync group of two items and an independent one with an item and a
human item, two of the four phases (a first and a last one: the code treats only
the first and the last specially), two workers, two runs. Two items, two
threads and the main thread give every pair of savers. Fairness: something of
`execute`, its threads and its saves runs while anything can.

Abstractions: an item's phase and its text are one step in memory; the order in
which items are submitted is any; one `write` call puts the whole text down, and
the tail of an older, longer text that two overlapping writers can leave behind
is not modelled; the verdict of a phase, which nothing reads, is left out; a
death no run follows is left out. With `TornWrites` the blank ledger between the
two steps of a save is what a death leaves; the run keeps it off, because
WorkKept then fails (section 12).

## 7. The capability registry and its agents: CapabilityRegistry, TaskAgents

`store` is the artifact store, one file per adapter version; `index[p]` the index
of process `p`. A process boots by reading the listed files one by one (`Boot`,
`Load`, `Booted`); `Register` verifies the attestation and begins, `PutOpen` and
`PutWrite` truncate and fill the file, `PutRaises` gives up at either, and
`IndexFilter` and `IndexAppend` treat one bucket after the other. `Die` loses the
index. An entry is the request it was made from, its attestation included, so
the verifier is a predicate of the entry and the process's policy; the time that
decides about a cutover is any of `Times`. Nothing keeps two puts of one version
apart: both truncate the file, and the shorter text written over the longer one
leaves the tail of it (`Overwritten`: `Blank` is a file just truncated, `Torn` one
that has part of a text). `TaskAgents` extends the module: a
task asks (`Ask`), runs the adapter it found (`Execute`), has a failure judged
(`Judge`) and tells its events (`Start`, `TellEvidence`, `TellResult`), while the
registry of its process goes on. `accepted`, `stored`, `current[p]`, `apart`, `met[p]`
and `attempts` are history: `apart` are the processes in a put whose file nobody
else has written since they opened it, `current[p]` the versions p has read or has
put that way, and nobody has written since.

| Run | What it shows |
|---|---|
| agents | What is found, and what runs for a task, was accepted by a verifier and put without an error, claims the action and fits the context, whatever failed, died or was registered anew (`OnlyVetted`); of a version in `current[p]` a process finds what the store holds, under every action that claims, and it never finds two texts of a version under one action, nor one it has not read or put itself (`IndexFollowsStore`); a task's events are its start, the evidence of its last attempt and one result that matches it, nothing is tried again after a success nor too often, and a call that raises has told no result (`ToldAsItWent`); a task ends (`TasksEnd`). |

Bounds: a process with a task and another that registers; two versions of which
one is registered with two capabilities and a context or with one and none, in
either order or at the same time, and the other competes for the same action, and
has no instance; two registrations, the least that overlap; one retry. The task may begin
and look up at any point of them. Once the task has ended the registry is not
followed further; what it does without a task is covered by the task that has
not begun. One registration at a time in a process; one `write` call puts a text
down whole. Fairness: the
task's thread runs, adapters and judgments return or raise.

## 8. Judge calibration: Calibration

A calibrate command loads a gold set and the prompt (`Load`), asks the judge
everything `RunsPerCase` times and scores the answers (`Judge`: whatever it says,
only a judge that `Passes` goes on; a provider error ends the command), then
rewrites calibration.lock: `ReadLock` takes the other entries over, `OpenTmp`
truncates calibration.lock.tmp, `FillTmp` writes it, `ReplaceLock` moves it over
the lock. Commands share both files. `handle[p]` is what the file a command has
open is by now: once another command has moved it, it is the lock, and after a
further move it has no name (POSIX). `Die` is a death anywhere. `EditPrompt` and
`SwitchModel` change what `CheckLock` compares the entry with. A prompt is a
version told apart by its hash. `certified`, `minted` and `overlap` are history.

| Run | What it shows |
|---|---|
| calibration | A fresh lock speaks of a judge with the prompt and model in use that was measured for the validator on an adequate gold set and found sound, however commands overlapped or died (`FreshMeansMeasured`); as long as none overlapped, the lock has the last entry of every validator and can be read (`EntriesKept`). |

Bounds: two validators with two gold cases, one passed and one failed by a human,
a floor of two cases and a threshold of one half, so that only the clauses about
flips and false passes stop a judge that errs once; two runs of each case; two
processes. Three commands are the least with which a handle outlives two moves.
One model: that any number will do is proved (section 11), and an entry compares
it the way it compares the prompt, of which there are two.

Left out: the report and the raw answers (written, never read by the lock or its
check), kappa and the per-case figures in them, bad gold files (the
command stops at them), and locks of another shape (rebuilt like unreadable ones).

## 9. Routing

One engine, several threads. The breaker has two dictionaries and no lock, so
each access is a step. `Check` is the look-up of `is_open`, `Reopen` and `Forget`
its two pops after the reset period; an adapter `Answers` (the first pop of
`record_success`; `Close` is the second) or `Raises` (the read of a count; `Store`
writes it back, `Test` looks it up again, `Stamp` opens the circuit). Fallback and
cost_aware are the same loop over a list in different order (`Route`, `Turn`,
`Before`, `Exhausted`). A pipeline is `StartPipe`, `PipeStep`, `PipeEnds`; a
consensus is `Ask`, answers in any order (`Responds`, `FailsToRespond`) and
`Decide`; `Dispatch` is the lifecycle binder, which resolves an event and calls
the first adapter bound. `since` is how long a circuit has been open; `streak`,
the failures in a row, and `overlap`, whether two threads have met at a circuit,
are history.

| Run | What it shows |
|---|---|
| routing | Until threads meet at a circuit, it counts exactly and is open exactly at the limit (`BreakerExact`); an answer comes from the one whose turn it was, and an event's own bindings go before the wildcard's (`NobodyLeftOut`); an accepted consensus has enough answers of like length, whatever their order (`AcceptedAgrees`); a provider that was shut out is tried again as long as calls get to it, whatever the threads do to its circuit (`TriedAgain`). |

Bounds: two threads, which is what it takes to meet, with lists of three adapters
and of two, two adapters of one provider among them; a limit of two failures and
a reset after two ticks, so that there is a count below the limit and an age
below the reset; a count beyond the limit is the limit, because only `>=` is
asked of it. The strategies that do not touch the breaker, and cost_aware, whose
loop is fallback's, run in one thread. Answers of length 0, 10, 12 and 16: 10 and
12 agree, 12 and 16 do not, and the boundary of a fifth is met. Thresholds of 50
and 67 percent: two of three are enough for the one and not for the other.

Fairness: WF of the clock and of each call that was begun (the clients of the
adapters time out), none of a new call: `TriedAgain` assumes the calls it needs.

In the repository only tests use the engine and the binder; the model takes them
as the library they are, shared by whoever holds one.

## 10. Auto-research

`optimize` makes rounds of experiments: `Vary` asks for variations (`Unknown` a
strategy nobody knows, `Exhausted` the budget spent or nothing suggested), and
each of them is an experiment that raises (`Fail`) or is measured (`Succeed`), NaN
and the infinities included, which the JSON reader takes. `best` is the number of the winner in `history`, `shown` the prior
results put in the prompt for new phrasings.

| Run | What it shows |
|---|---|
| research | For every operator and strategy the number of experiments keeps to the budget (`TypeOK`; context pruning may exceed it by as many as there are artifacts); the winner is a success no other beats, though failures are on record as 0, and there is one as soon as a success measured better than the worst infinity, and the run stops at the experiment that meets the target (`BestIsBest`); the model is shown the winner when asked for new phrasings (`WinnerShown`); it ends (`Terminates`). |

Bounds: budgets of 0 and 5 with rounds of two, so that one does not divide the
other; values 0, 1, 2, NaN and both infinities around a target of 1. Fairness is WF of the loop.

## 11. The proofs

Every theorem holds for all values of the constants that satisfy the named
assumptions of the module.

| Module | Theorems | Assuming |
|---|---|---|
| `FreezeGate_proofs` | `TypeCorrect` | nothing: any interleaving and crash |
| | `CallsOwnDisk`, `FrozenApproved`, `Promoted` | `Exclusive` |
| | `Immutable`, `Chain`, `Implements` (refinement of `FreezeAuthority`) | `Exclusive`, andon kept off frozen artifacts |
| | `VerdictOnRecord` | nothing: any interleaving and crash |
| | `RecordsKept` | `Exclusive`, andon kept off frozen artifacts, a count that starts at 0 or does not parse |
| `InitiativeLock_proofs` | `TypeCorrect` | nothing |
| | `CallsAgree`, `Displaced`, `OneDriver` | `Serial` |
| | `Renewed`, `Holder` | `Timely`: `Serial`, one process per session id, heartbeat + skew within the lease |
| | `Claims`, `Implements` (refinement of `LeaseLock`) | `Whole`: `Serial`, no torn writes; any clock, death, PID reuse or resumption |
| `Convergence_proofs` | `TypeCorrect`, `Round`, `Corrected`, `Heeded` | nothing |
| | `Accepted`, `Implements` (refinement of `ReviewRounds`) | lenses explain their failures |
| `WDDExecution_proofs` | `TypeCorrect`, `StepByStep`, `OrderKept`, `PassedKept`, `LedgerTold` | nothing: any order of saves, any death |
| | `WorkIsKept` | no torn writes |
| `TaskAgents_proofs` (both modules) | `TypeCorrect`, `Texts`, `Vetting`, `IndexFollows`, `Telling` | nothing: any overlap, failure or death, any capabilities |
| `Calibration_proofs` | `TypeCorrect`, `Measured`, `Kept` | nothing: any overlap, any death |
| `Routing_proofs` | `TypeCorrect`, `BreakerCounts`, `TurnKept`, `ConsensusKept` | nothing: any interleaving |
| `AutoResearch_proofs` | `TypeCorrect`, `Best`, `ShownIsBest` | nothing |

The arguments. FreezeGate: `FrozenWasApproved` is not inductive, because a call
freezes several steps after it checked. The invariant that is, `CallOwnsDisk`,
says that with one call at a time everything the running call has read and
checked is still so; the rest follows from it and from what one write does to
one file (`FileStep`). InitiativeLock: `CallsAgreeWithDisk` says the running
call's copy of the lock is the lock, and that every other holder is stopped
before it writes; `DisplacedIsHalted` is one of its conjuncts and
`OneDriverProceeds` follows, since a driver looks for the sentinel when it starts
an artifact. `HolderOwns` needs theorem `Renewed`: the record of a holder is never
older than its heartbeat, so no call finds it takeable. Convergence: theorems
`Round` and `Corrected` tie the findings in memory to the ledger; what one
record adds to a round is a lemma for an objection (`Objected`) and one for the
rest (`NotObjected`). Calibration: `EntriesBacked` says that every entry in a
file or in a command's memory belongs to a judge that was certified, which a
write into somebody else's file keeps, because it leaves a text that was meant
for the lock or one that does not parse; `WriterAlone` says that the one command
between read and replace knows what is in the lock and owns the temporary file.
Routing: what a call takes next is a CHOOSE, so `TurnIsFirst` shows that there is
a first in the order of every strategy, from the least element of two ranks.
`Exact` adds to `BreakerExact` what a thread in the middle of an update still has
to do (`Amid`); a step at a circuit (`AtOne`) concerns one thread as long as no two
have met. `TurnKept` needs it for the one outcome that leaves backups untried.
`ConsensusKept` rests on `MedianIsOne`: the position in the middle is some
answer's, for any finite set of them. Auto-research: `Best` is an induction over
the history, one lemma for an experiment that raised and one for each that was
measured.

WDDExecution: `RunInStep` says where main may be (`MainInStep`), what an item's
thread and its rows may be while main is there (`ItemInStep`), and what is known
of an item once it is over (`OverInStep`). `OrderKept` adds `TallyInStep`: the
three counts sum to the number of items that have been counted, so nothing is
counted twice and a group's gate finds everyone. `PassedInStep` is why saves that
overtake one another do no harm: no text on its way to the file knows less than
the memory or the disk does about a phase_sync group, and what any of the three
calls passed has its output. Registry and agents: `TextsVetted` says that every
text an entry can be read from (store, index, listing, the call under way) was
accepted by a verifier. For `IndexFollows`, `IndexesInStep` says how far an
index has come: a bucket has one text of a version at most, which the filter before
the append sees to; a version in `current` has its due in every bucket, except for
the registration under way, which names the buckets it still has to do; and a
process in `apart` has its file still blank, so that what it writes is its own text
whole, whatever other puts have done before (`OverwrittenText`). `Telling` follows one task from its start to its one result.

`RecordsKept` is about bookkeeping that is wrong most of the time: between the
status write and the journal row, count and provenance lag behind the disk.
`BooksInStep` says by how much. A freeze under way is one ahead of the journal and
each of its steps says what is still to be written (`OneBehind`); between freezes
nothing is (`NoneBehind`); and a freeze that died or raised leaves
`freezes > Len(journal)` for good, after which the property claims no exact
figures, only that the journal names nothing that is not frozen as it says and
that the count is not behind the journal. `VerdictOnRecord` needs no
lock, because verdicts are only ever added and one is added before the file is
written (`VerdictFirst`).

`Heeded`: the ledger is sorted by round and judge (`InTurn`), so what the loop
compares when it looks for staleness and oscillation are the rounds the property
speaks of: two rounds running that the validator failed are next to each other
among its failures, however many lens verdicts stand between them.

The refinement of `LeaseLock` needs to know, at the write, why the lock could
be taken. `ClaimsInStep` carries that from the read on: the call that judged a
claim lapsed still finds it lapsed, has posted the sentinel before it writes, or
writes a lock it owns or one that was free; and the PID of a record is never ahead
of its session's, so that a dead process cannot come to look alive.

Only model-checked: liveness (`Terminates` of the convergence loop and of
auto-research, `NotWedged`, `Finishes`, `TasksEnd`, `TriedAgain`), and, being
refutations, the three runs that expect a violation. Every invariant, action
property and refinement of the other runs is the statement of a theorem above.
Liveness under fairness, ENABLED, induction over data and RECURSIVE operators are
beyond the prover at hand; no module needs the last two.

## 12. Where code and documents part

Findings with a run are in `PROJECT.json`: freeze_provenance, lock_raced,
convergence_lens. The following were met while modelling; the models have the behaviour, or an assumption that excludes it.

Freeze boundary
- Without the lock a conductor's write between the hash check (freeze.py:128) and
  the status write freezes content nobody approved: `Exclusive = FALSE` breaks
  `FrozenWasApproved`, `FrozenImmutable` and `ChainConsistent`.
- In the same way, without the lock, two freezes lose an increment of the Frozen
  Count (freeze.py:169), and a writer that lost a race restores an old status
  (state.py:142).
- A Frozen Count that does not parse fails a freeze half done (freeze.py:168).
- `mark-status` takes a FROZEN artifact out of FROZEN (cli.py:1060), and
  `run_artifact` then rewrites it.
- `run_artifact` regenerates a FAULTED artifact (driver.py:143) without a decision.

Initiative lock
- A release unlinks whatever lock is there then (lock.py:343), a taker's included.
- A torn lock file makes every call raise and has no lease (lock.py:206): the
  initiative stays locked until somebody deletes it.
- A resumed session keeps the PID and host of the dead process in the record
  (lock.py:277), so its fresh lock is takeable at once.

Convergence
- Oscillation needs three failed rounds and a fourth to be warned of, one more
  than the default budget of 3.
- docs/threat-assessment.md:26 says staleness and oscillation halt the loop; the
  code only warns. docs/architecture.md:101 names check_bounded_convergence, which
  nothing calls.

Work-unit execution
- A group is forced to phase_sync when items share a file (orchestrator.py:110), to
  keep them apart; a phase_sync group runs the items of a phase in parallel all
  the same, and both write the file. In the run's instance items a and b share one.
- A phase whose validator still fails is recorded as passed (orchestrator.py:318,
  204-211).
- Failures before the review phase are not counted, and the gate passes
  (orchestrator.py:216); orchestrator.py:43 says all items complete a phase before
  the next.
- A death inside a save leaves a blank ledger and all progress is lost
  (execution_ledger.py:207).
- An independent group runs everything again on resumption; until its threads
  save, the disk may call passed a phase whose output is being rewritten. That is
  why PassedHasOutput and WorkKept speak of phase_sync groups.
- Dependencies and `parallel_safe` are parsed and never consulted, though
  docs/adr/0002 line 13 names dependency checks; prior-phase outputs are collected
  and never put in the request (orchestrator.py:271-290).

Registry and agents
- An adapter registered once per capability, as docs/operator-guide.md:123-125 says,
  is found under each until a restart, and under the last one only after it: the
  store has one file per version (registry.py:121).
  Until then an older text of the version may stay in a bucket it has left
  (registry.py:94 filters the new capabilities' buckets only).
- Between the filter and the append of a bucket a version being re-registered is
  not found (registry.py:96-99), so a task may fail for it, although the class
  says the index is updated atomically (registry.py:45-46).
- A put that raises after opening the file leaves it empty or with part of the text:
  the store forgets the version while the index keeps the old entry until a restart.
- Two puts of one version that overlap (artifact_store.py:57) can leave the shorter
  text with the tail of the longer one: the file does not parse, both processes index
  their entry, and a restart finds neither, though registry.py:118-119 says that the
  index must not diverge from the store. `IndexFollowsStore` claims nothing of such
  a version but that no process finds two texts of it under one action.
- A result of an adapter that is none (no exit code, evidence that is no list)
  raises outside the try (agents.py:125-135): the call ends without a TaskResult,
  and the stream has a start and no end.
- A capability listed twice is indexed once by `register_adapter` and twice by the
  rebuild, so an agent that found the adapter reports it ambiguous after a restart
  (registry.py:84-85; capabilities are a set in the model).
- The attestation speaks of one action; the other capabilities of the entry are
  taken as claimed (attestation.py, the check of contract_id).
- If a judgment or the sink raises, the stream holds a task.start with no
  task.result.

Calibration
- Two calibrations that overlap lose an entry or leave a lock that does not parse
  (calibration.py:633-639, 718-747); the next one then rebuilds it without the
  others' entries.
- A judge that fails a new calibration keeps its old entry, and the check still
  calls it fresh if prompt and model are the same (cli.py:940).
- The lock pins prompt and model only. The specification, the upstream documents
  and the role are not pinned: an advisory judge with false passes is fresh for
  whoever asks, though calibration.py:6-9 says one false PASS fails a judge that
  gates freezes.
- A second calibration on a day overwrites the report that the first one's entry
  refers to (cli.py:918-922), though calibration.py:712 calls the reports the
  record.

Routing
- Between the store of a count and the second look-up another thread's success may
  take the entry out (routing.py:28-29); the KeyError leaves the loop with backups
  untried. Counts are lost when two threads read the same one. Both are in the
  model; `overlap` names when.
- Two adapters of one provider share a circuit (routing.py:205): the second is
  passed over for the failures of the first.
- The fraction of a consensus is one of all that were asked, those that raised
  included (routing.py:114), and 0.67 refuses two of three. The answer returned is
  the first that came, which may be the one that does not agree (routing.py:117).
- The answers of a consensus are compared with the median length, where the comment
  (routing.py:111) says within 20% of each other: two that agree with the median may
  differ by more.
- A pipeline's later requests are built without declared inputs and temperature
  (routing.py:175-185).
- The binder calls the first adapter whatever the strategy of the binding
  (lifecycle.py:77-83).

Auto-research
- For a target with `==` a lower value counts as better (auto_research.py:382), so the
  winner may not be the experiment that met the target.
- A first success of Infinity for a lower-is-better target, or of -Infinity for a
  higher-is-better one, is not better than the value the loop starts from
  (auto_research.py:84), and a run of such successes has no winner.
- Context pruning makes one variation per artifact and one more whatever is left
  of the budget.
- total_cost leaves out the calls for variations and the answers that could not be
  measured; a score that does not parse counts as a success of 0.
- Reordering constraints when there are none repeats the baseline.

## 13. What is not modelled

Left out: observability (append and sum, no decision rests on it); configuration,
argument parsing, report formatting; parsing of WDD documents and building of
prompts (text in, text out: the models take any plan and any answer); the
pipelines (a tool, a model, a report, no state); the other fields of er.md that are
rewritten with the count (state.py:41-58); a warning noted in the round in which the
validator's issue list breaks the loop, which then returns nothing; a death between
the write and the flush of an event; the adapters (the models let
every call return anything or raise); several files with one artifact ID, torn
artifact files, a registry written by several threads of one process.
