------------------------------ MODULE TaskAgents ------------------------------
(****************************************************************************)
(* The agents of src/cicd/agents.py, with the events of src/cicd/events.py:    *)
(* tasks that look their adapter up in the registry of their process, run it,  *)
(* have a failure judged and perhaps tried again, and tell the event stream.    *)
(*                                                                          *)
(* A task is one call of receive_task on an agent of its own, in a thread of    *)
(* its own.  What an adapter is given, and its findings, are left out.         *)
(****************************************************************************)
EXTENDS CapabilityRegistry, Sequences

CONSTANTS
    Tasks,
    ProcessOf,    \* the process of a task's agent
    ActionOf,     \* the action asked for
    ContextOf,    \* the context of the agent
    Judged,       \* tasks of an LLMAgent
    AdapterOf,    \* the adapter_id of a version
    Instances,    \* adapters there is a runtime instance of
    EvidenceLists, \* what an adapter that exits may show
    MaxRetries

(* What evidence may refer to.                                                *)
Evidence == UNION {{list[k] : k \in DOMAIN list} : list \in EvidenceLists}

ASSUME AgentsAssumption ==
    /\ EvidenceLists \subseteq Seq(Evidence)
    /\ ProcessOf \in [Tasks -> Processes]
    /\ ActionOf \in [Tasks -> Actions]
    /\ ContextOf \in [Tasks -> SUBSET Tags]
    /\ Judged \subseteq Tasks
    /\ DOMAIN AdapterOf = Versions
    /\ MaxRetries \in Nat

VARIABLES
    at,        \* where receive_task is
    found,     \* the entry the last lookup chose
    status,    \* of the result in hand
    evidence,  \* of the result in hand, what has not been told yet
    retries,
    log,       \* the events of the task
    attempts   \* history: the entry, the status and the evidence of each attempt

agents == <<at, found, status, evidence, retries, log, attempts>>

Status == {"completed", "failed", "skipped"}

(* An event: task.start and task.evidence have neither adapter nor status.      *)
Event(type, ref, adapter, s) == [type |-> type, ref |-> ref, adapter |-> adapter, status |-> s]

StartEvent == Event("start", Absent, Absent, "")
EvidenceEvent(ref) == Event("evidence", ref, Absent, "")
ResultEvent(e, s) == Event("result", Absent, IF e = Absent THEN Absent ELSE AdapterOf[e.version], s)

Events == [type : {"start", "evidence", "result"}, ref : Evidence \cup {Absent},
           adapter : {AdapterOf[v] : v \in Versions} \cup {Absent},
           status : Status \cup {""}]

Attempt == [entry : Entries \cup {Absent}, status : Status, evidence : Seq(Evidence)]

TypeOK ==
    /\ RegistryTypeOK
    /\ at \in [Tasks -> {"waiting", "ask", "execute", "judge", "tell",
                         "done", "raised", "killed"}]
    /\ found \in [Tasks -> Entries \cup {Absent}]
    /\ \A t \in Tasks : at[t] = "execute" => found[t] \in Entries
    /\ status \in [Tasks -> Status]
    /\ evidence \in [Tasks -> Seq(Evidence)]
    /\ retries \in [Tasks -> 0..MaxRetries]
    /\ \A t \in Tasks : at[t] = "judge" => retries[t] < MaxRetries
    /\ log \in [Tasks -> Seq(Events)]
    /\ attempts \in [Tasks -> Seq(Attempt)]

Init ==
    /\ RegistryInit
    /\ at = [t \in Tasks |-> "waiting"]
    /\ found = [t \in Tasks |-> Absent]
    /\ status = [t \in Tasks |-> "failed"]
    /\ evidence = [t \in Tasks |-> <<>>]
    /\ retries = [t \in Tasks |-> 0]
    /\ log = [t \in Tasks |-> <<>>]
    /\ attempts = [t \in Tasks |-> <<>>]

----------------------------------------------------------------------------
Go(t, place) == at' = [at EXCEPT ![t] = place]

(* An event is written, or writing it raises and the call is over.             *)
Tell(t, event, place) ==
    \/ log' = [log EXCEPT ![t] = Append(@, event)] /\ Go(t, place)
    \/ Go(t, "raised") /\ UNCHANGED log

Start(t) ==
    /\ at[t] = "waiting"
    /\ pc[ProcessOf[t]] \notin {"down", "load"}
    /\ Tell(t, StartEvent, "ask")
    /\ UNCHANGED <<found, status, evidence, retries, attempts>>

(* What the judgment is asked about: a failure, while there are retries left.   *)
Judgeable_OnceMore(t) == t \in Judged /\ retries[t] <= MaxRetries

Judgeable(t) == t \in Judged /\ retries[t] < MaxRetries

Attempted_Again(t, e, s, list) ==
    /\ found' = [found EXCEPT ![t] = e]
    /\ status' = [status EXCEPT ![t] = s]
    /\ evidence' = [evidence EXCEPT ![t] = list]
    /\ attempts' = [attempts EXCEPT ![t] =
                       Append(@, [entry |-> e, status |-> s, evidence |-> list])]
    /\ Go(t, IF Judgeable(t) THEN "judge" ELSE "tell")

(* An attempt ends.                                                          *)
Attempted(t, e, s, list) ==
    /\ found' = [found EXCEPT ![t] = e]
    /\ status' = [status EXCEPT ![t] = s]
    /\ evidence' = [evidence EXCEPT ![t] = list]
    /\ attempts' = [attempts EXCEPT ![t] =
                       Append(@, [entry |-> e, status |-> s, evidence |-> list])]
    /\ Go(t, IF s = "failed" /\ Judgeable(t) THEN "judge" ELSE "tell")

Ask_Waits(t) ==
    LET entries == Find(ProcessOf[t], ActionOf[t], ContextOf[t]) IN
    /\ at[t] = "ask"
    /\ \E e \in entries :
          /\ found' = [found EXCEPT ![t] = e]
          /\ Go(t, "execute")
    /\ UNCHANGED <<status, evidence, attempts, retries, log>>

(* No adapter, several, or one without an instance here: the task fails.       *)
Ask(t) ==
    LET entries == Find(ProcessOf[t], ActionOf[t], ContextOf[t])
        usable(e) == entries = {e} /\ AdapterOf[e.version] \in Instances
    IN
    /\ at[t] = "ask"
    /\ \/ /\ ~ \E e \in entries : usable(e)
          /\ Attempted(t, Absent, "failed", <<>>)
       \/ \E e \in entries :
             /\ usable(e)
             /\ found' = [found EXCEPT ![t] = e]
             /\ Go(t, "execute")
             /\ UNCHANGED <<status, evidence, attempts>>
    /\ UNCHANGED <<retries, log>>

(* The adapter exits, with 0 or another code, or raises; what it returns may    *)
(* also be no result, and reading that raises out of the call.                 *)
Execute(t) ==
    /\ at[t] = "execute"
    /\ \/ \E s \in {"completed", "failed"}, list \in EvidenceLists :
             Attempted(t, found[t], s, list)
       \/ Attempted(t, found[t], "failed", <<>>)
       \/ Go(t, "raised") /\ UNCHANGED <<found, status, evidence, attempts>>
    /\ UNCHANGED <<retries, log>>

(* The judgment: retry, surrender, skip; or it raises.                         *)
Judge(t) ==
    /\ at[t] = "judge"
    /\ \/ /\ retries' = [retries EXCEPT ![t] = @ + 1]
          /\ Go(t, "ask")
          /\ UNCHANGED <<status, evidence>>
       \/ /\ Go(t, "tell") /\ UNCHANGED <<status, evidence, retries>>
       \/ /\ status' = [status EXCEPT ![t] = "skipped"]
          /\ evidence' = [evidence EXCEPT ![t] = <<>>]
          /\ Go(t, "tell")
          /\ UNCHANGED retries
       \/ /\ Go(t, "raised") /\ UNCHANGED <<status, evidence, retries>>
    /\ UNCHANGED <<found, log, attempts>>

TellEvidence(t) ==
    /\ at[t] = "tell"
    /\ evidence[t] # <<>>
    /\ Tell(t, EvidenceEvent(Head(evidence[t])), "tell")
    /\ evidence' = [evidence EXCEPT ![t] = Tail(@)]
    /\ UNCHANGED <<found, status, retries, attempts>>

TellResult(t) ==
    /\ at[t] = "tell"
    /\ evidence[t] = <<>>
    /\ Tell(t, ResultEvent(found[t], status[t]), "done")
    /\ UNCHANGED <<found, status, evidence, retries, attempts>>

AgentStep(t) ==
    /\ Start(t) \/ Ask(t) \/ Execute(t) \/ Judge(t) \/ TellEvidence(t) \/ TellResult(t)
    /\ UNCHANGED vars

Live == {"ask", "execute", "judge", "tell"}

(* The registry takes a step; the tasks of a process that dies are killed.     *)
(* Bound: the registry is followed until the last task has ended.             *)
RegistrySteps ==
    /\ \E t \in Tasks : at[t] \in Live \cup {"waiting"}
    /\ RegistryNext
    /\ at' = [t \in Tasks |->
                IF at[t] \in Live /\ pc[ProcessOf[t]] # "down" /\ pc'[ProcessOf[t]] = "down"
                THEN "killed" ELSE at[t]]
    /\ UNCHANGED <<found, status, evidence, retries, log, attempts>>

Next == RegistrySteps \/ \E t \in Tasks : AgentStep(t)

Spec == Init /\ [][Next]_<<vars, agents>>

(* Adapters and judgments return or raise, and the thread of a task is run.    *)
FairSpec == Spec /\ \A t \in Tasks : WF_agents(AgentStep(t))

----------------------------------------------------------------------------
(* Properties.                                                               *)

(* The adapter of e is one the task may run.                                   *)
Fit(t, e) ==
    /\ e \in accepted \cap stored
    /\ ActionOf[t] \in e.capabilities
    /\ ContextOf[t] \subseteq e.context
    /\ AdapterOf[e.version] \in Instances

(* An adapter runs for a task only if its registration was accepted and put,     *)
(* claims the action, is for the agent's context and has an instance; whatever  *)
(* died, was re-registered or failed to be stored in between                  *)
(* (registry.py:102-156, agents.py:86-107).                                  *)
OnlyVetted ==
    /\ Vetted
    /\ \A t \in Tasks : \A k \in DOMAIN attempts[t] :
          LET e == attempts[t][k].entry IN e # Absent => Fit(t, e)

Last(t) == attempts[t][Len(attempts[t])]

(* The evidence there is to tell of, and its events.                           *)
Shown(t) == IF status[t] = "skipped" THEN <<>> ELSE Last(t).evidence

Told(list) == [k \in DOMAIN list |-> EvidenceEvent(list[k])]

(* The result in hand is that of the last attempt, or its failure is skipped.   *)
OfLast(t) ==
    /\ Len(attempts[t]) = retries[t] + 1
    /\ found[t] = Last(t).entry
    /\ IF status[t] = "skipped" THEN Last(t).status = "failed"
       ELSE Last(t).status = status[t]

(* The events of a task tell what happened: nothing is tried again that         *)
(* succeeded, nor more often than allowed; a call that returns has told its     *)
(* start, the evidence of its last attempt and one result, with that attempt's  *)
(* adapter and status, or that its failure was skipped; any other call has     *)
(* told no result (agents.py:165-204, events.py:141-167, 192-213).              *)
ToldAsItWent ==
    \A t \in Tasks :
        /\ Len(attempts[t]) <= MaxRetries + 1
        /\ \A k \in 1..Len(attempts[t]) - 1 : attempts[t][k].status = "failed"
        /\ at[t] = "done" =>
              /\ OfLast(t)
              /\ log[t] = <<StartEvent>> \o Told(Shown(t))
                                         \o <<ResultEvent(Last(t).entry, status[t])>>
        /\ at[t] # "done" => \A k \in DOMAIN log[t] : log[t][k].type # "result"

(* A task that has begun ends: its result is told, or the call raises or is     *)
(* killed (agents.py:174-204).                                               *)
TasksEnd ==
    \A t \in Tasks : at[t] = "ask" ~> at[t] \in {"done", "raised", "killed"}

(* The adapter a task is about to run is still vetted, whatever became of its   *)
(* registration since the lookup (agents.py:80-113).                          *)
TasksVetted ==
    /\ OnlyVetted
    /\ \A t \in Tasks : at[t] = "execute" => Fit(t, found[t])

(* What a task has tried, told and still has to tell at each of its steps       *)
(* (agents.py:165-204, events.py:141-167).                                     *)
TaskOK(t) ==
    /\ Len(attempts[t]) <= retries[t] + 1
    /\ \A k \in 1..Len(attempts[t]) - 1 : attempts[t][k].status = "failed"
    /\ at[t] # "done" => \A k \in DOMAIN log[t] : log[t][k].type # "result"
    /\ at[t] = "waiting" => log[t] = <<>> /\ attempts[t] = <<>>
    /\ at[t] \in {"ask", "execute", "judge"} =>
          /\ log[t] = <<StartEvent>>
          /\ attempts[t] # <<>> => Last(t).status = "failed"
    /\ at[t] \in {"waiting", "ask", "execute"} => Len(attempts[t]) = retries[t]
    /\ at[t] \in {"judge", "tell", "done"} => OfLast(t)
    /\ at[t] = "judge" => status[t] = "failed" /\ evidence[t] = Last(t).evidence
    /\ at[t] = "tell" => log[t] \o Told(evidence[t]) = <<StartEvent>> \o Told(Shown(t))
    /\ at[t] = "done" =>
          log[t] = <<StartEvent>> \o Told(Shown(t)) \o <<ResultEvent(found[t], status[t])>>

TasksInOrder == \A t \in Tasks : TaskOK(t)
=============================================================================
