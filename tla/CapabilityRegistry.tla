-------------------------- MODULE CapabilityRegistry --------------------------
(****************************************************************************)
(* The capability registry of src/cicd/: one file per adapter version in the  *)
(* artifact store, and in every process an index, by action, of what it has    *)
(* read from the store and registered itself.                               *)
(*                                                                          *)
(* Processes boot, register and die; nothing keeps them apart.  A process     *)
(* makes one registration at a time.  An entry stands for the registration     *)
(* request it is the text of, the attestation it points to included.           *)
(****************************************************************************)
EXTENDS Naturals

CONSTANTS
    Processes,
    Versions,     \* adapter_id and adapter_version: the key of the store
    Actions,
    Tags,         \* key = value pairs of a context
    Signers,
    ContractVersions,
    Entries,      \* the registrations asked for
    Trusted,      \* the signers a process trusts
    Contracts,    \* by process and action: the current contract version, and
                  \* until when earlier ones are taken
    Absent,       \* no file, no entry
    Blank,        \* a file just truncated
    Torn,         \* a file with part of a text, which does not parse
    Unusable,     \* an attestation missing, not fetched, not JSON or not valid
    Times,        \* the times at which a registration may be asked for
    MaxCalls      \* bound: registrations begun

(* The payload of an attestation, unwrapped from its bundle and valid.          *)
Attestation ==
    [subject : Versions, contract : Actions, contract_version : ContractVersions,
     signer : Signers] \cup {Unusable}

Entry == [version : Versions, capabilities : SUBSET Actions, context : SUBSET Tags,
          attestation : Attestation]

ASSUME RegistryAssumption ==
    /\ Entries \subseteq Entry
    /\ DOMAIN Trusted = Processes
    /\ DOMAIN Contracts = Processes
    /\ {Absent, Blank, Torn} \cap Entries = {}
    /\ Absent # Blank /\ Absent # Torn /\ Blank # Torn
    /\ Times \subseteq Nat
    /\ MaxCalls \in Nat

VARIABLES
    store,     \* the artifact store
    index,     \* the index of each process
    pc,        \* where the process is
    entry,     \* the registration in hand
    unread,    \* files of the listing the booting process has not come to
    todo,      \* capabilities of the registration not indexed yet
    bucket,    \* the action whose bucket has been filtered
    calls,
    accepted,  \* history: what a verifier accepted
    stored,    \* history: what a put was called with and did not raise
    current,   \* history: versions a process read or wrote, and nobody has written since
    apart,     \* history: who has a file open that nobody else has written since
    met        \* history: the texts a process has read or stored itself

vars == <<store, index, pc, entry, unread, todo, bucket, calls,
          accepted, stored, current, apart, met>>

registering == <<entry, todo, bucket>>
history == <<accepted, stored, current, apart, met>>

Steps == {"down", "load", "idle", "put", "write", "filter", "append"}

RegistryTypeOK ==
    /\ store \in [Versions -> Entries \cup {Absent, Blank, Torn}]
    /\ index \in [Processes -> [Actions -> SUBSET Entries]]
    /\ pc \in [Processes -> Steps]
    /\ entry \in [Processes -> Entries \cup {Absent}]
    /\ \A p \in Processes :
          pc[p] \in {"put", "write", "filter", "append"} => entry[p] \in Entries
    /\ unread \in [Processes -> SUBSET Versions]
    /\ todo \in [Processes -> SUBSET Actions]
    /\ bucket \in [Processes -> Actions \cup {Absent}]
    /\ \A p \in Processes : pc[p] = "append" => bucket[p] \in todo[p]
    /\ calls \in 0..MaxCalls
    /\ accepted \subseteq Entries
    /\ stored \subseteq Entries
    /\ current \in [Processes -> SUBSET Versions]
    /\ apart \subseteq Processes
    /\ \A p \in apart : pc[p] = "write"
    /\ met \in [Processes -> SUBSET Entries]

Empty == [a \in Actions |-> {}]

RegistryInit ==
    /\ store = [v \in Versions |-> Absent]
    /\ index = [p \in Processes |-> Empty]
    /\ pc = [p \in Processes |-> "down"]
    /\ entry = [p \in Processes |-> Absent]
    /\ unread = [p \in Processes |-> {}]
    /\ todo = [p \in Processes |-> {}]
    /\ bucket = [p \in Processes |-> Absent]
    /\ calls = 0
    /\ accepted = {} /\ stored = {}
    /\ current = [p \in Processes |-> {}]
    /\ apart = {}
    /\ met = [p \in Processes |-> {}]

----------------------------------------------------------------------------
(* The verifier.                                                            *)

Acceptable(policy, v, now) ==
    \/ v = policy.current
    \/ v \in DOMAIN policy.cutover /\ now < policy.cutover[v]

Verified(p, e, now) ==
    LET att == e.attestation IN
    /\ att # Unusable
    /\ att.subject = e.version
    /\ att.contract \in e.capabilities
    /\ att.signer \in Trusted[p]
    /\ att.contract \in DOMAIN Contracts[p]
    /\ Acceptable(Contracts[p][att.contract], att.contract_version, now)

----------------------------------------------------------------------------
(* A process starts, and reads the files the store lists one by one.           *)

Boot(p) ==
    /\ pc[p] = "down"
    /\ pc' = [pc EXCEPT ![p] = "load"]
    /\ unread' = [unread EXCEPT ![p] = {v \in Versions : store[v] # Absent}]
    /\ UNCHANGED <<store, index, registering, calls, history>>

(* A file that does not parse is skipped.                                     *)
Load(p, v) ==
    /\ pc[p] = "load"
    /\ v \in unread[p]
    /\ unread' = [unread EXCEPT ![p] = @ \ {v}]
    /\ index' = [index EXCEPT ![p] = [a \in Actions |->
           IF store[v] \in Entries /\ a \in store[v].capabilities
           THEN @[a] \cup {store[v]} ELSE @[a]]]
    /\ current' = [current EXCEPT ![p] = @ \cup {v}]
    /\ met' = [met EXCEPT ![p] = @ \cup ({store[v]} \cap Entries)]
    /\ UNCHANGED <<store, pc, registering, calls, accepted, stored, apart>>

Booted(p) ==
    /\ pc[p] = "load"
    /\ unread[p] = {}
    /\ pc' = [pc EXCEPT ![p] = "idle"]
    /\ UNCHANGED <<store, index, registering, unread, calls, history>>

----------------------------------------------------------------------------
(* register_adapter: verify, put, index.                                      *)

Begin(p, e) ==
    /\ pc[p] = "idle"
    /\ calls < MaxCalls
    /\ calls' = calls + 1
    /\ entry' = [entry EXCEPT ![p] = e]
    /\ todo' = [todo EXCEPT ![p] = e.capabilities]
    /\ pc' = [pc EXCEPT ![p] = "put"]
    /\ UNCHANGED <<store, index, unread, bucket>>

Return(p) ==
    /\ pc' = [pc EXCEPT ![p] = "idle"]
    /\ entry' = [entry EXCEPT ![p] = Absent]
    /\ todo' = [todo EXCEPT ![p] = {}]
    /\ bucket' = [bucket EXCEPT ![p] = Absent]

(* A registration refused writes nothing.                                     *)
Register(p, e) ==
    /\ \E now \in Times : Verified(p, e, now)
    /\ Begin(p, e)
    /\ accepted' = accepted \cup {e}
    /\ UNCHANGED <<stored, current, apart, met>>

(* A text written from the start of a file that has another one meanwhile      *)
(* leaves the rest of that behind if it is the shorter of the two; how long    *)
(* texts are is left open.                                                   *)
Overwritten(file, text) == IF file \in {Blank, text} THEN {text} ELSE {text, Torn}

(* The file of v changes: what has been read or written of it is no longer what  *)
(* it holds.                                                                  *)
Outdated(v) == [q \in Processes |-> current[q] \ {v}]

(* Who is left apart when p writes the file of v.                              *)
Apart(p, v) == {q \in apart \ {p} : entry[q].version # v}

(* write_bytes opens the file, which truncates it, and then writes the bytes in  *)
(* one call; nothing keeps another process from doing the same in between.      *)
PutOpen(p) ==
    LET v == entry[p].version IN
    /\ pc[p] = "put"
    /\ store' = [store EXCEPT ![v] = Blank]
    /\ current' = Outdated(v)
    /\ apart' = apart \cup {p}
    /\ pc' = [pc EXCEPT ![p] = "write"]
    /\ UNCHANGED <<index, registering, unread, calls, accepted, stored, met>>

PutWrite(p) ==
    LET v == entry[p].version IN
    /\ pc[p] = "write"
    /\ \E text \in Overwritten(store[v], entry[p]) : store' = [store EXCEPT ![v] = text]
    /\ current' = IF p \in apart THEN [Outdated(v) EXCEPT ![p] = @ \cup {v}] ELSE Outdated(v)
    /\ apart' = Apart(p, v)
    /\ stored' = stored \cup {entry[p]}
    /\ met' = [met EXCEPT ![p] = @ \cup {entry[p]}]
    /\ pc' = [pc EXCEPT ![p] = "filter"]
    /\ UNCHANGED <<index, registering, unread, calls, accepted>>

PutRaises_Swallowed(p) ==
    /\ pc[p] \in {"put", "write"}
    /\ pc' = [pc EXCEPT ![p] = "filter"]
    /\ apart' = apart \ {p}
    /\ UNCHANGED <<store, index, registering, unread, calls, accepted, stored, current, met>>

(* It raises before it opens the file, or when it has written none or part of   *)
(* the text.  The index is left as it was.                                     *)
PutRaises(p) ==
    LET v == entry[p].version IN
    /\ pc[p] \in {"put", "write"}
    /\ \/ UNCHANGED <<store, current>> /\ apart' = apart \ {p}
       \/ /\ pc[p] = "write"
          /\ store' = [store EXCEPT ![v] = Torn]
          /\ current' = Outdated(v)
          /\ apart' = Apart(p, v)
    /\ Return(p)
    /\ UNCHANGED <<index, unread, calls, accepted, stored, met>>

IndexFilter_Forgotten(p, a) ==
    /\ pc[p] = "filter"
    /\ a \in todo[p]
    /\ bucket' = [bucket EXCEPT ![p] = a]
    /\ pc' = [pc EXCEPT ![p] = "append"]
    /\ UNCHANGED <<store, index, entry, todo, unread, calls, history>>

(* _index_add: only the buckets of the new entry's capabilities are filtered.  *)
IndexFilter(p, a) ==
    /\ pc[p] = "filter"
    /\ a \in todo[p]
    /\ index' = [index EXCEPT ![p][a] = {e \in @ : e.version # entry[p].version}]
    /\ bucket' = [bucket EXCEPT ![p] = a]
    /\ pc' = [pc EXCEPT ![p] = "append"]
    /\ UNCHANGED <<store, entry, todo, unread, calls, history>>

IndexAppend(p) ==
    /\ pc[p] = "append"
    /\ index' = [index EXCEPT ![p][bucket[p]] = @ \cup {entry[p]}]
    /\ todo' = [todo EXCEPT ![p] = @ \ {bucket[p]}]
    /\ bucket' = [bucket EXCEPT ![p] = Absent]
    /\ pc' = [pc EXCEPT ![p] = "filter"]
    /\ UNCHANGED <<store, entry, unread, calls, history>>

Registered(p) ==
    /\ pc[p] = "filter"
    /\ todo[p] = {}
    /\ Return(p)
    /\ UNCHANGED <<store, index, unread, calls, history>>

----------------------------------------------------------------------------
(* A process exits or is killed, and its index is gone.                       *)
Die(p) ==
    /\ pc[p] # "down"
    /\ pc' = [pc EXCEPT ![p] = "down"]
    /\ index' = [index EXCEPT ![p] = Empty]
    /\ entry' = [entry EXCEPT ![p] = Absent]
    /\ todo' = [todo EXCEPT ![p] = {}]
    /\ bucket' = [bucket EXCEPT ![p] = Absent]
    /\ unread' = [unread EXCEPT ![p] = {}]
    /\ current' = [current EXCEPT ![p] = {}]
    /\ met' = [met EXCEPT ![p] = {}]
    /\ apart' = apart \ {p}
    /\ UNCHANGED <<store, calls, accepted, stored>>

RegistryStep(p) ==
    \/ Boot(p) \/ Booted(p) \/ PutOpen(p) \/ PutWrite(p) \/ PutRaises(p)
    \/ IndexAppend(p) \/ Registered(p) \/ Die(p)
    \/ \E v \in Versions : Load(p, v)
    \/ \E e \in Entries : Register(p, e)
    \/ \E a \in Actions : IndexFilter(p, a)

RegistryNext == \E p \in Processes : RegistryStep(p)

----------------------------------------------------------------------------
(* find_adapters: the entries of the bucket whose context has the tags asked.  *)
Find(p, a, tags) == {e \in index[p][a] : tags \subseteq e.context}

----------------------------------------------------------------------------
(* Properties.                                                               *)

(* What a process finds, and what the store holds, was accepted by a verifier  *)
(* and put without an error, through failed puts, deaths and restarts          *)
(* (registry.py:102-131).                                                    *)
Vetted ==
    /\ stored \subseteq accepted
    /\ \A v \in Versions : store[v] \in Entries => store[v] \in stored
    /\ \A p \in Processes, a \in Actions : index[p][a] \subseteq stored

(* What a process has in its index of a version, and what the store gives it.   *)
Held(p, v, a) == {e \in index[p][a] : e.version = v}

Due(v, a) == {e \in {store[v]} : e \in Entries /\ a \in e.capabilities}

(* A process finds at most one text of a version under an action, one it has    *)
(* read or put itself since it started and that claims the action.             *)
OneText ==
    \A p \in Processes, v \in Versions, a \in Actions :
        /\ \A e, f \in Held(p, v, a) : e = f
        /\ Held(p, v, a) \subseteq {e \in met[p] : a \in e.capabilities}

(* The index follows the store.  Of a version it has read, or put without       *)
(* anybody writing the file meanwhile, and that nobody else has written since,   *)
(* a process that is not registering finds the text the store holds under every *)
(* action it claims; under another action at most an older text of its own, left *)
(* there by a registration with fewer capabilities (registry.py:1-8, 87-99,      *)
(* 118-124).                                                                 *)
IndexFollowsStore ==
    /\ OneText
    /\ \A p \in Processes : pc[p] \in {"idle", "put"} =>
          \A v \in current[p], a \in Actions : Due(v, a) \subseteq Held(p, v, a)

(* What a registration in hand has come to.                                   *)
RegistrationOK(p) ==
    /\ pc[p] \in {"put", "write", "filter", "append"} =>
          entry[p] \in accepted /\ todo[p] \subseteq entry[p].capabilities
    /\ pc[p] \in {"put", "write"} => todo[p] = entry[p].capabilities
    /\ pc[p] \in {"filter", "append"} => entry[p] \in stored

(* Every text is vetted on its way from the request to the index, and stands   *)
(* under its own key and its own actions (registry.py:56-131).                *)
TextsVetted ==
    /\ Vetted
    /\ \A v \in Versions : store[v] \in Entries => store[v].version = v
    /\ \A p \in Processes :
          /\ RegistrationOK(p)
          /\ \A a \in Actions : \A e \in index[p][a] : a \in e.capabilities

(* How far the index of a process has come to follow the store: a file is      *)
(* indexed when it is read, and the version being registered bucket by bucket, *)
(* once its file is written (registry.py:68-99, 118-124).                     *)
IndexInStep(p) ==
    /\ pc[p] = "down" => index[p] = Empty /\ current[p] = {}
    /\ pc[p] = "load" => \A v \in unread[p], a \in Actions : Held(p, v, a) = {}
    /\ pc[p] \in {"filter", "append"} => entry[p] \in met[p]
    /\ pc[p] = "append" => Held(p, entry[p].version, bucket[p]) = {}
    /\ p \in apart => store[entry[p].version] = Blank
    /\ \A v \in current[p], a \in Actions :
          IF pc[p] \in {"filter", "append"} /\ v = entry[p].version
          THEN store[v] = entry[p] /\ (a \notin todo[p] => Due(v, a) \subseteq Held(p, v, a))
          ELSE Due(v, a) \subseteq Held(p, v, a)

IndexesInStep == OneText /\ \A p \in Processes : IndexInStep(p)

=============================================================================
