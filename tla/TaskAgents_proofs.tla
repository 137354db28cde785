-------------------------- MODULE TaskAgents_proofs --------------------------
(****************************************************************************)
(* Proofs about CapabilityRegistry and TaskAgents, for any number of          *)
(* processes, versions and tasks, any policy of contracts, and deaths and      *)
(* failing writes anywhere.                                                  *)
(****************************************************************************)
EXTENDS TaskAgents, SequenceTheorems, TLAPS

----------------------------------------------------------------------------
(* The registry: type correctness.                                            *)

LEMMA EntryFields ==
    ASSUME NEW e \in Entries
    PROVE  /\ e.version \in Versions /\ e.capabilities \subseteq Actions
           /\ e # Absent /\ e # Blank /\ e # Torn
BY RegistryAssumption DEF Entry

(* What a text written over a file leaves.                                     *)
LEMMA OverwrittenText ==
    ASSUME NEW file, NEW e \in Entries, NEW text \in Overwritten(file, e)
    PROVE  (text = e \/ text = Torn) /\ (file = Blank => text = e)
BY DEF Overwritten

LEMMA EmptyType == Empty \in [Actions -> SUBSET Entries] /\ \A a \in Actions : Empty[a] = {}
BY DEF Empty

LEMMA RegistryStepType ==
    ASSUME RegistryTypeOK, NEW p \in Processes, RegistryStep(p)
    PROVE  RegistryTypeOK'
<1> USE DEF RegistryTypeOK, Steps, registering, history
<1>1. CASE Boot(p)
  BY <1>1 DEF Boot
<1>2. CASE Booted(p)
  BY <1>2 DEF Booted
<1>3. CASE PutOpen(p)
  BY <1>3, EntryFields DEF PutOpen, Outdated
<1>4. CASE PutWrite(p)
  BY <1>4, EntryFields, OverwrittenText, RegistryAssumption DEF PutWrite, Outdated, Apart
<1>5. CASE PutRaises(p)
  <2>1. /\ store' \in [Versions -> Entries \cup {Absent, Blank, Torn}]
        /\ current' \in [Processes -> SUBSET Versions]
    BY <1>5, EntryFields DEF PutRaises, Outdated
  <2>2. /\ pc' = [pc EXCEPT ![p] = "idle"]
        /\ entry' = [entry EXCEPT ![p] = Absent]
        /\ todo' = [todo EXCEPT ![p] = {}]
        /\ bucket' = [bucket EXCEPT ![p] = Absent]
        /\ apart' \subseteq apart \ {p}
        /\ UNCHANGED <<index, unread, calls, accepted, stored, met>>
    BY <1>5 DEF PutRaises, Return, Apart
  <2> QED
    BY <2>1, <2>2
<1>6. CASE IndexAppend(p)
  BY <1>6 DEF IndexAppend
<1>7. CASE Registered(p)
  BY <1>7 DEF Registered, Return
<1>8. CASE Die(p)
  BY <1>8, EmptyType DEF Die
<1>9. ASSUME NEW v \in Versions, Load(p, v) PROVE RegistryTypeOK'
  BY <1>9 DEF Load
<1>10. ASSUME NEW e \in Entries, Register(p, e) PROVE RegistryTypeOK'
  BY <1>10, EntryFields, RegistryAssumption DEF Register, Begin
<1>11. ASSUME NEW a \in Actions, IndexFilter(p, a) PROVE RegistryTypeOK'
  BY <1>11 DEF IndexFilter
<1> QED
  BY <1>1, <1>2, <1>3, <1>4, <1>5, <1>6, <1>7, <1>8, <1>9, <1>10, <1>11 DEF RegistryStep

LEMMA RegistryInitType == RegistryInit => RegistryTypeOK
BY EmptyType, RegistryAssumption DEF RegistryInit, RegistryTypeOK, Steps

----------------------------------------------------------------------------
(* The registry: what is vetted.                                              *)

LEMMA RegistryStepVetted ==
    ASSUME RegistryTypeOK, TextsVetted, NEW p \in Processes, RegistryStep(p)
    PROVE  TextsVetted' /\ accepted \subseteq accepted' /\ stored \subseteq stored'
<1> USE DEF RegistryTypeOK, Steps, registering, history, TextsVetted, Vetted, RegistrationOK
<1>1. CASE Boot(p)
  BY <1>1 DEF Boot
<1>2. CASE Booted(p)
  BY <1>2 DEF Booted
<1>3. CASE PutOpen(p)
  BY <1>3, EntryFields, RegistryAssumption DEF PutOpen
<1>4. CASE PutWrite(p)
  BY <1>4, EntryFields, OverwrittenText, RegistryAssumption DEF PutWrite, Outdated, Apart
<1>5. CASE PutRaises(p)
  <2>1. /\ UNCHANGED <<index, accepted, stored>>
        /\ \A v \in Versions : store'[v] \in Entries => store'[v] = store[v]
    BY <1>5, EntryFields, RegistryAssumption DEF PutRaises
  <2>2. /\ pc' = [pc EXCEPT ![p] = "idle"] /\ entry' = [entry EXCEPT ![p] = Absent]
        /\ todo' = [todo EXCEPT ![p] = {}]
    BY <1>5 DEF PutRaises, Return
  <2> QED
    BY <2>1, <2>2
<1>6. CASE IndexAppend(p)
  BY <1>6 DEF IndexAppend
<1>7. CASE Registered(p)
  BY <1>7 DEF Registered, Return
<1>8. CASE Die(p)
  BY <1>8, EmptyType DEF Die
<1>9. ASSUME NEW v \in Versions, Load(p, v)
      PROVE  TextsVetted' /\ accepted \subseteq accepted' /\ stored \subseteq stored'
  BY <1>9 DEF Load
<1>10. ASSUME NEW e \in Entries, Register(p, e)
       PROVE  TextsVetted' /\ accepted \subseteq accepted' /\ stored \subseteq stored'
  BY <1>10, EntryFields, RegistryAssumption DEF Register, Begin
<1>11. ASSUME NEW a \in Actions, IndexFilter(p, a)
       PROVE  TextsVetted' /\ accepted \subseteq accepted' /\ stored \subseteq stored'
  BY <1>11 DEF IndexFilter
<1> QED
  BY <1>1, <1>2, <1>3, <1>4, <1>5, <1>6, <1>7, <1>8, <1>9, <1>10, <1>11 DEF RegistryStep

LEMMA RegistryInitVetted == RegistryInit => TextsVetted
BY EmptyType, RegistryAssumption
DEF RegistryInit, TextsVetted, Vetted, RegistrationOK

----------------------------------------------------------------------------
(* The registry: the index and the store.                                     *)

LEMMA RegistryStepIndex ==
    ASSUME RegistryTypeOK, TextsVetted, IndexesInStep,
           NEW p \in Processes, RegistryStep(p)
    PROVE  IndexesInStep'
<1> SUFFICES ASSUME NEW q \in Processes
             PROVE  /\ IndexInStep(q)'
                    /\ \A v \in Versions, a \in Actions :
                          /\ \A e, f \in Held(q, v, a)' : e = f
                          /\ Held(q, v, a)' \subseteq {e \in met'[q] : a \in e.capabilities}
  BY DEF IndexesInStep, OneText
<1> DEFINE Goal == /\ IndexInStep(q)'
                   /\ \A v \in Versions, a \in Actions :
                         /\ \A e, f \in Held(q, v, a)' : e = f
                         /\ Held(q, v, a)' \subseteq {e \in met'[q] : a \in e.capabilities}
<1>0. /\ IndexInStep(p) /\ IndexInStep(q)
      /\ \A v \in Versions, a \in Actions :
            /\ \A e, f \in Held(q, v, a) : e = f
            /\ Held(q, v, a) \subseteq {e \in met[q] : a \in e.capabilities}
  BY DEF IndexesInStep, OneText
<1> USE DEF RegistryTypeOK, Steps, registering, history, IndexInStep, Held, Due
<1>1. CASE Boot(p)
  BY <1>0, <1>1, EmptyType DEF Boot
<1>2. CASE Booted(p)
  BY <1>0, <1>2 DEF Booted
<1>3. CASE PutOpen(p)
  <2> DEFINE w == entry[p].version
  <2>1. /\ pc[p] = "put" /\ w \in Versions
        /\ store' = [store EXCEPT ![w] = Blank]
        /\ apart' = apart \cup {p}
        /\ pc' = [pc EXCEPT ![p] = "write"]
        /\ UNCHANGED <<index, entry, todo, bucket, unread, met>>
    BY <1>3, EntryFields DEF PutOpen
  <2>2. \A v \in current'[q] : v # w /\ v \in current[q] /\ store'[v] = store[v]
    BY <1>3, <2>1 DEF PutOpen, Outdated
  <2>3. q \in apart' => store'[entry'[q].version] = Blank
    <3>1. CASE q = p
      BY <2>1, <3>1
    <3>2. CASE q # p /\ q \in apart
      <4>1. entry[q].version \in Versions
        BY <3>2, EntryFields
      <4> QED
        BY <1>0, <2>1, <3>2, <4>1
    <3> QED
      BY <2>1, <3>1, <3>2
  <2>5. \A v, a : Held(q, v, a)' = Held(q, v, a)
    BY <2>1
  <2>6. \A v \in current'[q], a \in Actions : Due(v, a)' = Due(v, a)
    BY <2>2
  <2>7. ASSUME NEW v \in current'[q], NEW a \in Actions
        PROVE  IF pc'[q] \in {"filter", "append"} /\ v = entry'[q].version
               THEN store'[v] = entry'[q] /\ (a \notin todo'[q] => Due(v, a)' \subseteq Held(q, v, a)')
               ELSE Due(v, a)' \subseteq Held(q, v, a)'
    <3>1. pc'[q] \in {"filter", "append"} <=> pc[q] \in {"filter", "append"}
      BY <2>1
    <3>2. v \in current[q] /\ store'[v] = store[v] /\ entry'[q] = entry[q] /\ todo'[q] = todo[q]
      BY <2>1, <2>2
    <3>3. IF pc[q] \in {"filter", "append"} /\ v = entry[q].version
          THEN store[v] = entry[q] /\ (a \notin todo[q] => Due(v, a) \subseteq Held(q, v, a))
          ELSE Due(v, a) \subseteq Held(q, v, a)
      BY <1>0, <3>2
    <3> HIDE DEF Held, Due
    <3> QED
      BY <2>5, <2>6, <3>1, <3>2, <3>3
  <2>8. /\ pc'[q] = "down" => pc[q] = "down"
        /\ pc'[q] = "load" => pc[q] = "load"
        /\ pc'[q] = "append" => pc[q] = "append"
        /\ pc'[q] = "filter" => pc[q] = "filter"
        /\ UNCHANGED <<index, entry, bucket, unread, met>>
    BY <2>1
  <2>9. current'[q] \subseteq current[q]
    BY <2>2
  <2> HIDE DEF Held, Due
  <2> QED
    BY <1>0, <2>3, <2>5, <2>7, <2>8, <2>9
<1>4. CASE PutWrite(p)
  <2> DEFINE e == entry[p]
             w == e.version
  <2>1. /\ pc[p] = "write" /\ e \in Entries /\ w \in Versions
        /\ todo[p] = e.capabilities
        /\ pc' = [pc EXCEPT ![p] = "filter"]
        /\ met' = [met EXCEPT ![p] = @ \cup {e}]
        /\ apart' = Apart(p, w)
        /\ current' = IF p \in apart THEN [Outdated(w) EXCEPT ![p] = @ \cup {w}] ELSE Outdated(w)
        /\ UNCHANGED <<index, entry, todo, bucket, unread>>
    BY <1>4, EntryFields DEF PutWrite, TextsVetted, RegistrationOK
  <2>2. PICK text \in Overwritten(store[w], e) : store' = [store EXCEPT ![w] = text]
    BY <1>4 DEF PutWrite
  <2>3. p \in apart => text = e
    BY <1>0, <2>1, <2>2, OverwrittenText
  <2>4. /\ \A v \in Versions : v # w => store'[v] = store[v]
        /\ \A v \in current'[q] : v = w => q = p /\ p \in apart
        /\ \A v \in current'[q] : v # w => v \in current[q]
        /\ p \in apart => store'[w] = e
        /\ current'[q] \subseteq Versions
    BY <2>1, <2>2, <2>3 DEF Outdated
  <2>5. \A v, a : v # w => Due(v, a)' = Due(v, a) \/ v \notin Versions
    BY <2>4
  <2>6. \A v, a : Held(q, v, a)' = Held(q, v, a)
    BY <2>1
  <2>7. ASSUME NEW v \in current'[q], NEW a \in Actions
        PROVE  IF pc'[q] \in {"filter", "append"} /\ v = entry'[q].version
               THEN store'[v] = entry'[q] /\ (a \notin todo'[q] => Due(v, a)' \subseteq Held(q, v, a)')
               ELSE Due(v, a)' \subseteq Held(q, v, a)'
    <3>1. CASE v = w
      <4>1. /\ q = p /\ p \in apart /\ store'[w] = e /\ entry'[q] = e
            /\ pc'[q] = "filter" /\ todo'[q] = e.capabilities
        BY <2>1, <2>4, <2>7, <3>1
      <4> QED
        BY <3>1, <4>1
    <3>2. CASE v # w
      <4>1. v \in current[q] /\ store'[v] = store[v] /\ entry'[q] = entry[q] /\ todo'[q] = todo[q]
        BY <2>1, <2>4, <2>7, <3>2
      <4>2. pc'[q] \in {"filter", "append"} /\ v = entry[q].version
            <=> pc[q] \in {"filter", "append"} /\ v = entry[q].version
        BY <2>1, <3>2
      <4>3. IF pc[q] \in {"filter", "append"} /\ v = entry[q].version
            THEN store[v] = entry[q] /\ (a \notin todo[q] => Due(v, a) \subseteq Held(q, v, a))
            ELSE Due(v, a) \subseteq Held(q, v, a)
        BY <1>0, <4>1
      <4>4. Due(v, a)' = Due(v, a)
        BY <4>1
      <4> HIDE DEF Held, Due
      <4> QED
        BY <2>6, <4>1, <4>2, <4>3, <4>4
    <3> QED
      BY <3>1, <3>2
  <2>8. q \in apart' => store'[entry'[q].version] = Blank
    <3> SUFFICES ASSUME q \in apart' PROVE store'[entry'[q].version] = Blank
      OBVIOUS
    <3>1. q \in apart /\ q # p /\ entry[q].version # w /\ entry'[q] = entry[q]
          /\ entry[q] \in Entries
      BY <2>1 DEF Apart
    <3> QED
      BY <1>0, <2>4, <3>1, EntryFields
  <2>9. pc'[q] \in {"filter", "append"} => entry'[q] \in met'[q]
    BY <1>0, <2>1
  <2>10. pc'[q] = "append" => Held(q, entry[q].version, bucket[q])' = {}
    BY <1>0, <2>1
  <2>11. \A v \in Versions, a \in Actions :
            /\ \A f, g \in Held(q, v, a)' : f = g
            /\ Held(q, v, a)' \subseteq {f \in met'[q] : a \in f.capabilities}
    <3>1. met[q] \subseteq met'[q]
      BY <2>1
    <3> SUFFICES ASSUME NEW v \in Versions, NEW a \in Actions
                 PROVE  /\ \A f, g \in Held(q, v, a)' : f = g
                        /\ Held(q, v, a)' \subseteq {f \in met'[q] : a \in f.capabilities}
      OBVIOUS
    <3>2. /\ \A f, g \in Held(q, v, a) : f = g
          /\ Held(q, v, a) \subseteq {f \in met[q] : a \in f.capabilities}
      BY <1>0
    <3>3. Held(q, v, a)' = Held(q, v, a)
      BY <2>6
    <3> HIDE DEF Held
    <3> QED
      BY <3>1, <3>2, <3>3
  <2>12. /\ pc'[q] = "down" => index'[q] = Empty /\ current'[q] = {}
         /\ pc'[q] = "load" => \A v \in unread'[q], a \in Actions : Held(q, v, a)' = {}
    <3>1. pc'[q] \in {"down", "load"} => q # p /\ pc'[q] = pc[q]
      BY <2>1
    <3>2. q # p => current'[q] \subseteq current[q]
      BY <2>4
    <3> QED
      BY <1>0, <2>1, <2>6, <3>1, <3>2
  <2>13. IndexInStep(q)'
    <3>1. \A v \in current'[q], a \in Actions :
             IF pc'[q] \in {"filter", "append"} /\ v = entry'[q].version
             THEN store'[v] = entry'[q] /\ (a \notin todo'[q] => Due(v, a)' \subseteq Held(q, v, a)')
             ELSE Due(v, a)' \subseteq Held(q, v, a)'
      BY <2>7
    <3> QED
      BY <2>8, <2>9, <2>10, <2>12, <3>1
  <2> QED
    BY <2>11, <2>13
<1>5. CASE PutRaises(p)
  BY <1>0, <1>5, EntryFields, RegistryAssumption DEF PutRaises, Return, Outdated, Apart
<1>6. CASE IndexAppend(p)
  <2>0. PICK b \in Actions : b = bucket[p]
    BY <1>6 DEF IndexAppend
  <2> DEFINE e == entry[p]
  <2>1. /\ pc[p] = "append" /\ e \in Entries /\ b \in todo[p] /\ b \in e.capabilities
        /\ index' = [index EXCEPT ![p][b] = @ \cup {e}]
        /\ todo' = [todo EXCEPT ![p] = @ \ {b}]
        /\ bucket' = [bucket EXCEPT ![p] = Absent]
        /\ pc' = [pc EXCEPT ![p] = "filter"]
        /\ UNCHANGED <<store, entry, unread, current, apart, met>>
    BY <1>6, <2>0 DEF IndexAppend, TextsVetted, RegistrationOK
  <2>2. CASE q = p
    <3>1. Held(p, e.version, b) = {} /\ Held(p, e.version, b)' = {e} /\ e \in met[p]
      BY <1>0, <2>0, <2>1
    <3>2. ASSUME NEW v, NEW a \in Actions, v # e.version \/ a # b
          PROVE  Held(p, v, a)' = Held(p, v, a)
      BY <2>1, <3>2
    <3>3. bucket'[p] = Absent /\ todo'[p] = todo[p] \ {b} /\ pc'[p] = "filter"
          /\ entry'[p] = e /\ met'[p] = met[p]
      BY <2>1
    <3>4. \A v, a : Due(v, a)' = Due(v, a)
      BY <2>1
    <3>5. e.version \in current[p] => store[e.version] = e /\ Due(e.version, b)' = {e}
      BY <1>0, <2>1
    <3>6. ASSUME NEW v \in Versions, NEW a \in Actions
          PROVE  /\ \A x, y \in Held(p, v, a)' : x = y
                 /\ Held(p, v, a)' \subseteq {x \in met'[p] : a \in x.capabilities}
      <4>1. CASE v = e.version /\ a = b
        BY <2>1, <3>1, <3>3, <4>1
      <4>2. CASE v # e.version \/ a # b
        <5>1. Held(p, v, a)' = Held(p, v, a)
          BY <3>2, <4>2
        <5>2. /\ \A x, y \in Held(p, v, a) : x = y
              /\ Held(p, v, a) \subseteq {x \in met[p] : a \in x.capabilities}
          BY <1>0, <2>2
        <5> HIDE DEF Held
        <5> QED
          BY <3>3, <5>1, <5>2
      <4> QED
        BY <4>1, <4>2
    <3>7. ASSUME NEW v \in current'[p], NEW a \in Actions
          PROVE  IF v = e.version
                 THEN store'[v] = e /\ (a \notin todo'[p] => Due(v, a)' \subseteq Held(p, v, a)')
                 ELSE Due(v, a)' \subseteq Held(p, v, a)'
      <4>1. CASE v = e.version /\ a = b
        BY <2>1, <3>1, <3>5, <4>1
      <4>2. CASE v # e.version \/ a # b
        <5>1. v \in current[p] /\ store'[v] = store[v]
          BY <2>1
        <5> QED
          BY <1>0, <2>1, <3>2, <3>3, <3>4, <4>2, <5>1
      <4> QED
        BY <4>1, <4>2
    <3>8. pc'[p] # "load" /\ pc'[p] # "down" /\ pc'[p] # "append" /\ p \notin apart'
      BY <2>1
    <3> QED
      BY <2>2, <3>1, <3>3, <3>6, <3>7, <3>8
  <2>3. CASE q # p
    BY <1>0, <2>1, <2>3
  <2> QED
    BY <2>2, <2>3
<1>7. CASE Registered(p)
  BY <1>0, <1>7 DEF Registered, Return
<1>8. CASE Die(p)
  BY <1>0, <1>8, EmptyType DEF Die
<1>9. ASSUME NEW w \in Versions, Load(p, w) PROVE Goal
  <2>1. /\ pc[p] = "load" /\ w \in unread[p]
        /\ unread' = [unread EXCEPT ![p] = @ \ {w}]
        /\ current' = [current EXCEPT ![p] = @ \cup {w}]
        /\ met' = [met EXCEPT ![p] = @ \cup ({store[w]} \cap Entries)]
        /\ UNCHANGED <<store, pc, entry, todo, bucket, apart>>
    BY <1>9 DEF Load
  <2>2. CASE q = p
    <3>1. ASSUME NEW a \in Actions
          PROVE  Held(p, w, a)' = Due(w, a) /\ Due(w, a) \subseteq {e \in met'[p] : a \in e.capabilities}
      BY <1>0, <1>9, <2>1 DEF Load, TextsVetted
    <3>2. ASSUME NEW v \in Versions, v # w, NEW a \in Actions
          PROVE  Held(p, v, a)' = Held(p, v, a)
      BY <1>9, <3>2 DEF Load, TextsVetted
    <3>3. \A v, a : Due(v, a)' = Due(v, a)
      BY <2>1
    <3>4. p \notin apart /\ pc'[p] = "load" /\ unread'[p] \subseteq Versions
      BY <2>1
    <3>5. ASSUME NEW v \in current'[p], NEW a \in Actions
          PROVE  Due(v, a)' \subseteq Held(p, v, a)'
      <4>1. CASE v = w
        <5>1. Held(p, v, a)' = Due(v, a)
          BY <3>1, <4>1
        <5>2. Due(v, a)' = Due(v, a)
          BY <3>3
        <5> HIDE DEF Held, Due
        <5> QED
          BY <5>1, <5>2
      <4>2. CASE v # w
        <5>1. v \in current[p] /\ v \in Versions
          BY <2>1, <4>2
        <5>2. Due(v, a) \subseteq Held(p, v, a)
          BY <1>0, <2>1, <5>1
        <5>3. Held(p, v, a)' = Held(p, v, a) /\ Due(v, a)' = Due(v, a)
          BY <3>2, <3>3, <4>2, <5>1
        <5> HIDE DEF Held, Due
        <5> QED
          BY <5>2, <5>3
      <4> QED
        BY <4>1, <4>2
    <3>6. \A v \in unread'[p], a \in Actions : Held(p, v, a)' = {}
      BY <1>0, <2>1, <3>2, <3>4
    <3>7. ASSUME NEW v \in Versions, NEW a \in Actions
          PROVE  /\ \A e, f \in Held(p, v, a)' : e = f
                 /\ Held(p, v, a)' \subseteq {e \in met'[p] : a \in e.capabilities}
      <4>1. met[p] \subseteq met'[p]
        BY <2>1
      <4>0. /\ \A e, f \in Held(p, v, a) : e = f
            /\ Held(p, v, a) \subseteq {e \in met[p] : a \in e.capabilities}
        BY <1>0, <2>2
      <4>2. CASE v = w
        <5>1. Held(p, v, a)' = Due(w, a) /\ Due(w, a) \subseteq {e \in met'[p] : a \in e.capabilities}
          BY <3>1, <4>2
        <5>2. \A e, f \in Due(w, a) : e = f
          OBVIOUS
        <5> HIDE DEF Held, Due
        <5> QED
          BY <5>1, <5>2
      <4>3. CASE v # w
        <5>1. Held(p, v, a)' = Held(p, v, a)
          BY <3>2, <4>3
        <5> HIDE DEF Held
        <5> QED
          BY <4>0, <4>1, <5>1
      <4> QED
        BY <4>2, <4>3
    <3> QED
      BY <2>1, <2>2, <3>4, <3>5, <3>6, <3>7
  <2>3. CASE q # p
    BY <1>0, <1>9, <2>1, <2>3 DEF Load
  <2> QED
    BY <2>2, <2>3
<1>10. ASSUME NEW e \in Entries, Register(p, e) PROVE Goal
  BY <1>0, <1>10, EntryFields, RegistryAssumption DEF Register, Begin
<1>11. ASSUME NEW b \in Actions, IndexFilter(p, b) PROVE Goal
  <2>1. /\ pc[p] = "filter" /\ b \in todo[p]
        /\ index' = [index EXCEPT ![p][b] = {e \in @ : e.version # entry[p].version}]
        /\ bucket' = [bucket EXCEPT ![p] = b]
        /\ pc' = [pc EXCEPT ![p] = "append"]
        /\ UNCHANGED <<store, entry, todo, unread, current, apart, met>>
    BY <1>11 DEF IndexFilter
  <2>2. \A v \in Versions, a \in Actions : Held(q, v, a)' \subseteq Held(q, v, a)
    BY <2>1
  <2>3. CASE q = p
    <3>1. Held(p, entry[p].version, b)' = {}
      BY <2>1
    <3>2. \A v, a : Due(v, a)' = Due(v, a)
      BY <2>1
    <3>3. ASSUME NEW v, NEW a \in Actions, v # entry[p].version \/ a # b
          PROVE  Held(p, v, a)' = Held(p, v, a)
      BY <2>1, <3>3
    <3>4. ASSUME NEW v \in current'[p], NEW a \in Actions
          PROVE  IF v = entry[p].version
                 THEN store'[v] = entry[p] /\ (a \notin todo'[p] => Due(v, a)' \subseteq Held(p, v, a)')
                 ELSE Due(v, a)' \subseteq Held(p, v, a)'
      BY <1>0, <2>1, <3>2, <3>3
    <3> QED
      BY <1>0, <2>1, <2>2, <2>3, <3>1, <3>4
  <2>4. CASE q # p
    BY <1>0, <2>1, <2>4
  <2> QED
    BY <2>3, <2>4
<1> QED
  BY <1>1, <1>2, <1>3, <1>4, <1>5, <1>6, <1>7, <1>8, <1>9, <1>10, <1>11 DEF RegistryStep

LEMMA RegistryInitIndex == RegistryInit => IndexesInStep
BY EmptyType DEF RegistryInit, IndexesInStep, IndexInStep, OneText, Held, Due

----------------------------------------------------------------------------
(* The tasks: type correctness.                                               *)

Places == {"waiting", "ask", "execute", "judge", "tell", "done", "raised", "killed"}

LEMMA FindType ==
    ASSUME RegistryTypeOK, NEW t \in Tasks, NEW e \in Find(ProcessOf[t], ActionOf[t], ContextOf[t])
    PROVE  /\ e \in Entries /\ e \in index[ProcessOf[t]][ActionOf[t]]
           /\ ContextOf[t] \subseteq e.context
           /\ ProcessOf[t] \in Processes /\ ActionOf[t] \in Actions
BY AgentsAssumption DEF RegistryTypeOK, Find

LEMMA EventTypes ==
    /\ StartEvent \in Events /\ StartEvent.type = "start"
    /\ \A ref \in Evidence :
          EvidenceEvent(ref) \in Events /\ EvidenceEvent(ref).type = "evidence"
    /\ \A e \in Entries \cup {Absent}, s \in Status : ResultEvent(e, s) \in Events
BY EntryFields DEF StartEvent, EvidenceEvent, ResultEvent, Event, Events

LEMMA AttemptedType ==
    ASSUME TypeOK, NEW t \in Tasks, NEW e \in Entries \cup {Absent},
           NEW s \in Status, NEW list \in Seq(Evidence), Attempted(t, e, s, list)
    PROVE  /\ at' \in [Tasks -> Places] /\ found' \in [Tasks -> Entries \cup {Absent}]
           /\ status' \in [Tasks -> Status] /\ evidence' \in [Tasks -> Seq(Evidence)]
           /\ attempts' \in [Tasks -> Seq(Attempt)]
           /\ \A u \in Tasks : u # t => at'[u] = at[u] /\ found'[u] = found[u]
           /\ at'[t] \in {"judge", "tell"}
           /\ at'[t] = "judge" => Judgeable(t)
<1> DEFINE x == [entry |-> e, status |-> s, evidence |-> list]
<1>1. x \in Attempt
  BY DEF Attempt
<1>2. attempts' = [attempts EXCEPT ![t] = Append(@, x)]
  BY DEF Attempted
<1> HIDE DEF x
<1>3. attempts' \in [Tasks -> Seq(Attempt)]
  BY <1>1, <1>2 DEF TypeOK
<1> QED
  BY <1>3 DEF Attempted, Go, TypeOK, Places

LEMMA TellType ==
    ASSUME TypeOK, NEW t \in Tasks, NEW event \in Events,
           NEW place \in {"ask", "tell", "done"}, Tell(t, event, place)
    PROVE  /\ at' \in [Tasks -> Places] /\ log' \in [Tasks -> Seq(Events)]
           /\ \A u \in Tasks : at'[u] \in {"execute", "judge"} => at'[u] = at[u]
<1>1. CASE log' = [log EXCEPT ![t] = Append(@, event)] /\ Go(t, place)
  BY <1>1 DEF Go, TypeOK, Places
<1>2. CASE Go(t, "raised") /\ UNCHANGED log
  BY <1>2 DEF Go, TypeOK, Places
<1> QED
  BY <1>1, <1>2 DEF Tell

LEMMA AgentStepType ==
    ASSUME TypeOK, NEW t \in Tasks, AgentStep(t)
    PROVE  TypeOK'
<1>0. RegistryTypeOK'
  BY DEF AgentStep, vars, TypeOK, RegistryTypeOK
<1>1. CASE Start(t)
  BY <1>0, <1>1, TellType, EventTypes DEF Start, TypeOK, Places
<1>2. CASE Ask(t)
  <2>1. CASE Attempted(t, Absent, "failed", <<>>)
    <3>1. <<>> \in Seq(Evidence) /\ "failed" \in Status /\ Absent \in Entries \cup {Absent}
      BY DEF Status
    <3> QED
      BY <1>0, <1>2, <2>1, <3>1, AttemptedType DEF Ask, TypeOK, Places, Judgeable
  <2>2. ASSUME NEW e \in Find(ProcessOf[t], ActionOf[t], ContextOf[t]),
               found' = [found EXCEPT ![t] = e], Go(t, "execute"),
               UNCHANGED <<status, evidence, attempts>>
        PROVE  TypeOK'
    BY <1>0, <1>2, <2>2, FindType DEF Ask, Go, TypeOK
  <2> QED
    BY <1>2, <2>1, <2>2 DEF Ask
<1>3. CASE Execute(t)
  <2>1. ASSUME NEW s \in Status, NEW list \in Seq(Evidence), Attempted(t, found[t], s, list)
        PROVE  TypeOK'
    BY <1>0, <1>3, <2>1, AttemptedType DEF Execute, TypeOK, Places, Judgeable
  <2>2. /\ <<>> \in Seq(Evidence) /\ EvidenceLists \subseteq Seq(Evidence)
        /\ {"completed", "failed"} \subseteq Status
    BY AgentsAssumption DEF Status
  <2>3. CASE Go(t, "raised") /\ UNCHANGED <<found, status, evidence, attempts>>
    BY <1>0, <1>3, <2>3 DEF Execute, Go, TypeOK
  <2> QED
    BY <1>3, <2>1, <2>2, <2>3 DEF Execute
<1>4. CASE Judge(t)
  <2>1. retries[t] \in 0..MaxRetries /\ retries[t] < MaxRetries /\ MaxRetries \in Nat
    BY <1>4, AgentsAssumption DEF Judge, TypeOK
  <2>2. CASE retries' = [retries EXCEPT ![t] = @ + 1] /\ Go(t, "ask") /\ UNCHANGED <<status, evidence>>
    BY <1>0, <1>4, <2>1, <2>2 DEF Judge, Go, TypeOK
  <2>3. CASE \E place \in {"tell", "raised"} : Go(t, place) /\ UNCHANGED <<status, evidence, retries>>
    BY <1>0, <1>4, <2>3 DEF Judge, Go, TypeOK
  <2>4. CASE /\ status' = [status EXCEPT ![t] = "skipped"]
             /\ evidence' = [evidence EXCEPT ![t] = <<>>]
             /\ Go(t, "tell") /\ UNCHANGED retries
    BY <1>0, <1>4, <2>4 DEF Judge, Go, TypeOK, Status
  <2> QED
    BY <1>4, <2>2, <2>3, <2>4 DEF Judge
<1>5. CASE TellEvidence(t)
  <2>1. Head(evidence[t]) \in Evidence /\ Tail(evidence[t]) \in Seq(Evidence)
    BY <1>5, HeadTailProperties DEF TellEvidence, TypeOK
  <2> QED
    BY <1>0, <1>5, <2>1, TellType, EventTypes DEF TellEvidence, TypeOK, Places
<1>6. CASE TellResult(t)
  <2>1. found[t] \in Entries \cup {Absent} /\ status[t] \in Status
    BY DEF TypeOK
  <2> QED
    BY <1>0, <1>6, <2>1, TellType, EventTypes DEF TellResult, TypeOK, Places
<1> QED
  BY <1>1, <1>2, <1>3, <1>4, <1>5, <1>6 DEF AgentStep

(* A step of the registry, seen from the tasks.                               *)
LEMMA RegistrySeen ==
    ASSUME TypeOK, RegistrySteps
    PROVE  /\ \E p \in Processes : RegistryStep(p)
           /\ at' \in [Tasks -> Places]
           /\ \A t \in Tasks : at'[t] # at[t] => at[t] \in Live /\ at'[t] = "killed"
           /\ UNCHANGED <<found, status, evidence, retries, log, attempts>>
BY DEF RegistrySteps, RegistryNext, TypeOK, Places, Live

LEMMA NextType ==
    ASSUME TypeOK, [Next]_<<vars, agents>>
    PROVE  TypeOK'
<1>1. CASE RegistrySteps
  <2>1. RegistryTypeOK'
    BY <1>1, RegistrySeen, RegistryStepType DEF TypeOK
  <2> QED
    BY <1>1, <2>1, RegistrySeen DEF TypeOK, Places, Live
<1>2. CASE UNCHANGED <<vars, agents>>
  BY <1>2 DEF vars, agents, TypeOK, RegistryTypeOK
<1> QED
  BY <1>1, <1>2, AgentStepType DEF Next

(* Type correctness, whatever dies, is registered or fails to be written        *)
(* (registry.py, agents.py, events.py).                                       *)
THEOREM TypeCorrect == Spec => []TypeOK
<1>1. Init => TypeOK
  BY RegistryInitType, AgentsAssumption DEF Init, TypeOK, Status
<1>2. TypeOK /\ [Next]_<<vars, agents>> => TypeOK'
  BY NextType
<1> QED
  BY <1>1, <1>2, PTL DEF Spec

----------------------------------------------------------------------------
(* What tasks run is vetted.                                                  *)

LEMMA NextTexts ==
    ASSUME TypeOK, TextsVetted, [Next]_<<vars, agents>>
    PROVE  TextsVetted' /\ accepted \subseteq accepted' /\ stored \subseteq stored'
<1>1. CASE RegistrySteps
  BY <1>1, RegistrySeen, RegistryStepVetted DEF TypeOK
<1>2. CASE UNCHANGED vars
  BY <1>2 DEF vars, TextsVetted, Vetted, RegistrationOK
<1> QED
  BY <1>1, <1>2 DEF Next, AgentStep

(* Every text is vetted on its way from the request to the index               *)
(* (registry.py:56-131).                                                      *)
THEOREM Texts == Spec => []TextsVetted
<1>1. Init => TextsVetted
  BY RegistryInitVetted DEF Init
<1>2. TypeOK /\ TextsVetted /\ [Next]_<<vars, agents>> => TextsVetted'
  BY NextTexts
<1> QED
  BY <1>1, <1>2, TypeCorrect, PTL DEF Spec

LEMMA FoundFits ==
    ASSUME TypeOK, TextsVetted, NEW t \in Tasks,
           NEW e \in Find(ProcessOf[t], ActionOf[t], ContextOf[t]),
           AdapterOf[e.version] \in Instances
    PROVE  Fit(t, e)
BY FindType DEF TypeOK, TextsVetted, Vetted, Fit

LEMMA AttemptedVetted ==
    ASSUME TypeOK, TasksVetted, TextsVetted', NEW t \in Tasks, NEW e \in Entries \cup {Absent},
           NEW s, NEW list, Attempted(t, e, s, list), e # Absent => Fit(t, e), UNCHANGED vars
    PROVE  TasksVetted'
<1> DEFINE x == [entry |-> e, status |-> s, evidence |-> list]
<1>1. /\ attempts' = [attempts EXCEPT ![t] = Append(@, x)] /\ x.entry = e
      /\ \A u \in Tasks : at'[u] = "execute" => at[u] = "execute" /\ u # t
      /\ \A u \in Tasks : u # t => found'[u] = found[u]
  BY DEF Attempted, Go, TypeOK
<1>2. UNCHANGED <<accepted, stored>>
  BY DEF vars
<1>3. attempts[t] \in Seq(Attempt)
  BY DEF TypeOK
<1> HIDE DEF x
<1>4. \A k \in DOMAIN Append(attempts[t], x) :
         Append(attempts[t], x)[k] # x =>
             k \in DOMAIN attempts[t] /\ Append(attempts[t], x)[k] = attempts[t][k]
  BY <1>3
<1>5. ASSUME NEW u \in Tasks, NEW k \in DOMAIN attempts'[u], attempts'[u][k].entry # Absent
      PROVE  Fit(u, attempts'[u][k].entry)
  <2>1. CASE u = t
    BY <1>1, <1>4, <1>5, <2>1 DEF TasksVetted, OnlyVetted, TypeOK
  <2>2. CASE u # t
    BY <1>1, <1>5, <2>2 DEF TasksVetted, OnlyVetted, TypeOK
  <2> QED
    BY <2>1, <2>2
<1>6. \A u \in Tasks : at'[u] = "execute" => Fit(u, found'[u])
  BY <1>1 DEF TasksVetted
<1> QED
  BY <1>2, <1>5, <1>6 DEF TasksVetted, OnlyVetted, TextsVetted, Fit

LEMMA AgentStepVetted ==
    ASSUME TypeOK, TextsVetted, TextsVetted', TasksVetted, NEW t \in Tasks, AgentStep(t)
    PROVE  TasksVetted'
<1>0. UNCHANGED vars
  BY DEF AgentStep
<1>1. ASSUME UNCHANGED attempts,
             \A u \in Tasks : at'[u] = "execute" => Fit(u, found'[u])
      PROVE  TasksVetted'
  BY <1>0, <1>1 DEF TasksVetted, OnlyVetted, TextsVetted, Fit, vars
<1>2. CASE Start(t) \/ TellEvidence(t) \/ TellResult(t) \/ Judge(t)
  <2>1. UNCHANGED <<attempts, found>>
        /\ \A u \in Tasks : at'[u] = "execute" => at[u] = "execute"
    BY <1>2 DEF Start, TellEvidence, TellResult, Judge, Tell, Go, TypeOK
  <2> QED
    BY <1>1, <2>1 DEF TasksVetted
<1>3. CASE Ask(t)
  <2>1. CASE Attempted(t, Absent, "failed", <<>>)
    BY <1>0, <2>1, AttemptedVetted
  <2>2. ASSUME NEW e \in Find(ProcessOf[t], ActionOf[t], ContextOf[t]),
               AdapterOf[e.version] \in Instances,
               found' = [found EXCEPT ![t] = e], Go(t, "execute"), UNCHANGED attempts
        PROVE  TasksVetted'
    <3>1. Fit(t, e)
      BY <2>2, FoundFits
    <3>2. found'[t] = e /\ \A u \in Tasks : u # t => found'[u] = found[u] /\ at'[u] = at[u]
      BY <2>2 DEF Go, TypeOK
    <3> QED
      BY <1>1, <2>2, <3>1, <3>2 DEF TasksVetted
  <2> QED
    BY <1>3, <2>1, <2>2 DEF Ask
<1>4. CASE Execute(t)
  <2>1. Fit(t, found[t]) /\ found[t] \in Entries \cup {Absent}
    BY <1>4 DEF Execute, TasksVetted, TypeOK
  <2>2. CASE Go(t, "raised") /\ UNCHANGED <<found, status, evidence, attempts>>
    BY <1>1, <2>2 DEF TasksVetted, Go, TypeOK
  <2> QED
    BY <1>0, <1>4, <2>1, <2>2, AttemptedVetted DEF Execute
<1> QED
  BY <1>2, <1>3, <1>4 DEF AgentStep

LEMMA NextVetted ==
    ASSUME TypeOK, TextsVetted, TasksVetted, [Next]_<<vars, agents>>
    PROVE  TasksVetted'
<1>1. CASE RegistrySteps
  <2>1. UNCHANGED <<attempts, found>>
        /\ \A u \in Tasks : at'[u] = "execute" => at[u] = "execute"
    BY <1>1, RegistrySeen DEF Live
  <2> QED
    BY <2>1, NextTexts DEF TasksVetted, OnlyVetted, TextsVetted, Fit
<1>2. CASE UNCHANGED <<vars, agents>>
  BY <1>2, NextTexts DEF vars, agents, TasksVetted, OnlyVetted, TextsVetted, Fit
<1> QED
  BY <1>1, <1>2, NextTexts, AgentStepVetted DEF Next

(* An adapter runs for a task only if its registration was accepted and put     *)
(* without error, claims the action, is for the context and has an instance, at the     *)
(* lookup and still when it runs (registry.py:102-156, agents.py:80-113).       *)
THEOREM Vetting == Spec => []OnlyVetted
<1>1. Init => TasksVetted
  BY RegistryInitVetted DEF Init, TasksVetted, OnlyVetted, TextsVetted
<1>2. TypeOK /\ TextsVetted /\ TasksVetted /\ [Next]_<<vars, agents>> => TasksVetted'
  BY NextVetted
<1>3. TasksVetted => OnlyVetted
  BY DEF TasksVetted
<1> QED
  BY <1>1, <1>2, <1>3, TypeCorrect, Texts, PTL DEF Spec

(* Of a version that it read, or put while nobody else wrote its file, and that  *)
(* nobody else has written since, a process that is not registering finds the   *)
(* text the store holds under every action it claims; and never two texts of a   *)
(* version under an action, nor one it has not read or put itself; whatever puts *)
(* overlap, fail or change the capabilities (registry.py:1-8, 87-99, 118-124).   *)
THEOREM IndexFollows == Spec => []IndexFollowsStore
<1>1. Init => IndexesInStep
  BY RegistryInitIndex DEF Init
<1>2. TypeOK /\ TextsVetted /\ IndexesInStep /\ [Next]_<<vars, agents>> => IndexesInStep'
  <2> SUFFICES ASSUME TypeOK, TextsVetted, IndexesInStep, [Next]_<<vars, agents>>
               PROVE  IndexesInStep'
    OBVIOUS
  <2>1. CASE RegistrySteps
    BY <2>1, RegistrySeen, RegistryStepIndex DEF TypeOK
  <2>2. CASE UNCHANGED vars
    BY <2>2 DEF vars, IndexesInStep, IndexInStep, OneText, Held, Due
  <2> QED
    BY <2>1, <2>2 DEF Next, AgentStep
<1>3. IndexesInStep => IndexFollowsStore
  BY DEF IndexesInStep, IndexInStep, IndexFollowsStore
<1> QED
  BY <1>1, <1>2, <1>3, TypeCorrect, Texts, PTL DEF Spec

----------------------------------------------------------------------------
(* What the events tell.                                                      *)

LEMMA ToldType ==
    ASSUME NEW list \in Seq(Evidence)
    PROVE  /\ Told(list) \in Seq(Events) /\ Len(Told(list)) = Len(list)
           /\ \A k \in 1..Len(list) : Told(list)[k] = EvidenceEvent(list[k])
<1>1. \A k \in 1..Len(list) : EvidenceEvent(list[k]) \in Events
  BY EventTypes
<1> QED
  BY <1>1 DEF Told

LEMMA ToldNothing == Told(<<>>) = <<>>
BY DEF Told

(* Telling of one piece of evidence takes it from what there is to tell to what  *)
(* is told.                                                                   *)
LEMMA ToldNext ==
    ASSUME NEW l \in Seq(Events), NEW list \in Seq(Evidence), list # <<>>
    PROVE  Append(l, EvidenceEvent(Head(list))) \o Told(Tail(list)) = l \o Told(list)
<1> DEFINE e == EvidenceEvent(Head(list))
           T == Tail(list)
<1>1. /\ T \in Seq(Evidence) /\ Len(T) = Len(list) - 1 /\ Len(list) \in Nat \ {0}
      /\ \A k \in 1..Len(T) : T[k] = list[k + 1]
      /\ Head(list) = list[1]
  BY HeadTailProperties, EmptySeq
<1>2. e \in Events /\ e = EvidenceEvent(list[1])
  BY <1>1, EventTypes
<1> HIDE DEF e, T
<1>3. /\ Told(T) \in Seq(Events) /\ Len(Told(T)) = Len(T)
      /\ \A k \in 1..Len(T) : Told(T)[k] = EvidenceEvent(T[k])
  BY <1>1, ToldType
<1>4. /\ Told(list) \in Seq(Events) /\ Len(Told(list)) = Len(list)
      /\ \A k \in 1..Len(list) : Told(list)[k] = EvidenceEvent(list[k])
  BY ToldType
<1>5. <<e>> \in Seq(Events) /\ Len(<<e>>) = 1 /\ <<e>>[1] = e
  BY <1>2
<1>6. <<e>> \o Told(T) = Told(list)
  <2>1. /\ <<e>> \o Told(T) \in Seq(Events) /\ Len(<<e>> \o Told(T)) = Len(list)
        /\ \A k \in 1..Len(list) :
               (<<e>> \o Told(T))[k] = IF k <= 1 THEN e ELSE Told(T)[k - 1]
    <3>1. /\ <<e>> \o Told(T) \in Seq(Events)
          /\ Len(<<e>> \o Told(T)) = Len(<<e>>) + Len(Told(T))
          /\ \A k \in 1..Len(<<e>>) + Len(Told(T)) : (<<e>> \o Told(T))[k] =
                 IF k <= Len(<<e>>) THEN <<e>>[k] ELSE Told(T)[k - Len(<<e>>)]
      BY <1>3, <1>5, ConcatProperties
    <3>2. Len(<<e>>) + Len(Told(T)) = Len(list)
      BY <1>1, <1>3, <1>5
    <3>3. \A k \in 1..Len(list) : k <= 1 => k = 1
      BY <1>1
    <3> QED
      BY <1>5, <3>1, <3>2, <3>3
  <2>2. ASSUME NEW k \in 1..Len(list), k > 1
        PROVE  k - 1 \in 1..Len(T) /\ (k - 1) + 1 = k
    BY <1>1, <2>2
  <2>3. ASSUME NEW k \in 1..Len(list) PROVE (<<e>> \o Told(T))[k] = Told(list)[k]
    <3>1. CASE k > 1
      BY <1>1, <1>3, <1>4, <2>1, <2>2, <3>1
    <3>2. CASE k = 1
      BY <1>2, <1>4, <2>1, <3>2
    <3>3. Len(list) \in Nat
      BY <1>1
    <3>4. k = 1 \/ k > 1
      BY <3>3
    <3> QED
      BY <3>1, <3>2, <3>4
  <2> QED
    BY <1>4, <2>1, <2>3, SeqEqual
<1>7. Append(l, e) = l \o <<e>>
  BY <1>2, AppendIsConcat
<1>8. (l \o <<e>>) \o Told(T) = l \o (<<e>> \o Told(T))
  BY <1>3, <1>5, ConcatAssociative
<1> QED
  BY <1>6, <1>7, <1>8 DEF e, T

(* A task that is left alone, and one that is killed or raises.                 *)
LEMMA LeftAlone ==
    ASSUME TypeOK, NEW u \in Tasks, TaskOK(u),
           /\ found'[u] = found[u] /\ status'[u] = status[u] /\ evidence'[u] = evidence[u]
           /\ retries'[u] = retries[u] /\ log'[u] = log[u] /\ attempts'[u] = attempts[u],
           at'[u] # at[u] => at'[u] \in {"raised", "killed"} /\ at[u] # "done"
    PROVE  TaskOK(u)'
BY DEF TaskOK, OfLast, Last, Shown, Told, ResultEvent, StartEvent, EvidenceEvent, Event

(* An attempt that fails on a judged task is judged, any other is told of.      *)
LEMMA AttemptedTold ==
    ASSUME TypeOK, NEW t \in Tasks, TaskOK(t), at[t] \in {"ask", "execute"},
           NEW e \in Entries \cup {Absent}, NEW s \in {"completed", "failed"},
           NEW list \in Seq(Evidence), Attempted(t, e, s, list), UNCHANGED <<retries, log>>
    PROVE  TaskOK(t)'
<1> DEFINE x == [entry |-> e, status |-> s, evidence |-> list]
           n == Len(attempts[t])
<1>1. attempts[t] \in Seq(Attempt) /\ x \in Attempt /\ n \in Nat
  <2>1. s \in Status
    BY DEF Status
  <2>2. x \in Attempt
    BY <2>1 DEF Attempt
  <2> HIDE DEF x
  <2> QED
    BY <2>2 DEF TypeOK
<1>2. /\ attempts'[t] = Append(attempts[t], x) /\ found'[t] = e /\ status'[t] = s
      /\ evidence'[t] = list /\ at'[t] \in {"judge", "tell"}
      /\ at'[t] = "judge" => s = "failed"
      /\ log'[t] = log[t] /\ retries'[t] = retries[t]
  BY DEF Attempted, Go, TypeOK
<1>3. x.entry = e /\ x.status = s /\ x.evidence = list
  OBVIOUS
<1> HIDE DEF x
<1>4. /\ Len(attempts'[t]) = n + 1 /\ attempts'[t][n + 1] = x /\ n = retries[t]
      /\ \A k \in 1..n : attempts'[t][k] = attempts[t][k]
  BY <1>1, <1>2 DEF TaskOK
<1>5. \A k \in 1..n : attempts[t][k].status = "failed"
  BY <1>1 DEF TaskOK, Last
<1>6. Last(t)' = x /\ s # "skipped" /\ Shown(t)' = list /\ OfLast(t)'
  BY <1>2, <1>3, <1>4 DEF Last, Shown, OfLast
<1>7. /\ log[t] = <<StartEvent>> /\ log'[t] = <<StartEvent>>
      /\ \A k \in DOMAIN log'[t] : log'[t][k].type # "result"
  BY <1>2 DEF TaskOK
<1>8. at'[t] = "tell" =>
         log'[t] \o Told(evidence'[t]) = <<StartEvent>> \o Told(Shown(t)')
  BY <1>2, <1>6, <1>7
<1>9. \A k \in 1..Len(attempts'[t]) - 1 : attempts'[t][k].status = "failed"
  <2>1. Len(attempts'[t]) - 1 = n
    BY <1>1, <1>4
  <2> QED
    BY <1>4, <1>5, <2>1
<1>10. Len(attempts'[t]) <= retries'[t] + 1
  BY <1>1, <1>2, <1>4
<1>11. at'[t] = "judge" =>
          status'[t] = "failed" /\ evidence'[t] = Last(t)'.evidence /\ Last(t)'.status = "failed"
  BY <1>2, <1>3, <1>6
<1> QED
  BY <1>2, <1>6, <1>7, <1>8, <1>9, <1>10, <1>11
  DEF TaskOK, Told, StartEvent, EvidenceEvent, ResultEvent, Event

(* Events told so far hold no result: one more that is none, or none told.      *)
LEMMA NoResultYet ==
    ASSUME TypeOK, NEW t \in Tasks, TaskOK(t), at[t] # "done",
           NEW event \in Events, event.type # "result",
           log'[t] = Append(log[t], event)
    PROVE  \A k \in DOMAIN log'[t] : log'[t][k].type # "result"
<1>1. log[t] \in Seq(Events)
  BY DEF TypeOK
<1>2. /\ log'[t] \in Seq(Events) /\ Len(log'[t]) = Len(log[t]) + 1
      /\ \A k \in 1..Len(log[t]) : log'[t][k] = log[t][k]
      /\ log'[t][Len(log[t]) + 1] = event
  BY <1>1, AppendProperties
<1> QED
  BY <1>1, <1>2 DEF TaskOK

LEMMA AgentStepTold ==
    ASSUME TypeOK, TypeOK', NEW t \in Tasks, TaskOK(t), AgentStep(t)
    PROVE  TaskOK(t)'
<1>0. /\ log[t] \in Seq(Events) /\ evidence[t] \in Seq(Evidence) /\ attempts[t] \in Seq(Attempt)
      /\ retries[t] \in Nat /\ found[t] \in Entries \cup {Absent} /\ status[t] \in Status
  BY AgentsAssumption DEF TypeOK
<1>1. CASE Start(t)
  <2>1. CASE log' = [log EXCEPT ![t] = Append(@, StartEvent)] /\ Go(t, "ask")
    <3>1. log'[t] = <<StartEvent>> /\ log'[t] = Append(log[t], StartEvent) /\ at'[t] = "ask"
      BY <1>1, <2>1 DEF Start, Go, TypeOK, TaskOK
    <3>2. \A k \in DOMAIN log'[t] : log'[t][k].type # "result"
      BY <1>1, <3>1, EventTypes, NoResultYet DEF Start
    <3>3. attempts[t] = <<>> /\ retries'[t] = retries[t] /\ attempts'[t] = attempts[t]
      BY <1>1 DEF Start, TaskOK
    <3> QED
      BY <1>0, <1>1, <3>1, <3>2, <3>3 DEF Start, TaskOK, StartEvent, Event
  <2>2. CASE Go(t, "raised") /\ UNCHANGED log
    BY <1>1, <2>2, LeftAlone DEF Start, Go, TypeOK
  <2> QED
    BY <1>1, <2>1, <2>2 DEF Start, Tell
<1>2. CASE Ask(t)
  <2>1. CASE Attempted(t, Absent, "failed", <<>>)
    <3>1. <<>> \in Seq(Evidence) /\ Absent \in Entries \cup {Absent}
      OBVIOUS
    <3> QED
      BY <1>2, <2>1, <3>1, AttemptedTold DEF Ask
  <2>2. CASE Go(t, "execute") /\ UNCHANGED <<status, evidence, attempts>>
    <3>1. /\ at[t] = "ask" /\ at'[t] = "execute" /\ retries'[t] = retries[t]
          /\ log'[t] = log[t] /\ attempts'[t] = attempts[t] /\ Last(t)' = Last(t)
      BY <1>2, <2>2 DEF Ask, Go, TypeOK, Last
    <3> QED
      BY <3>1 DEF TaskOK, StartEvent, Event
  <2> QED
    BY <1>2, <2>1, <2>2 DEF Ask
<1>3. CASE Execute(t)
  <2>1. /\ <<>> \in Seq(Evidence) /\ EvidenceLists \subseteq Seq(Evidence)
    BY AgentsAssumption
  <2>2. CASE Go(t, "raised") /\ UNCHANGED <<found, status, evidence, attempts>>
    BY <1>3, <2>2, LeftAlone DEF Execute, Go, TypeOK
  <2> QED
    BY <1>0, <1>3, <2>1, <2>2, AttemptedTold DEF Execute
<1>4. CASE Judge(t)
  <2>0. /\ at[t] = "judge" /\ log'[t] = log[t] /\ attempts'[t] = attempts[t]
        /\ found'[t] = found[t] /\ Last(t)' = Last(t)
        /\ \A k \in DOMAIN log'[t] : log'[t][k].type # "result"
        /\ log[t] = <<StartEvent>> /\ OfLast(t) /\ Last(t).status = "failed"
        /\ status[t] = "failed" /\ evidence[t] = Last(t).evidence
        /\ attempts[t] # <<>>
        /\ \A k \in 1..Len(attempts[t]) - 1 : attempts[t][k].status = "failed"
    BY <1>0, <1>4 DEF Judge, TaskOK, Last, OfLast
  <2>1. CASE retries' = [retries EXCEPT ![t] = @ + 1] /\ Go(t, "ask")
    <3>1. retries'[t] = retries[t] + 1 /\ at'[t] = "ask"
      BY <2>1 DEF Go, TypeOK
    <3>2. Len(attempts'[t]) = retries'[t] /\ Len(attempts'[t]) <= retries'[t] + 1
      BY <1>0, <2>0, <3>1 DEF OfLast
    <3>3. /\ \A k \in 1..Len(attempts'[t]) - 1 : attempts'[t][k].status = "failed"
          /\ log'[t] = <<StartEvent>> /\ Last(t)'.status = "failed"
      BY <2>0
    <3> QED
      BY <2>0, <3>1, <3>2, <3>3 DEF TaskOK, StartEvent, Event
  <2>2. CASE Go(t, "tell") /\ UNCHANGED <<status, evidence, retries>>
    <3>1. /\ at'[t] = "tell" /\ retries'[t] = retries[t] /\ status'[t] = status[t]
          /\ evidence'[t] = evidence[t] /\ Shown(t)' = evidence'[t]
      BY <2>0, <2>2 DEF Go, TypeOK, Shown
    <3> QED
      BY <1>0, <2>0, <3>1 DEF TaskOK, OfLast, StartEvent, EvidenceEvent, Told, Event
  <2>3. CASE /\ status' = [status EXCEPT ![t] = "skipped"]
             /\ evidence' = [evidence EXCEPT ![t] = <<>>]
             /\ Go(t, "tell") /\ UNCHANGED retries
    <3>1. /\ at'[t] = "tell" /\ retries'[t] = retries[t] /\ status'[t] = "skipped"
          /\ evidence'[t] = <<>> /\ Shown(t)' = <<>>
      BY <2>3 DEF Go, TypeOK, Shown
    <3> QED
      BY <1>0, <2>0, <3>1 DEF TaskOK, OfLast, StartEvent, EvidenceEvent, Told, Event
  <2>4. CASE Go(t, "raised") /\ UNCHANGED <<status, evidence, retries>>
    BY <2>0, <2>4, LeftAlone DEF Go, TypeOK
  <2> QED
    BY <1>4, <2>1, <2>2, <2>3, <2>4 DEF Judge
<1>5. CASE TellEvidence(t)
  <2> DEFINE e == EvidenceEvent(Head(evidence[t]))
  <2>1. /\ at[t] = "tell" /\ evidence[t] # <<>> /\ evidence'[t] = Tail(evidence[t])
        /\ found'[t] = found[t] /\ status'[t] = status[t] /\ retries'[t] = retries[t]
        /\ attempts'[t] = attempts[t] /\ Last(t)' = Last(t) /\ Shown(t)' = Shown(t)
    BY <1>5 DEF TellEvidence, TypeOK, Last, Shown
  <2>2. e \in Events /\ e.type # "result"
    BY <1>0, <2>1, HeadTailProperties, EventTypes
  <2>3. CASE log' = [log EXCEPT ![t] = Append(@, e)] /\ Go(t, "tell")
    <3>1. log'[t] = Append(log[t], e) /\ at'[t] = "tell"
      BY <2>3 DEF Go, TypeOK
    <3>2. \A k \in DOMAIN log'[t] : log'[t][k].type # "result"
      BY <2>1, <2>2, <3>1, NoResultYet
    <3>3. log'[t] \o Told(evidence'[t]) = <<StartEvent>> \o Told(Shown(t)')
      BY <1>0, <2>1, <3>1, ToldNext DEF TaskOK
    <3> QED
      BY <2>1, <3>1, <3>2, <3>3
      DEF TaskOK, OfLast, StartEvent, EvidenceEvent, Told, Event
  <2>4. CASE Go(t, "raised") /\ UNCHANGED log
    <3>1. at'[t] = "raised" /\ log'[t] = log[t]
      BY <2>4 DEF Go, TypeOK
    <3> QED
      BY <2>1, <3>1 DEF TaskOK
  <2> QED
    BY <1>5, <2>3, <2>4 DEF TellEvidence, Tell
<1>6. CASE TellResult(t)
  <2> DEFINE r == ResultEvent(found[t], status[t])
  <2>1. /\ at[t] = "tell" /\ evidence[t] = <<>> /\ evidence'[t] = evidence[t]
        /\ found'[t] = found[t] /\ status'[t] = status[t] /\ retries'[t] = retries[t]
        /\ attempts'[t] = attempts[t] /\ Last(t)' = Last(t) /\ Shown(t)' = Shown(t)
    BY <1>6 DEF TellResult, TypeOK, Last, Shown
  <2>2. r \in Events
    BY <1>0, EventTypes
  <2>3. CASE log' = [log EXCEPT ![t] = Append(@, r)] /\ Go(t, "done")
    <3>1. log'[t] = Append(log[t], r) /\ at'[t] = "done"
      BY <2>3 DEF Go, TypeOK
    <3>2. log[t] = <<StartEvent>> \o Told(Shown(t))
      <4>1. log[t] \o Told(evidence[t]) = <<StartEvent>> \o Told(Shown(t))
        BY <2>1 DEF TaskOK
      <4>2. Told(evidence[t]) = <<>>
        BY <2>1, ToldNothing
      <4>3. log[t] \o <<>> = log[t]
        BY <1>0, ConcatEmptySeq
      <4> QED
        BY <4>1, <4>2, <4>3
    <3>3. log'[t] = <<StartEvent>> \o Told(Shown(t)) \o <<r>>
      BY <1>0, <2>2, <3>1, <3>2, AppendIsConcat
    <3> QED
      BY <2>1, <3>1, <3>3
      DEF TaskOK, OfLast, StartEvent, EvidenceEvent, ResultEvent, Told, Event
  <2>4. CASE Go(t, "raised") /\ UNCHANGED log
    <3>1. at'[t] = "raised" /\ log'[t] = log[t]
      BY <2>4 DEF Go, TypeOK
    <3> QED
      BY <2>1, <3>1 DEF TaskOK
  <2> QED
    BY <1>6, <2>3, <2>4 DEF TellResult, Tell
<1> QED
  BY <1>1, <1>2, <1>3, <1>4, <1>5, <1>6 DEF AgentStep

(* A step of a task leaves the others alone.                                  *)
LEMMA OthersAlone ==
    ASSUME TypeOK, NEW t \in Tasks, AgentStep(t), NEW u \in Tasks, u # t
    PROVE  /\ at'[u] = at[u] /\ found'[u] = found[u] /\ status'[u] = status[u]
           /\ evidence'[u] = evidence[u] /\ retries'[u] = retries[u] /\ log'[u] = log[u]
           /\ attempts'[u] = attempts[u]
<1>1. CASE Start(t) \/ TellEvidence(t) \/ TellResult(t)
  BY <1>1 DEF Start, TellEvidence, TellResult, Tell, Go, TypeOK
<1>2. CASE Ask(t)
  BY <1>2 DEF Ask, Attempted, Go, TypeOK
<1>3. CASE Execute(t)
  BY <1>3 DEF Execute, Attempted, Go, TypeOK
<1>4. CASE Judge(t)
  BY <1>4 DEF Judge, Go, TypeOK
<1> QED
  BY <1>1, <1>2, <1>3, <1>4 DEF AgentStep

LEMMA NextTold ==
    ASSUME TypeOK, TypeOK', TasksInOrder, [Next]_<<vars, agents>>
    PROVE  TasksInOrder'
<1> SUFFICES ASSUME NEW u \in Tasks PROVE TaskOK(u)'
  BY DEF TasksInOrder
<1>0. TaskOK(u)
  BY DEF TasksInOrder
<1>1. CASE RegistrySteps
  <2>1. /\ found'[u] = found[u] /\ status'[u] = status[u] /\ evidence'[u] = evidence[u]
        /\ retries'[u] = retries[u] /\ log'[u] = log[u] /\ attempts'[u] = attempts[u]
    BY <1>1 DEF RegistrySteps
  <2>2. at'[u] # at[u] => at'[u] \in {"raised", "killed"} /\ at[u] # "done"
    BY <1>1 DEF RegistrySteps, Live
  <2> QED
    BY <1>0, <2>1, <2>2, LeftAlone
<1>2. ASSUME NEW t \in Tasks, AgentStep(t) PROVE TaskOK(u)'
  <2>1. CASE u = t
    BY <1>0, <1>2, <2>1, AgentStepTold
  <2>2. CASE u # t
    BY <1>0, <1>2, <2>2, OthersAlone, LeftAlone
  <2> QED
    BY <2>1, <2>2
<1>3. CASE UNCHANGED <<vars, agents>>
  BY <1>0, <1>3, LeftAlone DEF agents
<1> QED
  BY <1>1, <1>2, <1>3 DEF Next

(* The events of a task tell what happened: its start, the evidence and the      *)
(* status of its last attempt, once, and nothing of a result it has not come to;  *)
(* what succeeded is not tried again, nor anything more often than allowed      *)
(* (agents.py:165-204, events.py:141-167, 192-213).                             *)
THEOREM Telling == Spec => []ToldAsItWent
<1>1. Init => TasksInOrder
  BY DEF Init, TasksInOrder, TaskOK
<1>2. TypeOK /\ TypeOK' /\ TasksInOrder /\ [Next]_<<vars, agents>> => TasksInOrder'
  BY NextTold
<1>3. TypeOK /\ TasksInOrder => ToldAsItWent
  <2> SUFFICES ASSUME TypeOK, TasksInOrder, NEW t \in Tasks
               PROVE  /\ Len(attempts[t]) <= MaxRetries + 1
                      /\ TaskOK(t)
                      /\ at[t] = "done" => found[t] = Last(t).entry
    BY DEF ToldAsItWent, TasksInOrder, TaskOK
  <2>1. TaskOK(t)
    BY DEF TasksInOrder
  <2>2. Len(attempts[t]) \in Nat /\ retries[t] \in 0..MaxRetries /\ MaxRetries \in Nat
    BY AgentsAssumption DEF TypeOK
  <2>3. Len(attempts[t]) <= MaxRetries + 1
    BY <2>1, <2>2 DEF TaskOK
  <2> QED
    BY <2>1, <2>3 DEF TaskOK, OfLast
<1> QED
  BY <1>1, <1>2, <1>3, TypeCorrect, PTL DEF Spec
=============================================================================
