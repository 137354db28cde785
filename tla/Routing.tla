-------------------------------- MODULE Routing --------------------------------
(****************************************************************************)
(* The routing engine and its circuit breaker (src/routing.py) and the        *)
(* dispatch of lifecycle events (src/lifecycle.py).                           *)
(*                                                                          *)
(* Several threads may share an engine.  The breaker has no lock, so its two   *)
(* dictionaries are read and written one access at a time.  What an adapter    *)
(* answers is nondeterministic; of an answer only its length matters, and      *)
(* only to the consensus.  Time is an age of every open circuit.              *)
(****************************************************************************)
EXTENDS Integers, Sequences, FiniteSets

CONSTANTS
    Callers,      \* threads
    Adapters,
    Provider,     \* [Adapters -> providers]: two adapters may share one
    Cost,         \* [Adapters -> Nat]: cost_estimate
    Chains,       \* the lists of adapters each caller passes
    Tiers,        \* min_tier, 0 for none
    Percents,     \* the consensus threshold, in percent
    Lengths,      \* of answers
    Bindings,     \* of the binder: [event, type, names], in order
    MostNames,    \* that a binding has
    Events, Types,
    Uses,         \* what each caller calls: sets of [Callers -> Strategies]
    MaxFailures, ResetAfter,
    Closed        \* a circuit without an entry in _open_since

Strategies ==
    {"fallback", "cost_aware", "pipeline", "parallel_consensus", "bound", "none"}

Providers == {Provider[a] : a \in Adapters}

ASSUME ConstantsAssumption ==
    /\ Cost \in [Adapters -> Nat] /\ Tiers \subseteq Nat /\ Percents \subseteq 0..100
    /\ \A c \in Callers : Chains[c] \subseteq Seq(Adapters)
    /\ Lengths \subseteq Nat
    /\ DOMAIN Bindings \subseteq Nat /\ MostNames \in Nat
    /\ \A k \in DOMAIN Bindings : DOMAIN Bindings[k].names \subseteq 1..MostNames
    /\ Uses \subseteq [Callers -> Strategies]
    /\ MaxFailures \in Nat \ {0} /\ ResetAfter \in Nat \ {0}
    /\ Closed \notin Nat

Ages == 0..ResetAfter

Errors == {"RuntimeError", "ValueError", "KeyError", "adapter's"}

Pending == [by |-> 0, error |-> "none"]

Answered(i) == [by |-> i, error |-> "none"]

Failed(error) == [by |-> 0, error |-> error]

NewCall(how, chain, bar, asked) ==
    [how |-> how, chain |-> chain, bar |-> bar, asked |-> asked,
     spent |-> {}, lengths |-> <<>>, first |-> 0]

NoCall == NewCall("none", <<>>, 0, <<>>)

VARIABLES
    uses,      \* the strategy of each caller
    failures,  \* _failures: 0 is no entry, MaxFailures any number from there on
    since,     \* _open_since, as the age of the entry
    pc,
    call,      \* the list, the minimum (of tier or agreement) and what came of it
    copy,      \* the number of failures a thread has read
    result,    \* which adapter of the list answered, or what was raised
    streak,    \* history: failures in a row since an answer or a reopening
    overlap    \* history: two threads were at one circuit at once

vars == <<uses, failures, since, pc, call, copy, result, streak, overlap>>

breaker == <<failures, since, streak>>

Init ==
    /\ uses \in Uses
    /\ failures = [p \in Providers |-> 0]
    /\ since = [p \in Providers |-> Closed]
    /\ pc = [c \in Callers |-> "idle"]
    /\ call = [c \in Callers |-> NoCall]
    /\ copy = [c \in Callers |-> 0]
    /\ result = [c \in Callers |-> Pending]
    /\ streak = [p \in Providers |-> 0]
    /\ overlap = FALSE

----------------------------------------------------------------------------
(* The places of the list of a call, and those it may still turn to: with a    *)
(* min_tier, those that cost it.                                              *)
Places(k) == 1..Len(k.chain)

Left(k) == {i \in Places(k) \ k.spent : k.how = "cost_aware" => Cost[k.chain[i]] >= k.bar}

(* The order in which a call takes the adapters; sort is stable.              *)
Before_Dearest(k, i, j) ==
    IF k.how = "cost_aware" /\ Cost[k.chain[i]] # Cost[k.chain[j]]
    THEN Cost[k.chain[i]] > Cost[k.chain[j]]
    ELSE i < j

Before(k, i, j) ==
    IF k.how = "cost_aware" /\ Cost[k.chain[i]] # Cost[k.chain[j]]
    THEN Cost[k.chain[i]] < Cost[k.chain[j]]
    ELSE i < j

Turn(k) == CHOOSE i \in Left(k) : \A j \in Left(k) \ {i} : Before(k, i, j)

At(k) == Provider[k.chain[Turn(k)]]

AtMost(n) == IF n < MaxFailures THEN n ELSE MaxFailures

Go(c, where) == pc' = [pc EXCEPT ![c] = where]

Return(c, what) == Go(c, "idle") /\ result' = [result EXCEPT ![c] = what]

Begin(c, chain, bar, where) ==
    /\ call' = [call EXCEPT ![c] = NewCall(uses[c], chain, bar, <<>>)]
    /\ result' = [result EXCEPT ![c] = Pending]
    /\ Go(c, where)
    /\ UNCHANGED <<uses, breaker, copy>>

(* The loop goes on to the next adapter of the list.                         *)
PassOver(c) ==
    /\ call' = [call EXCEPT ![c].spent = @ \cup {Turn(call[c])}]
    /\ Go(c, "check")

----------------------------------------------------------------------------
(* _fallback and _cost_aware, the same loop over lists in different order.     *)

Route(c) ==
    /\ pc[c] = "idle" /\ uses[c] \in {"fallback", "cost_aware"}
    /\ \E chain \in Chains[c], tier \in IF uses[c] = "cost_aware" THEN Tiers ELSE {0} :
          Begin(c, chain, tier, "check")

Exhausted(c) ==
    /\ pc[c] = "check" /\ Left(call[c]) = {}
    /\ Return(c, Failed("RuntimeError"))
    /\ UNCHANGED <<uses, breaker, call, copy>>

Check_Renews(c) ==
    /\ pc[c] = "check" /\ Left(call[c]) # {}
    /\ \/ since[At(call[c])] = Closed /\ Go(c, "invoke") /\ UNCHANGED <<call, since>>
       \/ since[At(call[c])] = ResetAfter /\ Go(c, "reopen") /\ UNCHANGED <<call, since>>
       \/ /\ since[At(call[c])] \in Ages \ {ResetAfter} /\ PassOver(c)
          /\ since' = [since EXCEPT ![At(call[c])] = 0]
    /\ UNCHANGED <<uses, failures, streak, copy, result>>

(* is_open                                                                   *)
Check(c) ==
    /\ pc[c] = "check" /\ Left(call[c]) # {}
    /\ \/ since[At(call[c])] = Closed /\ Go(c, "invoke") /\ UNCHANGED call
       \/ since[At(call[c])] = ResetAfter /\ Go(c, "reopen") /\ UNCHANGED call
       \/ since[At(call[c])] \in Ages \ {ResetAfter} /\ PassOver(c)
    /\ UNCHANGED <<uses, breaker, copy, result>>

Reopen(c) ==
    /\ pc[c] = "reopen"
    /\ since' = [since EXCEPT ![At(call[c])] = Closed]
    /\ Go(c, "forget")
    /\ UNCHANGED <<uses, failures, streak, call, copy, result>>

Forget(c) ==
    /\ pc[c] = "forget"
    /\ failures' = [failures EXCEPT ![At(call[c])] = 0]
    /\ streak' = [streak EXCEPT ![At(call[c])] = 0]
    /\ Go(c, "invoke")
    /\ UNCHANGED <<uses, since, call, copy, result>>

(* The adapter answers; record_success.                                      *)
Answers(c) ==
    /\ pc[c] = "invoke"
    /\ failures' = [failures EXCEPT ![At(call[c])] = 0]
    /\ streak' = [streak EXCEPT ![At(call[c])] = 0]
    /\ Go(c, "close")
    /\ UNCHANGED <<uses, since, call, copy, result>>

Close(c) ==
    /\ pc[c] = "close"
    /\ since' = [since EXCEPT ![At(call[c])] = Closed]
    /\ Return(c, Answered(Turn(call[c])))
    /\ UNCHANGED <<uses, failures, streak, call, copy>>

(* The adapter raises; record_failure.                                       *)
Raises(c) ==
    /\ pc[c] = "invoke"
    /\ copy' = [copy EXCEPT ![c] = failures[At(call[c])]]
    /\ streak' = [streak EXCEPT ![At(call[c])] = AtMost(@ + 1)]
    /\ Go(c, "store")
    /\ UNCHANGED <<uses, failures, since, call, result>>

Store(c) ==
    /\ pc[c] = "store"
    /\ failures' = [failures EXCEPT ![At(call[c])] = AtMost(copy[c] + 1)]
    /\ copy' = [copy EXCEPT ![c] = 0]
    /\ Go(c, "test")
    /\ UNCHANGED <<uses, since, streak, call, result>>

(* The entry is looked up again.  Another thread may have taken it out, and    *)
(* the KeyError leaves the loop.                                             *)
Test_Past(c) ==
    /\ pc[c] = "test"
    /\ IF failures[At(call[c])] = 0 THEN Return(c, Failed("KeyError")) /\ UNCHANGED call
       ELSE UNCHANGED result /\ PassOver(c)
    /\ UNCHANGED <<uses, breaker, copy>>

Test(c) ==
    /\ pc[c] = "test"
    /\ \/ failures[At(call[c])] = 0 /\ Return(c, Failed("KeyError")) /\ UNCHANGED call
       \/ failures[At(call[c])] \in 1..(MaxFailures - 1) /\ PassOver(c) /\ UNCHANGED result
       \/ failures[At(call[c])] = MaxFailures /\ Go(c, "stamp") /\ UNCHANGED <<call, result>>
    /\ UNCHANGED <<uses, breaker, copy>>

Stamp(c) ==
    /\ pc[c] = "stamp"
    /\ since' = [since EXCEPT ![At(call[c])] = 0]
    /\ PassOver(c)
    /\ UNCHANGED <<uses, failures, streak, copy, result>>

----------------------------------------------------------------------------
(* _pipeline: each adapter works on the answer of the one before it.          *)

StartPipe(c) ==
    /\ pc[c] = "idle" /\ uses[c] = "pipeline"
    /\ \E chain \in Chains[c] : Begin(c, chain, 0, "pipe")

PipeEnds(c) ==
    /\ pc[c] = "pipe"
    /\ \/ Left(call[c]) # {} /\ Return(c, Failed("RuntimeError"))
       \/ Left(call[c]) = {} /\ Return(c, IF Places(call[c]) = {} THEN Failed("ValueError")
                                    ELSE Answered(Len(call[c].chain)))
    /\ UNCHANGED <<uses, breaker, call, copy>>

PipeStep(c) ==
    /\ pc[c] = "pipe" /\ Left(call[c]) # {}
    /\ call' = [call EXCEPT ![c].spent = @ \cup {Turn(call[c])}]
    /\ UNCHANGED <<uses, breaker, pc, copy, result>>

----------------------------------------------------------------------------
(* _parallel_consensus: all are asked at once and may end in any order.       *)

Ask(c) ==
    /\ pc[c] = "idle" /\ uses[c] = "parallel_consensus"
    /\ \E chain \in Chains[c], percent \in Percents : Begin(c, chain, percent, "gather")

Responds(c) ==
    /\ pc[c] = "gather"
    /\ \E i \in Left(call[c]), n \in Lengths :
          call' = [call EXCEPT ![c].spent = @ \cup {i},
                               ![c].lengths = [j \in DOMAIN @ \cup {i} |->
                                                 IF j = i THEN n ELSE @[j]],
                               ![c].first = IF @ = 0 THEN i ELSE @]
    /\ UNCHANGED <<uses, breaker, pc, copy, result>>

FailsToRespond(c) ==
    /\ pc[c] = "gather"
    /\ \E i \in Left(call[c]) : call' = [call EXCEPT ![c].spent = @ \cup {i}]
    /\ UNCHANGED <<uses, breaker, pc, copy, result>>

(* sorted(lengths)[len(lengths) // 2]                                        *)
Median(lengths) ==
    LET Below(n) == Cardinality({i \in DOMAIN lengths : lengths[i] < n})
        UpTo(n) == Cardinality({i \in DOMAIN lengths : lengths[i] <= n})
        half == Cardinality(DOMAIN lengths) \div 2
    IN  CHOOSE n \in {lengths[i] : i \in DOMAIN lengths} :
            Below(n) <= half /\ half < UpTo(n)

Distance(m, n) == IF m < n THEN n - m ELSE m - n

(* _count_agreeing: within a fifth of the median.                             *)
Agreeing_Half(lengths) ==
    {i \in DOMAIN lengths : 2 * Distance(lengths[i], Median(lengths)) <= Median(lengths)}

Agreeing(lengths) ==
    {i \in DOMAIN lengths : 5 * Distance(lengths[i], Median(lengths)) <= Median(lengths)}

(* The fraction is one of all that were asked, those that raised included.     *)
Decide(c) ==
    /\ pc[c] = "gather" /\ Left(call[c]) = {}
    /\ LET enough == 100 * Cardinality(Agreeing(call[c].lengths))
                        >= call[c].bar * Len(call[c].chain)
       IN  Return(c, IF Places(call[c]) = {} THEN Failed("ValueError")
                     ELSE IF call[c].first = 0 THEN Failed("RuntimeError")
                     ELSE IF enough THEN Answered(call[c].first)
                     ELSE Failed("ValueError"))
    /\ UNCHANGED <<uses, breaker, call, copy>>

----------------------------------------------------------------------------
(* LifecycleBinder.                                                          *)

(* The adapters bound to an event, as <<binding, name>>: names of no adapter    *)
(* are left out.                                                             *)
Named(event, target) ==
    {place \in (DOMAIN Bindings) \X (1..MostNames) :
        LET binding == Bindings[place[1]] IN
        /\ binding.event = event /\ binding.type = target
        /\ place[2] \in DOMAIN binding.names /\ binding.names[place[2]] \in Adapters}

(* resolve                                                                   *)
Resolve_Merged(event, type) == Named(event, type) \cup Named(event, "*")

Resolve(event, type) ==
    IF Named(event, type) # {} THEN Named(event, type) ELSE Named(event, "*")

Foremost(places) ==
    CHOOSE x \in places : \A y \in places :
        x[1] < y[1] \/ (x[1] = y[1] /\ x[2] <= y[2])

(* execute: the first of them is called, whatever the strategy of its binding. *)
Dispatch(c) ==
    /\ pc[c] = "idle" /\ uses[c] = "bound"
    /\ \E event \in Events, type \in Types :
         LET places == Resolve(event, type)
             place == Foremost(places)
             chain == IF places = {} THEN <<>>
                      ELSE <<Bindings[place[1]].names[place[2]]>>
         IN
         /\ call' = [call EXCEPT ![c] = NewCall("bound", chain, 0, <<event, type>>)]
         /\ \E what \in IF places = {} THEN {Failed("RuntimeError")}
                       ELSE {Answered(1), Failed("adapter's")} :
               Return(c, what)
    /\ UNCHANGED <<uses, breaker, copy>>

----------------------------------------------------------------------------
Tick ==
    /\ \E p \in Providers : since[p] \in Ages \ {ResetAfter}
    /\ since' = [p \in Providers |->
                   IF since[p] \in Ages \ {ResetAfter} THEN since[p] + 1 ELSE since[p]]
    /\ UNCHANGED <<uses, failures, streak, pc, call, copy, result>>

(* A thread that is going to change the circuit of a provider.                *)
Inside == {"reopen", "forget", "close", "store", "test", "stamp"}

Collision ==
    \E c, d \in Callers : c # d /\ pc[c] \in Inside /\ pc[d] \in Inside /\ At(call[c]) = At(call[d])

Start(c) == Route(c) \/ StartPipe(c) \/ Ask(c) \/ Dispatch(c)

Continue(c) ==
    \/ Exhausted(c) \/ Check(c) \/ Reopen(c) \/ Forget(c)
    \/ Answers(c) \/ Close(c) \/ Raises(c) \/ Store(c) \/ Test(c) \/ Stamp(c)
    \/ PipeEnds(c) \/ PipeStep(c)
    \/ Responds(c) \/ FailsToRespond(c) \/ Decide(c)

Next ==
    /\ Tick \/ \E c \in Callers : Start(c) \/ Continue(c)
    /\ overlap' = (overlap \/ Collision')

Spec == Init /\ [][Next]_vars

(* Time passes, adapters answer or raise (their clients time out) and threads  *)
(* are scheduled; that anyone calls again is not assumed.                      *)
FairSpec ==
    /\ Spec
    /\ WF_vars(Tick /\ overlap' = (overlap \/ Collision'))
    /\ \A c \in Callers : WF_vars(Continue(c) /\ overlap' = (overlap \/ Collision'))

----------------------------------------------------------------------------
TypeOK ==
    /\ uses \in Uses
    /\ failures \in [Providers -> 0..MaxFailures]
    /\ since \in [Providers -> Ages \cup {Closed}]
    /\ pc \in [Callers -> Inside \cup {"idle", "check", "invoke", "pipe", "gather"}]
    /\ \A c \in Callers :
          /\ call[c].spent \subseteq Places(call[c])
          /\ DOMAIN call[c].lengths \subseteq call[c].spent
          /\ call[c].first \in DOMAIN call[c].lengths \cup {0}
          /\ pc[c] \in Inside \cup {"invoke"} => Left(call[c]) # {}
          /\ result[c] \in {Pending} \cup {Answered(i) : i \in Places(call[c])}
                               \cup {Failed(e) : e \in Errors}
    /\ copy \in [Callers -> 0..MaxFailures]
    /\ streak \in [Providers -> 0..MaxFailures]
    /\ overlap \in BOOLEAN

(* A call of fallback or cost_aware answers with an adapter only when every one *)
(* it prefers - earlier in the list, or cheaper - raised or had an open circuit, *)
(* and gives up only when all did.  That a thread leaves the loop with a        *)
(* KeyError, backups untried, takes a second thread at the circuit             *)
(* (routing.py:190-261).                                                      *)
InPreference(c) ==
    LET k == call[c]
        Price(i) == Cost[k.chain[i]]
        Eligible == {i \in Places(k) : k.how = "cost_aware" => Price(i) >= k.bar}
        Preferred(i) ==
            IF k.how = "fallback" THEN {j \in Places(k) : j < i}
            ELSE {j \in Eligible : Price(j) < Price(i) \/ (Price(j) = Price(i) /\ j < i)}
    IN  k.how \in {"fallback", "cost_aware"} =>
          \/ result[c] = Pending
          \/ result[c].by \in Eligible /\ Preferred(result[c].by) \subseteq k.spent
          \/ result[c].error = "RuntimeError" /\ Eligible \subseteq k.spent
          \/ result[c].error = "KeyError" /\ overlap

(* An event is never handled by the wildcard's adapter while a binding of its    *)
(* own names one, nor left without a handler while any binding has one         *)
(* (lifecycle.py:34-62).                                                      *)
OwnBindingFirst(c) ==
    LET event == call[c].asked[1]
        type == call[c].asked[2]
        Of(target) == {a \in Adapters : \E k \in DOMAIN Bindings :
                         /\ Bindings[k].event = event /\ Bindings[k].type = target
                         /\ \E n \in DOMAIN Bindings[k].names : Bindings[k].names[n] = a}
    IN  call[c].how = "bound" /\ result[c] # Pending =>
          IF result[c].error = "RuntimeError" THEN Of(type) = {} /\ Of("*") = {}
          ELSE IF Of(type) # {} THEN call[c].chain[1] \in Of(type)
          ELSE call[c].chain[1] \in Of("*")

(* Whoever answers a call is the one whose turn it was.                       *)
NobodyLeftOut == \A c \in Callers : InPreference(c) /\ OwnBindingFirst(c)

(* An accepted consensus is one: as many of those asked as the threshold wants  *)
(* answered, no two of them more than half as long again as one another.  Where  *)
(* all answered alike it is accepted, whatever the order they came in, and it    *)
(* fails outright only if none answered (routing.py:89-146).                   *)
Agrees(c) ==
    LET lengths == call[c].lengths
        Alike(S) == \A i, j \in S : 2 * lengths[i] <= 3 * lengths[j]
    IN  call[c].how = "parallel_consensus" =>
          /\ result[c].by # 0 =>
                \E S \in SUBSET DOMAIN lengths :
                   /\ Alike(S)
                   /\ 100 * Cardinality(S) >= call[c].bar * Len(call[c].chain)
          /\ result[c].error = "ValueError" /\ Places(call[c]) # {} =>
                ~\E n \in Lengths : \A i \in Places(call[c]) :
                    i \in DOMAIN lengths /\ lengths[i] = n
          /\ result[c].error = "RuntimeError" => DOMAIN lengths = {}

AcceptedAgrees == \A c \in Callers : Agrees(c)

(* While no two threads are at one circuit at once, it counts exactly the        *)
(* failures in a row, and is open exactly when they are as many as it allows:   *)
(* one answer closes it and starts the count anew (routing.py:27-45).          *)
BreakerExact ==
    ~overlap =>
        \A p \in Providers :
            (\A c \in Callers : pc[c] \in Inside => At(call[c]) # p) =>
                /\ failures[p] = streak[p]
                /\ since[p] # Closed <=> streak[p] = MaxFailures

(* A provider is not shut out for good: as long as calls keep getting to it,     *)
(* one of them tries it again, whatever threads do to the breaker              *)
(* (routing.py:36-45).                                                        *)
TriedAgain ==
    \A p \in Providers :
        LET Reaches(c, where) == pc[c] = where /\ Left(call[c]) # {} /\ At(call[c]) = p IN
        []<>(\E c \in Callers : Reaches(c, "check"))
            => (since[p] # Closed ~> \E c \in Callers : Reaches(c, "invoke"))

=============================================================================
