---------------------------- MODULE Routing_proofs ----------------------------
(* Proofs about Routing: types, the order of preference and the circuit breaker. *)
EXTENDS Routing, WellFoundedInduction, FiniteSetTheorems, TLAPS

----------------------------------------------------------------------------
(* A set of naturals that is not empty has a least one.                       *)
LEMMA LeastNatural ==
    ASSUME NEW T, T \subseteq Nat, T # {}
    PROVE  \E x \in T : \A y \in T : x <= y
<1>. DEFINE R == OpToRel(<, Nat)
<1>1. IsWellFoundedOn(R, Nat)
  BY NatLessThanWellFounded
<1>. HIDE DEF R
<1>2. \E x \in T : \A y \in T : ~(<<y, x>> \in R)
  BY <1>1, WFMin
<1>3. ASSUME NEW x \in Nat, NEW y \in Nat, y < x PROVE <<y, x>> \in R
  BY <1>3 DEF R, OpToRel
<1>4. PICK x \in T : \A y \in T : ~(<<y, x>> \in R)
  BY <1>2
<1>5. ASSUME NEW y \in T PROVE x <= y
  <2>1. x \in Nat /\ y \in Nat
    OBVIOUS
  <2>2. ~(y < x)
    BY <1>3, <1>4, <2>1
  <2>. QED BY <2>1, <2>2
<1>. QED  BY <1>5

(* Of any things with two natural ranks, one is first in the order of the first  *)
(* rank and then the second.                                                  *)
LEMMA Foremost2 ==
    ASSUME NEW T, T # {}, NEW f, NEW g, f \in [T -> Nat], g \in [T -> Nat]
    PROVE  \E x \in T : \A y \in T : f[x] < f[y] \/ (f[x] = f[y] /\ g[x] <= g[y])
<1>. DEFINE F == {f[x] : x \in T}
<1>1. F \subseteq Nat /\ F # {}
  OBVIOUS
<1>2. PICK m \in F : \A n \in F : m <= n
  BY <1>1, LeastNatural
<1>. DEFINE Level == {x \in T : f[x] = m}
<1>. DEFINE G == {g[x] : x \in Level}
<1>3. G \subseteq Nat /\ G # {}
  OBVIOUS
<1>4. PICK l \in G : \A n \in G : l <= n
  BY <1>3, LeastNatural
<1>5. PICK x \in Level : g[x] = l
  OBVIOUS
<1>6. ASSUME NEW y \in T PROVE f[x] < f[y] \/ (f[x] = f[y] /\ g[x] <= g[y])
  <2>1. f[x] = m /\ m <= f[y] /\ f[y] \in Nat /\ m \in Nat
    BY <1>1, <1>2
  <2>2. f[y] = m => g[x] <= g[y]
    BY <1>4, <1>5
  <2>. QED BY <2>1, <2>2
<1>. QED BY <1>6

(* A list of adapters a call works through.                                   *)
Listed(k) == k.chain \in Seq(Adapters)

(* While a call has adapters left, its turn is one of them, and it comes before   *)
(* every other in the order of its strategy.                                  *)
LEMMA TurnIsFirst ==
    ASSUME NEW k, Listed(k), Left(k) # {}
    PROVE  /\ Turn(k) \in Left(k)
           /\ \A j \in Left(k) \ {Turn(k)} : Before(k, Turn(k), j)
           /\ At(k) \in Providers
<1>. DEFINE f == [i \in Left(k) |-> IF k.how = "cost_aware" THEN Cost[k.chain[i]] ELSE 0]
            g == [i \in Left(k) |-> i]
<1>0. Left(k) \subseteq 1..Len(k.chain) /\ Len(k.chain) \in Nat
  BY DEF Left, Places, Listed
<1>1. ASSUME NEW i \in Left(k) PROVE k.chain[i] \in Adapters /\ Cost[k.chain[i]] \in Nat
  BY <1>0, ConstantsAssumption DEF Listed
<1>2. f \in [Left(k) -> Nat] /\ g \in [Left(k) -> Nat]
  BY <1>0, <1>1
<1>. HIDE DEF f, g
<1>3. PICK x \in Left(k) : \A y \in Left(k) : f[x] < f[y] \/ (f[x] = f[y] /\ g[x] <= g[y])
  BY <1>2, Foremost2
<1>4. ASSUME NEW j \in Left(k) \ {x} PROVE Before(k, x, j)
  <2>1. g[x] = x /\ g[j] = j /\ x # j /\ x \in Nat /\ j \in Nat
    BY <1>0 DEF g
  <2>2. f[x] < f[j] \/ (f[x] = f[j] /\ x <= j)
    BY <1>3, <2>1
  <2>3. f[x] = (IF k.how = "cost_aware" THEN Cost[k.chain[x]] ELSE 0)
        /\ f[j] = (IF k.how = "cost_aware" THEN Cost[k.chain[j]] ELSE 0)
    BY DEF f
  <2>4. Cost[k.chain[x]] \in Nat /\ Cost[k.chain[j]] \in Nat
    BY <1>1
  <2>. QED BY <2>1, <2>2, <2>3, <2>4 DEF Before
<1>5. Turn(k) \in Left(k) /\ \A j \in Left(k) \ {Turn(k)} : Before(k, Turn(k), j)
  BY <1>4 DEF Turn
<1>6. At(k) \in Providers
  BY <1>1, <1>5 DEF At, Providers
<1>. QED BY <1>5, <1>6

(* The foremost of some places in the bindings is one of them.                 *)
LEMMA ForemostIsOne ==
    ASSUME NEW places, places \subseteq (DOMAIN Bindings) \X (1..MostNames), places # {}
    PROVE  Foremost(places) \in places
<1>. DEFINE f == [x \in places |-> x[1]]
            g == [x \in places |-> x[2]]
<1>1. f \in [places -> Nat] /\ g \in [places -> Nat]
  BY ConstantsAssumption
<1>. HIDE DEF f, g
<1>2. PICK x \in places : \A y \in places : f[x] < f[y] \/ (f[x] = f[y] /\ g[x] <= g[y])
  BY <1>1, Foremost2
<1>3. \A y \in places : x[1] < y[1] \/ (x[1] = y[1] /\ x[2] <= y[2])
  BY <1>2 DEF f, g
<1>. QED BY <1>3 DEF Foremost

----------------------------------------------------------------------------
(* Types.  A call's list and answers keep theirs too, and a call of another      *)
(* strategy than fallback and cost_aware never gets to the breaker.             *)

Routed == {"fallback", "cost_aware"}

CallType ==
    [how : Strategies, chain : Seq(Adapters), bar : Nat,
     asked : {<<>>} \cup (Events \X Types),
     spent : SUBSET Nat, lengths : UNION {[S -> Lengths] : S \in SUBSET Nat}, first : Nat]

Working == Inside \cup {"check", "invoke"}

Waiting == Working \cup {"pipe", "gather"}

CallOK(c) ==
    /\ call[c].spent \subseteq Places(call[c])
    /\ DOMAIN call[c].lengths \subseteq call[c].spent
    /\ call[c].first \in DOMAIN call[c].lengths \cup {0}
    /\ pc[c] \in Inside \cup {"invoke"} => Left(call[c]) # {}
    /\ result[c] \in {Pending} \cup {Answered(i) : i \in Places(call[c])}
                         \cup {Failed(e) : e \in Errors}
    /\ call[c] \in CallType
    /\ pc[c] \in Working => call[c].how \in Routed
    /\ pc[c] = "pipe" => call[c].how = "pipeline"
    /\ pc[c] = "gather" => call[c].how = "parallel_consensus"
    /\ pc[c] # "idle" => result[c] = Pending
    /\ call[c].first = 0 => DOMAIN call[c].lengths = {}
    /\ call[c].how = "parallel_consensus" => call[c].bar \in Percents

Typed ==
    /\ uses \in Uses
    /\ failures \in [Providers -> 0..MaxFailures]
    /\ since \in [Providers -> Ages \cup {Closed}]
    /\ pc \in [Callers -> Waiting \cup {"idle"}]
    /\ DOMAIN call = Callers /\ DOMAIN result = Callers
    /\ \A c \in Callers : CallOK(c)
    /\ copy \in [Callers -> 0..MaxFailures]
    /\ streak \in [Providers -> 0..MaxFailures]
    /\ overlap \in BOOLEAN

LEMMA CountFits ==
    ASSUME NEW n \in 0..MaxFailures
    PROVE  AtMost(n + 1) \in 1..MaxFailures /\ AtMost(n + 1) = (IF n = MaxFailures THEN n ELSE n + 1)
BY ConstantsAssumption DEF AtMost

(* A new call begins with nothing spent.                                      *)
LEMMA NewCallType ==
    ASSUME NEW how \in Strategies, NEW chain \in Seq(Adapters), NEW bar \in Nat,
           NEW asked \in {<<>>} \cup (Events \X Types)
    PROVE  NewCall(how, chain, bar, asked) \in CallType
<1>1. <<>> \in [{} -> Lengths]
  OBVIOUS
<1>2. <<>> \in UNION {[S -> Lengths] : S \in SUBSET Nat}
  BY <1>1
<1>. QED BY <1>2 DEF CallType, NewCall

LEMMA TypesInit == Init => Typed
<1>. SUFFICES ASSUME Init PROVE Typed
  OBVIOUS
<1>1. ASSUME NEW c \in Callers PROVE CallOK(c)
  <2>1. call[c] = NoCall /\ pc[c] = "idle" /\ result[c] = Pending
    BY DEF Init
  <2>2. NoCall \in CallType
    <3>1. <<>> \in Seq(Adapters) /\ "none" \in Strategies
      BY DEF Strategies
    <3>. QED BY <3>1, NewCallType DEF NoCall
  <2>. QED BY <2>1, <2>2 DEF CallOK, NoCall, NewCall, Working, Inside
<1>2. 0 \in 0..MaxFailures
  BY ConstantsAssumption
<1>. QED BY <1>1, <1>2 DEF Init, Typed

(* A step of one caller that leaves the others as they are keeps their types.    *)
LEMMA OthersTyped ==
    ASSUME NEW c \in Callers, Typed, CallOK(c)',
           \A d \in Callers \ {c} : call'[d] = call[d] /\ pc'[d] = pc[d] /\ result'[d] = result[d]
    PROVE  \A d \in Callers : CallOK(d)'
<1>. SUFFICES ASSUME NEW d \in Callers, d # c PROVE CallOK(d)'
  OBVIOUS
<1>1. CallOK(d) /\ call'[d] = call[d] /\ pc'[d] = pc[d] /\ result'[d] = result[d]
  BY DEF Typed
<1>. QED BY <1>1 DEF CallOK

LEMMA BeginTyped ==
    ASSUME Typed, NEW c \in Callers, NEW chain \in Seq(Adapters), NEW bar \in Nat,
           NEW where \in {"check", "pipe", "gather"}, Begin(c, chain, bar, where),
           where = "check" => uses[c] \in Routed,
           where = "pipe" => uses[c] = "pipeline",
           where = "gather" => uses[c] = "parallel_consensus",
           uses[c] = "parallel_consensus" => bar \in Percents,
           overlap' \in BOOLEAN
    PROVE  Typed'
<1>. DEFINE k == NewCall(uses[c], chain, bar, <<>>)
<1>1. uses[c] \in Strategies
  BY ConstantsAssumption DEF Typed
<1>2. k.how = uses[c] /\ k.chain = chain /\ k.bar = bar /\ k.spent = {} /\ k.lengths = <<>> /\ k.first = 0
  BY DEF NewCall
<1>3. k \in CallType
  BY <1>1, NewCallType
<1>. HIDE DEF k
<1>4. /\ call' = [call EXCEPT ![c] = k] /\ result' = [result EXCEPT ![c] = Pending]
      /\ pc' = [pc EXCEPT ![c] = where] /\ UNCHANGED <<uses, failures, since, streak, copy>>
  BY DEF Begin, Go, breaker, k
<1>5. call'[c] = k /\ result'[c] = Pending /\ pc'[c] = where
  BY <1>4 DEF Typed
<1>6. CallOK(c)'
  BY <1>2, <1>3, <1>5 DEF CallOK, Working, Inside
<1>7. \A d \in Callers \ {c} : call'[d] = call[d] /\ pc'[d] = pc[d] /\ result'[d] = result[d]
  BY <1>4 DEF Typed
<1>8. \A d \in Callers : CallOK(d)'
  BY <1>6, <1>7, OthersTyped
<1>. QED BY <1>4, <1>8 DEF Typed, Waiting, Working

(* A caller whose turn is at an adapter.                                      *)
LEMMA AtAProvider ==
    ASSUME Typed, NEW c \in Callers, Left(call[c]) # {}
    PROVE  /\ Turn(call[c]) \in Left(call[c])
           /\ \A j \in Left(call[c]) \ {Turn(call[c])} : Before(call[c], Turn(call[c]), j)
           /\ At(call[c]) \in Providers
<1>1. Listed(call[c])
  BY DEF Typed, CallOK, CallType, Listed
<1>. QED BY <1>1, TurnIsFirst

(* The three ways a step of the loop leaves a caller: further on at the same      *)
(* adapter, with its call returned, or at the next adapter.                     *)
LEMMA Moves ==
    ASSUME Typed, NEW c \in Callers, pc[c] \in Working, Left(call[c]) # {},
           \E where \in Inside \cup {"invoke"} : Go(c, where), UNCHANGED <<call, result>>
    PROVE  pc' \in [Callers -> Waiting \cup {"idle"}] /\ \A d \in Callers : CallOK(d)'
<1>1. PICK where \in Inside \cup {"invoke"} : pc' = [pc EXCEPT ![c] = where]
  BY DEF Go
<1>2. pc'[c] = where /\ \A d \in Callers \ {c} : pc'[d] = pc[d]
  BY <1>1 DEF Typed
<1>3. CallOK(c)
  BY DEF Typed
<1>4. CallOK(c)'
  BY <1>2, <1>3 DEF CallOK, Working, Inside
<1>5. \A d \in Callers : CallOK(d)'
  BY <1>2, <1>4, OthersTyped
<1>6. pc' \in [Callers -> Waiting \cup {"idle"}]
  BY <1>1 DEF Typed, Waiting, Working
<1>. QED BY <1>5, <1>6

Outcomes(c) == {Answered(i) : i \in Places(call[c])} \cup {Failed(e) : e \in Errors}

LEMMA Returns ==
    ASSUME Typed, NEW c \in Callers, \E what \in Outcomes(c) : Return(c, what), UNCHANGED call
    PROVE  /\ pc' \in [Callers -> Waiting \cup {"idle"}] /\ DOMAIN result' = Callers
           /\ \A d \in Callers : CallOK(d)'
<1>1. PICK what \in Outcomes(c) :
        pc' = [pc EXCEPT ![c] = "idle"] /\ result' = [result EXCEPT ![c] = what]
  BY DEF Return, Go
<1>2. /\ pc'[c] = "idle" /\ result'[c] = what
      /\ \A d \in Callers \ {c} : pc'[d] = pc[d] /\ result'[d] = result[d]
  BY <1>1 DEF Typed
<1>3. CallOK(c)
  BY DEF Typed
<1>4. CallOK(c)'
  BY <1>2, <1>3 DEF CallOK, Working, Inside, Outcomes
<1>5. \A d \in Callers : CallOK(d)'
  BY <1>2, <1>4, OthersTyped
<1>6. pc' \in [Callers -> Waiting \cup {"idle"}]
  BY <1>1 DEF Typed
<1>. QED BY <1>1, <1>5, <1>6 DEF Typed

(* Of a call that has spent another place.                                    *)
LEMMA SpendsOne ==
    ASSUME Typed, NEW c \in Callers, \E i \in Left(call[c]) :
               call' = [call EXCEPT ![c].spent = @ \cup {i}]
    PROVE  /\ DOMAIN call' = Callers
           /\ \A d \in Callers \ {c} : call'[d] = call[d]
           /\ call'[c] \in CallType
           /\ call'[c].how = call[c].how /\ call'[c].chain = call[c].chain
           /\ call'[c].bar = call[c].bar
           /\ call'[c].lengths = call[c].lengths /\ call'[c].first = call[c].first
           /\ call[c].spent \subseteq call'[c].spent /\ call'[c].spent \subseteq Places(call[c])
<1>1. PICK i \in Left(call[c]) : call' = [call EXCEPT ![c].spent = @ \cup {i}]
  OBVIOUS
<1>2. call[c] \in CallType /\ call[c].spent \subseteq Places(call[c]) /\ DOMAIN call = Callers
  BY DEF Typed, CallOK
<1>3. i \in Places(call[c]) /\ i \in Nat
  BY DEF Left, Places
<1>4. call'[c] = [call[c] EXCEPT !.spent = call[c].spent \cup {i}]
  BY <1>1, <1>2
<1>5. call[c].spent \cup {i} \in SUBSET Nat
  BY <1>2, <1>3 DEF CallType
<1>6. call'[c] \in CallType /\ call'[c].spent = call[c].spent \cup {i}
      /\ call'[c].how = call[c].how /\ call'[c].chain = call[c].chain
      /\ call'[c].bar = call[c].bar
      /\ call'[c].lengths = call[c].lengths /\ call'[c].first = call[c].first
  BY <1>2, <1>4, <1>5 DEF CallType
<1>7. DOMAIN call' = Callers /\ \A d \in Callers \ {c} : call'[d] = call[d]
  BY <1>1, <1>2
<1>. QED BY <1>2, <1>3, <1>6, <1>7

LEMMA PassesOver ==
    ASSUME Typed, NEW c \in Callers, pc[c] \in Working, Left(call[c]) # {},
           PassOver(c), UNCHANGED result
    PROVE  /\ pc' \in [Callers -> Waiting \cup {"idle"}] /\ DOMAIN call' = Callers
           /\ \A d \in Callers : CallOK(d)'
<1>1. \E i \in Left(call[c]) : call' = [call EXCEPT ![c].spent = @ \cup {i}]
  BY AtAProvider DEF PassOver
<1>2. pc' = [pc EXCEPT ![c] = "check"]
  BY DEF PassOver, Go
<1>3. pc'[c] = "check" /\ \A d \in Callers \ {c} : pc'[d] = pc[d]
  BY <1>2 DEF Typed
<1>4. CallOK(c)
  BY DEF Typed
<1>5. CallOK(c)'
  <2>1. Places(call'[c]) = Places(call[c])
    BY <1>1, SpendsOne DEF Places
  <2>. QED BY <1>1, <1>3, <1>4, <2>1, SpendsOne DEF CallOK, Working, Inside
<1>6. \A d \in Callers : CallOK(d)'
  BY <1>1, <1>3, <1>5, OthersTyped, SpendsOne
<1>7. pc' \in [Callers -> Waiting \cup {"idle"}]
  BY <1>2 DEF Typed, Waiting, Working
<1>. QED BY <1>1, <1>6, <1>7, SpendsOne

(* What is left to show of a step once its callers are done with.              *)
Counted ==
    /\ uses \in Uses
    /\ failures \in [Providers -> 0..MaxFailures]
    /\ since \in [Providers -> Ages \cup {Closed}]
    /\ copy \in [Callers -> 0..MaxFailures]
    /\ streak \in [Providers -> 0..MaxFailures]

LEMMA CheckTyped ==
    ASSUME Typed, NEW c \in Callers, Check(c), overlap' \in BOOLEAN PROVE Typed'
<1>1. pc[c] \in Working /\ Left(call[c]) # {} /\ UNCHANGED <<uses, failures, since, streak, copy, result>>
  BY DEF Check, Working, breaker
<1>2. CASE Go(c, "invoke") /\ UNCHANGED call
  BY <1>1, <1>2, Moves DEF Typed
<1>3. CASE Go(c, "reopen") /\ UNCHANGED call
  <2>1. \E where \in Inside \cup {"invoke"} : Go(c, where)
    BY <1>3 DEF Inside
  <2>. QED BY <1>1, <1>3, <2>1, Moves DEF Typed
<1>4. CASE PassOver(c)
  BY <1>1, <1>4, PassesOver DEF Typed
<1>. QED BY <1>2, <1>3, <1>4 DEF Check

LEMMA TestTyped ==
    ASSUME Typed, NEW c \in Callers, Test(c), overlap' \in BOOLEAN PROVE Typed'
<1>1. /\ pc[c] \in Working /\ Left(call[c]) # {}
      /\ UNCHANGED <<uses, failures, since, streak, copy>>
  BY DEF Test, Working, Inside, breaker, Typed, CallOK
<1>2. CASE Return(c, Failed("KeyError")) /\ UNCHANGED call
  <2>1. Failed("KeyError") \in Outcomes(c)
    BY DEF Outcomes, Errors
  <2>. QED BY <1>1, <1>2, <2>1, Returns DEF Typed
<1>3. CASE PassOver(c) /\ UNCHANGED result
  BY <1>1, <1>3, PassesOver DEF Typed
<1>4. CASE Go(c, "stamp") /\ UNCHANGED <<call, result>>
  <2>1. \E where \in Inside \cup {"invoke"} : Go(c, where)
    BY <1>4 DEF Inside
  <2>. QED BY <1>1, <1>4, <2>1, Moves DEF Typed
<1>. QED BY <1>2, <1>3, <1>4 DEF Test

(* The other steps at a circuit, which change one of its numbers.               *)
LEMMA CircuitTyped ==
    ASSUME Typed, NEW c \in Callers, overlap' \in BOOLEAN,
           \/ Reopen(c) \/ Forget(c) \/ Answers(c) \/ Close(c) \/ Raises(c) \/ Store(c) \/ Stamp(c)
    PROVE  Typed'
<1>1. pc[c] \in Working /\ Left(call[c]) # {}
  BY DEF Reopen, Forget, Answers, Close, Raises, Store, Stamp, Working, Inside, Typed, CallOK
<1>2. At(call[c]) \in Providers /\ Turn(call[c]) \in Places(call[c])
  BY <1>1, AtAProvider DEF Left
<1>3. MaxFailures \in Nat \ {0} /\ ResetAfter \in Nat \ {0} /\ 0 \in 0..MaxFailures /\ 0 \in Ages
  BY ConstantsAssumption DEF Ages
<1>4. CASE Reopen(c)
  <2>1. \E where \in Inside \cup {"invoke"} : Go(c, where)
    BY <1>4 DEF Reopen, Inside
  <2>2. Counted' BY <1>4 DEF Counted, Reopen, Typed
  <2>. QED BY <1>1, <1>4, <2>1, <2>2, Moves DEF Typed, Counted, Reopen
<1>5. CASE Forget(c)
  <2>1. \E where \in Inside \cup {"invoke"} : Go(c, where)
    BY <1>5 DEF Forget
  <2>2. Counted' BY <1>3, <1>5 DEF Counted, Forget, Typed
  <2>. QED BY <1>1, <1>5, <2>1, <2>2, Moves DEF Typed, Counted, Forget
<1>6. CASE Answers(c)
  <2>1. \E where \in Inside \cup {"invoke"} : Go(c, where)
    BY <1>6 DEF Answers, Inside
  <2>2. Counted' BY <1>3, <1>6 DEF Counted, Answers, Typed
  <2>. QED BY <1>1, <1>6, <2>1, <2>2, Moves DEF Typed, Counted, Answers
<1>7. CASE Close(c)
  <2>1. Answered(Turn(call[c])) \in Outcomes(c)
    BY <1>2 DEF Outcomes
  <2>2. Counted' BY <1>7 DEF Counted, Close, Typed
  <2>. QED BY <1>7, <2>1, <2>2, Returns DEF Typed, Counted, Close
<1>8. CASE Raises(c)
  <2>1. \E where \in Inside \cup {"invoke"} : Go(c, where)
    BY <1>8 DEF Raises, Inside
  <2>2. failures[At(call[c])] \in 0..MaxFailures /\ AtMost(streak[At(call[c])] + 1) \in 0..MaxFailures
    <3>1. \A n \in 0..MaxFailures : AtMost(n + 1) \in 0..MaxFailures
      BY <1>3 DEF AtMost
    <3>. QED BY <1>2, <3>1 DEF Typed
  <2>3. Counted' BY <1>8, <2>2 DEF Counted, Raises, Typed
  <2>. QED BY <1>1, <1>8, <2>1, <2>3, Moves DEF Typed, Counted, Raises
<1>9. CASE Store(c)
  <2>1. \E where \in Inside \cup {"invoke"} : Go(c, where)
    BY <1>9 DEF Store, Inside
  <2>2. AtMost(copy[c] + 1) \in 0..MaxFailures
    <3>1. \A n \in 0..MaxFailures : AtMost(n + 1) \in 0..MaxFailures
      BY <1>3 DEF AtMost
    <3>. QED BY <3>1 DEF Typed
  <2>3. Counted' BY <1>3, <1>9, <2>2 DEF Counted, Store, Typed
  <2>. QED BY <1>1, <1>9, <2>1, <2>3, Moves DEF Typed, Counted, Store
<1>10. CASE Stamp(c)
  <2>1. Counted' BY <1>3, <1>10 DEF Counted, Stamp, Typed
  <2>. QED BY <1>1, <1>10, <2>1, PassesOver DEF Typed, Counted, Stamp
<1>. QED BY <1>4, <1>5, <1>6, <1>7, <1>8, <1>9, <1>10

LEMMA ExhaustedTyped ==
    ASSUME Typed, NEW c \in Callers, Exhausted(c), overlap' \in BOOLEAN PROVE Typed'
<1>1. Failed("RuntimeError") \in Outcomes(c)
  BY DEF Outcomes, Errors
<1>. QED BY <1>1, Returns DEF Typed, Exhausted, breaker

LEMMA PipeTyped ==
    ASSUME Typed, NEW c \in Callers, PipeEnds(c) \/ PipeStep(c), overlap' \in BOOLEAN PROVE Typed'
<1>1. CASE PipeEnds(c)
  <2>1. Failed("RuntimeError") \in Outcomes(c) /\ Failed("ValueError") \in Outcomes(c)
    BY DEF Outcomes, Errors
  <2>2. Places(call[c]) # {} => Len(call[c].chain) \in Places(call[c])
    BY DEF Places, Typed, CallOK, CallType
  <2>3. \E what \in Outcomes(c) : Return(c, what)
    BY <1>1, <2>1, <2>2 DEF PipeEnds, Outcomes
  <2>. QED BY <1>1, <2>3, Returns DEF PipeEnds, Typed, breaker
<1>2. CASE PipeStep(c)
  <2>1. \E i \in Left(call[c]) : call' = [call EXCEPT ![c].spent = @ \cup {i}]
    BY <1>2, AtAProvider DEF PipeStep
  <2>2. UNCHANGED <<uses, failures, since, streak, pc, copy, result>>
    BY <1>2 DEF PipeStep, breaker
  <2>3. Places(call'[c]) = Places(call[c]) /\ CallOK(c) /\ pc[c] = "pipe"
    BY <1>2, <2>1, SpendsOne DEF Places, Typed, PipeStep
  <2>4. CallOK(c)'
    BY <2>1, <2>2, <2>3, SpendsOne DEF CallOK, Inside, Working
  <2>5. \A d \in Callers : CallOK(d)'
    BY <2>1, <2>2, <2>4, OthersTyped, SpendsOne
  <2>. QED BY <2>1, <2>2, <2>5, SpendsOne DEF Typed
<1>. QED BY <1>1, <1>2

LEMMA ConsensusTyped ==
    ASSUME Typed, NEW c \in Callers, Responds(c) \/ FailsToRespond(c) \/ Decide(c),
           overlap' \in BOOLEAN
    PROVE  Typed'
<1>1. CASE FailsToRespond(c)
  <2>1. \E i \in Left(call[c]) : call' = [call EXCEPT ![c].spent = @ \cup {i}]
    BY <1>1 DEF FailsToRespond
  <2>2. UNCHANGED <<uses, failures, since, streak, pc, copy, result>>
    BY <1>1 DEF FailsToRespond, breaker
  <2>3. Places(call'[c]) = Places(call[c]) /\ CallOK(c) /\ pc[c] = "gather"
    BY <1>1, <2>1, SpendsOne DEF Places, Typed, FailsToRespond
  <2>4. CallOK(c)'
    BY <2>1, <2>2, <2>3, SpendsOne DEF CallOK, Inside, Working
  <2>5. \A d \in Callers : CallOK(d)'
    BY <2>1, <2>2, <2>4, OthersTyped, SpendsOne
  <2>. QED BY <2>1, <2>2, <2>5, SpendsOne DEF Typed
<1>2. CASE Responds(c)
  <2>1. CallOK(c) /\ pc[c] = "gather" /\ DOMAIN call = Callers
    BY <1>2 DEF Responds, Typed
  <2>2. UNCHANGED <<uses, failures, since, streak, pc, copy, result>>
    BY <1>2 DEF Responds, breaker
  <2>3. PICK i \in Left(call[c]), n \in Lengths :
          call' = [call EXCEPT ![c].spent = @ \cup {i},
                               ![c].lengths = [j \in DOMAIN @ \cup {i} |->
                                                 IF j = i THEN n ELSE @[j]],
                               ![c].first = IF @ = 0 THEN i ELSE @]
    BY <1>2 DEF Responds
  <2>. DEFINE k == call[c]
              lengths == [j \in DOMAIN k.lengths \cup {i} |-> IF j = i THEN n ELSE k.lengths[j]]
  <2>4. k \in CallType /\ i \in Places(k) /\ i \in Nat /\ i # 0
    BY <2>1 DEF CallOK, Left, Places
  <2>5. call'[c] = [[[k EXCEPT !.spent = k.spent \cup {i}]
                       EXCEPT !.lengths = lengths]
                       EXCEPT !.first = IF k.first = 0 THEN i ELSE k.first]
    BY <2>1, <2>3, <2>4 DEF CallType
  <2>6. DOMAIN call' = Callers /\ \A d \in Callers \ {c} : call'[d] = call[d]
    BY <2>1, <2>3
  <2>7. lengths \in UNION {[S -> Lengths] : S \in SUBSET Nat}
    <3>1. PICK S \in SUBSET Nat : k.lengths \in [S -> Lengths]
      BY <2>4 DEF CallType
    <3>2. lengths \in [S \cup {i} -> Lengths]
      BY <3>1
    <3>3. S \cup {i} \in SUBSET Nat
      BY <2>4
    <3>. QED BY <3>2, <3>3
  <2>8. DOMAIN lengths = DOMAIN k.lengths \cup {i}
    OBVIOUS
  <2>. HIDE DEF lengths
  <2>9. /\ call'[c].how = k.how /\ call'[c].chain = k.chain /\ call'[c].bar = k.bar
        /\ call'[c].spent = k.spent \cup {i} /\ call'[c].lengths = lengths
        /\ call'[c].first = (IF k.first = 0 THEN i ELSE k.first)
    BY <2>4, <2>5 DEF CallType
  <2>10. call'[c] \in CallType
    <3>1. k.spent \cup {i} \in SUBSET Nat
      BY <2>4 DEF CallType
    <3>2. (IF k.first = 0 THEN i ELSE k.first) \in Nat
      BY <2>4 DEF CallType
    <3>. QED BY <2>4, <2>5, <2>7, <3>1, <3>2 DEF CallType
  <2>11. Places(call'[c]) = Places(k)
    BY <2>9 DEF Places
  <2>12. CallOK(c)'
    BY <2>1, <2>2, <2>4, <2>8, <2>9, <2>10, <2>11 DEF CallOK, Inside, Working
  <2>13. \A d \in Callers : CallOK(d)'
    BY <2>2, <2>6, <2>12, OthersTyped
  <2>. QED BY <2>2, <2>6, <2>13 DEF Typed
<1>3. CASE Decide(c)
  <2>1. /\ Failed("RuntimeError") \in Outcomes(c) /\ Failed("ValueError") \in Outcomes(c)
    BY DEF Outcomes, Errors
  <2>2. call[c].first # 0 => Answered(call[c].first) \in Outcomes(c)
    BY DEF Outcomes, Typed, CallOK
  <2>3. \E what \in Outcomes(c) : Return(c, what)
    BY <1>3, <2>1, <2>2 DEF Decide
  <2>. QED BY <1>3, <2>3, Returns DEF Decide, Typed, breaker
<1>. QED BY <1>1, <1>2, <1>3

(* Whoever handles an event is an adapter that a binding of its own names, or     *)
(* one of the wildcard's if those name none.                                   *)
LEMMA Bound ==
    ASSUME NEW event, NEW type, Resolve(event, type) # {}
    PROVE  LET place == Foremost(Resolve(event, type)) IN
           /\ place \in Named(event, IF Named(event, type) # {} THEN type ELSE "*")
           /\ Bindings[place[1]].names[place[2]] \in Adapters
<1>. DEFINE target == IF Named(event, type) # {} THEN type ELSE "*"
<1>1. Resolve(event, type) = Named(event, target)
  BY DEF Resolve
<1>2. Named(event, target) \subseteq (DOMAIN Bindings) \X (1..MostNames)
  BY DEF Named
<1>3. Foremost(Named(event, target)) \in Named(event, target)
  BY <1>1, <1>2, ForemostIsOne
<1>4. ASSUME NEW place \in Named(event, target)
      PROVE  Bindings[place[1]].names[place[2]] \in Adapters
  BY <1>4 DEF Named
<1>. QED BY <1>1, <1>3, <1>4

LEMMA DispatchTyped ==
    ASSUME Typed, NEW c \in Callers, Dispatch(c), overlap' \in BOOLEAN PROVE Typed'
<1>1. PICK event \in Events, type \in Types :
        LET places == Resolve(event, type)
            place == Foremost(places)
            chain == IF places = {} THEN <<>>
                     ELSE <<Bindings[place[1]].names[place[2]]>>
        IN  /\ call' = [call EXCEPT ![c] = NewCall("bound", chain, 0, <<event, type>>)]
            /\ \E what \in IF places = {} THEN {Failed("RuntimeError")}
                          ELSE {Answered(1), Failed("adapter's")} : Return(c, what)
  BY DEF Dispatch
<1>. DEFINE places == Resolve(event, type)
            place == Foremost(places)
            chain == IF places = {} THEN <<>> ELSE <<Bindings[place[1]].names[place[2]]>>
            k == NewCall("bound", chain, 0, <<event, type>>)
<1>2. PICK what \in IF places = {} THEN {Failed("RuntimeError")}
                    ELSE {Answered(1), Failed("adapter's")} : Return(c, what)
  BY <1>1
<1>3. chain \in Seq(Adapters)
  <2>1. places # {} => Bindings[place[1]].names[place[2]] \in Adapters
    BY Bound
  <2>. HIDE DEF place, places
  <2>. QED BY <2>1
<1>4. places # {} => Len(chain) = 1
  OBVIOUS
<1>. HIDE DEF place, chain
<1>5. k \in CallType
  BY <1>3, NewCallType DEF Strategies
<1>6. k.how = "bound" /\ k.chain = chain /\ k.spent = {} /\ k.lengths = <<>> /\ k.first = 0
  BY DEF NewCall
<1>7. call' = [call EXCEPT ![c] = k]
  BY <1>1 DEF chain, place
<1>8. what \in {Failed(e) : e \in Errors} \cup {Answered(i) : i \in Places(k)}
  <2>1. what = Failed("RuntimeError") \/ what = Failed("adapter's") \/ (places # {} /\ what = Answered(1))
    BY <1>2
  <2>2. "RuntimeError" \in Errors /\ "adapter's" \in Errors
    BY DEF Errors
  <2>3. ASSUME places # {} PROVE 1 \in Places(k)
    <3>. HIDE DEF places, k
    <3>1. Len(k.chain) = 1
      BY <1>4, <1>6, <2>3
    <3>. QED BY <3>1 DEF Places
  <2>. HIDE DEF places, k
  <2>. QED BY <2>1, <2>2, <2>3
<1>. HIDE DEF k
<1>9. /\ DOMAIN call' = Callers /\ call'[c] = k /\ DOMAIN result' = Callers
      /\ pc' = [pc EXCEPT ![c] = "idle"] /\ result'[c] = what
      /\ \A d \in Callers \ {c} : call'[d] = call[d] /\ pc'[d] = pc[d] /\ result'[d] = result[d]
  BY <1>2, <1>7 DEF Return, Go, Typed
<1>10. pc'[c] = "idle" /\ pc' \in [Callers -> Waiting \cup {"idle"}]
  BY <1>9 DEF Typed
<1>11. CallOK(c)'
  BY <1>5, <1>6, <1>8, <1>9, <1>10 DEF CallOK, Working, Inside
<1>12. \A d \in Callers : CallOK(d)'
  BY <1>9, <1>11, OthersTyped
<1>13. UNCHANGED <<uses, failures, since, streak, copy>>
  BY DEF Dispatch, breaker
<1>. QED BY <1>9, <1>10, <1>12, <1>13 DEF Typed

LEMMA StartTyped ==
    ASSUME Typed, NEW c \in Callers, Start(c), overlap' \in BOOLEAN PROVE Typed'
<1>1. \A chain \in Chains[c] : chain \in Seq(Adapters)
  BY ConstantsAssumption
<1>2. CASE Route(c)
  <2>1. PICK chain \in Chains[c], tier \in IF uses[c] = "cost_aware" THEN Tiers ELSE {0} :
          Begin(c, chain, tier, "check")
    BY <1>2 DEF Route
  <2>2. tier \in Nat /\ uses[c] \in Routed /\ uses[c] # "parallel_consensus"
    BY <1>2, ConstantsAssumption DEF Route, Routed
  <2>. QED BY <1>1, <2>1, <2>2, BeginTyped
<1>3. CASE StartPipe(c)
  <2>1. PICK chain \in Chains[c] : Begin(c, chain, 0, "pipe")
    BY <1>3 DEF StartPipe
  <2>2. uses[c] = "pipeline"
    BY <1>3 DEF StartPipe
  <2>. QED BY <1>1, <2>1, <2>2, BeginTyped
<1>4. CASE Ask(c)
  <2>1. PICK chain \in Chains[c], percent \in Percents : Begin(c, chain, percent, "gather")
    BY <1>4 DEF Ask
  <2>2. percent \in Nat /\ uses[c] = "parallel_consensus"
    BY <1>4, ConstantsAssumption DEF Ask
  <2>. QED BY <1>1, <2>1, <2>2, BeginTyped
<1>. QED BY <1>2, <1>3, <1>4, DispatchTyped DEF Start

LEMMA TickTyped ==
    ASSUME Typed, Tick, overlap' \in BOOLEAN PROVE Typed'
<1>1. since' \in [Providers -> Ages \cup {Closed}]
  <2>1. \A n \in Ages \ {ResetAfter} : n + 1 \in Ages
    BY ConstantsAssumption DEF Ages
  <2>. QED BY <2>1 DEF Tick, Typed
<1>2. UNCHANGED <<uses, failures, streak, pc, call, copy, result>>
  BY DEF Tick
<1>3. \A d \in Callers : CallOK(d)'
  BY <1>2 DEF Typed, CallOK
<1>. QED BY <1>1, <1>2, <1>3 DEF Typed

LEMMA TypesNext == Typed /\ [Next]_vars => Typed'
<1>. SUFFICES ASSUME Typed, [Next]_vars PROVE Typed'
  OBVIOUS
<1>1. CASE UNCHANGED vars
  BY <1>1 DEF vars, Typed, CallOK
<1>2. CASE Next
  <2>1. overlap' \in BOOLEAN
    BY <1>2 DEF Next, Typed
  <2>2. CASE Tick
    BY <2>1, <2>2, TickTyped
  <2>3. ASSUME NEW c \in Callers, Start(c) PROVE Typed'
    BY <2>1, <2>3, StartTyped
  <2>4. ASSUME NEW c \in Callers, Continue(c) PROVE Typed'
    BY <2>1, <2>4, CheckTyped, TestTyped, CircuitTyped, ExhaustedTyped, PipeTyped, ConsensusTyped
       DEF Continue
  <2>. QED BY <1>2, <2>2, <2>3, <2>4 DEF Next
<1>. QED BY <1>1, <1>2

LEMMA TypesAlways == Spec => []Typed
BY TypesInit, TypesNext, PTL DEF Spec

(* Circuits, counts and calls keep their types; a thread at a circuit has an      *)
(* adapter in hand, and an answer names one of the list (routing.py:54-261).    *)
THEOREM TypeCorrect == Spec => []TypeOK
<1>1. Typed => TypeOK
  BY DEF Typed, TypeOK, CallOK, Waiting, Working
<1>. QED BY <1>1, TypesAlways, PTL

----------------------------------------------------------------------------
(* The breaker.  As long as no two threads have met, a circuit nobody is at is    *)
(* even with the failures in a row, and a thread that is at one is the only one  *)
(* and leaves it even, by the steps it still has to make.                      *)

Even(p) == failures[p] = streak[p] /\ (since[p] # Closed <=> streak[p] = MaxFailures)

Quiet(p) == \A c \in Callers : pc[c] \in Inside => At(call[c]) # p

Amid(c) ==
    LET p == At(call[c]) IN
    /\ pc[c] = "reopen" => Even(p)
    /\ pc[c] = "forget" => failures[p] = streak[p] /\ since[p] = Closed
    /\ pc[c] = "close" => failures[p] = 0 /\ streak[p] = 0
    /\ pc[c] = "store" =>
          /\ copy[c] = failures[p] /\ streak[p] = AtMost(failures[p] + 1)
          /\ since[p] # Closed <=> failures[p] = MaxFailures
    /\ pc[c] = "test" =>
          /\ failures[p] = streak[p] /\ streak[p] # 0
          /\ since[p] # Closed => streak[p] = MaxFailures
    /\ pc[c] = "stamp" => failures[p] = MaxFailures /\ streak[p] = MaxFailures

Exact ==
    ~overlap =>
        /\ ~Collision
        /\ \A p \in Providers : Quiet(p) => Even(p)
        /\ \A c \in Callers : pc[c] \in Inside => Amid(c)

LEMMA ExactInit == Init => Exact
<1>. SUFFICES ASSUME Init PROVE Exact
  OBVIOUS
<1>1. \A c \in Callers : pc[c] \notin Inside
  BY DEF Init, Inside
<1>2. \A p \in Providers : Even(p)
  BY ConstantsAssumption DEF Init, Even
<1>. QED BY <1>1, <1>2 DEF Exact, Collision

(* A step of a thread that is at no circuit, before or after.                   *)
LEMMA Away ==
    ASSUME Typed, Exact, NEW c \in Callers, pc[c] \notin Inside, pc'[c] \notin Inside,
           overlap' = (overlap \/ Collision'), UNCHANGED <<failures, since, streak, copy>>,
           \A d \in Callers \ {c} : call'[d] = call[d] /\ pc'[d] = pc[d]
    PROVE  Exact'
<1>. SUFFICES ASSUME ~overlap' PROVE Exact'
  BY DEF Exact
<1>1. ~overlap /\ ~Collision'
  OBVIOUS
<1>2. ASSUME NEW p \in Providers, Quiet(p)' PROVE Even(p)'
  <2>1. Quiet(p)
    BY <1>2 DEF Quiet
  <2>. QED BY <1>1, <2>1 DEF Exact, Even
<1>3. ASSUME NEW d \in Callers, pc'[d] \in Inside PROVE Amid(d)'
  <2>1. d # c /\ call'[d] = call[d] /\ pc'[d] = pc[d]
    BY <1>3
  <2>2. Amid(d)
    BY <1>1, <1>3, <2>1 DEF Exact
  <2>. QED BY <2>1, <2>2 DEF Amid, Even
<1>. QED BY <1>1, <1>2, <1>3 DEF Exact

(* A step at a circuit, which only this thread is at.                          *)
LEMMA AtOne ==
    ASSUME Typed, Exact, NEW c \in Callers, NEW p \in Providers, At(call[c]) = p,
           overlap' = (overlap \/ Collision'), ~overlap',
           pc[c] \in Inside \/ pc'[c] \in Inside,
           \A q \in Providers \ {p} :
              failures'[q] = failures[q] /\ since'[q] = since[q] /\ streak'[q] = streak[q],
           \A d \in Callers \ {c} : call'[d] = call[d] /\ pc'[d] = pc[d] /\ copy'[d] = copy[d],
           pc'[c] \in Inside => call'[c] = call[c] /\ Amid(c)',
           pc'[c] \notin Inside => Even(p)'
    PROVE  Exact'
<1>1. ~overlap /\ ~Collision /\ ~Collision'
  BY DEF Exact
<1>2. ASSUME NEW q \in Providers, Quiet(q)' PROVE Even(q)'
  <2>1. CASE q = p
    <3>1. pc'[c] \notin Inside
      BY <1>2, <2>1 DEF Quiet
    <3>. QED BY <2>1, <3>1
  <2>2. CASE q # p
    <3>1. Quiet(q)
      BY <1>2, <2>2 DEF Quiet
    <3>. QED BY <1>1, <2>2, <3>1 DEF Exact, Even
  <2>. QED BY <2>1, <2>2
<1>3. ASSUME NEW d \in Callers, pc'[d] \in Inside, d # c PROVE Amid(d)'
  <2>1. call'[d] = call[d] /\ pc'[d] = pc[d] /\ copy'[d] = copy[d]
    BY <1>3
  <2>2. Amid(d)
    BY <1>1, <1>3, <2>1 DEF Exact
  <2>3. At(call[d]) # p
    BY <1>1, <1>3, <2>1 DEF Collision
  <2>4. At(call[d]) \in Providers
    BY <1>3, <2>1, AtAProvider DEF Typed, CallOK
  <2>. QED BY <2>1, <2>2, <2>3, <2>4 DEF Amid, Even
<1>. QED BY <1>1, <1>2, <1>3 DEF Exact

(* A thread that comes to a circuit on its own finds it even.                   *)
LEMMA Arrives ==
    ASSUME Typed, Exact, NEW c \in Callers, NEW p \in Providers, At(call[c]) = p,
           overlap' = (overlap \/ Collision'), ~overlap',
           pc[c] \notin Inside, pc'[c] \in Inside, call'[c] = call[c],
           \A d \in Callers \ {c} : call'[d] = call[d] /\ pc'[d] = pc[d]
    PROVE  Even(p)
<1>1. Quiet(p)
  BY DEF Collision, Quiet
<1>. QED BY <1>1 DEF Exact

LEMMA CheckExact ==
    ASSUME Typed, Exact, NEW c \in Callers, Check(c), overlap' = (overlap \/ Collision')
    PROVE  Exact'
<1>1. /\ pc[c] = "check" /\ pc[c] \notin Inside /\ At(call[c]) \in Providers
      /\ UNCHANGED <<failures, since, streak, copy>>
  BY AtAProvider DEF Check, Inside, breaker
<1>2. CASE (Go(c, "invoke") /\ UNCHANGED call) \/ PassOver(c)
  <2>1. pc'[c] \notin Inside
    BY <1>2 DEF Typed, Go, PassOver, Inside
  <2>2. \A d \in Callers \ {c} : call'[d] = call[d] /\ pc'[d] = pc[d]
    BY <1>2 DEF Typed, Go, PassOver
  <2>. QED BY <1>1, <2>1, <2>2, Away
<1>3. CASE Go(c, "reopen") /\ UNCHANGED call
  <2>. SUFFICES ASSUME ~overlap' PROVE Exact'
    BY DEF Exact
  <2>1. pc'[c] = "reopen" /\ \A d \in Callers \ {c} : call'[d] = call[d] /\ pc'[d] = pc[d]
    BY <1>3 DEF Typed, Go
  <2>2. pc'[c] \in Inside
    BY <2>1 DEF Inside
  <2>3. Even(At(call[c]))
    BY <1>1, <1>3, <2>1, <2>2, Arrives
  <2>4. Amid(c)'
    BY <1>1, <1>3, <2>1, <2>3 DEF Amid, Even
  <2>. QED BY <1>1, <1>3, <2>1, <2>2, <2>4, AtOne
<1>. QED BY <1>2, <1>3 DEF Check

LEMMA ReopenExact ==
    ASSUME Typed, Exact, NEW c \in Callers, Reopen(c), overlap' = (overlap \/ Collision')
    PROVE  Exact'
<1>. SUFFICES ASSUME ~overlap' PROVE Exact'
  BY DEF Exact
<1>1. PICK p \in Providers : p = At(call[c])
  BY AtAProvider DEF Reopen, Inside, Typed, CallOK
<1>2. \A d \in Callers \ {c} : call'[d] = call[d] /\ pc'[d] = pc[d] /\ copy'[d] = copy[d]
  BY DEF Reopen, Typed, Go, Return, PassOver
<1>3. \A q \in Providers \ {p} :
        failures'[q] = failures[q] /\ since'[q] = since[q] /\ streak'[q] = streak[q]
  BY <1>1 DEF Reopen, Typed, breaker
<1>4. pc[c] \in Inside /\ Amid(c)
  BY DEF Reopen, Inside, Exact
<1>5. pc'[c] = "forget" /\ call'[c] = call[c] /\ Amid(c)'
  BY <1>1, <1>4 DEF Reopen, Typed, Go, Amid, Even
<1>. QED BY <1>1, <1>2, <1>3, <1>4, <1>5, AtOne DEF Inside

LEMMA ForgetExact ==
    ASSUME Typed, Exact, NEW c \in Callers, Forget(c), overlap' = (overlap \/ Collision')
    PROVE  Exact'
<1>. SUFFICES ASSUME ~overlap' PROVE Exact'
  BY DEF Exact
<1>1. PICK p \in Providers : p = At(call[c])
  BY AtAProvider DEF Forget, Inside, Typed, CallOK
<1>2. \A d \in Callers \ {c} : call'[d] = call[d] /\ pc'[d] = pc[d] /\ copy'[d] = copy[d]
  BY DEF Forget, Typed, Go, Return, PassOver
<1>3. \A q \in Providers \ {p} :
        failures'[q] = failures[q] /\ since'[q] = since[q] /\ streak'[q] = streak[q]
  BY <1>1 DEF Forget, Typed, breaker
<1>4. pc[c] \in Inside /\ Amid(c)
  BY DEF Forget, Inside, Exact
<1>5. pc'[c] = "invoke" /\ Even(p)'
  BY <1>1, <1>4, ConstantsAssumption DEF Forget, Typed, Go, Amid, Even
<1>. QED BY <1>1, <1>2, <1>3, <1>4, <1>5, AtOne DEF Inside

LEMMA AnswersExact ==
    ASSUME Typed, Exact, NEW c \in Callers, Answers(c), overlap' = (overlap \/ Collision')
    PROVE  Exact'
<1>. SUFFICES ASSUME ~overlap' PROVE Exact'
  BY DEF Exact
<1>1. PICK p \in Providers : p = At(call[c])
  BY AtAProvider DEF Answers, Inside, Typed, CallOK
<1>2. \A d \in Callers \ {c} : call'[d] = call[d] /\ pc'[d] = pc[d] /\ copy'[d] = copy[d]
  BY DEF Answers, Typed, Go, Return, PassOver
<1>3. \A q \in Providers \ {p} :
        failures'[q] = failures[q] /\ since'[q] = since[q] /\ streak'[q] = streak[q]
  BY <1>1 DEF Answers, Typed, breaker
<1>4. pc'[c] = "close" /\ call'[c] = call[c] /\ Amid(c)'
  BY <1>1 DEF Answers, Typed, Go, Amid
<1>. QED BY <1>1, <1>2, <1>3, <1>4, AtOne DEF Inside

LEMMA CloseExact ==
    ASSUME Typed, Exact, NEW c \in Callers, Close(c), overlap' = (overlap \/ Collision')
    PROVE  Exact'
<1>. SUFFICES ASSUME ~overlap' PROVE Exact'
  BY DEF Exact
<1>1. PICK p \in Providers : p = At(call[c])
  BY AtAProvider DEF Close, Inside, Typed, CallOK
<1>2. \A d \in Callers \ {c} : call'[d] = call[d] /\ pc'[d] = pc[d] /\ copy'[d] = copy[d]
  BY DEF Close, Typed, Go, Return, PassOver
<1>3. \A q \in Providers \ {p} :
        failures'[q] = failures[q] /\ since'[q] = since[q] /\ streak'[q] = streak[q]
  BY <1>1 DEF Close, Typed, breaker
<1>4. pc[c] \in Inside /\ Amid(c)
  BY DEF Close, Inside, Exact
<1>5. pc'[c] = "idle" /\ Even(p)'
  BY <1>1, <1>4, ConstantsAssumption DEF Close, Typed, Go, Return, Amid, Even
<1>. QED BY <1>1, <1>2, <1>3, <1>4, <1>5, AtOne DEF Inside

LEMMA RaisesExact ==
    ASSUME Typed, Exact, NEW c \in Callers, Raises(c), overlap' = (overlap \/ Collision')
    PROVE  Exact'
<1>. SUFFICES ASSUME ~overlap' PROVE Exact'
  BY DEF Exact
<1>1. PICK p \in Providers : p = At(call[c])
  BY AtAProvider DEF Raises, Inside, Typed, CallOK
<1>2. \A d \in Callers \ {c} : call'[d] = call[d] /\ pc'[d] = pc[d] /\ copy'[d] = copy[d]
  BY DEF Raises, Typed, Go, Return, PassOver
<1>3. \A q \in Providers \ {p} :
        failures'[q] = failures[q] /\ since'[q] = since[q] /\ streak'[q] = streak[q]
  BY <1>1 DEF Raises, Typed, breaker
<1>4. pc[c] = "invoke" /\ pc'[c] = "store" /\ call'[c] = call[c]
  BY DEF Raises, Typed, Go
<1>5. Even(p)
  BY <1>1, <1>2, <1>4, Arrives DEF Inside
<1>6. Amid(c)'
  <2>1. copy'[c] = failures[p] /\ failures' = failures /\ since' = since
    BY <1>1 DEF Raises, Typed
  <2>2. streak'[p] = AtMost(streak[p] + 1)
    BY <1>1 DEF Raises, Typed
  <2>. QED BY <1>1, <1>4, <1>5, <2>1, <2>2 DEF Amid, Even
<1>. QED BY <1>1, <1>2, <1>3, <1>4, <1>6, AtOne DEF Inside

LEMMA StoreExact ==
    ASSUME Typed, Exact, NEW c \in Callers, Store(c), overlap' = (overlap \/ Collision')
    PROVE  Exact'
<1>. SUFFICES ASSUME ~overlap' PROVE Exact'
  BY DEF Exact
<1>1. PICK p \in Providers : p = At(call[c])
  BY AtAProvider DEF Store, Inside, Typed, CallOK
<1>2. \A d \in Callers \ {c} : call'[d] = call[d] /\ pc'[d] = pc[d] /\ copy'[d] = copy[d]
  BY DEF Store, Typed, Go, Return, PassOver
<1>3. \A q \in Providers \ {p} :
        failures'[q] = failures[q] /\ since'[q] = since[q] /\ streak'[q] = streak[q]
  BY <1>1 DEF Store, Typed, breaker
<1>4. pc[c] \in Inside /\ Amid(c)
  BY DEF Store, Inside, Exact
<1>5. pc[c] = "store" /\ pc'[c] = "test" /\ call'[c] = call[c]
  BY DEF Store, Typed, Go
<1>6. Amid(c)'
  <2>1. failures'[p] = AtMost(failures[p] + 1) /\ since' = since /\ streak' = streak
    BY <1>1, <1>4, <1>5 DEF Store, Typed, Amid
  <2>2. failures[p] \in 0..MaxFailures
    BY <1>1 DEF Typed
  <2>3. /\ AtMost(failures[p] + 1) # 0
        /\ failures[p] = MaxFailures => AtMost(failures[p] + 1) = MaxFailures
    BY <2>2, ConstantsAssumption DEF AtMost
  <2>4. /\ streak[p] = AtMost(failures[p] + 1)
        /\ since[p] # Closed <=> failures[p] = MaxFailures
    BY <1>1, <1>4, <1>5 DEF Amid
  <2>. QED BY <1>1, <1>5, <2>1, <2>3, <2>4 DEF Amid
<1>. QED BY <1>1, <1>2, <1>3, <1>4, <1>5, <1>6, AtOne DEF Inside

LEMMA TestExact ==
    ASSUME Typed, Exact, NEW c \in Callers, Test(c), overlap' = (overlap \/ Collision')
    PROVE  Exact'
<1>. SUFFICES ASSUME ~overlap' PROVE Exact'
  BY DEF Exact
<1>1. PICK p \in Providers : p = At(call[c])
  BY AtAProvider DEF Test, Inside, Typed, CallOK
<1>2. \A d \in Callers \ {c} : call'[d] = call[d] /\ pc'[d] = pc[d] /\ copy'[d] = copy[d]
  BY DEF Test, Typed, Go, Return, PassOver
<1>3. \A q \in Providers \ {p} :
        failures'[q] = failures[q] /\ since'[q] = since[q] /\ streak'[q] = streak[q]
  BY <1>1 DEF Test, Typed, breaker
<1>4. pc[c] \in Inside /\ Amid(c)
  BY DEF Test, Inside, Exact
<1>5. failures[p] = streak[p] /\ streak[p] # 0 /\ (since[p] # Closed => streak[p] = MaxFailures)
  BY <1>1, <1>4 DEF Test, Amid
<1>7. CASE failures[p] \in 1..(MaxFailures - 1) /\ PassOver(c)
  <2>1. pc'[c] = "check" /\ Even(p)'
    BY <1>1, <1>5, <1>7, ConstantsAssumption DEF Test, Typed, PassOver, Go, Even, breaker
  <2>. QED BY <1>1, <1>2, <1>3, <1>4, <2>1, AtOne DEF Inside
<1>8. CASE failures[p] = MaxFailures /\ Go(c, "stamp") /\ UNCHANGED call
  <2>1. pc'[c] = "stamp" /\ call'[c] = call[c] /\ Amid(c)'
    BY <1>1, <1>5, <1>8 DEF Test, Typed, Go, Amid, breaker
  <2>. QED BY <1>1, <1>2, <1>3, <1>4, <2>1, AtOne DEF Inside
<1>. QED BY <1>1, <1>5, <1>7, <1>8 DEF Test

LEMMA StampExact ==
    ASSUME Typed, Exact, NEW c \in Callers, Stamp(c), overlap' = (overlap \/ Collision')
    PROVE  Exact'
<1>. SUFFICES ASSUME ~overlap' PROVE Exact'
  BY DEF Exact
<1>1. PICK p \in Providers : p = At(call[c])
  BY AtAProvider DEF Stamp, Inside, Typed, CallOK
<1>2. \A d \in Callers \ {c} : call'[d] = call[d] /\ pc'[d] = pc[d] /\ copy'[d] = copy[d]
  BY DEF Stamp, Typed, Go, Return, PassOver
<1>3. \A q \in Providers \ {p} :
        failures'[q] = failures[q] /\ since'[q] = since[q] /\ streak'[q] = streak[q]
  BY <1>1 DEF Stamp, Typed, breaker
<1>4. pc[c] \in Inside /\ Amid(c)
  BY DEF Stamp, Inside, Exact
<1>5. pc'[c] = "check" /\ Even(p)'
  <2>1. 0 # Closed
    BY ConstantsAssumption
  <2>. QED BY <1>1, <1>4, <2>1 DEF Stamp, Typed, PassOver, Go, Amid, Even
<1>. QED BY <1>1, <1>2, <1>3, <1>4, <1>5, AtOne DEF Inside

LEMMA TickExact ==
    ASSUME Typed, Exact, Tick, overlap' = (overlap \/ Collision') PROVE Exact'
<1>. SUFFICES ASSUME ~overlap' PROVE Exact'
  BY DEF Exact
<1>1. UNCHANGED <<failures, streak, pc, call, copy>>
  BY DEF Tick
<1>2. \A p \in Providers : since'[p] = Closed <=> since[p] = Closed
  <2>1. \A n \in Ages : n # Closed /\ n + 1 # Closed
    BY ConstantsAssumption DEF Ages
  <2>. QED BY <2>1 DEF Tick
<1>3. \A p \in Providers : Even(p)' <=> Even(p)
  BY <1>1, <1>2 DEF Even
<1>4. \A p \in Providers : Quiet(p)' <=> Quiet(p)
  BY <1>1 DEF Quiet
<1>5. ASSUME NEW c \in Callers, pc'[c] \in Inside PROVE Amid(c)'
  <2>1. Amid(c) /\ pc[c] \in Inside
    BY <1>1, <1>5 DEF Exact
  <2>2. At(call[c]) \in Providers
    BY <2>1, AtAProvider DEF Typed, CallOK
  <2>. QED BY <1>1, <1>2, <1>3, <2>1, <2>2 DEF Amid
<1>. QED BY <1>3, <1>4, <1>5 DEF Exact

LEMMA ElsewhereExact ==
    ASSUME Typed, Exact, NEW c \in Callers, overlap' = (overlap \/ Collision'),
           \/ Start(c) \/ Exhausted(c) \/ PipeEnds(c) \/ PipeStep(c)
           \/ Responds(c) \/ FailsToRespond(c) \/ Decide(c)
    PROVE  Exact'
<1>1. pc[c] \notin Inside /\ UNCHANGED <<failures, since, streak, copy>>
  BY DEF Start, Route, StartPipe, Ask, Dispatch, Begin, Exhausted, PipeEnds, PipeStep,
         Responds, FailsToRespond, Decide, Inside, breaker
<1>2. pc'[c] \notin Inside /\ \A d \in Callers \ {c} : call'[d] = call[d] /\ pc'[d] = pc[d]
  <2>1. CASE Start(c)
    BY <2>1 DEF Start, Route, StartPipe, Ask, Dispatch, Begin, Go, Return, Inside, Typed
  <2>2. CASE Exhausted(c) \/ PipeEnds(c) \/ Decide(c)
    BY <2>2 DEF Exhausted, PipeEnds, Decide, Go, Return, Inside, Typed
  <2>3. CASE PipeStep(c) \/ FailsToRespond(c)
    BY <1>1, <2>3 DEF PipeStep, FailsToRespond, Typed
  <2>4. CASE Responds(c)
    BY <1>1, <2>4 DEF Responds, Typed
  <2>. QED BY <2>1, <2>2, <2>3, <2>4
<1>. QED BY <1>1, <1>2, Away

LEMMA ExactNext == Typed /\ Exact /\ [Next]_vars => Exact'
<1>. SUFFICES ASSUME Typed, Exact, [Next]_vars PROVE Exact'
  OBVIOUS
<1>1. CASE UNCHANGED vars
  BY <1>1 DEF vars, Exact, Collision, Quiet, Even, Amid
<1>2. CASE Next
  <2>1. overlap' = (overlap \/ Collision')
    BY <1>2 DEF Next
  <2>2. CASE Tick
    BY <2>1, <2>2, TickExact
  <2>3. ASSUME NEW c \in Callers, Start(c) PROVE Exact'
    BY <2>1, <2>3, ElsewhereExact
  <2>4. ASSUME NEW c \in Callers, Continue(c) PROVE Exact'
    BY <2>1, <2>4, ElsewhereExact, CheckExact, ReopenExact, ForgetExact, AnswersExact, CloseExact,
       RaisesExact, StoreExact, TestExact, StampExact DEF Continue
  <2>. QED BY <1>2, <2>2, <2>3, <2>4 DEF Next
<1>. QED BY <1>1, <1>2

LEMMA ExactAlways == Spec => []Exact
BY TypesAlways, ExactInit, ExactNext, PTL DEF Spec

(* Until two threads meet at a circuit, every circuit that nobody is at counts    *)
(* the failures in a row and is open exactly when they are as many as it allows, *)
(* for any number of threads, adapters and failures (routing.py:27-45).          *)
THEOREM BreakerCounts == Spec => []BreakerExact
<1>1. Exact => BreakerExact
  BY DEF Exact, BreakerExact, Quiet, Even
<1>. QED BY <1>1, ExactAlways, PTL

----------------------------------------------------------------------------
(* Whose turn it was.                                                        *)

Rightful(c) == InPreference(c) /\ OwnBindingFirst(c)

(* Of a call that is not done nothing is said.                                 *)
LEMMA PendingRightful ==
    ASSUME NEW c \in Callers, result[c] = Pending PROVE Rightful(c)
BY DEF Rightful, InPreference, OwnBindingFirst

LEMMA SameRightful ==
    ASSUME NEW c \in Callers, Rightful(c), call'[c] = call[c], result'[c] = result[c],
           overlap => overlap'
    PROVE  Rightful(c)'
BY DEF Rightful, InPreference, OwnBindingFirst

(* The loop of fallback and cost_aware returns at its turn, or at its end.       *)
LEMMA LoopRightful ==
    ASSUME Typed, Exact, NEW c \in Callers, overlap' = (overlap \/ Collision'),
           Exhausted(c) \/ Close(c) \/ (Test(c) /\ Return(c, Failed("KeyError")))
    PROVE  Rightful(c)'
<1>. DEFINE k == call[c]
<1>1. call' = call /\ pc[c] \in Working /\ k.how \in Routed /\ k \in CallType
  BY DEF Exhausted, Close, Test, Working, Inside, Typed, CallOK, PassOver, Return, Go
<1>2. k.chain \in Seq(Adapters) /\ Len(k.chain) \in Nat
  BY <1>1 DEF CallType
<1>3. \A i \in Places(k) : i \in Nat /\ Cost[k.chain[i]] \in Nat
  BY <1>2, ConstantsAssumption DEF Places
<1>4. OwnBindingFirst(c)'
  BY <1>1 DEF OwnBindingFirst, Routed
<1>5. CASE Exhausted(c)
  <2>1. result'[c] = Failed("RuntimeError") /\ Left(k) = {}
    BY <1>5 DEF Exhausted, Return, Typed
  <2>2. {i \in Places(k) : k.how = "cost_aware" => Cost[k.chain[i]] >= k.bar} \subseteq k.spent
    BY <2>1 DEF Left
  <2>3. InPreference(c)'
    BY <1>1, <2>1, <2>2 DEF InPreference, Failed, Routed
  <2>. QED BY <1>4, <2>3 DEF Rightful
<1>6. CASE Test(c) /\ Return(c, Failed("KeyError"))
  <2>1. result'[c] = Failed("KeyError") /\ pc'[c] = "idle" /\ pc[c] = "test"
    BY <1>6 DEF Test, Return, Go, Typed
  <2>2. failures[At(k)] = 0
    BY <1>6, <2>1 DEF Test, PassOver, Go, Typed
  <2>3. overlap
    BY <2>1, <2>2 DEF Exact, Amid, Inside
  <2>4. overlap'
    BY <2>3
  <2>5. InPreference(c)'
    BY <1>1, <2>1, <2>4 DEF InPreference, Failed
  <2>. QED BY <1>4, <2>5 DEF Rightful
<1>7. CASE Close(c)
  <2>. DEFINE i == Turn(k)
  <2>1. Left(k) # {} /\ result'[c] = Answered(i)
    BY <1>7 DEF Close, Return, Typed, CallOK, Inside
  <2>2. i \in Left(k) /\ \A j \in Left(k) \ {i} : Before(k, i, j)
    BY <2>1, AtAProvider
  <2>. HIDE DEF i
  <2>3. i \in Places(k) /\ (k.how = "cost_aware" => Cost[k.chain[i]] >= k.bar)
    BY <2>2 DEF Left
  <2>4. ASSUME NEW j \in Places(k), k.how = "fallback", j < i PROVE j \in k.spent
    <3>1. ~Before(k, i, j) /\ j # i
      BY <1>3, <2>3, <2>4 DEF Before
    <3>. QED BY <2>2, <2>4, <3>1 DEF Left
  <2>5. ASSUME NEW j \in Places(k), k.how = "cost_aware", Cost[k.chain[j]] >= k.bar,
               \/ Cost[k.chain[j]] < Cost[k.chain[i]]
               \/ Cost[k.chain[j]] = Cost[k.chain[i]] /\ j < i
        PROVE  j \in k.spent
    <3>1. ~Before(k, i, j) /\ j # i
      BY <1>3, <2>3, <2>5 DEF Before
    <3>. QED BY <2>2, <2>5, <3>1 DEF Left
  <2>6. result'[c].by = i
    BY <2>1 DEF Answered
  <2>. DEFINE eligible == {j \in Places(k) : k.how = "cost_aware" => Cost[k.chain[j]] >= k.bar}
              preferred == IF k.how = "fallback" THEN {j \in Places(k) : j < i}
                           ELSE {j \in eligible : \/ Cost[k.chain[j]] < Cost[k.chain[i]]
                                                  \/ Cost[k.chain[j]] = Cost[k.chain[i]] /\ j < i}
  <2>7. i \in eligible
    BY <2>3
  <2>8. preferred \subseteq k.spent
    BY <1>1, <2>4, <2>5 DEF Routed
  <2>9. InPreference(c)'
    BY <1>1, <2>6, <2>7, <2>8 DEF InPreference
  <2>. QED BY <1>4, <2>9 DEF Rightful
<1>. QED BY <1>5, <1>6, <1>7

(* Dispatch takes the foremost of the adapters bound, its own or the wildcard's.  *)
LEMMA DispatchRightful ==
    ASSUME Typed, NEW c \in Callers, Dispatch(c) PROVE Rightful(c)'
<1>. DEFINE Of(event, target) == {a \in Adapters : \E b \in DOMAIN Bindings :
                /\ Bindings[b].event = event /\ Bindings[b].type = target
                /\ \E n \in DOMAIN Bindings[b].names : Bindings[b].names[n] = a}
<1>1. PICK event \in Events, type \in Types :
        LET places == Resolve(event, type)
            place == Foremost(places)
            chain == IF places = {} THEN <<>>
                     ELSE <<Bindings[place[1]].names[place[2]]>>
        IN  /\ call' = [call EXCEPT ![c] = NewCall("bound", chain, 0, <<event, type>>)]
            /\ \E what \in IF places = {} THEN {Failed("RuntimeError")}
                          ELSE {Answered(1), Failed("adapter's")} : Return(c, what)
  BY DEF Dispatch
<1>. DEFINE places == Resolve(event, type)
            place == Foremost(places)
            chain == IF places = {} THEN <<>> ELSE <<Bindings[place[1]].names[place[2]]>>
            k == NewCall("bound", chain, 0, <<event, type>>)
<1>2. \A target : Named(event, target) = {} => Of(event, target) = {}
  <2>1. ASSUME NEW target, NEW a \in Of(event, target) PROVE Named(event, target) # {}
    <3>1. PICK b \in DOMAIN Bindings :
             /\ Bindings[b].event = event /\ Bindings[b].type = target
             /\ \E n \in DOMAIN Bindings[b].names : Bindings[b].names[n] = a
      OBVIOUS
    <3>2. PICK n \in DOMAIN Bindings[b].names : Bindings[b].names[n] = a
      BY <3>1
    <3>3. n \in 1..MostNames /\ Bindings[b].names[n] \in Adapters
      BY <3>2, ConstantsAssumption
    <3>4. <<b, n>> \in Named(event, target)
      BY <3>1, <3>2, <3>3 DEF Named
    <3>. QED BY <3>4
  <2>. QED BY <2>1
<1>3. \A target, x : x \in Named(event, target)
        => Bindings[x[1]].names[x[2]] \in Of(event, target)
  BY DEF Named
<1>4. ASSUME places # {}
      PROVE  Bindings[place[1]].names[place[2]]
               \in Of(event, IF Named(event, type) # {} THEN type ELSE "*")
  <2>1. place \in Named(event, IF Named(event, type) # {} THEN type ELSE "*")
    BY <1>4, Bound
  <2>. HIDE DEF Of, place, places
  <2>. QED BY <1>3, <2>1
<1>5. call'[c] = k
  BY <1>1 DEF Typed
<1>6. k.how = "bound" /\ k.chain = chain /\ k.asked = <<event, type>>
  BY DEF NewCall
<1>7. result'[c] \in IF places = {} THEN {Failed("RuntimeError")}
                     ELSE {Answered(1), Failed("adapter's")}
  BY <1>1 DEF Return, Typed
<1>8. places = {} => Named(event, type) = {} /\ Named(event, "*") = {}
  BY DEF Resolve
<1>9. places # {} => chain[1] = Bindings[place[1]].names[place[2]]
  OBVIOUS
<1>10. Named(event, type) # {} => Of(event, type) # {}
  <2>. HIDE DEF Of
  <2>. QED BY <1>3
<1>. HIDE DEF k, chain, place, places, Of
<1>11. InPreference(c)'
  BY <1>5, <1>6 DEF InPreference
<1>12. IF result'[c].error = "RuntimeError" THEN Of(event, type) = {} /\ Of(event, "*") = {}
       ELSE IF Of(event, type) # {} THEN chain[1] \in Of(event, type)
       ELSE chain[1] \in Of(event, "*")
  <2>1. CASE places = {}
    BY <1>2, <1>7, <1>8, <2>1 DEF Failed
  <2>2. CASE places # {}
    <3>1. result'[c].error # "RuntimeError"
      BY <1>7, <2>2 DEF Failed, Answered
    <3>. QED BY <1>2, <1>4, <1>9, <1>10, <2>2, <3>1
  <2>. QED BY <2>1, <2>2
<1>13. OwnBindingFirst(c)'
  BY <1>5, <1>6, <1>12 DEF OwnBindingFirst, Of
<1>. QED BY <1>11, <1>13 DEF Rightful

(* Of a call of another strategy nothing is said, and of one that is not done.    *)
LEMMA OtherwiseRightful ==
    ASSUME Typed, NEW c \in Callers,
           \/ Route(c) \/ StartPipe(c) \/ Ask(c) \/ Check(c) \/ Reopen(c) \/ Forget(c)
           \/ Answers(c) \/ Raises(c) \/ Store(c) \/ Test(c) \/ Stamp(c)
           \/ PipeEnds(c) \/ PipeStep(c) \/ Responds(c) \/ FailsToRespond(c) \/ Decide(c),
           ~(Test(c) /\ Return(c, Failed("KeyError")))
    PROVE  Rightful(c)'
<1>1. CASE Route(c) \/ StartPipe(c) \/ Ask(c)
  <2>1. result'[c] = Pending
    BY <1>1 DEF Route, StartPipe, Ask, Begin, Typed
  <2>. QED BY <2>1 DEF Rightful, InPreference, OwnBindingFirst
<1>2. CASE PipeEnds(c) \/ Decide(c)
  <2>1. call'[c].how \notin Routed /\ call'[c].how # "bound"
    BY <1>2 DEF PipeEnds, Decide, Typed, CallOK, Routed
  <2>. QED BY <2>1 DEF Rightful, InPreference, OwnBindingFirst, Routed
<1>3. CASE \/ Check(c) \/ Reopen(c) \/ Forget(c) \/ Answers(c) \/ Raises(c) \/ Store(c)
           \/ Test(c) \/ Stamp(c) \/ PipeStep(c) \/ Responds(c) \/ FailsToRespond(c)
  <2>1. pc[c] # "idle"
    BY <1>3 DEF Check, Reopen, Forget, Answers, Raises, Store, Test, Stamp, PipeStep,
                Responds, FailsToRespond
  <2>2. result'[c] = result[c]
    BY <1>3 DEF Check, Reopen, Forget, Answers, Raises, Store, Test, Stamp, PipeStep,
                Responds, FailsToRespond
  <2>3. result'[c] = Pending
    BY <2>1, <2>2 DEF Typed, CallOK
  <2>. QED BY <2>3 DEF Rightful, InPreference, OwnBindingFirst
<1>. QED BY <1>1, <1>2, <1>3

(* A step leaves the calls of the other threads alone.                          *)
LEMMA OthersLeft ==
    ASSUME Typed, NEW c \in Callers, Start(c) \/ Continue(c)
    PROVE  \A d \in Callers \ {c} : call'[d] = call[d] /\ result'[d] = result[d]
<1>1. CASE Start(c)
  BY <1>1 DEF Start, Route, StartPipe, Ask, Dispatch, Begin, Go, Return, Typed
<1>2. CASE Continue(c)
  BY <1>2 DEF Continue, Exhausted, Check, Reopen, Forget, Answers, Close, Raises, Store, Test,
              Stamp, PipeEnds, PipeStep, Responds, FailsToRespond, Decide, PassOver, Go, Return, Typed
<1>. QED BY <1>1, <1>2

LEMMA RightfulNext ==
    Typed /\ Exact /\ NobodyLeftOut /\ [Next]_vars => NobodyLeftOut'
<1>. SUFFICES ASSUME Typed, Exact, NobodyLeftOut, [Next]_vars, NEW d \in Callers PROVE Rightful(d)'
  BY DEF NobodyLeftOut, Rightful
<1>1. Rightful(d)
  BY DEF NobodyLeftOut, Rightful
<1>2. CASE UNCHANGED vars
  BY <1>1, <1>2, SameRightful DEF vars
<1>3. CASE Next
  <2>1. overlap' = (overlap \/ Collision')
    BY <1>3 DEF Next
  <2>2. overlap => overlap'
    BY <2>1
  <2>3. CASE Tick
    BY <1>1, <2>2, <2>3, SameRightful DEF Tick
  <2>4. ASSUME NEW c \in Callers, Start(c) \/ Continue(c) PROVE Rightful(d)'
    <3>1. CASE c # d
      BY <1>1, <2>2, <2>4, <3>1, OthersLeft, SameRightful
    <3>2. CASE c = d
      BY <2>1, <2>4, <3>2, LoopRightful, DispatchRightful, OtherwiseRightful DEF Start, Continue
    <3>. QED BY <3>1, <3>2
  <2>. QED BY <1>3, <2>3, <2>4 DEF Next
<1>. QED BY <1>2, <1>3

(* An answer of fallback or cost_aware comes from the adapter whose turn it was,  *)
(* all it prefers having raised or being shut out, and an event is handled by     *)
(* one of its own adapters before the wildcard's; only threads that meet at a    *)
(* circuit can cost a call its backups (routing.py:190-261, lifecycle.py:34-84).  *)
THEOREM TurnKept == Spec => []NobodyLeftOut
<1>1. Init => NobodyLeftOut
  <2>1. Init => \A c \in Callers : result[c] = Pending
    BY DEF Init
  <2>2. (\A c \in Callers : result[c] = Pending) => NobodyLeftOut
    BY PendingRightful DEF NobodyLeftOut, Rightful
  <2>. QED BY <2>1, <2>2
<1>. QED BY <1>1, RightfulNext, TypesAlways, ExactAlways, PTL DEF Spec

----------------------------------------------------------------------------
(* The consensus.                                                            *)

(* Of finitely many things with a number some has the greatest.                 *)
LEMMA Greatest ==
    ASSUME NEW S, IsFiniteSet(S), NEW f \in [S -> Nat], NEW T \in SUBSET S, T # {}
    PROVE  \E i \in T : \A j \in T : f[j] <= f[i]
<1>. DEFINE UpTo(i) == {j \in T : f[j] <= f[i]}
            Rest == {Cardinality(T) - Cardinality(UpTo(i)) : i \in T}
<1>1. IsFiniteSet(T) /\ Cardinality(T) \in Nat
  BY FS_Subset, FS_CardinalityType
<1>2. ASSUME NEW i \in T
      PROVE  /\ IsFiniteSet(UpTo(i)) /\ Cardinality(UpTo(i)) \in Nat
             /\ Cardinality(UpTo(i)) <= Cardinality(T)
  <2>1. UpTo(i) \in SUBSET T
    OBVIOUS
  <2>. HIDE DEF UpTo
  <2>. QED BY <1>1, <2>1, FS_Subset, FS_CardinalityType
<1>3. Rest \subseteq Nat /\ Rest # {}
  <2>. HIDE DEF UpTo
  <2>. QED BY <1>1, <1>2
<1>4. PICK n \in Rest : \A m \in Rest : n <= m
  <2>. HIDE DEF Rest
  <2>. QED BY <1>3, LeastNatural
<1>5. PICK i \in T : n = Cardinality(T) - Cardinality(UpTo(i))
  OBVIOUS
<1>6. ASSUME NEW j \in T, f[i] < f[j] PROVE FALSE
  <2>1. UpTo(i) \in SUBSET UpTo(j) /\ j \in UpTo(j) /\ j \notin UpTo(i)
    BY <1>6
  <2>2. Cardinality(T) - Cardinality(UpTo(j)) \in Rest
    OBVIOUS
  <2>. HIDE DEF UpTo, Rest
  <2>3. Cardinality(UpTo(i)) <= Cardinality(UpTo(j)) /\ Cardinality(UpTo(i)) # Cardinality(UpTo(j))
    BY <1>2, <2>1, FS_Subset
  <2>4. n <= Cardinality(T) - Cardinality(UpTo(j))
    BY <1>4, <2>2
  <2>. QED BY <1>1, <1>2, <1>5, <2>3, <2>4
<1>7. \A j \in T : f[j] \in Nat /\ f[i] \in Nat
  OBVIOUS
<1>. QED BY <1>6, <1>7

(* Where anyone answered, the median is the length of one of the answers.        *)
LEMMA MedianIsOne ==
    ASSUME NEW S, IsFiniteSet(S), S # {}, NEW f \in [S -> Nat]
    PROVE  Median(f) \in {f[i] : i \in S}
<1>. DEFINE Below(n) == {i \in S : f[i] < n}
            UpTo(n) == {i \in S : f[i] <= n}
            half == Cardinality(S) \div 2
            Values == {f[i] : i \in S}
            Big == {n \in Values : half < Cardinality(UpTo(n))}
<1>1. Cardinality(S) \in Nat /\ Cardinality(S) # 0 /\ half \in Nat /\ half < Cardinality(S)
  BY FS_CardinalityType, FS_EmptySet
<1>2. \A n : /\ Cardinality(UpTo(n)) \in Nat /\ Cardinality(Below(n)) \in Nat
             /\ IsFiniteSet(UpTo(n)) /\ IsFiniteSet(Below(n))
  <2>1. \A n : UpTo(n) \in SUBSET S /\ Below(n) \in SUBSET S
    OBVIOUS
  <2>. HIDE DEF UpTo, Below
  <2>. QED BY <2>1, FS_Subset, FS_CardinalityType
<1>. HIDE DEF half
<1>3. Big # {}
  <2>1. PICK i \in S : \A j \in S : f[j] <= f[i]
    BY Greatest
  <2>2. UpTo(f[i]) = S
    BY <2>1
  <2>. QED BY <1>1, <2>2
<1>4. PICK m \in Big : \A n \in Big : m <= n
  <2>1. Big \subseteq Nat
    OBVIOUS
  <2>. HIDE DEF Big
  <2>. QED BY <1>3, <2>1, LeastNatural
<1>5. ASSUME half < Cardinality(Below(m)) PROVE FALSE
  <2>1. Below(m) # {}
    <3>. HIDE DEF Below
    <3>. QED BY <1>1, <1>2, <1>5, FS_EmptySet
  <2>2. PICK i \in Below(m) : \A j \in Below(m) : f[j] <= f[i]
    <3>1. Below(m) \in SUBSET S
      OBVIOUS
    <3>. HIDE DEF Below
    <3>. QED BY <2>1, <3>1, Greatest
  <2>3. Below(m) \in SUBSET UpTo(f[i]) /\ f[i] \in Values /\ f[i] < m
    BY <2>2
  <2>4. f[i] \notin Big
    <3>1. m \in Nat /\ f[i] \in Nat
      OBVIOUS
    <3>. HIDE DEF Big
    <3>. QED BY <1>4, <2>3, <3>1
  <2>5. ~(half < Cardinality(UpTo(f[i])))
    BY <2>3, <2>4
  <2>. HIDE DEF Below, UpTo
  <2>6. Cardinality(Below(m)) <= Cardinality(UpTo(f[i]))
    BY <1>2, <2>3, FS_Subset
  <2>. QED BY <1>1, <1>2, <1>5, <2>5, <2>6
<1>6. m \in Values /\ Cardinality(Below(m)) <= half /\ half < Cardinality(UpTo(m))
  <2>1. half < Cardinality(UpTo(m)) /\ m \in Values
    OBVIOUS
  <2>. HIDE DEF Below, UpTo
  <2>. QED BY <1>1, <1>2, <1>5, <2>1
<1>7. DOMAIN f = S
  OBVIOUS
<1>. QED BY <1>6, <1>7 DEF Median, half

(* Within a fifth of the median, no two are more than half as long again.         *)
LEMMA AgreeingAlike ==
    ASSUME NEW S, IsFiniteSet(S), NEW f \in [S -> Nat]
    PROVE  /\ Agreeing(f) \in SUBSET S
           /\ \A i, j \in Agreeing(f) : 2 * f[i] <= 3 * f[j]
<1>1. Agreeing(f) \in SUBSET S
  BY DEF Agreeing
<1>2. ASSUME NEW i \in Agreeing(f), NEW j \in Agreeing(f) PROVE 2 * f[i] <= 3 * f[j]
  <2>1. Median(f) \in Nat /\ f[i] \in Nat /\ f[j] \in Nat
    BY <1>1, MedianIsOne
  <2>2. 5 * Distance(f[i], Median(f)) <= Median(f) /\ 5 * Distance(f[j], Median(f)) <= Median(f)
    BY DEF Agreeing
  <2>. QED BY <2>1, <2>2 DEF Distance
<1>. QED BY <1>1, <1>2

(* Where all answered alike, all agree.                                        *)
LEMMA AlikeAgree ==
    ASSUME NEW S, IsFiniteSet(S), S # {}, NEW f \in [S -> Nat], NEW n, \A i \in S : f[i] = n
    PROVE  Agreeing(f) = S
<1>1. Median(f) = n /\ n \in Nat
  BY MedianIsOne
<1>. QED BY <1>1 DEF Agreeing, Distance

LEMMA Percentage ==
    ASSUME NEW n \in Nat, NEW percent \in 0..100 PROVE 100 * n >= percent * n
OBVIOUS

LEMMA DecideAgrees ==
    ASSUME Typed, NEW c \in Callers, Decide(c) PROVE Agrees(c)'
<1>. DEFINE k == call[c]
            S == DOMAIN k.lengths
            agreeing == Agreeing(k.lengths)
            enough == 100 * Cardinality(agreeing) >= k.bar * Len(k.chain)
<1>1. /\ CallOK(c) /\ k.how = "parallel_consensus" /\ k \in CallType /\ k.bar \in 0..100
      /\ Left(k) = {} /\ call' = call
  BY ConstantsAssumption DEF Decide, Typed, CallOK
<1>2. /\ Places(k) = 1..Len(k.chain) /\ Len(k.chain) \in Nat /\ S \in SUBSET Places(k)
      /\ IsFiniteSet(Places(k)) /\ Cardinality(Places(k)) = Len(k.chain)
  <2>1. Len(k.chain) \in Nat
    BY <1>1 DEF CallType
  <2>2. S \in SUBSET Places(k)
    BY <1>1 DEF CallOK
  <2>3. Places(k) = 1..Len(k.chain)
    BY DEF Places
  <2>. HIDE DEF k
  <2>4. IsFiniteSet(1..Len(k.chain)) /\ Cardinality(1..Len(k.chain)) = Len(k.chain)
    BY <2>1, FS_Interval
  <2>. QED BY <2>1, <2>2, <2>3, <2>4
<1>3. IsFiniteSet(S) /\ k.lengths \in [S -> Nat]
  <2>1. k.lengths \in [S -> Nat]
    <3>1. k.lengths \in UNION {[T -> Lengths] : T \in SUBSET Nat}
      BY <1>1 DEF CallType
    <3>. HIDE DEF k
    <3>2. PICK T \in SUBSET Nat : k.lengths \in [T -> Lengths]
      BY <3>1
    <3>. QED BY <3>2, ConstantsAssumption
  <2>. QED BY <1>2, <2>1, FS_Subset
<1>4. result'[c] = IF Places(k) = {} THEN Failed("ValueError")
                   ELSE IF k.first = 0 THEN Failed("RuntimeError")
                   ELSE IF enough THEN Answered(k.first)
                   ELSE Failed("ValueError")
  BY DEF Decide, Return, Typed
<1>5. ASSUME result'[c].by # 0
      PROVE  \E T \in SUBSET S :
                /\ \A i, j \in T : 2 * k.lengths[i] <= 3 * k.lengths[j]
                /\ 100 * Cardinality(T) >= k.bar * Len(k.chain)
  <2>1. enough
    <3>. HIDE DEF enough, k
    <3>. QED BY <1>4, <1>5 DEF Failed
  <2>2. agreeing \in SUBSET S /\ \A i, j \in agreeing : 2 * k.lengths[i] <= 3 * k.lengths[j]
    <3>. HIDE DEF k
    <3>. QED BY <1>3, AgreeingAlike
  <2>. HIDE DEF agreeing, k
  <2>. QED BY <2>1, <2>2
<1>6. ASSUME result'[c].error = "ValueError", Places(k) # {},
             NEW n \in Lengths, \A i \in Places(k) : i \in S /\ k.lengths[i] = n
      PROVE  FALSE
  <2>1. S = Places(k) /\ S # {} /\ \A i \in S : k.lengths[i] = n
    BY <1>2, <1>6
  <2>2. agreeing = Places(k)
    <3>. HIDE DEF k
    <3>. QED BY <1>3, <2>1, AlikeAgree
  <2>3. enough
    <3>. HIDE DEF k, agreeing
    <3>. QED BY <1>1, <1>2, <2>2, Percentage
  <2>. HIDE DEF enough, k
  <2>. QED BY <1>4, <1>6, <2>3 DEF Failed, Answered
<1>7. ASSUME result'[c].error = "RuntimeError" PROVE S = {}
  <2>1. k.first = 0
    <3>. HIDE DEF enough, k
    <3>. QED BY <1>4, <1>7 DEF Failed, Answered
  <2>. QED BY <1>1, <2>1 DEF CallOK
<1>8. call'[c] = k
  BY <1>1
<1>. HIDE DEF k
<1>. QED BY <1>5, <1>6, <1>7, <1>8 DEF Agrees

LEMMA AgreesNext ==
    Typed /\ AcceptedAgrees /\ [Next]_vars => AcceptedAgrees'
<1>. SUFFICES ASSUME Typed, AcceptedAgrees, [Next]_vars, NEW d \in Callers PROVE Agrees(d)'
  BY DEF AcceptedAgrees
<1>1. Agrees(d)
  BY DEF AcceptedAgrees
<1>2. ASSUME call'[d] = call[d], result'[d] = result[d] PROVE Agrees(d)'
  BY <1>1, <1>2 DEF Agrees
<1>3. ASSUME result'[d] = Pending PROVE Agrees(d)'
  BY <1>3 DEF Agrees, Pending
<1>4. CASE UNCHANGED vars
  BY <1>2, <1>4 DEF vars
<1>5. CASE Next
  <2>1. CASE Tick
    BY <1>2, <2>1 DEF Tick
  <2>2. ASSUME NEW c \in Callers, Start(c) \/ Continue(c), c # d PROVE Agrees(d)'
    BY <1>2, <2>2, OthersLeft
  <2>3. CASE Start(d)
    <3>1. CASE Dispatch(d)
      <4>1. call'[d].how = "bound"
        BY <3>1 DEF Dispatch, NewCall, Typed
      <4>. QED BY <4>1 DEF Agrees
    <3>2. CASE Route(d) \/ StartPipe(d) \/ Ask(d)
      <4>1. result'[d] = Pending
        BY <3>2 DEF Route, StartPipe, Ask, Begin, Typed
      <4>. QED BY <1>3, <4>1
    <3>. QED BY <2>3, <3>1, <3>2 DEF Start
  <2>4. CASE Continue(d)
    <3>1. CASE Decide(d)
      BY <3>1, DecideAgrees
    <3>2. CASE Responds(d) \/ FailsToRespond(d)
      <4>1. pc[d] # "idle" /\ result'[d] = result[d]
        BY <3>2 DEF Responds, FailsToRespond
      <4>. QED BY <1>3, <4>1 DEF Typed, CallOK
    <3>3. CASE \/ Exhausted(d) \/ Check(d) \/ Reopen(d) \/ Forget(d) \/ Answers(d) \/ Close(d)
               \/ Raises(d) \/ Store(d) \/ Test(d) \/ Stamp(d) \/ PipeEnds(d) \/ PipeStep(d)
      <4>1. call[d].how # "parallel_consensus" /\ call[d] \in CallType
        BY <3>3 DEF Exhausted, Check, Reopen, Forget, Answers, Close, Raises, Store, Test, Stamp,
                    PipeEnds, PipeStep, Typed, CallOK, Working, Inside, Routed
      <4>2. call'[d].how = call[d].how
        BY <3>3, <4>1 DEF Exhausted, Check, Reopen, Forget, Answers, Close, Raises, Store, Test,
                    Stamp, PipeEnds, PipeStep, PassOver, Typed, CallType
      <4>. QED BY <4>1, <4>2 DEF Agrees
    <3>. QED BY <2>4, <3>1, <3>2, <3>3 DEF Continue
  <2>. QED BY <1>5, <2>1, <2>2, <2>3, <2>4 DEF Next
<1>. QED BY <1>4, <1>5

(* An accepted consensus is one of as many alike as the threshold wants of all    *)
(* that were asked, and only want of answers or of likeness refuses it          *)
(* (routing.py:89-146).                                                       *)
THEOREM ConsensusKept == Spec => []AcceptedAgrees
<1>1. Init => AcceptedAgrees
  BY DEF Init, AcceptedAgrees, Agrees, NoCall, NewCall
<1>. QED BY <1>1, AgreesNext, TypesAlways, PTL DEF Spec

=============================================================================
