------------------------------- MODULE MCRouting -------------------------------
(* An instance of Routing: two threads on one engine and three adapters, two of *)
(* them of one provider; the strategies that do not touch the breaker alone.    *)
EXTENDS Routing

MCProvider == [a |-> "p", b |-> "q", b2 |-> "q"]
MCCost == [a |-> 2, b |-> 1, b2 |-> 2]
MCChains == [t1 |-> {<<"a", "b", "b2">>, <<>>}, t2 |-> {<<"b2", "a">>}]

MCUses ==
    {[t1 |-> "fallback", t2 |-> "fallback"]}
    \cup {[t1 |-> how, t2 |-> "none"] : how \in Strategies \ {"fallback", "none"}}

MCBindings ==
    <<[event |-> "pre", type |-> "*", names |-> <<"gone", "a">>],
      [event |-> "pre", type |-> "PRD", names |-> <<"gone">>],
      [event |-> "post", type |-> "PRD", names |-> <<>>],
      [event |-> "pre", type |-> "TDD", names |-> <<"b", "a">>],
      [event |-> "pre", type |-> "PRD", names |-> <<"gone", "b2">>]>>

MCLengths == {0, 10, 12, 16}

=============================================================================
