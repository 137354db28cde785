---------------------------- MODULE MCAutoResearch ----------------------------
(* An instance of AutoResearch: rounds of two, a budget of five that no number  *)
(* of full rounds uses up and one of none.                                    *)
EXTENDS AutoResearch

MCValues == 0..2
MCBudgets == {0, 5}

=============================================================================
