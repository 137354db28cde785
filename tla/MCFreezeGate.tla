---------------------------- MODULE MCFreezeGate ----------------------------
(* Small instances of FreezeGate: a PRD and the SAD that requires it.        *)
EXTENDS FreezeGate, TLC

CONSTANTS prd, sad, b1, b2, d1, d2, alice

(* invariants.UPSTREAM_DEPENDENCIES restricted to the two types.             *)
MCUpstream == prd :> {} @@ sad :> {prd}

MCUpstreamNone == [t \in Types |-> {}]

(* A decision that may freeze, and one for each reason to refuse it.         *)
MCSubmissions ==
    LET Sound == [outcome |-> "APPROVE", by |-> alice, auto |-> FALSE]
    IN {Sound, [Sound EXCEPT !.outcome = "BLOCK"], [Sound EXCEPT !.by = NoOne],
        [Sound EXCEPT !.auto = TRUE]}

Symmetry == Permutations(Bodies) \cup Permutations(Drivers)
=============================================================================
