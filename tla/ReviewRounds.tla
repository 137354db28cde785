----------------------------- MODULE ReviewRounds -----------------------------
(****************************************************************************)
(* What the convergence loop promises its caller: at most budget drafts, a    *)
(* new draft only after somebody objected to the last one, and acceptance of  *)
(* a draft nobody objected to.                                               *)
(****************************************************************************)
EXTENDS Naturals

VARIABLES
    budget,     \* the most drafts there may be
    drafts,     \* how many there have been
    objectors,  \* the judges that object to the last draft
    standing    \* "open", or how the rounds ended

vars == <<budget, drafts, objectors, standing>>

Init ==
    /\ budget \in Nat
    /\ drafts = 0
    /\ objectors = {}
    /\ standing = "open"

Draft ==
    /\ drafts < budget
    /\ drafts = 0 \/ objectors # {}
    /\ drafts' = drafts + 1
    /\ objectors' = {}
    /\ UNCHANGED <<budget, standing>>

Object ==
    /\ drafts > 0
    /\ objectors \subseteq objectors'
    /\ UNCHANGED <<budget, drafts, standing>>

Accept ==
    /\ drafts > 0
    /\ objectors = {}
    /\ standing' = "accepted"
    /\ UNCHANGED <<budget, drafts, objectors>>

Reject ==
    /\ drafts = budget /\ drafts > 0
    /\ objectors' # {} /\ objectors \subseteq objectors'
    /\ standing' = "rejected"
    /\ UNCHANGED <<budget, drafts>>

(* An answer that is missing, cut off or unusable ends the rounds.            *)
Abort ==
    /\ drafts' \in {drafts, drafts + 1} /\ drafts' <= budget
    /\ standing' = "aborted"
    /\ UNCHANGED budget

Next == standing = "open" /\ (Draft \/ Object \/ Accept \/ Reject \/ Abort)

Spec == Init /\ [][Next]_vars
=============================================================================
