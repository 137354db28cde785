------------------------------ MODULE LeaseLock ------------------------------
(****************************************************************************)
(* What the initiative lock promises its drivers: it passes from one owner    *)
(* to another only by a release, or once the owner's claim has lapsed and a   *)
(* stand-down has been posted for it.                                        *)
(****************************************************************************)
CONSTANTS Sessions, NoOne

VARIABLES
    owner,      \* the session that owns the initiative, or NoOne
    lapsed,     \* the owner's claim may be set aside
    posted      \* a stand-down is posted

vars == <<owner, lapsed, posted>>

Init ==
    /\ owner = NoOne
    /\ lapsed = FALSE
    /\ posted = FALSE

Grant(s) ==
    /\ owner = NoOne
    /\ owner' = s
    /\ UNCHANGED <<lapsed, posted>>

Release(s) ==
    /\ owner = s
    /\ owner' = NoOne
    /\ lapsed' = FALSE
    /\ UNCHANGED posted

Renew(s) ==
    /\ owner = s
    /\ lapsed' = FALSE
    /\ UNCHANGED <<owner, posted>>

Displace(s) ==
    /\ owner \notin {NoOne, s}
    /\ lapsed /\ posted
    /\ owner' = s
    /\ lapsed' = FALSE
    /\ UNCHANGED posted

Lapse ==
    /\ owner # NoOne
    /\ lapsed' = TRUE
    /\ UNCHANGED <<owner, posted>>

Post ==
    /\ lapsed
    /\ posted' = TRUE
    /\ UNCHANGED <<owner, lapsed>>

Withdraw ==
    /\ posted' = FALSE
    /\ UNCHANGED <<owner, lapsed>>

Next ==
    \/ \E s \in Sessions : Grant(s) \/ Release(s) \/ Renew(s) \/ Displace(s)
    \/ Lapse \/ Post \/ Withdraw

Spec == Init /\ [][Next]_vars
=============================================================================
