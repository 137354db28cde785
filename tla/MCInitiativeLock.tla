-------------------------- MODULE MCInitiativeLock --------------------------
(* Small instances of InitiativeLock: two sessions of one host and a third    *)
(* on another.                                                               *)
EXTENDS InitiativeLock, TLC

CONSTANTS s1, s2, s3, here, there

MCHostOf == [s \in Sessions |-> IF s = s3 THEN there ELSE here]

MCNoSkew == [h \in Hosts |-> 0]

MCSkew == [h \in Hosts |-> IF h = there THEN 1 ELSE 0]
=============================================================================
