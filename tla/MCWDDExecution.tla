---------------------------- MODULE MCWDDExecution ----------------------------
(* A small plan for WDDExecution: a group that is phase_sync because its items *)
(* touch one file, then an independent one with a human item.                  *)
EXTENDS WDDExecution, TLC

CONSTANTS a, b, c, h, f

MCGroupOf == [i \in Items |-> IF i \in {c, h} THEN 2 ELSE 1]

MCMode == <<"independent", "independent">>

MCFiles == [i \in Items |-> IF i \in {a, b} THEN {f} ELSE {}]

=============================================================================
