---------------------------- MODULE MCConvergence ----------------------------
(* Small instances of Convergence: two gates, answers of every kind.         *)
EXTENDS Convergence, TLC

CONSTANTS g1, g2, vague, precise

Answer(status, failed, issues, broken) ==
    [status |-> status, failed |-> failed, issues |-> issues, broken |-> broken]

MCVerdicts ==
    { Answer("PASS", {}, {}, FALSE),
      Answer("FAIL", {g1}, {<<g1, vague>>}, FALSE),
      Answer("FAIL", {g1}, {<<g1, precise>>}, FALSE),
      Answer("FAIL", {g1, g2}, {<<g1, vague>>, <<g2, vague>>}, FALSE),
      Answer("FAIL", {g2}, {}, TRUE),
      Answer("UNKNOWN", {}, {}, FALSE) }

(* A lens that fails a draft says why.                                       *)
MCLensVerdicts ==
    { Answer("PASS", {}, {}, FALSE),
      Answer("FAIL", {}, {<<g1, vague>>}, FALSE),
      Answer("UNKNOWN", {}, {}, FALSE) }

(* A lens fails a draft and lists no issue, or none that can be read.         *)
MCLensVerdictsAny ==
    MCLensVerdicts \cup {Answer("FAIL", {}, {}, FALSE), Answer("FAIL", {}, {}, TRUE)}
=============================================================================
