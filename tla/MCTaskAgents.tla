----------------------------- MODULE MCTaskAgents -----------------------------
(* A harness process with a task, and another process that registers.          *)
EXTENDS TaskAgents, TLC

CONSTANTS p, q, v1, w1, a, b, s, tag, t, ref

Attested(version, action, contract_version, signer) ==
    [subject |-> version, contract |-> action, contract_version |-> contract_version,
     signer |-> signer]

Plain(version, capabilities, context, attestation) ==
    [version |-> version, capabilities |-> capabilities, context |-> context,
     attestation |-> attestation]

(* v1 claims both actions or one of them, as when it is registered once for     *)
(* each, and in another context; w1 competes for a.  One attestation is not to   *)
(* be trusted.                                                               *)
MCEntries ==
    {Plain(v1, {a, b}, {tag}, Attested(v1, b, 2, s)),
     Plain(v1, {b}, {}, Attested(v1, b, 1, s)),
     Plain(w1, {a}, {tag}, Attested(w1, a, 1, s)),
     Plain(w1, {a}, {}, Unusable)}

MCTrusted == p :> {s} @@ q :> {s}

Policy == [current |-> 2, cutover |-> 1 :> 1]

MCContracts == p :> (a :> [current |-> 1, cutover |-> <<>>] @@ b :> Policy)
            @@ q :> (a :> [current |-> 1, cutover |-> <<>>] @@ b :> Policy)

MCProcessOf == [task \in Tasks |-> p]

MCActionOf == [task \in Tasks |-> a]

MCContextOf == [task \in Tasks |-> {tag}]

MCAdapterOf == v1 :> v1 @@ w1 :> w1

MCEvidence == {<<ref>>}
=============================================================================
