--------------------------- MODULE FreezeAuthority ---------------------------
(****************************************************************************)
(* What the freeze boundary promises a reader of the initiative, with every  *)
(* call one atomic step: content is revised only while it is not frozen and   *)
(* only on top of frozen upstream artifacts, it is frozen only with content   *)
(* a human approved, and what is frozen stays.                               *)
(****************************************************************************)
CONSTANTS Types, Upstream, Bodies, Blank

VARIABLES
    content,    \* the body of each artifact, Blank while it does not exist
    frozen,     \* the artifacts that are frozen
    approved    \* the <<artifact, body>> pairs a human approved

vars == <<content, frozen, approved>>

Init ==
    /\ content = [t \in Types |-> Blank]
    /\ frozen = {}
    /\ approved = {}

Revise(t, b) ==
    /\ t \notin frozen
    /\ Upstream[t] \subseteq frozen
    /\ content' = [content EXCEPT ![t] = b]
    /\ UNCHANGED <<frozen, approved>>

Approve(t) ==
    /\ content[t] # Blank
    /\ approved' = approved \cup {<<t, content[t]>>}
    /\ UNCHANGED <<content, frozen>>

Freeze(t) ==
    /\ <<t, content[t]>> \in approved
    /\ frozen' = frozen \cup {t}
    /\ UNCHANGED <<content, approved>>

Next ==
    \/ \E t \in Types, b \in Bodies : Revise(t, b)
    \/ \E t \in Types : Approve(t) \/ Freeze(t)

Spec == Init /\ [][Next]_vars
=============================================================================
