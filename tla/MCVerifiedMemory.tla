-------------------------- MODULE MCVerifiedMemory --------------------------
(***************************************************************************)
(* Instances of VerifiedMemory for TLC.                                    *)
(***************************************************************************)
EXTENDS VerifiedMemory, TLC

CONSTANTS page, note, rumor, boss, pref, sub

Claims(kind, content, source, parent) ==
    [kind |-> kind, content |-> content, source |-> source, parent |-> parent]

\* The part of a catalogue that the instance's Item names.
Only(catalogue) == [i \in Item |-> catalogue[i]]

\* A web claim, a note the agent derived from it, and a web page repeating the
\* note's text, which it is not competent to assert.
FlowProfile == Only(
       (page :> Claims("third-party", "paris", "url", None))
    @@ (note :> Claims("agent-observed", "likes", None, page))
    @@ (rumor :> Claims("third-party", "likes", "url", None)))
FlowRejects == {<<"likes", "third-party">>}

\* An operator's rule, a user saying the same, and a subagent's summary.
TrustProfile == Only(
       (boss :> Claims("operator", "rule", None, None))
    @@ (pref :> Claims("user-direct", "rule", None, None))
    @@ (sub :> Claims("subagent", "summary", "url", pref)))

\* A chain of derivations.
ChainProfile == Only(
       (page :> Claims("third-party", "paris", "url", None))
    @@ (note :> Claims("agent-observed", "likes", None, page))
    @@ (pref :> Claims("user-direct", "rule", None, note)))

SameText == {<<c, c>> : c \in Content}
NeverReaffirmed == [i \in Item |-> 0]
PrefReaffirmed == [i \in Item |-> IF i = pref THEN 4 ELSE 0]
OneTick == [ks \in Kind \X BOOLEAN |-> 1]
SensitiveFaster == [ks \in Kind \X BOOLEAN |-> IF ks[2] THEN 1 ELSE 2]
=============================================================================
