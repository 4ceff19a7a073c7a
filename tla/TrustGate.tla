----------------------------- MODULE TrustGate -----------------------------
(***************************************************************************)
(* What verified memory promises, and nothing about how it keeps it        *)
(* (PLAN.md 4.2): a claim is believed - shown to the agent as durable      *)
(* memory - only on grounds its trust tier accepts, however it got there,  *)
(* however often it was withdrawn and readmitted.                          *)
(***************************************************************************)
EXTENDS Naturals

CONSTANTS Item,     \* the claims
          TierOf,   \* the trust tier of each claim
          Needed    \* confirmations a third-party (T3) claim needs

VARIABLES believed,    \* the claims in durable memory
          evidence,    \* how many verifications approved each claim
          consent,     \* the claims a user approved explicitly
          signatures   \* operator signatures checked for each claim

gateVars == <<believed, evidence, consent, signatures>>

\* The grounds on which a claim of each tier may be believed.
Sufficient(i) ==
    \/ TierOf[i] \in {"T1", "T2"} /\ evidence[i] >= 1
    \/ TierOf[i] = "T3" /\ evidence[i] >= Needed
    \/ TierOf[i] # "T0" /\ i \in consent
    \/ TierOf[i] = "T0" /\ signatures[i] >= 2

Init ==
    /\ believed = {}
    /\ evidence = [i \in Item |-> 0]
    /\ consent = {}
    /\ signatures = [i \in Item |-> 0]

\* A verification approves i; i may become believed in the same step.
Corroborate(i) ==
    /\ evidence' = [evidence EXCEPT ![i] = @ + 1]
    /\ believed' \in {believed, believed \union {i}}
    /\ UNCHANGED <<consent, signatures>>

\* A user approves i.
Consent(i) ==
    /\ consent' = consent \union {i}
    /\ believed' = believed \union {i}
    /\ UNCHANGED <<evidence, signatures>>

\* The operator signs i, once to stage it and once to activate it.
Sign(i) ==
    /\ signatures' = [signatures EXCEPT ![i] = @ + 1]
    /\ believed' \in {believed, believed \union {i}}
    /\ UNCHANGED <<evidence, consent>>

\* Claims may always stop being believed.
Withdraw ==
    /\ believed' \subseteq believed
    /\ UNCHANGED <<evidence, consent, signatures>>

Next ==
    /\ \/ \E i \in Item : Corroborate(i) \/ Consent(i) \/ Sign(i)
       \/ Withdraw
    /\ \A i \in believed' \ believed : Sufficient(i)'

Spec == Init /\ [][Next]_gateVars

\* Grounds are never lost, so they still stand for everything believed now.
Grounded == \A i \in believed : Sufficient(i)
=============================================================================
