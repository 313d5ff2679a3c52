----------------------------- MODULE MCServices -----------------------------
(***************************************************************************)
(* The services around the transactions, as one instance for TLC.  They    *)
(* share no state, so a behaviour runs one of them, drawn in the initial   *)
(* state, while the others rest: the state spaces add up instead of        *)
(* multiplying.                                                            *)
(***************************************************************************)
EXTENDS TokenAccess, AbuseControls, PushDelivery, Attestation, SdidStrategies, TLC

CONSTANTS c1, p1, p2, j1, g1, g2, a1, a2, a3

VARIABLE part

services == <<part, vars, abuseVars, pushVars, attestVars, stratVars>>

\* One actor set serves every part, so one permutation exchanges its members.
Symmetric == Permutations({a1, a2}) \cup Permutations({g1, g2}) \cup Permutations({p1, p2})

ServicesInit ==
    /\ part \in {"tokens", "abuse", "push", "attestation", "strategies"}
    /\ Init
    /\ AbuseInit /\ (part # "abuse" => kind = "hit")
    /\ PushInit /\ (part # "push" => side = "addresses")
    /\ StrategyInit
    /\ part # "strategies" => setup.strategy = "mock" /\ setup.method = "reassert" /\ person = "valid"
    /\ IF part = "attestation" THEN AttestInit
       ELSE evidence = SimGood /\ live = Nonces /\ enrol = [i \in Enrolments |-> NoEnrolment]

ServicesNext ==
    \/ /\ part = "tokens" /\ Next
       /\ UNCHANGED <<part, abuseVars, pushVars, attestVars, stratVars>>
    \/ /\ part = "abuse" /\ AbuseNext
       /\ UNCHANGED <<part, vars, pushVars, attestVars, stratVars>>
    \/ /\ part = "push" /\ PushNext
       /\ UNCHANGED <<part, vars, abuseVars, attestVars, stratVars>>
    \/ /\ part = "attestation" /\ AttestNext
       /\ UNCHANGED <<part, vars, abuseVars, pushVars, stratVars>>
    \/ /\ part = "strategies" /\ StrategyNext
       /\ UNCHANGED <<part, vars, abuseVars, pushVars, attestVars>>

ServicesSpec == ServicesInit /\ [][ServicesNext]_services
=============================================================================
