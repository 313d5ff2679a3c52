---------------------------- MODULE AuthTxnSpec ----------------------------
(***************************************************************************)
(* What the broker promises about authentication transactions, whatever    *)
(* happens inside it: a transaction is opened for one relying party and    *)
(* one citizen, decided at most once and only by a device of that citizen  *)
(* (or it expires), redeemed at most once and only if it was approved, and *)
(* yields at most one token set, made out to the relying party that opened *)
(* it.                                                                     *)
(***************************************************************************)
CONSTANTS Txns, Rps, Citizens, Bindings, CitizenOf, Jtis, None

VARIABLES
    state,      \* where the transaction is
    party,      \* <<relying party, citizen>> of the transaction
    decider,    \* the device that decided it
    issued      \* its token sets, as <<jti, relying party>>

specVars == <<state, party, decider, issued>>

AInit ==
    /\ state = [t \in Txns |-> "none"]
    /\ party = [t \in Txns |-> <<None, None>>]
    /\ decider = [t \in Txns |-> None]
    /\ issued = [t \in Txns |-> {}]

AOpen(t) ==
    /\ state[t] = "none"
    /\ state' = [state EXCEPT ![t] = "pending"]
    /\ \E r \in Rps, c \in Citizens : party' = [party EXCEPT ![t] = <<r, c>>]
    /\ UNCHANGED <<decider, issued>>

ADecide(t) ==
    /\ state[t] = "pending"
    /\ \E b \in Bindings :
          /\ CitizenOf[b] = party[t][2]
          /\ decider' = [decider EXCEPT ![t] = b]
    /\ \E s \in {"approved", "denied"} : state' = [state EXCEPT ![t] = s]
    /\ UNCHANGED <<party, issued>>

AExpire(t) ==
    /\ state[t] = "pending"
    /\ state' = [state EXCEPT ![t] = "expired"]
    /\ UNCHANGED <<party, decider, issued>>

ARedeem(t) ==
    /\ state[t] = "approved"
    /\ state' = [state EXCEPT ![t] = "consumed"]
    /\ UNCHANGED <<party, decider, issued>>

AIssue(t) ==
    /\ state[t] = "consumed"
    /\ issued[t] = {}
    /\ \E j \in Jtis : issued' = [issued EXCEPT ![t] = {<<j, party[t][1]>>}]
    /\ UNCHANGED <<state, party, decider>>

ANext == \E t \in Txns :
    AOpen(t) \/ ADecide(t) \/ AExpire(t) \/ ARedeem(t) \/ AIssue(t)

ASpec == AInit /\ [][ANext]_specVars
=============================================================================
