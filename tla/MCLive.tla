------------------------------- MODULE MCLive -------------------------------
(***************************************************************************)
(* The components that owe something to whoever waits for them, as one     *)
(* instance for TLC: the signing keys, the phone and the circuit breaker   *)
(* before SDID.  They share no state, so a behaviour runs one of them,     *)
(* drawn in the initial state, while the others rest where their fairness  *)
(* asks for nothing: the state spaces add up instead of multiplying.       *)
(***************************************************************************)
EXTENDS MCKeyCustody, MCMobileClient, SdidResilience, TLC

CONSTANTS i1, i2, i3

VARIABLE part

live == <<part, keysVars, phoneVars, circuitVars>>

\* No replica is switched on.
SwitchedOff == [on |-> {}, rotators |-> {}, may |-> {}, keys |-> 0]
LiveSettings == AllSettings \cup {SwitchedOff}
NoReplicas == KeysInit /\ provider = "postgres-dev" /\ setting = SwitchedOff

\* Nobody holds the phone.
LiveScenarios == AllScenarios \cup {Base}
NoCitizen == PhoneInit /\ env = Base

\* Nobody calls SDID.
NoCalls ==
    /\ internal = "closed" /\ consecutiveFailures = 0 /\ timer = "running" /\ probeInFlight = "no"
    /\ call = [i \in Calls |-> [Resting EXCEPT !.pc = "over"]]
    /\ health = "up" /\ streak = 0 /\ launched = 0

LiveInit ==
    /\ part \in {"keys", "phone", "circuit"}
    /\ IF part = "keys" THEN KeysInit /\ setting # SwitchedOff ELSE NoReplicas
    /\ IF part = "phone" THEN PhoneInit /\ env # Base ELSE NoCitizen
    /\ IF part = "circuit" THEN CircuitInit ELSE NoCalls

LiveNext ==
    \/ part = "keys" /\ KeysNext /\ UNCHANGED <<part, phoneVars, circuitVars>>
    \/ part = "phone" /\ PhoneNext /\ UNCHANGED <<part, keysVars, circuitVars>>
    \/ part = "circuit" /\ CircuitNext /\ UNCHANGED <<part, keysVars, phoneVars>>

LiveSpec == LiveInit /\ [][LiveNext]_live /\ KeysFairness /\ PhoneFairness /\ CircuitFairness
=============================================================================
