----------------------------- MODULE MCPlatform -----------------------------
(***************************************************************************)
(* What the broker stands on, as one instance for TLC: its audit chain,    *)
(* the strict decoders, the log, the metrics and the way it starts.  They  *)
(* share no state, so a behaviour runs one of them, drawn in the initial   *)
(* state, while the others rest.                                           *)
(***************************************************************************)
EXTENDS AuditChain, StrictParsers, Logging, Telemetry, Startup, TLC

CONSTANTS p1, p2, e1, e2, e3

VARIABLE part

platform == <<part, vars, parseVars, logVars, telemetryVars, startVars>>

\* Two appends on one replica and one on another.
ThreeEvents == e1 :> p1 @@ e2 :> p1 @@ e3 :> p2

\* Appends that are over, so that no append is to be expected.
NoAppends ==
    /\ rows = {} /\ nextSeq = 1 /\ held = {} /\ lock = {} /\ observed = {}
    /\ pc = [e \in Events |-> "failed"]
    /\ prev = [e \in Events |-> GENESIS_HASH]

PlatformInit ==
    /\ part \in {"chain", "parsers", "logs", "telemetry", "startup"}
    /\ IF part = "chain" THEN Init ELSE NoAppends
    /\ IF part = "parsers" THEN ParseInit
       ELSE wire = [kind |-> "der", bytes |-> <<0>>] /\ decoded = Pending
    /\ IF part = "logs" THEN LogInit
       ELSE heap = <<>> /\ entry = Unwritten /\ line = Unwritten
    /\ TelemetryInit /\ (part # "telemetry" => panel = "probes")
    /\ IF part = "startup" THEN StartInit ELSE Deployed(Complete)

PlatformNext ==
    \/ /\ part = "chain" /\ Next
       /\ UNCHANGED <<part, parseVars, logVars, telemetryVars, startVars>>
    \/ /\ part = "parsers" /\ Decode
       /\ UNCHANGED <<part, vars, logVars, telemetryVars, startVars>>
    \/ /\ part = "logs" /\ Emit
       /\ UNCHANGED <<part, vars, parseVars, telemetryVars, startVars>>
    \/ /\ part = "telemetry" /\ TelemetryNext
       /\ UNCHANGED <<part, vars, parseVars, logVars, startVars>>
    \/ /\ part = "startup" /\ StartNext
       /\ UNCHANGED <<part, vars, parseVars, logVars, telemetryVars>>

PlatformSpec == PlatformInit /\ [][PlatformNext]_platform /\ Fairness
=============================================================================
