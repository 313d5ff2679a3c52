---------------------------- MODULE SdidResilience ----------------------------
(***************************************************************************)
(* ResilientSdidProvider: the retry loop of execute() around a circuit     *)
(* breaker that all calls of the process share.                            *)
(*                                                                         *)
(* The breaker's methods run between two awaits, so each is part of one    *)
(* action: beforeAttempt and the launch of the attempt, the settling of an *)
(* attempt with onSuccess or onFailure, the end of a back-off.             *)
(*                                                                         *)
(* Time is kept to what the code compares: whether resetMs have passed     *)
(* since the circuit opened.  The broker runs with the default options, in *)
(* which an attempt times out (5 s) long before the circuit may be probed  *)
(* (30 s), so resetMs do not pass while an attempt is in flight.           *)
(***************************************************************************)
EXTENDS Naturals, FiniteSets

CONSTANTS
    Calls,          \* execute() calls that can be in progress
    Retries,        \* retries after the first attempt
    Threshold,      \* breakerFailureThreshold
    Partial         \* TRUE: requireFullyConfigured = false, some methods are gaps

ASSUME BreakerAssumption ==
    /\ IsFiniteSet(Calls)
    /\ Retries \in Nat
    /\ Threshold \in Nat \ {0}
    /\ Partial \in BOOLEAN

VARIABLES
    internal,               \* the breaker's stored state
    consecutiveFailures,
    timer,                  \* whether resetMs have passed since openedAt
    probeInFlight,
    call,                   \* the calls
    health,                 \* whether SDID answers
    streak,                 \* failed attempts since the last answer, up to Threshold
    launched                \* attempts launched since the circuit last opened

breaker == <<internal, consecutiveFailures, timer, probeInFlight>>
circuitVars == <<breaker, call, health, streak, launched>>

\* role: what the breaker took the attempt for; gap: a method that is not
\* configured.
CallType == [pc : {"idle", "attempt", "sleep"}, n : 0..Retries,
             role : {"regular", "probe"}, method : {"configured", "gap"}]

Resting == [pc |-> "idle", n |-> 0, role |-> "regular", method |-> "configured"]

CircuitTypeOK ==
    /\ internal \in {"closed", "open", "half-open"}
    /\ consecutiveFailures \in 0..(Threshold - 1)
    /\ timer \in {"running", "elapsed"}
    /\ probeInFlight \in {"no", "yes"}
    /\ call \in [Calls -> CallType]
    /\ health \in {"up", "down"}
    /\ streak \in 0..Threshold
    /\ launched \in Nat

CircuitInit ==
    /\ internal = "closed"
    /\ consecutiveFailures = 0
    /\ timer = "running"
    /\ probeInFlight = "no"
    /\ call = [i \in Calls |-> Resting]
    /\ health = "up"
    /\ streak = 0
    /\ launched = 0

InFlight == {i \in Calls : call[i].pc = "attempt"}

-----------------------------------------------------------------------------
(* The circuit breaker. *)

state == IF internal = "open" /\ timer = "elapsed" THEN "half-open" ELSE internal

MutantManyProbes == state # "open"

\* beforeAttempt does not throw.
CircuitAdmits == state = "closed" \/ (state = "half-open" /\ probeInFlight = "no")

MutantKeepCount ==
    /\ internal' = "closed"
    /\ probeInFlight' = "no"
    /\ UNCHANGED <<consecutiveFailures, timer>>

onSuccess ==
    /\ internal' = "closed"
    /\ consecutiveFailures' = 0
    /\ probeInFlight' = "no"
    /\ UNCHANGED timer

trip ==
    /\ internal' = "open"
    /\ timer' = "running"
    /\ consecutiveFailures' = 0
    /\ launched' = 0

\* The probe's failure leaves the mark that it is in flight.
MutantProbeLeaks ==
    /\ UNCHANGED probeInFlight
    /\ IF internal = "half-open" \/ consecutiveFailures + 1 >= Threshold
         THEN trip
         ELSE /\ consecutiveFailures' = consecutiveFailures + 1
              /\ UNCHANGED <<internal, timer, launched>>

onFailure ==
    /\ probeInFlight' = "no"
    /\ IF internal = "half-open" \/ consecutiveFailures + 1 >= Threshold
         THEN trip
         ELSE /\ consecutiveFailures' = consecutiveFailures + 1
              /\ UNCHANGED <<internal, timer, launched>>

-----------------------------------------------------------------------------
(* execute(). *)

\* beforeAttempt, and the attempt when it does not throw.
Attempt(i, n, method) ==
    /\ IF CircuitAdmits
         THEN /\ call' = [call EXCEPT ![i] =
                   [pc |-> "attempt", n |-> n, method |-> method,
                    role |-> IF state = "half-open" THEN "probe" ELSE "regular"]]
              /\ internal' = state
              /\ probeInFlight' = IF state = "half-open" THEN "yes" ELSE probeInFlight
              /\ launched' = IF internal = "closed" THEN launched ELSE launched + 1
         ELSE /\ call' = [call EXCEPT ![i] = Resting]
              /\ UNCHANGED <<internal, probeInFlight, launched>>
    /\ UNCHANGED <<consecutiveFailures, timer, health, streak>>

\* getReferenceBiometric, getAttributes or reassert is called.
StartCall(i, method) ==
    /\ call[i].pc = "idle"
    /\ method = "gap" => Partial
    /\ Attempt(i, 0, method)

\* The back-off is over.
Retry(i) ==
    /\ call[i].pc = "sleep"
    /\ Attempt(i, call[i].n, call[i].method)

\* A valid result, or the definitive answer that the identity is unknown.
CallAnswered(i) ==
    /\ call[i].pc = "attempt" /\ call[i].method = "configured"
    /\ health = "up"
    /\ onSuccess
    /\ call' = [call EXCEPT ![i] = Resting]
    /\ streak' = 0
    /\ UNCHANGED <<health, launched>>

\* An error, a time-out or a malformed result.
Failed(i) ==
    /\ call[i].pc = "attempt" /\ call[i].method = "configured"
    /\ health = "down"
    /\ onFailure
    /\ call' = [call EXCEPT ![i] =
                  IF call[i].n < Retries
                    THEN [Resting EXCEPT !.pc = "sleep", !.n = call[i].n + 1]
                    ELSE Resting]
    /\ streak' = IF streak < Threshold THEN streak + 1 ELSE streak
    /\ UNCHANGED health

\* SdidConfigurationError: the breaker is not told.
Misconfigured(i) ==
    /\ call[i].pc = "attempt" /\ call[i].method = "gap"
    /\ call' = [call EXCEPT ![i] = Resting]
    /\ UNCHANGED <<breaker, health, streak, launched>>

-----------------------------------------------------------------------------
ResetElapses ==
    /\ internal = "open" /\ timer = "running"
    /\ InFlight = {}
    /\ timer' = "elapsed"
    /\ UNCHANGED <<internal, consecutiveFailures, probeInFlight, call, health,
                   streak, launched>>

HealthChanges ==
    /\ health' = IF health = "up" THEN "down" ELSE "up"
    /\ UNCHANGED <<breaker, call, streak, launched>>

CircuitNext ==
    \/ \E i \in Calls :
         \/ \E method \in {"configured", "gap"} : StartCall(i, method)
         \/ Retry(i) \/ CallAnswered(i) \/ Failed(i) \/ Misconfigured(i)
    \/ ResetElapses
    \/ HealthChanges

CircuitSpec == CircuitInit /\ [][CircuitNext]_circuitVars

\* Attempts end (they time out), back-offs end, time passes, and citizens and
\* the sweep keep asking for configured methods.
CircuitFairness ==
    /\ WF_circuitVars(ResetElapses)
    /\ \A i \in Calls :
         /\ WF_circuitVars(CallAnswered(i) \/ Failed(i) \/ Misconfigured(i))
         /\ WF_circuitVars(Retry(i))
         /\ WF_circuitVars(StartCall(i, "configured"))

CircuitFairSpec == CircuitSpec /\ CircuitFairness

-----------------------------------------------------------------------------
(* Properties. *)

\* Between two openings of the circuit at most one attempt reaches SDID, and it
\* is the one that probes it: a struggling SDID is left alone (beforeAttempt).
SingleProbe ==
    /\ internal # "closed" => launched <= 1
    /\ \A i, j \in InFlight :
         call[i].role = "probe" /\ call[j].role = "probe" => i = j

\* The circuit is closed exactly while fewer than Threshold attempts in a row,
\* of all calls together, have failed; a late failure of an attempt launched
\* before the circuit opened does not disturb this (onSuccess, onFailure).
OpenMeansOutage == internal # "closed" <=> streak = Threshold

\* What keeps the two above: an open circuit has launched nothing since it opened
\* and nothing is in flight once it may be probed; a half-open one has its probe;
\* and while it is closed the breaker's count is the streak.
BreakerInv ==
    /\ internal = "open" => launched = 0
    /\ internal = "open" /\ timer = "elapsed" => InFlight = {}
    /\ internal = "half-open" => probeInFlight = "yes" /\ launched <= 1 /\ streak = Threshold
    /\ internal = "open" => streak = Threshold
    /\ internal = "closed" => streak = consecutiveFailures
    /\ \A i, j \in InFlight :
         call[i].role = "probe" /\ call[j].role = "probe" => i = j

\* The half-open probe was spent on a method that is not configured: the breaker
\* still waits for an outcome that nobody will report.
Wedged ==
    /\ internal = "half-open" /\ probeInFlight = "yes"
    /\ \A i \in InFlight : call[i].role # "probe"

\* When SDID is back for good the circuit closes and stays closed: the half-open
\* probe always comes, and its outcome counts, unless it is lost on a method that
\* is not configured (state, execute).
CircuitRecovers == <>[](health = "up") => <>[](internal = "closed" \/ Wedged)
=============================================================================
