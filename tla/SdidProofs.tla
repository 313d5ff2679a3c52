----------------------------- MODULE SdidProofs -----------------------------
(*****************************************************************************)
(* The SDID adapter: the circuit breaker, for any number of concurrent calls, *)
(* any threshold and any number of retries; and the strategies behind it, for *)
(* any number of callers, retries, token lifetimes and rotations.            *)
(*****************************************************************************)
EXTENDS SdidResilience, SdidStrategies, TLAPS

-----------------------------------------------------------------------------
(* The circuit breaker.                                                    *)

IInv == CircuitTypeOK /\ BreakerInv

\* beforeAttempt with the launch of the attempt: the one step that can start a
\* probe (Start and Retry).
LEMMA AttemptStep ==
    ASSUME IInv, NEW i \in Calls, NEW n \in 0..Retries,
           NEW method \in {"configured", "gap"},
           call[i].pc # "attempt", Attempt(i, n, method)
    PROVE  IInv'
<1> USE BreakerAssumption
<1>1. CASE CircuitAdmits
  <2>1. CASE internal = "closed"
    <3>1. state = "closed"
      BY <2>1 DEF state
    <3>2. /\ call' = [call EXCEPT ![i] = [pc |-> "attempt", n |-> n,
                        method |-> method, role |-> "regular"]]
          /\ internal' = "closed" /\ launched' = launched
          /\ probeInFlight' = probeInFlight
      BY <1>1, <2>1, <3>1 DEF Attempt, IInv, CircuitTypeOK
    <3>3. CircuitTypeOK'
      BY <2>1, <3>2 DEF Attempt, IInv, CircuitTypeOK, CallType
    <3> QED
      BY <2>1, <3>2, <3>3 DEF Attempt, IInv, BreakerInv, CircuitTypeOK, CallType, InFlight
  <2>2. CASE internal # "closed"
    <3>1. internal = "open" /\ timer = "elapsed" /\ state = "half-open"
      BY <1>1, <2>2 DEF CircuitAdmits, state, IInv, BreakerInv, CircuitTypeOK
    <3>2. /\ call' = [call EXCEPT ![i] = [pc |-> "attempt", n |-> n,
                        method |-> method, role |-> "probe"]]
          /\ internal' = "half-open" /\ launched' = launched + 1
          /\ probeInFlight' = "yes"
      BY <1>1, <3>1 DEF Attempt
    <3>3. CircuitTypeOK'
      BY <3>2 DEF Attempt, IInv, CircuitTypeOK, CallType
    <3>4. InFlight' = {i}
      BY <3>1, <3>2 DEF IInv, BreakerInv, CircuitTypeOK, InFlight, CallType
    <3> QED
      BY <3>1, <3>2, <3>3, <3>4 DEF Attempt, IInv, BreakerInv, CircuitTypeOK
  <2> QED BY <2>1, <2>2
<1>2. CASE ~CircuitAdmits
  <2>1. CircuitTypeOK'
    BY <1>2 DEF Attempt, Resting, IInv, CircuitTypeOK, CallType
  <2> QED
    BY <1>2, <2>1 DEF Attempt, Resting, IInv, BreakerInv, CircuitTypeOK, CallType, InFlight
<1> QED BY <1>1, <1>2

\* A call that settles, retries or ends leaves no new attempt in flight.
LEMMA SettledStep ==
    ASSUME CircuitTypeOK, NEW i \in Calls, NEW r \in CallType, r.pc # "attempt",
           call' = [call EXCEPT ![i] = r]
    PROVE  /\ call' \in [Calls -> CallType]
           /\ InFlight' = InFlight \ {i}
           /\ \A j \in InFlight' : call'[j] = call[j]
BY DEF CircuitTypeOK, InFlight, CallType

\* Every step keeps the invariant, one case per action.
LEMMA BreakerStep == IInv /\ [CircuitNext]_circuitVars => IInv'
<1> SUFFICES ASSUME IInv, [CircuitNext]_circuitVars PROVE IInv'
  OBVIOUS
<1> USE BreakerAssumption
<1>0. Resting \in CallType
  BY DEF Resting, CallType
<1>1. ASSUME NEW i \in Calls, NEW method \in {"configured", "gap"}, StartCall(i, method)
      PROVE  IInv'
  BY <1>1, AttemptStep DEF StartCall
<1>2. ASSUME NEW i \in Calls, Retry(i) PROVE IInv'
  <2>1. call[i].n \in 0..Retries /\ call[i].method \in {"configured", "gap"}
    BY DEF IInv, CircuitTypeOK, CallType
  <2> QED BY <1>2, <2>1, AttemptStep DEF Retry
<1>3. ASSUME NEW i \in Calls, CallAnswered(i) PROVE IInv'
  <2>1. call' \in [Calls -> CallType] /\ InFlight' = InFlight \ {i}
        /\ \A j \in InFlight' : call'[j] = call[j]
    BY <1>0, <1>3, SettledStep DEF CallAnswered, Resting, IInv
  <2> QED BY <1>3, <2>1 DEF CallAnswered, onSuccess, IInv, CircuitTypeOK, BreakerInv
<1>4. ASSUME NEW i \in Calls, Failed(i) PROVE IInv'
  <2> DEFINE next == IF call[i].n < Retries
                       THEN [Resting EXCEPT !.pc = "sleep", !.n = call[i].n + 1]
                       ELSE Resting
  <2>1. next \in CallType /\ next.pc # "attempt"
    <3>1. call[i].n \in 0..Retries
      BY DEF IInv, CircuitTypeOK, CallType
    <3>2. CASE call[i].n < Retries
      <4>1. next = [pc |-> "sleep", n |-> call[i].n + 1, role |-> "regular",
                    method |-> "configured"]
        BY <3>2 DEF Resting
      <4>2. call[i].n + 1 \in 0..Retries
        BY <3>1, <3>2
      <4> HIDE DEF next
      <4> QED BY <4>1, <4>2 DEF CallType
    <3>3. CASE ~(call[i].n < Retries)
      BY <1>0, <3>3 DEF Resting
    <3> QED BY <3>2, <3>3
  <2>2. call' = [call EXCEPT ![i] = next]
    BY <1>4 DEF Failed
  <2> HIDE DEF next
  <2>3. call' \in [Calls -> CallType] /\ InFlight' = InFlight \ {i}
        /\ \A j \in InFlight' : call'[j] = call[j]
    BY <2>1, <2>2, SettledStep DEF IInv
  <2>4. CASE internal = "half-open" \/ consecutiveFailures + 1 >= Threshold
    BY <1>4, <2>3, <2>4 DEF Failed, onFailure, trip, IInv, CircuitTypeOK, BreakerInv
  <2>5. CASE ~(internal = "half-open" \/ consecutiveFailures + 1 >= Threshold)
    BY <1>4, <2>3, <2>5 DEF Failed, onFailure, IInv, CircuitTypeOK, BreakerInv
  <2> QED BY <2>4, <2>5
<1>5. ASSUME NEW i \in Calls, Misconfigured(i) PROVE IInv'
  <2>1. call' \in [Calls -> CallType] /\ InFlight' = InFlight \ {i}
        /\ \A j \in InFlight' : call'[j] = call[j]
    BY <1>0, <1>5, SettledStep DEF Misconfigured, Resting, IInv
  <2> QED BY <1>5, <2>1 DEF Misconfigured, breaker, IInv, CircuitTypeOK, BreakerInv
<1>6. ASSUME ResetElapses PROVE IInv'
  BY <1>6 DEF ResetElapses, IInv, CircuitTypeOK, BreakerInv, InFlight
<1>7. ASSUME HealthChanges PROVE IInv'
  BY <1>7 DEF HealthChanges, breaker, IInv, CircuitTypeOK, BreakerInv, InFlight
<1>8. CASE UNCHANGED circuitVars
  BY <1>8 DEF circuitVars, breaker, IInv, CircuitTypeOK, BreakerInv, InFlight
<1> QED
  BY <1>1, <1>2, <1>3, <1>4, <1>5, <1>6, <1>7, <1>8 DEF CircuitNext

\* A breaker that has done nothing yet satisfies the invariant.
LEMMA BreakerInit == CircuitInit => IInv
BY BreakerAssumption DEF CircuitInit, IInv, CircuitTypeOK, BreakerInv, Resting, CallType, InFlight

\* The invariant holds throughout.
THEOREM BreakerCorrect == CircuitSpec => [](CircuitTypeOK /\ BreakerInv)
<1>1. CircuitInit => IInv
  BY BreakerInit
<1>2. IInv /\ [CircuitNext]_circuitVars => IInv'
  BY BreakerStep
<1> QED BY <1>1, <1>2, PTL DEF CircuitSpec, IInv

\* Between two openings of the circuit at most one attempt reaches SDID, and at
\* most one probe is ever in flight.
THEOREM OneProbe == CircuitSpec => []SingleProbe
<1>1. CircuitTypeOK /\ BreakerInv => SingleProbe
  BY DEF CircuitTypeOK, BreakerInv, SingleProbe
<1> QED BY <1>1, BreakerCorrect, PTL

\* The circuit is open exactly when the last Threshold attempts all failed.
THEOREM OpenExactlyInOutage == CircuitSpec => []OpenMeansOutage
<1>1. CircuitTypeOK /\ BreakerInv => OpenMeansOutage
  BY BreakerAssumption DEF CircuitTypeOK, BreakerInv, OpenMeansOutage
<1> QED BY <1>1, BreakerCorrect, PTL

-----------------------------------------------------------------------------
(* The strategies: any number of callers, retries, lifetimes, rotations and *)
(* instants, and attempts that outlive their call.                          *)

People == {"valid", "withdrawn", "unknown"}
Bearers == [epoch : Int, dies : Int]
Outcomes == [result : {"none", "data", "invalid"},
             error : {"none", "SdidUnknownIdentityError", "SdidConfigurationError",
                      "SdidCircuitOpenError", "SdidUnavailableError", "SdidTimeoutError"}]
Tries == [pc : {"none", "discovery", "token", "sent"}, token : Bearers, since : Int]
ProviderCalls == [pc : {"idle", "ready", "waiting", "settled", "done"}, n : 0..MaxRetries, at : Int,
          outcome : Outcomes]

StratTyped ==
    /\ instant \in Nat /\ rotations \in Nat /\ person \in People
    /\ setup \in Setups /\ (setup.auth = "oauth" => setup.strategy = "oidc")
    /\ tokCache \in [token : Bearers, until : Int]
    /\ tokFlight \in [since : Int, token : Bearers]
    /\ attempt \in [Attempts -> Tries]
    /\ asked \in [Callers -> ProviderCalls]
    /\ said \in [Callers -> SUBSET People]
    /\ refusals \in [Callers -> Nat]

\* Before a call is settled SDID has said nothing of the citizen to it, and what
\* it settled with it was told.
Heard(c) ==
    /\ asked[c].pc # "settled" => said[c] = {}
    /\ LET out == asked[c].outcome IN
       asked[c].pc = "settled" =>
           /\ out.result = "data" => "valid" \in said[c] \/ "withdrawn" \in said[c]
           /\ out.result = "invalid" => {"withdrawn", "unknown"} \cap said[c] # {}
           /\ out.error = "SdidUnknownIdentityError" => "unknown" \in said[c]
           /\ out.error = "SdidConfigurationError" => said[c] = {}

\* A token request is young, and its token was issued after it was sent.
FlightTimed ==
    tokFlight.since # Never =>
        /\ tokFlight.since \in Nat
        /\ tokFlight.since <= instant /\ instant <= tokFlight.since + Deadline
        /\ tokFlight.token # NoBearer => tokFlight.since + setup.tokens.life <= tokFlight.token.dies

\* A usable token leaves the cache while a whole request still fits its life.
CacheTimed ==
    Cached /\ setup.tokens.declared => tokCache.until + Deadline <= tokCache.token.dies

\* The refusals a rotation still has in store for a call: one of the token that
\* is on its way, one of the token it holds or would be handed.
FlightStale == tokFlight.token # NoBearer /\ tokFlight.token.epoch # rotations

HoldsStale(c) ==
    \/ Cached /\ tokCache.token.epoch # rotations
    \/ /\ asked[c].pc = "waiting"
       /\ attempt[<<c, asked[c].n>>].pc = "sent"
       /\ attempt[<<c, asked[c].n>>].token.epoch # rotations

One(p) == IF p THEN 1 ELSE 0

Charged(c) ==
    setup.auth = "oauth" => refusals[c] + One(FlightStale) + One(HoldsStale(c)) <= 2 * rotations

StratInv ==
    /\ StratTyped /\ FlightTimed /\ CacheTimed
    /\ \A c \in Callers : Heard(c) /\ Charged(c)

USE StrategyAssumption

LEMMA MaxOfTwo ==
    ASSUME NEW i \in Int, NEW j \in Int
    PROVE  Max({i, j}) = IF i >= j THEN i ELSE j
<1> DEFINE m == IF i >= j THEN i ELSE j
<1>1. m \in {i, j} /\ \A y \in {i, j} : m >= y
  OBVIOUS
<1>2. \A x \in {i, j} : (\A y \in {i, j} : x >= y) => x = m
  OBVIOUS
<1>3. QED BY <1>1, <1>2 DEF Max

LEMMA NoBearerTyped ==
    /\ NoBearer \in Bearers /\ StaticCredential \in Bearers
    /\ NoBearer.epoch = -1
  BY DEF NoBearer, StaticCredential, Token, Bearers, Never

\* What Settle does to the calls: those awaiting one of the attempts in A go on
\* with the outcome, the others are left alone.
LEMMA SettleLemma ==
    ASSUME StratTyped, NEW A, NEW out \in Outcomes, Settle(A, out)
    PROVE  /\ asked' \in [Callers -> ProviderCalls]
           /\ \A c \in Callers :
                 /\ ~(asked[c].pc = "waiting" /\ <<c, asked[c].n>> \in A) => asked'[c] = asked[c]
                 /\ asked[c].pc = "waiting" /\ <<c, asked[c].n>> \in A =>
                      \/ asked'[c].pc = "settled" /\ asked'[c].outcome = out
                      \/ asked'[c].pc = "ready" /\ out.error \notin Final
<1>1. \A c \in Callers : <<c, asked[c].n>> \in {a \in A : Awaited(a)}
                            <=> asked[c].pc = "waiting" /\ <<c, asked[c].n>> \in A
  BY DEF Awaited
<1>2. asked' = [c \in Callers |-> IF <<c, asked[c].n>> \in {a \in A : Awaited(a)}
                                  THEN AfterAttempt(asked[c], out) ELSE asked[c]]
  BY DEF Settle
<1>3. ASSUME NEW k \in ProviderCalls
      PROVE  /\ AfterAttempt(k, out) \in ProviderCalls
             /\ \/ AfterAttempt(k, out).pc = "settled" /\ AfterAttempt(k, out).outcome = out
                \/ AfterAttempt(k, out).pc = "ready" /\ out.error \notin Final
  <2>1. CASE out.error \in Final \/ k.n = MaxRetries
    <3>1. AfterAttempt(k, out) = [k EXCEPT !.pc = "settled", !.outcome = out, !.n = 0, !.at = 0]
      BY <2>1 DEF AfterAttempt
    <3>2. k = [pc |-> k.pc, n |-> k.n, at |-> k.at, outcome |-> k.outcome]
      BY DEF ProviderCalls
    <3>3. AfterAttempt(k, out) = [pc |-> "settled", n |-> 0, at |-> 0, outcome |-> out]
      BY <3>1, <3>2
    <3>4. QED BY <3>3 DEF ProviderCalls
  <2>2. CASE ~(out.error \in Final \/ k.n = MaxRetries)
    <3>1. AfterAttempt(k, out) = [k EXCEPT !.pc = "ready", !.n = k.n + 1]
      BY <2>2 DEF AfterAttempt
    <3>2. k = [pc |-> k.pc, n |-> k.n, at |-> k.at, outcome |-> k.outcome]
      BY DEF ProviderCalls
    <3>3. AfterAttempt(k, out) = [pc |-> "ready", n |-> k.n + 1, at |-> k.at, outcome |-> k.outcome]
      BY <3>1, <3>2
    <3>4. k.n + 1 \in 0..MaxRetries
      BY <2>2 DEF ProviderCalls
    <3>5. QED BY <2>2, <3>3, <3>4 DEF ProviderCalls
  <2>3. QED BY <2>1, <2>2
<1>4. \A c \in Callers : asked[c] \in ProviderCalls
  BY DEF StratTyped
<1>5. QED BY <1>1, <1>2, <1>3, <1>4

LEMMA EndLemma ==
    ASSUME StratTyped, NEW A, NEW out, EndAttempts(A, out)
    PROVE  /\ attempt' \in [Attempts -> Tries]
           /\ \A a \in Attempts : attempt'[a].pc = "sent" => a \notin A /\ attempt'[a] = attempt[a]
<1>1. Finished \in Tries /\ Finished.pc = "none"
  BY NoBearerTyped DEF Finished, Tries
<1>2. QED BY <1>1 DEF EndAttempts, StratTyped

\* An attempt that asks for a credential gets the cached token, if there is one,
\* or joins the token request.
LEMMA AuthorizeLemma ==
    ASSUME StratTyped, NEW A, Authorize(A)
    PROVE  /\ attempt' \in [Attempts -> Tries]
           /\ \A a \in Attempts :
                 \/ attempt'[a] = attempt[a] /\ a \notin A
                 \/ /\ a \in A
                    /\ attempt'[a].pc = "sent" /\ setup.auth = "oauth" =>
                          Cached /\ attempt'[a].token = tokCache.token
           /\ \/ tokFlight' = tokFlight
              \/ tokFlight' = [since |-> instant, token |-> NoBearer]
<1>0. setup.auth \in {"static", "oauth"}
  BY DEF StratTyped, Setups
<1>1. ASSUME NEW t \in Bearers,
             attempt' = [a \in Attempts |->
                  IF a \in A THEN [pc |-> "sent", token |-> t, since |-> instant] ELSE attempt[a]]
      PROVE  /\ attempt' \in [Attempts -> Tries]
             /\ \A a \in Attempts : a \in A => attempt'[a].token = t
             /\ \A a \in Attempts : a \notin A => attempt'[a] = attempt[a]
  BY <1>1 DEF StratTyped, Tries
<1>2. CASE setup.auth = "static"
  BY <1>1, <1>2, NoBearerTyped DEF Authorize
<1>3. CASE setup.auth # "static" /\ Cached
  <2>1. tokCache.token \in Bearers
    BY DEF StratTyped
  <2>2. QED BY <1>0, <1>1, <1>3, <2>1 DEF Authorize
<1>4. CASE setup.auth # "static" /\ ~Cached
  <2>1. /\ attempt' = [a \in Attempts |->
               IF a \in A THEN [attempt[a] EXCEPT !.pc = "token"] ELSE attempt[a]]
        /\ tokFlight' = IF tokFlight.since # Never THEN tokFlight
                        ELSE [since |-> instant, token |-> NoBearer]
    BY <1>4 DEF Authorize
  <2>2. attempt' \in [Attempts -> Tries]
    BY <2>1 DEF StratTyped, Tries
  <2>3. \A a \in Attempts : a \in A => attempt'[a].pc = "token"
    BY <2>1 DEF StratTyped, Tries
  <2>4. QED BY <2>1, <2>2, <2>3
<1>5. QED BY <1>2, <1>3, <1>4

LEMMA StratInit ==
    StrategyInit => StratInv
<1> SUFFICES ASSUME StrategyInit PROVE StratInv
  OBVIOUS
<1>1. setup \in Setups /\ (setup.auth = "oauth" => setup.strategy = "oidc")
  BY DEF StrategyInit, Sensible
<1>2. /\ Finished \in Tries /\ NoCall \in ProviderCalls
      /\ EmptyCache \in [token : Bearers, until : Int]
      /\ [since |-> Never, token |-> NoBearer] \in [since : Int, token : Bearers]
  BY NoBearerTyped DEF Finished, Tries, NoCall, ProviderCalls, Error, Outcome, Outcomes, EmptyCache, Never
<1>3. StratTyped
  BY <1>1, <1>2 DEF StrategyInit, StratTyped, People
<1>4. FlightTimed /\ CacheTimed
  BY DEF StrategyInit, FlightTimed, CacheTimed, Cached, EmptyCache
<1>5. ASSUME NEW c \in Callers PROVE Heard(c) /\ Charged(c)
  <2>1. asked[c].pc = "idle" /\ said[c] = {} /\ refusals[c] = 0 /\ rotations = 0
    BY DEF StrategyInit, NoCall
  <2>2. ~FlightStale /\ ~HoldsStale(c)
    BY <2>1 DEF StrategyInit, FlightStale, HoldsStale, Cached, EmptyCache
  <2>3. QED BY <2>1, <2>2 DEF Heard, Charged, One
<1>6. QED BY <1>3, <1>4, <1>5 DEF StratInv

\* A step that brings no new stale token leaves the charge of a call as it is.
LEMMA ChargedKept ==
    ASSUME StratTyped, NEW c \in Callers, Charged(c), setup' = setup, rotations' = rotations,
           refusals' = refusals,
           FlightStale' => FlightStale, HoldsStale(c)' => HoldsStale(c)
    PROVE  Charged(c)'
<1>1. refusals[c] \in Nat /\ rotations \in Nat
  BY DEF StratTyped
<1>2. QED BY <1>1 DEF Charged, One

\* What nobody was told of a citizen is not reported of one.
LEMMA HeardDumb ==
    ASSUME StratTyped, NEW A, NEW out \in Outcomes, Settle(A, out), said' = said,
           out.result = "none",
           out.error \notin {"SdidUnknownIdentityError", "SdidConfigurationError"},
           NEW c \in Callers, Heard(c)
    PROVE  Heard(c)'
<1>1. \/ asked'[c] = asked[c]
      \/ asked[c].pc = "waiting" /\ asked'[c].pc = "settled" /\ asked'[c].outcome = out
      \/ asked[c].pc = "waiting" /\ asked'[c].pc = "ready"
  BY SettleLemma
<1>2. QED BY <1>1 DEF Heard

\* Attempts that end take stale tokens out of the game.
LEMMA EndCharged ==
    ASSUME StratTyped, NEW A \in SUBSET Attempts, NEW out \in Outcomes, EndAttempts(A, out),
           rotations' = rotations, NEW c \in Callers,
           Cached' => Cached, Cached' => tokCache' = tokCache, HoldsStale(c)'
    PROVE  HoldsStale(c)
<1>1. CASE (Cached /\ tokCache.token.epoch # rotations)'
  BY <1>1 DEF HoldsStale
<1>2. CASE /\ asked'[c].pc = "waiting"
           /\ attempt'[<<c, asked'[c].n>>].pc = "sent"
           /\ attempt'[<<c, asked'[c].n>>].token.epoch # rotations
  <2>1. asked'[c] = asked[c]
    BY <1>2, SettleLemma DEF EndAttempts
  <2>2. <<c, asked[c].n>> \in Attempts
    BY DEF StratTyped, ProviderCalls, Attempts
  <2>3. attempt'[<<c, asked[c].n>>] = attempt[<<c, asked[c].n>>]
    BY <1>2, <2>1, <2>2, EndLemma
  <2>4. QED BY <1>2, <2>1, <2>3 DEF HoldsStale
<1>3. QED BY <1>1, <1>2 DEF HoldsStale

LEMMA StratAsk ==
    ASSUME StratInv, NEW b \in Callers, Ask(b)
    PROVE  StratInv'
<1> USE DEF Ask, sdidVars, cacheVars, ghostVars
<1>1. StratTyped'
  BY DEF StratInv, StratTyped, ProviderCalls
<1>2. FlightTimed' /\ CacheTimed'
  BY DEF StratInv, FlightTimed, CacheTimed, Cached
<1>3. \A c \in Callers : asked'[c] = asked[c] \/ (asked[c].pc = "idle" /\ asked'[c].pc = "ready")
  BY DEF StratInv, StratTyped, ProviderCalls
<1>4. ASSUME NEW c \in Callers PROVE Heard(c)' /\ Charged(c)'
  <2>1. Heard(c) /\ Charged(c) /\ StratTyped
    BY DEF StratInv
  <2>2. Heard(c)'
    BY <1>3, <2>1 DEF Heard
  <2>3. (FlightStale' => FlightStale) /\ (HoldsStale(c)' => HoldsStale(c))
    BY <1>3 DEF FlightStale, HoldsStale, Cached
  <2>4. QED BY <2>1, <2>2, <2>3, ChargedKept
<1>5. QED BY <1>1, <1>2, <1>4 DEF StratInv

LEMMA StratReport ==
    ASSUME StratInv, NEW b \in Callers, Report(b)
    PROVE  StratInv'
<1> USE DEF Report, sdidVars, cacheVars
<1>1. StratTyped'
  <2>1. [NoCall EXCEPT !.pc = "done"] \in ProviderCalls
    BY DEF NoCall, ProviderCalls, Error, Outcome, Outcomes
  <2>2. QED BY <2>1 DEF StratInv, StratTyped
<1>2. FlightTimed' /\ CacheTimed'
  BY DEF StratInv, FlightTimed, CacheTimed, Cached
<1>3. \A c \in Callers : \/ asked'[c] = asked[c] /\ said'[c] = said[c]
                         \/ asked'[c].pc = "done" /\ said'[c] = {}
  BY DEF StratInv, StratTyped, NoCall
<1>4. ASSUME NEW c \in Callers PROVE Heard(c)' /\ Charged(c)'
  <2>1. Heard(c) /\ Charged(c) /\ StratTyped
    BY DEF StratInv
  <2>2. Heard(c)'
    BY <1>3, <2>1 DEF Heard
  <2>3. (FlightStale' => FlightStale) /\ (HoldsStale(c)' => HoldsStale(c))
    BY <1>3 DEF FlightStale, HoldsStale, Cached
  <2>4. QED BY <2>1, <2>2, <2>3, ChargedKept
<1>5. QED BY <1>1, <1>2, <1>4 DEF StratInv

LEMMA StratTimesOut ==
    ASSUME StratInv, NEW b \in Callers, TimesOut(b)
    PROVE  StratInv'
<1> USE DEF TimesOut, sdidVars, cacheVars, ghostVars
<1> DEFINE out == Error("SdidTimeoutError")
<1>1. out \in Outcomes /\ out.result = "none" /\ out.error = "SdidTimeoutError"
  BY DEF Error, Outcome, Outcomes
<1> DEFINE A == {<<b, asked[b].n>>}
<1>2. Settle(A, out) /\ StratTyped
  BY DEF StratInv
<1> HIDE DEF out, A
<1>3. StratTyped'
  BY <1>1, <1>2, SettleLemma DEF StratTyped
<1>4. FlightTimed' /\ CacheTimed'
  BY DEF StratInv, FlightTimed, CacheTimed, Cached
<1>5. ASSUME NEW c \in Callers PROVE Heard(c)' /\ Charged(c)'
  <2>1. Heard(c) /\ Charged(c)
    BY DEF StratInv
  <2>2. Heard(c)'
    BY <1>1, <1>2, <2>1, HeardDumb
  <2>3. asked'[c].pc = "waiting" => asked'[c] = asked[c]
    BY <1>1, <1>2, SettleLemma
  <2>4. (FlightStale' => FlightStale) /\ (HoldsStale(c)' => HoldsStale(c))
    BY <2>3 DEF FlightStale, HoldsStale, Cached
  <2>5. QED BY <1>2, <2>1, <2>2, <2>4, ChargedKept
<1>6. QED BY <1>3, <1>4, <1>5 DEF StratInv

LEMMA StratRotated ==
    ASSUME StratInv, CredentialRotated
    PROVE  StratInv'
<1> USE DEF CredentialRotated, cacheVars, ghostVars
<1>1. StratTyped'
  BY DEF StratInv, StratTyped
<1>2. FlightTimed' /\ CacheTimed'
  BY DEF StratInv, FlightTimed, CacheTimed, Cached
<1>3. ASSUME NEW c \in Callers PROVE Heard(c)' /\ Charged(c)'
  <2>1. Heard(c) /\ Charged(c) /\ refusals[c] \in Nat /\ rotations \in Nat
    BY DEF StratInv, StratTyped
  <2>2. Heard(c)'
    BY <2>1 DEF Heard
  <2>3. Charged(c)'
    BY <2>1 DEF Charged, One
  <2>4. QED BY <2>2, <2>3
<1>4. QED BY <1>1, <1>2, <1>3 DEF StratInv

LEMMA StratInstantPasses ==
    ASSUME StratInv, InstantPasses
    PROVE  StratInv'
<1> USE DEF InstantPasses, cacheVars, ghostVars
<1>1. StratTyped'
  BY DEF StratInv, StratTyped
<1>2. Cached' => Cached
  BY DEF StratInv, StratTyped, Cached
<1>3. FlightTimed'
  BY DEF StratInv, StratTyped, FlightTimed
<1>4. CacheTimed'
  BY <1>2 DEF StratInv, CacheTimed
<1>5. ASSUME NEW c \in Callers PROVE Heard(c)' /\ Charged(c)'
  <2>1. Heard(c) /\ Charged(c) /\ StratTyped
    BY DEF StratInv
  <2>2. Heard(c)'
    BY <2>1 DEF Heard
  <2>3. (FlightStale' => FlightStale) /\ (HoldsStale(c)' => HoldsStale(c))
    BY <1>2 DEF FlightStale, HoldsStale
  <2>4. QED BY <2>1, <2>2, <2>3, ChargedKept
<1>6. QED BY <1>1, <1>3, <1>4, <1>5 DEF StratInv

LEMMA StratIssues ==
    ASSUME StratInv, SdidIssues
    PROVE  StratInv'
<1> USE DEF SdidIssues, sdidVars, ghostVars
<1>0. setup.tokens.life \in Nat
  BY DEF StratInv, StratTyped, Setups
<1>1. /\ tokFlight' = [since |-> tokFlight.since, token |-> Token(rotations, instant + setup.tokens.life)]
      /\ Token(rotations, instant + setup.tokens.life) \in Bearers
  BY <1>0 DEF StratInv, StratTyped, Token, Bearers
<1>2. StratTyped'
  BY <1>1 DEF StratInv, StratTyped
<1>3. FlightTimed'
  BY <1>0, <1>1 DEF StratInv, StratTyped, FlightTimed, Token
<1>4. CacheTimed'
  BY DEF StratInv, CacheTimed, Cached
<1>5. ASSUME NEW c \in Callers PROVE Heard(c)' /\ Charged(c)'
  <2>1. Heard(c) /\ Charged(c) /\ StratTyped
    BY DEF StratInv
  <2>2. Heard(c)'
    BY <2>1 DEF Heard
  <2>3. ~FlightStale' /\ (HoldsStale(c)' => HoldsStale(c))
    BY <1>1 DEF FlightStale, HoldsStale, Token, Cached
  <2>4. QED BY <2>1, <2>2, <2>3, ChargedKept
<1>6. QED BY <1>2, <1>3, <1>4, <1>5 DEF StratInv

\* The strategy's method up to its first answer from outside.
LEMMA StartLemma ==
    ASSUME StratTyped, NEW a \in Attempts, StartAttempt(a)
    PROVE  /\ attempt' \in [Attempts -> Tries]
           /\ \A x \in Attempts : x # a => attempt'[x] = attempt[x]
           /\ attempt'[a].pc = "sent" /\ setup.auth = "oauth" =>
                 Cached /\ attempt'[a].token = tokCache.token
           /\ tokCache' = tokCache
           /\ \/ tokFlight' = tokFlight
              \/ tokFlight' = [since |-> instant, token |-> NoBearer]
<1>1. CASE setup.strategy = "mock"
  <2>1. setup.auth # "oauth"
    BY <1>1 DEF StratTyped
  <2>2. /\ attempt' = [attempt EXCEPT ![a] = [pc |-> "sent", token |-> StaticCredential, since |-> instant]]
        /\ UNCHANGED cacheVars
    BY <1>1 DEF StartAttempt
  <2>3. [pc |-> "sent", token |-> StaticCredential, since |-> instant] \in Tries
    BY NoBearerTyped DEF StratTyped, Tries
  <2>4. QED BY <2>1, <2>2, <2>3 DEF StratTyped, cacheVars
<1>2. CASE setup.strategy = "oidc" /\ (docCache = Never \/ instant - docCache >= DiscoveryTtl)
  <2>1. /\ attempt' = [attempt EXCEPT ![a].pc = "discovery"]
        /\ UNCHANGED <<docCache, tokCache, tokFlight>>
    BY <1>2 DEF StartAttempt
  <2>2. /\ attempt' \in [Attempts -> Tries] /\ attempt'[a].pc = "discovery"
        /\ \A x \in Attempts : x # a => attempt'[x] = attempt[x]
    BY <2>1 DEF StratTyped, Tries
  <2>3. QED BY <2>1, <2>2
<1>3. CASE /\ setup.strategy # "mock"
           /\ ~(setup.strategy = "oidc" /\ (docCache = Never \/ instant - docCache >= DiscoveryTtl))
  <2>1. Authorize({a}) /\ UNCHANGED <<docCache, docFlight, tokCache>>
    BY <1>3 DEF StartAttempt
  <2>2. QED BY <2>1, AuthorizeLemma
<1>4. QED BY <1>1, <1>2, <1>3

\* A token request that goes out has no token yet.
LEMMA FlightLaunched ==
    ASSUME StratInv, UNCHANGED <<setup, instant, rotations>>,
           \/ tokFlight' = tokFlight
           \/ tokFlight' = [since |-> instant, token |-> NoBearer]
    PROVE  /\ tokFlight' \in [since : Int, token : Bearers]
           /\ FlightTimed' /\ (FlightStale' => FlightStale)
<1>1. CASE tokFlight' = tokFlight
  BY <1>1 DEF StratInv, StratTyped, FlightTimed, FlightStale
<1>2. CASE tokFlight' = [since |-> instant, token |-> NoBearer]
  BY <1>2, NoBearerTyped DEF StratInv, StratTyped, FlightTimed, FlightStale
<1>3. QED BY <1>1, <1>2

LEMMA StratLaunch ==
    ASSUME StratInv, NEW b \in Callers, Launch(b)
    PROVE  StratInv'
<1> DEFINE a == <<b, asked[b].n>>
<1>0. /\ asked[b].pc = "ready" /\ a \in Attempts /\ StratTyped /\ asked[b] \in ProviderCalls
      /\ UNCHANGED <<setup, provider, sdidVars, failures, said, refusals>>
  BY DEF Launch, StratInv, StratTyped, ProviderCalls, Attempts
<1>1. UNCHANGED <<setup, instant, person, rotations, said, refusals>>
  BY <1>0 DEF sdidVars
<1>2. CASE /\ \/ asked' = [asked EXCEPT ![b] = AfterAttempt(@, Error("SdidCircuitOpenError"))]
              \/ asked' = [asked EXCEPT ![b] = AfterAttempt(@, Error("SdidConfigurationError"))]
           /\ UNCHANGED <<cacheVars, attempt>>
  <2>1. PICK out \in Outcomes :
            /\ out.result = "none" /\ out.error \in {"SdidCircuitOpenError", "SdidConfigurationError"}
            /\ asked' = [asked EXCEPT ![b] = AfterAttempt(asked[b], out)]
    <3>1. \A name \in {"SdidCircuitOpenError", "SdidConfigurationError"} :
            Error(name) \in Outcomes /\ Error(name).result = "none" /\ Error(name).error = name
      BY DEF Error, Outcome, Outcomes
    <3>2. QED BY <1>2, <3>1
  <2>2. AfterAttempt(asked[b], out) = [pc |-> "settled", n |-> 0, at |-> 0, outcome |-> out]
    <3>1. AfterAttempt(asked[b], out) = [asked[b] EXCEPT !.pc = "settled", !.outcome = out, !.n = 0, !.at = 0]
      BY <2>1 DEF AfterAttempt, Final
    <3>2. \A k \in ProviderCalls : k = [pc |-> k.pc, n |-> k.n, at |-> k.at, outcome |-> k.outcome]
      BY DEF ProviderCalls
    <3>3. QED BY <1>0, <3>1, <3>2
  <2>3. [pc |-> "settled", n |-> 0, at |-> 0, outcome |-> out] \in ProviderCalls
    BY DEF ProviderCalls
  <2>4. asked' \in [Callers -> ProviderCalls] /\ \A c \in Callers :
            \/ c # b /\ asked'[c] = asked[c]
            \/ c = b /\ asked'[c].pc = "settled" /\ asked'[c].outcome = out
    BY <1>0, <2>1, <2>2, <2>3 DEF StratTyped
  <2>5. UNCHANGED <<tokCache, tokFlight, attempt>>
    BY <1>2 DEF cacheVars
  <2>6. StratTyped'
    BY <1>0, <1>1, <2>4, <2>5 DEF StratTyped
  <2>7. FlightTimed' /\ CacheTimed'
    BY <1>1, <2>5 DEF StratInv, FlightTimed, CacheTimed, Cached
  <2>8. ASSUME NEW c \in Callers PROVE Heard(c)' /\ Charged(c)'
    <3>1. Heard(c) /\ Charged(c)
      BY DEF StratInv
    <3>2. Heard(c)'
      BY <1>0, <1>1, <2>1, <2>4, <3>1 DEF Heard
    <3>3. (FlightStale' => FlightStale) /\ (HoldsStale(c)' => HoldsStale(c))
      BY <1>1, <2>4, <2>5 DEF FlightStale, HoldsStale, Cached
    <3>4. QED BY <1>0, <1>1, <3>1, <3>2, <3>3, ChargedKept
  <2>9. QED BY <2>6, <2>7, <2>8 DEF StratInv
<1>3. CASE /\ asked' = [asked EXCEPT ![b].pc = "waiting", ![b].at = instant]
           /\ StartAttempt(a)
  <2>1. /\ asked' \in [Callers -> ProviderCalls]
        /\ \A c \in Callers : c # b => asked'[c] = asked[c]
        /\ asked'[b].pc = "waiting" /\ asked'[b].n = asked[b].n
    <3>1. asked[b] = [pc |-> asked[b].pc, n |-> asked[b].n, at |-> asked[b].at, outcome |-> asked[b].outcome]
      BY <1>0 DEF ProviderCalls
    <3> DEFINE k == [pc |-> "waiting", n |-> asked[b].n, at |-> instant, outcome |-> asked[b].outcome]
    <3>2. k \in ProviderCalls
      BY <1>0 DEF ProviderCalls, StratTyped
    <3>3. asked' = [asked EXCEPT ![b] = k]
      <4>1. asked' = [asked EXCEPT ![b] = [asked[b] EXCEPT !.pc = "waiting", !.at = instant]]
        BY <1>0, <1>3 DEF StratTyped
      <4>2. [asked[b] EXCEPT !.pc = "waiting", !.at = instant] = k
        <5>1. PICK c \in ProviderCalls : c = asked[b]
          BY <1>0
        <5>2. PICK now \in Nat : now = instant
          BY <1>0 DEF StratTyped
        <5>3. c = [pc |-> c.pc, n |-> c.n, at |-> c.at, outcome |-> c.outcome]
          BY <3>1, <5>1
        <5>4. [c EXCEPT !.pc = "waiting", !.at = now]
                 = [pc |-> "waiting", n |-> c.n, at |-> now, outcome |-> c.outcome]
          <6>1. [c EXCEPT !.pc = "waiting"] = [pc |-> "waiting", n |-> c.n, at |-> c.at, outcome |-> c.outcome]
            BY <5>3
          <6>2. [c EXCEPT !.pc = "waiting", !.at = now] = [[c EXCEPT !.pc = "waiting"] EXCEPT !.at = now]
            BY <5>3
          <6>3. PICK r : r = [pc |-> "waiting", n |-> c.n, at |-> c.at, outcome |-> c.outcome]
            OBVIOUS
          <6>4. [r EXCEPT !.at = now] = [pc |-> "waiting", n |-> c.n, at |-> now, outcome |-> c.outcome]
            BY <6>3
          <6>5. QED BY <6>1, <6>2, <6>3, <6>4
        <5>5. QED BY <5>1, <5>2, <5>4
      <4>3. QED BY <4>1, <4>2
    <3>4. k.pc = "waiting" /\ k.n = asked[b].n
      OBVIOUS
    <3> HIDE DEF k
    <3>5. QED BY <1>0, <3>2, <3>3, <3>4 DEF StratTyped
  <2>2. /\ attempt' \in [Attempts -> Tries]
        /\ \A x \in Attempts : x # a => attempt'[x] = attempt[x]
        /\ attempt'[a].pc = "sent" /\ setup.auth = "oauth" =>
              Cached /\ attempt'[a].token = tokCache.token
        /\ tokCache' = tokCache
        /\ \/ tokFlight' = tokFlight
           \/ tokFlight' = [since |-> instant, token |-> NoBearer]
    <3> HIDE DEF a
    <3>1. QED BY <1>0, <1>3, StartLemma
  <2>3. /\ tokFlight' \in [since : Int, token : Bearers]
        /\ FlightTimed' /\ (FlightStale' => FlightStale)
    BY <1>1, <2>2, FlightLaunched
  <2>4. StratTyped'
    BY <1>0, <1>1, <2>1, <2>2, <2>3 DEF StratTyped
  <2>5. CacheTimed'
    BY <1>1, <2>2 DEF StratInv, CacheTimed, Cached
  <2>6. ASSUME NEW c \in Callers PROVE Heard(c)' /\ Charged(c)'
    <3>1. Heard(c) /\ Charged(c)
      BY DEF StratInv
    <3>2. Heard(c)'
      BY <1>0, <1>1, <2>1, <3>1 DEF Heard
    <3>3. ASSUME setup.auth = "oauth", HoldsStale(c)' PROVE HoldsStale(c)
      <4>1. CASE c = b
        BY <1>1, <2>1, <2>2, <3>3, <4>1 DEF HoldsStale, Cached
      <4>2. CASE c # b
        <5>1. asked'[c] = asked[c] /\ <<c, asked[c].n>> \in Attempts /\ <<c, asked[c].n>> # a
          BY <1>0, <2>1, <4>2 DEF StratTyped, ProviderCalls, Attempts
        <5>2. attempt'[<<c, asked[c].n>>] = attempt[<<c, asked[c].n>>]
          BY <2>2, <5>1
        <5>3. QED BY <1>1, <2>2, <3>3, <5>1, <5>2 DEF HoldsStale, Cached
      <4>3. QED BY <4>1, <4>2
    <3>4. CASE setup.auth # "oauth"
      BY <1>1, <3>2, <3>4 DEF Charged
    <3>5. QED BY <1>0, <1>1, <2>3, <3>1, <3>2, <3>3, <3>4, ChargedKept
  <2>7. QED BY <2>3, <2>4, <2>5, <2>6 DEF StratInv
<1>4. QED BY <1>2, <1>3 DEF Launch

\* Attempts that fail together without an answer about the citizen.
LEMMA StratFailed ==
    ASSUME StratInv, NEW A \in SUBSET Attempts, EndAttempts(A, HttpError),
           UNCHANGED <<setup, instant, person, rotations, said, refusals, tokCache>>,
           tokFlight' \in [since : Int, token : Bearers], FlightTimed', FlightStale' => FlightStale
    PROVE  StratInv'
<1>1. /\ HttpError \in Outcomes /\ HttpError.result = "none"
      /\ HttpError.error = "SdidUnavailableError"
  BY DEF HttpError, Error, Outcome, Outcomes
<1>2. StratTyped /\ Settle(A, HttpError)
  BY DEF StratInv, EndAttempts
<1>3. asked' \in [Callers -> ProviderCalls] /\ attempt' \in [Attempts -> Tries]
  BY <1>1, <1>2, SettleLemma, EndLemma
<1>4. StratTyped'
  BY <1>2, <1>3 DEF StratTyped
<1>5. CacheTimed' /\ (Cached' => Cached)
  BY DEF StratInv, CacheTimed, Cached
<1>6. ASSUME NEW c \in Callers PROVE Heard(c)' /\ Charged(c)'
  <2>1. Heard(c) /\ Charged(c)
    BY DEF StratInv
  <2>2. Heard(c)'
    BY <1>1, <1>2, <2>1, HeardDumb
  <2>3. HoldsStale(c)' => HoldsStale(c)
    BY <1>1, <1>2, <1>5, EndCharged
  <2>4. QED BY <1>2, <2>1, <2>2, <2>3, ChargedKept
<1>7. QED BY <1>4, <1>5, <1>6 DEF StratInv

LEMMA StratDiscovery ==
    ASSUME StratInv, fetchDiscovery
    PROVE  StratInv'
<1> DEFINE A == At_("discovery")
<1>0. /\ UNCHANGED <<setup, instant, person, rotations, said, refusals, tokCache>>
      /\ A \in SUBSET Attempts /\ StratTyped
  BY DEF fetchDiscovery, sdidVars, At_, StratInv
<1>1. CASE EndAttempts(A, HttpError) /\ UNCHANGED tokFlight
  <2>1. /\ tokFlight' \in [since : Int, token : Bearers] /\ FlightTimed'
        /\ FlightStale' => FlightStale
    BY <1>0, <1>1, FlightLaunched
  <2>2. QED BY <1>0, <1>1, <2>1, StratFailed
<1>2. CASE Authorize(A) /\ UNCHANGED <<asked, failures>>
  <2>1. /\ attempt' \in [Attempts -> Tries]
        /\ \A a \in Attempts :
              \/ attempt'[a] = attempt[a]
              \/ attempt'[a].pc = "sent" /\ setup.auth = "oauth" =>
                    Cached /\ attempt'[a].token = tokCache.token
        /\ \/ tokFlight' = tokFlight
           \/ tokFlight' = [since |-> instant, token |-> NoBearer]
    <3> HIDE DEF A
    <3>1. QED BY <1>0, <1>2, AuthorizeLemma
  <2>2. /\ tokFlight' \in [since : Int, token : Bearers]
        /\ FlightTimed' /\ (FlightStale' => FlightStale)
    BY <1>0, <2>1, FlightLaunched
  <2>3. StratTyped'
    BY <1>0, <1>2, <2>1, <2>2 DEF StratTyped
  <2>4. CacheTimed'
    BY <1>0 DEF StratInv, CacheTimed, Cached
  <2>5. ASSUME NEW c \in Callers PROVE Heard(c)' /\ Charged(c)'
    <3>1. Heard(c) /\ Charged(c)
      BY DEF StratInv
    <3>2. Heard(c)'
      BY <1>0, <1>2, <3>1 DEF Heard
    <3>3. <<c, asked[c].n>> \in Attempts
      BY <1>0 DEF StratTyped, ProviderCalls, Attempts
    <3>4. ASSUME setup.auth = "oauth", HoldsStale(c)' PROVE HoldsStale(c)
      BY <1>0, <1>2, <2>1, <3>3, <3>4 DEF HoldsStale, Cached
    <3>5. CASE setup.auth # "oauth"
      BY <1>0, <3>2, <3>5 DEF Charged
    <3>6. QED BY <1>0, <2>2, <3>1, <3>2, <3>4, <3>5, ChargedKept
  <2>6. QED BY <2>2, <2>3, <2>4, <2>5 DEF StratInv
<1>3. QED BY <1>1, <1>2 DEF fetchDiscovery

\* A token fetched with a declared lifetime leaves the cache in time: it was
\* issued after the request was sent, and that is at most Deadline ago.
LEMMA StratAcquire ==
    ASSUME StratInv, acquire
    PROVE  StratInv'
<1>0. /\ UNCHANGED <<setup, instant, person, rotations, said, refusals>>
      /\ tokFlight' = [since |-> Never, token |-> NoBearer] /\ StratTyped
      /\ tokFlight.since # Never
  BY DEF acquire, sdidVars, StratInv
<1>1. /\ tokFlight' \in [since : Int, token : Bearers] /\ FlightTimed'
      /\ ~FlightStale'
  BY <1>0, NoBearerTyped DEF FlightTimed, FlightStale, Never
<1>2. CASE EndAttempts(At_("token"), HttpError) /\ UNCHANGED tokCache
  BY <1>0, <1>1, <1>2, StratFailed DEF At_
<1>3. CASE /\ tokFlight.token # NoBearer
           /\ tokCache' = [token |-> tokFlight.token, until |-> Until]
           /\ attempt' = [a \in Attempts |-> IF attempt[a].pc # "token" THEN attempt[a]
                            ELSE [pc |-> "sent", token |-> tokFlight.token, since |-> instant]]
           /\ UNCHANGED <<asked, failures>>
  <2>1. /\ setup.tokens.life \in Nat /\ Lifetime \in Nat
        /\ setup.tokens.declared => Lifetime = setup.tokens.life
    BY <1>0 DEF StratTyped, Setups, Lifetime
  <2>2. Until = instant + (IF 0 >= Lifetime - TokenSkew THEN 0 ELSE Lifetime - TokenSkew)
    BY <2>1, MaxOfTwo DEF Until
  <2>3. tokFlight.token \in Bearers /\ Until \in Int /\ instant \in Nat
    BY <1>0, <2>1, <2>2 DEF StratTyped
  <2>4. StratTyped'
    <3>1. attempt' \in [Attempts -> Tries]
      BY <1>0, <1>3, <2>3 DEF StratTyped, Tries
    <3>2. QED BY <1>0, <1>1, <1>3, <2>3, <3>1 DEF StratTyped
  <2>5. CacheTimed'
    <3>1. SUFFICES ASSUME Cached', setup.tokens.declared
                   PROVE  tokCache'.until + Deadline <= tokCache'.token.dies
      BY <1>0 DEF CacheTimed
    <3>2. instant < Until
      BY <1>0, <1>3, <3>1 DEF Cached
    <3>3. Until = instant + setup.tokens.life - TokenSkew
      BY <2>1, <2>2, <2>3, <3>1, <3>2
    <3>4. /\ tokFlight.since \in Nat /\ instant <= tokFlight.since + Deadline
          /\ tokFlight.since + setup.tokens.life <= tokFlight.token.dies
      BY <1>0, <1>3 DEF StratInv, FlightTimed
    <3>5. tokFlight.token.dies \in Int
      BY <2>3 DEF Bearers
    <3>6. Until + Deadline <= tokFlight.token.dies
      BY <2>1, <2>3, <3>3, <3>4, <3>5
    <3>7. QED BY <1>3, <3>6
  <2>6. ASSUME NEW c \in Callers PROVE Heard(c)' /\ Charged(c)'
    <3>1. Heard(c) /\ Charged(c) /\ refusals[c] \in Nat /\ rotations \in Nat
      BY <1>0 DEF StratInv, StratTyped
    <3>2. Heard(c)'
      BY <1>0, <1>3, <3>1 DEF Heard
    <3>3. <<c, asked[c].n>> \in Attempts
      BY <1>0 DEF StratTyped, ProviderCalls, Attempts
    <3>4. HoldsStale(c)' => HoldsStale(c) \/ FlightStale
      BY <1>0, <1>3, <3>3 DEF HoldsStale, FlightStale
    <3>5. QED BY <1>0, <1>1, <3>1, <3>2, <3>4 DEF Charged, One
  <2>7. QED BY <1>1, <2>4, <2>5, <2>6 DEF StratInv
<1>4. QED BY <1>2, <1>3 DEF acquire

\* What a strategy makes of SDID's answer about the citizen.
LEMMA VerdictLemma ==
    ASSUME StratTyped, NEW method
    PROVE  /\ Verdict(method) \in Outcomes
           /\ Verdict(method).error \in {"none", "SdidUnknownIdentityError"}
           /\ Verdict(method).result = "data" => person \in {"valid", "withdrawn"}
           /\ Verdict(method).result = "invalid" => person \in {"withdrawn", "unknown"}
           /\ Verdict(method).error = "SdidUnknownIdentityError" => person = "unknown"
<1>1. person \in People
  BY DEF StratTyped
<1>2. Verdict(method) \in {MockAnswers(method), reassert, getAttributes, getReferenceBiometric}
  BY DEF Verdict
<1> USE DEF Ok, Error, Outcome, Outcomes, People
<1>3. CASE Verdict(method) = MockAnswers(method)
  <2>1. CASE person = "unknown"
    <3>1. CASE method = "reassert"
      BY <1>3, <2>1, <3>1 DEF MockAnswers
    <3>2. CASE method # "reassert"
      BY <1>3, <2>1, <3>2 DEF MockAnswers
    <3>3. QED BY <3>1, <3>2
  <2>2. CASE person # "unknown"
    BY <1>1, <1>3, <2>2 DEF MockAnswers
  <2>3. QED BY <2>1, <2>2
<1>4. CASE Verdict(method) = reassert
  <2>1. CASE person = "unknown"
    BY <1>4, <2>1 DEF reassert, Mapped, throwForStatus
  <2>2. CASE person # "unknown"
    BY <1>1, <1>4, <2>2 DEF reassert
  <2>3. QED BY <2>1, <2>2
<1>5. CASE Verdict(method) \in {getAttributes, getReferenceBiometric}
  BY <1>1, <1>5 DEF getAttributes, getReferenceBiometric, throwForStatus
<1>6. QED BY <1>2, <1>3, <1>4, <1>5

LEMMA StratRespond ==
    ASSUME StratInv, NEW a \in Attempts, Respond(a)
    PROVE  StratInv'
<1> DEFINE method == setup.method
           accepted == Alive(attempt[a].token) \/ setup.strategy = "mock"
<1>0. /\ attempt[a].pc = "sent" /\ StratTyped /\ {a} \in SUBSET Attempts
      /\ UNCHANGED <<setup, instant, person, rotations, tokFlight>>
  BY DEF Respond, sdidVars, StratInv
<1>1. Mapped(method, "SdidUnavailableError") = HttpError
  BY DEF Mapped, HttpError
<1>2. FlightTimed' /\ (FlightStale' => FlightStale) /\ tokFlight' \in [since : Int, token : Bearers]
  BY <1>0 DEF StratInv, StratTyped, FlightTimed, FlightStale
<1>3. PICK b \in Callers, m \in 0..MaxRetries : a = <<b, m>> /\ b = a[1] /\ m = a[2]
  BY DEF Attempts
<1>4. CASE /\ EndAttempts({a}, Verdict(method))
           /\ said' = IF Awaited(a) THEN [said EXCEPT ![a[1]] = @ \cup {person}] ELSE said
           /\ UNCHANGED <<tokCache, refusals>>
  <2> DEFINE out == Verdict(method)
  <2>1. /\ out \in Outcomes
        /\ out.error \in {"none", "SdidUnknownIdentityError"}
        /\ out.result = "data" => person \in {"valid", "withdrawn"}
        /\ out.result = "invalid" => person \in {"withdrawn", "unknown"}
        /\ out.error = "SdidUnknownIdentityError" => person = "unknown"
    BY <1>0, VerdictLemma
  <2>2. EndAttempts({a}, out) /\ Settle({a}, out)
    BY <1>4 DEF EndAttempts
  <2> HIDE DEF out
  <2>3. /\ asked' \in [Callers -> ProviderCalls]
        /\ \A c \in Callers :
              \/ /\ ~(asked[c].pc = "waiting" /\ <<c, asked[c].n>> = a)
                 /\ asked'[c] = asked[c]
              \/ /\ asked[c].pc = "waiting" /\ <<c, asked[c].n>> = a
                 /\ asked'[c].pc = "settled" /\ asked'[c].outcome = out
    <3> DEFINE A == {a}
    <3>1. \A x : x \in A <=> x = a
      OBVIOUS
    <3>2. Settle(A, out)
      BY <2>2
    <3>3. out.error \in Final
      BY <2>1 DEF Final
    <3> HIDE DEF A
    <3>4. /\ asked' \in [Callers -> ProviderCalls]
          /\ \A c \in Callers :
                 /\ ~(asked[c].pc = "waiting" /\ <<c, asked[c].n>> \in A) => asked'[c] = asked[c]
                 /\ asked[c].pc = "waiting" /\ <<c, asked[c].n>> \in A =>
                      \/ asked'[c].pc = "settled" /\ asked'[c].outcome = out
                      \/ asked'[c].pc = "ready" /\ out.error \notin Final
      BY <1>0, <2>1, <3>2, SettleLemma
    <3>5. QED BY <3>1, <3>3, <3>4
  <2>4. /\ said' \in [Callers -> SUBSET People]
        /\ \A c \in Callers : said'[c] = IF asked[c].pc = "waiting" /\ <<c, asked[c].n>> = a
                                         THEN said[c] \cup {person} ELSE said[c]
    <3>1. Awaited(a) <=> asked[b].pc = "waiting" /\ asked[b].n = m
      BY <1>3 DEF Awaited
    <3>2. \A c \in Callers : <<c, asked[c].n>> = a <=> c = b /\ asked[b].n = m
      BY <1>3
    <3>3. said \in [Callers -> SUBSET People] /\ person \in People
      BY <1>0 DEF StratTyped
    <3>4. CASE Awaited(a)
      <4>1. said' = [said EXCEPT ![b] = said[b] \cup {person}]
        BY <1>3, <1>4, <3>4
      <4>2. QED BY <3>1, <3>2, <3>3, <3>4, <4>1
    <3>5. CASE ~Awaited(a)
      BY <1>4, <3>1, <3>2, <3>3, <3>5
    <3>6. QED BY <3>4, <3>5
  <2>5. attempt' \in [Attempts -> Tries]
    BY <1>0, <2>2, EndLemma
  <2>6. StratTyped'
    BY <1>0, <1>2, <1>4, <2>3, <2>4, <2>5 DEF StratTyped
  <2>7. CacheTimed' /\ (Cached' => Cached)
    BY <1>0, <1>4 DEF StratInv, CacheTimed, Cached
  <2>8. ASSUME NEW c \in Callers PROVE Heard(c)' /\ Charged(c)'
    <3>1. Heard(c) /\ Charged(c)
      BY DEF StratInv
    <3>2. Heard(c)'
      BY <2>1, <2>3, <2>4, <3>1 DEF Heard
    <3>3. HoldsStale(c)' => HoldsStale(c)
      BY <1>0, <1>4, <2>1, <2>2, <2>7, EndCharged
    <3>4. QED BY <1>0, <1>2, <1>4, <3>1, <3>2, <3>3, ChargedKept
  <2>9. QED BY <1>2, <2>6, <2>7, <2>8 DEF StratInv
<1>5. CASE /\ EndAttempts({a}, Mapped(method, throwForStatus("unauthorized")))
           /\ tokCache' = invalidate
           /\ refusals' = IF attempt[a].token.epoch # rotations /\ Awaited(a)
                          THEN [refusals EXCEPT ![a[1]] = @ + 1] ELSE refusals
           /\ UNCHANGED said
  <2>1. EndAttempts({a}, HttpError) /\ Settle({a}, HttpError)
    BY <1>1, <1>5 DEF throwForStatus, EndAttempts
  <2>2. /\ HttpError \in Outcomes /\ HttpError.result = "none"
        /\ HttpError.error = "SdidUnavailableError"
    BY DEF HttpError, Error, Outcome, Outcomes
  <2>3. /\ asked' \in [Callers -> ProviderCalls] /\ attempt' \in [Attempts -> Tries]
        /\ \A c \in Callers : asked'[c].pc = "waiting" => asked'[c] = asked[c] /\ <<c, asked[c].n>> # a
    <3> DEFINE A == {a}
    <3>1. \A x : x \in A <=> x = a
      OBVIOUS
    <3>2. Settle(A, HttpError)
      BY <2>1
    <3> HIDE DEF A
    <3>3. /\ asked' \in [Callers -> ProviderCalls]
          /\ \A c \in Callers :
                 /\ ~(asked[c].pc = "waiting" /\ <<c, asked[c].n>> \in A) => asked'[c] = asked[c]
                 /\ asked[c].pc = "waiting" /\ <<c, asked[c].n>> \in A =>
                      \/ asked'[c].pc = "settled" /\ asked'[c].outcome = HttpError
                      \/ asked'[c].pc = "ready" /\ HttpError.error \notin Final
      BY <1>0, <2>2, <3>2, SettleLemma
    <3>4. attempt' \in [Attempts -> Tries]
      BY <1>0, <2>1, EndLemma
    <3>5. QED BY <3>1, <3>3, <3>4
  <2>4. tokCache' \in [token : Bearers, until : Int] /\ ~Cached'
    BY <1>5, NoBearerTyped DEF invalidate, EmptyCache, Cached
  <2>5. /\ refusals' \in [Callers -> Nat]
        /\ \A c \in Callers :
              \/ refusals'[c] = refusals[c]
              \/ /\ refusals'[c] = refusals[c] + 1
                 /\ asked[c].pc = "waiting" /\ <<c, asked[c].n>> = a
                 /\ attempt[a].token.epoch # rotations
    <3>1. Awaited(a) <=> asked[b].pc = "waiting" /\ asked[b].n = m
      BY <1>3 DEF Awaited
    <3>2. CASE attempt[a].token.epoch # rotations /\ Awaited(a)
      <4>1. refusals' = [refusals EXCEPT ![b] = refusals[b] + 1]
        BY <1>3, <1>5, <3>2
      <4>2. QED BY <1>0, <1>3, <3>1, <3>2, <4>1 DEF StratTyped
    <3>3. CASE ~(attempt[a].token.epoch # rotations /\ Awaited(a))
      BY <1>0, <1>5, <3>3 DEF StratTyped
    <3>4. QED BY <3>2, <3>3
  <2>6. StratTyped'
    BY <1>0, <1>2, <1>5, <2>3, <2>4, <2>5 DEF StratTyped
  <2>7. CacheTimed'
    BY <2>4 DEF CacheTimed
  <2>8. ASSUME NEW c \in Callers PROVE Heard(c)' /\ Charged(c)'
    <3>1. Heard(c) /\ Charged(c) /\ refusals[c] \in Nat /\ rotations \in Nat
      BY <1>0 DEF StratInv, StratTyped
    <3>2. Heard(c)'
      BY <1>0, <1>5, <2>1, <2>2, <3>1, HeardDumb
    <3>3. HoldsStale(c)' => HoldsStale(c)
      BY <1>0, <2>1, <2>2, <2>4, EndCharged
    <3>4. CASE refusals'[c] = refusals[c]
      BY <1>0, <1>2, <3>1, <3>2, <3>3, <3>4 DEF Charged, One
    <3>5. CASE /\ refusals'[c] = refusals[c] + 1
               /\ asked[c].pc = "waiting" /\ <<c, asked[c].n>> = a
               /\ attempt[a].token.epoch # rotations
      <4>1. HoldsStale(c)
        BY <1>0, <3>5 DEF HoldsStale
      <4>2. ~HoldsStale(c)'
        BY <2>3, <2>4, <3>5 DEF HoldsStale
      <4>3. QED BY <1>0, <1>2, <3>1, <3>2, <3>5, <4>1, <4>2 DEF Charged, One
    <3>6. QED BY <2>5, <3>4, <3>5
  <2>9. QED BY <1>2, <2>6, <2>7, <2>8 DEF StratInv
<1>6. CASE EndAttempts({a}, Mapped(method, throwForStatus("fault"))) /\ UNCHANGED <<said, tokCache, refusals>>
  <2>1. EndAttempts({a}, HttpError)
    BY <1>1, <1>6 DEF throwForStatus
  <2>2. QED BY <1>0, <1>2, <1>6, <2>1, StratFailed
<1>7. QED BY <1>4, <1>5, <1>6 DEF Respond

\* What the adapter's properties rest on, throughout.
LEMMA StrategyInvariant == StrategySpec => []StratInv
<1>1. StrategyInit => StratInv
  BY StratInit
<1>2. StratInv /\ [StrategyNext]_stratVars => StratInv'
  <2>1. ASSUME StratInv, \/ UNCHANGED stratVars \/ createSdidProvider
        PROVE  StratInv'
    <3>1. UNCHANGED <<setup, instant, person, rotations, tokCache, tokFlight, attempt, asked,
                      said, refusals>>
      BY <2>1 DEF stratVars, createSdidProvider, sdidVars, cacheVars, ghostVars
    <3>2. QED BY <2>1, <3>1 DEF StratInv, StratTyped, FlightTimed, CacheTimed, Cached, Heard,
                                Charged, FlightStale, HoldsStale
  <2>2. QED
    BY <2>1, StratDiscovery, StratIssues, StratAcquire, StratRotated, StratInstantPasses,
       StratAsk, StratLaunch, StratTimesOut, StratReport, StratRespond
    DEF StrategyNext
<1>3. QED BY <1>1, <1>2, PTL DEF StrategySpec

\* For any number of callers, retries and rotations, whatever SDID's answers
\* and lifetimes are and however late attempts end: a call reports of a citizen
\* only what SDID told it, and the cache never hands out a token that could
\* expire under the request (execute, acquire, reassert's catch, throwForStatus).
THEOREM StrategiesStayHonest == StrategySpec => []StrategiesHonest
<1>1. StratInv => StrategiesHonest
  <2> SUFFICES ASSUME StratInv PROVE StrategiesHonest
    OBVIOUS
  <2>1. VerdictsHeard
    BY DEF StratInv, Heard, VerdictsHeard
  <2>2. CredentialsFresh
    <3> SUFFICES ASSUME Cached, setup.tokens.declared
                 PROVE  instant + Deadline <= tokCache.token.dies
      BY DEF CredentialsFresh
    <3>1. /\ tokCache.until + Deadline <= tokCache.token.dies
          /\ instant < tokCache.until /\ instant \in Nat /\ tokCache.until \in Int
          /\ tokCache.token.dies \in Int
      BY DEF StratInv, CacheTimed, Cached, StratTyped, Bearers
    <3>2. QED BY <3>1
  <2>3. QED BY <2>1, <2>2 DEF StrategiesHonest
<1>2. QED BY <1>1, StrategyInvariant, PTL


\* A rotated credential costs a call at most two refusals: the token that was
\* cached and the one that was on its way when the credential was rotated
\* (invalidate, acquire).
RotationCost ==
    setup.auth = "oauth" => \A c \in Callers : refusals[c] <= 2 * rotations

\* Recovery comes after the second attempt at the latest, for any number of
\* callers, retries and rotations; not on the very next one, because invalidate
\* does not reach a token request in flight.
THEOREM RotationCostsTwo == StrategySpec => []RotationCost
<1>1. StratInv => RotationCost
  BY DEF StratInv, StratTyped, Charged, One, RotationCost
<1>2. QED BY <1>1, StrategyInvariant, PTL
=============================================================================
