--------------------------- MODULE SdidStrategies ---------------------------
(***************************************************************************)
(* From the broker's call of an SdidProvider to SDID's HTTP answer: the    *)
(* strategy createSdidProvider composed (mock, OIDC or proprietary REST),  *)
(* its discovery and access-token caches, the mapping of every answer onto *)
(* the adapter's errors, the audit hook and the metrics seam.              *)
(*                                                                         *)
(* An attempt is <<c, n>>: the n-th try of call c.  execute() gives up on  *)
(* an attempt after timeoutMs but nothing cancels it, so it may still fill *)
(* or drop a cache later.  The breaker's own states are in SdidResilience; *)
(* here it may refuse once Trip attempts in a row have failed.             *)
(***************************************************************************)
EXTENDS Integers, FiniteSets, FiniteSetsExt

CONSTANTS Callers,
          MaxRetries,        \* retries
          Trip,              \* breakerFailureThreshold
          Deadline,          \* timeoutMs and httpTimeoutMs, both 5 s
          TokenSkew,         \* expirySkewMs
          Lifetimes,         \* values of expires_in
          FallbackLifetime,  \* fallbackLifetimeMs
          DiscoveryTtl,      \* discoveryTtlMs
          LastInstant, MaxRotations  \* bounds

\* A token is taken out of the cache earlier than a token request and the request
\* it is used for can last together: 30 s against twice 5 s.
ASSUME StrategyAssumption ==
    /\ MaxRetries \in Nat /\ Trip \in Nat /\ Deadline \in Nat /\ TokenSkew \in Nat
    /\ Lifetimes \subseteq Nat /\ FallbackLifetime \in Nat
    /\ LastInstant \in Nat /\ MaxRotations \in Nat
    /\ 2 * Deadline <= TokenSkew

VARIABLES setup,             \* the options of createSdidProvider
          provider,          \* "boot", "up" or "refused"
          instant,
          person,            \* external: the citizen in SDID: "valid", "withdrawn" or "unknown"
          rotations,         \* external: how often our client credential was rotated
          docCache,          \* discoveryCache.fetchedAtMs, Never for none
          docFlight,         \* discoveryInFlight: when it was sent, Never for none
          tokCache,          \* cached token and its expiresAtMs
          tokFlight,         \* inFlight: when it was sent, and the token once SDID issued it
          attempt, asked,    \* attempts, and calls of the provider
          failures,          \* failed attempts in a row, up to Trip
          said,              \* ghost: what SDID told the awaited attempts of a call
          refusals           \* ghost: answers 401 to a call for a rotated credential

stratVars == <<setup, provider, instant, person, rotations, docCache, docFlight, tokCache,
               tokFlight, attempt, asked, failures, said, refusals>>
sdidVars == <<instant, person, rotations>>
cacheVars == <<docCache, docFlight, tokCache, tokFlight>>
ghostVars == <<said, refusals>>

Never == -1
Attempts == Callers \X (0..MaxRetries)
Methods == {"referenceBiometric", "attributes", "reassert"}
Adapters == Methods \cup {"subjectResolver"}

\* dies: when SDID lets it expire; epoch: the credential it was issued for.
Token(epoch, dies) == [epoch |-> epoch, dies |-> dies]
StaticCredential == Token(0, LastInstant + 1)
NoBearer == Token(Never, 0)
Alive(t) == t.epoch = rotations /\ instant < t.dies
-----------------------------------------------------------------------------
(* Composition at boot.                                                    *)

\* auth "static": an API key, a fixed bearer token or a custom scheme.  The
\* last two are no options: the method called, and SDID's practice in expires_in.
Setups == [strategy : {"oidc", "proprietary", "mock"}, auth : {"static", "oauth"},
           block : BOOLEAN, given : {Adapters, Adapters \ {"subjectResolver"}},
           requireFullyConfigured : BOOLEAN, method : Methods,
           tokens : [life : Lifetimes, declared : BOOLEAN]]

\* The mock needs no options and knows no withdrawn citizens; the flag matters
\* only where something is missing.
\* Both real strategies use one token source, which is followed where it meets
\* discovery, once for each method.
Sensible(s) ==
    /\ s.strategy = "mock" => s.auth = "static" /\ ~s.block /\ person # "withdrawn"
    /\ s.given = Adapters \/ ~s.block => s.requireFullyConfigured
    /\ s.strategy = "mock" \/ ~s.block => s.given = Adapters
    /\ (s.strategy = "oidc") = (s.auth = "oauth")
    /\ s.auth = "oauth" => person = CASE s.method = "reassert" -> "unknown"
                                      [] s.method = "attributes" -> "withdrawn"
                                      [] OTHER -> "valid"
    /\ s.tokens.declared = (s.tokens.life = Max(Lifetimes))
    /\ s.auth = "static" \/ s.given # Adapters => s.tokens.declared

describeGaps == IF setup.strategy = "mock" THEN {} ELSE Adapters \ setup.given

createSdidProvider ==
    /\ provider = "boot"
    /\ provider' = IF \/ setup.strategy # "mock" /\ ~setup.block
                      \/ setup.requireFullyConfigured /\ describeGaps # {}
                   THEN "refused" ELSE "up"
    /\ UNCHANGED <<setup, sdidVars, cacheVars, attempt, asked, failures, ghostVars>>
-----------------------------------------------------------------------------
(* Outcomes.  An attempt ends; execute() looks only at the one it awaits.  *)

Outcome(result, error) == [result |-> result, error |-> error]
Ok(value) == Outcome(value, "none")
Error(name) == Outcome("none", name)

NoCall == [pc |-> "idle", n |-> 0, at |-> 0, outcome |-> Error("none")]

Awaited(a) == asked[a[1]].pc = "waiting" /\ asked[a[1]].n = a[2]

Final == {"none", "SdidUnknownIdentityError", "SdidConfigurationError", "SdidCircuitOpenError"}

\* The catch of execute(): an answer or a gap is final, the rest is retried.
AfterAttempt(k, out) ==
    IF out.error \in Final \/ k.n = MaxRetries
    THEN [k EXCEPT !.pc = "settled", !.outcome = out, !.n = 0, !.at = 0]
    ELSE [k EXCEPT !.pc = "ready", !.n = @ + 1]

Settle(A, out) ==
    LET heeded == {a \in A : Awaited(a)} IN
    /\ asked' = [c \in Callers |-> IF <<c, asked[c].n>> \in heeded
                                   THEN AfterAttempt(asked[c], out) ELSE asked[c]]
    /\ failures' = CASE heeded = {} \/ out.error = "SdidConfigurationError" -> failures
                     [] out.error \in {"none", "SdidUnknownIdentityError"} -> 0
                     [] OTHER -> Min({Trip, failures + Cardinality(heeded)})

Finished == [pc |-> "none", token |-> NoBearer, since |-> 0]

EndAttempts(A, out) ==
    /\ attempt' = [a \in Attempts |-> IF a \in A THEN Finished ELSE attempt[a]]
    /\ Settle(A, out)
-----------------------------------------------------------------------------
(* The authenticated call layer.                                           *)

EmptyCache == [token |-> NoBearer, until |-> 0]
Cached == tokCache.token # NoBearer /\ instant < tokCache.until

\* getToken for the attempts in A; with a credential the request goes out.
Authorize(A) ==
    LET Go(t) == /\ attempt' = [a \in Attempts |->
                        IF a \in A THEN [pc |-> "sent", token |-> t, since |-> instant] ELSE attempt[a]]
                 /\ UNCHANGED tokFlight
    IN CASE setup.auth = "static" -> Go(StaticCredential)
         [] setup.auth # "static" /\ Cached -> Go(tokCache.token)
         [] OTHER -> /\ attempt' = [a \in Attempts |->
                            IF a \in A THEN [attempt[a] EXCEPT !.pc = "token"] ELSE attempt[a]]
                     /\ tokFlight' = IF tokFlight.since # Never THEN tokFlight
                                     ELSE [since |-> instant, token |-> NoBearer]

\* The strategy's method up to its first answer from outside.
StartAttempt(a) ==
    CASE setup.strategy = "mock" ->
            /\ attempt' = [attempt EXCEPT ![a] = [pc |-> "sent", token |-> StaticCredential, since |-> instant]]
            /\ UNCHANGED <<cacheVars>>
      [] setup.strategy = "oidc" /\ (docCache = Never \/ instant - docCache >= DiscoveryTtl) ->
            /\ attempt' = [attempt EXCEPT ![a].pc = "discovery"]
            /\ docFlight' = IF docFlight = Never THEN instant ELSE docFlight
            /\ UNCHANGED <<docCache, tokCache, tokFlight>>
      [] OTHER -> Authorize({a}) /\ UNCHANGED <<docCache, docFlight, tokCache>>

\* requireAdapter, and resolveUpstreamIdentifier for a call by stored subject.
Missing(method) ==
    LET needed == {method} \cup IF method = "referenceBiometric" THEN {} ELSE {"subjectResolver"}
    IN needed \cap describeGaps # {}

Ask(c) ==
    /\ provider = "up"
    /\ asked[c].pc = "idle"
    /\ asked' = [asked EXCEPT ![c].pc = "ready"]
    /\ UNCHANGED <<setup, provider, sdidVars, cacheVars, attempt, failures, ghostVars>>

\* One turn of execute()'s loop: the breaker, then the strategy's method.
Launch(c) ==
    LET a == <<c, asked[c].n>> IN
    /\ asked[c].pc = "ready"
    /\ \/ /\ failures = Trip
          /\ asked' = [asked EXCEPT ![c] = AfterAttempt(@, Error("SdidCircuitOpenError"))]
          /\ UNCHANGED <<cacheVars, attempt>>
       \/ /\ Missing(setup.method)
          /\ asked' = [asked EXCEPT ![c] = AfterAttempt(@, Error("SdidConfigurationError"))]
          /\ UNCHANGED <<cacheVars, attempt>>
       \/ /\ ~Missing(setup.method)
          /\ asked' = [asked EXCEPT ![c].pc = "waiting", ![c].at = instant]
          /\ StartAttempt(a)
    /\ UNCHANGED <<setup, provider, sdidVars, failures, said, refusals>>

At_(pc) == {a \in Attempts : attempt[a].pc = pc}

\* What sendWithDeadline and the status checks make of a failed request.
\* execute() treats the subclasses for timeouts and malformed answers alike.
HttpError == Error("SdidUnavailableError")

\* A valid document that names our issuer is cached; anything else, a 404 too, is an outage.
fetchDiscovery ==
    /\ docFlight # Never
    /\ docFlight' = Never
    /\ \/ /\ docCache' = instant
          /\ Authorize(At_("discovery"))
          /\ UNCHANGED <<asked, failures>>
       \/ /\ EndAttempts(At_("discovery"), HttpError)
          /\ UNCHANGED <<docCache, tokFlight>>
    /\ UNCHANGED <<setup, provider, sdidVars, tokCache, said, refusals>>

\* external: SDID's token endpoint; the answer may omit expires_in.
SdidIssues ==
    /\ tokFlight.since # Never /\ tokFlight.token = NoBearer
    /\ tokFlight' = [tokFlight EXCEPT !.token = Token(rotations, instant + setup.tokens.life)]
    /\ UNCHANGED <<setup, provider, sdidVars, docCache, docFlight, tokCache, attempt, asked,
                   failures, ghostVars>>

Lifetime == IF setup.tokens.declared THEN setup.tokens.life ELSE FallbackLifetime

Until == instant + Max({0, Lifetime - TokenSkew})

\* Every waiter gets the token that arrives, fresh or not.
acquire ==
    /\ tokFlight.since # Never
    /\ tokFlight' = [since |-> Never, token |-> NoBearer]
    /\ \/ /\ tokFlight.token # NoBearer
          /\ tokCache' = [token |-> tokFlight.token, until |-> Until]
          /\ attempt' = [a \in Attempts |-> IF attempt[a].pc # "token" THEN attempt[a]
                            ELSE [pc |-> "sent", token |-> tokFlight.token, since |-> instant]]
          /\ UNCHANGED <<asked, failures>>
       \/ /\ EndAttempts(At_("token"), HttpError)
          /\ UNCHANGED <<tokCache>>
    /\ UNCHANGED <<setup, provider, sdidVars, docCache, docFlight, said, refusals>>

invalidate == EmptyCache

\* 404, an error body and a 403 of the gateway all taken for "no such identity".
MutantThrowForStatus(status) ==
    IF status \in {"notFound", "unauthorized"} THEN "SdidUnknownIdentityError" ELSE "SdidUnavailableError"

\* Only a status the deployment listed means that SDID does not know the citizen.
throwForStatus(status) ==
    IF status = "notFound" THEN "SdidUnknownIdentityError" ELSE "SdidUnavailableError"

\* The schemas hold back a malformed answer, which is a fault; a citizen
\* SDID does not know is an error, whatever is asked for.
getReferenceBiometric == IF person = "unknown" THEN Error(throwForStatus("notFound")) ELSE Ok("data")

\* The claims the scopes justify; for the stored subject, resolved before.
getAttributes == IF person = "unknown" THEN Error(throwForStatus("notFound")) ELSE Ok("data")

\* reassert's catch: an identity SDID no longer knows is not valid.
Mapped(method, error) ==
    IF method = "reassert" /\ error = "SdidUnknownIdentityError" THEN Ok("invalid") ELSE Error(error)

reassert ==
    CASE person = "unknown" -> Mapped("reassert", throwForStatus("notFound"))
      [] person = "withdrawn" -> Ok("invalid")
      [] OTHER -> Ok("data")

\* The mock answers from its list of citizens; reassert never throws.
MockAnswers(method) ==
    CASE person # "unknown" -> Ok("data")
      [] person = "unknown" /\ method = "reassert" -> Ok("invalid")
      [] OTHER -> Error("SdidUnknownIdentityError")

Verdict(method) ==
    CASE setup.strategy = "mock" -> MockAnswers(method)
      [] setup.strategy # "mock" /\ method = "reassert" -> reassert
      [] setup.strategy # "mock" /\ method = "attributes" -> getAttributes
      [] OTHER -> getReferenceBiometric

\* The answer to the request of attempt a: data, a refusal of our credential
\* (which drops the cached token), or a fault.  The mock knows no credentials.
Respond(a) ==
    LET c == a[1]
        method == setup.method
        accepted == Alive(attempt[a].token) \/ setup.strategy = "mock"
    IN /\ attempt[a].pc = "sent"
       /\ \/ /\ accepted
             /\ EndAttempts({a}, Verdict(method))
             /\ said' = IF Awaited(a) THEN [said EXCEPT ![c] = @ \cup {person}] ELSE said
             /\ UNCHANGED <<tokCache, refusals>>
          \/ /\ ~accepted
             /\ EndAttempts({a}, Mapped(method, throwForStatus("unauthorized")))
             /\ tokCache' = invalidate
             /\ refusals' = IF attempt[a].token.epoch # rotations /\ Awaited(a)
                            THEN [refusals EXCEPT ![c] = @ + 1] ELSE refusals
             /\ UNCHANGED said
          \/ /\ EndAttempts({a}, Mapped(method, throwForStatus("fault")))
             /\ UNCHANGED <<said, tokCache, refusals>>
       /\ UNCHANGED <<setup, provider, sdidVars, docCache, docFlight, tokFlight>>

\* withTimeout rejects; the attempt itself goes on.
TimesOut(c) ==
    /\ asked[c].pc = "waiting"
    /\ instant - asked[c].at >= Deadline
    /\ Settle({<<c, asked[c].n>>}, Error("SdidTimeoutError"))
    /\ UNCHANGED <<setup, provider, sdidVars, cacheVars, attempt, ghostVars>>

\* withAuditHook and instrumentSdidProvider: the event and the metrics come
\* between the outcome and the caller, who gets it whether or not they succeed.
Report(c) ==
    /\ asked[c].pc = "settled"
    /\ asked' = [asked EXCEPT ![c] = [NoCall EXCEPT !.pc = "done"]]
    /\ said' = [said EXCEPT ![c] = {}]
    /\ UNCHANGED <<setup, provider, sdidVars, cacheVars, attempt, failures, refusals>>
-----------------------------------------------------------------------------
(* SDID and time.                                                          *)

CredentialRotated ==
    /\ rotations < MaxRotations
    /\ rotations' = rotations + 1
    /\ UNCHANGED <<setup, provider, instant, person, cacheVars, attempt, asked, failures, ghostVars>>

\* No request outlives its socket deadline, no awaited attempt its timeout.
InstantPasses ==
    /\ instant < LastInstant
    /\ \A c \in Callers : asked[c].pc = "waiting" => instant - asked[c].at < Deadline
    /\ \A a \in At_("sent") : instant - attempt[a].since < Deadline
    /\ \A since \in {docFlight, tokFlight.since} : since # Never => instant - since < Deadline
    /\ instant' = instant + 1
    /\ UNCHANGED <<setup, provider, person, rotations, cacheVars, attempt, asked, failures, ghostVars>>

StrategyInit ==
    /\ provider = "boot" /\ instant = 0 /\ rotations = 0
    /\ person \in {"valid", "withdrawn", "unknown"}
    /\ setup \in {s \in Setups : Sensible(s)}
    /\ docCache = Never /\ docFlight = Never
    /\ tokCache = EmptyCache
    /\ tokFlight = [since |-> Never, token |-> NoBearer]
    /\ attempt = [a \in Attempts |-> Finished]
    /\ asked = [c \in Callers |-> NoCall]
    /\ failures = 0
    /\ said = [c \in Callers |-> {}] /\ refusals = [c \in Callers |-> 0]

StrategyNext ==
    \/ createSdidProvider \/ fetchDiscovery \/ SdidIssues \/ acquire
    \/ CredentialRotated \/ InstantPasses
    \/ \E c \in Callers : Ask(c) \/ Launch(c) \/ TimesOut(c) \/ Report(c)
    \/ \E a \in Attempts : Respond(a)

StrategySpec == StrategyInit /\ [][StrategyNext]_stratVars
-----------------------------------------------------------------------------
(* Properties.                                                             *)

\* What a call reports of a citizen is what SDID said of that citizen to one of
\* this call's attempts: no outage, rate limit, refused credential, broken
\* discovery or unfilled gap is ever taken for an unknown or withdrawn identity.
VerdictsHeard ==
    \A c \in Callers :
        LET out == asked[c].outcome IN
        asked[c].pc = "settled" =>
            /\ out.result = "data" => "valid" \in said[c] \/ "withdrawn" \in said[c]
            /\ out.result = "invalid" => {"withdrawn", "unknown"} \cap said[c] # {}
            /\ out.error = "SdidUnknownIdentityError" => "unknown" \in said[c]
            /\ out.error = "SdidConfigurationError" => said[c] = {}

\* A token the cache would give out, if it came with a lifetime, outlasts the
\* request it is used for, unless it is revoked.
CredentialsFresh ==
    Cached /\ setup.tokens.declared => instant + Deadline <= tokCache.token.dies

\* The SDID adapter tells the broker about citizens only what SDID said, and a
\* token that is about to expire is not used.
StrategiesHonest == VerdictsHeard /\ CredentialsFresh
=============================================================================
