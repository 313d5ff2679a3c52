----------------------------- MODULE Telemetry -----------------------------
(***************************************************************************)
(* Metrics and readiness (observability/metrics.registry.ts,               *)
(* metrics.service.ts, health.service.ts, health.controller.ts).           *)
(*                                                                         *)
(* A label value is a name for its shape: length, alphabet, separators and *)
(* digits are all the registry looks at.  A behaviour exercises either the *)
(* registry or the readiness probes, which share nothing but a gauge.      *)
(***************************************************************************)
EXTENDS Naturals, Sequences, FiniteSetsExt

CONSTANTS Probes,           \* readiness probes that may overlap
          MaxSeries,        \* MAX_SERIES_PER_METRIC
          MaxRecords,       \* bound on recordings
          Latencies         \* observed durations; also the bucket bounds

ASSUME TelemetryAssumption == MaxSeries \in Nat /\ Latencies \subseteq Nat

VARIABLES panel,        \* "registry" or "probes"
          strict,       \* NODE_ENV is test
          series,       \* family -> label values -> state
          dropped,      \* family -> droppedSeries
          taken,        \* ghost: family -> recordings that did not throw
          scraped,      \* what the last scrape showed of droppedSeries
          health,       \* component -> "up" or "down"; one that hangs is down
          probe,        \* probe -> component -> check
          gauge,        \* sdid_broker_readiness
          seen          \* ghost: probe -> states each component had during it

registryVars == <<strict, series, dropped, taken, scraped>>
probeVars == <<health, probe, gauge, seen>>
telemetryVars == <<panel, registryVars, probeVars>>
-----------------------------------------------------------------------------
(* Label values.                                                           *)

\* Length, longest run of digits, and what else a value shows.
Looks(len, run, marks) == [len |-> len, run |-> run, marks |-> marks]

\* Shapes of the values the broker has at hand: words of its vocabularies, the
\* identifiers that must not become labels, and what is at the limits.
Shapes ==
    [absent |-> Looks(0, 0, {}),
     method |-> Looks(21, 0, {}),
     sentence |-> Looks(41, 0, {}),
     uri |-> Looks(8, 0, {"foreign"}),
     nid |-> Looks(16, 16, {"digit"}),
     port |-> Looks(15, 15, {"digit"}),
     uuid |-> Looks(36, 0, {"uuid", "separator", "digit"}),
     hash |-> Looks(24, 0, {"hex"}),
     nonce |-> Looks(20, 0, {"digit"}),
     split |-> Looks(22, 0, {"digit", "separator"})]

Shape(v) == IF v \in DOMAIN Shapes THEN Shapes[v] ELSE Looks(8, 0, {})

\* A national id, the ids of citizens, bindings and relying parties, and hashes.
IdentityShapes == {"nid", "uuid", "hash"}

\* Off by one, and blobs are let through.
MutantUnsafeLabelReason(s) ==
    /\ s.len > 0
    /\ s.len > 40 \/ s.run > 16 \/ s.marks \cap {"foreign", "uuid", "hex"} # {}

unsafeLabelReason(s) ==
    /\ s.len > 0
    /\ \/ s.len > 40 \/ s.run >= 16 \/ s.marks \cap {"foreign", "uuid", "hex"} # {}
       \/ s.len >= 20 /\ "digit" \in s.marks /\ "separator" \notin s.marks

Refused == "refused"

sanitizeLabelValue(v) ==
    IF ~unsafeLabelReason(Shape(v)) THEN v ELSE IF strict THEN Refused ELSE "__rejected__"
-----------------------------------------------------------------------------
(* The vocabulary: what the recording methods hand to the registry.        *)

\* The families of the methods below; those left out are recorded like decisions.
Families == [decisions |-> "counter", http |-> "counter", duration |-> "histogram",
             signing |-> "counter", rate |-> "counter", sdid |-> "histogram",
             circuit |-> "gauge", rejections |-> "counter"]

\* recordHttpRequest: the class of a status; 0 is a handler that threw.
StatusClass(code) == IF code > 0 THEN <<"1xx", "2xx", "3xx", "4xx", "5xx">>[code \div 100] ELSE "error"

\* The first twelve characters: keys that share a prefix share a label.
Cut(segment) ==
    IF segment \in {"broker-signing-1", "broker-signing-2"} THEN "broker-signi" ELSE segment

\* The last segment of a key id that is not empty.
signingKeyLabel(kid) ==
    LET named == SelectSeq(kid, LAMBDA segment : segment # "") IN
    IF named = <<>> THEN "unknown" ELSE Cut(named[Len(named)])

\* A counter key's known prefix; what follows it is an identifier.
rateLimitScope(key) ==
    IF key[1] \in {"enrol:attest:ip", "enrol:nid", "enrol:ip", "ciba:rp", "login"}
      THEN key[1] ELSE "other"

Recording(f, labels, amount) == [family |-> f, labels |-> labels, amount |-> amount]

\* The calls of a method, each the set of what it records.
recordCibaDecision ==
    {{Recording("decisions", <<v>>, 1)} : v \in DOMAIN Shapes \cup {"approve"}}
recordHttpRequest ==
    {{Recording("http", <<"method", StatusClass(code)>>, 1), Recording("duration", <<"method">>, d)} :
        code \in {0, 200, 503}, d \in {l \in Latencies : \A m \in Latencies : l <= m}}
recordSigningOperation ==
    {{Recording("signing", <<signingKeyLabel(kid)>>, 1)} :
        kid \in {<<>>, <<"ring", "broker-signing-1">>, <<"ring", "broker-signing-2", "">>}}
recordRateLimitHit ==
    {{Recording("rate", <<rateLimitScope(key)>>, 1)} : key \in {<<"enrol:nid", "nid">>, <<"nid">>}}
recordSdidCall ==
    {{Recording("sdid", <<"method">>, d)} :
        d \in Latencies \cup {l + 1 : l \in {m \in Latencies : \A k \in Latencies : k <= m}}}
recordSdidCircuitState ==
    {{Recording("circuit", <<>>, 0)},
     {Recording("circuit", <<>>, 1), Recording("rejections", <<>>, 1)}}

Recordings == recordCibaDecision \cup recordHttpRequest \cup recordSigningOperation
              \cup recordRateLimitHit \cup recordSdidCall \cup recordSdidCircuitState
-----------------------------------------------------------------------------
(* The registry.                                                           *)

newState(f) ==
    IF Families[f] = "histogram"
      THEN [count |-> 0, sum |-> 0, buckets |-> [b \in Latencies |-> 0]]
      ELSE [value |-> 0]

\* On the state that was resolved.
inc(st, amount) == [st EXCEPT !.value = @ + amount]

set(st, value) == [st EXCEPT !.value = value]

observe(st, value) ==
    [count |-> st.count + 1, sum |-> st.sum + value,
     buckets |-> [b \in Latencies |-> st.buckets[b] + (IF value <= b THEN 1 ELSE 0)]]

Applied(f, st, amount) ==
    CASE Families[f] = "counter" -> inc(st, amount)
      [] Families[f] = "gauge" -> set(st, amount)
      [] Families[f] = "histogram" -> observe(st, amount)

\* At its ceiling a family forgets what it cannot hold.
MutantResolve(f, labels) ==
    LET values == [i \in DOMAIN labels |-> sanitizeLabelValue(labels[i])] IN
    [values |-> values,
     to |-> CASE \E i \in DOMAIN values : values[i] = Refused -> "refused"
              [] values \in DOMAIN series[f] \/ Cardinality(DOMAIN series[f]) < MaxSeries -> "series"
              [] OTHER -> "forgotten"]

\* A value that is refused throws before anything is counted.
resolve(f, labels) ==
    LET values == [i \in DOMAIN labels |-> sanitizeLabelValue(labels[i])] IN
    [values |-> values,
     to |-> CASE \E i \in DOMAIN values : values[i] = Refused -> "refused"
              [] values \in DOMAIN series[f] \/ Cardinality(DOMAIN series[f]) < MaxSeries -> "series"
              [] OTHER -> "dropped"]

Updated(f, key, amount) ==
    [k \in DOMAIN series[f] \cup {key} |->
        LET st == IF k \in DOMAIN series[f] THEN series[f][k] ELSE newState(f) IN
        IF k = key THEN Applied(f, st, amount) ELSE st]

Recorded == MapThenSumSet(LAMBDA f : taken[f], DOMAIN Families)

record(call) ==
    LET To(f, to) == {r \in call : r.family = f /\ resolve(f, r.labels).to = to}
        Grown(f) == IF To(f, "series") = {} THEN series[f]
                    ELSE LET r == CHOOSE r \in To(f, "series") : TRUE
                         IN  Updated(f, resolve(f, r.labels).values, r.amount)
    IN  /\ panel = "registry" /\ Recorded < MaxRecords
        /\ \A r \in call : resolve(r.family, r.labels).to # "refused"
        /\ taken' = [f \in DOMAIN Families |-> taken[f] + Cardinality({r \in call : r.family = f})]
        /\ dropped' = [f \in DOMAIN Families |-> dropped[f] + Cardinality(To(f, "dropped"))]
        /\ series' = [f \in DOMAIN Families |-> Grown(f)]
        /\ UNCHANGED <<panel, strict, scraped, probeVars>>

droppedSeries == MapThenSumSet(LAMBDA f : dropped[f], DOMAIN Families)

\* GET /metrics: the self-metric is refreshed first.
render ==
    /\ panel = "registry"
    /\ scraped' = [dropped |-> droppedSeries, at |-> Recorded]
    /\ UNCHANGED <<panel, strict, series, dropped, taken, probeVars>>
-----------------------------------------------------------------------------
(* Readiness.                                                              *)

Components == {"postgres", "redis", "signing_key"}

NoProbe == [c \in Components |-> "idle"]

\* GET /readyz: the three checks at once.
readiness(p) ==
    /\ panel = "probes"
    /\ probe[p] = NoProbe
    /\ probe' = [probe EXCEPT ![p] = [c \in Components |-> "probing"]]
    /\ seen' = [seen EXCEPT ![p] = [c \in Components |-> {health[c]}]]
    /\ UNCHANGED <<panel, registryVars, health, gauge>>

\* withTimeout: the answer, or after two seconds none.
CheckVerdict(state) == IF state = "up" THEN "ok" ELSE "fail"

check(p, c) ==
    /\ probe[p][c] = "probing"
    /\ probe' = [probe EXCEPT ![p][c] = CheckVerdict(health[c])]
    /\ gauge' = [gauge EXCEPT ![c] = CheckVerdict(health[c])]
    /\ UNCHANGED <<panel, registryVars, health, seen>>

Settled(p) == \A c \in Components : probe[p][c] \in {"ok", "fail"}

\* The answer: 200 when all are ok, else 503.
Ready(p) == Settled(p) /\ \A c \in Components : probe[p][c] = "ok"

Answer(p) ==
    /\ Settled(p)
    /\ probe' = [probe EXCEPT ![p] = NoProbe]
    /\ seen' = [seen EXCEPT ![p] = [c \in Components |-> {}]]
    /\ UNCHANGED <<panel, registryVars, health, gauge>>

\* A dependency goes down or hangs, or comes back.
HealthTurns(c) ==
    /\ panel = "probes"
    /\ \E h \in {"up", "down"} \ {health[c]} :
          /\ health' = [health EXCEPT ![c] = h]
          /\ seen' = [p \in Probes |->
                        IF probe[p][c] = "probing" THEN [seen[p] EXCEPT ![c] = @ \cup {h}]
                        ELSE seen[p]]
    /\ UNCHANGED <<panel, registryVars, probe, gauge>>
-----------------------------------------------------------------------------
TelemetryInit ==
    /\ panel \in {"registry", "probes"}
    /\ strict \in BOOLEAN /\ (panel = "probes" => ~strict)
    /\ series = [f \in DOMAIN Families |-> [k \in {} |-> newState(f)]]
    /\ dropped = [f \in DOMAIN Families |-> 0]
    /\ taken = [f \in DOMAIN Families |-> 0]
    /\ scraped = [dropped |-> 0, at |-> 0]
    /\ health = [c \in Components |-> "up"]
    /\ probe = [p \in Probes |-> NoProbe]
    /\ gauge = [c \in Components |-> "ok"]
    /\ seen = [p \in Probes |-> [c \in Components |-> {}]]

TelemetryNext ==
    \/ \E call \in Recordings : record(call)
    \/ render
    \/ \E p \in Probes : readiness(p) \/ Answer(p)
    \/ \E p \in Probes, c \in Components : check(p, c)
    \/ \E c \in Components : HealthTurns(c)
-----------------------------------------------------------------------------
TelemetrySpec == TelemetryInit /\ [][TelemetryNext]_telemetryVars

\* The buckets of a histogram are cumulative, and none exceeds its count.
Cumulative(st) ==
    \A a, b \in Latencies :
        a <= b => st.buckets[a] <= st.buckets[b] /\ st.buckets[b] <= st.count

\* Of the shapes metrics.registry.ts:33-39 lists: no series is labelled with a
\* national id, a uuid or a hash.  ("Base64url blobs" are its fourth shape; one
\* with a - or _ in it is taken for an enum, so that nothing is stated of them.)
\* A family never has more than its ceiling, and the buckets of a histogram are
\* cumulative.  Documented (health.service.ts): a 200 from /readyz means that
\* each dependency was up during that very probe, and a 503 that one of them was
\* not (readiness, check).
TelemetryHonest ==
    /\ \A f \in DOMAIN Families :
         /\ Cardinality(DOMAIN series[f]) <= MaxSeries
         /\ \A k \in DOMAIN series[f] :
               /\ \A i \in DOMAIN k : k[i] \notin IdentityShapes
               /\ Families[f] = "histogram" => Cumulative(series[f][k])
    /\ \A p \in Probes : Settled(p) =>
         IF Ready(p) THEN \A c \in Components : "up" \in seen[p][c]
                     ELSE \E c \in Components : seen[p][c] # {"up"}

Counted(f) ==
    MapThenSumSet(LAMBDA k : IF Families[f] = "histogram" THEN series[f][k].count
                             ELSE series[f][k].value, DOMAIN series[f])

\* No recording is lost in silence: what a family's series lack of the recordings
\* is covered by what it counts as dropped, also when the same combination is
\* dropped again, and a scrape shows all that was dropped before it (resolve,
\* render).
NothingLostUnnoticed ==
    /\ \A f \in DOMAIN Families :
          Families[f] # "gauge" => Counted(f) + dropped[f] >= taken[f]
    /\ scraped.at = Recorded => scraped.dropped = droppedSeries
=============================================================================
