----------------------------- MODULE KeyCustody -----------------------------
(***************************************************************************)
(* The broker's signing keys: the signing_keys table (or the key ring of a *)
(* KMS or HSM), and on every replica the custody's copy of it, the JWKS    *)
(* snapshot that is published and verified against, the usage tallies, and *)
(* the jobs that run interleaved on one event loop: boot, readiness probe, *)
(* rotation, signing, the usage-summary timer and shutdown.                *)
(* A key is named by its place in the table, which is the order of         *)
(* created_at.  Rows are never deleted, so a copy is a past value of the   *)
(* table.  A query and the use of its result are two steps.                *)
(***************************************************************************)
EXTENDS Integers, Sequences, FiniteSets

CONSTANTS KeyReplicas,     \* broker processes that share one key table
          Settings,    \* which replicas run and what may happen; a behaviour has one
          MaxKeys,      \* bound: keys ever generated, in any scenario
          MaxSigned     \* bound: signatures and failures tallied per replica

ASSUME BoundsAssumption == MaxKeys \in Nat /\ MaxSigned \in Nat

\* A deployment has some replicas, and finitely many.
ASSUME ReplicasAssumption == IsFiniteSet(KeyReplicas) /\ KeyReplicas # {}

VARIABLES provider,     \* the custody boundary that KEY_CUSTODY selects
          setting,          \* the scenario of this behaviour
          keyRows,         \* status of every key, oldest first
          outage,       \* of the table or the backend: one, ahead, now or over
          view,         \* custody.keys and custody.active of a replica
          jwks,         \* KeysService.publicJwks: the kids a replica publishes
          job,          \* what each job of a replica is doing
          events,       \* pendingEvents
          healthy,      \* lastHealthy
          usage,        \* the tallies
          throttled,    \* a signing_failed row was written within 60 s
          trail,        \* the lifecycle rows (generated, promoted, retired) in the audit trail
          owed,         \* ghost: what happened and no usage_summary has reported
          count,        \* signatures and failures tallied since boot
          overlap       \* ghost: two summaries were in flight at once

keysVars == <<provider, setting, keyRows, outage, view, jwks, job, events, healthy, usage,
              throttled, trail, owed, count, overlap>>
fixed == <<provider, setting>>
tallies == <<usage, throttled, owed, count, overlap>>

Kids == 1 .. MaxKeys
Status == {"active", "retired"}
Fields == {"signatures", "probeSignatures", "failures", "suppressed"}
Jobs == {"boot", "probe", "rotate", "sign", "flush", "stop"}

NoJob == [pc |-> "idle", seen |-> <<>>, kid |-> 0, sum |-> <<>>, due |-> <<>>]
Blank == [k \in Kids |-> [f \in Fields |-> 0]]

Unreachable == outage = "now"
Up(r) == job[r]["boot"].pc = "up"
JobAt(r, j, pc) == job[r][j].pc = pc
Goto(r, j, pc) == job' = [job EXCEPT ![r][j].pc = pc]
Done(r, j) == job' = [job EXCEPT ![r][j] = NoJob]

\* The active key of a copy: the oldest row that says so, 0 for null.
Actives(v) == {k \in DOMAIN v : v[k] = "active"}
FirstActive(v) ==
    IF Actives(v) = {} THEN 0 ELSE CHOOSE k \in Actives(v) : \A l \in Actives(v) : k <= l
-----------------------------------------------------------------------------
(* The audit trail: append() throws only where the scenario lets it, before *)
(* its COMMIT took effect or after it.  The rows that nothing here depends *)
(* on (health_changed, signing_failed, rotated) are left out of trail.     *)

AppendFails == "auditFails" \in setting.may
-----------------------------------------------------------------------------
(* reload(): the SELECT, and the assignment of keys and active.  For an    *)
(* adapter it is listKeys, then one getPublicKey per key, and the list is  *)
(* kept until all have answered.                                           *)

\* A query that reaches the backend; the job goes on with what it saw.
Query(r, j, from, to) ==
    /\ JobAt(r, j, from)
    /\ ~Unreachable
    /\ job' = [job EXCEPT ![r][j].pc = to, ![r][j].seen = keyRows]

\* A copy with an active key is kept.
MutantLoadMerged(r, j) ==
    view' = [view EXCEPT ![r] = IF Actives(view[r]) # {} THEN view[r] ELSE job[r][j].seen]

Load(r, j) == view' = [view EXCEPT ![r] = job[r][j].seen]

\* listPublicJwks: active and retired keys alike.
Publish(r) == jwks' = [jwks EXCEPT ![r] = DOMAIN view[r]]
-----------------------------------------------------------------------------
(* Boot: onModuleInit and init().                                          *)

BootStart(r) ==
    /\ JobAt(r, "boot", "idle")
    /\ r \in setting.on
    /\ provider \in {"postgres-dev", "adapter"}
    /\ Goto(r, "boot", "read")
    /\ UNCHANGED <<fixed, keyRows, outage, view, jwks, events, healthy, tallies, trail>>

BootRead(r) ==
    /\ \/ Query(r, "boot", "read", "load")
       \/ Query(r, "boot", "reread", "reload")
    /\ UNCHANGED <<fixed, keyRows, outage, view, jwks, events, healthy, tallies, trail>>

\* No active key: a development table gets one, an adapter's boot is refused.
BootLoad(r) ==
    LET none == Actives(job[r]["boot"].seen) = {}
    IN
    /\ \/ JobAt(r, "boot", "load") /\ ~none /\ Goto(r, "boot", "publish")
       \/ /\ JobAt(r, "boot", "load") /\ none
          /\ Goto(r, "boot", IF provider = "postgres-dev" THEN "generate" ELSE "failed")
       \/ JobAt(r, "boot", "reload") /\ Goto(r, "boot", "publish")
    /\ Load(r, "boot")
    /\ UNCHANGED <<fixed, keyRows, outage, jwks, events, healthy, tallies, trail>>

BootUnreachable(r) ==
    /\ job[r]["boot"].pc \in {"read", "generate", "reread"} /\ Unreachable
    /\ Goto(r, "boot", "failed")
    /\ UNCHANGED <<fixed, keyRows, outage, view, jwks, events, healthy, tallies, trail>>

\* The kid is random, so ON CONFLICT never applies and nobody loses the race.
generateActiveKey(r) ==
    /\ JobAt(r, "boot", "generate")
    /\ ~Unreachable
    /\ Len(keyRows) < setting.keys
    /\ keyRows' = Append(keyRows, "active")
    /\ events' = [events EXCEPT ![r] = @ \o << <<"generated", Len(keyRows) + 1>>,
                                              <<"promoted", Len(keyRows) + 1>> >>]
    /\ Goto(r, "boot", "reread")
    /\ UNCHANGED <<fixed, outage, view, jwks, healthy, tallies, trail>>

BootPublish(r) ==
    /\ JobAt(r, "boot", "publish")
    /\ Publish(r)
    /\ job' = [job EXCEPT ![r]["boot"].pc = "drain", ![r]["boot"].seen = <<>>]
    /\ UNCHANGED <<fixed, keyRows, outage, view, events, healthy, tallies, trail>>

\* drainLifecycleEvents shifts an event off before its row is appended: when
\* the append throws, that event is off the queue and the caller fails.
Drain(r, done, failed) ==
    \/ /\ events[r] = <<>>
       /\ done
       /\ UNCHANGED <<events, trail>>
    \/ /\ events[r] # <<>>
       /\ events' = [events EXCEPT ![r] = Tail(@)]
       /\ trail' = trail \cup {Head(events[r])}
       /\ UNCHANGED job
    \/ /\ events[r] # <<>> /\ AppendFails
       /\ events' = [events EXCEPT ![r] = Tail(@)]
       /\ trail' \in {trail, trail \cup {Head(events[r])}}
       /\ failed

BootDrain(r) ==
    /\ JobAt(r, "boot", "drain")
    /\ Drain(r, Goto(r, "boot", "up"), Goto(r, "boot", "failed"))
    /\ UNCHANGED <<fixed, keyRows, outage, view, jwks, healthy, tallies>>
-----------------------------------------------------------------------------
(* Signing.                                                                *)

\* tally(), where the scenario is about usage, up to the bound and to the
\* first overlap.
Counting(r) == "usage" \in setting.may /\ count[r] < MaxSigned /\ ~overlap[r]
Plus(t, r, k, fs) ==
    IF Counting(r) THEN [t EXCEPT ![r][k] = [f \in Fields |-> @[f] + IF f \in fs THEN 1 ELSE 0]]
    ELSE t

Tally(r, k, fs) ==
    /\ usage' = Plus(usage, r, k, fs)
    /\ owed' = Plus(owed, r, k, fs)
    /\ count' = [count EXCEPT ![r] = IF Counting(r) THEN @ + 1 ELSE @]

\* signJwt for a request: activeKid() throws when there is none, and nothing is
\* tallied then.
SignStart(r) ==
    /\ Up(r) /\ JobAt(r, "sign", "idle")
    /\ "sign" \in setting.may
    /\ FirstActive(view[r]) # 0
    /\ job' = [job EXCEPT ![r]["sign"].pc = "sign", ![r]["sign"].kid = FirstActive(view[r])]
    /\ UNCHANGED <<fixed, keyRows, outage, view, jwks, events, healthy, tallies, trail>>

\* custody.sign with the copy's key, the shape assertion, the tally; the token
\* leaves with the header's kid.
SignJwt(r) ==
    LET k == job[r]["sign"].kid
    IN
    /\ JobAt(r, "sign", "sign")
    /\ k \in DOMAIN view[r]
    /\ Tally(r, k, {"signatures"})
    /\ Done(r, "sign")
    /\ UNCHANGED <<fixed, keyRows, outage, view, jwks, events, healthy, throttled, overlap, trail>>

\* recordSigningFailure: a row of its own once a minute, else a suppressed
\* count; a failed append is only logged.
recordSigningFailure(r, k) ==
    /\ Tally(r, k, IF throttled[r] THEN {"failures", "suppressed"} ELSE {"failures"})
    /\ throttled' = [throttled EXCEPT ![r] = TRUE]

\* The backend refuses the signature, or answers with something that is not one.
SignFails(r) ==
    /\ \E j \in {"sign", "probe"} :
          /\ JobAt(r, j, "sign")
          /\ recordSigningFailure(r, job[r][j].kid)
          /\ Done(r, j)
    /\ "signFails" \in setting.may
    /\ UNCHANGED <<fixed, keyRows, outage, view, jwks, events, healthy, overlap, trail>>

ThrottleLapses(r) ==
    /\ throttled[r]
    /\ throttled' = [throttled EXCEPT ![r] = FALSE]
    /\ UNCHANGED <<fixed, keyRows, outage, view, jwks, job, events, healthy, usage,
                   trail, owed, count, overlap>>
-----------------------------------------------------------------------------
(* probeSigning, behind /readyz.                                           *)

ProbeStart(r) ==
    /\ Up(r) /\ JobAt(r, "probe", "idle")
    /\ "probe" \in setting.may
    /\ Goto(r, "probe", "read")
    /\ UNCHANGED <<fixed, keyRows, outage, view, jwks, events, healthy, tallies, trail>>

\* noteHealth: the verdict is remembered, so that only a change is audited.
noteHealth(r, verdict) == healthy' = [healthy EXCEPT ![r] = verdict]

\* healthCheck: re-reads the backend, or reports that it could not.
ProbeQuery(r) ==
    /\ Query(r, "probe", "read", "load")
    /\ UNCHANGED <<fixed, keyRows, outage, view, jwks, events, healthy, tallies, trail>>

ProbeUnreachable(r) ==
    /\ JobAt(r, "probe", "read") /\ Unreachable
    /\ noteHealth(r, "no")
    /\ Done(r, "probe")
    /\ UNCHANGED <<fixed, keyRows, outage, view, jwks, events, tallies, trail>>

ProbeLoad(r) ==
    LET ok == Actives(job[r]["probe"].seen) # {}
    IN
    /\ JobAt(r, "probe", "load")
    /\ Load(r, "probe")
    /\ noteHealth(r, IF ok THEN "yes" ELSE "no")
    /\ IF ok THEN Goto(r, "probe", "publish") ELSE Done(r, "probe")
    /\ UNCHANGED <<fixed, keyRows, outage, jwks, events, tallies, trail>>

ProbePublish(r) ==
    /\ JobAt(r, "probe", "publish")
    /\ Publish(r)
    /\ job' = [job EXCEPT ![r]["probe"].pc = "sign", ![r]["probe"].kid = FirstActive(view[r])]
    /\ UNCHANGED <<fixed, keyRows, outage, view, events, healthy, tallies, trail>>

\* The probe's own signature; verification against the snapshot ends it either
\* way, and only the answer of /readyz differs.
ProbeSign(r) ==
    /\ JobAt(r, "probe", "sign")
    /\ Tally(r, job[r]["probe"].kid, {"probeSignatures"})
    /\ Done(r, "probe")
    /\ UNCHANGED <<fixed, keyRows, outage, view, jwks, events, healthy, throttled,
                   overlap, trail>>
-----------------------------------------------------------------------------
(* The usage summary.                                                      *)

\* Is there a Map entry, that is, a non-zero tally?
Entry(r, k) == \E f \in Fields : usage[r][k][f] # 0

FlushBegin(r, j) ==
    /\ LET both == \E i \in Jobs : JobAt(r, i, "append") IN
          /\ overlap' = [overlap EXCEPT ![r] = @ \/ both]
          /\ owed' = IF both THEN [owed EXCEPT ![r] = Blank] ELSE owed
    /\ job' = [job EXCEPT ![r][j].pc = "append", ![r][j].sum = usage[r], ![r][j].due = owed[r]]

FlushStart(r) ==
    /\ Up(r) /\ JobAt(r, "flush", "idle")
    /\ \E k \in Kids : Entry(r, k)
    /\ FlushBegin(r, "flush")
    /\ UNCHANGED <<fixed, keyRows, outage, view, jwks, events, healthy, usage, throttled, count,
                   trail>>

\* Subtract what was reported from every entry that still exists.
Minus(t, sum) == [k \in Kids |-> [f \in Fields |-> t[k][f] - sum[k][f]]]

Subtract(r, sum) ==
    [usage EXCEPT ![r] = [k \in Kids |-> IF Entry(r, k) THEN Minus(@, sum)[k] ELSE @[k]]]

\* The summary is committed: what happened before it began has been reported.
Reported(r, j) ==
    owed' = IF overlap[r] THEN owed ELSE [owed EXCEPT ![r] = Minus(@, job[r][j].due)]

\* The tallies cleared instead.
MutantFlushClears(r, j, then) ==
    /\ Reported(r, j)
    /\ usage' = [usage EXCEPT ![r] = Blank]
    /\ then

FlushAppend(r, j, then) ==
    /\ Reported(r, j)
    /\ usage' = Subtract(r, job[r][j].sum)
    /\ then

\* The append throws, and the tallies stay: a summary whose COMMIT took effect
\* is reported a second time.
FlushThrows(r, j, then) ==
    /\ AppendFails
    /\ Reported(r, j) \/ UNCHANGED owed
    /\ then
    /\ UNCHANGED usage

\* An interval only logs that the append threw.
FlushEnd(r) ==
    /\ JobAt(r, "flush", "append")
    /\ \/ FlushAppend(r, "flush", Done(r, "flush"))
       \/ FlushThrows(r, "flush", Done(r, "flush"))
    /\ UNCHANGED <<fixed, keyRows, outage, view, jwks, events, healthy, throttled,
                   trail, count, overlap>>
-----------------------------------------------------------------------------
(* rotate().                                                               *)

\* Flush first when there is something to report; an adapter without a
\* rotate() of its own throws before anything is flushed to it.
RotateStart(r) ==
    /\ Up(r) /\ JobAt(r, "rotate", "idle")
    /\ r \in setting.rotators
    /\ IF \E k \in Kids : Entry(r, k) THEN FlushBegin(r, "rotate")
       ELSE Goto(r, "rotate", "commit") /\ UNCHANGED <<owed, overlap>>
    /\ UNCHANGED <<fixed, keyRows, outage, view, jwks, events, healthy, usage, throttled, count,
                   trail>>

RotateFlush(r) ==
    /\ JobAt(r, "rotate", "append")
    /\ \/ FlushAppend(r, "rotate", Goto(r, "rotate", "commit"))
       \/ FlushThrows(r, "rotate", Done(r, "rotate"))
    /\ UNCHANGED <<fixed, keyRows, outage, view, jwks, events, healthy, throttled,
                   trail, count, overlap>>

\* The INSERT is not part of the transaction.
MutantRetireOnly == [k \in DOMAIN keyRows |-> "retired"]

\* The transaction under the advisory lock (or the backend's own rotation):
\* every active row retired, a new one active, both or neither.
Rotated == Append([k \in DOMAIN keyRows |-> "retired"], "active")

RotateCommit(r) ==
    /\ JobAt(r, "rotate", "commit")
    /\ \/ /\ ~Unreachable /\ Len(keyRows) < setting.keys
          /\ keyRows' = Rotated
          /\ job' = [job EXCEPT ![r]["rotate"].pc = "read", ![r]["rotate"].seen = keyRows,
                                ![r]["rotate"].kid = Len(keyRows) + 1]
       \/ \* rolled back, or not supported by the adapter
          /\ Unreachable \/ provider = "adapter"
          /\ Done(r, "rotate")
          /\ UNCHANGED keyRows
       \/ \* committed, and the answer lost
          /\ "outage" \in setting.may /\ Len(keyRows) < setting.keys
          /\ keyRows' = Rotated
          /\ Done(r, "rotate")
    /\ UNCHANGED <<fixed, outage, view, jwks, events, healthy, tallies, trail>>

\* The keys that were active when the transaction ran.
Retired(seen) == {k \in DOMAIN seen : seen[k] = "active"}

\* Reload, then emit: one event per retired key, then the new one.  When the
\* reload throws the table is rotated and nobody is told.
RotateRead(r) ==
    LET k == job[r]["rotate"].kid
        gone == Retired(job[r]["rotate"].seen)
        told == [n \in 1 .. Cardinality(gone) |->
                    <<"retired", CHOOSE g \in gone : Cardinality({h \in gone : h <= g}) = n>>]
        born == IF provider = "postgres-dev" THEN << <<"generated", k>>, <<"promoted", k>> >>
                ELSE << <<"promoted", k>> >>
    IN
    \/ /\ Query(r, "rotate", "read", "load")
       /\ events' = [events EXCEPT ![r] = @ \o told \o born]
       /\ UNCHANGED <<fixed, keyRows, outage, view, jwks, healthy, tallies, trail>>
    \/ /\ JobAt(r, "rotate", "read") /\ Unreachable
       /\ Done(r, "rotate")
       /\ UNCHANGED <<fixed, keyRows, outage, view, jwks, events, healthy, tallies, trail>>

RotateLoad(r) ==
    /\ JobAt(r, "rotate", "load")
    /\ Load(r, "rotate")
    /\ Goto(r, "rotate", "publish")
    /\ UNCHANGED <<fixed, keyRows, outage, jwks, events, healthy, tallies, trail>>

RotatePublish(r) ==
    /\ JobAt(r, "rotate", "publish")
    /\ Publish(r)
    /\ Goto(r, "rotate", "drain")
    /\ UNCHANGED <<fixed, keyRows, outage, view, events, healthy, tallies, trail>>

RotateDrain(r) ==
    /\ JobAt(r, "rotate", "drain")
    /\ Drain(r, Goto(r, "rotate", "audit"), Done(r, "rotate"))
    /\ UNCHANGED <<fixed, keyRows, outage, view, jwks, healthy, tallies>>

RotateAudit(r) ==
    /\ JobAt(r, "rotate", "audit")
    /\ Done(r, "rotate")
    /\ UNCHANGED <<fixed, keyRows, outage, view, jwks, events, healthy, tallies, trail>>
-----------------------------------------------------------------------------
(* Shutdown, crash, outage.                                                *)

Fresh(r) ==
    /\ job' = [job EXCEPT ![r] = [j \in Jobs |-> NoJob]]
    /\ view' = [view EXCEPT ![r] = <<>>]
    /\ jwks' = [jwks EXCEPT ![r] = {}]
    /\ events' = [events EXCEPT ![r] = <<>>]
    /\ healthy' = [healthy EXCEPT ![r] = "unknown"]
    /\ throttled' = [throttled EXCEPT ![r] = FALSE]
    /\ owed' = [owed EXCEPT ![r] = Blank]
    /\ overlap' = [overlap EXCEPT ![r] = FALSE]
    /\ count' = [count EXCEPT ![r] = 0]
    /\ UNCHANGED <<fixed, keyRows, outage, trail>>

\* The process dies, or exits after a boot that threw; the next one starts from
\* nothing.
Restart(r) ==
    /\ Fresh(r)
    /\ usage' = [usage EXCEPT ![r] = Blank]

\* onModuleDestroy: a last summary, best effort, then close().
StopStart(r) ==
    /\ Up(r) /\ JobAt(r, "stop", "idle")
    /\ "stop" \in setting.may
    /\ IF \E k \in Kids : Entry(r, k) THEN FlushBegin(r, "stop")
       ELSE Goto(r, "stop", "close") /\ UNCHANGED <<owed, overlap>>
    /\ UNCHANGED <<fixed, keyRows, outage, view, jwks, events, healthy, usage, throttled, count,
                   trail>>

StopFlush(r) ==
    /\ JobAt(r, "stop", "append")
    /\ \/ FlushAppend(r, "stop", Goto(r, "stop", "close"))
       \/ FlushThrows(r, "stop", Goto(r, "stop", "close"))
    /\ UNCHANGED <<fixed, keyRows, outage, view, jwks, events, healthy, throttled,
                   trail, count, overlap>>

StopClose(r) ==
    /\ JobAt(r, "stop", "close")
    /\ Restart(r)

Crash(r) == "crash" \in setting.may /\ ~JobAt(r, "boot", "idle") /\ Restart(r)

BootExit(r) == JobAt(r, "boot", "failed") /\ Restart(r)

OutageBegins ==
    /\ "outage" \in setting.may /\ outage = "ahead"
    /\ outage' = "now"
    /\ UNCHANGED <<fixed, keyRows, view, jwks, job, events, healthy, tallies, trail>>

OutageEnds ==
    /\ Unreachable
    /\ outage' = "over"
    /\ UNCHANGED <<fixed, keyRows, view, jwks, job, events, healthy, tallies, trail>>
-----------------------------------------------------------------------------
\* createKeyCustody: the development table is refused in production; a KMS or
\* HSM whose settings or adapter are missing becomes a boundary that refuses.
createKeyCustody(c) ==
    CASE c.KEY_CUSTODY = "postgres-dev" -> IF c.production THEN "refused" ELSE "postgres-dev"
      [] OTHER -> IF c.settings /\ c.factory THEN "adapter" ELSE "unconfigured"

\* Keys of a KMS or HSM are provisioned before the broker boots, or not yet.
Provisioned == IF provider = "adapter" THEN {<<>>, <<"active">>} ELSE {<<>>}

KeysInit ==
    /\ \E c \in [KEY_CUSTODY : {"postgres-dev", "kms", "hsm"}, production : BOOLEAN,
                settings : BOOLEAN, factory : BOOLEAN] : provider = createKeyCustody(c)
    /\ setting \in Settings
    /\ keyRows \in Provisioned
    /\ outage = "ahead"
    /\ view = [r \in KeyReplicas |-> <<>>]
    /\ jwks = [r \in KeyReplicas |-> {}]
    /\ job = [r \in KeyReplicas |-> [j \in Jobs |-> NoJob]]
    /\ events = [r \in KeyReplicas |-> <<>>]
    /\ healthy = [r \in KeyReplicas |-> "unknown"]
    /\ usage = [r \in KeyReplicas |-> Blank]
    /\ owed = [r \in KeyReplicas |-> Blank]
    /\ count = [r \in KeyReplicas |-> 0]
    /\ throttled = [r \in KeyReplicas |-> FALSE]
    /\ overlap = [r \in KeyReplicas |-> FALSE]
    /\ trail = {}

BootStep(r) ==
    BootStart(r) \/ BootRead(r) \/ BootLoad(r) \/ generateActiveKey(r) \/ BootPublish(r)
    \/ BootDrain(r) \/ BootUnreachable(r) \/ BootExit(r)
ProbeStep(r) == ProbeQuery(r) \/ ProbeUnreachable(r) \/ ProbeLoad(r) \/ ProbePublish(r) \/ ProbeSign(r)
FlushStep(r) == FlushStart(r) \/ FlushEnd(r)
RotateStep(r) ==
    RotateFlush(r) \/ RotateCommit(r) \/ RotateRead(r) \/ RotateLoad(r) \/ RotatePublish(r)
    \/ RotateDrain(r) \/ RotateAudit(r)
SignStep(r) == SignStart(r) \/ SignJwt(r) \/ SignFails(r) \/ ThrottleLapses(r)
StopStep(r) == StopStart(r) \/ StopFlush(r) \/ StopClose(r)

KeysNext ==
    \/ \E r \in KeyReplicas :
          \/ BootStep(r) \/ ProbeStart(r) \/ ProbeStep(r) \/ FlushStep(r) \/ RotateStart(r)
          \/ RotateStep(r) \/ SignStep(r) \/ StopStep(r) \/ Crash(r)
    \/ OutageBegins \/ OutageEnds

\* The orchestrator restarts a dead replica and probes a live one for ever; a
\* job that has begun goes on; an outage ends.
KeysFairness ==
    /\ \A r \in KeyReplicas :
          /\ WF_keysVars(BootStep(r)) /\ WF_keysVars(ProbeStart(r)) /\ WF_keysVars(ProbeStep(r))
          /\ WF_keysVars(RotateStep(r))
    /\ WF_keysVars(OutageEnds)

KeysSpec == KeysInit /\ [][KeysNext]_keysVars /\ KeysFairness
-----------------------------------------------------------------------------
(* Properties.                                                             *)

\* From its first key on the table has an active key, whatever rotations and
\* boots commit in between (rotate: "never be a moment with zero active keys").
NeverWithoutActiveKey == keyRows # <<>> => Actives(keyRows) # {}

\* The other half of the same comment: nor is there a moment with two ("replicas
\* disagree on the signing kid"), the boot race included, which generateActiveKey
\* leaves to ON CONFLICT DO NOTHING.
AtMostOneActiveKey == Cardinality(Actives(keyRows)) <= 1

\* What a replica signed or failed to sign and no committed summary has reported
\* it still tallies, so that the next one reports it, although signing goes on
\* during the append and the append may throw before or after its COMMIT; as long
\* as no two summaries were in flight at once (flushUsageSummary: an audit outage
\* "costs resolution, not accountability").
UsageAccounted ==
    \A r \in KeyReplicas, k \in Kids, f \in Fields :
        ~overlap[r] => owed[r][k][f] <= usage[r][k][f]

\* When rotations stop, all live replicas sign with one key and publish every
\* key, so that a token minted anywhere verifies everywhere: after two first
\* boots at once, after a rotation on another replica, and after a slow reload
\* has overwritten a newer one.  If nothing failed, the promotion of every key
\* is in the audit trail (healthCheck, reload, probeSigning, T13 in onModuleInit).
ReplicasConverge ==
    <>[](\A r \in KeyReplicas : Up(r) /\ "probe" \in setting.may =>
            /\ FirstActive(view[r]) = FirstActive(keyRows)
            /\ jwks[r] = DOMAIN keyRows
            /\ setting.may \cap {"outage", "crash", "stop", "auditFails"} = {} =>
                  \A k \in DOMAIN keyRows :
                      <<"promoted", k>> \in trail \/ <<provider, k>> = <<"adapter", 1>>)
=============================================================================
