---------------------------- MODULE AbuseControls ----------------------------
(***************************************************************************)
(* The broker's counters in Redis: fixed-window rate limits, failure       *)
(* lockouts with exponential backoff, and the anomaly detectors, which     *)
(* count and alert but block nothing.  INCR, EXPIRE, SADD and SET NX are   *)
(* separate round trips, so requests interleave between them and a process *)
(* may die, or Redis fail, between any two.  One behaviour follows the     *)
(* requests on one key, of the kind drawn in the initial state.            *)
(***************************************************************************)
EXTENDS Integers, Sequences, FiniteSets

CONSTANTS Requests,
          Limit,          \* limit, maxFailures and threshold
          Window,         \* windowSeconds
          BackoffCap,     \* the 4 of 2 ** min(count - maxFailures, 4)
          MaxCount,       \* bound: INCRs in one life of the counter
          EndOfTime       \* bound

ASSUME AbuseAssumption ==
    /\ IsFiniteSet(Requests)
    /\ Limit \in Nat \ {0} /\ Window \in Nat \ {0}
    /\ BackoffCap \in Nat /\ MaxCount \in Nat /\ EndOfTime \in Nat
    /\ \A n \in 0..BackoffCap : 2 ^ n \in Nat \ {0}

VARIABLES kind,           \* "hit", "lockout", "anomaly" (count) or "probe" (distinct NIDs)
          clock,
          key,            \* the Redis counter or set: n = 0 when absent, exp = 0 when it has no TTL
          alerted,        \* the SET NX suppression key: when it expires
          rows,           \* anomaly rows in the audit trail
          req,            \* requests between two round trips
          born,           \* ghost: when the counter of the hits was created last
          passed,         \* ghost: the accepted hits
          locked,         \* ghost: a lockout answered for holds until here
          died            \* ghost: a request was lost between two round trips

abuseVars == <<kind, clock, key, alerted, rows, req, born, passed, locked, died>>

Absent == [n |-> 0, exp |-> 0]
\* at and life are ghosts: when it was counted, and in which life of the counter.
Quiet == [pc |-> "idle", count |-> 0, at |-> 0, life |-> 0]

Finish(i) == req' = [req EXCEPT ![i] = Quiet]
Proceed(i, pc) == req' = [req EXCEPT ![i].pc = pc]

\* EXPIRE on a key that no longer exists does nothing; a TTL of 0 deletes it.
EXPIRE(seconds) ==
    key' = IF key.n = 0 \/ seconds = 0 THEN Absent ELSE [key EXCEPT !.exp = clock + seconds]
-----------------------------------------------------------------------------
\* INCR of hit, recordFailure and count; the distinct NIDs of a probe are SADDed.
Incr(i) ==
    /\ req[i] = Quiet
    /\ key.n < MaxCount
    /\ born' = IF kind = "hit" /\ key.n = 0 THEN clock ELSE born
    /\ \E new \in IF kind = "probe" /\ key.n > 0 THEN {0, 1} ELSE {1} :
          /\ key' = [key EXCEPT !.n = @ + new]
          /\ req' = [req EXCEPT ![i] =
                [pc |-> IF key.n + new = 1 \/ kind = "probe" THEN "expire" ELSE "counted",
                 count |-> key.n + new, at |-> clock, life |-> born']]
    /\ UNCHANGED <<kind, clock, alerted, rows, passed, locked, died>>

\* Only the first caller of a window sets its end; a probe renews it every time
\* and then asks for the cardinality.
FirstExpire(i) ==
    /\ req[i].pc = "expire"
    /\ EXPIRE(Window)
    /\ req' = [req EXCEPT ![i].pc = "counted",
                          ![i].count = IF kind = "probe" THEN key.n ELSE @]
    /\ UNCHANGED <<kind, clock, alerted, rows, born, passed, locked, died>>

Hit(r) == [at |-> r.at, life |-> r.life, count |-> r.count]

\* One hit too many passes.
MutantHit(i) ==
    /\ kind = "hit" /\ req[i].pc = "counted"
    /\ passed' = IF req[i].count > Limit + 1 THEN passed ELSE Append(passed, Hit(req[i]))
    /\ Finish(i)
    /\ UNCHANGED <<kind, clock, key, alerted, rows, born, locked, died>>

\* rate_limited, or the caller goes on.
hit(i) ==
    /\ kind = "hit" /\ req[i].pc = "counted"
    /\ passed' = IF req[i].count > Limit THEN passed ELSE Append(passed, Hit(req[i]))
    /\ Finish(i)
    /\ UNCHANGED <<kind, clock, key, alerted, rows, born, locked, died>>
-----------------------------------------------------------------------------
(* Lockouts.                                                               *)

\* The factor doubles with every further failure, up to the cap.
Backoff(count) ==
    LET over == count - Limit IN Window * 2 ^ (IF over < BackoffCap THEN over ELSE BackoffCap)

recordFailure(i) ==
    /\ kind = "lockout" /\ req[i].pc = "counted"
    /\ IF req[i].count >= Limit
       THEN /\ EXPIRE(Backoff(req[i].count))
            /\ locked' = IF key.n >= Limit THEN clock + Window ELSE locked
       ELSE UNCHANGED <<key, locked>>
    /\ Finish(i)
    /\ UNCHANGED <<kind, clock, alerted, rows, born, passed, died>>

\* A login that was already past assertNotLockedOut succeeds.
clearFailures ==
    /\ kind = "lockout"
    /\ key' = Absent
    /\ locked' = 0
    /\ UNCHANGED <<kind, clock, alerted, rows, req, born, passed, died>>

assertNotLockedOut == key.n < Limit
-----------------------------------------------------------------------------
(* Anomaly detection.                                                      *)

\* raise: SET NX EX decides which of the requests over the threshold alerts.
Raise(i) ==
    /\ kind \in {"anomaly", "probe"} /\ req[i].pc = "counted"
    /\ IF req[i].count >= Limit /\ clock >= alerted
       THEN /\ alerted' = clock + Window
            /\ Proceed(i, "append")
       ELSE Finish(i) /\ UNCHANGED alerted
    /\ UNCHANGED <<kind, clock, key, rows, born, passed, locked, died>>

\* audit.append; when it fails the suppression key stays.
AppendRow(i) ==
    /\ req[i].pc = "append"
    /\ \/ rows' = rows + 1 /\ UNCHANGED died
       \/ died' = TRUE /\ UNCHANGED rows
    /\ Finish(i)
    /\ UNCHANGED <<kind, clock, key, alerted, born, passed, locked>>
-----------------------------------------------------------------------------
\* The process dies, or Redis fails, between two round trips.
Die(i) ==
    /\ req[i] # Quiet
    /\ Finish(i)
    /\ died' = TRUE
    /\ UNCHANGED <<kind, clock, key, alerted, rows, born, passed, locked>>

\* Keys whose TTL is over are gone.
AbuseTick ==
    /\ clock < EndOfTime
    /\ clock' = clock + 1
    /\ key' = IF key.exp = clock + 1 THEN Absent ELSE key
    /\ UNCHANGED <<kind, alerted, rows, req, born, passed, locked, died>>

AbuseInit ==
    /\ kind \in {"hit", "lockout", "anomaly", "probe"}
    /\ clock = 0
    /\ key = Absent
    /\ alerted = 0 /\ rows = 0
    /\ req = [i \in Requests |-> Quiet]
    /\ born = 0 /\ passed = <<>>
    /\ locked = 0
    /\ died = FALSE

AbuseNext ==
    \/ \E i \in Requests :
          \/ Incr(i) \/ FirstExpire(i) \/ hit(i) \/ recordFailure(i) \/ Raise(i)
          \/ AppendRow(i) \/ Die(i)
    \/ clearFailures
    \/ AbuseTick
-----------------------------------------------------------------------------
(* Properties.                                                             *)

Within(from) == {n \in DOMAIN passed : from <= passed[n].at /\ passed[n].at < from + Window}

\* hit's window is fixed, not sliding: a caller gets through at most twice the
\* limit in any span of a window's length, however the requests interleave.
HitsBounded == \A from \in 0..EndOfTime : Cardinality(Within(from)) <= 2 * Limit

\* A lockout that recordFailure reported lasts at least a window from then on,
\* whatever EXPIREs of slower failures arrive later, unless a login clears it.
\* More is not true: the EXPIRE of a slower failure with a lower count cuts the
\* exponential extension of a faster one back.
LockoutLasts == clock < locked => ~assertNotLockedOut

\* A sustained burst writes at most one row for every window that began, and an
\* alert is suppressed only if its row was written, is about to be, or failed.
AlertsRecorded ==
    /\ Window * rows <= clock + Window
    /\ clock < alerted => rows > 0 \/ died \/ \E i \in Requests : req[i].pc = "append"

\* The counters do what RateLimitService and AnomalyService are there for,
\* across interleaved round trips.
AbuseControlsHold == HitsBounded /\ LockoutLasts /\ AlertsRecorded

AbuseSpec == AbuseInit /\ [][AbuseNext]_abuseVars
=============================================================================
