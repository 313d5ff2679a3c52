------------------------------ MODULE AuditChain ------------------------------
(***************************************************************************)
(* AuditService: appends to the hash chain of audit_events from several    *)
(* replicas of the broker, and the observers of the committed stream.      *)
(*                                                                         *)
(* append() is broken at its queries.  Postgres runs each in READ          *)
(* COMMITTED: a query sees the rows committed when it starts.  The advisory *)
(* lock is held to the end of the transaction.  seq comes from an identity *)
(* column, drawn at the INSERT and not given back by a rollback.           *)
(*                                                                         *)
(* SHA-256 is taken to be injective: the hash of a row is the sequence of  *)
(* the row ids it covers, its own last.  The other columns of a row are    *)
(* left out; they are hashed with its id.                                  *)
(***************************************************************************)
EXTENDS Naturals, Sequences, FiniteSets

CONSTANTS
    Replicas,       \* broker processes
    Events,         \* appends that can be asked for, each with the id of its row
    ReplicaOf,      \* the replica that handles an append
    PoolSize,       \* connections of a replica's pool
    MayFail         \* TRUE: queries fail and replicas die

ASSUME ReplicaAssumption == ReplicaOf \in [Events -> Replicas]
ASSUME PoolAssumption == PoolSize \in Nat \ {0}

VARIABLES
    rows,           \* the rows of audit_events, with the ones not yet committed
    nextSeq,        \* the identity column's sequence
    held,           \* the appends that hold a connection of their replica's pool
    lock,           \* who holds pg_advisory_xact_lock: a set of at most one append
    pc,             \* where each append stands
    prev,           \* the prevHash each append has read
    observed        \* the events the observers have seen

vars == <<rows, nextSeq, held, lock, pc, prev, observed>>

GENESIS_HASH == <<>>

\* ok, failed and lost are over: the caller was answered, got an error, or the
\* process died.
Pcs == {"idle", "begin", "lock", "read", "insert", "commit", "notify",
        "ok", "lost", "failed"}

Row == [seq : Nat, id : Events, prev : Seq(Events), hash : Seq(Events),
        st : {"open", "committed"}]

TypeOK ==
    /\ \A r \in rows : r \in Row
    /\ nextSeq \in Nat
    /\ held \subseteq Events
    /\ lock \subseteq Events
    /\ pc \in [Events -> Pcs]
    /\ prev \in [Events -> Seq(Events)]
    /\ observed \subseteq Events

Init ==
    /\ rows = {}
    /\ nextSeq = 1
    /\ held = {}
    /\ lock = {}
    /\ pc = [e \in Events |-> "idle"]
    /\ prev = [e \in Events |-> GENESIS_HASH]
    /\ observed = {}

committed == {r \in rows : r.st = "committed"}

computeHash(prevHash, id) == Append(prevHash, id)

\* Of some rows, the last in the order of seq, and its hash.
LastOf(S) == CHOOSE r \in S : \A q \in S : q.seq <= r.seq
HashOfLast(S) == IF S = {} THEN GENESIS_HASH ELSE LastOf(S).hash

\* SELECT hash FROM audit_events ORDER BY seq DESC LIMIT 1
LastHash == HashOfLast(committed)

-----------------------------------------------------------------------------
(* append(). *)

HeldBy(p) == {e \in held : ReplicaOf[e] = p}

\* pool.connect() waits for a free connection.
connect(e) ==
    /\ pc[e] = "idle"
    /\ Cardinality(HeldBy(ReplicaOf[e])) < PoolSize
    /\ held' = held \cup {e}
    /\ pc' = [pc EXCEPT ![e] = "begin"]
    /\ UNCHANGED <<rows, nextSeq, lock, prev, observed>>

begin(e) ==
    /\ pc[e] = "begin"
    /\ pc' = [pc EXCEPT ![e] = "lock"]
    /\ UNCHANGED <<rows, nextSeq, held, lock, prev, observed>>

\* The lock is not taken.
MutantNoLock(e) ==
    /\ pc[e] = "lock"
    /\ pc' = [pc EXCEPT ![e] = "read"]
    /\ UNCHANGED <<rows, nextSeq, held, lock, prev, observed>>

\* pg_advisory_xact_lock waits until nobody holds it.
takeLock(e) ==
    /\ pc[e] = "lock"
    /\ lock = {}
    /\ lock' = {e}
    /\ pc' = [pc EXCEPT ![e] = "read"]
    /\ UNCHANGED <<rows, nextSeq, held, prev, observed>>

readLast(e) ==
    /\ pc[e] = "read"
    /\ prev' = [prev EXCEPT ![e] = LastHash]
    /\ pc' = [pc EXCEPT ![e] = "insert"]
    /\ UNCHANGED <<rows, nextSeq, held, lock, observed>>

\* The hash is that of the event alone.
MutantUnchained(e) ==
    /\ pc[e] = "insert"
    /\ rows' = rows \cup {[seq |-> nextSeq, id |-> e, prev |-> prev[e],
                           hash |-> computeHash(GENESIS_HASH, e), st |-> "open"]}
    /\ nextSeq' = nextSeq + 1
    /\ pc' = [pc EXCEPT ![e] = "commit"]
    /\ UNCHANGED <<held, lock, prev, observed>>

\* The observers are told before the COMMIT.
MutantNotifyEarly(e) ==
    /\ pc[e] = "insert"
    /\ rows' = rows \cup {[seq |-> nextSeq, id |-> e, prev |-> prev[e],
                           hash |-> computeHash(prev[e], e), st |-> "open"]}
    /\ nextSeq' = nextSeq + 1
    /\ observed' = observed \cup {e}
    /\ pc' = [pc EXCEPT ![e] = "commit"]
    /\ UNCHANGED <<held, lock, prev>>

insertRow(e) ==
    /\ pc[e] = "insert"
    /\ rows' = rows \cup {[seq |-> nextSeq, id |-> e, prev |-> prev[e],
                           hash |-> computeHash(prev[e], e), st |-> "open"]}
    /\ nextSeq' = nextSeq + 1
    /\ pc' = [pc EXCEPT ![e] = "commit"]
    /\ UNCHANGED <<held, lock, prev, observed>>

\* The transaction of e ends, with or without its row; the lock goes with it.
CommitOf(e) ==
    /\ rows' = {IF r.id = e THEN [r EXCEPT !.st = "committed"] ELSE r : r \in rows}
    /\ lock' = lock \ {e}
RollbackOf(e) ==
    /\ rows' = {r \in rows : r.id # e \/ r.st = "committed"}
    /\ lock' = lock \ {e}

commit(e) ==
    /\ pc[e] = "commit"
    /\ CommitOf(e)
    /\ pc' = [pc EXCEPT ![e] = "notify"]
    /\ UNCHANGED <<nextSeq, held, prev, observed>>

\* finally: client.release()
release(e) == held' = held \ {e}

\* notify() and return.
notify(e) ==
    /\ pc[e] = "notify"
    /\ observed' = observed \cup {e}
    /\ pc' = [pc EXCEPT ![e] = "ok"]
    /\ release(e)
    /\ UNCHANGED <<rows, nextSeq, lock, prev>>

\* Where a query of append() can throw, pool.connect() included.
MayThrow == {"idle", "begin", "lock", "read", "insert", "commit"}

\* The connection is not released when a query fails.
MutantLeak(e) ==
    /\ MayFail
    /\ pc[e] \in MayThrow
    /\ RollbackOf(e)
    /\ pc' = [pc EXCEPT ![e] = "failed"]
    /\ UNCHANGED <<nextSeq, held, prev, observed>>

\* A query throws: ROLLBACK, and the error goes to the caller.
fail(e) ==
    /\ MayFail
    /\ pc[e] \in MayThrow
    /\ RollbackOf(e)
    /\ pc' = [pc EXCEPT ![e] = "failed"]
    /\ release(e)
    /\ UNCHANGED <<nextSeq, prev, observed>>

\* The COMMIT is done and its answer lost: append() throws all the same.
failAfterCommit(e) ==
    /\ MayFail
    /\ pc[e] = "commit"
    /\ CommitOf(e)
    /\ pc' = [pc EXCEPT ![e] = "failed"]
    /\ release(e)
    /\ UNCHANGED <<nextSeq, prev, observed>>

\* The replica dies: Postgres rolls back what it had open.
Die(p) ==
    /\ MayFail
    /\ HeldBy(p) # {}
    /\ rows' = {r \in rows : r.id \notin HeldBy(p) \/ r.st = "committed"}
    /\ held' = held \ HeldBy(p)
    /\ lock' = lock \ HeldBy(p)
    /\ pc' = [e \in Events |-> IF e \in HeldBy(p) THEN "lost" ELSE pc[e]]
    /\ UNCHANGED <<nextSeq, prev, observed>>

Step(e) ==
    \/ connect(e) \/ begin(e) \/ takeLock(e) \/ readLast(e) \/ insertRow(e)
    \/ commit(e) \/ notify(e)

Next ==
    \/ \E e \in Events : Step(e) \/ fail(e) \/ failAfterCommit(e)
    \/ \E p \in Replicas : Die(p)

Spec == Init /\ [][Next]_vars

\* Queries come back, the pool serves the waiting, and Postgres grants a lock
\* that is released to someone who waits for it.
Fairness == \A e \in Events : WF_vars(Step(e)) /\ SF_vars(connect(e)) /\ SF_vars(takeLock(e))

FairSpec == Spec /\ Fairness

-----------------------------------------------------------------------------
(* verifyChain(), on the rows committed when its query starts. *)

Before(r) == {q \in committed : q.seq < r.seq}

\* The hash the walk carries when it reaches r.
Carried(r) == HashOfLast(Before(r))

intact == \A r \in committed :
    /\ r.prev = Carried(r)
    /\ computeHash(r.prev, r.id) = r.hash

-----------------------------------------------------------------------------
(* Properties. *)

\* Whatever appends race, fail or die, verifyChain finds the chain intact: it is
\* one line, in the order of seq, with no false alarm (append, verifyChain).
ChainIntact == intact

\* Why the chain stays intact: an append between the lock and its COMMIT holds the
\* lock alone, so the last hash it has read is still the last; its open row comes
\* after every committed one; and seq and id tell the rows apart (append).
ChainInv ==
    /\ \A e \in Events :
         /\ pc[e] \in {"read", "insert", "commit"} => lock = {e}
         /\ pc[e] = "insert" => prev[e] = LastHash
         /\ pc[e] \in MayThrow \ {"commit"} => \A r \in rows : r.id # e
    /\ \A r \in rows :
         /\ r.seq < nextSeq
         /\ r.hash = computeHash(r.prev, r.id)
         /\ r.st = "open" => pc[r.id] = "commit" /\ r.prev = LastHash /\ Before(r) = committed
         /\ \A q \in rows : r.seq = q.seq \/ r.id = q.id => r = q
    /\ committed # {} => \E r \in committed : \A q \in committed : q.seq <= r.seq
    /\ intact

\* The hash of a row covers every row committed before it, the gaps of rolled
\* back appends left out: removing or altering any of them would show in it.
HashCoversHistory ==
    \A r \in committed :
        /\ {r.hash[k] : k \in DOMAIN r.hash} = {q.id : q \in Before(r)} \cup {r.id}
        /\ Len(r.hash) = Cardinality(Before(r)) + 1

\* The observers see committed events only, and an append that was answered is
\* in the chain and was observed (notify).
AnsweredIsCommitted ==
    /\ observed \subseteq {r.id : r \in committed}
    /\ \A e \in Events : pc[e] = "ok" => e \in observed

\* Every append ends, also when others fail while they hold a connection or the
\* lock, and however few connections the pool has (connect, release).
AppendsEnd == \A e \in Events : <>(pc[e] \in {"ok", "lost", "failed"})
=============================================================================
