--------------------------- MODULE PlatformProofs ---------------------------
(*****************************************************************************)
(* What the broker stands on: its hash chain stays intact for any number of  *)
(* replicas, appends and connections, whichever of them fail; its metrics and *)
(* readiness are honest; and no replica serves with a configuration or a     *)
(* schema it should refuse.                                                  *)
(*****************************************************************************)
EXTENDS AuditChain, Telemetry, Startup, FiniteSetTheorems, TLAPS

-----------------------------------------------------------------------------
(* The audit chain.                                                        *)

IInv == TypeOK /\ ChainInv

\* The last of the committed rows is one of them, so its hash is a hash (the
\* SELECT of append).
LEMMA LastHashType ==
    ASSUME IInv
    PROVE  LastHash \in Seq(Events)
<1>1. CASE committed = {}
  BY <1>1 DEF LastHash, HashOfLast, GENESIS_HASH
<1>2. CASE committed # {}
  <2>1. LastOf(committed) \in committed
    BY <1>2 DEF IInv, ChainInv, LastOf
  <2> QED
    BY <1>2, <2>1 DEF LastHash, HashOfLast, committed, IInv, TypeOK, Row
<1> QED
  BY <1>1, <1>2

\* Steps that leave the table alone: they may move an append anywhere but past
\* the lock or into the INSERT (connect, begin, notify).
LEMMA TableUntouched ==
    ASSUME IInv, rows' = rows, nextSeq' = nextSeq, TypeOK',
           \A e \in Events :
             /\ pc'[e] \in {"read", "insert", "commit"} => lock' = {e}
             /\ pc'[e] = "insert" => prev'[e] = LastHash
             /\ pc'[e] \in MayThrow \ {"commit"} => pc[e] \in MayThrow \ {"commit"}
             /\ pc[e] = "commit" => pc'[e] = "commit"
    PROVE  IInv'
<1>1. committed' = committed
  BY DEF committed
<1>2. LastHash' = LastHash
  BY <1>1 DEF LastHash
<1>3. \A r : Before(r)' = Before(r)
  BY <1>1 DEF Before
<1>4. intact'
  BY <1>1, <1>3 DEF IInv, ChainInv, intact, Carried
<1> QED
  BY <1>1, <1>2, <1>3, <1>4 DEF IInv, ChainInv, TypeOK, Row

\* COMMIT of the one open row puts it at the end of the chain; rows already there
\* keep what comes before them (commit, failAfterCommit).
LEMMA CommitAppends ==
    ASSUME IInv, NEW e \in Events, pc[e] = "commit", CommitOf(e)
    PROVE  /\ \A f \in Events : f # e => pc[f] \notin {"read", "insert", "commit"}
           /\ committed' = rows'
           /\ \/ rows' = rows /\ committed' = committed
              \/ \E r \in rows, new \in Row :
                    /\ r.id = e /\ r.st = "open"
                    /\ new = [r EXCEPT !.st = "committed"]
                    /\ new.st = "committed" /\ new.seq = r.seq /\ new.id = e
                    /\ new.prev = r.prev /\ new.hash = r.hash
                    /\ new.prev = LastHash /\ new.hash = computeHash(new.prev, e)
                    /\ rows' = (rows \ {r}) \cup {new}
                    /\ committed' = committed \cup {new}
                    /\ \A q \in committed : q.seq < new.seq
                    /\ Before(new)' = committed
                    /\ \A q \in committed : Before(q)' = Before(q)
<1>1. \A f \in Events : f # e => pc[f] \notin {"read", "insert", "commit"}
  BY DEF IInv, ChainInv
<1>2. \A r \in rows : r.st = "open" => r.id = e
  BY <1>1 DEF IInv, ChainInv, TypeOK, Row
<1>3. committed' = rows'
  BY <1>2 DEF CommitOf, committed, IInv, TypeOK, Row
<1>4. CASE \A r \in rows : r.id = e => r.st = "committed"
  <2>1. rows' = rows /\ committed' = committed
    BY <1>2, <1>3, <1>4 DEF CommitOf, committed, IInv, ChainInv, TypeOK, Row
  <2> QED
    BY <1>1, <1>3, <2>1
<1>5. CASE \E r \in rows : r.id = e /\ r.st = "open"
  <2>1. PICK r \in rows : r.id = e /\ r.st = "open"
    BY <1>5
  <2>2. PICK new \in Row :
          /\ new = [r EXCEPT !.st = "committed"]
          /\ new.st = "committed" /\ new.seq = r.seq /\ new.id = e
          /\ new.prev = r.prev /\ new.hash = r.hash
    <3> DEFINE n == [seq |-> r.seq, id |-> e, prev |-> r.prev, hash |-> r.hash,
                     st |-> "committed"]
    <3>1. r \in Row
      BY <2>1 DEF IInv, TypeOK
    <3>2. n \in Row /\ n = [r EXCEPT !.st = "committed"]
      BY <2>1, <3>1 DEF Row
    <3> QED
      BY <3>2
  <2>3. committed' = committed \cup {new}
    BY <1>2, <1>3, <2>1, <2>2 DEF CommitOf, committed, IInv, ChainInv, TypeOK, Row
  <2>4. \A q \in committed : q.seq < new.seq
    BY <2>1, <2>2 DEF IInv, ChainInv, Before
  <2> new.seq \in Nat /\ \A q \in committed : q.seq \in Nat
    BY DEF committed, IInv, TypeOK, Row
  <2>5. Before(new)' = committed
    BY <2>3, <2>4 DEF Before
  <2>6. \A q \in committed : Before(q)' = Before(q)
    BY <2>3, <2>4 DEF Before
  <2>7. rows' = (rows \ {r}) \cup {new}
    <3>1. \A q \in rows : q.id = e => q = r
      BY <2>1 DEF IInv, ChainInv
    <3> QED
      BY <2>1, <2>2, <3>1 DEF CommitOf
  <2>8. new.prev = LastHash /\ new.hash = computeHash(new.prev, e)
    BY <2>1, <2>2 DEF IInv, ChainInv
  <2> QED
    BY <1>1, <1>3, <2>1, <2>2, <2>3, <2>4, <2>5, <2>6, <2>7, <2>8
<1> QED
  BY <1>4, <1>5 DEF IInv, TypeOK, Row

\* COMMIT keeps the invariant, whether or not its answer arrives (commit,
\* failAfterCommit).
LEMMA CommitStep ==
    ASSUME IInv, NEW e \in Events, pc[e] = "commit", CommitOf(e), TypeOK',
           nextSeq' = nextSeq, prev' = prev,
           NEW to \in {"notify", "failed"}, pc' = [pc EXCEPT ![e] = to]
    PROVE  IInv'
<1>1. /\ \A f \in Events : f # e => pc[f] \notin {"read", "insert", "commit"}
      /\ committed' = rows'
  BY CommitAppends
<1>2. \A f \in Events : pc'[f] = IF f = e THEN to ELSE pc[f]
  BY DEF IInv, TypeOK
<1>3. CASE rows' = rows /\ committed' = committed
  <2>1. intact'
    BY <1>3 DEF intact, Carried, Before, IInv, ChainInv
  <2> QED
    BY <1>1, <1>2, <1>3, <2>1 DEF IInv, ChainInv, TypeOK, Row, committed, MayThrow
<1>4. CASE ~(rows' = rows /\ committed' = committed)
  <2>1. PICK r \in rows, new \in Row :
          /\ r.id = e /\ r.st = "open"
          /\ new.st = "committed" /\ new.seq = r.seq /\ new.id = e
          /\ new.prev = LastHash /\ new.hash = computeHash(new.prev, e)
          /\ rows' = (rows \ {r}) \cup {new}
          /\ committed' = committed \cup {new}
          /\ \A q \in committed : q.seq < new.seq
          /\ Before(new)' = committed
          /\ \A q \in committed : Before(q)' = Before(q)
    BY <1>4, CommitAppends
  <2> new.seq \in Nat /\ \A q \in committed : q.seq \in Nat
    BY DEF committed, IInv, TypeOK, Row
  <2>2. intact'
    <3>1. new.prev = Carried(new)' /\ computeHash(new.prev, new.id) = new.hash
      BY <2>1 DEF Carried, LastHash
    <3>2. \A q \in committed : q.prev = Carried(q)' /\ computeHash(q.prev, q.id) = q.hash
      BY <2>1 DEF Carried, IInv, ChainInv, intact
    <3> QED
      BY <2>1, <3>1, <3>2 DEF intact
  <2>3. \E m \in committed' : \A q \in committed' : q.seq <= m.seq
    BY <2>1
  <2>4. \A q \in rows' :
          /\ q.seq < nextSeq
          /\ q.hash = computeHash(q.prev, q.id)
          /\ \A p \in rows' : q.seq = p.seq \/ q.id = p.id => q = p
    <3>1. \A q \in rows :
            /\ q.seq < nextSeq
            /\ q.hash = computeHash(q.prev, q.id)
            /\ \A p \in rows : q.seq = p.seq \/ q.id = p.id => q = p
      BY DEF IInv, ChainInv
    <3>2. /\ new.seq < nextSeq
          /\ new.hash = computeHash(new.prev, new.id)
          /\ \A p \in rows \ {r} : p.seq # new.seq /\ p.id # new.id
      BY <2>1, <3>1
    <3> QED
      BY <2>1, <3>1, <3>2
  <2>5. \A q \in rows' : q.st # "open"
    BY <1>1 DEF committed
  <2>6. \A f \in Events :
           /\ pc'[f] \notin {"read", "insert", "commit"}
           /\ pc'[f] \in MayThrow \ {"commit"} => \A q \in rows' : q.id # f
    <3>1. \A f \in Events : pc[f] \in MayThrow \ {"commit"} => \A q \in rows : q.id # f
      BY DEF IInv, ChainInv
    <3> QED
      BY <1>1, <1>2, <2>1, <3>1 DEF MayThrow
  <2> QED
    BY <2>2, <2>3, <2>4, <2>5, <2>6 DEF IInv, ChainInv
<1> QED
  BY <1>3, <1>4

\* ROLLBACK of some appends, by themselves or because their replica died: open
\* rows go, committed ones stay (fail, Die).
LEMMA RollbackStep ==
    ASSUME IInv, NEW gone \in SUBSET Events, NEW to \in {"failed", "lost"}, TypeOK',
           rows' = {r \in rows : r.id \notin gone \/ r.st = "committed"},
           lock' = lock \ gone, nextSeq' = nextSeq, prev' = prev,
           pc' = [e \in Events |-> IF e \in gone THEN to ELSE pc[e]]
    PROVE  IInv'
<1>1. committed' = committed
  BY DEF committed
<1>2. LastHash' = LastHash
  BY <1>1 DEF LastHash
<1>3. \A r : Before(r)' = Before(r)
  BY <1>1 DEF Before
<1>4. intact'
  BY <1>1, <1>3 DEF IInv, ChainInv, intact, Carried
<1>5. \A e \in Events :
        /\ pc'[e] \in {"read", "insert", "commit"} => e \notin gone /\ lock' = {e}
        /\ pc'[e] = "insert" => prev'[e] = LastHash'
        /\ pc'[e] \in MayThrow \ {"commit"} => \A r \in rows' : r.id # e
  BY <1>2 DEF IInv, ChainInv, MayThrow, TypeOK
<1>6. \A r \in rows' :
        r \in rows /\ (r.st = "open" => pc'[r.id] = "commit")
  BY DEF IInv, ChainInv, TypeOK, Row
<1> QED
  BY <1>1, <1>2, <1>3, <1>4, <1>5, <1>6 DEF IInv, ChainInv

\* INSERT of the row of the append that holds the lock (insertRow).
LEMMA InsertStep ==
    ASSUME IInv, NEW e \in Events, insertRow(e)
    PROVE  IInv'
<1> DEFINE new == [seq |-> nextSeq, id |-> e, prev |-> prev[e],
                   hash |-> computeHash(prev[e], e), st |-> "open"]
<1>1. new \in Row
  BY DEF IInv, TypeOK, Row, computeHash
<1>2. rows' = rows \cup {new} /\ nextSeq' = nextSeq + 1 /\ prev' = prev /\ lock' = lock
  BY DEF insertRow
<1>3. committed' = committed
  BY <1>2 DEF committed
<1>4. LastHash' = LastHash
  BY <1>3 DEF LastHash
<1>5. \A r : Before(r)' = Before(r)
  BY <1>3 DEF Before
<1>6. intact'
  BY <1>3, <1>5 DEF IInv, ChainInv, intact, Carried
<1>7. TypeOK'
  BY <1>1, <1>2 DEF insertRow, IInv, TypeOK, Pcs
<1>8. \A r \in rows : r.seq < new.seq /\ r.id # e
  BY DEF insertRow, IInv, ChainInv, MayThrow
<1>9. Before(new) = committed
  BY <1>8 DEF Before, committed
<1>10. \A f \in Events : f # e => pc[f] \notin {"read", "insert", "commit"}
  BY DEF insertRow, IInv, ChainInv
<1>11. \A r \in rows : r.st = "committed"
  BY <1>10 DEF insertRow, IInv, ChainInv, TypeOK, Row
<1>12. \A f \in Events :
         /\ pc'[f] \in {"read", "insert", "commit"} => lock' = {f}
         /\ pc'[f] # "insert"
         /\ pc'[f] \in MayThrow \ {"commit"} => \A r \in rows' : r.id # f
  BY <1>2, <1>10 DEF insertRow, IInv, ChainInv, MayThrow, TypeOK
<1>13. \A r \in rows' :
         /\ r.seq < nextSeq'
         /\ r.hash = computeHash(r.prev, r.id)
         /\ \A q \in rows' : r.seq = q.seq \/ r.id = q.id => r = q
  BY <1>2, <1>8 DEF IInv, ChainInv, TypeOK, Row
<1>14. \A r \in rows' : r.st = "open" =>
         pc'[r.id] = "commit" /\ r.prev = LastHash' /\ Before(r)' = committed'
  BY <1>2, <1>3, <1>4, <1>5, <1>9, <1>11 DEF insertRow, IInv, ChainInv, TypeOK
<1> QED
  BY <1>3, <1>6, <1>7, <1>12, <1>13, <1>14 DEF IInv, ChainInv

\* Every step of every append and the death of a replica keep the invariant (Next).
LEMMA NextKeepsChain == IInv /\ [Next]_vars => IInv'
<1> SUFFICES ASSUME IInv, [Next]_vars PROVE IInv'
  OBVIOUS
<1>1. ASSUME NEW e \in Events, connect(e) \/ begin(e) \/ notify(e) PROVE IInv'
  <2>1. TypeOK'
    BY <1>1 DEF connect, begin, notify, release, IInv, TypeOK, Pcs
  <2> QED
    BY <1>1, <2>1, TableUntouched
    DEF connect, begin, notify, release, IInv, ChainInv, TypeOK, MayThrow
<1>2. ASSUME NEW e \in Events, takeLock(e) PROVE IInv'
  <2>1. TypeOK'
    BY <1>2 DEF takeLock, IInv, TypeOK, Pcs
  <2> QED
    BY <1>2, <2>1, TableUntouched DEF takeLock, IInv, ChainInv, TypeOK, MayThrow
<1>3. ASSUME NEW e \in Events, readLast(e) PROVE IInv'
  <2>1. TypeOK'
    BY <1>3, LastHashType DEF readLast, IInv, TypeOK, Pcs
  <2> QED
    BY <1>3, <2>1, TableUntouched DEF readLast, IInv, ChainInv, TypeOK, MayThrow
<1>4. ASSUME NEW e \in Events, commit(e) \/ failAfterCommit(e) PROVE IInv'
  <2>1. TypeOK'
    <3>1. \A r \in Row : [r EXCEPT !.st = "committed"] \in Row
      BY DEF Row
    <3>2. \A r \in rows' : \E q \in rows : r = q \/ r = [q EXCEPT !.st = "committed"]
      BY <1>4 DEF commit, failAfterCommit, CommitOf
    <3>3. \A r \in rows' : r \in Row
      BY <3>1, <3>2 DEF IInv, TypeOK
    <3> QED
      BY <1>4, <3>3 DEF commit, failAfterCommit, CommitOf, release, IInv, TypeOK, Pcs
  <2> QED
    BY <1>4, <2>1, CommitStep DEF commit, failAfterCommit
<1>5. ASSUME NEW e \in Events, fail(e) PROVE IInv'
  <2>1. TypeOK'
    BY <1>5 DEF fail, RollbackOf, release, IInv, TypeOK, Pcs
  <2>2. /\ rows' = {r \in rows : r.id \notin {e} \/ r.st = "committed"}
        /\ pc' = [f \in Events |-> IF f \in {e} THEN "failed" ELSE pc[f]]
    BY <1>5 DEF fail, RollbackOf, IInv, TypeOK
  <2> QED
    BY <1>5, <2>1, <2>2, RollbackStep DEF fail, RollbackOf
<1>6. ASSUME NEW p \in Replicas, Die(p) PROVE IInv'
  <2>1. TypeOK' /\ HeldBy(p) \in SUBSET Events
    BY <1>6 DEF Die, HeldBy, IInv, TypeOK, Pcs
  <2> QED
    BY <1>6, <2>1, RollbackStep DEF Die
<1>7. CASE UNCHANGED vars
  <2>1. TypeOK'
    BY <1>7 DEF vars, IInv, TypeOK
  <2> QED
    BY <1>7, <2>1, TableUntouched DEF vars, IInv, ChainInv
<1> QED
  BY <1>1, <1>2, <1>3, <1>4, <1>5, <1>6, <1>7, InsertStep DEF Next, Step

\* The inductive invariant of append(): the lock makes read, INSERT and COMMIT of
\* one append a unit, on every replica.
THEOREM ChainInvariant == Spec => [](TypeOK /\ ChainInv)
<1>1. Init => IInv
  BY DEF Init, IInv, TypeOK, ChainInv, intact, committed, GENESIS_HASH, Pcs, MayThrow
<1> QED
  BY <1>1, NextKeepsChain, PTL DEF Spec, IInv

\* verifyChain() never raises a false alarm: whatever appends race, fail or die
\* with their replica, every committed row carries the hash of the one before it.
THEOREM ChainAlwaysIntact == Spec => []ChainIntact
<1>1. ChainInv => ChainIntact
  BY DEF ChainInv, ChainIntact
<1> QED
  BY <1>1, ChainInvariant, PTL

-----------------------------------------------------------------------------
\* An append at its COMMIT has its row in the table, and one that goes on to
\* notify() has it committed.
RowInv ==
    /\ \A e \in Events : pc[e] = "commit" => \E r \in rows : r.id = e
    /\ \A e \in Events : pc[e] = "notify" => \E r \in committed : r.id = e

\* Rows are committed and never taken back, and observers are told after the
\* COMMIT (Next).
LEMMA NextKeepsAnswers ==
    TypeOK /\ RowInv /\ AnsweredIsCommitted /\ [Next]_vars
        => RowInv' /\ AnsweredIsCommitted'
<1> SUFFICES ASSUME TypeOK, RowInv, AnsweredIsCommitted, [Next]_vars
             PROVE  RowInv' /\ AnsweredIsCommitted'
  OBVIOUS
<1> DEFINE ids == {r.id : r \in committed}
<1>1. ASSUME NEW e \in Events, connect(e) \/ begin(e) \/ takeLock(e) \/ readLast(e)
      PROVE  RowInv' /\ AnsweredIsCommitted'
  <2>1. rows' = rows /\ committed' = committed /\ observed' = observed
    BY <1>1 DEF connect, begin, takeLock, readLast, committed
  <2>2. \A f \in Events : pc'[f] = pc[f] \/ pc'[f] \in {"begin", "lock", "read", "insert"}
    BY <1>1 DEF connect, begin, takeLock, readLast, TypeOK
  <2>3. RowInv'
    BY <2>1, <2>2 DEF RowInv
  <2> QED
    BY <2>1, <2>2, <2>3 DEF AnsweredIsCommitted
<1>2. ASSUME NEW e \in Events, insertRow(e) PROVE RowInv' /\ AnsweredIsCommitted'
  <2>1. committed' = committed
    BY <1>2 DEF insertRow, committed
  <2>2. \E r \in rows' : r.id = e
    <3> DEFINE new == [seq |-> nextSeq, id |-> e, prev |-> prev[e],
                       hash |-> computeHash(prev[e], e), st |-> "open"]
    <3>1. new \in rows' /\ new.id = e
      BY <1>2 DEF insertRow
    <3> QED
      BY <3>1
  <2>3. RowInv'
    BY <1>2, <2>1, <2>2 DEF insertRow, RowInv, TypeOK
  <2> QED
    BY <1>2, <2>1, <2>3 DEF insertRow, AnsweredIsCommitted, TypeOK
<1>3. ASSUME NEW e \in Events, commit(e) \/ failAfterCommit(e)
      PROVE  RowInv' /\ AnsweredIsCommitted'
  <2>1. \A r \in rows : \E q \in rows' :
           q.id = r.id /\ (r.st = "committed" \/ r.id = e => q.st = "committed")
    <3> SUFFICES ASSUME NEW r \in rows
                 PROVE  \E q \in rows' : q.id = r.id
                          /\ (r.st = "committed" \/ r.id = e => q.st = "committed")
      OBVIOUS
    <3>1. r \in Row
      BY DEF TypeOK
    <3>2. /\ [r EXCEPT !.st = "committed"].id = r.id
          /\ [r EXCEPT !.st = "committed"].st = "committed"
      BY <3>1 DEF Row
    <3>3. (IF r.id = e THEN [r EXCEPT !.st = "committed"] ELSE r) \in rows'
      BY <1>3 DEF commit, failAfterCommit, CommitOf
    <3> QED
      BY <3>2, <3>3
  <2>2. ids \subseteq ids' /\ e \in ids'
    BY <1>3, <2>1 DEF commit, failAfterCommit, committed, RowInv
  <2>3. RowInv'
    <3>1. \A f \in Events :
            (f # e /\ pc'[f] = pc[f]) \/ (f = e /\ pc'[f] \in {"notify", "failed"})
      BY <1>3 DEF commit, failAfterCommit, TypeOK
    <3>2. \A f \in Events : pc'[f] = "commit" => \E q \in rows' : q.id = f
      BY <2>1, <3>1 DEF RowInv
    <3>3. \A f \in Events : pc'[f] = "notify" => f \in ids'
      BY <2>2, <3>1 DEF RowInv
    <3> QED
      BY <3>2, <3>3 DEF RowInv
  <2> QED
    BY <1>3, <2>2, <2>3 DEF commit, failAfterCommit, AnsweredIsCommitted, TypeOK
<1>4. ASSUME NEW e \in Events, notify(e) PROVE RowInv' /\ AnsweredIsCommitted'
  BY <1>4 DEF notify, RowInv, AnsweredIsCommitted, committed, TypeOK
<1>5. ASSUME NEW e \in Events, fail(e) PROVE RowInv' /\ AnsweredIsCommitted'
  <2>1. committed' = committed
    BY <1>5 DEF fail, RollbackOf, committed
  <2>2. RowInv'
    BY <1>5, <2>1 DEF fail, RollbackOf, RowInv, TypeOK
  <2> QED
    BY <1>5, <2>1, <2>2 DEF fail, AnsweredIsCommitted, TypeOK
<1>6. ASSUME NEW p \in Replicas, Die(p) PROVE RowInv' /\ AnsweredIsCommitted'
  <2>1. committed' = committed
    BY <1>6 DEF Die, committed
  <2>2. \A f \in Events : pc'[f] = IF f \in HeldBy(p) THEN "lost" ELSE pc[f]
    BY <1>6 DEF Die
  <2>3. RowInv'
    BY <1>6, <2>1, <2>2 DEF Die, RowInv
  <2> QED
    BY <1>6, <2>1, <2>2, <2>3 DEF Die, AnsweredIsCommitted
<1>7. CASE UNCHANGED vars
  BY <1>7 DEF vars, RowInv, AnsweredIsCommitted, committed
<1> QED
  BY <1>1, <1>2, <1>3, <1>4, <1>5, <1>6, <1>7 DEF Next, Step

\* An append() that returned is in the chain and was observed, and observers never
\* see an event that is not there, whatever fails at whichever query.
THEOREM AnswersAreCommitted == Spec => []AnsweredIsCommitted
<1>1. Init => RowInv /\ AnsweredIsCommitted
  BY DEF Init, RowInv, AnsweredIsCommitted
<1> QED
  BY <1>1, ChainInvariant, NextKeepsAnswers, PTL DEF Spec

-----------------------------------------------------------------------------
\* The table is finite, and every hash covers the history before its row.
HistoryInv == IsFiniteSet(rows) /\ HashCoversHistory

\* The chain without its last row is what comes before that row (verifyChain).
LEMMA LastSplits ==
    ASSUME IInv, committed # {}
    PROVE  /\ LastOf(committed) \in committed
           /\ committed = Before(LastOf(committed)) \cup {LastOf(committed)}
           /\ LastOf(committed) \notin Before(LastOf(committed))
<1>1. LastOf(committed) \in committed /\ \A q \in committed : q.seq <= LastOf(committed).seq
  BY DEF IInv, ChainInv, LastOf
<1>2. \A q \in committed : q.seq \in Nat /\ q \in rows
  BY DEF committed, IInv, TypeOK, Row
<1>3. \A q \in committed : q = LastOf(committed) \/ q.seq < LastOf(committed).seq
  BY <1>1, <1>2 DEF IInv, ChainInv
<1> QED
  BY <1>1, <1>2, <1>3 DEF Before

\* The hash an append reads covers the chain as it stands (the SELECT of append).
LEMMA LastCovers ==
    ASSUME IInv, HistoryInv
    PROVE  /\ {LastHash[k] : k \in DOMAIN LastHash} = {q.id : q \in committed}
           /\ Len(LastHash) = Cardinality(committed)
           /\ Cardinality(committed) \in Nat
<1>1. IsFiniteSet(committed)
  BY FS_Subset DEF HistoryInv, committed
<1>2. CASE committed = {}
  BY <1>2, FS_EmptySet DEF LastHash, HashOfLast, GENESIS_HASH
<1>3. CASE committed # {}
  <2> DEFINE last == LastOf(committed)
  <2>1. /\ last \in committed
        /\ committed = Before(last) \cup {last} /\ last \notin Before(last)
    BY <1>3, LastSplits
  <2>2. LastHash = last.hash
    BY <1>3 DEF LastHash, HashOfLast
  <2>3. /\ {last.hash[k] : k \in DOMAIN last.hash} = {q.id : q \in Before(last)} \cup {last.id}
        /\ Len(last.hash) = Cardinality(Before(last)) + 1
    BY <2>1 DEF HistoryInv, HashCoversHistory
  <2> HIDE DEF last
  <2>4. {q.id : q \in committed} = {q.id : q \in Before(last)} \cup {last.id}
    BY <2>1
  <2>5. IsFiniteSet(Before(last))
    BY <1>1, FS_Subset DEF Before
  <2>6. Cardinality(committed) = Cardinality(Before(last)) + 1
    BY <2>1, <2>5, FS_AddElement
  <2> QED
    BY <2>2, <2>3, <2>4, <2>6, <1>1, FS_CardinalityType
<1> QED
  BY <1>2, <1>3

\* A COMMIT extends what the hashes cover by the row it adds.
LEMMA CommitCovers ==
    ASSUME IInv, HistoryInv, NEW e \in Events, pc[e] = "commit", CommitOf(e)
    PROVE  HistoryInv'
<1>1. CASE rows' = rows /\ committed' = committed
  BY <1>1 DEF HistoryInv, HashCoversHistory, Before
<1>2. CASE ~(rows' = rows /\ committed' = committed)
  <2>1. PICK r \in rows, new \in Row :
          /\ new.id = e
          /\ new.prev = LastHash /\ new.hash = computeHash(new.prev, e)
          /\ rows' = (rows \ {r}) \cup {new}
          /\ committed' = committed \cup {new}
          /\ Before(new)' = committed
          /\ \A q \in committed : Before(q)' = Before(q)
    BY <1>2, CommitAppends
  <2>2. IsFiniteSet(rows')
    <3>1. IsFiniteSet(rows \ {r})
      BY FS_Subset DEF HistoryInv
    <3> QED
      BY <2>1, <3>1, FS_AddElement
  <2>3. LastHash \in Seq(Events)
    BY LastHashType
  <2>4. new.hash = Append(LastHash, e)
    BY <2>1 DEF computeHash
  <2>5. {new.hash[k] : k \in DOMAIN new.hash} = {LastHash[k] : k \in DOMAIN LastHash} \cup {e}
    <3>1. /\ DOMAIN new.hash = 1..(Len(LastHash) + 1) /\ Len(LastHash) \in Nat
          /\ DOMAIN LastHash = 1..Len(LastHash)
          /\ new.hash[Len(LastHash) + 1] = e
          /\ \A k \in 1..Len(LastHash) : new.hash[k] = LastHash[k]
      BY <2>3, <2>4
    <3> QED
      BY <3>1
  <2>6. Len(new.hash) = Len(LastHash) + 1
    BY <2>3, <2>4
  <2>7. /\ {new.hash[k] : k \in DOMAIN new.hash} = {q.id : q \in Before(new)'} \cup {new.id}
        /\ Len(new.hash) = Cardinality(Before(new)') + 1
    BY <2>1, <2>5, <2>6, LastCovers
  <2>8. \A q \in committed :
          /\ {q.hash[k] : k \in DOMAIN q.hash} = {p.id : p \in Before(q)'} \cup {q.id}
          /\ Len(q.hash) = Cardinality(Before(q)') + 1
    BY <2>1 DEF HistoryInv, HashCoversHistory
  <2>9. \A q \in committed \cup {new} :
          /\ {q.hash[k] : k \in DOMAIN q.hash} = {p.id : p \in Before(q)'} \cup {q.id}
          /\ Len(q.hash) = Cardinality(Before(q)') + 1
    BY <2>7, <2>8
  <2>10. \A q \in committed' :
          /\ {q.hash[k] : k \in DOMAIN q.hash} = {p.id : p \in Before(q)'} \cup {q.id}
          /\ Len(q.hash) = Cardinality(Before(q)') + 1
    BY <2>1, <2>9
  <2> QED
    BY <2>2, <2>10, Zenon DEF HistoryInv, HashCoversHistory
<1> QED
  BY <1>1, <1>2

\* Only a COMMIT changes the committed rows, and every step leaves the table finite.
LEMMA NextKeepsHistory == IInv /\ HistoryInv /\ [Next]_vars => HistoryInv'
<1> SUFFICES ASSUME IInv, HistoryInv, [Next]_vars PROVE HistoryInv'
  OBVIOUS
<1>same. ASSUME committed' = committed, IsFiniteSet(rows') PROVE HistoryInv'
  <2>1. \A r : Before(r)' = Before(r)
    BY <1>same DEF Before
  <2> QED
    BY <1>same, <2>1 DEF HistoryInv, HashCoversHistory
<1>1. ASSUME NEW e \in Events, connect(e) \/ begin(e) \/ takeLock(e) \/ readLast(e) \/ notify(e)
      PROVE  HistoryInv'
  BY <1>1, <1>same DEF connect, begin, takeLock, readLast, notify, committed, HistoryInv
<1>2. ASSUME NEW e \in Events, insertRow(e) PROVE HistoryInv'
  <2>1. committed' = committed
    BY <1>2 DEF insertRow, committed
  <2>2. IsFiniteSet(rows')
    BY <1>2, FS_AddElement DEF insertRow, HistoryInv
  <2> QED
    BY <2>1, <2>2, <1>same
<1>3. ASSUME NEW e \in Events, commit(e) \/ failAfterCommit(e) PROVE HistoryInv'
  BY <1>3, CommitCovers DEF commit, failAfterCommit
<1>4. ASSUME NEW e \in Events, fail(e) PROVE HistoryInv'
  <2>1. committed' = committed /\ rows' \subseteq rows
    BY <1>4 DEF fail, RollbackOf, committed
  <2> QED
    BY <2>1, <1>same, FS_Subset DEF HistoryInv
<1>5. ASSUME NEW p \in Replicas, Die(p) PROVE HistoryInv'
  <2>1. committed' = committed /\ rows' \subseteq rows
    BY <1>5 DEF Die, committed
  <2> QED
    BY <2>1, <1>same, FS_Subset DEF HistoryInv
<1>6. CASE UNCHANGED vars
  BY <1>6, <1>same DEF vars, committed, HistoryInv
<1> QED
  BY <1>1, <1>2, <1>3, <1>4, <1>5, <1>6 DEF Next, Step

\* The hash of a row covers exactly the rows committed before it, each once, for
\* any number of appends, replicas and failures: nothing can be taken out of the
\* trail or altered without a later hash showing it.
THEOREM HistoryIsCovered == Spec => []HashCoversHistory
<1>1. Init => HistoryInv
  BY FS_EmptySet DEF Init, HistoryInv, HashCoversHistory, committed
<1>2. HistoryInv => HashCoversHistory
  BY DEF HistoryInv
<1> QED
  BY <1>1, <1>2, ChainInvariant, NextKeepsHistory, PTL DEF Spec, IInv

-----------------------------------------------------------------------------
(* Telemetry: honest labels, ceilings, buckets and readiness.              *)

\* Whatever a caller hands over, no label is a national id, a uuid or a hash.
LEMMA LabelsAreSafe ==
  ASSUME NEW v
  PROVE  sanitizeLabelValue(v) \notin IdentityShapes
<1>1. \A w \in IdentityShapes : w \in DOMAIN Shapes
  BY DEF IdentityShapes, Shapes
<1>2. unsafeLabelReason(Shapes["nid"])
  BY DEF Shapes, Looks, unsafeLabelReason
<1>3. unsafeLabelReason(Shapes["uuid"])
  BY DEF Shapes, Looks, unsafeLabelReason
<1>4. unsafeLabelReason(Shapes["hash"])
  BY DEF Shapes, Looks, unsafeLabelReason
<1>5. \A w \in IdentityShapes : unsafeLabelReason(Shape(w))
  <2> USE DEF Shape
  <2> QED BY <1>1, <1>2, <1>3, <1>4 DEF IdentityShapes
<1>6. Refused \notin IdentityShapes /\ "__rejected__" \notin IdentityShapes
  BY DEF Refused, IdentityShapes
<1>7. QED
  BY <1>5, <1>6 DEF sanitizeLabelValue

\* Amounts are naturals.
LEMMA AmountsAreNatural ==
  ASSUME NEW call \in Recordings, NEW r \in call
  PROVE  r.amount \in Nat
<1> USE TelemetryAssumption DEF Recording
<1>1. CASE call \in recordCibaDecision
  BY <1>1 DEF recordCibaDecision
<1>2. CASE call \in recordHttpRequest
  BY <1>2 DEF recordHttpRequest
<1>3. CASE call \in recordSigningOperation
  <2>1. PICK kid : call = {Recording("signing", <<signingKeyLabel(kid)>>, 1)}
    BY <1>3, Zenon DEF recordSigningOperation
  <2>2. QED BY <2>1
<1>4. CASE call \in recordRateLimitHit
  BY <1>4 DEF recordRateLimitHit
<1>5. CASE call \in recordSdidCall
  BY <1>5 DEF recordSdidCall
<1>6. CASE call \in recordSdidCircuitState
  BY <1>6 DEF recordSdidCircuitState
<1>7. QED BY <1>1, <1>2, <1>3, <1>4, <1>5, <1>6 DEF Recordings

HistogramSound(st) ==
    /\ st.count \in Nat
    /\ \A b \in Latencies : st.buckets[b] \in Nat
    /\ Cumulative(st)

\* A family within its ceiling, labelled safely, its histograms cumulative.
SeriesSound(f, s) ==
    /\ IsFiniteSet(DOMAIN s)
    /\ Cardinality(DOMAIN s) <= MaxSeries
    /\ \A k \in DOMAIN s :
          /\ \A i \in DOMAIN k : k[i] \notin IdentityShapes
          /\ Families[f] = "histogram" => HistogramSound(s[k])

\* What a check answered, the dependency was during the probe.
ProbesSound ==
    \A p \in Probes, c \in Components :
        /\ probe[p][c] = "probing" => health[c] \in seen[p][c]
        /\ probe[p][c] = "ok" => "up" \in seen[p][c]
        /\ probe[p][c] = "fail" => "down" \in seen[p][c]

ProbesTyped ==
    /\ health \in [Components -> {"up", "down"}]
    /\ probe \in [Probes -> [Components -> {"idle", "probing", "ok", "fail"}]]
    /\ seen \in [Probes -> [Components -> SUBSET {"up", "down"}]]

\* The inductive invariant of metrics and readiness.
TelemetryInv ==
    /\ \A f \in DOMAIN Families : SeriesSound(f, series[f])
    /\ ProbesTyped
    /\ ProbesSound

\* A histogram begins with empty buckets.
LEMMA NewHistogramSound ==
  ASSUME NEW f, Families[f] = "histogram" PROVE HistogramSound(newState(f))
<1>1. newState(f) = [count |-> 0, sum |-> 0, buckets |-> [b \in Latencies |-> 0]]
  BY DEF newState
<1>2. QED BY <1>1 DEF HistogramSound, Cumulative

\* observe raises every bucket from its own bound on.
LEMMA ObserveSound ==
  ASSUME NEW st, HistogramSound(st), NEW value \in Nat
  PROVE  HistogramSound(observe(st, value))
<1> USE TelemetryAssumption
<1>1. PICK new : new = observe(st, value)
  OBVIOUS
<1>2. /\ new.count = st.count + 1
      /\ \A b \in Latencies : new.buckets[b] = st.buckets[b] + (IF value <= b THEN 1 ELSE 0)
  BY <1>1 DEF observe
<1>3. new.count \in Nat /\ \A b \in Latencies : new.buckets[b] \in Nat
  BY <1>2 DEF HistogramSound
<1>4. ASSUME NEW a \in Latencies, NEW b \in Latencies, a <= b
      PROVE  new.buckets[a] <= new.buckets[b] /\ new.buckets[b] <= new.count
  <2>1. /\ st.buckets[a] <= st.buckets[b] /\ st.buckets[b] <= st.count
        /\ st.buckets[a] \in Nat /\ st.buckets[b] \in Nat /\ st.count \in Nat
    BY <1>4 DEF HistogramSound, Cumulative
  <2>2. a \in Nat /\ b \in Nat
    OBVIOUS
  <2>3. QED BY <1>2, <1>4, <2>1, <2>2
<1>5. HistogramSound(new)
  BY <1>3, <1>4 DEF HistogramSound, Cumulative
<1>6. QED BY <1>1, <1>5

\* resolve admits a key that is there, or one below the ceiling.
LEMMA UpdatedSound ==
  ASSUME NEW f \in DOMAIN Families, SeriesSound(f, series[f]), NEW key, NEW amount \in Nat,
         \A i \in DOMAIN key : key[i] \notin IdentityShapes,
         key \in DOMAIN series[f] \/ Cardinality(DOMAIN series[f]) < MaxSeries
  PROVE  SeriesSound(f, Updated(f, key, amount))
<1> USE TelemetryAssumption
<1> DEFINE old == DOMAIN series[f]
           was(k) == IF k \in old THEN series[f][k] ELSE newState(f)
<1>1. PICK new : new = Updated(f, key, amount)
  OBVIOUS
<1>2. /\ DOMAIN new = old \cup {key}
      /\ \A k \in old \cup {key} : new[k] = IF k = key THEN Applied(f, was(k), amount) ELSE was(k)
  BY <1>1 DEF Updated
<1>3. IsFiniteSet(old) /\ Cardinality(old) <= MaxSeries /\ Cardinality(old) \in Nat
  BY FS_CardinalityType DEF SeriesSound
<1>4. IsFiniteSet(old \cup {key}) /\ Cardinality(old \cup {key}) <= MaxSeries
  <2>1. CASE key \in old
    <3>1. old \cup {key} = old BY <2>1
    <3>2. QED BY <3>1, <1>3
  <2>2. CASE key \notin old
    <3>1. IsFiniteSet(old \cup {key}) /\ Cardinality(old \cup {key}) = Cardinality(old) + 1
      <4> HIDE DEF old
      <4> QED BY <1>3, <2>2, FS_AddElement
    <3>2. Cardinality(old) < MaxSeries BY <2>2
    <3>3. QED
      <4> HIDE DEF old
      <4> QED BY <3>1, <3>2, <1>3
  <2>3. QED BY <2>1, <2>2
<1>5. ASSUME NEW k \in old \cup {key} PROVE \A i \in DOMAIN k : k[i] \notin IdentityShapes
  BY DEF SeriesSound
<1>6. ASSUME NEW k \in old \cup {key}, Families[f] = "histogram" PROVE HistogramSound(new[k])
  <2>1. HistogramSound(was(k))
    BY <1>6, NewHistogramSound DEF SeriesSound
  <2>2. CASE k = key
    <3>1. Applied(f, was(k), amount) = observe(was(k), amount)
      BY <1>6 DEF Applied
    <3>2. QED
      <4> HIDE DEF was
      <4> QED BY <1>2, <2>1, <2>2, <3>1, ObserveSound
  <2>3. CASE k # key
    <3> HIDE DEF was
    <3> QED BY <1>2, <2>1, <2>3
  <2>4. QED BY <2>2, <2>3
<1>7. SeriesSound(f, new)
  <2> HIDE DEF old, was
  <2> QED BY <1>2, <1>4, <1>5, <1>6 DEF SeriesSound
<1>8. QED BY <1>1, <1>7

\* A recording touches one series of each of its families.
LEMMA RecordKeeps ==
  ASSUME TelemetryInv, NEW call \in Recordings, record(call)
  PROVE  TelemetryInv'
<1> DEFINE To(f) == {r \in call : r.family = f /\ resolve(f, r.labels).to = "series"}
<1>1. /\ UNCHANGED probeVars
      /\ series' = [f \in DOMAIN Families |->
                      IF To(f) = {} THEN series[f]
                      ELSE LET r == CHOOSE r \in To(f) : TRUE
                           IN  Updated(f, resolve(f, r.labels).values, r.amount)]
  BY DEF record
<1>2. ASSUME NEW f \in DOMAIN Families PROVE SeriesSound(f, series'[f])
  <2>0. SeriesSound(f, series[f])
    BY DEF TelemetryInv
  <2>1. CASE To(f) = {}
    <3>1. series'[f] = series[f] BY <1>1, <2>1
    <3>2. QED BY <2>0, <3>1
  <2>2. CASE To(f) # {}
    <3>1. PICK r : r = CHOOSE x \in To(f) : TRUE
      OBVIOUS
    <3>2. r \in To(f)
      <4> HIDE DEF To
      <4> QED BY <2>2, <3>1
    <3>3. series'[f] = Updated(f, resolve(f, r.labels).values, r.amount)
      <4> HIDE DEF To
      <4> QED BY <1>1, <2>2, <3>1
    <3>4. r \in call /\ resolve(f, r.labels).to = "series"
      BY <3>2
    <3>5. r.amount \in Nat
      BY <3>4, AmountsAreNatural
    <3>6. PICK key : key = [i \in DOMAIN r.labels |-> sanitizeLabelValue(r.labels[i])]
      OBVIOUS
    <3>7. resolve(f, r.labels).values = key
      BY <3>6 DEF resolve
    <3>8. key \in DOMAIN series[f] \/ Cardinality(DOMAIN series[f]) < MaxSeries
      BY <3>4, <3>6 DEF resolve
    <3>9. \A i \in DOMAIN key : key[i] \notin IdentityShapes
      BY <3>6, LabelsAreSafe
    <3>10. QED
      BY <2>0, <3>3, <3>5, <3>7, <3>8, <3>9, UpdatedSound
  <2>3. QED BY <2>1, <2>2
<1>3. ProbesTyped' /\ ProbesSound'
  BY <1>1 DEF TelemetryInv, probeVars, ProbesTyped, ProbesSound
<1>4. (\A f \in DOMAIN Families : SeriesSound(f, series[f]))'
  BY <1>2 DEF SeriesSound, HistogramSound, Cumulative
<1>5. QED
  BY <1>3, <1>4 DEF TelemetryInv

\* Readiness does not touch the registry.
LEMMA SeriesUntouched ==
  ASSUME TelemetryInv, series' = series
  PROVE  (\A f \in DOMAIN Families : SeriesSound(f, series[f]))'
BY DEF TelemetryInv, SeriesSound, HistogramSound, Cumulative

\* A probe begins with what the dependencies are now.
LEMMA ReadinessKeeps ==
  ASSUME TelemetryInv, NEW p \in Probes, readiness(p)
  PROVE  TelemetryInv'
<1>1. /\ probe' = [probe EXCEPT ![p] = [c \in Components |-> "probing"]]
      /\ seen' = [seen EXCEPT ![p] = [c \in Components |-> {health[c]}]]
      /\ series' = series /\ health' = health
  BY DEF readiness, registryVars
<1>2. ProbesTyped'
  BY <1>1 DEF TelemetryInv, ProbesTyped
<1>3. ProbesSound'
  BY <1>1 DEF TelemetryInv, ProbesTyped, ProbesSound
<1>4. QED BY <1>1, <1>2, <1>3, SeriesUntouched DEF TelemetryInv

\* A check answers what its dependency is, which is seen.
LEMMA CheckKeeps ==
  ASSUME TelemetryInv, NEW p \in Probes, NEW c \in Components, check(p, c)
  PROVE  TelemetryInv'
<1>1. PICK v : v = CheckVerdict(health[c])
  OBVIOUS
<1>2. /\ probe[p][c] = "probing" /\ probe' = [probe EXCEPT ![p][c] = v]
      /\ seen' = seen /\ series' = series /\ health' = health
  BY <1>1 DEF check, registryVars
<1>3. health[c] \in seen[p][c] /\ health[c] \in {"up", "down"}
  BY <1>2 DEF TelemetryInv, ProbesTyped, ProbesSound
<1>4. v \in {"ok", "fail"} /\ (v = "ok" => "up" \in seen[p][c]) /\ (v = "fail" => "down" \in seen[p][c])
  BY <1>1, <1>3 DEF CheckVerdict
<1>5. ProbesTyped'
  BY <1>2, <1>4 DEF TelemetryInv, ProbesTyped
<1>6. ASSUME NEW q \in Probes, NEW d \in Components
      PROVE  probe'[q][d] = IF q = p /\ d = c THEN v ELSE probe[q][d]
  BY <1>2 DEF TelemetryInv, ProbesTyped
<1>7. ProbesSound'
  BY <1>2, <1>4, <1>6 DEF TelemetryInv, ProbesSound
<1>8. QED BY <1>2, <1>5, <1>7, SeriesUntouched DEF TelemetryInv

\* The answer ends the probe.
LEMMA AnswerKeeps ==
  ASSUME TelemetryInv, NEW p \in Probes, Answer(p)
  PROVE  TelemetryInv'
<1>1. /\ probe' = [probe EXCEPT ![p] = [c \in Components |-> "idle"]]
      /\ seen' = [seen EXCEPT ![p] = [c \in Components |-> {}]]
      /\ series' = series /\ health' = health
  BY DEF Answer, registryVars, NoProbe
<1>2. ProbesTyped'
  BY <1>1 DEF TelemetryInv, ProbesTyped
<1>3. ProbesSound'
  BY <1>1 DEF TelemetryInv, ProbesTyped, ProbesSound
<1>4. QED BY <1>1, <1>2, <1>3, SeriesUntouched DEF TelemetryInv

\* A probe that is still asking sees the change.
LEMMA HealthKeeps ==
  ASSUME TelemetryInv, NEW c \in Components, HealthTurns(c)
  PROVE  TelemetryInv'
<1>1. PICK h \in {"up", "down"} :
        /\ health' = [health EXCEPT ![c] = h]
        /\ seen' = [p \in Probes |->
                      IF probe[p][c] = "probing" THEN [seen[p] EXCEPT ![c] = @ \cup {h}] ELSE seen[p]]
  BY DEF HealthTurns
<1>2. probe' = probe /\ series' = series
  BY DEF HealthTurns, registryVars
<1>3. ASSUME NEW p \in Probes
      PROVE  /\ seen'[p] \in [Components -> SUBSET {"up", "down"}]
             /\ \A d \in Components : seen[p][d] \subseteq seen'[p][d]
             /\ probe[p][c] = "probing" => h \in seen'[p][c]
  <2>1. seen[p] \in [Components -> SUBSET {"up", "down"}]
    BY DEF TelemetryInv, ProbesTyped
  <2>2. seen'[p] = IF probe[p][c] = "probing" THEN [seen[p] EXCEPT ![c] = @ \cup {h}] ELSE seen[p]
    BY <1>1
  <2>3. QED BY <2>1, <2>2
<1>4. health' \in [Components -> {"up", "down"}] /\ health'[c] = h
      /\ \A d \in Components : d # c => health'[d] = health[d]
  BY <1>1 DEF TelemetryInv, ProbesTyped
<1>5. seen' \in [Probes -> [Components -> SUBSET {"up", "down"}]]
  BY <1>1, <1>3
<1>6. ProbesTyped'
  BY <1>2, <1>4, <1>5 DEF TelemetryInv, ProbesTyped
<1>7. ProbesSound'
  BY <1>2, <1>3, <1>4 DEF TelemetryInv, ProbesSound
<1>8. QED BY <1>2, <1>6, <1>7, SeriesUntouched DEF TelemetryInv

\* No series and no probe.
LEMMA TelemetryInitInv == TelemetryInit => TelemetryInv
<1> SUFFICES ASSUME TelemetryInit PROVE TelemetryInv
  OBVIOUS
<1> USE TelemetryAssumption
<1>1. ASSUME NEW f \in DOMAIN Families PROVE SeriesSound(f, series[f])
  <2>1. series[f] = [k \in {} |-> newState(f)]
    BY DEF TelemetryInit
  <2>2. DOMAIN series[f] = {}
    BY <2>1
  <2>3. IsFiniteSet({}) /\ Cardinality({}) = 0
    BY FS_EmptySet
  <2>4. QED BY <2>2, <2>3 DEF SeriesSound
<1>2. ProbesTyped
  BY DEF TelemetryInit, ProbesTyped, NoProbe
<1>3. ProbesSound
  BY DEF TelemetryInit, ProbesSound, NoProbe
<1>4. QED BY <1>1, <1>2, <1>3 DEF TelemetryInv

\* Every step keeps the invariant.
LEMMA TelemetryNextInv == TelemetryInv /\ [TelemetryNext]_telemetryVars => TelemetryInv'
<1> SUFFICES ASSUME TelemetryInv, [TelemetryNext]_telemetryVars PROVE TelemetryInv'
  OBVIOUS
<1>1. ASSUME NEW call \in Recordings, record(call) PROVE TelemetryInv'
  BY <1>1, RecordKeeps
<1>2. ASSUME UNCHANGED <<series, probeVars>> PROVE TelemetryInv'
  BY <1>2, SeriesUntouched DEF TelemetryInv, probeVars, ProbesTyped, ProbesSound
<1>3. CASE render
  BY <1>2, <1>3 DEF render
<1>4. ASSUME NEW p \in Probes, readiness(p) PROVE TelemetryInv'
  BY <1>4, ReadinessKeeps
<1>5. ASSUME NEW p \in Probes, Answer(p) PROVE TelemetryInv'
  BY <1>5, AnswerKeeps
<1>6. ASSUME NEW p \in Probes, NEW c \in Components, check(p, c) PROVE TelemetryInv'
  BY <1>6, CheckKeeps
<1>7. ASSUME NEW c \in Components, HealthTurns(c) PROVE TelemetryInv'
  BY <1>7, HealthKeeps
<1>8. CASE UNCHANGED telemetryVars
  BY <1>2, <1>8 DEF telemetryVars, registryVars
<1>9. QED
  BY <1>1, <1>3, <1>4, <1>5, <1>6, <1>7, <1>8 DEF TelemetryNext

\* The invariant is strong enough.
LEMMA TelemetryInvHonest == TelemetryInv => TelemetryHonest
<1> SUFFICES ASSUME TelemetryInv PROVE TelemetryHonest
  OBVIOUS
<1>1. ASSUME NEW f \in DOMAIN Families
      PROVE  /\ Cardinality(DOMAIN series[f]) <= MaxSeries
             /\ \A k \in DOMAIN series[f] :
                   /\ \A i \in DOMAIN k : k[i] \notin IdentityShapes
                   /\ Families[f] = "histogram" => Cumulative(series[f][k])
  BY DEF TelemetryInv, SeriesSound, HistogramSound
<1>2. ASSUME NEW p \in Probes, Settled(p)
      PROVE  IF Ready(p) THEN \A c \in Components : "up" \in seen[p][c]
                         ELSE \E c \in Components : seen[p][c] # {"up"}
  BY <1>2 DEF TelemetryInv, ProbesSound, Settled, Ready
<1>3. QED BY <1>1, <1>2 DEF TelemetryHonest

\* For every ceiling, every set of bucket bounds and any number of overlapping
\* probes: no national id, uuid or hash becomes a label, no family outgrows its
\* ceiling, buckets stay cumulative, and a readiness answer is true of its own probe
\* (MetricsRegistry.resolve, HistogramMetric.observe, HealthService.readiness).
THEOREM TelemetryStaysHonest == TelemetrySpec => []TelemetryHonest
<1>1. TelemetryInit => TelemetryInv
  BY TelemetryInitInv
<1>2. TelemetryInv /\ [TelemetryNext]_telemetryVars => TelemetryInv'
  BY TelemetryNextInv
<1>3. TelemetryInv => TelemetryHonest
  BY TelemetryInvHonest
<1>4. QED
  BY <1>1, <1>2, <1>3, PTL DEF TelemetrySpec

-----------------------------------------------------------------------------
(* Start-up: any number of replicas, migrations and restarts, and every    *)
(* configuration of Configs.                                               *)

USE FilesAssumption

Stages == {"off", "start", "select", "begin", "commit", "create", "listening", "exited"}

BootTyped ==
    /\ config \in Configs
    /\ boot \in [Brokers -> [at : Stages, file : Nat]]
    /\ schema \in [1..Files -> Nat]
    /\ starts \in [Brokers -> Nat]

\* How far a replica that is migrating has got, and so everybody.
Migrated(b) ==
    /\ b.at \in {"select", "begin", "commit"} =>
          b.file \in 1..(Files + 1) /\ 1..(b.file - 1) \subseteq applied
    /\ b.at \in {"begin", "commit"} => b.file <= Files
    /\ b.at = "commit" => b.file \notin applied
    /\ b.at \in {"create", "listening"} => applied = 1..Files

\* A broker that got past a check got past it with the configuration it has.
Checked(b) ==
    /\ b.at \notin {"off", "start", "exited"} => loadConfig(config)
    /\ b.at = "listening" => KeyCustodyBuilt(config)

\* The rows of _migrations are the first files, and their SQL ran once.
RowsMatch ==
    /\ \A f \in 1..Files : schema[f] = IF f \in applied THEN 1 ELSE 0
    /\ \E n \in 0..Files : applied = 1..n

BootInv ==
    /\ BootTyped
    /\ \A r \in Brokers : Migrated(boot[r]) /\ Checked(boot[r])
    /\ \A q, r \in Brokers : boot[q].at = "commit" /\ boot[r].at = "commit" => q = r
    /\ RowsMatch

\* A configuration has a key custody that loadConfig knows.
LEMMA ConfigsTyped ==
    ASSUME NEW c \in Configs
    PROVE  c.KEY_CUSTODY \in {"kms", "hsm", "postgres-dev"}
<1>1. Complete.KEY_CUSTODY = "kms" /\ "KEY_CUSTODY" \in DOMAIN Complete
  BY DEF Complete
<1> DEFINE Known == {"kms", "hsm", "postgres-dev"}
<1>2. \A e \in Edits \cup {Complete} : e.KEY_CUSTODY \in Known
  BY <1>1 DEF Edits
<1>3. \A a \in Edits, b \in Edits \cup {Complete} :
         Both(a, b).KEY_CUSTODY \in Known /\ "KEY_CUSTODY" \in DOMAIN Both(a, b)
  <2>1. \A a, b : /\ DOMAIN Both(a, b) = DOMAIN Complete
                  /\ Both(a, b).KEY_CUSTODY \in {a.KEY_CUSTODY, b.KEY_CUSTODY}
    BY <1>1 DEF Both
  <2>2. QED BY <1>1, <1>2, <2>1
<1>4. ASSUME NEW a \in Edits, NEW b \in Edits \cup {Complete}, NEW env
      PROVE  [Both(a, b) EXCEPT !.NODE_ENV = env].KEY_CUSTODY \in Known
  <2>1. PICK d : d = Both(a, b)
    OBVIOUS
  <2>2. d.KEY_CUSTODY \in Known /\ "KEY_CUSTODY" \in DOMAIN d
    BY <1>3, <2>1
  <2>3. [d EXCEPT !.NODE_ENV = env].KEY_CUSTODY = d.KEY_CUSTODY
    BY <2>2
  <2>4. QED BY <2>1, <2>2, <2>3
<1> DEFINE Envs == {"production", "development"}
<1>5. c = Complete \/ c \in { [Both(a, b) EXCEPT !.NODE_ENV = env] :
                              a \in Edits, b \in Edits \cup {Complete}, env \in Envs }
  BY DEF Configs
<1> HIDE DEF Envs
<1>6. CASE c # Complete
  <2>1. PICK a \in Edits, b \in Edits \cup {Complete}, env \in Envs :
            c = [Both(a, b) EXCEPT !.NODE_ENV = env]
    BY <1>5, <1>6
  <2>2. QED BY <1>4, <2>1, Zenon
<1>7. QED BY <1>1, <1>6

\* What loadConfig lets through in production is what the runbook asks for, and
\* nothing opens both the admin and the metrics routes.
LEMMA GuardedConfig ==
    ASSUME NEW c \in Configs, loadConfig(c), c.NODE_ENV = "production"
    PROVE  /\ GuardRails(c)
           /\ \A token : ~(AdminGuard(c, token) /\ MetricsGuard(c, token))
<1>1. c.KEY_CUSTODY \in {"kms", "hsm", "postgres-dev"}
  BY ConfigsTyped
<1>2. /\ c.NID_PEPPER # "dev-only" /\ c.ADMIN_API_TOKEN # "dev-admin-token"
      /\ c.ATTESTATION_MODE = "strict" /\ c.NONCE_TTL = "300" /\ c.IOS_ATTESTATION_PRODUCTION
      /\ AppSettings \subseteq c.present
      /\ c.ANOMALY_ENABLED => c.ANOMALY_SOURCE_PEPPER # "dev-only"
  BY DEF loadConfig, assertStrictAttestationConfigured, assertObservabilityConfigured, All
<1>3. /\ c.KEY_CUSTODY \in {"kms", "hsm"}
      /\ (IF c.KEY_CUSTODY = "kms" THEN KmsSettings ELSE HsmSettings) \subseteq c.present
  BY <1>1 DEF loadConfig, assertKeyCustodyConfigured, All
<1>4. /\ \A P \in {FcmSettings, ApnsSettings} : P \cap c.present \in {{}, P}
      /\ ApnsSettings \subseteq c.present => c.APNS_PRODUCTION
  <2>1. ApnsSettings # {}
    BY DEF ApnsSettings
  <2>2. /\ FcmSettings \cap c.present # {} => FcmSettings \subseteq c.present
        /\ ApnsSettings \cap c.present # {} => ApnsSettings \subseteq c.present /\ c.APNS_PRODUCTION
    BY DEF loadConfig, assertPushConfigured, All, Some
  <2>3. QED BY <2>1, <2>2
<1>5. \A token : ~(AdminGuard(c, token) /\ MetricsGuard(c, token))
  BY DEF loadConfig, assertObservabilityConfigured, AdminGuard, MetricsGuard
<1>6. QED BY <1>2, <1>3, <1>4, <1>5 DEF GuardRails

LEMMA BootInit ==
    StartInit => BootInv
<1> SUFFICES ASSUME NEW c \in Configs, Deployed(c) PROVE BootInv
  BY DEF StartInit
<1>1. BootTyped
  BY DEF Deployed, BootTyped, Stages
<1>2. \A r \in Brokers : boot[r].at = "off"
  BY DEF Deployed
<1>3. RowsMatch
  <2>1. 1..0 = {} /\ 0 \in 0..Files
    OBVIOUS
  <2>2. QED BY <2>1 DEF Deployed, RowsMatch
<1>4. QED BY <1>1, <1>2, <1>3 DEF BootInv, Migrated, Checked

\* A replica that goes somewhere without writing to the database keeps the
\* invariant when the place it goes to is justified.
LEMMA BootStep ==
    ASSUME BootInv, NEW r \in Brokers, NEW at \in Stages, NEW file \in Nat,
           Proceed(r, at, file), UNCHANGED <<config, applied, schema>>,
           starts' \in [Brokers -> Nat],
           Migrated([at |-> at, file |-> file]), Checked([at |-> at, file |-> file]),
           at = "commit" => \A q \in Brokers : boot[q].at # "commit"
    PROVE  BootInv'
<1> DEFINE b == [at |-> at, file |-> file]
<1>1. b \in [at : Stages, file : Nat]
  OBVIOUS
<1>2. \A q \in Brokers : boot'[q] = IF q = r THEN b ELSE boot[q]
  BY DEF Proceed, BootInv, BootTyped
<1>3. BootTyped'
  BY <1>1 DEF Proceed, BootInv, BootTyped
<1>4. \A q \in Brokers : Migrated(boot'[q]) /\ Checked(boot'[q])
  BY <1>2 DEF BootInv
<1>5. \A q \in Brokers : Migrated(boot[q])' /\ Checked(boot[q])'
  BY <1>4 DEF Migrated, Checked
<1>6. \A q, p \in Brokers : boot'[q].at = "commit" /\ boot'[p].at = "commit" => q = p
  BY <1>2 DEF BootInv
<1>7. RowsMatch'
  BY DEF BootInv, RowsMatch
<1>8. QED BY <1>3, <1>5, <1>6, <1>7 DEF BootInv

LEMMA BootExit ==
    ASSUME BootInv, NEW r \in Brokers, Exit(r), UNCHANGED <<config, applied, schema, starts>>
    PROVE  BootInv'
<1> DEFINE b == [at |-> "exited", file |-> 0]
<1>1. Migrated(b) /\ Checked(b)
  BY DEF Migrated, Checked
<1>2. starts' \in [Brokers -> Nat]
  BY DEF BootInv, BootTyped
<1>3. QED BY <1>1, <1>2, BootStep DEF Exit, Stages

LEMMA BootStart ==
    ASSUME BootInv, NEW r \in Brokers, Start(r)
    PROVE  BootInv'
<1>1. Migrated([at |-> "start", file |-> 0]) /\ Checked([at |-> "start", file |-> 0])
  BY DEF Migrated, Checked
<1>2. starts' \in [Brokers -> Nat]
  BY DEF BootInv, BootTyped, Start
<1>3. QED BY <1>1, <1>2, BootStep DEF Start, Stages

LEMMA BootLoad ==
    ASSUME BootInv, NEW r \in Brokers, Load(r)
    PROVE  BootInv'
<1>1. CASE ~loadConfig(config)
  BY <1>1, BootExit DEF Load
<1>2. CASE loadConfig(config)
  <2>1. Migrated([at |-> "select", file |-> 1]) /\ Checked([at |-> "select", file |-> 1])
    BY <1>2 DEF Migrated, Checked
  <2>2. starts' \in [Brokers -> Nat]
    BY DEF BootInv, BootTyped, Load
  <2>3. QED BY <1>2, <2>1, <2>2, BootStep DEF Load, Stages
<1>3. QED BY <1>1, <1>2

\* What holds of a replica that is in the middle of runMigrations.
LEMMA BootMidway ==
    ASSUME BootInv, NEW r \in Brokers, boot[r].at \in {"select", "begin", "commit"}
    PROVE  /\ boot[r].file \in 1..(Files + 1) /\ 1..(boot[r].file - 1) \subseteq applied
           /\ loadConfig(config)
           /\ boot[r].at # "select" => boot[r].file <= Files
  BY DEF BootInv, Migrated, Checked

LEMMA BootSelect ==
    ASSUME BootInv, NEW r \in Brokers, Select(r)
    PROVE  BootInv'
<1>1. boot[r].at = "select"
  BY DEF Select, Reached
<1>2. PICK f \in 1..(Files + 1) : f = boot[r].file /\ 1..(f - 1) \subseteq applied
  BY <1>1, BootMidway
<1>3. loadConfig(config)
  BY <1>1, BootMidway
<1>4. starts' \in [Brokers -> Nat] /\ UNCHANGED <<config, applied, schema>>
  BY DEF BootInv, BootTyped, Select
<1>5. applied \subseteq 1..Files
  BY DEF BootInv, RowsMatch
<1>6. CASE f > Files
  <2>1. Proceed(r, "create", 0)
    BY <1>2, <1>6 DEF Select
  <2>2. f - 1 = Files
    BY <1>2, <1>6
  <2>3. applied = 1..Files
    BY <1>2, <1>5, <2>2
  <2>4. Migrated([at |-> "create", file |-> 0]) /\ Checked([at |-> "create", file |-> 0])
    BY <1>3, <2>3 DEF Migrated, Checked
  <2>5. QED BY <1>4, <2>1, <2>4, BootStep DEF Stages
<1>7. CASE f <= Files /\ f \in applied
  <2>1. Proceed(r, "select", f + 1) /\ f + 1 \in Nat /\ f + 1 \in 1..(Files + 1)
    BY <1>2, <1>7 DEF Select
  <2>2. 1..((f + 1) - 1) \subseteq applied
    BY <1>2, <1>7
  <2>3. Migrated([at |-> "select", file |-> f + 1]) /\ Checked([at |-> "select", file |-> f + 1])
    BY <1>3, <2>1, <2>2 DEF Migrated, Checked
  <2>4. QED BY <1>4, <2>1, <2>3, BootStep DEF Stages
<1>8. CASE f <= Files /\ f \notin applied
  <2>1. Proceed(r, "begin", f)
    BY <1>2, <1>8 DEF Select
  <2>2. Migrated([at |-> "begin", file |-> f]) /\ Checked([at |-> "begin", file |-> f])
    BY <1>2, <1>3, <1>8 DEF Migrated, Checked
  <2>3. QED BY <1>2, <1>4, <2>1, <2>2, BootStep DEF Stages
<1>9. QED BY <1>6, <1>7, <1>8

\* Two replicas hold the SQL of different files only if the later one's
\* predecessors are all committed, so the earlier one's file is.
LEMMA BootRunSql ==
    ASSUME BootInv, NEW r \in Brokers, RunSql(r)
    PROVE  BootInv'
<1>1. boot[r].at = "begin"
  BY DEF RunSql, Reached
<1>2. PICK f \in 1..Files : f = boot[r].file /\ 1..(f - 1) \subseteq applied
  BY <1>1, BootMidway
<1>3. loadConfig(config)
  BY <1>1, BootMidway
<1>4. CASE schema[f] > 0
  BY <1>2, <1>4, BootExit DEF RunSql
<1>5. CASE ~(schema[f] > 0)
  <2>1. Proceed(r, "commit", f) /\ UNCHANGED <<config, applied, schema>>
    BY <1>2, <1>5 DEF RunSql
  <2>2. f \notin applied
    BY <1>2, <1>5 DEF BootInv, RowsMatch
  <2>3. ASSUME NEW q \in Brokers, boot[q].at = "commit" PROVE FALSE
    <3>1. PICK g \in 1..Files : g = boot[q].file /\ 1..(g - 1) \subseteq applied /\ g \notin applied
      <4>1. boot[q].file \notin applied
        BY <2>3 DEF BootInv, Migrated
      <4>2. QED BY <2>3, <4>1, BootMidway
    <3>2. g # f
      BY <1>2, <2>3, <3>1 DEF RunSql, Reached
    <3>3. g \in 1..(f - 1) \/ f \in 1..(g - 1)
      BY <3>2
    <3>4. QED BY <1>2, <2>2, <3>1, <3>3
  <2>4. Migrated([at |-> "commit", file |-> f]) /\ Checked([at |-> "commit", file |-> f])
    BY <1>2, <1>3, <2>2 DEF Migrated, Checked
  <2>5. starts' \in [Brokers -> Nat]
    BY DEF BootInv, BootTyped, RunSql
  <2>6. QED BY <1>2, <2>1, <2>3, <2>4, <2>5, BootStep DEF Stages
<1>6. QED BY <1>4, <1>5

LEMMA BootCommit ==
    ASSUME BootInv, NEW r \in Brokers, Commit(r)
    PROVE  BootInv'
<1>1. boot[r].at = "commit"
  BY DEF Commit, Reached
<1>2. PICK f \in 1..Files : f = boot[r].file /\ 1..(f - 1) \subseteq applied /\ f \notin applied
  <2>1. boot[r].file \notin applied
    BY <1>1 DEF BootInv, Migrated
  <2>2. QED BY <1>1, <2>1, BootMidway
<1>3. applied = 1..(f - 1)
  <2>1. PICK n \in 0..Files : applied = 1..n
    BY DEF BootInv, RowsMatch
  <2>2. n = f - 1
    <3>1. f - 1 \in 0..Files /\ ~(f <= n)
      BY <1>2, <2>1
    <3>2. f - 1 # 0 => f - 1 \in applied
      BY <1>2
    <3>3. QED BY <2>1, <3>1, <3>2
  <2>3. QED BY <2>1, <2>2
<1>4. applied' = applied \cup {f} /\ applied' = 1..f
  BY <1>2, <1>3 DEF Commit
<1>5. schema' = [schema EXCEPT ![f] = @ + 1] /\ UNCHANGED <<config, starts>>
  BY <1>2 DEF Commit
<1> DEFINE b == [at |-> "select", file |-> f + 1]
<1>6. b \in [at : Stages, file : Nat]
  BY DEF Stages
<1>7. /\ boot' = [boot EXCEPT ![r] = b]
      /\ \A q \in Brokers : boot'[q] = IF q = r THEN b ELSE boot[q]
  BY <1>2 DEF Commit, Proceed, BootInv, BootTyped
<1> HIDE DEF b
<1>8. BootTyped'
  BY <1>5, <1>6, <1>7 DEF BootInv, BootTyped
<1>9. RowsMatch'
  <2>1. \A g \in 1..Files : schema'[g] = IF g = f THEN schema[f] + 1 ELSE schema[g]
    BY <1>5 DEF BootInv, BootTyped
  <2>2. schema[f] = 0
    BY <1>2 DEF BootInv, RowsMatch
  <2>3. \A g \in 1..Files : schema'[g] = IF g \in applied' THEN 1 ELSE 0
    BY <1>4, <2>1, <2>2 DEF BootInv, RowsMatch
  <2>4. QED BY <1>4, <2>3 DEF RowsMatch
<1>10. ASSUME NEW q \in Brokers PROVE Migrated(boot[q])' /\ Checked(boot[q])'
  <2>1. CASE q = r
    <3>1. boot'[q].at = "select" /\ boot'[q].file = f + 1
      BY <1>7, <2>1 DEF b
    <3>2. Migrated(boot[q])'
      <4>1. 1..((f + 1) - 1) \subseteq applied'
        BY <1>4
      <4>2. QED BY <1>2, <3>1, <4>1 DEF Migrated
    <3>3. loadConfig(config)
      BY <1>1, BootMidway
    <3>4. QED BY <1>5, <3>1, <3>2, <3>3 DEF Checked
  <2>2. CASE q # r
    <3>1. boot'[q] = boot[q] /\ Migrated(boot[q]) /\ Checked(boot[q])
      BY <1>7, <2>2 DEF BootInv
    <3>2. boot[q].at # "commit"
      BY <1>1, <2>2 DEF BootInv
    <3>3. boot[q].at \notin {"create", "listening"}
      BY <1>2, <3>1 DEF Migrated
    <3>4. QED BY <1>4, <1>5, <3>1, <3>2, <3>3 DEF Migrated, Checked
  <2>3. QED BY <2>1, <2>2
<1>11. \A q, p \in Brokers : boot'[q].at = "commit" /\ boot'[p].at = "commit" => q = p
  BY <1>7 DEF BootInv, b
<1>12. QED BY <1>8, <1>9, <1>10, <1>11 DEF BootInv

LEMMA BootCreate ==
    ASSUME BootInv, NEW r \in Brokers, Create(r)
    PROVE  BootInv'
<1>1. CASE ~(KeyCustodyBuilt(config) /\ SdidProviderBuilt(config))
  BY <1>1, BootExit DEF Create
<1>2. CASE KeyCustodyBuilt(config) /\ SdidProviderBuilt(config)
  <2>1. applied = 1..Files /\ loadConfig(config)
    BY DEF Create, Reached, BootInv, Migrated, Checked
  <2>2. Migrated([at |-> "listening", file |-> 0]) /\ Checked([at |-> "listening", file |-> 0])
    BY <1>2, <2>1 DEF Migrated, Checked
  <2>3. starts' \in [Brokers -> Nat]
    BY DEF BootInv, BootTyped, Create
  <2>4. QED BY <1>2, <2>2, <2>3, BootStep DEF Create, Stages
<1>3. QED BY <1>1, <1>2

\* What the invariant says of the running deployment.
LEMMA BootSafe ==
    ASSUME BootInv
    PROVE  BootedSafely
<1>1. ASSUME NEW r \in Brokers, config.NODE_ENV = "production",
             boot[r].at \notin {"off", "start", "exited"}
      PROVE  /\ GuardRails(config)
             /\ \A token \in {config.ADMIN_API_TOKEN, config.METRICS_TOKEN} :
                   ~(AdminGuard(config, token) /\ MetricsGuard(config, token))
  <2>1. config \in Configs /\ loadConfig(config)
    BY <1>1 DEF BootInv, BootTyped, Checked
  <2>2. QED BY <1>1, <2>1, GuardedConfig
<1>2. ASSUME NEW r \in Brokers, Reached(r, "listening")
      PROVE  KeyCustodyBuilt(config) /\ applied = 1..Files
  BY <1>2 DEF BootInv, Migrated, Checked, Reached
<1>3. QED BY <1>1, <1>2 DEF BootedSafely, BootInv, RowsMatch

\* For every number of replicas, migration files and restarts, and whenever
\* replicas die: a production broker past loadConfig() has its guard rails up
\* and no token for two doors; one that listens can sign and has the whole
\* schema; each migration commits once, in order, with its row (bootstrap,
\* loadConfig, runMigrations).
THEOREM BootsSafely == StartSpec => []BootedSafely
<1>1. StartInit => BootInv
  BY BootInit
<1>2. BootInv /\ [StartNext]_startVars => BootInv'
  <2>1. ASSUME BootInv, NEW r \in Brokers, Dies(r) PROVE BootInv'
    BY <2>1, BootExit DEF Dies
  <2>2. ASSUME BootInv, UNCHANGED startVars PROVE BootInv'
    BY <2>2 DEF startVars, BootInv, BootTyped, Migrated, Checked, RowsMatch
  <2>3. QED
    BY <2>1, <2>2, BootStart, BootLoad, BootSelect, BootRunSql, BootCommit, BootCreate
    DEF StartNext
<1>3. BootInv => BootedSafely
  BY BootSafe
<1>4. QED BY <1>1, <1>2, <1>3, PTL DEF StartSpec
=============================================================================
