-------------------------- MODULE KeyCustodyProofs --------------------------
(***************************************************************************)
(* Proofs about KeyCustody, for any finite number of replicas, any         *)
(* scenario, any number of keys and of signatures.                         *)
(***************************************************************************)
EXTENDS KeyCustody, FiniteSetTheorems, WellFoundedInduction, TLAPS

-----------------------------------------------------------------------------
(* What a job of a replica holds. *)

Pcs == {"idle", "read", "load", "generate", "reread", "reload", "publish", "drain", "up",
        "failed", "sign", "append", "commit", "audit", "close"}

Tallies == [Kids -> [Fields -> Int]]

Job == [pc : Pcs, seen : Seq(Status), kid : Nat, sum : Tallies \cup {<<>>}, due : Tallies \cup {<<>>}]

JobTable == [KeyReplicas -> [Jobs -> Job]]

KeysTyped ==
    /\ keyRows \in Seq(Status)
    /\ view \in [KeyReplicas -> Seq(Status)]
    /\ job \in JobTable
    /\ usage \in [KeyReplicas -> Tallies] /\ owed \in [KeyReplicas -> Tallies]
    /\ overlap \in [KeyReplicas -> BOOLEAN]
    /\ \A r \in KeyReplicas, j \in Jobs :
          JobAt(r, j, "append") => job[r][j].sum \in Tallies /\ job[r][j].due \in Tallies

-----------------------------------------------------------------------------
(* The count of active keys. *)

\* A boot that found no active key and has not generated one yet.
MayGenerate(r) ==
    \/ JobAt(r, "boot", "generate")
    \/ JobAt(r, "boot", "load") /\ Actives(job[r]["boot"].seen) = {}

Generators == {r \in KeyReplicas : MayGenerate(r)}

\* A boot that found an active key or made one.
FoundKey(r) ==
    \/ job[r]["boot"].pc \in {"reread", "reload", "publish", "drain", "up"}
    \/ JobAt(r, "boot", "load") /\ Actives(job[r]["boot"].seen) # {}

KeyInv ==
    /\ keyRows # <<>> => Actives(keyRows) # {}
    /\ \A r \in KeyReplicas :
          /\ FoundKey(r) => keyRows # <<>>
          /\ ~JobAt(r, "rotate", "idle") => keyRows # <<>>
    /\ Cardinality(Actives(keyRows)) + Cardinality(Generators) <= Cardinality(KeyReplicas)

-----------------------------------------------------------------------------
(* The tallies. *)

\* What a summary in flight reports, taken from what is tallied, leaves enough
\* for what has happened since it began.
Leaves(sum, due, o, u) == 0 <= due /\ due <= sum /\ due <= o /\ o - due <= u - sum

\* Summaries do not overlap.
SumInv(r) ==
    /\ \A i, j \in Jobs : JobAt(r, i, "append") /\ JobAt(r, j, "append") => i = j
    /\ \A j \in Jobs, k \in Kids, f \in Fields : JobAt(r, j, "append") =>
          Leaves(job[r][j].sum[k][f], job[r][j].due[k][f], owed[r][k][f], usage[r][k][f])

\* Nothing is forgotten.
Accounted(r) == \A k \in Kids, f \in Fields : 0 <= owed[r][k][f] /\ owed[r][k][f] <= usage[r][k][f]

UsageInv == \A r \in KeyReplicas : ~overlap[r] => Accounted(r) /\ SumInv(r)

IInv == KeysTyped /\ KeyInv /\ UsageInv

-----------------------------------------------------------------------------
(* The oldest active key of a copy. *)

LEMMA LeastExists ==
    ASSUME NEW T \in SUBSET Nat, T # {}
    PROVE  \E x \in T : \A y \in T : x <= y
<1>1. \E x \in T : \A y \in T : ~(<<y, x>> \in OpToRel(<, Nat))
  BY NatLessThanWellFounded, WFMin
<1>2. PICK x \in T : \A y \in T : ~(<<y, x>> \in OpToRel(<, Nat))
  BY <1>1
<1>3. ASSUME NEW y \in T PROVE x <= y
  <2>1. <<y, x>> \notin {ss \in Nat \X Nat : ss[1] < ss[2]}
    BY <1>2 DEF OpToRel
  <2>2. QED BY <2>1
<1>4. QED BY <1>3

\* active() finds the oldest active row of a copy, and null when there is none.
LEMMA FirstActiveIs ==
    ASSUME NEW v \in Seq(Status)
    PROVE  /\ FirstActive(v) \in Nat
           /\ Actives(v) = {} => FirstActive(v) = 0
           /\ Actives(v) # {} => /\ FirstActive(v) \in Actives(v)
                                 /\ \A l \in Actives(v) : FirstActive(v) <= l
<1>1. Actives(v) \in SUBSET Nat
  BY DEF Actives
<1>2. CASE Actives(v) = {}
  BY <1>2 DEF FirstActive
<1>3. CASE Actives(v) # {}
  <2>1. \E k \in Actives(v) : \A l \in Actives(v) : k <= l
    BY <1>1, <1>3, LeastExists
  <2>2. FirstActive(v) = CHOOSE k \in Actives(v) : \A l \in Actives(v) : k <= l
    BY <1>3 DEF FirstActive
  <2>3. QED BY <1>1, <1>3, <2>1, <2>2
<1>4. QED BY <1>2, <1>3

-----------------------------------------------------------------------------
(* The moves of a job. *)

\* No job but j of r moves, and that one becomes a job at pc.
Moves(r, j, pc) ==
    /\ job' \in JobTable
    /\ \A q \in KeyReplicas, i \in Jobs : q # r \/ i # j => job'[q][i] = job[q][i]
    /\ job'[r][j].pc = pc

LEMMA SetJob ==
    ASSUME job \in JobTable, NEW r \in KeyReplicas, NEW j \in Jobs, NEW o \in Job,
           job' = [job EXCEPT ![r][j] = o]
    PROVE  Moves(r, j, o.pc) /\ job'[r][j] = o
  BY DEF Moves, JobTable

LEMMA GotoIs ==
    ASSUME job \in JobTable, NEW r \in KeyReplicas, NEW j \in Jobs, NEW pc \in Pcs,
           Goto(r, j, pc)
    PROVE  Moves(r, j, pc)
<1>1. job[r][j] \in Job
  BY DEF JobTable
<1>2. [job[r][j] EXCEPT !.pc = pc] \in Job /\ [job[r][j] EXCEPT !.pc = pc].pc = pc
  BY <1>1 DEF Job
<1>3. job' = [job EXCEPT ![r][j] = [job[r][j] EXCEPT !.pc = pc]]
  BY DEF Goto, JobTable
<1>4. QED BY <1>2, <1>3, SetJob

LEMMA IdleJob == NoJob \in Job /\ NoJob.pc = "idle"
<1>1. <<>> \in Seq(Status)
  OBVIOUS
<1>2. QED BY <1>1 DEF NoJob, Job, Pcs

LEMMA DoneIs ==
    ASSUME job \in JobTable, NEW r \in KeyReplicas, NEW j \in Jobs, Done(r, j)
    PROVE  Moves(r, j, "idle")
  BY SetJob, IdleJob DEF Done

\* Between two tables of jobs only one job differs.
Changes(J, K, r, j) ==
    /\ K \in JobTable
    /\ \A q \in KeyReplicas, i \in Jobs : q # r \/ i # j => K[q][i] = J[q][i]

LEMMA ChangesCompose ==
    ASSUME NEW J, NEW K, NEW L, NEW r \in KeyReplicas, NEW j \in Jobs,
           Changes(J, K, r, j), Changes(K, L, r, j)
    PROVE  Changes(J, L, r, j)
  BY DEF Changes

LEMMA ChangesMove ==
    ASSUME NEW r \in KeyReplicas, NEW j \in Jobs, NEW pc,
           Changes(job, job', r, j), job'[r][j].pc = pc
    PROVE  Moves(r, j, pc)
  BY DEF Changes, Moves

\* A query answers with the table as it is.
LEMMA QueryIs ==
    ASSUME KeysTyped, NEW r \in KeyReplicas, NEW j \in Jobs, NEW from \in Pcs, NEW to \in Pcs,
           Query(r, j, from, to)
    PROVE  Moves(r, j, to) /\ job'[r][j].seen = keyRows /\ JobAt(r, j, from)
<1>1. job \in JobTable /\ j \in Jobs /\ to \in Pcs
  BY DEF KeysTyped, Jobs, Pcs
<1>2. PICK J : J = [job EXCEPT ![r][j].pc = to]
  OBVIOUS
<1>3. Changes(job, J, r, j) /\ J[r][j].pc = to
  <2>1. job[r] \in [Jobs -> Job] /\ job[r][j] \in Job
    BY <1>1 DEF JobTable
  <2>2. QED BY <1>1, <1>2, <2>1 DEF Changes, JobTable, Job
<1>4. job' = [J EXCEPT ![r][j].seen = keyRows]
  BY <1>2 DEF Query
<1>5. keyRows \in Seq(Status)
  BY DEF KeysTyped
<1>6. Changes(J, job', r, j) /\ job'[r][j].pc = to /\ job'[r][j].seen = keyRows
  <2>1. J \in JobTable /\ J[r] \in [Jobs -> Job] /\ J[r][j] \in Job
    BY <1>1, <1>3 DEF Changes, JobTable
  <2>2. QED BY <1>1, <1>3, <1>4, <1>5, <2>1 DEF Changes, JobTable, Job
<1>7. JobAt(r, j, from)
  BY DEF Query
<1>8. QED BY <1>3, <1>6, <1>7 DEF Changes, Moves

\* A boot that publishes forgets what it read.
LEMMA BootPublishIs ==
    ASSUME KeysTyped, NEW r \in KeyReplicas, BootPublish(r)
    PROVE  Moves(r, "boot", "drain")
<1>1. job \in JobTable /\ "boot" \in Jobs /\ "drain" \in Pcs
  BY DEF KeysTyped, Jobs, Pcs
<1>2. PICK J : J = [job EXCEPT ![r]["boot"].pc = "drain"]
  OBVIOUS
<1>3. Changes(job, J, r, "boot") /\ J[r]["boot"].pc = "drain"
  <2>1. job[r] \in [Jobs -> Job] /\ job[r]["boot"] \in Job
    BY <1>1 DEF JobTable
  <2>2. QED BY <1>1, <1>2, <2>1 DEF Changes, JobTable, Job
<1>4. job' = [J EXCEPT ![r]["boot"].seen = <<>>]
  BY <1>2 DEF BootPublish
<1>5. <<>> \in Seq(Status)
  BY DEF Status
<1>6. Changes(J, job', r, "boot") /\ job'[r]["boot"].pc = "drain" /\ job'[r]["boot"].seen = <<>>
  <2>1. J \in JobTable /\ J[r] \in [Jobs -> Job] /\ J[r]["boot"] \in Job
    BY <1>1, <1>3 DEF Changes, JobTable
  <2>2. QED BY <1>1, <1>3, <1>4, <1>5, <2>1 DEF Changes, JobTable, Job
<1>7. QED BY <1>3, <1>6 DEF Changes, Moves

\* A request signs with the active key of the copy.
LEMMA SignStartIs ==
    ASSUME KeysTyped, NEW r \in KeyReplicas, SignStart(r)
    PROVE  Moves(r, "sign", "sign")
<1>1. job \in JobTable /\ "sign" \in Jobs /\ "sign" \in Pcs
  BY DEF KeysTyped, Jobs, Pcs
<1>2. PICK J : J = [job EXCEPT ![r]["sign"].pc = "sign"]
  OBVIOUS
<1>3. Changes(job, J, r, "sign") /\ J[r]["sign"].pc = "sign"
  <2>1. job[r] \in [Jobs -> Job] /\ job[r]["sign"] \in Job
    BY <1>1 DEF JobTable
  <2>2. QED BY <1>1, <1>2, <2>1 DEF Changes, JobTable, Job
<1>4. job' = [J EXCEPT ![r]["sign"].kid = FirstActive(view[r])]
  BY <1>2 DEF SignStart
<1>5. FirstActive(view[r]) \in Nat
  BY FirstActiveIs DEF KeysTyped
<1>6. Changes(J, job', r, "sign") /\ job'[r]["sign"].pc = "sign"
  <2>1. J \in JobTable /\ J[r] \in [Jobs -> Job] /\ J[r]["sign"] \in Job
    BY <1>1, <1>3 DEF Changes, JobTable
  <2>2. QED BY <1>1, <1>3, <1>4, <1>5, <2>1 DEF Changes, JobTable, Job
<1>7. QED BY <1>3, <1>6 DEF Changes, Moves

\* A probe signs with the active key of the copy.
LEMMA ProbePublishIs ==
    ASSUME KeysTyped, NEW r \in KeyReplicas, ProbePublish(r)
    PROVE  Moves(r, "probe", "sign")
<1>1. job \in JobTable /\ "probe" \in Jobs /\ "sign" \in Pcs
  BY DEF KeysTyped, Jobs, Pcs
<1>2. PICK J : J = [job EXCEPT ![r]["probe"].pc = "sign"]
  OBVIOUS
<1>3. Changes(job, J, r, "probe") /\ J[r]["probe"].pc = "sign"
  <2>1. job[r] \in [Jobs -> Job] /\ job[r]["probe"] \in Job
    BY <1>1 DEF JobTable
  <2>2. QED BY <1>1, <1>2, <2>1 DEF Changes, JobTable, Job
<1>4. job' = [J EXCEPT ![r]["probe"].kid = FirstActive(view[r])]
  BY <1>2 DEF ProbePublish
<1>5. FirstActive(view[r]) \in Nat
  BY FirstActiveIs DEF KeysTyped
<1>6. Changes(J, job', r, "probe") /\ job'[r]["probe"].pc = "sign"
  <2>1. J \in JobTable /\ J[r] \in [Jobs -> Job] /\ J[r]["probe"] \in Job
    BY <1>1, <1>3 DEF Changes, JobTable
  <2>2. QED BY <1>1, <1>3, <1>4, <1>5, <2>1 DEF Changes, JobTable, Job
<1>7. QED BY <1>3, <1>6 DEF Changes, Moves

\* A summary takes the tallies as they are.
LEMMA FlushBeginIs ==
    ASSUME KeysTyped, NEW r \in KeyReplicas, NEW j \in Jobs, FlushBegin(r, j)
    PROVE  Moves(r, j, "append") /\ job'[r][j].sum = usage[r] /\ job'[r][j].due = owed[r]
<1>1. job \in JobTable /\ "append" \in Pcs /\ usage[r] \in Tallies /\ owed[r] \in Tallies
  BY DEF KeysTyped, Pcs
<1>2. PICK J, L : /\ J = [job EXCEPT ![r][j].pc = "append"]
                  /\ L = [J EXCEPT ![r][j].sum = usage[r]]
  OBVIOUS
<1>3. job' = [L EXCEPT ![r][j].due = owed[r]]
  BY <1>2 DEF FlushBegin
<1>4. Changes(job, J, r, j) /\ J[r][j].pc = "append"
  <2>1. job[r] \in [Jobs -> Job] /\ job[r][j] \in Job
    BY <1>1 DEF JobTable
  <2>2. QED BY <1>1, <1>2, <2>1 DEF Changes, JobTable, Job
<1>5. Changes(J, L, r, j) /\ L[r][j].pc = "append" /\ L[r][j].sum = usage[r]
  <2>1. J \in JobTable /\ J[r] \in [Jobs -> Job] /\ J[r][j] \in Job
    BY <1>1, <1>4 DEF Changes, JobTable
  <2>2. QED BY <1>1, <1>2, <1>4, <2>1 DEF Changes, JobTable, Job
<1>6. /\ Changes(L, job', r, j) /\ job'[r][j].pc = "append" /\ job'[r][j].sum = usage[r]
      /\ job'[r][j].due = owed[r]
  <2>1. L \in JobTable /\ L[r] \in [Jobs -> Job] /\ L[r][j] \in Job
    BY <1>1, <1>5 DEF Changes, JobTable
  <2>2. QED BY <1>1, <1>3, <1>5, <2>1 DEF Changes, JobTable, Job
<1>7. Changes(job, L, r, j)
  BY <1>1, <1>4, <1>5, ChangesCompose
<1>8. Changes(job, job', r, j)
  BY <1>1, <1>6, <1>7, ChangesCompose
<1>9. QED BY <1>1, <1>6, <1>8, ChangesMove

-----------------------------------------------------------------------------
(* Steps that move one job and leave the tallies alone. *)

Calm(r, j) ==
    /\ keyRows' \in Seq(Status)
    /\ UNCHANGED <<usage, owed, overlap>>
    /\ view' \in [KeyReplicas -> Seq(Status)]
    /\ \E pc \in Pcs \ {"append"} : Moves(r, j, pc)

LEMMA CalmTyped ==
    ASSUME KeysTyped, NEW r \in KeyReplicas, NEW j \in Jobs, Calm(r, j)
    PROVE  KeysTyped'
<1>1. PICK pc \in Pcs \ {"append"} : Moves(r, j, pc)
  BY DEF Calm
<1>2. \A q \in KeyReplicas, i \in Jobs : JobAt(q, i, "append")' => job'[q][i] = job[q][i] /\ JobAt(q, i, "append")
  BY <1>1 DEF Moves, JobAt
<1>3. QED BY <1>1, <1>2 DEF KeysTyped, Calm, Moves

LEMMA CalmUsage ==
    ASSUME KeysTyped, UsageInv, NEW r \in KeyReplicas, NEW j \in Jobs, Calm(r, j)
    PROVE  UsageInv'
<1>1. UNCHANGED <<usage, owed, overlap>>
  BY DEF Calm
<1>2. \A q \in KeyReplicas, i \in Jobs : JobAt(q, i, "append")' => job'[q][i] = job[q][i] /\ JobAt(q, i, "append")
  <2>1. PICK pc \in Pcs \ {"append"} : Moves(r, j, pc)
    BY DEF Calm
  <2>2. QED BY <2>1 DEF Moves, JobAt
<1>3. ASSUME NEW q \in KeyReplicas, ~overlap'[q]
      PROVE  Accounted(q)' /\ SumInv(q)'
  <2>1. Accounted(q) /\ SumInv(q)
    BY <1>1, <1>3 DEF UsageInv
  <2>2. QED BY <1>1, <1>2, <2>1 DEF Accounted, SumInv, Leaves
<1>4. QED BY <1>3 DEF UsageInv

LEMMA ActivesFinite ==
    ASSUME NEW v \in Seq(Status)
    PROVE  IsFiniteSet(Actives(v)) /\ Cardinality(Actives(v)) \in Nat
<1>1. Len(v) \in Nat /\ DOMAIN v = 1 .. Len(v)
  OBVIOUS
<1>2. IsFiniteSet(1 .. Len(v))
  BY <1>1, FS_Interval
<1>3. Actives(v) \in SUBSET (1 .. Len(v))
  BY <1>1 DEF Actives
<1>4. IsFiniteSet(Actives(v))
  BY <1>2, <1>3, FS_Subset
<1>5. QED BY <1>4, FS_CardinalityType

LEMMA GeneratorsFinite ==
    /\ IsFiniteSet(Generators) /\ Cardinality(Generators) \in Nat
    /\ Cardinality(Generators) <= Cardinality(KeyReplicas)
    /\ Cardinality(KeyReplicas) \in Nat /\ Cardinality(KeyReplicas) >= 1
<1>1. Generators \in SUBSET KeyReplicas
  BY DEF Generators
<1>2. IsFiniteSet(KeyReplicas) /\ KeyReplicas # {}
  BY ReplicasAssumption
<1>3. /\ IsFiniteSet(Generators)
      /\ Cardinality(Generators) <= Cardinality(KeyReplicas)
  BY <1>1, <1>2, FS_Subset
<1>4. Cardinality(Generators) \in Nat /\ Cardinality(KeyReplicas) \in Nat
  BY <1>2, <1>3, FS_CardinalityType
<1>5. Cardinality(KeyReplicas) # 0
  BY <1>2, FS_EmptySet
<1>6. QED BY <1>3, <1>4, <1>5

\* The count is kept when nobody joins the boots that may generate, or while
\* the table is empty.
LEMMA CountKept ==
    ASSUME KeysTyped, KeysTyped', KeyInv, keyRows' = keyRows,
           Generators' \subseteq Generators \/ keyRows = <<>>
    PROVE  Cardinality(Actives(keyRows))' + Cardinality(Generators') <= Cardinality(KeyReplicas)
<1>1. /\ Cardinality(Generators) \in Nat
      /\ Cardinality(KeyReplicas) \in Nat
      /\ IsFiniteSet(Generators)
  BY GeneratorsFinite
<1>2. /\ Cardinality(Generators') \in Nat
      /\ Cardinality(Generators') <= Cardinality(KeyReplicas)
  <2>1. Generators' \in SUBSET KeyReplicas
    BY DEF Generators
  <2>2. IsFiniteSet(Generators') /\ Cardinality(Generators') <= Cardinality(KeyReplicas)
    BY <2>1, ReplicasAssumption, FS_Subset
  <2>3. QED BY <2>2, FS_CardinalityType
<1>3. Cardinality(Actives(keyRows)) \in Nat
  BY ActivesFinite DEF KeysTyped
<1>4. CASE Generators' \subseteq Generators
  <2>1. Cardinality(Generators') <= Cardinality(Generators)
    BY <1>1, <1>4, FS_Subset
  <2>2. Cardinality(Actives(keyRows)) + Cardinality(Generators) <= Cardinality(KeyReplicas)
    BY DEF KeyInv
  <2>3. Actives(keyRows)' = Actives(keyRows)
    BY DEF Actives
  <2>4. QED BY <1>1, <1>2, <1>3, <2>1, <2>2, <2>3
<1>5. CASE keyRows = <<>>
  <2>1. Actives(keyRows)' = {}
    BY <1>5 DEF Actives
  <2>2. Cardinality(Actives(keyRows)') = 0
    BY <2>1, FS_EmptySet
  <2>3. QED BY <1>1, <1>2, <2>2
<1>6. QED BY <1>4, <1>5

\* A step of a job other than boot; a rotation has a key to retire.
LEMMA JobKeys ==
    ASSUME KeysTyped, KeysTyped', KeyInv, keyRows' = keyRows,
           NEW r \in KeyReplicas, NEW j \in Jobs \ {"boot"}, NEW pc \in Pcs, Moves(r, j, pc),
           j = "rotate" /\ pc # "idle" => keyRows # <<>>
    PROVE  KeyInv'
<1>1. "boot" \in Jobs /\ "rotate" \in Jobs
  BY DEF Jobs
<1>2. \A q \in KeyReplicas : job'[q]["boot"] = job[q]["boot"]
  BY <1>1 DEF Moves
<1>3. Generators' \subseteq Generators
  BY <1>2 DEF Generators, MayGenerate, JobAt
<1>4. \A q \in KeyReplicas : ~JobAt(q, "rotate", "idle")' => keyRows # <<>>
  <2>1. SUFFICES ASSUME NEW q \in KeyReplicas, ~JobAt(q, "rotate", "idle")'
                 PROVE  keyRows # <<>>
    OBVIOUS
  <2>2. CASE q # r \/ j # "rotate"
    BY <1>1, <2>1, <2>2 DEF Moves, JobAt, KeyInv
  <2>3. CASE q = r /\ j = "rotate"
    BY <2>1, <2>3 DEF Moves, JobAt
  <2>4. QED BY <2>2, <2>3
<1>5. \A q \in KeyReplicas : FoundKey(q)' => keyRows # <<>>
  BY <1>2 DEF KeyInv, FoundKey, JobAt
<1>6. keyRows # <<>> => Actives(keyRows) # {}
  BY DEF KeyInv
<1>7. Cardinality(Actives(keyRows))' + Cardinality(Generators') <= Cardinality(KeyReplicas)
  BY <1>3, CountKept
<1>8. QED BY <1>4, <1>5, <1>6, <1>7 DEF KeyInv

\* A step of a boot that leaves the table alone.
LEMMA BootKeys ==
    ASSUME KeysTyped, KeysTyped', KeyInv, keyRows' = keyRows,
           NEW r \in KeyReplicas, NEW pc \in Pcs, Moves(r, "boot", pc),
           FoundKey(r)' => keyRows # <<>>,
           MayGenerate(r)' => MayGenerate(r) \/ keyRows = <<>>
    PROVE  KeyInv'
<1>1. "boot" \in Jobs /\ "rotate" \in Jobs
  BY DEF Jobs
<1>2. \A q \in KeyReplicas : q # r => job'[q]["boot"] = job[q]["boot"]
  BY <1>1 DEF Moves
<1>3. Generators' \subseteq Generators \/ keyRows = <<>>
  <2>1. SUFFICES ASSUME keyRows # <<>>, NEW q \in Generators'
                 PROVE  q \in Generators
    OBVIOUS
  <2>2. q \in KeyReplicas /\ MayGenerate(q)'
    BY <2>1 DEF Generators
  <2>3. MayGenerate(q)
    <3>1. CASE q = r
      BY <2>1, <2>2, <3>1
    <3>2. CASE q # r
      BY <1>2, <2>2, <3>2 DEF MayGenerate, JobAt
    <3>3. QED BY <3>1, <3>2
  <2>4. QED BY <2>2, <2>3 DEF Generators
<1>4. \A q \in KeyReplicas : ~JobAt(q, "rotate", "idle")' => keyRows # <<>>
  BY <1>1 DEF Moves, JobAt, KeyInv
<1>5. \A q \in KeyReplicas : FoundKey(q)' => keyRows # <<>>
  <2>1. SUFFICES ASSUME NEW q \in KeyReplicas, q # r, FoundKey(q)'
                 PROVE  keyRows # <<>>
    OBVIOUS
  <2>2. FoundKey(q)
    BY <1>2, <2>1 DEF FoundKey, JobAt
  <2>3. QED BY <2>2 DEF KeyInv
<1>6. keyRows # <<>> => Actives(keyRows) # {}
  BY DEF KeyInv
<1>7. Cardinality(Actives(keyRows))' + Cardinality(Generators') <= Cardinality(KeyReplicas)
  BY <1>3, CountKept
<1>8. QED BY <1>4, <1>5, <1>6, <1>7 DEF KeyInv

LEMMA CalmStep ==
    ASSUME IInv, UNCHANGED <<keyRows, usage, owed, overlap>>,
           view' \in [KeyReplicas -> Seq(Status)],
           NEW r \in KeyReplicas, NEW j \in Jobs \ {"boot"}, NEW pc \in Pcs \ {"append"},
           Moves(r, j, pc),
           j = "rotate" /\ pc # "idle" => keyRows # <<>>
    PROVE  IInv'
<1>1. Calm(r, j)
  BY DEF Calm, IInv, KeysTyped
<1>2. KeysTyped' /\ UsageInv'
  BY <1>1, CalmTyped, CalmUsage DEF IInv
<1>3. KeyInv'
  BY <1>2, JobKeys DEF IInv
<1>4. QED BY <1>2, <1>3 DEF IInv

LEMMA CalmBoot ==
    ASSUME IInv, UNCHANGED <<keyRows, usage, owed, overlap>>,
           view' \in [KeyReplicas -> Seq(Status)],
           NEW r \in KeyReplicas, NEW pc \in Pcs \ {"append"}, Moves(r, "boot", pc),
           FoundKey(r)' => keyRows # <<>>,
           MayGenerate(r)' => MayGenerate(r) \/ keyRows = <<>>
    PROVE  IInv'
<1>1. Calm(r, "boot") /\ "boot" \in Jobs
  BY DEF Calm, Jobs, IInv, KeysTyped
<1>2. KeysTyped' /\ UsageInv'
  BY <1>1, CalmTyped, CalmUsage DEF IInv
<1>3. KeyInv'
  BY <1>2, BootKeys DEF IInv
<1>4. QED BY <1>2, <1>3 DEF IInv

\* Steps that move no job.
LEMMA StillStep ==
    ASSUME IInv, UNCHANGED <<keyRows, usage, owed, overlap, view, job>>
    PROVE  IInv'
<1>1. KeysTyped'
  BY DEF IInv, KeysTyped, JobAt
<1>2. \A r \in KeyReplicas : FoundKey(r)' = FoundKey(r) /\ MayGenerate(r)' = MayGenerate(r)
  BY DEF FoundKey, MayGenerate, JobAt
<1>3. Generators' = Generators
  BY <1>2 DEF Generators
<1>4. Actives(keyRows)' = Actives(keyRows)
  BY DEF Actives
<1>5. KeyInv'
  BY <1>3, <1>4 DEF IInv, KeyInv, FoundKey, JobAt
<1>6. UsageInv'
  BY DEF IInv, UsageInv, Accounted, SumInv, JobAt
<1>7. QED BY <1>1, <1>5, <1>6 DEF IInv

-----------------------------------------------------------------------------
(* Boot. *)

LEMMA LoadTyped ==
    ASSUME KeysTyped, NEW r \in KeyReplicas, NEW j \in Jobs, Load(r, j)
    PROVE  view' \in [KeyReplicas -> Seq(Status)]
<1>1. job[r][j].seen \in Seq(Status)
  BY DEF KeysTyped, JobTable, Job
<1>2. QED BY <1>1 DEF Load, KeysTyped

LEMMA BootStartStep ==
    ASSUME IInv, NEW r \in KeyReplicas, BootStart(r)
    PROVE  IInv'
<1>1. UNCHANGED <<keyRows, usage, owed, overlap, view>> /\ Goto(r, "boot", "read")
  BY DEF BootStart, tallies
<1>2. "boot" \in Jobs /\ "read" \in Pcs \ {"append"}
  BY DEF Jobs, Pcs
<1>3. Moves(r, "boot", "read")
  BY <1>1, <1>2, GotoIs DEF IInv, KeysTyped
<1>4. ~FoundKey(r)' /\ ~MayGenerate(r)'
  BY <1>3 DEF Moves, FoundKey, MayGenerate, JobAt
<1>5. QED BY <1>1, <1>2, <1>3, <1>4, CalmBoot DEF IInv, KeysTyped

LEMMA BootReadStep ==
    ASSUME IInv, NEW r \in KeyReplicas, BootRead(r)
    PROVE  IInv'
<1>1. UNCHANGED <<keyRows, usage, owed, overlap, view>>
  BY DEF BootRead, tallies
<1>2. "boot" \in Jobs /\ {"read", "load", "reread", "reload"} \subseteq Pcs \ {"append"}
  BY DEF Jobs, Pcs
<1>3. KeysTyped /\ KeyInv /\ view' \in [KeyReplicas -> Seq(Status)]
  BY <1>1 DEF IInv, KeysTyped
<1>4. keyRows = <<>> <=> Actives(keyRows) = {}
  BY <1>3 DEF KeyInv, Actives
<1>5. CASE Query(r, "boot", "read", "load")
  <2>1. Moves(r, "boot", "load") /\ job'[r]["boot"].seen = keyRows
    BY <1>2, <1>3, <1>5, QueryIs
  <2>2. FoundKey(r)' => Actives(keyRows) # {}
    BY <2>1 DEF Moves, FoundKey, JobAt
  <2>3. MayGenerate(r)' => Actives(keyRows) = {}
    BY <2>1 DEF Moves, MayGenerate, JobAt
  <2>4. QED BY <1>1, <1>2, <1>3, <1>4, <2>1, <2>2, <2>3, CalmBoot
<1>6. CASE Query(r, "boot", "reread", "reload")
  <2>1. Moves(r, "boot", "reload") /\ JobAt(r, "boot", "reread")
    BY <1>2, <1>3, <1>6, QueryIs
  <2>2. ~MayGenerate(r)'
    BY <2>1 DEF Moves, MayGenerate, JobAt
  <2>3. keyRows # <<>>
    BY <1>3, <2>1 DEF KeyInv, FoundKey, JobAt
  <2>4. QED BY <1>1, <1>2, <1>3, <2>1, <2>2, <2>3, CalmBoot
<1>7. QED BY <1>5, <1>6 DEF BootRead

LEMMA BootLoadStep ==
    ASSUME IInv, NEW r \in KeyReplicas, BootLoad(r)
    PROVE  IInv'
<1>1. UNCHANGED <<keyRows, usage, owed, overlap>> /\ Load(r, "boot")
  BY DEF BootLoad, tallies
<1>2. "boot" \in Jobs /\ {"publish", "generate", "failed"} \subseteq Pcs \ {"append"}
  BY DEF Jobs, Pcs
<1>3. KeysTyped /\ KeyInv /\ view' \in [KeyReplicas -> Seq(Status)] /\ job \in JobTable
  BY <1>1, <1>2, LoadTyped DEF IInv, KeysTyped
<1>4. CASE ((JobAt(r, "boot", "load") /\ Actives(job[r]["boot"].seen) # {}) \/ JobAt(r, "boot", "reload"))
           /\ Goto(r, "boot", "publish")
  <2>1. Moves(r, "boot", "publish")
    BY <1>2, <1>3, <1>4, GotoIs
  <2>2. ~MayGenerate(r)'
    BY <2>1 DEF Moves, MayGenerate, JobAt
  <2>3. keyRows # <<>>
    BY <1>3, <1>4 DEF KeyInv, FoundKey, JobAt
  <2>4. QED BY <1>1, <1>2, <1>3, <2>1, <2>2, <2>3, CalmBoot
<1>5. CASE JobAt(r, "boot", "load") /\ Actives(job[r]["boot"].seen) = {} /\ Goto(r, "boot", "generate")
  <2>1. Moves(r, "boot", "generate")
    BY <1>2, <1>3, <1>5, GotoIs
  <2>2. ~FoundKey(r)' /\ MayGenerate(r)
    BY <1>5, <2>1 DEF Moves, MayGenerate, FoundKey, JobAt
  <2>3. QED BY <1>1, <1>2, <1>3, <2>1, <2>2, CalmBoot
<1>6. CASE Goto(r, "boot", "failed")
  <2>1. Moves(r, "boot", "failed")
    BY <1>2, <1>3, <1>6, GotoIs
  <2>2. ~FoundKey(r)' /\ ~MayGenerate(r)'
    BY <2>1 DEF Moves, MayGenerate, FoundKey, JobAt
  <2>3. QED BY <1>1, <1>2, <1>3, <2>1, <2>2, CalmBoot
<1>7. QED BY <1>4, <1>5, <1>6 DEF BootLoad

LEMMA BootUnreachableStep ==
    ASSUME IInv, NEW r \in KeyReplicas, BootUnreachable(r)
    PROVE  IInv'
<1>1. UNCHANGED <<keyRows, usage, owed, overlap, view>> /\ Goto(r, "boot", "failed")
  BY DEF BootUnreachable, tallies
<1>2. "boot" \in Jobs /\ "failed" \in Pcs \ {"append"}
  BY DEF Jobs, Pcs
<1>3. Moves(r, "boot", "failed")
  BY <1>1, <1>2, GotoIs DEF IInv, KeysTyped
<1>4. ~FoundKey(r)' /\ ~MayGenerate(r)'
  BY <1>3 DEF Moves, FoundKey, MayGenerate, JobAt
<1>5. QED BY <1>1, <1>2, <1>3, <1>4, CalmBoot DEF IInv, KeysTyped

LEMMA BootPublishStep ==
    ASSUME IInv, NEW r \in KeyReplicas, BootPublish(r)
    PROVE  IInv'
<1>1. UNCHANGED <<keyRows, usage, owed, overlap, view>> /\ JobAt(r, "boot", "publish")
  BY DEF BootPublish, tallies
<1>2. "boot" \in Jobs /\ "drain" \in Pcs \ {"append"}
  BY DEF Jobs, Pcs
<1>3. Moves(r, "boot", "drain")
  BY BootPublishIs DEF IInv
<1>4. ~MayGenerate(r)' /\ keyRows # <<>>
  BY <1>1, <1>3 DEF Moves, FoundKey, MayGenerate, JobAt, IInv, KeyInv
<1>5. QED BY <1>1, <1>2, <1>3, <1>4, CalmBoot DEF IInv, KeysTyped

LEMMA BootDrainStep ==
    ASSUME IInv, NEW r \in KeyReplicas, BootDrain(r)
    PROVE  IInv'
<1>1. UNCHANGED <<keyRows, usage, owed, overlap, view>> /\ JobAt(r, "boot", "drain")
  BY DEF BootDrain, tallies
<1>2. "boot" \in Jobs /\ {"up", "failed"} \subseteq Pcs \ {"append"}
  BY DEF Jobs, Pcs
<1>3. Goto(r, "boot", "up") \/ Goto(r, "boot", "failed") \/ UNCHANGED job
  BY DEF BootDrain, Drain
<1>4. KeysTyped /\ KeyInv /\ view' \in [KeyReplicas -> Seq(Status)] /\ job \in JobTable
  BY <1>1 DEF IInv, KeysTyped
<1>5. ASSUME NEW pc \in {"up", "failed"}, Goto(r, "boot", pc)
      PROVE  IInv'
  <2>1. pc \in Pcs \ {"append"} /\ Moves(r, "boot", pc)
    BY <1>2, <1>4, <1>5, GotoIs
  <2>2. ~MayGenerate(r)' /\ keyRows # <<>>
    BY <1>1, <1>4, <2>1 DEF Moves, FoundKey, MayGenerate, JobAt, KeyInv
  <2>3. QED BY <1>1, <1>2, <1>4, <2>1, <2>2, CalmBoot
<1>6. CASE UNCHANGED job
  BY <1>1, <1>6, StillStep
<1>7. QED BY <1>3, <1>5, <1>6

\* One more active key, one boot fewer that may add another.
LEMMA GenerateStep ==
    ASSUME IInv, NEW r \in KeyReplicas, generateActiveKey(r)
    PROVE  IInv'
<1>1. /\ JobAt(r, "boot", "generate") /\ Goto(r, "boot", "reread")
      /\ keyRows' = Append(keyRows, "active") /\ UNCHANGED <<usage, owed, overlap, view>>
  BY DEF generateActiveKey, tallies
<1>2. "boot" \in Jobs /\ "reread" \in Pcs \ {"append"} /\ "rotate" \in Jobs
  BY DEF Jobs, Pcs
<1>3. KeysTyped /\ KeyInv /\ UsageInv /\ job \in JobTable /\ keyRows \in Seq(Status)
  BY DEF IInv, KeysTyped
<1>4. Moves(r, "boot", "reread")
  BY <1>1, <1>2, <1>3, GotoIs
<1>5. keyRows' \in Seq(Status) /\ keyRows' # <<>> /\ Len(keyRows) \in Nat
  BY <1>1, <1>3 DEF Status
<1>6. Calm(r, "boot")
  BY <1>1, <1>2, <1>3, <1>4, <1>5 DEF Calm, KeysTyped
<1>7. KeysTyped' /\ UsageInv'
  BY <1>2, <1>3, <1>6, CalmTyped, CalmUsage
<1>8. Actives(keyRows)' = Actives(keyRows) \cup {Len(keyRows) + 1} /\ Len(keyRows) + 1 \notin Actives(keyRows)
  <2>1. DOMAIN keyRows' = 1 .. Len(keyRows) + 1 /\ DOMAIN keyRows = 1 .. Len(keyRows)
    BY <1>1, <1>3
  <2>2. /\ \A k \in DOMAIN keyRows : keyRows'[k] = keyRows[k]
        /\ keyRows'[Len(keyRows) + 1] = "active"
    BY <1>1, <1>3
  <2>3. QED BY <1>5, <2>1, <2>2 DEF Actives
<1>9. Cardinality(Actives(keyRows)') = Cardinality(Actives(keyRows)) + 1
  <2>1. IsFiniteSet(Actives(keyRows))
    BY <1>3, ActivesFinite
  <2>2. QED BY <1>8, <2>1, FS_AddElement
<1>10. Generators' = Generators \ {r} /\ r \in Generators
  <2>1. ~MayGenerate(r)' /\ MayGenerate(r)
    BY <1>1, <1>4 DEF Moves, MayGenerate, JobAt
  <2>2. \A q \in KeyReplicas : q # r => MayGenerate(q)' = MayGenerate(q)
    BY <1>2, <1>4 DEF Moves, MayGenerate, JobAt
  <2>3. QED BY <2>1, <2>2 DEF Generators
<1>11. Cardinality(Generators') = Cardinality(Generators) - 1
  BY <1>10, GeneratorsFinite, FS_RemoveElement
<1>12. Cardinality(Actives(keyRows)') + Cardinality(Generators') <= Cardinality(KeyReplicas)
  <2>1. /\ Cardinality(Actives(keyRows)) \in Nat /\ Cardinality(Generators) \in Nat
        /\ Cardinality(KeyReplicas) \in Nat
    BY <1>3, ActivesFinite, GeneratorsFinite
  <2>2. Cardinality(Actives(keyRows)) + Cardinality(Generators) <= Cardinality(KeyReplicas)
    BY <1>3 DEF KeyInv
  <2>3. QED BY <1>9, <1>11, <2>1, <2>2
<1>13. KeyInv'
  BY <1>5, <1>8, <1>12 DEF KeyInv
<1>14. QED BY <1>7, <1>13 DEF IInv

-----------------------------------------------------------------------------
(* Signing and probing, without the tallies. *)

LEMMA SignStartStep ==
    ASSUME IInv, NEW r \in KeyReplicas, SignStart(r)
    PROVE  IInv'
<1>1. UNCHANGED <<keyRows, usage, owed, overlap, view>>
  BY DEF SignStart, tallies
<1>2. "sign" \in Jobs \ {"boot"} /\ "sign" \in Pcs \ {"append"} /\ "sign" # "rotate"
  BY DEF Jobs, Pcs
<1>3. Moves(r, "sign", "sign")
  BY SignStartIs DEF IInv
<1>4. QED BY <1>1, <1>2, <1>3, CalmStep DEF IInv, KeysTyped

LEMMA ProbeStartStep ==
    ASSUME IInv, NEW r \in KeyReplicas, ProbeStart(r)
    PROVE  IInv'
<1>1. UNCHANGED <<keyRows, usage, owed, overlap, view>> /\ Goto(r, "probe", "read")
  BY DEF ProbeStart, tallies
<1>2. "probe" \in Jobs \ {"boot"} /\ "read" \in Pcs \ {"append"} /\ "probe" # "rotate"
  BY DEF Jobs, Pcs
<1>3. Moves(r, "probe", "read")
  BY <1>1, <1>2, GotoIs DEF IInv, KeysTyped
<1>4. QED BY <1>1, <1>2, <1>3, CalmStep DEF IInv, KeysTyped

LEMMA ProbeQueryStep ==
    ASSUME IInv, NEW r \in KeyReplicas, ProbeQuery(r)
    PROVE  IInv'
<1>1. UNCHANGED <<keyRows, usage, owed, overlap, view>> /\ Query(r, "probe", "read", "load")
  BY DEF ProbeQuery, tallies
<1>2. /\ "probe" \in Jobs \ {"boot"} /\ "probe" # "rotate"
      /\ "read" \in Pcs /\ "load" \in Pcs \ {"append"}
  BY DEF Jobs, Pcs
<1>3. Moves(r, "probe", "load")
  BY <1>1, <1>2, QueryIs DEF IInv
<1>4. QED BY <1>1, <1>2, <1>3, CalmStep DEF IInv, KeysTyped

LEMMA ProbeUnreachableStep ==
    ASSUME IInv, NEW r \in KeyReplicas, ProbeUnreachable(r)
    PROVE  IInv'
<1>1. UNCHANGED <<keyRows, usage, owed, overlap, view>> /\ Done(r, "probe")
  BY DEF ProbeUnreachable, tallies
<1>2. "probe" \in Jobs \ {"boot"} /\ "idle" \in Pcs \ {"append"} /\ "probe" # "rotate"
  BY DEF Jobs, Pcs
<1>3. Moves(r, "probe", "idle")
  BY <1>1, <1>2, DoneIs DEF IInv, KeysTyped
<1>4. QED BY <1>1, <1>2, <1>3, CalmStep DEF IInv, KeysTyped

LEMMA ProbeLoadStep ==
    ASSUME IInv, NEW r \in KeyReplicas, ProbeLoad(r)
    PROVE  IInv'
<1>1. /\ UNCHANGED <<keyRows, usage, owed, overlap>> /\ Load(r, "probe")
      /\ Goto(r, "probe", "publish") \/ Done(r, "probe")
  BY DEF ProbeLoad, tallies
<1>2. "probe" \in Jobs \ {"boot"} /\ {"idle", "publish"} \subseteq Pcs \ {"append"} /\ "probe" # "rotate"
  BY DEF Jobs, Pcs
<1>3. view' \in [KeyReplicas -> Seq(Status)]
  BY <1>1, <1>2, LoadTyped DEF IInv
<1>4. Moves(r, "probe", "publish") \/ Moves(r, "probe", "idle")
  BY <1>1, <1>2, GotoIs, DoneIs DEF IInv, KeysTyped
<1>5. QED BY <1>1, <1>2, <1>3, <1>4, CalmStep

LEMMA ProbePublishStep ==
    ASSUME IInv, NEW r \in KeyReplicas, ProbePublish(r)
    PROVE  IInv'
<1>1. UNCHANGED <<keyRows, usage, owed, overlap, view>>
  BY DEF ProbePublish, tallies
<1>2. "probe" \in Jobs \ {"boot"} /\ "sign" \in Pcs \ {"append"} /\ "probe" # "rotate"
  BY DEF Jobs, Pcs
<1>3. Moves(r, "probe", "sign")
  BY ProbePublishIs DEF IInv
<1>4. QED BY <1>1, <1>2, <1>3, CalmStep DEF IInv, KeysTyped

-----------------------------------------------------------------------------
(* Rotation, without the summary that comes before it. *)

\* Once the transaction has committed, the new key is the only active one.
LEMMA RotatedIs ==
    ASSUME keyRows \in Seq(Status), keyRows' = Rotated
    PROVE  /\ keyRows' \in Seq(Status) /\ keyRows' # <<>>
           /\ Actives(keyRows') = {Len(keyRows) + 1}
<1>1. Len(keyRows) \in Nat /\ DOMAIN keyRows = 1 .. Len(keyRows)
  OBVIOUS
<1>2. PICK old : old = [k \in DOMAIN keyRows |-> "retired"]
  OBVIOUS
<1>3. old \in Seq(Status) /\ Len(old) = Len(keyRows)
  BY <1>1, <1>2 DEF Status
<1>4. keyRows' = Append(old, "active")
  BY <1>2 DEF Rotated
<1>5. /\ keyRows' \in Seq(Status) /\ keyRows' # <<>>
      /\ DOMAIN keyRows' = 1 .. Len(keyRows) + 1 /\ keyRows'[Len(keyRows) + 1] = "active"
      /\ \A k \in 1 .. Len(keyRows) : keyRows'[k] = old[k]
  BY <1>1, <1>3, <1>4 DEF Status
<1>6. \A k \in 1 .. Len(keyRows) : keyRows'[k] = "retired"
  BY <1>1, <1>2, <1>5
<1>7. QED BY <1>1, <1>5, <1>6 DEF Actives

LEMMA RotateCommitIs ==
    ASSUME KeysTyped, NEW r \in KeyReplicas,
           job' = [job EXCEPT ![r]["rotate"].pc = "read", ![r]["rotate"].seen = keyRows,
                              ![r]["rotate"].kid = Len(keyRows) + 1]
    PROVE  \E J, L : /\ J = [job EXCEPT ![r]["rotate"].pc = "read"]
                     /\ L = [J EXCEPT ![r]["rotate"].seen = keyRows]
                     /\ job' = [L EXCEPT ![r]["rotate"].kid = Len(keyRows) + 1]
  OBVIOUS

\* The three updates of the job, one after the other.
LEMMA RotateJobIs ==
    ASSUME KeysTyped, NEW r \in KeyReplicas, NEW J, NEW L,
           J = [job EXCEPT ![r]["rotate"].pc = "read"],
           L = [J EXCEPT ![r]["rotate"].seen = keyRows],
           job' = [L EXCEPT ![r]["rotate"].kid = Len(keyRows) + 1]
    PROVE  Moves(r, "rotate", "read")
<1>1. job \in JobTable /\ keyRows \in Seq(Status) /\ "rotate" \in Jobs /\ "read" \in Pcs
  BY DEF KeysTyped, Jobs, Pcs
<1>2. Changes(job, J, r, "rotate") /\ J[r]["rotate"].pc = "read"
  <2>1. job[r] \in [Jobs -> Job] /\ job[r]["rotate"] \in Job
    BY <1>1 DEF JobTable
  <2>2. QED BY <1>1, <2>1 DEF Changes, JobTable, Job
<1>3. Changes(J, L, r, "rotate") /\ L[r]["rotate"].pc = "read"
  <2>1. J \in JobTable /\ J[r] \in [Jobs -> Job] /\ J[r]["rotate"] \in Job
    BY <1>1, <1>2 DEF Changes, JobTable
  <2>2. QED BY <1>1, <1>2, <2>1 DEF Changes, JobTable, Job
<1>4. Changes(L, job', r, "rotate") /\ job'[r]["rotate"].pc = "read"
  <2>1. L \in JobTable /\ L[r] \in [Jobs -> Job] /\ L[r]["rotate"] \in Job
    BY <1>1, <1>3 DEF Changes, JobTable
  <2>2. Len(keyRows) + 1 \in Nat
    BY <1>1
  <2>3. QED BY <1>1, <1>3, <2>1, <2>2 DEF Changes, JobTable, Job
<1>5. Changes(job, L, r, "rotate")
  BY <1>1, <1>2, <1>3, ChangesCompose
<1>6. Changes(job, job', r, "rotate")
  BY <1>1, <1>4, <1>5, ChangesCompose
<1>7. QED BY <1>1, <1>4, <1>6, ChangesMove

\* Many active keys, or one, become one.
LEMMA RotateCommitStep ==
    ASSUME IInv, NEW r \in KeyReplicas, RotateCommit(r)
    PROVE  IInv'
<1>1. UNCHANGED <<usage, owed, overlap, view>> /\ JobAt(r, "rotate", "commit")
  BY DEF RotateCommit, tallies
<1>2. "rotate" \in Jobs \ {"boot"} /\ {"read", "idle"} \subseteq Pcs \ {"append"} /\ "boot" \in Jobs
  BY DEF Jobs, Pcs
<1>3. KeysTyped /\ KeyInv /\ UsageInv /\ job \in JobTable /\ keyRows \in Seq(Status)
  BY DEF IInv, KeysTyped
<1>4. view' \in [KeyReplicas -> Seq(Status)]
  BY <1>1, <1>3 DEF KeysTyped
<1>5. CASE UNCHANGED keyRows /\ Done(r, "rotate")
  <2>1. Moves(r, "rotate", "idle")
    BY <1>2, <1>3, <1>5, DoneIs
  <2>2. QED BY <1>1, <1>2, <1>4, <1>5, <2>1, CalmStep
<1>6. ASSUME NEW pc \in {"read", "idle"}, keyRows' = Rotated, Moves(r, "rotate", pc) PROVE IInv'
  <2>1. keyRows' \in Seq(Status) /\ keyRows' # <<>> /\ Actives(keyRows') = {Len(keyRows) + 1}
    BY <1>3, <1>6, RotatedIs
  <2>2. Calm(r, "rotate")
    BY <1>1, <1>2, <1>4, <1>6, <2>1 DEF Calm
  <2>3. KeysTyped' /\ UsageInv'
    BY <1>2, <1>3, <2>2, CalmTyped, CalmUsage
  <2>4. Cardinality(Actives(keyRows')) = 1
    BY <2>1, FS_Singleton
  <2>5. Cardinality(Actives(keyRows)) # 0
    <3>1. keyRows # <<>>
      BY <1>1, <1>3 DEF JobAt, KeyInv
    <3>2. Actives(keyRows) # {} /\ IsFiniteSet(Actives(keyRows))
      BY <1>3, <3>1, ActivesFinite DEF KeyInv
    <3>3. QED BY <3>2, FS_EmptySet
  <2>6. Generators' = Generators
    <3>1. \A q \in KeyReplicas : job'[q]["boot"] = job[q]["boot"]
      BY <1>2, <1>6 DEF Moves
    <3>2. QED BY <3>1 DEF Generators, MayGenerate, JobAt
  <2>7. Cardinality(Actives(keyRows')) + Cardinality(Generators') <= Cardinality(KeyReplicas)
    <3>1. /\ Cardinality(Actives(keyRows)) \in Nat /\ Cardinality(Generators) \in Nat
          /\ Cardinality(KeyReplicas) \in Nat
      BY <1>3, ActivesFinite, GeneratorsFinite
    <3>2. Cardinality(Actives(keyRows)) + Cardinality(Generators) <= Cardinality(KeyReplicas)
      BY <1>3 DEF KeyInv
    <3>3. QED BY <2>4, <2>5, <2>6, <3>1, <3>2
  <2>8. KeyInv'
    BY <2>1, <2>7 DEF KeyInv
  <2>9. QED BY <2>3, <2>8 DEF IInv
<1>7. keyRows' = Rotated => Moves(r, "rotate", "read") \/ Moves(r, "rotate", "idle")
  <2>1. \/ Done(r, "rotate")
        \/ job' = [job EXCEPT ![r]["rotate"].pc = "read", ![r]["rotate"].seen = keyRows,
                              ![r]["rotate"].kid = Len(keyRows) + 1]
    BY DEF RotateCommit
  <2>2. QED BY <1>2, <1>3, <2>1, RotateCommitIs, RotateJobIs, DoneIs
<1>8. keyRows' = Rotated \/ (UNCHANGED keyRows /\ Done(r, "rotate"))
  BY DEF RotateCommit
<1>9. QED BY <1>5, <1>6, <1>7, <1>8

\* A rotation that has begun goes on over a table that has a key.
LEMMA RotateGoes ==
    ASSUME IInv, UNCHANGED <<keyRows, usage, owed, overlap>>,
           view' \in [KeyReplicas -> Seq(Status)],
           NEW r \in KeyReplicas, ~JobAt(r, "rotate", "idle"),
           NEW pc \in Pcs \ {"append"}, Moves(r, "rotate", pc)
    PROVE  IInv'
<1>1. keyRows # <<>>
  BY DEF IInv, KeyInv
<1>2. "rotate" \in Jobs \ {"boot"}
  BY DEF Jobs
<1>3. QED BY <1>1, <1>2, CalmStep

LEMMA RotateReadStep ==
    ASSUME IInv, NEW r \in KeyReplicas, RotateRead(r)
    PROVE  IInv'
<1>1. /\ UNCHANGED <<keyRows, usage, owed, overlap, view>>
      /\ Query(r, "rotate", "read", "load") \/ (JobAt(r, "rotate", "read") /\ Done(r, "rotate"))
  BY DEF RotateRead, tallies
<1>2. "rotate" \in Jobs /\ "read" \in Pcs /\ {"load", "idle"} \subseteq Pcs \ {"append"}
  BY DEF Jobs, Pcs
<1>3. /\ Moves(r, "rotate", "load") \/ Moves(r, "rotate", "idle")
      /\ JobAt(r, "rotate", "read")
  BY <1>1, <1>2, QueryIs, DoneIs DEF IInv, KeysTyped
<1>4. ~JobAt(r, "rotate", "idle")
  BY <1>3 DEF JobAt
<1>5. QED BY <1>1, <1>2, <1>3, <1>4, RotateGoes DEF IInv, KeysTyped

LEMMA RotateLoadStep ==
    ASSUME IInv, NEW r \in KeyReplicas, RotateLoad(r)
    PROVE  IInv'
<1>1. /\ UNCHANGED <<keyRows, usage, owed, overlap>> /\ Load(r, "rotate")
      /\ Goto(r, "rotate", "publish") /\ ~JobAt(r, "rotate", "idle")
  BY DEF RotateLoad, tallies, JobAt
<1>2. "rotate" \in Jobs /\ "publish" \in Pcs \ {"append"}
  BY DEF Jobs, Pcs
<1>3. Moves(r, "rotate", "publish") /\ view' \in [KeyReplicas -> Seq(Status)]
  BY <1>1, <1>2, GotoIs, LoadTyped DEF IInv, KeysTyped
<1>4. QED BY <1>1, <1>2, <1>3, RotateGoes

LEMMA RotatePublishStep ==
    ASSUME IInv, NEW r \in KeyReplicas, RotatePublish(r)
    PROVE  IInv'
<1>1. /\ UNCHANGED <<keyRows, usage, owed, overlap, view>>
      /\ Goto(r, "rotate", "drain") /\ ~JobAt(r, "rotate", "idle")
  BY DEF RotatePublish, tallies, JobAt
<1>2. "rotate" \in Jobs /\ "drain" \in Pcs \ {"append"}
  BY DEF Jobs, Pcs
<1>3. Moves(r, "rotate", "drain")
  BY <1>1, <1>2, GotoIs DEF IInv, KeysTyped
<1>4. QED BY <1>1, <1>2, <1>3, RotateGoes DEF IInv, KeysTyped

LEMMA RotateDrainStep ==
    ASSUME IInv, NEW r \in KeyReplicas, RotateDrain(r)
    PROVE  IInv'
<1>1. /\ UNCHANGED <<keyRows, usage, owed, overlap, view>> /\ ~JobAt(r, "rotate", "idle")
  BY DEF RotateDrain, tallies, JobAt
<1>2. Goto(r, "rotate", "audit") \/ Done(r, "rotate") \/ UNCHANGED job
  BY DEF RotateDrain, Drain
<1>3. "rotate" \in Jobs /\ {"audit", "idle"} \subseteq Pcs \ {"append"}
  BY DEF Jobs, Pcs
<1>4. CASE UNCHANGED job
  BY <1>1, <1>4, StillStep
<1>5. CASE Goto(r, "rotate", "audit") \/ Done(r, "rotate")
  <2>1. Moves(r, "rotate", "audit") \/ Moves(r, "rotate", "idle")
    BY <1>3, <1>5, GotoIs, DoneIs DEF IInv, KeysTyped
  <2>2. QED BY <1>1, <1>3, <2>1, RotateGoes DEF IInv, KeysTyped
<1>6. QED BY <1>2, <1>4, <1>5

LEMMA RotateAuditStep ==
    ASSUME IInv, NEW r \in KeyReplicas, RotateAudit(r)
    PROVE  IInv'
<1>1. /\ UNCHANGED <<keyRows, usage, owed, overlap, view>>
      /\ Done(r, "rotate") /\ ~JobAt(r, "rotate", "idle")
  BY DEF RotateAudit, tallies, JobAt
<1>2. "rotate" \in Jobs /\ "idle" \in Pcs \ {"append"}
  BY DEF Jobs, Pcs
<1>3. Moves(r, "rotate", "idle")
  BY <1>1, <1>2, DoneIs DEF IInv, KeysTyped
<1>4. QED BY <1>1, <1>2, <1>3, RotateGoes DEF IInv, KeysTyped

-----------------------------------------------------------------------------
(* Tallying. *)

LEMMA PlusIs ==
    ASSUME NEW t \in [KeyReplicas -> Tallies], NEW r \in KeyReplicas, NEW k, NEW fs
    PROVE  /\ Plus(t, r, k, fs) \in [KeyReplicas -> Tallies]
           /\ \A q \in KeyReplicas : q # r => Plus(t, r, k, fs)[q] = t[q]
           /\ \A l \in Kids, f \in Fields :
                Plus(t, r, k, fs)[r][l][f]
                    = t[r][l][f] + (IF Counting(r) /\ l = k /\ f \in fs THEN 1 ELSE 0)
<1>1. t[r] \in [Kids -> [Fields -> Int]]
  BY DEF Tallies
<1>2. CASE ~Counting(r)
  BY <1>1, <1>2 DEF Plus, Tallies
<1>3. CASE Counting(r)
  <2>1. PICK e : e = [f \in Fields |-> t[r][k][f] + IF f \in fs THEN 1 ELSE 0]
    OBVIOUS
  <2>2. Plus(t, r, k, fs) = [t EXCEPT ![r] = [t[r] EXCEPT ![k] = e]]
    BY <1>3, <2>1 DEF Plus
  <2>3. CASE k \notin Kids
    <3>1. [t[r] EXCEPT ![k] = e] = t[r]
      BY <1>1, <2>3
    <3>2. Plus(t, r, k, fs) = t
      BY <2>2, <3>1
    <3>3. \A l \in Kids, f \in Fields : t[r][l][f] \in Int /\ l # k
      BY <1>1, <2>3
    <3>4. QED BY <3>2, <3>3
  <2>4. CASE k \in Kids
    <3>1. e \in [Fields -> Int]
      BY <1>1, <2>1, <2>4
    <3>2. /\ [t[r] EXCEPT ![k] = e] \in Tallies
          /\ \A l \in Kids : [t[r] EXCEPT ![k] = e][l] = IF l = k THEN e ELSE t[r][l]
      BY <1>1, <3>1 DEF Tallies
    <3>3. /\ Plus(t, r, k, fs) \in [KeyReplicas -> Tallies]
          /\ \A q \in KeyReplicas : q # r => Plus(t, r, k, fs)[q] = t[q]
          /\ Plus(t, r, k, fs)[r] = [t[r] EXCEPT ![k] = e]
      BY <2>2, <3>2
    <3>4. ASSUME NEW l \in Kids, NEW f \in Fields
          PROVE  Plus(t, r, k, fs)[r][l][f]
                    = t[r][l][f] + (IF Counting(r) /\ l = k /\ f \in fs THEN 1 ELSE 0)
      <4>1. CASE l = k
        BY <1>3, <2>1, <3>2, <3>3, <4>1
      <4>2. CASE l # k
        BY <1>1, <3>2, <3>3, <4>2
      <4>3. QED BY <4>1, <4>2
    <3>5. QED BY <3>3, <3>4
  <2>5. QED BY <2>3, <2>4
<1>4. QED BY <1>2, <1>3

\* A signature or a failure is counted in both ledgers alike; the job is done.
LEMMA TallyStep ==
    ASSUME IInv, NEW r \in KeyReplicas, NEW j \in Jobs \ {"boot", "rotate"}, NEW k, NEW fs,
           Tally(r, k, fs), Done(r, j), UNCHANGED <<keyRows, view, overlap>>
    PROVE  IInv'
<1>1. KeysTyped /\ KeyInv /\ UsageInv /\ job \in JobTable
  BY DEF IInv, KeysTyped
<1>2. Moves(r, j, "idle") /\ "idle" \in Pcs
  BY <1>1, DoneIs DEF Pcs
<1>3. /\ usage \in [KeyReplicas -> Tallies] /\ owed \in [KeyReplicas -> Tallies]
      /\ usage' = Plus(usage, r, k, fs) /\ owed' = Plus(owed, r, k, fs)
  BY <1>1 DEF KeysTyped, Tally
<1>4. \A q \in KeyReplicas, i \in Jobs : JobAt(q, i, "append")' => job'[q][i] = job[q][i] /\ JobAt(q, i, "append")
  BY <1>2 DEF Moves, JobAt
<1>5. /\ usage' \in [KeyReplicas -> Tallies]
      /\ \A q \in KeyReplicas : q # r => usage'[q] = usage[q]
      /\ \A l \in Kids, f \in Fields :
            usage'[r][l][f] = usage[r][l][f] + (IF Counting(r) /\ l = k /\ f \in fs THEN 1 ELSE 0)
  BY <1>3, PlusIs
<1>6. /\ owed' \in [KeyReplicas -> Tallies]
      /\ \A q \in KeyReplicas : q # r => owed'[q] = owed[q]
      /\ \A l \in Kids, f \in Fields :
            owed'[r][l][f] = owed[r][l][f] + (IF Counting(r) /\ l = k /\ f \in fs THEN 1 ELSE 0)
  BY <1>3, PlusIs
<1>7. KeysTyped'
  BY <1>1, <1>2, <1>4, <1>5, <1>6 DEF KeysTyped, Moves
<1>8. KeyInv'
  BY <1>1, <1>2, <1>7, JobKeys
<1>9. ASSUME NEW q \in KeyReplicas, ~overlap'[q]
      PROVE  Accounted(q)' /\ SumInv(q)'
  <2>1. Accounted(q) /\ SumInv(q)
    BY <1>1, <1>9 DEF UsageInv
  <2>2. CASE q # r
    <3>1. usage'[q] = usage[q] /\ owed'[q] = owed[q]
      BY <1>5, <1>6, <2>2
    <3>2. QED BY <1>4, <2>1, <3>1 DEF Accounted, SumInv, Leaves
  <2>3. CASE q = r
    <3>1. \A l \in Kids, f \in Fields : usage[r][l][f] \in Int /\ owed[r][l][f] \in Int
      BY <1>3 DEF Tallies
    <3>2. \A l \in Kids, f \in Fields : \E n \in {0, 1} :
             usage'[r][l][f] = usage[r][l][f] + n /\ owed'[r][l][f] = owed[r][l][f] + n
      BY <1>5, <1>6
    <3>3. Accounted(q)'
      <4>1. \A l \in Kids, f \in Fields : 0 <= owed'[r][l][f] /\ owed'[r][l][f] <= usage'[r][l][f]
        BY <2>1, <2>3, <3>1, <3>2 DEF Accounted
      <4>2. QED BY <2>3, <4>1 DEF Accounted
    <3>4. \A i, m \in Jobs : JobAt(r, i, "append")' /\ JobAt(r, m, "append")' => i = m
      BY <1>4, <2>1, <2>3 DEF SumInv
    <3>5. ASSUME NEW i \in Jobs, NEW l \in Kids, NEW f \in Fields, JobAt(r, i, "append")'
          PROVE  Leaves(job'[r][i].sum[l][f], job'[r][i].due[l][f], owed'[r][l][f], usage'[r][l][f])
      <4>1. job'[r][i] = job[r][i] /\ JobAt(r, i, "append")
        BY <1>4, <3>5
      <4>2. Leaves(job[r][i].sum[l][f], job[r][i].due[l][f], owed[r][l][f], usage[r][l][f])
        BY <2>1, <2>3, <4>1 DEF SumInv
      <4>3. job[r][i].sum[l][f] \in Int /\ job[r][i].due[l][f] \in Int
        BY <1>1, <4>1 DEF KeysTyped, Tallies
      <4>4. QED BY <3>1, <3>2, <4>1, <4>2, <4>3 DEF Leaves
    <3>6. SumInv(q)'
      BY <2>3, <3>4, <3>5 DEF SumInv, Leaves
    <3>7. QED BY <3>3, <3>6
  <2>4. QED BY <2>2, <2>3
<1>10. UsageInv'
  BY <1>9 DEF UsageInv
<1>11. QED BY <1>7, <1>8, <1>10 DEF IInv

LEMMA SignTallies ==
    ASSUME IInv, NEW r \in KeyReplicas, SignJwt(r) \/ SignFails(r) \/ ProbeSign(r)
    PROVE  IInv'
<1>1. {"sign", "probe"} \subseteq Jobs \ {"boot", "rotate"}
  BY DEF Jobs
<1>2. CASE SignJwt(r)
  BY <1>1, <1>2, TallyStep DEF SignJwt
<1>3. CASE SignFails(r)
  <2>1. PICK j \in {"sign", "probe"} : recordSigningFailure(r, job[r][j].kid) /\ Done(r, j)
    BY <1>3 DEF SignFails
  <2>2. Tally(r, job[r][j].kid, IF throttled[r] THEN {"failures", "suppressed"} ELSE {"failures"})
    BY <2>1 DEF recordSigningFailure
  <2>3. UNCHANGED <<keyRows, view, overlap>>
    BY <1>3 DEF SignFails
  <2>4. QED BY <1>1, <2>1, <2>2, <2>3, TallyStep
<1>4. CASE ProbeSign(r)
  BY <1>1, <1>4, TallyStep DEF ProbeSign
<1>5. QED BY <1>2, <1>3, <1>4

-----------------------------------------------------------------------------
(* The usage summary. *)

LEMMA BlankTyped == Blank \in Tallies /\ \A k \in Kids, f \in Fields : Blank[k][f] = 0
  BY DEF Blank, Tallies

\* A summary that begins alone holds exactly what is tallied; one that begins
\* beside another ends the accounting.
LEMMA FlushBeginStep ==
    ASSUME IInv, NEW r \in KeyReplicas, NEW j \in Jobs \ {"boot"}, Up(r), FlushBegin(r, j),
           UNCHANGED <<keyRows, view, usage>>
    PROVE  IInv'
<1> DEFINE both == \E i \in Jobs : JobAt(r, i, "append")
<1>1. KeysTyped /\ KeyInv /\ UsageInv
  BY DEF IInv
<1>2. /\ overlap' = [overlap EXCEPT ![r] = @ \/ both]
      /\ owed' = IF both THEN [owed EXCEPT ![r] = Blank] ELSE owed
  BY DEF FlushBegin
<1>3. /\ Moves(r, j, "append") /\ "append" \in Pcs
      /\ job'[r][j].sum = usage[r] /\ job'[r][j].due = owed[r]
  BY <1>1, FlushBeginIs DEF Pcs
<1>4. /\ usage \in [KeyReplicas -> Tallies] /\ owed \in [KeyReplicas -> Tallies]
      /\ overlap \in [KeyReplicas -> BOOLEAN]
  BY <1>1 DEF KeysTyped
<1>5. \A q \in KeyReplicas, i \in Jobs : q # r \/ i # j => job'[q][i] = job[q][i]
  BY <1>3 DEF Moves
<1>6. \A q \in KeyReplicas : overlap'[q] = IF q = r THEN overlap[r] \/ both ELSE overlap[q]
  BY <1>2, <1>4
<1>7. owed' \in [KeyReplicas -> Tallies] /\ overlap' \in [KeyReplicas -> BOOLEAN]
  BY <1>2, <1>4, BlankTyped
<1>8. \A q \in KeyReplicas, i \in Jobs :
         JobAt(q, i, "append")' => job'[q][i].sum \in Tallies /\ job'[q][i].due \in Tallies
  BY <1>1, <1>3, <1>4, <1>5 DEF KeysTyped, JobAt
<1>9. KeysTyped'
  BY <1>1, <1>3, <1>7, <1>8 DEF KeysTyped, Moves
<1>10. keyRows # <<>>
  BY <1>1 DEF KeyInv, FoundKey, Up
<1>11. KeyInv'
  BY <1>1, <1>3, <1>9, <1>10, JobKeys
<1>12. ASSUME NEW q \in KeyReplicas, ~overlap'[q]
       PROVE  Accounted(q)' /\ SumInv(q)'
  <2>1. ~overlap[q] /\ (q = r => ~both)
    BY <1>6, <1>12
  <2>2. Accounted(q) /\ SumInv(q)
    BY <1>1, <2>1 DEF UsageInv
  <2>3. owed'[q] = owed[q]
    BY <1>2, <1>4, <2>1
  <2>4. Accounted(q)'
    BY <2>2, <2>3 DEF Accounted
  <2>5. CASE q # r
    <3>1. \A i \in Jobs : job'[q][i] = job[q][i] /\ (JobAt(q, i, "append")' <=> JobAt(q, i, "append"))
      BY <1>5, <2>5 DEF JobAt
    <3>2. SumInv(q)'
      BY <2>2, <2>3, <3>1 DEF SumInv, Leaves
    <3>3. QED BY <2>4, <3>2
  <2>6. CASE q = r
    <3>1. \A i \in Jobs : JobAt(r, i, "append")' <=> i = j
      BY <1>3, <1>5, <2>1, <2>6 DEF Moves, JobAt
    <3>2. \A k \in Kids, f \in Fields :
             /\ usage[r][k][f] \in Int /\ owed[r][k][f] \in Int
             /\ 0 <= owed[r][k][f] /\ owed[r][k][f] <= usage[r][k][f]
      BY <1>4, <2>2, <2>6 DEF Tallies, Accounted
    <3>3. \A i \in Jobs, k \in Kids, f \in Fields : JobAt(r, i, "append")' =>
             Leaves(job'[r][i].sum[k][f], job'[r][i].due[k][f], owed'[r][k][f], usage'[r][k][f])
      <4>1. \A k \in Kids, f \in Fields :
               Leaves(job'[r][j].sum[k][f], job'[r][j].due[k][f], owed'[r][k][f], usage'[r][k][f])
        BY <1>3, <2>3, <2>6, <3>2 DEF Leaves
      <4>2. QED BY <3>1, <4>1
    <3>4. SumInv(q)'
      BY <2>6, <3>1, <3>3 DEF SumInv, Leaves
    <3>5. QED BY <2>4, <3>4
  <2>7. QED BY <2>4, <2>5, <2>6
<1>13. UsageInv'
  BY <1>12 DEF UsageInv
<1>14. QED BY <1>9, <1>11, <1>13 DEF IInv

LEMMA MinusIs ==
    ASSUME NEW t \in Tallies, NEW u \in Tallies
    PROVE  /\ Minus(t, u) \in Tallies
           /\ \A k \in Kids, f \in Fields : Minus(t, u)[k][f] = t[k][f] - u[k][f]
<1>1. \A k \in Kids, f \in Fields : t[k][f] \in Int /\ u[k][f] \in Int
  BY DEF Tallies
<1>2. \A k \in Kids, f \in Fields : t[k][f] - u[k][f] \in Int
  BY <1>1
<1>3. QED BY <1>2 DEF Minus, Tallies

LEMMA SubtractIs ==
    ASSUME usage \in [KeyReplicas -> Tallies], NEW r \in KeyReplicas, NEW u \in Tallies
    PROVE  /\ Subtract(r, u) \in [KeyReplicas -> Tallies]
           /\ \A q \in KeyReplicas : q # r => Subtract(r, u)[q] = usage[q]
           /\ \A k \in Kids, f \in Fields :
                Subtract(r, u)[r][k][f] =
                    IF Entry(r, k) THEN usage[r][k][f] - u[k][f] ELSE usage[r][k][f]
<1>1. usage[r] \in Tallies
  OBVIOUS
<1>2. PICK e : e = [k \in Kids |-> IF Entry(r, k) THEN Minus(usage[r], u)[k] ELSE usage[r][k]]
  OBVIOUS
<1>3. Subtract(r, u) = [usage EXCEPT ![r] = e]
  BY <1>2 DEF Subtract
<1>4. e \in Tallies
  BY <1>1, <1>2, MinusIs DEF Tallies
<1>5. /\ Subtract(r, u) \in [KeyReplicas -> Tallies]
      /\ \A q \in KeyReplicas : q # r => Subtract(r, u)[q] = usage[q]
      /\ Subtract(r, u)[r] = e
  BY <1>3, <1>4
<1>6. \A k \in Kids, f \in Fields :
         e[k][f] = IF Entry(r, k) THEN usage[r][k][f] - u[k][f] ELSE usage[r][k][f]
  BY <1>1, <1>2, MinusIs
<1>7. QED BY <1>5, <1>6

\* The summary is in the trail: what was owed when it began is no more, and the
\* tallies lose what it reported, or keep it when the append threw after all.
LEMMA FlushAppendStep ==
    ASSUME IInv, NEW r \in KeyReplicas, NEW j \in Jobs \ {"boot"}, JobAt(r, j, "append"),
           NEW pc \in Pcs \ {"append"}, Moves(r, j, pc),
           Reported(r, j),
           usage' = Subtract(r, job[r][j].sum) \/ usage' = usage,
           UNCHANGED <<keyRows, view, overlap>>
    PROVE  IInv'
<1>1. KeysTyped /\ KeyInv /\ UsageInv
  BY DEF IInv
<1>2. PICK s \in Tallies, d \in Tallies : s = job[r][j].sum /\ d = job[r][j].due
  BY <1>1 DEF KeysTyped
<1>3. /\ usage \in [KeyReplicas -> Tallies] /\ owed \in [KeyReplicas -> Tallies]
      /\ usage[r] \in Tallies /\ owed[r] \in Tallies
      /\ overlap \in [KeyReplicas -> BOOLEAN]
  BY <1>1 DEF KeysTyped
<1>4. /\ usage' \in [KeyReplicas -> Tallies]
      /\ \A q \in KeyReplicas : q # r => usage'[q] = usage[q]
      /\ \/ usage' = usage
         \/ \A k \in Kids, f \in Fields :
               usage'[r][k][f] = IF Entry(r, k) THEN usage[r][k][f] - s[k][f] ELSE usage[r][k][f]
  BY <1>2, <1>3, SubtractIs
<1>5. /\ owed' \in [KeyReplicas -> Tallies]
      /\ \A q \in KeyReplicas : q # r => owed'[q] = owed[q]
      /\ ~overlap[r] => owed'[r] = Minus(owed[r], d)
  <2>1. Minus(owed[r], d) \in Tallies
    BY <1>2, <1>3, MinusIs
  <2>2. QED BY <1>2, <1>3, <2>1 DEF Reported
<1>6. \A q \in KeyReplicas, i \in Jobs :
         JobAt(q, i, "append")' =>
            job'[q][i] = job[q][i] /\ JobAt(q, i, "append") /\ (q # r \/ i # j)
  BY DEF Moves, JobAt
<1>7. KeysTyped'
  <2>1. job' \in JobTable
    BY DEF Moves
  <2>2. \A q \in KeyReplicas, i \in Jobs :
           JobAt(q, i, "append")' => job'[q][i].sum \in Tallies /\ job'[q][i].due \in Tallies
    BY <1>1, <1>6 DEF KeysTyped
  <2>3. keyRows' \in Seq(Status) /\ view' \in [KeyReplicas -> Seq(Status)] /\ overlap' \in [KeyReplicas -> BOOLEAN]
    BY <1>1 DEF KeysTyped
  <2>4. usage' \in [KeyReplicas -> Tallies] /\ owed' \in [KeyReplicas -> Tallies]
    BY <1>4, <1>5
  <2>5. QED BY <2>1, <2>2, <2>3, <2>4 DEF KeysTyped
<1>8. KeyInv'
  <2>1. j = "rotate" => keyRows # <<>>
    BY <1>1 DEF KeyInv, JobAt
  <2>2. QED BY <1>1, <1>7, <2>1, JobKeys
<1>9. ASSUME NEW q \in KeyReplicas, ~overlap'[q]
      PROVE  Accounted(q)' /\ SumInv(q)'
  <2>1. Accounted(q) /\ SumInv(q)
    BY <1>1, <1>9 DEF UsageInv
  <2>2. CASE q # r
    <3>1. usage'[q] = usage[q] /\ owed'[q] = owed[q]
      BY <1>4, <1>5, <2>2
    <3>2. QED BY <1>6, <2>1, <3>1 DEF Accounted, SumInv, Leaves
  <2>3. CASE q = r
    <3>1. \A i \in Jobs : ~JobAt(r, i, "append")'
      BY <1>6, <2>1, <2>3 DEF SumInv
    <3>2. ASSUME NEW k \in Kids, NEW f \in Fields
          PROVE  0 <= owed'[r][k][f] /\ owed'[r][k][f] <= usage'[r][k][f]
      <4>1. /\ usage[r][k][f] \in Int /\ owed[r][k][f] \in Int
            /\ s[k][f] \in Int /\ d[k][f] \in Int
        BY <1>2, <1>3 DEF Tallies
      <4>2. Leaves(s[k][f], d[k][f], owed[r][k][f], usage[r][k][f])
        BY <1>2, <2>1, <2>3 DEF SumInv
      <4>3. owed'[r][k][f] = owed[r][k][f] - d[k][f]
        BY <1>2, <1>3, <1>5, <1>9, <2>3, MinusIs
      <4>4. \/ usage'[r][k][f] = usage[r][k][f]
            \/ usage'[r][k][f] = usage[r][k][f] - s[k][f]
        BY <1>4
      <4>5. QED BY <4>1, <4>2, <4>3, <4>4 DEF Leaves
    <3>3. QED BY <2>3, <3>1, <3>2 DEF Accounted, SumInv, Leaves
  <2>4. QED BY <2>2, <2>3
<1>10. UsageInv'
  BY <1>9 DEF UsageInv
<1>11. QED BY <1>7, <1>8, <1>10 DEF IInv

LEMMA FlushStartStep ==
    ASSUME IInv, NEW r \in KeyReplicas, FlushStart(r)
    PROVE  IInv'
<1>1. Up(r) /\ FlushBegin(r, "flush") /\ UNCHANGED <<keyRows, view, usage>>
  BY DEF FlushStart
<1>2. "flush" \in Jobs \ {"boot"}
  BY DEF Jobs
<1>3. QED BY <1>1, <1>2, FlushBeginStep

\* The append of a summary, however it ends.
Ended(r, j) ==
    \/ Reported(r, j) /\ (usage' = Subtract(r, job[r][j].sum) \/ usage' = usage)
    \/ UNCHANGED <<usage, owed>>

LEMMA FlushOutcome ==
    ASSUME IInv, NEW r \in KeyReplicas, NEW j \in Jobs \ {"boot"}, JobAt(r, j, "append"),
           NEW pc \in Pcs \ {"append"}, Moves(r, j, pc), UNCHANGED <<keyRows, view, overlap>>,
           Ended(r, j)
    PROVE  IInv'
<1>1. CASE Reported(r, j) /\ (usage' = Subtract(r, job[r][j].sum) \/ usage' = usage)
  BY <1>1, FlushAppendStep
<1>2. CASE UNCHANGED <<usage, owed>>
  <2>1. j = "rotate" => keyRows # <<>>
    BY DEF IInv, KeyInv, JobAt
  <2>2. QED BY <1>2, <2>1, CalmStep DEF IInv, KeysTyped
<1>3. QED BY <1>1, <1>2 DEF Ended

LEMMA FlushEndStep ==
    ASSUME IInv, NEW r \in KeyReplicas, FlushEnd(r)
    PROVE  IInv'
<1>1. /\ JobAt(r, "flush", "append") /\ Done(r, "flush") /\ UNCHANGED <<keyRows, view, overlap>>
      /\ Ended(r, "flush")
  BY DEF FlushEnd, FlushAppend, FlushThrows, Ended
<1>2. "flush" \in Jobs \ {"boot"} /\ "idle" \in Pcs \ {"append"}
  BY DEF Jobs, Pcs
<1>3. Moves(r, "flush", "idle")
  BY <1>1, <1>2, DoneIs DEF IInv, KeysTyped
<1>4. QED BY <1>1, <1>2, <1>3, FlushOutcome

LEMMA RotateStartStep ==
    ASSUME IInv, NEW r \in KeyReplicas, RotateStart(r)
    PROVE  IInv'
<1>1. /\ Up(r) /\ UNCHANGED <<keyRows, view, usage>>
      /\ FlushBegin(r, "rotate") \/ (Goto(r, "rotate", "commit") /\ UNCHANGED <<owed, overlap>>)
  BY DEF RotateStart
<1>2. "rotate" \in Jobs \ {"boot"} /\ "commit" \in Pcs \ {"append"}
  BY DEF Jobs, Pcs
<1>3. CASE FlushBegin(r, "rotate")
  BY <1>1, <1>2, <1>3, FlushBeginStep
<1>4. CASE Goto(r, "rotate", "commit") /\ UNCHANGED <<owed, overlap>>
  <2>1. Moves(r, "rotate", "commit")
    BY <1>2, <1>4, GotoIs DEF IInv, KeysTyped
  <2>2. keyRows # <<>>
    BY <1>1 DEF IInv, KeyInv, FoundKey, Up
  <2>3. QED BY <1>1, <1>2, <1>4, <2>1, <2>2, CalmStep DEF IInv, KeysTyped
<1>5. QED BY <1>1, <1>3, <1>4

LEMMA RotateFlushStep ==
    ASSUME IInv, NEW r \in KeyReplicas, RotateFlush(r)
    PROVE  IInv'
<1>1. /\ JobAt(r, "rotate", "append") /\ UNCHANGED <<keyRows, view, overlap>>
      /\ Goto(r, "rotate", "commit") \/ Done(r, "rotate")
      /\ Ended(r, "rotate")
  BY DEF RotateFlush, FlushAppend, FlushThrows, Ended
<1>2. "rotate" \in Jobs \ {"boot"} /\ {"commit", "idle"} \subseteq Pcs \ {"append"}
  BY DEF Jobs, Pcs
<1>3. Moves(r, "rotate", "commit") \/ Moves(r, "rotate", "idle")
  BY <1>1, <1>2, GotoIs, DoneIs DEF IInv, KeysTyped
<1>4. QED BY <1>1, <1>2, <1>3, FlushOutcome

LEMMA StopStartStep ==
    ASSUME IInv, NEW r \in KeyReplicas, StopStart(r)
    PROVE  IInv'
<1>1. /\ Up(r) /\ UNCHANGED <<keyRows, view, usage>>
      /\ FlushBegin(r, "stop") \/ (Goto(r, "stop", "close") /\ UNCHANGED <<owed, overlap>>)
  BY DEF StopStart
<1>2. "stop" \in Jobs \ {"boot"} /\ "close" \in Pcs \ {"append"} /\ "stop" # "rotate"
  BY DEF Jobs, Pcs
<1>3. CASE FlushBegin(r, "stop")
  BY <1>1, <1>2, <1>3, FlushBeginStep
<1>4. CASE Goto(r, "stop", "close") /\ UNCHANGED <<owed, overlap>>
  <2>1. Moves(r, "stop", "close")
    BY <1>2, <1>4, GotoIs DEF IInv, KeysTyped
  <2>2. QED BY <1>1, <1>2, <1>4, <2>1, CalmStep DEF IInv, KeysTyped
<1>5. QED BY <1>1, <1>3, <1>4

LEMMA StopFlushStep ==
    ASSUME IInv, NEW r \in KeyReplicas, StopFlush(r)
    PROVE  IInv'
<1>1. /\ JobAt(r, "stop", "append") /\ Goto(r, "stop", "close") /\ UNCHANGED <<keyRows, view, overlap>>
      /\ Ended(r, "stop")
  BY DEF StopFlush, FlushAppend, FlushThrows, Ended
<1>2. "stop" \in Jobs \ {"boot"} /\ "close" \in Pcs \ {"append"}
  BY DEF Jobs, Pcs
<1>3. Moves(r, "stop", "close")
  BY <1>1, <1>2, GotoIs DEF IInv, KeysTyped
<1>4. QED BY <1>1, <1>2, <1>3, FlushOutcome

-----------------------------------------------------------------------------
(* A process that starts again knows nothing and owes nothing. *)

LEMMA RestartStep ==
    ASSUME IInv, NEW r \in KeyReplicas, Restart(r)
    PROVE  IInv'
<1>1. KeysTyped /\ KeyInv /\ UsageInv /\ job \in JobTable
  BY DEF IInv, KeysTyped
<1>2. /\ job' = [job EXCEPT ![r] = [j \in Jobs |-> NoJob]]
      /\ view' = [view EXCEPT ![r] = <<>>] /\ keyRows' = keyRows
      /\ usage' = [usage EXCEPT ![r] = Blank] /\ owed' = [owed EXCEPT ![r] = Blank]
      /\ overlap' = [overlap EXCEPT ![r] = FALSE]
  BY DEF Restart, Fresh
<1>3. /\ job' \in JobTable
      /\ \A j \in Jobs : job'[r][j] = NoJob
      /\ \A q \in KeyReplicas, j \in Jobs : q # r => job'[q][j] = job[q][j]
  BY <1>1, <1>2, IdleJob DEF JobTable
<1>4. \A j \in Jobs : job'[r][j].pc = "idle"
  BY <1>3, IdleJob
<1>5. "boot" \in Jobs /\ "rotate" \in Jobs
  BY DEF Jobs
<1>6. \A q \in KeyReplicas, j \in Jobs :
         JobAt(q, j, "append")' => job'[q][j] = job[q][j] /\ q # r /\ JobAt(q, j, "append")
  BY <1>3, <1>4 DEF JobAt
<1>7. /\ usage' \in [KeyReplicas -> Tallies] /\ owed' \in [KeyReplicas -> Tallies]
      /\ usage'[r] = Blank /\ owed'[r] = Blank
      /\ \A q \in KeyReplicas : q # r => usage'[q] = usage[q] /\ owed'[q] = owed[q] /\ overlap'[q] = overlap[q]
  BY <1>1, <1>2, BlankTyped DEF KeysTyped
<1>8. KeysTyped'
  <2>1. <<>> \in Seq(Status)
    OBVIOUS
  <2>2. view' \in [KeyReplicas -> Seq(Status)] /\ overlap' \in [KeyReplicas -> BOOLEAN]
    BY <1>1, <1>2, <2>1 DEF KeysTyped
  <2>3. QED BY <1>1, <1>2, <1>3, <1>6, <1>7, <2>2 DEF KeysTyped
<1>9. KeyInv'
  <2>1. ~FoundKey(r)' /\ ~MayGenerate(r)' /\ JobAt(r, "rotate", "idle")'
    BY <1>4, <1>5 DEF FoundKey, MayGenerate, JobAt
  <2>2. ASSUME NEW q \in KeyReplicas, q # r
        PROVE  /\ FoundKey(q)' <=> FoundKey(q)
               /\ MayGenerate(q)' <=> MayGenerate(q)
               /\ JobAt(q, "rotate", "idle")' <=> JobAt(q, "rotate", "idle")
    BY <1>3, <1>5, <2>2 DEF FoundKey, MayGenerate, JobAt
  <2>3. Generators' \subseteq Generators
    BY <2>1, <2>2 DEF Generators
  <2>4. Cardinality(Actives(keyRows))' + Cardinality(Generators') <= Cardinality(KeyReplicas)
    BY <1>1, <1>2, <1>8, <2>3, CountKept
  <2>5. \A q \in KeyReplicas : (FoundKey(q)' \/ ~JobAt(q, "rotate", "idle")') => keyRows # <<>>
    BY <1>1, <2>1, <2>2 DEF KeyInv
  <2>6. keyRows # <<>> => Actives(keyRows) # {}
    BY <1>1 DEF KeyInv
  <2>7. QED BY <1>2, <2>4, <2>5, <2>6 DEF KeyInv
<1>10. ASSUME NEW q \in KeyReplicas, ~overlap'[q]
       PROVE  Accounted(q)' /\ SumInv(q)'
  <2>1. CASE q = r
    <3>1. Accounted(q)'
      BY <1>7, <2>1, BlankTyped DEF Accounted
    <3>2. SumInv(q)'
      BY <1>6, <1>7, <2>1, BlankTyped DEF SumInv
    <3>3. QED BY <3>1, <3>2
  <2>2. CASE q # r
    <3>1. Accounted(q) /\ SumInv(q)
      BY <1>1, <1>7, <1>10, <2>2 DEF UsageInv
    <3>2. QED BY <1>6, <1>7, <2>2, <3>1 DEF Accounted, SumInv, Leaves
  <2>3. QED BY <2>1, <2>2
<1>11. UsageInv'
  BY <1>10 DEF UsageInv
<1>12. QED BY <1>8, <1>9, <1>11 DEF IInv

-----------------------------------------------------------------------------
(* The invariant. *)

LEMMA InitInv ==
    ASSUME KeysInit
    PROVE  IInv
<1>1. /\ keyRows \in Provisioned /\ view = [r \in KeyReplicas |-> <<>>]
      /\ job = [r \in KeyReplicas |-> [j \in Jobs |-> NoJob]]
      /\ usage = [r \in KeyReplicas |-> Blank] /\ owed = [r \in KeyReplicas |-> Blank]
      /\ overlap = [r \in KeyReplicas |-> FALSE]
  BY DEF KeysInit
<1>2. <<>> \in Seq(Status) /\ <<"active">> \in Seq(Status)
  BY DEF Status
<1>3. keyRows = <<>> \/ keyRows = <<"active">>
  BY <1>1 DEF Provisioned
<1>4. \A r \in KeyReplicas, j \in Jobs : job[r][j].pc = "idle"
  BY <1>1, IdleJob
<1>5. KeysTyped
  <2>1. job \in JobTable
    BY <1>1, IdleJob DEF JobTable
  <2>2. QED BY <1>1, <1>2, <1>3, <1>4, <2>1, BlankTyped DEF KeysTyped, JobAt
<1>6. KeyInv
  <2>1. "boot" \in Jobs /\ "rotate" \in Jobs
    BY DEF Jobs
  <2>2. \A r \in KeyReplicas : ~FoundKey(r) /\ ~MayGenerate(r) /\ JobAt(r, "rotate", "idle")
    BY <1>4, <2>1 DEF FoundKey, MayGenerate, JobAt
  <2>3. Generators = {}
    BY <2>2 DEF Generators
  <2>4. Cardinality(Generators) = 0
    BY <2>3, FS_EmptySet
  <2>5. Cardinality(Actives(keyRows)) \in Nat /\ Cardinality(Actives(keyRows)) <= 1
    <3>1. CASE keyRows = <<>>
      <4>1. Actives(keyRows) = {}
        BY <3>1 DEF Actives
      <4>2. QED BY <4>1, FS_EmptySet
    <3>2. CASE keyRows = <<"active">>
      <4>1. Actives(keyRows) = {1}
        BY <3>2 DEF Actives
      <4>2. Cardinality({1}) = 1
        BY FS_Singleton, Zenon
      <4>3. QED BY <4>1, <4>2
    <3>3. QED BY <1>3, <3>1, <3>2
  <2>6. keyRows # <<>> => Actives(keyRows) # {}
    BY <1>3 DEF Actives
  <2>7. Cardinality(Actives(keyRows)) + Cardinality(Generators) <= Cardinality(KeyReplicas)
    BY <2>4, <2>5, GeneratorsFinite
  <2>8. QED BY <2>2, <2>6, <2>7 DEF KeyInv
<1>7. UsageInv
  <2>1. ASSUME NEW r \in KeyReplicas
        PROVE  Accounted(r) /\ SumInv(r)
    <3>1. usage[r] = Blank /\ owed[r] = Blank
      BY <1>1
    <3>2. \A j \in Jobs : ~JobAt(r, j, "append")
      BY <1>4 DEF JobAt
    <3>3. QED BY <3>1, <3>2, BlankTyped DEF Accounted, SumInv, Leaves
  <2>2. QED BY <2>1 DEF UsageInv
<1>8. QED BY <1>5, <1>6, <1>7 DEF IInv

LEMMA NextInv ==
    ASSUME IInv, [KeysNext]_keysVars
    PROVE  IInv'
<1>1. CASE UNCHANGED keysVars
  <2>1. UNCHANGED <<keyRows, usage, owed, overlap, view, job>>
    BY <1>1 DEF keysVars
  <2>2. QED BY <2>1, StillStep
<1>2. CASE OutageBegins \/ OutageEnds
  <2>1. UNCHANGED <<keyRows, usage, owed, overlap, view, job>>
    BY <1>2 DEF OutageBegins, OutageEnds, tallies
  <2>2. QED BY <2>1, StillStep
<1>3. ASSUME NEW r \in KeyReplicas, BootStep(r)
      PROVE  IInv'
  BY <1>3, BootStartStep, BootReadStep, BootLoadStep, GenerateStep, BootPublishStep,
     BootDrainStep, BootUnreachableStep, RestartStep DEF BootStep, BootExit
<1>4. ASSUME NEW r \in KeyReplicas, ProbeStart(r) \/ ProbeStep(r)
      PROVE  IInv'
  BY <1>4, ProbeStartStep, ProbeQueryStep, ProbeUnreachableStep, ProbeLoadStep,
     ProbePublishStep, SignTallies DEF ProbeStep
<1>5. ASSUME NEW r \in KeyReplicas, FlushStep(r)
      PROVE  IInv'
  BY <1>5, FlushStartStep, FlushEndStep DEF FlushStep
<1>6. ASSUME NEW r \in KeyReplicas, RotateStart(r) \/ RotateStep(r)
      PROVE  IInv'
  BY <1>6, RotateStartStep, RotateFlushStep, RotateCommitStep, RotateReadStep,
     RotateLoadStep, RotatePublishStep, RotateDrainStep, RotateAuditStep DEF RotateStep
<1>7. ASSUME NEW r \in KeyReplicas, SignStep(r)
      PROVE  IInv'
  <2>1. CASE ThrottleLapses(r)
    <3>1. UNCHANGED <<keyRows, usage, owed, overlap, view, job>>
      BY <2>1 DEF ThrottleLapses
    <3>2. QED BY <3>1, StillStep
  <2>2. QED BY <1>7, <2>1, SignStartStep, SignTallies DEF SignStep
<1>8. ASSUME NEW r \in KeyReplicas, StopStep(r) \/ Crash(r)
      PROVE  IInv'
  BY <1>8, StopStartStep, StopFlushStep, RestartStep DEF StopStep, StopClose, Crash
<1>9. QED BY <1>1, <1>2, <1>3, <1>4, <1>5, <1>6, <1>7, <1>8 DEF KeysNext

\* The inductive invariant: the count of keys and of boots that may add one, and
\* summaries in flight that report no more than what is tallied.
THEOREM CustodyInvariant == KeysSpec => []IInv
<1>1. KeysInit => IInv
  BY InitInv
<1>2. IInv /\ [KeysNext]_keysVars => IInv'
  BY NextInv
<1>3. QED BY <1>1, <1>2, PTL DEF KeysSpec

\* The table never loses its last active key, for any number of replicas that
\* boot, rotate, crash and restart in any order and through outages (init,
\* generateActiveKey, rotate).
THEOREM AlwaysAnActiveKey == KeysSpec => []NeverWithoutActiveKey
<1>1. IInv => NeverWithoutActiveKey
  BY DEF IInv, KeyInv, NeverWithoutActiveKey
<1>2. QED BY <1>1, CustodyInvariant, PTL

\* How far the boot race goes: at most one key per replica is active
\* (generateActiveKey, rotate).
THEOREM ActiveKeysBounded == KeysSpec => [](Cardinality(Actives(keyRows)) <= Cardinality(KeyReplicas))
<1>1. IInv => Cardinality(Actives(keyRows)) <= Cardinality(KeyReplicas)
  BY ActivesFinite, GeneratorsFinite DEF IInv, KeyInv, KeysTyped
<1>2. QED BY <1>1, CustodyInvariant, PTL

\* No signature and no failure is lost from the summaries while no two of a
\* replica overlap, for any number of signatures between and during the appends,
\* and appends that throw before or after their COMMIT (tally, flushUsageSummary,
\* rotate, onModuleDestroy).
THEOREM UsageIsAccounted == KeysSpec => []UsageAccounted
<1>1. IInv => UsageAccounted
  BY DEF IInv, UsageInv, Accounted, UsageAccounted
<1>2. QED BY <1>1, CustodyInvariant, PTL
=============================================================================
