----------------------- MODULE BindingLifecycleProofs -----------------------
(***************************************************************************)
(* Proofs about BindingLifecycle, for any finite number of bindings,       *)
(* nonces and requests in flight, and for any number of citizens and       *)
(* challenges.                                                             *)
(***************************************************************************)
EXTENDS BindingLifecycle, FiniteSetTheorems, TLAPS

-----------------------------------------------------------------------------
(* What a request in flight carries, by the awaited call it is at. *)

ReassertPcs == {"raRead", "raSdid", "raSuspend", "raRevoke", "raStamp"}

DevPcs == {"eIssue", "aRead", "aConsume", "aUpdate", "cRead", "cLocked", "cIssue",
           "lRead", "lConsume", "lFail", "lClear", "lSession",
           "rRead", "rUpdate", "rAudit", "pSet", "pClear"}

CitPcs == {"eAttest", "eMatch", "eFail", "eCount", "eInsert",
           "lRead", "lConsume", "lClear"} \cup ReassertPcs

\* The handlers' arguments are there when an awaited call needs them.
CallShape ==
    \A i \in Calls :
        /\ call[i].pc \in DevPcs => call[i].dev \in Bindings
        /\ call[i].pc \in CitPcs => call[i].cit \in Citizens
        /\ call[i].pc = "eAttest" => call[i].key \in Nonces
        /\ call[i].pc \in {"aRead", "aConsume", "lRead", "lConsume"}
             => call[i].key \in Challenges
        /\ call[i].pc \in {"sRead", "sPick"} => call[i].dev = None

IInv == TypeOK /\ CallShape

-----------------------------------------------------------------------------
(* The right to activate a binding. *)

\* A challenge for b was consumed with the purpose it was issued for.
Spent(purpose, b) ==
    \E x \in Challenges : chal[x] = [st |-> "spent", purpose |-> purpose, dev |-> b]

\* The call will issue the activation challenge of b, or has consumed it.
Holds(i, b) == call[i].pc \in {"eIssue", "aUpdate"} /\ call[i].dev = b

\* The right to activate b is nowhere.
NoRight(b) ==
    /\ \A x \in Challenges : ~Consumable(x, "activation", b)
    /\ \A i \in Calls : ~Holds(i, b)

\* The right to activate b is in one place at most.
OneRight(b) ==
    /\ \A x, y \in Challenges :
          Consumable(x, "activation", b) /\ Consumable(y, "activation", b) => x = y
    /\ \A x \in Challenges, i \in Calls : ~(Consumable(x, "activation", b) /\ Holds(i, b))
    /\ \A i, j \in Calls : Holds(i, b) /\ Holds(j, b) => i = j

\* The right to activate b is gone while b is active, and b is active on the
\* strength of a spent activation challenge only.
RightOf(b) ==
    /\ OneRight(b)
    /\ bstatus[b] \in {"absent", "active"} \/ b \in Enrolled => NoRight(b)
    /\ bstatus[b] = "active" => b \in Enrolled \/ Spent("activation", b)
    /\ b \in Enrolled => bstatus[b] # "absent"
    /\ \A i \in Calls :
          /\ call[i].pc = "aUpdate" /\ call[i].dev = b => Spent("activation", b)
          /\ call[i].pc = "rUpdate" /\ call[i].dev = b => bstatus[b] # "absent"

RightInv == \A b \in Bindings : RightOf(b)

-----------------------------------------------------------------------------
(* What a login has shown on its way to a session. *)

\* The call read an active row.
KnowsDevice(i) ==
    \/ call[i].pc \in {"lConsume", "lClear", "lSession"}
    \/ call[i].pc \in ReassertPcs /\ call[i].dev # None

\* The call consumed the login challenge.
ProvedPossession(i) ==
    \/ call[i].pc \in {"lClear", "lSession"}
    \/ call[i].pc \in ReassertPcs /\ call[i].dev # None

SessionInv ==
    /\ SessionsAreProven
    /\ \A i \in Calls :
          /\ KnowsDevice(i) => call[i].dev \in Enrolled \/ Spent("activation", call[i].dev)
          /\ ProvedPossession(i) => Spent("login", call[i].dev)

-----------------------------------------------------------------------------
(* Counting: rows against nonces, and rows of a citizen against the cap. *)

Rows == {b \in Bindings \ Enrolled : bstatus[b] # "absent"}
SpentNonces == {n \in Nonces : nonce[n] = "spent"}

\* Enrolments that have an attestation and no row yet.
Attested == {i \in Calls : call[i].pc \in {"eMatch", "eCount", "eInsert"}}

AttestInv == Cardinality(Rows) + Cardinality(Attested) <= Cardinality(SpentNonces)

\* Enrolments for c that were counted and not inserted.
Inserting(c) == {i \in Calls : call[i].pc = "eInsert" /\ call[i].cit = c}

\* activate() calls past the read of the row.
Activating == {i \in Calls : call[i].pc \in {"aConsume", "aUpdate"}}

\* Bindings of c that count toward the cap, or that an activate() may bring back.
Weight(c) == NotRevoked(c) \cup
             {b \in BindingsOf(c) : \E i \in Activating : call[i].dev = b}

CapInv ==
    \A c \in Citizens :
        Cardinality(Weight(c)) + Cardinality(Inserting(c))
            <= MaxBindings - 1 + Cardinality(Calls)

-----------------------------------------------------------------------------
(* Types, and the moves of a request in flight. *)

\* The requests other than i do not move.
Others(i) == \A m \in Calls \ {i} : call'[m] = call[m]

\* A request that moves on keeps what it carries.
LEMMA GotoIs ==
    ASSUME TypeOK, NEW i \in Calls, NEW pc \in Pcs, Goto(i, pc)
    PROVE  /\ call' \in [Calls -> Call] /\ Others(i)
           /\ call'[i].pc = pc /\ call'[i].dev = call[i].dev
           /\ call'[i].cit = call[i].cit /\ call'[i].key = call[i].key
  BY DEF TypeOK, Call, Goto, Others

\* A request that is answered leaves nothing behind.
LEMMA ReturnIs ==
    ASSUME TypeOK, NEW i \in Calls, Return(i)
    PROVE  call' \in [Calls -> Call] /\ Others(i) /\ call'[i].pc = "idle"
  BY LimitsAssumption DEF TypeOK, Call, Return, Others, Idle, Pcs

\* A request starts with its handler's arguments.
LEMMA StartIs ==
    ASSUME TypeOK, NEW i \in Calls, NEW pc \in Pcs, NEW b \in Bindings \cup {None},
           NEW c \in Citizens \cup {None}, NEW k \in Nonces \cup Challenges \cup {None},
           Start(i, pc, b, c, k)
    PROVE  /\ call' \in [Calls -> Call] /\ Others(i)
           /\ call'[i].pc = pc /\ call'[i].dev = b
           /\ call'[i].cit = c /\ call'[i].key = k
<1> DEFINE r1 == [Idle EXCEPT !.pc = pc]
           r2 == [r1 EXCEPT !.dev = b]
           r3 == [r2 EXCEPT !.cit = c]
           new == [r3 EXCEPT !.key = k]
<1>1. call' = [call EXCEPT ![i] = new]
  BY DEF Start
<1>2. r1 \in Call /\ r1.pc = pc
  BY LimitsAssumption DEF Call, Idle
<1> HIDE DEF r1
<1>3. r2 \in Call /\ r2.pc = pc /\ r2.dev = b
  BY <1>2 DEF Call
<1> HIDE DEF r2
<1>4. r3 \in Call /\ r3.pc = pc /\ r3.dev = b /\ r3.cit = c
  BY <1>3 DEF Call
<1> HIDE DEF r3
<1>5. new \in Call /\ new.pc = pc /\ new.dev = b /\ new.cit = c /\ new.key = k
  BY <1>4 DEF Call
<1> HIDE DEF new
<1> QED
  BY <1>1, <1>5 DEF TypeOK, Others

\* What the statements on citizens and device_bindings preserve.
LEMMA StoreTyped ==
    ASSUME StoreTypeOK
    PROVE  /\ UNCHANGED storeVars => StoreTypeOK'
           /\ \A c \in Citizens : SuspendCitizen(c) => StoreTypeOK'
           /\ \A c \in Citizens : RevokeActiveBindings(c) => StoreTypeOK'
           /\ \A c \in Citizens : StampReassertion(c) => StoreTypeOK'
           /\ \A b \in Bindings : CadenceElapses(b) => StoreTypeOK'
           /\ \A b \in Bindings : RevokeBinding(b) => StoreTypeOK'
  BY DEF StoreTypeOK, storeVars, SuspendCitizen, RevokeActiveBindings,
         StampReassertion, CadenceElapses, RevokeBinding, CitizenStatus, BindingStatus

\* A key that is issued or taken is a key (issue, consume).
LEMMA KeysTyped ==
    ASSUME TypeOK, NEW x \in Challenges, NEW purpose \in {"activation", "login"},
           NEW b \in Bindings
    PROVE  /\ Issue(x, purpose, b) => chal' \in [Challenges -> Challenge]
           /\ Take(x, purpose, b) => chal' \in [Challenges -> Challenge]
<1>1. Issue(x, purpose, b) => chal' \in [Challenges -> Challenge]
  BY DEF TypeOK, Challenge, KeyState, Issue
<1>2. ASSUME Take(x, purpose, b) PROVE chal' \in [Challenges -> Challenge]
  <2>1. PICK st \in KeyState : chal' = [chal EXCEPT ![x].st = st]
    BY <1>2 DEF Take, TypeOK, Challenge, KeyState
  <2> QED
    BY <2>1 DEF TypeOK, Challenge
<1> QED
  BY <1>1, <1>2

\* A failure counter stays within the limit it is compared with (recordFailure).
LEMMA FailuresTyped ==
    ASSUME TypeOK, NEW k \in LockoutKeys
    PROVE  /\ recordFailure(k) => failures' \in [LockoutKeys -> 0..MaxFailures]
           /\ [failures EXCEPT ![k] = 0] \in [LockoutKeys -> 0..MaxFailures]
  BY LimitsAssumption DEF TypeOK, recordFailure

\* An event that is no request's doing keeps the types.
LEMMA EventTyped ==
    ASSUME TypeOK,
           \/ Expire
           \/ \E n \in Nonces : attestationChallenge(n)
           \/ \E b \in Bindings : Stales(b)
           \/ \E c \in Citizens : SdidInvalidates(c)
           \/ UNCHANGED vars
    PROVE  TypeOK'
<1> USE DEF keys
<1>1. CASE \E n \in Nonces : attestationChallenge(n)
  BY <1>1, StoreTyped DEF TypeOK, attestationChallenge, KeyState
<1>2. CASE \E b \in Bindings : Stales(b)
  BY <1>2, StoreTyped DEF TypeOK, Stales
<1>3. CASE \E c \in Citizens : SdidInvalidates(c)
  BY <1>3, StoreTyped DEF TypeOK, SdidInvalidates
<1>4. CASE UNCHANGED vars
  BY <1>4, StoreTyped DEF TypeOK, vars
<1>5. CASE Expire
  <2>1. StoreTypeOK' /\ UNCHANGED <<sdidValid, push, call>>
    BY <1>5, StoreTyped DEF TypeOK, Expire
  <2>2. ASSUME NEW x \in Challenges, chal' = [chal EXCEPT ![x].st = "gone"],
               UNCHANGED <<nonce, failures, sessions>>
        PROVE  TypeOK'
    BY <2>1, <2>2 DEF TypeOK, Challenge, KeyState
  <2>3. ASSUME NEW n \in Nonces, nonce' = [nonce EXCEPT ![n] = "gone"],
               UNCHANGED <<chal, failures, sessions>>
        PROVE  TypeOK'
    BY <2>1, <2>3 DEF TypeOK, KeyState
  <2>4. ASSUME NEW k \in LockoutKeys, failures' = [failures EXCEPT ![k] = 0],
               UNCHANGED <<chal, nonce, sessions>>
        PROVE  TypeOK'
    BY <2>1, <2>4, FailuresTyped DEF TypeOK
  <2>5. ASSUME NEW b \in sessions, sessions' = sessions \ {b},
               UNCHANGED <<chal, nonce, failures>>
        PROVE  TypeOK'
    BY <2>1, <2>5 DEF TypeOK
  <2> QED
    BY <1>5, <2>2, <2>3, <2>4, <2>5 DEF Expire
<1> QED
  BY <1>1, <1>2, <1>3, <1>4, <1>5

\* A request that starts is well typed and carries what its handler needs.
LEMMA RequestTyped ==
    ASSUME IInv, NEW i \in Calls, Request(i) \/ Sweep(i)
    PROVE  IInv'
<1> USE DEF keys
<1>1. StoreTypeOK' /\ UNCHANGED <<sdidValid, push, nonce, chal, failures, sessions>>
  BY StoreTyped DEF IInv, TypeOK, Request, Sweep, EnrolStart, Activate, Login,
     LoginChallenge, revokeBinding, registerPushToken, removePushToken
<1>2. \E pc \in {"eAttest", "aRead", "cRead", "lRead", "rRead", "pSet", "pClear", "sRead"},
         b \in Bindings \cup {None}, c \in Citizens \cup {None},
         k \in Nonces \cup Challenges \cup {None} :
        /\ Start(i, pc, b, c, k)
        /\ pc \in DevPcs => b \in Bindings
        /\ pc \in {"eAttest", "lRead"} => c \in Citizens
        /\ pc = "eAttest" => k \in Nonces
        /\ pc \in {"aRead", "lRead"} => k \in Challenges
        /\ pc = "sRead" => b = None
  BY OwnerAssumption DEF Request, Sweep, EnrolStart, Activate, Login, LoginChallenge,
     revokeBinding, registerPushToken, removePushToken, DevPcs
<1>3. PICK pc \in {"eAttest", "aRead", "cRead", "lRead", "rRead", "pSet", "pClear", "sRead"},
         b \in Bindings \cup {None}, c \in Citizens \cup {None},
         k \in Nonces \cup Challenges \cup {None} :
        /\ Start(i, pc, b, c, k)
        /\ pc \in DevPcs => b \in Bindings
        /\ pc \in {"eAttest", "lRead"} => c \in Citizens
        /\ pc = "eAttest" => k \in Nonces
        /\ pc \in {"aRead", "lRead"} => k \in Challenges
        /\ pc = "sRead" => b = None
  BY <1>2
<1>4. /\ call' \in [Calls -> Call] /\ Others(i)
      /\ call'[i].pc = pc /\ call'[i].dev = b
      /\ call'[i].cit = c /\ call'[i].key = k
  <2>1. pc \in Pcs
    BY DEF Pcs
  <2> QED
    BY <1>3, <2>1, StartIs DEF IInv
<1>5. TypeOK'
  BY <1>1, <1>4 DEF IInv, TypeOK
<1>6. CallShape'
  BY <1>3, <1>4 DEF IInv, CallShape, Others, CitPcs, ReassertPcs
<1> QED
  BY <1>5, <1>6 DEF IInv

\* A request that learns something on the way keeps the rest.
LEMMA FieldIs ==
    ASSUME NEW f \in [Calls -> Call], NEW i \in Calls
    PROVE  /\ \A pc \in Pcs :
                 LET g == [f EXCEPT ![i].pc = pc] IN
                 /\ g \in [Calls -> Call] /\ \A m \in Calls \ {i} : g[m] = f[m]
                 /\ g[i].pc = pc /\ g[i].dev = f[i].dev /\ g[i].cit = f[i].cit
                 /\ g[i].key = f[i].key /\ g[i].left = f[i].left /\ g[i].todo = f[i].todo
           /\ \A b \in Bindings :
                 LET g == [f EXCEPT ![i].dev = b] IN
                 /\ g \in [Calls -> Call] /\ \A m \in Calls \ {i} : g[m] = f[m]
                 /\ g[i].pc = f[i].pc /\ g[i].dev = b
           /\ \A c \in Citizens :
                 LET g == [f EXCEPT ![i].cit = c] IN
                 /\ g \in [Calls -> Call] /\ \A m \in Calls \ {i} : g[m] = f[m]
                 /\ g[i].pc = f[i].pc /\ g[i].dev = f[i].dev /\ g[i].cit = c
                 /\ g[i].left = f[i].left /\ g[i].todo = f[i].todo
           /\ \A S \in SUBSET Citizens :
                 LET g == [f EXCEPT ![i].todo = S] IN
                 /\ g \in [Calls -> Call] /\ \A m \in Calls \ {i} : g[m] = f[m]
                 /\ g[i].pc = f[i].pc /\ g[i].dev = f[i].dev /\ g[i].cit = f[i].cit
                 /\ g[i].key = f[i].key /\ g[i].left = f[i].left
           /\ \A n \in 0..SweepLimit :
                 LET g == [f EXCEPT ![i].left = n] IN
                 /\ g \in [Calls -> Call] /\ \A m \in Calls \ {i} : g[m] = f[m]
                 /\ g[i].pc = f[i].pc /\ g[i].dev = f[i].dev /\ g[i].cit = f[i].cit
                 /\ g[i].key = f[i].key
  BY DEF Call

\* The INSERT tells the request its binding.
LEMMA InsertIs ==
    ASSUME TypeOK, NEW i \in Calls, NEW b \in Bindings, EnrolInsert(i, b)
    PROVE  /\ call' \in [Calls -> Call] /\ Others(i)
           /\ call'[i].pc = "eIssue" /\ call'[i].dev = b
<1> DEFINE f == [call EXCEPT ![i].pc = "eIssue"]
<1>1. f \in [Calls -> Call] /\ f[i].pc = "eIssue" /\ \A m \in Calls \ {i} : f[m] = call[m]
  BY DEF TypeOK, Call, Pcs
<1>2. call' = [f EXCEPT ![i].dev = b]
  BY DEF EnrolInsert
<1> HIDE DEF f
<1> QED
  BY <1>1, <1>2, FieldIs DEF Others

\* The row the login read tells it whether the citizen is due.
LEMMA LoginReadIs ==
    ASSUME IInv, NEW i \in Calls, LoginRead(i), bstatus[call[i].dev] = "active"
    PROVE  /\ call' \in [Calls -> Call] /\ Others(i)
           /\ call'[i].pc = "lConsume" /\ call'[i].dev = call[i].dev
           /\ call'[i].cit = call[i].cit /\ call'[i].key = call[i].key
<1> DEFINE f == [call EXCEPT ![i].pc = "lConsume"]
<1> DEFINE S == IF isDue(call[i].dev, FALSE) THEN {call[i].cit} ELSE {}
<1>1. /\ f \in [Calls -> Call] /\ \A m \in Calls \ {i} : f[m] = call[m]
      /\ f[i].pc = "lConsume" /\ f[i].dev = call[i].dev
      /\ f[i].cit = call[i].cit /\ f[i].key = call[i].key
  BY DEF IInv, TypeOK, Call, Pcs
<1>2. S \in SUBSET Citizens
  BY DEF IInv, CallShape, LoginRead, CitPcs
<1>3. call' = [f EXCEPT ![i].todo = S]
  BY DEF LoginRead
<1> HIDE DEF f, S
<1> QED
  BY <1>1, <1>2, <1>3, FieldIs DEF Others

\* A sweep learns which citizens are due.
LEMMA SweepReadIs ==
    ASSUME IInv, NEW i \in Calls, SweepRead(i)
    PROVE  /\ call' \in [Calls -> Call] /\ Others(i)
           /\ call'[i].pc = "sPick" /\ call'[i].dev = None
<1> DEFINE f == [call EXCEPT ![i].pc = "sPick"]
           g == [f EXCEPT ![i].todo = DueCitizens]
<1>1. /\ f \in [Calls -> Call] /\ \A m \in Calls \ {i} : f[m] = call[m]
      /\ f[i].pc = "sPick" /\ f[i].dev = None
  BY DEF IInv, TypeOK, Call, CallShape, SweepRead, Pcs
<1>2. DueCitizens \in SUBSET Citizens
  BY DEF DueCitizens
<1>lim. SweepLimit \in 0..SweepLimit
  BY LimitsAssumption
<1>3. call' = [g EXCEPT ![i].left = SweepLimit]
  BY DEF SweepRead
<1> HIDE DEF f
<1>4. /\ g \in [Calls -> Call] /\ \A m \in Calls \ {i} : g[m] = call[m]
      /\ g[i].pc = "sPick" /\ g[i].dev = None
  BY <1>1, <1>2, FieldIs
<1> HIDE DEF g
<1> QED
  BY <1>lim, <1>3, <1>4, FieldIs DEF Others

\* A sweep that has a citizen left to contact goes on with that citizen.
LEMMA SweepPickIs ==
    ASSUME IInv, NEW i \in Calls, SweepPick(i), call[i].todo # {}, call[i].left # 0
    PROVE  /\ call' \in [Calls -> Call] /\ Others(i)
           /\ call'[i].pc = "raRead" /\ call'[i].dev = None /\ call'[i].cit \in Citizens
<1>1. PICK c \in call[i].todo :
        call' = [call EXCEPT ![i].pc = "raRead", ![i].cit = c,
                             ![i].todo = @ \ {c}, ![i].left = @ - 1]
  BY DEF SweepPick
<1> DEFINE f == [call EXCEPT ![i].pc = "raRead"]
           g == [f EXCEPT ![i].cit = c]
           h == [g EXCEPT ![i].todo = call[i].todo \ {c}]
<1>2. /\ call[i].todo \in SUBSET Citizens /\ call[i].todo \ {c} \in SUBSET Citizens
      /\ call[i].left - 1 \in 0..SweepLimit
  BY LimitsAssumption DEF IInv, TypeOK, Call
<1>3. c \in Citizens
  BY <1>2
<1>4. /\ f \in [Calls -> Call] /\ \A m \in Calls \ {i} : f[m] = call[m]
      /\ f[i].pc = "raRead" /\ f[i].dev = None
      /\ f[i].todo = call[i].todo /\ f[i].left = call[i].left
  <2>1. call[i].dev = None
    BY DEF IInv, CallShape, SweepPick
  <2>2. "raRead" \in Pcs
    BY DEF Pcs
  <2> QED
    BY <2>1, <2>2 DEF IInv, TypeOK, Call
<1>5. call' = [h EXCEPT ![i].left = call[i].left - 1]
  BY <1>1
<1> HIDE DEF f
<1>6. /\ g \in [Calls -> Call] /\ \A m \in Calls \ {i} : g[m] = call[m]
      /\ g[i].pc = "raRead" /\ g[i].dev = None /\ g[i].cit = c
      /\ g[i].todo = call[i].todo /\ g[i].left = call[i].left
  BY <1>3, <1>4, FieldIs
<1> HIDE DEF g
<1>7. /\ h \in [Calls -> Call] /\ \A m \in Calls \ {i} : h[m] = call[m]
      /\ h[i].pc = "raRead" /\ h[i].dev = None /\ h[i].cit = c
      /\ h[i].left = call[i].left
  BY <1>2, <1>6, FieldIs
<1> HIDE DEF h
<1> QED
  BY <1>2, <1>3, <1>5, <1>7, FieldIs DEF Others

-----------------------------------------------------------------------------
(* The steps of a request, by what the invariants can see of them. *)

\* Awaited calls at which a request holds nothing that an invariant speaks of.
Aside == {"idle", "eAttest", "eFail", "aRead", "cRead", "cLocked", "cIssue",
          "lRead", "lFail", "rRead", "rAudit", "pSet", "pClear", "sRead", "sPick"}

\* A request moves on and leaves rows, keys and sessions alone.
Advances(i) ==
    /\ Others(i)
    /\ UNCHANGED <<bstatus, nonce, chal, sessions>>
    /\ \/ call'[i].pc \in Aside
       \/ call[i].pc = "sPick" /\ call'[i].pc = "raRead" /\ call'[i].dev = None
       \/ /\ call'[i].dev = call[i].dev /\ call'[i].cit = call[i].cit
          /\ \/ call[i].pc = "eMatch" /\ call'[i].pc = "eCount"
             \/ /\ call[i].pc = "eCount" /\ call'[i].pc = "eInsert"
                /\ ~(Cardinality(NotRevoked(call[i].cit)) >= MaxBindings)
             \/ /\ call[i].pc = "aRead" /\ call'[i].pc = "aConsume"
                /\ bstatus[call[i].dev] = "pending"
             \/ /\ call[i].pc = "lRead" /\ call'[i].pc = "lConsume"
                /\ bstatus[call[i].dev] = "active"
             \/ call[i].pc \in {"lClear"} \cup ReassertPcs /\ call'[i].pc \in ReassertPcs
             \/ /\ call[i].pc \in {"lClear", "raStamp"} /\ call'[i].pc = "lSession"
                /\ call[i].dev \in Bindings
             \/ /\ call[i].pc = "rRead" /\ call'[i].pc = "rUpdate"
                /\ bstatus[call[i].dev] # "absent"

\* A step of a request that changes a row, a key or a session.
Writes(i) ==
    \/ EnrolAttest(i) \/ \E b \in Bindings : EnrolInsert(i, b)
    \/ \E x \in Challenges : EnrolIssue(i, x) \/ ChallengeIssue(i, x)
    \/ ActivateConsume(i) \/ ActivateUpdate(i) \/ LoginConsume(i) \/ LoginSession(i)
    \/ ReassertRevoke(i) \/ RevokeUpdate(i)

\* What Goto and Return are to Advances.
LEMMA GotoAdvances ==
    ASSUME IInv, NEW i \in Calls
    PROVE  /\ \A pc \in Pcs : Goto(i, pc) =>
                 /\ call' \in [Calls -> Call] /\ Others(i)
                 /\ call'[i].pc = pc /\ call'[i].dev = call[i].dev
                 /\ call'[i].cit = call[i].cit /\ call'[i].key = call[i].key
           /\ Return(i) => /\ call' \in [Calls -> Call] /\ Others(i)
                           /\ call'[i].pc = "idle"
  BY GotoIs, ReturnIs DEF IInv

\* Every step of a request that writes nothing is an Advances step.
LEMMA StepAdvances ==
    ASSUME IInv, NEW i \in Calls, Step(i) \/ Abort(i), ~Writes(i)
    PROVE  Advances(i)
<1> USE DEF keys, storeVars
<1>pcs. /\ "eCount" \in Pcs /\ "eFail" \in Pcs /\ "eInsert" \in Pcs /\ "aConsume" \in Pcs
        /\ "cLocked" \in Pcs /\ "cIssue" \in Pcs /\ "lFail" \in Pcs /\ "raRead" \in Pcs
        /\ "lSession" \in Pcs /\ "raSdid" \in Pcs /\ "raStamp" \in Pcs /\ "sPick" \in Pcs
        /\ "raSuspend" \in Pcs /\ "raRevoke" \in Pcs /\ "rUpdate" \in Pcs
  BY DEF Pcs
<1>1. CASE EnrolMatch(i) \/ EnrolFail(i) \/ EnrolCount(i)
  BY <1>1, <1>pcs, GotoAdvances DEF EnrolMatch, EnrolFail, EnrolCount, Advances, Aside
<1>2. CASE ActivateRead(i) \/ ChallengeRead(i) \/ ChallengeLocked(i)
  BY <1>2, <1>pcs, GotoAdvances DEF ActivateRead, ChallengeRead, ChallengeLocked, Advances, Aside
<1>3. CASE LoginRead(i)
  <2>1. CASE bstatus[call[i].dev] = "active"
    BY <1>3, <2>1, LoginReadIs DEF LoginRead, Advances
  <2>2. CASE bstatus[call[i].dev] # "active"
    BY <1>3, <2>2, GotoAdvances DEF LoginRead, Advances, Aside
  <2> QED
    BY <2>1, <2>2
<1>4. CASE LoginFail(i) \/ LoginClear(i)
  <2>1. call[i].pc = "lClear" => call[i].dev \in Bindings
    BY DEF IInv, CallShape, DevPcs
  <2> QED
    BY <1>4, <2>1, <1>pcs, GotoAdvances DEF LoginFail, LoginClear, Advances, Aside, ReassertPcs
<1>5. CASE ReassertRead(i) \/ ReassertSdid(i) \/ ReassertSuspend(i)
  BY <1>5, <1>pcs, GotoAdvances DEF ReassertRead, ReassertSdid, ReassertSuspend,
     SuspendCitizen, Denied, Advances, Aside, ReassertPcs
<1>6. CASE ReassertStamp(i)
  <2>1. call[i].dev = None \/ call[i].dev \in Bindings
    BY DEF IInv, TypeOK, Call
  <2> QED
    BY <1>6, <2>1, <1>pcs, GotoAdvances DEF ReassertStamp, StampReassertion, InSweep,
       Advances, Aside
<1>7. CASE SweepRead(i)
  BY <1>7, SweepReadIs DEF SweepRead, Advances, Aside
<1>8. CASE SweepPick(i)
  <2>1. CASE call[i].todo = {} \/ call[i].left = 0
    BY <1>8, <2>1, GotoAdvances DEF SweepPick, Advances, Aside
  <2>2. CASE ~(call[i].todo = {} \/ call[i].left = 0)
    BY <1>8, <2>2, SweepPickIs DEF SweepPick, Advances
  <2> QED
    BY <2>1, <2>2
<1>9. CASE RevokeRead(i) \/ RevokeAudit(i) \/ PushSet(i) \/ PushClear(i) \/ Abort(i)
  BY <1>9, <1>pcs, GotoAdvances DEF RevokeRead, RevokeAudit, PushSet, PushClear, Abort,
     Advances, Aside
<1> QED
  BY <1>1, <1>2, <1>3, <1>4, <1>5, <1>6, <1>7, <1>8, <1>9 DEF Step, Writes

\* A request that starts is an Advances step too.
LEMMA RequestAdvances ==
    ASSUME IInv, NEW i \in Calls, Request(i) \/ Sweep(i)
    PROVE  Advances(i)
<1> USE DEF keys, storeVars
<1>1. UNCHANGED <<bstatus, nonce, chal, sessions>>
  BY DEF Request, Sweep, EnrolStart, Activate, Login,
     LoginChallenge, revokeBinding, registerPushToken, removePushToken
<1>2. \E pc \in Aside, b \in Bindings \cup {None}, c \in Citizens \cup {None},
         k \in Nonces \cup Challenges \cup {None} : Start(i, pc, b, c, k)
  BY OwnerAssumption DEF Request, Sweep, EnrolStart, Activate, Login, LoginChallenge,
     revokeBinding, registerPushToken, removePushToken, Aside
<1>3. \A pc \in Aside : pc \in Pcs
  BY DEF Aside, Pcs
<1>4. call'[i].pc \in Aside /\ Others(i)
  BY <1>2, <1>3, StartIs DEF IInv
<1> QED
  BY <1>1, <1>4 DEF Advances

\* A step of a request leaves every request with what its next awaited call needs.
LEMMA StepCalls ==
    ASSUME IInv, NEW i \in Calls, Step(i) \/ Abort(i)
    PROVE  call' \in [Calls -> Call] /\ CallShape'
<1> USE DEF IInv, CallShape, Others, DevPcs, CitPcs, ReassertPcs
<1>pcs. /\ "eMatch" \in Pcs /\ "eCount" \in Pcs /\ "eFail" \in Pcs /\ "eInsert" \in Pcs
        /\ "aConsume" \in Pcs /\ "aUpdate" \in Pcs /\ "cLocked" \in Pcs /\ "cIssue" \in Pcs
        /\ "lFail" \in Pcs /\ "lClear" \in Pcs /\ "lSession" \in Pcs /\ "raRead" \in Pcs
        /\ "raSdid" \in Pcs /\ "raStamp" \in Pcs /\ "raSuspend" \in Pcs
        /\ "raRevoke" \in Pcs /\ "rUpdate" \in Pcs /\ "rAudit" \in Pcs /\ "sPick" \in Pcs
  BY DEF Pcs
<1>dev. call[i].dev \in Bindings \cup {None}
  BY DEF TypeOK, Call
<1>1. CASE EnrolAttest(i) \/ EnrolMatch(i) \/ EnrolFail(i) \/ EnrolCount(i)
  BY <1>1, <1>pcs, GotoAdvances DEF EnrolAttest, EnrolMatch, EnrolFail, EnrolCount
<1>2. ASSUME NEW b \in Bindings, EnrolInsert(i, b)
      PROVE  call' \in [Calls -> Call] /\ CallShape'
  BY <1>2, InsertIs
<1>3. CASE \E x \in Challenges : EnrolIssue(i, x) \/ ChallengeIssue(i, x)
  BY <1>3, GotoAdvances DEF EnrolIssue, ChallengeIssue
<1>4. CASE ActivateRead(i) \/ ActivateConsume(i) \/ ActivateUpdate(i)
  BY <1>4, <1>pcs, GotoAdvances DEF ActivateRead, ActivateConsume, ActivateUpdate
<1>5. CASE ChallengeRead(i) \/ ChallengeLocked(i)
  BY <1>5, <1>pcs, GotoAdvances DEF ChallengeRead, ChallengeLocked
<1>6. CASE LoginRead(i)
  <2>1. CASE bstatus[call[i].dev] = "active"
    <3>1. call[i].pc = "lRead"
      BY <1>6 DEF LoginRead
    <3> QED
      BY <1>6, <2>1, <3>1, LoginReadIs
  <2>2. CASE bstatus[call[i].dev] # "active"
    BY <1>6, <2>2, GotoAdvances DEF LoginRead
  <2> QED
    BY <2>1, <2>2
<1>7. CASE LoginConsume(i) \/ LoginFail(i) \/ LoginClear(i) \/ LoginSession(i)
  <2>1. call[i].pc \in {"lConsume", "lFail", "lClear", "lSession"}
    BY <1>7 DEF LoginConsume, LoginFail, LoginClear, LoginSession
  <2>2. \/ Return(i) \/ Goto(i, "lFail") \/ Goto(i, "lSession")
        \/ call[i].pc = "lConsume" /\ Goto(i, "lClear")
        \/ call[i].pc = "lClear" /\ Goto(i, "raRead")
    BY <1>7 DEF LoginConsume, LoginFail, LoginClear, LoginSession
  <2> QED
    BY <2>1, <2>2, <1>pcs, GotoAdvances
<1>8. CASE ReassertRead(i) \/ ReassertSdid(i) \/ ReassertSuspend(i)
  BY <1>8, <1>pcs, GotoAdvances DEF ReassertRead, ReassertSdid, ReassertSuspend, Denied, InSweep
<1>9. CASE ReassertRevoke(i) \/ ReassertStamp(i)
  BY <1>9, <1>dev, <1>pcs, GotoAdvances DEF ReassertRevoke, ReassertStamp, Denied, InSweep
<1>10. CASE SweepRead(i)
  BY <1>10, SweepReadIs
<1>11. CASE SweepPick(i)
  <2>1. CASE call[i].todo = {} \/ call[i].left = 0
    <3>1. Return(i)
      BY <1>11, <2>1 DEF SweepPick
    <3> QED
      BY <3>1, GotoAdvances
  <2>2. CASE ~(call[i].todo = {} \/ call[i].left = 0)
    BY <1>11, <2>2, SweepPickIs
  <2> QED
    BY <2>1, <2>2
<1>12. CASE RevokeRead(i) \/ RevokeUpdate(i) \/ RevokeAudit(i) \/ PushSet(i) \/ PushClear(i)
  BY <1>12, <1>pcs, GotoAdvances DEF RevokeRead, RevokeUpdate, RevokeAudit, PushSet, PushClear
<1>13. CASE Abort(i)
  BY <1>13, <1>pcs, GotoAdvances DEF Abort
<1> QED
  BY <1>1, <1>2, <1>3, <1>4, <1>5, <1>6, <1>7, <1>8, <1>9, <1>10, <1>11, <1>12, <1>13
     DEF Step

\* A step of a request keeps the tables, keys, counters and sessions typed.
LEMMA StepTyped ==
    ASSUME IInv, NEW i \in Calls, Step(i) \/ Abort(i)
    PROVE  TypeOK'
<1> USE DEF keys
<1>call. call' \in [Calls -> Call]
  BY StepCalls
<1>shape. /\ call[i].pc \in DevPcs => call[i].dev \in Bindings
          /\ call[i].pc \in CitPcs => call[i].cit \in Citizens
          /\ call[i].pc = "eAttest" => call[i].key \in Nonces
          /\ call[i].pc \in {"aRead", "aConsume", "lRead", "lConsume"}
               => call[i].key \in Challenges
  BY DEF IInv, CallShape
<1>1. CASE EnrolAttest(i)
  BY <1>1, <1>call, <1>shape, StoreTyped DEF EnrolAttest, IInv, TypeOK, KeyState
<1>2. CASE EnrolFail(i)
  <2>1. call[i].cit \in LockoutKeys
    BY <1>2, <1>shape DEF EnrolFail, LockoutKeys, CitPcs
  <2> QED
    BY <1>2, <2>1, <1>call, StoreTyped, FailuresTyped DEF EnrolFail, IInv, TypeOK
<1>3. ASSUME NEW b \in Bindings, EnrolInsert(i, b) PROVE TypeOK'
  BY <1>3, <1>call DEF EnrolInsert, IInv, TypeOK, StoreTypeOK, BindingStatus
<1>4. ASSUME NEW x \in Challenges, EnrolIssue(i, x) \/ ChallengeIssue(i, x) PROVE TypeOK'
  <2>1. call[i].dev \in Bindings
    BY <1>4, <1>shape DEF EnrolIssue, ChallengeIssue, DevPcs
  <2>2. chal' \in [Challenges -> Challenge]
    BY <1>4, <2>1, KeysTyped DEF IInv, EnrolIssue, ChallengeIssue
  <2> QED
    BY <1>4, <2>2, <1>call, StoreTyped DEF EnrolIssue, ChallengeIssue, IInv, TypeOK
<1>5. CASE ActivateConsume(i) \/ LoginConsume(i)
  <2>1. call[i].dev \in Bindings /\ call[i].key \in Challenges
    BY <1>5, <1>shape DEF ActivateConsume, LoginConsume, DevPcs
  <2>2. chal' \in [Challenges -> Challenge]
    BY <1>5, <2>1, KeysTyped DEF IInv, ActivateConsume, LoginConsume
  <2> QED
    BY <1>5, <2>2, <1>call, StoreTyped DEF ActivateConsume, LoginConsume, IInv, TypeOK
<1>6. CASE ActivateUpdate(i)
  BY <1>6, <1>call DEF ActivateUpdate, IInv, TypeOK, StoreTypeOK, BindingStatus
<1>7. CASE LoginFail(i) \/ LoginClear(i)
  <2>1. call[i].dev \in LockoutKeys
    BY <1>7, <1>shape DEF LoginFail, LoginClear, LockoutKeys, DevPcs
  <2> QED
    BY <1>7, <2>1, <1>call, StoreTyped, FailuresTyped DEF LoginFail, LoginClear, IInv, TypeOK
<1>8. CASE LoginSession(i)
  BY <1>8, <1>call, <1>shape, StoreTyped DEF LoginSession, IInv, TypeOK, DevPcs
<1>9. CASE ReassertSuspend(i) \/ ReassertRevoke(i) \/ ReassertStamp(i)
  <2>1. call[i].cit \in Citizens
    BY <1>9, <1>shape DEF ReassertSuspend, ReassertRevoke, ReassertStamp, CitPcs, ReassertPcs
  <2> QED
    BY <1>9, <2>1, <1>call, StoreTyped
       DEF ReassertSuspend, ReassertRevoke, ReassertStamp, IInv, TypeOK
<1>10. CASE RevokeUpdate(i) \/ PushSet(i) \/ PushClear(i)
  <2>1. call[i].dev \in Bindings
    BY <1>10, <1>shape DEF RevokeUpdate, PushSet, PushClear, DevPcs
  <2> QED
    BY <1>10, <2>1, <1>call, StoreTyped DEF RevokeUpdate, PushSet, PushClear, IInv, TypeOK
<1>11. CASE EnrolMatch(i) \/ EnrolCount(i) \/ ActivateRead(i) \/ ChallengeRead(i)
  BY <1>11, <1>call, StoreTyped
     DEF EnrolMatch, EnrolCount, ActivateRead, ChallengeRead, IInv, TypeOK
<1>12. CASE ChallengeLocked(i) \/ LoginRead(i) \/ ReassertRead(i) \/ ReassertSdid(i)
  BY <1>12, <1>call, StoreTyped
     DEF ChallengeLocked, LoginRead, ReassertRead, ReassertSdid, IInv, TypeOK
<1>13. CASE SweepRead(i) \/ SweepPick(i) \/ RevokeRead(i) \/ RevokeAudit(i) \/ Abort(i)
  BY <1>13, <1>call, StoreTyped
     DEF SweepRead, SweepPick, RevokeRead, RevokeAudit, Abort, IInv, TypeOK
<1> QED
  BY <1>1, <1>2, <1>3, <1>4, <1>5, <1>6, <1>7, <1>8, <1>9, <1>10, <1>11, <1>12, <1>13
     DEF Step

\* Every step keeps the types and the shape of the requests in flight.
LEMMA TypeStep == IInv /\ [Next]_vars => IInv'
<1> SUFFICES ASSUME IInv, [Next]_vars PROVE IInv'
  OBVIOUS
<1>1. ASSUME NEW i \in Calls, Request(i) \/ Sweep(i) PROVE IInv'
  BY <1>1, RequestTyped
<1>2. ASSUME NEW i \in Calls, Step(i) \/ Abort(i) PROVE IInv'
  BY <1>2, StepCalls, StepTyped DEF IInv
<1>3. CASE \/ Expire
           \/ \E n \in Nonces : attestationChallenge(n)
           \/ \E b \in Bindings : Stales(b)
           \/ \E c \in Citizens : SdidInvalidates(c)
           \/ UNCHANGED vars
  <2>1. TypeOK'
    BY <1>3, EventTyped DEF IInv
  <2>2. call' = call
    BY <1>3 DEF Expire, attestationChallenge, Stales, SdidInvalidates, vars
  <2> QED
    BY <2>1, <2>2 DEF IInv, CallShape
<1> QED
  BY <1>1, <1>2, <1>3, SweepersAssumption DEF Next

\* The broker starts well typed, with no request in flight.
LEMMA InitTyped == Init => IInv
  BY EnrolledAssumption, LimitsAssumption
     DEF Init, IInv, TypeOK, StoreTypeOK, CitizenStatus, BindingStatus, KeyState,
         Challenge, Call, Idle, Pcs, CallShape, DevPcs, CitPcs, ReassertPcs

\* Rows, keys, counters, sessions and requests in flight keep their types and
\* shapes through every handler of enrolment, login, revocation and the sweep.
THEOREM LifecycleTyped == Spec => []TypeOK
<1>1. IInv => TypeOK
  BY DEF IInv
<1> QED
  BY <1>1, InitTyped, TypeStep, PTL DEF Spec

\* The same with what each request carries, for the theorems below.
THEOREM LifecycleShaped == Spec => []IInv
  BY InitTyped, TypeStep, PTL DEF Spec

-----------------------------------------------------------------------------
(* Challenges: what is issued, and what GETDEL leaves. *)

\* No key comes to life, and a spent one stays as it is.
KeysOnlyEnd ==
    \A y \in Challenges :
        /\ chal'[y].st = "live" => chal'[y] = chal[y]
        /\ chal[y].st = "spent" => chal'[y] = chal[y]

\* SET of a fresh key.
LEMMA IssueIs ==
    ASSUME TypeOK, NEW x \in Challenges, NEW purpose, NEW b, Issue(x, purpose, b)
    PROVE  /\ chal[x].st = "none"
           /\ chal'[x] = [st |-> "live", purpose |-> purpose, dev |-> b]
           /\ \A y \in Challenges \ {x} : chal'[y] = chal[y]
  BY DEF TypeOK, Issue

\* GETDEL spends the key for the caller it was issued to, and ends it for any other.
LEMMA TakeIs ==
    ASSUME TypeOK, NEW x \in Challenges, NEW purpose, NEW b, Take(x, purpose, b)
    PROVE  /\ KeysOnlyEnd
           /\ chal'[x].st # "live"
           /\ Consumable(x, purpose, b) =>
                chal'[x] = [st |-> "spent", purpose |-> purpose, dev |-> b]
           /\ \A y \in Challenges \ {x} : chal'[y] = chal[y]
<1>1. chal[x] \in Challenge /\ chal[x] = [st |-> chal[x].st, purpose |-> chal[x].purpose,
                                          dev |-> chal[x].dev]
  BY DEF TypeOK, Challenge
<1>2. chal'[x] = [chal[x] EXCEPT !.st = IF @ # "live" THEN @
               ELSE IF Consumable(x, purpose, b) THEN "spent" ELSE "gone"]
  BY DEF TypeOK, Take
<1>3. \A y \in Challenges \ {x} : chal'[y] = chal[y]
  BY DEF TypeOK, Take
<1>4. chal[x].st # "live" => chal'[x] = chal[x]
  BY <1>1, <1>2 DEF Challenge
<1>5. Consumable(x, purpose, b) =>
        chal'[x] = [st |-> "spent", purpose |-> purpose, dev |-> b]
  BY <1>1, <1>2 DEF Challenge, Consumable
<1>6. chal'[x].st # "live"
  BY <1>1, <1>2 DEF Challenge
<1> QED
  BY <1>3, <1>4, <1>5, <1>6 DEF KeysOnlyEnd

\* A step changes the keys by a SET, by a GETDEL or by a TTL.
LEMMA SpentStays ==
    ASSUME IInv, [Next]_vars
    PROVE  /\ \A y \in Challenges : chal[y].st = "spent" => chal'[y] = chal[y]
           /\ \A purpose \in {"activation", "login"}, b \in Bindings :
                 Spent(purpose, b) => Spent(purpose, b)'
<1>1. \A y \in Challenges : chal[y].st = "spent" => chal'[y] = chal[y]
  <2>1. ASSUME NEW i \in Calls, Request(i) \/ Sweep(i) PROVE chal' = chal
    BY <2>1, RequestAdvances DEF Advances
  <2>2. ASSUME NEW i \in Calls, Step(i) \/ Abort(i)
        PROVE  \A y \in Challenges : chal[y].st = "spent" => chal'[y] = chal[y]
    <3>1. CASE ~Writes(i)
      BY <2>2, <3>1, StepAdvances DEF Advances
    <3>2. CASE \/ EnrolAttest(i) \/ \E b \in Bindings : EnrolInsert(i, b)
               \/ ActivateUpdate(i) \/ LoginSession(i) \/ ReassertRevoke(i) \/ RevokeUpdate(i)
      BY <3>2 DEF EnrolAttest, EnrolInsert, ActivateUpdate, LoginSession, ReassertRevoke,
         RevokeUpdate, keys
    <3>3. ASSUME NEW x \in Challenges, EnrolIssue(i, x) \/ ChallengeIssue(i, x)
          PROVE  \A y \in Challenges : chal[y].st = "spent" => chal'[y] = chal[y]
      BY <3>3, IssueIs DEF IInv, EnrolIssue, ChallengeIssue
    <3>4. CASE ActivateConsume(i) \/ LoginConsume(i)
      <4>1. call[i].key \in Challenges
        BY <3>4 DEF IInv, CallShape, ActivateConsume, LoginConsume
      <4> QED
        BY <3>4, <4>1, TakeIs DEF IInv, ActivateConsume, LoginConsume, KeysOnlyEnd
    <3> QED
      BY <3>1, <3>2, <3>3, <3>4 DEF Writes
  <2>3. CASE Expire
    BY <2>3 DEF Expire, IInv, TypeOK
  <2>4. CASE \/ \E n \in Nonces : attestationChallenge(n)
             \/ \E b \in Bindings : Stales(b)
             \/ \E c \in Citizens : SdidInvalidates(c)
             \/ UNCHANGED vars
    BY <2>4 DEF attestationChallenge, Stales, SdidInvalidates, vars, keys
  <2> QED
    BY <2>1, <2>2, <2>3, <2>4, SweepersAssumption DEF Next
<1>2. ASSUME NEW purpose \in {"activation", "login"}, NEW b \in Bindings, Spent(purpose, b)
      PROVE  Spent(purpose, b)'
  <2>1. PICK y \in Challenges : chal[y] = [st |-> "spent", purpose |-> purpose, dev |-> b]
    BY <1>2 DEF Spent
  <2>2. chal'[y] = [st |-> "spent", purpose |-> purpose, dev |-> b]
    BY <1>1, <2>1
  <2> QED
    BY <2>2 DEF Spent
<1> QED
  BY <1>1, <1>2

-----------------------------------------------------------------------------
(* ActivatedOnce. *)

\* A step that creates no right to activate, and revokes existing rows at most.
LEMMA RightKept ==
    ASSUME RightInv, KeysOnlyEnd,
           \A m \in Calls : call'[m].pc \in {"eIssue", "aUpdate"} => call'[m] = call[m],
           \A b \in Bindings : \/ bstatus'[b] = bstatus[b]
                               \/ bstatus'[b] = "revoked" /\ bstatus[b] # "absent",
           \A m \in Calls : call'[m].pc = "rUpdate" =>
              call'[m] = call[m] \/ bstatus'[call'[m].dev] # "absent",
           \A b \in Bindings : Spent("activation", b) => Spent("activation", b)'
    PROVE  RightInv'
<1> SUFFICES ASSUME NEW b \in Bindings PROVE RightOf(b)'
  BY DEF RightInv
<1>1. RightOf(b)
  BY DEF RightInv
<1>2. \A x \in Challenges : Consumable(x, "activation", b)' => Consumable(x, "activation", b)
  BY DEF KeysOnlyEnd, Consumable
<1>3. \A m \in Calls : Holds(m, b)' => Holds(m, b)
  BY DEF Holds
<1>4. OneRight(b)'
  BY <1>1, <1>2, <1>3 DEF RightOf, OneRight
<1>5. NoRight(b) => NoRight(b)'
  BY <1>2, <1>3 DEF NoRight
<1> QED
  BY <1>1, <1>4, <1>5 DEF RightOf

\* The INSERT creates the right, for a row that was not there.
LEMMA InsertCreatesRight ==
    ASSUME IInv, RightInv, NEW i \in Calls, NEW b \in Bindings, EnrolInsert(i, b)
    PROVE  RightInv'
<1>1. /\ Others(i) /\ call'[i].pc = "eIssue" /\ call'[i].dev = b
      /\ bstatus[b] = "absent" /\ bstatus'[b] = "pending" /\ chal' = chal
      /\ \A d \in Bindings \ {b} : bstatus'[d] = bstatus[d]
  BY InsertIs DEF IInv, TypeOK, StoreTypeOK, EnrolInsert, keys
<1>2. RightOf(b) /\ NoRight(b) /\ b \notin Enrolled
  BY <1>1 DEF RightInv, RightOf
<1> SUFFICES ASSUME NEW d \in Bindings PROVE RightOf(d)'
  BY DEF RightInv
<1>3. RightOf(d) /\ \A x \in Challenges : Consumable(x, "activation", d)' <=> Consumable(x, "activation", d)
  BY <1>1 DEF RightInv, Consumable
<1>4. Spent("activation", d)' <=> Spent("activation", d)
  BY <1>1 DEF Spent
<1>5. CASE d = b
  <2>1. \A m \in Calls : Holds(m, b)' <=> m = i
    BY <1>1, <1>2 DEF Holds, NoRight, Others
  <2>2. OneRight(d)'
    BY <1>2, <1>3, <1>5, <2>1 DEF OneRight, NoRight
  <2> QED
    BY <1>1, <1>2, <1>3, <1>4, <1>5, <2>2 DEF RightOf, Others, NoRight, Holds
<1>6. CASE d # b
  <2>1. \A m \in Calls : Holds(m, d)' => Holds(m, d)
    BY <1>1, <1>6 DEF Holds, Others
  <2>2. OneRight(d)' /\ (NoRight(d) => NoRight(d)')
    BY <1>3, <2>1 DEF RightOf, OneRight, NoRight
  <2> QED
    BY <1>1, <1>3, <1>4, <1>6, <2>2 DEF RightOf, Others
<1> QED
  BY <1>5, <1>6

\* Issuing the challenge hands the right from the request to the device.
LEMMA IssueMovesRight ==
    ASSUME IInv, RightInv, NEW i \in Calls, NEW x \in Challenges, EnrolIssue(i, x)
    PROVE  RightInv'
<1> DEFINE b == call[i].dev
<1>1. /\ Others(i) /\ call'[i].pc = "idle" /\ bstatus' = bstatus
      /\ call[i].pc = "eIssue" /\ chal[x].st = "none"
      /\ chal'[x] = [st |-> "live", purpose |-> "activation", dev |-> b]
      /\ \A y \in Challenges \ {x} : chal'[y] = chal[y]
  BY GotoAdvances, IssueIs DEF IInv, EnrolIssue, storeVars
<1>2. b \in Bindings
  BY <1>1 DEF IInv, CallShape, DevPcs
<1> HIDE DEF b
<1>3. RightOf(b) /\ Holds(i, b)
  BY <1>1, <1>2 DEF RightInv, Holds, b
<1> SUFFICES ASSUME NEW d \in Bindings PROVE RightOf(d)'
  BY DEF RightInv
<1>4. RightOf(d) /\ (Spent("activation", d) => Spent("activation", d)')
  <2>1. \A y \in Challenges : chal[y].st = "spent" => chal'[y] = chal[y]
    BY <1>1
  <2> QED
    BY <2>1 DEF RightInv, Spent
<1>5. \A m \in Calls : Holds(m, d)' => Holds(m, d) /\ m # i
  BY <1>1 DEF Holds, Others
<1>6. CASE d = b
  <2>1. \A y \in Challenges : Consumable(y, "activation", d)' <=> y = x
    BY <1>1, <1>3, <1>6 DEF Consumable, RightOf, OneRight
  <2>2. \A m \in Calls : ~Holds(m, d)'
    BY <1>3, <1>5, <1>6 DEF RightOf, OneRight
  <2>3. OneRight(d)'
    BY <2>1, <2>2 DEF OneRight
  <2>4. ~(bstatus[d] \in {"absent", "active"} \/ d \in Enrolled)
    BY <1>3, <1>6 DEF RightOf, NoRight
  <2> QED
    BY <1>1, <1>4, <2>3, <2>4 DEF RightOf, Others
<1>7. CASE d # b
  <2>1. \A y \in Challenges : Consumable(y, "activation", d)' => Consumable(y, "activation", d)
    BY <1>1, <1>7 DEF Consumable
  <2>2. OneRight(d)' /\ (NoRight(d) => NoRight(d)')
    BY <1>4, <1>5, <2>1 DEF RightOf, OneRight, NoRight
  <2> QED
    BY <1>1, <1>4, <2>2 DEF RightOf, Others
<1> QED
  BY <1>6, <1>7

\* Consuming the challenge hands the right from the device to the activate() call.
LEMMA ConsumeMovesRight ==
    ASSUME IInv, RightInv, NEW i \in Calls, ActivateConsume(i), Goto(i, "aUpdate"),
           Consumable(call[i].key, "activation", call[i].dev)
    PROVE  RightInv'
<1>1. PICK b \in Bindings, x \in Challenges :
        b = call[i].dev /\ x = call[i].key /\ call[i].pc = "aConsume"
  BY DEF IInv, CallShape, DevPcs, ActivateConsume
<1>2. /\ Others(i) /\ call'[i].pc = "aUpdate" /\ call'[i].dev = b /\ bstatus' = bstatus
  <2>1. "aUpdate" \in Pcs
    BY DEF Pcs
  <2> QED
    BY <1>1, <2>1, GotoAdvances DEF ActivateConsume, storeVars
<1>3. /\ KeysOnlyEnd /\ chal'[x] = [st |-> "spent", purpose |-> "activation", dev |-> b]
  BY <1>1, TakeIs DEF IInv, ActivateConsume
<1>4. Consumable(x, "activation", b)
  BY <1>1
<1>5. RightOf(b) /\ Spent("activation", b)'
  BY <1>1, <1>3 DEF RightInv, Spent
<1> SUFFICES ASSUME NEW d \in Bindings PROVE RightOf(d)'
  BY DEF RightInv
<1>6. RightOf(d) /\ (Spent("activation", d) => Spent("activation", d)')
  BY <1>3 DEF RightInv, Spent, KeysOnlyEnd
<1>7. \A y \in Challenges : Consumable(y, "activation", d)' =>
        Consumable(y, "activation", d) /\ y # x
  BY <1>3 DEF Consumable, KeysOnlyEnd
<1>8. CASE d = b
  <2>1. \A y \in Challenges : ~Consumable(y, "activation", d)'
    BY <1>1, <1>4, <1>5, <1>7, <1>8 DEF RightOf, OneRight
  <2>2. \A m \in Calls : Holds(m, d)' <=> m = i
    BY <1>1, <1>2, <1>4, <1>5, <1>8 DEF RightOf, OneRight, Holds, Others
  <2>3. OneRight(d)'
    BY <2>1, <2>2 DEF OneRight
  <2>4. ~(bstatus[d] \in {"absent", "active"} \/ d \in Enrolled)
    BY <1>1, <1>4, <1>5, <1>8 DEF RightOf, NoRight
  <2> QED
    BY <1>2, <1>5, <1>6, <1>8, <2>3, <2>4 DEF RightOf, Others
<1>9. CASE d # b
  <2>1. \A m \in Calls : Holds(m, d)' => Holds(m, d)
    BY <1>2, <1>9 DEF Holds, Others
  <2>2. OneRight(d)' /\ (NoRight(d) => NoRight(d)')
    BY <1>6, <1>7, <2>1 DEF RightOf, OneRight, NoRight
  <2> QED
    BY <1>2, <1>6, <1>9, <2>2 DEF RightOf, Others
<1> QED
  BY <1>8, <1>9

\* The UPDATE uses the right up: nothing is left to activate the binding with.
LEMMA UpdateEndsRight ==
    ASSUME IInv, RightInv, NEW i \in Calls, ActivateUpdate(i)
    PROVE  RightInv'
<1> DEFINE b == call[i].dev
<1>1. b \in Bindings /\ call[i].pc = "aUpdate"
  BY DEF IInv, CallShape, DevPcs, ActivateUpdate
<1>2. /\ Others(i) /\ call'[i].pc = "idle" /\ chal' = chal /\ bstatus'[b] = "active"
      /\ \A d \in Bindings \ {b} : bstatus'[d] = bstatus[d]
  BY <1>1, GotoAdvances DEF IInv, TypeOK, StoreTypeOK, ActivateUpdate, keys
<1>3. Holds(i, b)
  BY <1>1 DEF Holds
<1>4. RightOf(b) /\ Spent("activation", b)
  BY <1>1 DEF RightInv, RightOf
<1> HIDE DEF b
<1> SUFFICES ASSUME NEW d \in Bindings PROVE RightOf(d)'
  BY DEF RightInv
<1>5. /\ RightOf(d) /\ Spent("activation", d)' = Spent("activation", d)
      /\ \A y \in Challenges : Consumable(y, "activation", d)' = Consumable(y, "activation", d)
  BY <1>2 DEF RightInv, Spent, Consumable
<1>6. \A m \in Calls : Holds(m, d)' => Holds(m, d) /\ m # i
  BY <1>2 DEF Holds, Others
<1>7. OneRight(d)' /\ (NoRight(d) => NoRight(d)')
  BY <1>5, <1>6 DEF RightOf, OneRight, NoRight
<1>8. CASE d = b
  <2>1. NoRight(d)'
    BY <1>3, <1>4, <1>5, <1>6, <1>8 DEF RightOf, OneRight, NoRight
  <2> QED
    BY <1>2, <1>4, <1>5, <1>7, <1>8, <2>1 DEF RightOf, Others
<1>9. CASE d # b
  BY <1>2, <1>5, <1>7, <1>9 DEF RightOf, Others
<1> QED
  BY <1>8, <1>9

\* Every step leaves the right to activate a binding in one place at most.
LEMMA RightStep == IInv /\ RightInv /\ [Next]_vars => RightInv'
<1> SUFFICES ASSUME IInv, RightInv, [Next]_vars PROVE RightInv'
  OBVIOUS
<1>spent. \A b \in Bindings : Spent("activation", b) => Spent("activation", b)'
  BY SpentStays
<1>1. ASSUME NEW i \in Calls, Advances(i) PROVE RightInv'
  <2>1. KeysOnlyEnd
    BY <1>1 DEF Advances, KeysOnlyEnd
  <2>2. \A m \in Calls : call'[m].pc \in {"eIssue", "aUpdate"} => call'[m] = call[m]
    BY <1>1 DEF Advances, Others, Aside, ReassertPcs
  <2>3. \A m \in Calls : call'[m].pc = "rUpdate" =>
          call'[m] = call[m] \/ bstatus'[call'[m].dev] # "absent"
    BY <1>1 DEF Advances, Others, Aside, ReassertPcs
  <2>4. bstatus' = bstatus
    BY <1>1 DEF Advances
  <2> QED
    BY <1>spent, <2>1, <2>2, <2>3, <2>4, RightKept
<1>2. ASSUME NEW i \in Calls, EnrolAttest(i) \/ LoginSession(i) \/ LoginConsume(i)
      PROVE  RightInv'
  <2>1. KeysOnlyEnd
    <3>1. CASE EnrolAttest(i) \/ LoginSession(i)
      BY <3>1 DEF EnrolAttest, LoginSession, KeysOnlyEnd, keys
    <3>2. CASE LoginConsume(i)
      <4>1. call[i].key \in Challenges
        BY <3>2 DEF LoginConsume, IInv, CallShape
      <4> QED
        BY <3>2, <4>1, TakeIs DEF LoginConsume, IInv
    <3> QED
      BY <1>2, <3>1, <3>2
  <2>2. bstatus' = bstatus
    BY <1>2 DEF EnrolAttest, LoginSession, LoginConsume, storeVars
  <2>3. Others(i) /\ call'[i].pc \in {"idle", "eMatch", "lClear", "lFail"}
    <3>1. "eMatch" \in Pcs /\ "lClear" \in Pcs /\ "lFail" \in Pcs
      BY DEF Pcs
    <3> QED
      BY <1>2, <3>1, GotoAdvances DEF EnrolAttest, LoginSession, LoginConsume
  <2> QED
    BY <1>spent, <2>1, <2>2, <2>3, RightKept DEF Others
<1>3. ASSUME NEW i \in Calls, ReassertRevoke(i) \/ RevokeUpdate(i) PROVE RightInv'
  <2>1. KeysOnlyEnd
    BY <1>3 DEF ReassertRevoke, RevokeUpdate, KeysOnlyEnd, keys
  <2>2. Others(i) /\ call'[i].pc \in {"idle", "rAudit", "sPick"}
    <3>1. "rAudit" \in Pcs /\ "sPick" \in Pcs
      BY DEF Pcs
    <3> QED
      BY <1>3, <3>1, GotoAdvances DEF ReassertRevoke, RevokeUpdate, Denied
  <2>3. \A b \in Bindings : \/ bstatus'[b] = bstatus[b]
                            \/ bstatus'[b] = "revoked" /\ bstatus[b] # "absent"
    <3>1. CASE ReassertRevoke(i)
      BY <3>1 DEF ReassertRevoke, RevokeActiveBindings, ActiveBindingsOf, BindingsOf
    <3>2. CASE RevokeUpdate(i)
      <4>1. call[i].dev \in Bindings /\ call[i].pc = "rUpdate"
        BY <3>2 DEF RevokeUpdate, IInv, CallShape, DevPcs
      <4>2. bstatus[call[i].dev] # "absent"
        BY <4>1 DEF RightInv, RightOf
      <4> QED
        BY <3>2, <4>1, <4>2 DEF RevokeUpdate, RevokeBinding, IInv, TypeOK, StoreTypeOK
    <3> QED
      BY <1>3, <3>1, <3>2
  <2>4. \A m \in Calls : call'[m].pc = "rUpdate" => call'[m] = call[m]
    BY <2>2 DEF Others
  <2>5. \A m \in Calls : call'[m].pc \in {"eIssue", "aUpdate"} => call'[m] = call[m]
    BY <2>2 DEF Others
  <2> QED
    BY <1>spent, <2>1, <2>3, <2>4, <2>5, RightKept
<1>4. ASSUME NEW i \in Calls, NEW x \in Challenges, ChallengeIssue(i, x) PROVE RightInv'
  <2>1. /\ Others(i) /\ call'[i].pc = "idle" /\ bstatus' = bstatus
        /\ chal'[x] = [st |-> "live", purpose |-> "login", dev |-> call[i].dev]
        /\ \A y \in Challenges \ {x} : chal'[y] = chal[y]
    BY <1>4, GotoAdvances, IssueIs DEF IInv, ChallengeIssue, storeVars
  <2> SUFFICES ASSUME NEW d \in Bindings PROVE RightOf(d)'
    BY DEF RightInv
  <2>2. \A y \in Challenges : Consumable(y, "activation", d)' => Consumable(y, "activation", d)
    BY <2>1 DEF Consumable
  <2>3. \A m \in Calls : Holds(m, d)' => Holds(m, d)
    BY <2>1 DEF Holds, Others
  <2>4. RightOf(d)
    BY DEF RightInv
  <2>5. OneRight(d)' /\ (NoRight(d) => NoRight(d)')
    BY <2>2, <2>3, <2>4 DEF RightOf, OneRight, NoRight
  <2> QED
    BY <1>spent, <2>1, <2>4, <2>5 DEF RightOf, Others
<1>5. ASSUME NEW i \in Calls, ActivateConsume(i) PROVE RightInv'
  <2>1. CASE Goto(i, "aUpdate") /\ Consumable(call[i].key, "activation", call[i].dev)
    BY <1>5, <2>1, ConsumeMovesRight
  <2>2. CASE Return(i)
    <3>1. call[i].key \in Challenges
      BY <1>5 DEF ActivateConsume, IInv, CallShape
    <3>2. KeysOnlyEnd /\ bstatus' = bstatus
      BY <1>5, <3>1, TakeIs DEF ActivateConsume, IInv, storeVars
    <3>3. Others(i) /\ call'[i].pc = "idle"
      BY <2>2, GotoAdvances
    <3> QED
      BY <1>spent, <3>2, <3>3, RightKept DEF Others
  <2> QED
    BY <1>5, <2>1, <2>2 DEF ActivateConsume
<1>6. ASSUME NEW i \in Calls, Step(i) \/ Abort(i) PROVE RightInv'
  BY <1>1, <1>2, <1>3, <1>4, <1>5, <1>6, StepAdvances, InsertCreatesRight, IssueMovesRight,
     UpdateEndsRight DEF Writes
<1>7. ASSUME NEW i \in Calls, Request(i) \/ Sweep(i) PROVE RightInv'
  BY <1>1, <1>7, RequestAdvances
<1>8. CASE \/ Expire
           \/ \E n \in Nonces : attestationChallenge(n)
           \/ \E b \in Bindings : Stales(b)
           \/ \E c \in Citizens : SdidInvalidates(c)
           \/ UNCHANGED vars
  <2>1. call' = call /\ bstatus' = bstatus
    BY <1>8 DEF Expire, attestationChallenge, Stales, CadenceElapses, SdidInvalidates,
       vars, storeVars
  <2>2. KeysOnlyEnd
    BY <1>8 DEF Expire, attestationChallenge, Stales, SdidInvalidates, vars, keys,
       KeysOnlyEnd, IInv, TypeOK, Challenge
  <2> QED
    BY <1>spent, <2>1, <2>2, RightKept
<1> QED
  BY <1>6, <1>7, <1>8, SweepersAssumption DEF Next

\* At the start nobody holds a right to activate anything.
LEMMA InitRight == Init => RightInv
  BY EnrolledAssumption DEF Init, RightInv, RightOf, OneRight, NoRight, Holds, Consumable, Idle

\* The activation challenge of a binding is good for one activation, however the
\* calls of start, activate, revoke and the sweep interleave: once the binding is
\* active nothing is left that could activate it again.
THEOREM ActivationIsOnce == Spec => []ActivatedOnce
<1>1. RightInv => ActivatedOnce
  BY DEF RightInv, RightOf, NoRight, Holds, Spent, ActivatedOnce
<1> QED
  BY <1>1, InitRight, LifecycleShaped, RightStep, PTL DEF Spec

-----------------------------------------------------------------------------
(* SessionsAreProven. *)

\* The device completed its activation.
Known(b) == b \in Enrolled \/ Spent("activation", b)

\* A step that adds sessions, and brings requests closer to one, on evidence only.
LEMMA SessionKept ==
    ASSUME IInv, SessionInv, [Next]_vars,
           \A b \in sessions' \ sessions : b \in Bindings /\ Known(b) /\ Spent("login", b),
           \A m \in Calls :
              \/ call'[m] = call[m]
              \/ ~KnowsDevice(m)' /\ ~ProvedPossession(m)'
              \/ /\ call'[m].dev = call[m].dev
                 /\ KnowsDevice(m)' => KnowsDevice(m) \/ Known(call[m].dev)'
                 /\ ProvedPossession(m)' => ProvedPossession(m) \/ Spent("login", call[m].dev)'
    PROVE  SessionInv'
<1>type. /\ \A m \in Calls : call[m].dev \in Bindings \cup {None}
         /\ \A m \in Calls : KnowsDevice(m) => call[m].dev \in Bindings
         /\ \A m \in Calls : ProvedPossession(m) => call[m].dev \in Bindings
         /\ sessions \subseteq Bindings
  BY DEF IInv, TypeOK, Call, CallShape, KnowsDevice, ProvedPossession, DevPcs, ReassertPcs
<1>spent. /\ \A b \in Bindings : Spent("activation", b) => Spent("activation", b)'
          /\ \A b \in Bindings : Spent("login", b) => Spent("login", b)'
  BY SpentStays
<1>1. SessionsAreProven'
  <2>1. \A b \in sessions \ Enrolled : Spent("login", b) /\ Spent("activation", b)
    BY DEF SessionInv, SessionsAreProven, Spent
  <2>2. \A b \in sessions' \ Enrolled : Spent("login", b)' /\ Spent("activation", b)'
    BY <1>type, <1>spent, <2>1 DEF Known
  <2> QED
    BY <2>2 DEF SessionsAreProven, Spent
<1>2. ASSUME NEW m \in Calls
      PROVE  /\ KnowsDevice(m)' => call'[m].dev \in Enrolled \/ Spent("activation", call[m].dev)'
             /\ ProvedPossession(m)' => Spent("login", call[m].dev)'
  <2>1. PICK b \in Bindings \cup {None} : b = call[m].dev
    BY <1>type
  <2>2. KnowsDevice(m) => b \in Bindings /\ (b \in Enrolled \/ Spent("activation", b))
    BY <1>type, <2>1 DEF SessionInv
  <2>3. ProvedPossession(m) => b \in Bindings /\ Spent("login", b)
    BY <1>type, <2>1 DEF SessionInv
  <2>4. CASE call'[m] = call[m]
    <3>1. KnowsDevice(m)' = KnowsDevice(m) /\ ProvedPossession(m)' = ProvedPossession(m)
      BY <2>4 DEF KnowsDevice, ProvedPossession
    <3> QED
      BY <1>spent, <2>1, <2>2, <2>3, <2>4, <3>1
  <2>5. CASE ~KnowsDevice(m)' /\ ~ProvedPossession(m)'
    BY <2>5
  <2>6. CASE /\ call'[m].dev = call[m].dev
             /\ KnowsDevice(m)' => KnowsDevice(m) \/ Known(call[m].dev)'
             /\ ProvedPossession(m)' => ProvedPossession(m) \/ Spent("login", call[m].dev)'
    BY <1>spent, <2>1, <2>2, <2>3, <2>6 DEF Known
  <2> QED
    BY <2>4, <2>5, <2>6
<1> QED
  BY <1>1, <1>2 DEF SessionInv

\* A request at an awaited call outside a login's second half has no evidence to give.
LEMMA AsideKnowsNothing ==
    ASSUME NEW m \in Calls,
           \/ call'[m].pc \in Aside \cup {"eMatch", "eCount", "eInsert", "eIssue",
                                           "aConsume", "aUpdate", "rUpdate"}
           \/ call'[m].pc \in ReassertPcs /\ call'[m].dev = None
    PROVE  ~KnowsDevice(m)' /\ ~ProvedPossession(m)'
  BY DEF KnowsDevice, ProvedPossession, Aside, ReassertPcs

\* Every step keeps what logins and sessions rest on.
LEMMA SessionStep == IInv /\ RightInv /\ SessionInv /\ [Next]_vars => SessionInv'
<1> SUFFICES ASSUME IInv, RightInv, SessionInv, [Next]_vars PROVE SessionInv'
  OBVIOUS
<1>1. ASSUME NEW i \in Calls, Advances(i) PROVE SessionInv'
  <2>1. sessions' = sessions /\ chal' = chal /\ Others(i)
    BY <1>1 DEF Advances
  <2>2. CASE \/ call'[i].pc \in Aside \cup {"eCount", "eInsert", "aConsume", "rUpdate"}
             \/ call'[i].pc = "raRead" /\ call'[i].dev = None
    <3>1. ~KnowsDevice(i)' /\ ~ProvedPossession(i)'
      BY <2>2, AsideKnowsNothing DEF ReassertPcs
    <3> QED
      BY <2>1, <3>1, SessionKept DEF Others
  <2>3. CASE /\ call[i].pc = "lRead" /\ call'[i].pc = "lConsume"
             /\ bstatus[call[i].dev] = "active" /\ call'[i].dev = call[i].dev
    <3>1. call[i].dev \in Bindings
      BY <2>3 DEF IInv, CallShape, DevPcs
    <3>2. Known(call[i].dev)
      BY <2>3, <3>1 DEF RightInv, RightOf, Known
    <3>3. Known(call[i].dev)' /\ ~ProvedPossession(i)'
      BY <2>1, <2>3, <3>2 DEF Known, Spent, ProvedPossession, ReassertPcs
    <3> QED
      BY <2>1, <2>3, <3>3, SessionKept DEF Others
  <2>4. CASE /\ call[i].pc \in {"lClear"} \cup ReassertPcs /\ call'[i].pc \in ReassertPcs
             /\ call'[i].dev = call[i].dev
    <3>1. KnowsDevice(i)' => KnowsDevice(i)
      BY <2>4 DEF KnowsDevice, ReassertPcs
    <3>2. ProvedPossession(i)' => ProvedPossession(i)
      BY <2>4 DEF ProvedPossession, ReassertPcs
    <3> QED
      BY <2>1, <2>4, <3>1, <3>2, SessionKept DEF Others
  <2>5. CASE /\ call[i].pc \in {"lClear", "raStamp"} /\ call'[i].pc = "lSession"
             /\ call[i].dev \in Bindings /\ call'[i].dev = call[i].dev
    <3>1. KnowsDevice(i) /\ ProvedPossession(i)
      BY <2>5, NoneAssumption DEF KnowsDevice, ProvedPossession, ReassertPcs
    <3> QED
      BY <2>1, <2>5, <3>1, SessionKept DEF Others
  <2> QED
    BY <1>1, <2>2, <2>3, <2>4, <2>5 DEF Advances
<1>2. ASSUME NEW i \in Calls,
             \/ EnrolAttest(i) \/ \E b \in Bindings : EnrolInsert(i, b)
             \/ \E x \in Challenges : EnrolIssue(i, x) \/ ChallengeIssue(i, x)
             \/ ActivateConsume(i) \/ ActivateUpdate(i) \/ ReassertRevoke(i) \/ RevokeUpdate(i)
      PROVE  SessionInv'
  <2>1. sessions' = sessions
    BY <1>2 DEF EnrolAttest, EnrolInsert, EnrolIssue, ChallengeIssue, ActivateConsume,
       ActivateUpdate, ReassertRevoke, RevokeUpdate
  <2>2. Others(i) /\ call'[i].pc \in Aside \cup {"eMatch", "eIssue", "aUpdate"}
    <3>1. /\ "eMatch" \in Pcs /\ "aUpdate" \in Pcs /\ "sPick" \in Pcs /\ "rAudit" \in Pcs
      BY DEF Pcs
    <3>2. "idle" \in Aside /\ "sPick" \in Aside /\ "rAudit" \in Aside
      BY DEF Aside
    <3>3. CASE \E b \in Bindings : EnrolInsert(i, b)
      BY <3>3, InsertIs DEF IInv
    <3>4. CASE \E x \in Challenges : EnrolIssue(i, x) \/ ChallengeIssue(i, x)
      BY <3>2, <3>4, GotoAdvances DEF EnrolIssue, ChallengeIssue
    <3> QED
      BY <1>2, <3>1, <3>2, <3>3, <3>4, GotoAdvances
         DEF EnrolAttest, ActivateConsume, ActivateUpdate, ReassertRevoke, RevokeUpdate, Denied
  <2>3. ~KnowsDevice(i)' /\ ~ProvedPossession(i)'
    BY <2>2, AsideKnowsNothing
  <2> QED
    BY <2>1, <2>2, <2>3, SessionKept DEF Others
<1>3. ASSUME NEW i \in Calls, LoginConsume(i) PROVE SessionInv'
  <2>1. /\ sessions' = sessions /\ call[i].pc = "lConsume"
        /\ call[i].dev \in Bindings /\ call[i].key \in Challenges
    BY <1>3 DEF LoginConsume, IInv, CallShape, DevPcs
  <2>2. "lClear" \in Pcs /\ "lFail" \in Pcs
    BY DEF Pcs
  <2>3. CASE Goto(i, "lFail")
    <3>1. Others(i) /\ call'[i].pc \in Aside
      BY <2>2, <2>3, GotoAdvances DEF Aside
    <3>2. ~KnowsDevice(i)' /\ ~ProvedPossession(i)'
      BY <3>1, AsideKnowsNothing
    <3> QED
      BY <2>1, <3>1, <3>2, SessionKept DEF Others
  <2>4. CASE Goto(i, "lClear") /\ Consumable(call[i].key, "login", call[i].dev)
    <3>1. Others(i) /\ call'[i].pc = "lClear" /\ call'[i].dev = call[i].dev
      BY <2>2, <2>4, GotoAdvances
    <3>2. chal'[call[i].key] = [st |-> "spent", purpose |-> "login", dev |-> call[i].dev]
      BY <1>3, <2>1, <2>4, TakeIs DEF LoginConsume, IInv
    <3>3. Spent("login", call[i].dev)' /\ KnowsDevice(i)
      BY <2>1, <3>1, <3>2 DEF Spent, KnowsDevice
    <3> QED
      BY <2>1, <3>1, <3>3, SessionKept DEF Others
  <2> QED
    BY <1>3, <2>3, <2>4 DEF LoginConsume
<1>4. ASSUME NEW i \in Calls, LoginSession(i) PROVE SessionInv'
  <2>1. /\ sessions' = sessions \cup {call[i].dev} /\ call[i].pc = "lSession"
        /\ call[i].dev \in Bindings
    BY <1>4 DEF LoginSession, IInv, CallShape, DevPcs
  <2>2. Known(call[i].dev) /\ Spent("login", call[i].dev)
    BY <2>1 DEF SessionInv, KnowsDevice, ProvedPossession, Known
  <2>3. Others(i) /\ call'[i].pc \in Aside
    BY <1>4, GotoAdvances DEF LoginSession, Aside
  <2>4. ~KnowsDevice(i)' /\ ~ProvedPossession(i)'
    BY <2>3, AsideKnowsNothing
  <2> QED
    BY <2>1, <2>2, <2>3, <2>4, SessionKept DEF Others
<1>5. ASSUME NEW i \in Calls, Step(i) \/ Abort(i) PROVE SessionInv'
  BY <1>1, <1>2, <1>3, <1>4, <1>5, StepAdvances DEF Writes
<1>6. ASSUME NEW i \in Calls, Request(i) \/ Sweep(i) PROVE SessionInv'
  BY <1>1, <1>6, RequestAdvances
<1>7. CASE \/ Expire
           \/ \E n \in Nonces : attestationChallenge(n)
           \/ \E b \in Bindings : Stales(b)
           \/ \E c \in Citizens : SdidInvalidates(c)
           \/ UNCHANGED vars
  <2>1. call' = call /\ sessions' \subseteq sessions
    BY <1>7 DEF Expire, attestationChallenge, Stales, SdidInvalidates, vars
  <2> QED
    BY <2>1, SessionKept
<1> QED
  BY <1>5, <1>6, <1>7, SweepersAssumption DEF Next

\* The enrolled devices start with a session, and no login is under way.
LEMMA InitSessions == Init => SessionInv
  BY DEF Init, SessionInv, SessionsAreProven, KnowsDevice, ProvedPossession, Idle, ReassertPcs

\* No interleaving, failure or retry gives a session to a device that did not use
\* up a login challenge of its own after it had completed its activation.
THEOREM SessionsRestOnProofs == Spec => []SessionsAreProven
<1>1. SessionInv => SessionsAreProven
  BY DEF SessionInv
<1>2. Spec => []RightInv
  BY InitRight, LifecycleShaped, RightStep, PTL DEF Spec
<1> QED
  BY <1>1, <1>2, InitSessions, LifecycleShaped, SessionStep, PTL DEF Spec

-----------------------------------------------------------------------------
(* AttestedOnce. *)

\* What a step may do to a finite set, in numbers.
LEMMA CardFacts ==
    ASSUME NEW S, IsFiniteSet(S)
    PROVE  /\ Cardinality(S) \in Nat
           /\ \A T \in SUBSET S : IsFiniteSet(T) /\ Cardinality(T) <= Cardinality(S)
           /\ \A x : /\ IsFiniteSet(S \cup {x}) /\ IsFiniteSet(S \ {x})
                     /\ Cardinality(S \cup {x}) <= Cardinality(S) + 1
                     /\ x \notin S => Cardinality(S \cup {x}) = Cardinality(S) + 1
                     /\ x \in S => Cardinality(S \ {x}) = Cardinality(S) - 1
<1>1. Cardinality(S) \in Nat
  BY FS_CardinalityType
<1>2. \A T \in SUBSET S : IsFiniteSet(T) /\ Cardinality(T) <= Cardinality(S)
  BY FS_Subset
<1>3. \A x : IsFiniteSet(S \cup {x}) /\ Cardinality(S \cup {x}) =
               IF x \in S THEN Cardinality(S) ELSE Cardinality(S) + 1
  BY FS_AddElement
<1>4. \A x : IsFiniteSet(S \ {x}) /\ Cardinality(S \ {x}) =
               IF x \in S THEN Cardinality(S) - 1 ELSE Cardinality(S)
  BY FS_RemoveElement
<1>5. ASSUME NEW x
      PROVE  /\ IsFiniteSet(S \cup {x}) /\ IsFiniteSet(S \ {x})
             /\ Cardinality(S \cup {x}) <= Cardinality(S) + 1
             /\ x \notin S => Cardinality(S \cup {x}) = Cardinality(S) + 1
             /\ x \in S => Cardinality(S \ {x}) = Cardinality(S) - 1
  <2>1. Cardinality(S \cup {x}) \in {Cardinality(S), Cardinality(S) + 1}
    BY <1>3
  <2>2. Cardinality(S \cup {x}) <= Cardinality(S) + 1
    BY <1>1, <2>1
  <2> QED
    BY <1>3, <1>4, <2>2
<1> QED
  BY <1>1, <1>2, <1>5, Zenon

\* Rows, spent nonces and requests are finite in number.
LEMMA AttestFinite ==
    /\ IsFiniteSet(Rows) /\ IsFiniteSet(SpentNonces) /\ IsFiniteSet(Attested)
    /\ IsFiniteSet(Rows') /\ IsFiniteSet(SpentNonces') /\ IsFiniteSet(Attested')
<1>1. /\ Rows \in SUBSET Bindings /\ Rows' \in SUBSET Bindings
      /\ SpentNonces \in SUBSET Nonces /\ SpentNonces' \in SUBSET Nonces
      /\ Attested \in SUBSET Calls /\ Attested' \in SUBSET Calls
  BY DEF Rows, SpentNonces, Attested
<1> QED
  BY <1>1, FiniteAssumption, FS_Subset

\* A step that adds no row and no attested request, and takes back no nonce.
LEMMA AttestKept ==
    ASSUME AttestInv, Rows' \subseteq Rows, Attested' \subseteq Attested,
           SpentNonces \subseteq SpentNonces'
    PROVE  AttestInv'
<1>1. /\ Cardinality(Rows') <= Cardinality(Rows)
      /\ Cardinality(Attested') <= Cardinality(Attested)
      /\ Cardinality(SpentNonces) <= Cardinality(SpentNonces')
  BY AttestFinite, CardFacts
<1>2. /\ Cardinality(Rows') \in Nat /\ Cardinality(Rows) \in Nat
      /\ Cardinality(Attested') \in Nat /\ Cardinality(Attested) \in Nat
      /\ Cardinality(SpentNonces') \in Nat /\ Cardinality(SpentNonces) \in Nat
  BY AttestFinite, CardFacts
<1> QED
  BY <1>1, <1>2 DEF AttestInv

\* Every step pays for a row with an attested request, and for that with a nonce.
LEMMA AttestStep == IInv /\ RightInv /\ AttestInv /\ [Next]_vars => AttestInv'
<1> SUFFICES ASSUME IInv, RightInv, AttestInv, [Next]_vars PROVE AttestInv'
  OBVIOUS
<1>1. ASSUME NEW i \in Calls, Advances(i) PROVE AttestInv'
  <2>1. Rows' = Rows /\ SpentNonces' = SpentNonces
    BY <1>1 DEF Advances, Rows, SpentNonces
  <2>2. Attested' \subseteq Attested
    BY <1>1 DEF Advances, Others, Attested, Aside, ReassertPcs
  <2> QED
    BY <2>1, <2>2, AttestKept
<1>2. ASSUME NEW i \in Calls, EnrolAttest(i) PROVE AttestInv'
  <2>1. Rows' = Rows /\ call[i].pc = "eAttest" /\ call[i].key \in Nonces
    BY <1>2 DEF EnrolAttest, Rows, storeVars, IInv, CallShape
  <2>2. CASE Return(i)
    <3>1. Others(i) /\ call'[i].pc = "idle"
      BY <2>2, GotoAdvances
    <3>2. Attested' \subseteq Attested
      BY <3>1 DEF Attested, Others
    <3>3. SpentNonces \subseteq SpentNonces'
      BY <1>2, <2>1 DEF EnrolAttest, SpentNonces, IInv, TypeOK
    <3> QED
      BY <2>1, <3>2, <3>3, AttestKept
  <2>3. CASE Goto(i, "eMatch") /\ nonce[call[i].key] = "live"
    <3>1. Others(i) /\ call'[i].pc = "eMatch"
      <4>1. "eMatch" \in Pcs
        BY DEF Pcs
      <4> QED
        BY <2>3, <4>1, GotoAdvances
    <3>2. Attested' = Attested \cup {i} /\ i \notin Attested
      BY <2>1, <3>1 DEF Attested, Others
    <3>3. SpentNonces' = SpentNonces \cup {call[i].key} /\ call[i].key \notin SpentNonces
      BY <1>2, <2>1, <2>3 DEF EnrolAttest, SpentNonces, IInv, TypeOK
    <3>4. /\ Cardinality(Attested') = Cardinality(Attested) + 1
          /\ Cardinality(SpentNonces') = Cardinality(SpentNonces) + 1
      BY <3>2, <3>3, AttestFinite, CardFacts
    <3>5. /\ Cardinality(Rows) \in Nat /\ Cardinality(Attested) \in Nat
          /\ Cardinality(SpentNonces) \in Nat
      BY AttestFinite, CardFacts
    <3> QED
      BY <2>1, <3>4, <3>5 DEF AttestInv
  <2> QED
    BY <1>2, <2>2, <2>3 DEF EnrolAttest
<1>3. ASSUME NEW i \in Calls, NEW b \in Bindings, EnrolInsert(i, b) PROVE AttestInv'
  <2>1. /\ Others(i) /\ call[i].pc = "eInsert" /\ call'[i].pc = "eIssue"
        /\ SpentNonces' = SpentNonces
    BY <1>3, InsertIs DEF IInv, EnrolInsert, SpentNonces, keys
  <2>2. bstatus[b] = "absent" /\ b \notin Enrolled
    BY <1>3 DEF EnrolInsert, RightInv, RightOf
  <2>3. Rows' = Rows \cup {b} /\ b \notin Rows
    BY <1>3, <2>2 DEF EnrolInsert, Rows, IInv, TypeOK, StoreTypeOK
  <2>4. Attested' = Attested \ {i} /\ i \in Attested
    BY <2>1 DEF Attested, Others
  <2>5. /\ Cardinality(Rows') = Cardinality(Rows) + 1
        /\ Cardinality(Attested') = Cardinality(Attested) - 1
    BY <2>3, <2>4, AttestFinite, CardFacts
  <2>6. /\ Cardinality(Rows) \in Nat /\ Cardinality(Attested) \in Nat
        /\ Cardinality(SpentNonces) \in Nat
    BY AttestFinite, CardFacts
  <2> QED
    BY <2>1, <2>5, <2>6 DEF AttestInv
<1>4. ASSUME NEW i \in Calls,
             \/ \E x \in Challenges : EnrolIssue(i, x) \/ ChallengeIssue(i, x)
             \/ ActivateConsume(i) \/ ActivateUpdate(i) \/ LoginConsume(i) \/ LoginSession(i)
             \/ ReassertRevoke(i) \/ RevokeUpdate(i)
      PROVE  AttestInv'
  <2>1. SpentNonces' = SpentNonces
    BY <1>4 DEF EnrolIssue, ChallengeIssue, ActivateConsume, ActivateUpdate, LoginConsume,
       LoginSession, ReassertRevoke, RevokeUpdate, SpentNonces, keys
  <2>2. Others(i) /\ call'[i].pc \in {"idle", "aUpdate", "lClear", "lFail", "sPick", "rAudit"}
    <3>1. /\ "aUpdate" \in Pcs /\ "lClear" \in Pcs /\ "lFail" \in Pcs /\ "sPick" \in Pcs
          /\ "rAudit" \in Pcs
      BY DEF Pcs
    <3> QED
      BY <1>4, <3>1, GotoAdvances DEF EnrolIssue, ChallengeIssue, ActivateConsume,
         ActivateUpdate, LoginConsume, LoginSession, ReassertRevoke, RevokeUpdate, Denied
  <2>3. Attested' \subseteq Attested
    BY <2>2 DEF Attested, Others
  <2>4. Rows' \subseteq Rows
    <3>1. CASE UNCHANGED bstatus
      BY <3>1 DEF Rows
    <3>2. CASE ReassertRevoke(i)
      BY <3>2 DEF ReassertRevoke, RevokeActiveBindings, ActiveBindingsOf, BindingsOf, Rows
    <3>3. CASE ActivateUpdate(i) \/ RevokeUpdate(i)
      <4>1. call[i].dev \in Bindings /\ call[i].pc \in {"aUpdate", "rUpdate"}
        BY <3>3 DEF ActivateUpdate, RevokeUpdate, IInv, CallShape, DevPcs
      <4>2. bstatus[call[i].dev] # "absent"
        BY <4>1 DEF RightInv, RightOf, NoRight, Holds
      <4> QED
        BY <3>3, <4>1, <4>2 DEF ActivateUpdate, RevokeUpdate, RevokeBinding, Rows, IInv,
           TypeOK, StoreTypeOK
    <3> QED
      BY <1>4, <3>1, <3>2, <3>3 DEF EnrolIssue, ChallengeIssue, ActivateConsume, LoginConsume,
         LoginSession, storeVars
  <2> QED
    BY <2>1, <2>3, <2>4, AttestKept
<1>5. ASSUME NEW i \in Calls, Step(i) \/ Abort(i) PROVE AttestInv'
  BY <1>1, <1>2, <1>3, <1>4, <1>5, StepAdvances DEF Writes
<1>6. ASSUME NEW i \in Calls, Request(i) \/ Sweep(i) PROVE AttestInv'
  BY <1>1, <1>6, RequestAdvances
<1>7. CASE \/ Expire
           \/ \E n \in Nonces : attestationChallenge(n)
           \/ \E b \in Bindings : Stales(b)
           \/ \E c \in Citizens : SdidInvalidates(c)
           \/ UNCHANGED vars
  <2>1. call' = call /\ bstatus' = bstatus
    BY <1>7 DEF Expire, attestationChallenge, Stales, CadenceElapses, SdidInvalidates,
       vars, storeVars
  <2>2. SpentNonces \subseteq SpentNonces'
    BY <1>7 DEF Expire, attestationChallenge, Stales, SdidInvalidates, vars, keys,
       SpentNonces, IInv, TypeOK
  <2>3. Rows' = Rows /\ Attested' = Attested
    BY <2>1 DEF Rows, Attested
  <2> QED
    BY <2>2, <2>3, AttestKept
<1> QED
  BY <1>5, <1>6, <1>7, SweepersAssumption DEF Next

\* At the start there is no row to account for.
LEMMA InitAttested == Init => AttestInv
<1> SUFFICES ASSUME Init PROVE AttestInv
  OBVIOUS
<1>1. Rows = {} /\ Attested = {}
  BY DEF Init, Rows, Attested, Idle
<1>2. Cardinality(SpentNonces) \in Nat
  BY AttestFinite, CardFacts
<1> QED
  BY <1>1, <1>2, FS_EmptySet DEF AttestInv

\* Binding rows never outnumber the attestation nonces that were used up, however
\* many start() calls present the same nonce at once.
THEOREM RowsAreAttested == Spec => []AttestedOnce
<1>1. AttestInv => AttestedOnce
  <2> SUFFICES ASSUME AttestInv PROVE AttestedOnce
    OBVIOUS
  <2>1. /\ Cardinality(Rows) \in Nat /\ Cardinality(Attested) \in Nat
        /\ Cardinality(SpentNonces) \in Nat
    BY AttestFinite, CardFacts
  <2>2. Cardinality(Rows) <= Cardinality(SpentNonces)
    BY <2>1 DEF AttestInv
  <2> QED
    BY <2>2 DEF AttestedOnce, Rows, SpentNonces
<1>2. Spec => []RightInv
  BY InitRight, LifecycleShaped, RightStep, PTL DEF Spec
<1> QED
  BY <1>1, <1>2, InitAttested, LifecycleShaped, AttestStep, PTL DEF Spec

-----------------------------------------------------------------------------
(* CapOverrunBounded. *)

\* One device more for every request in flight beyond the first.
CapOverrunBounded ==
    \A c \in Citizens :
        Cardinality(NotRevoked(c)) <= MaxBindings - 1 + Cardinality(Calls)

\* The bindings of c that an activate() past its read of the row names.
Revived(c) == {b \in BindingsOf(c) : \E i \in Activating : call[i].dev = b}

\* What the cap counts is finite.
LEMMA CapFinite ==
    ASSUME NEW c \in Citizens
    PROVE  /\ IsFiniteSet(Weight(c)) /\ IsFiniteSet(Inserting(c))
           /\ IsFiniteSet(Weight(c)') /\ IsFiniteSet(Inserting(c)')
           /\ IsFiniteSet(NotRevoked(c)) /\ IsFiniteSet(Activating) /\ IsFiniteSet(Activating')
           /\ Cardinality(Weight(c)) \in Nat /\ Cardinality(Inserting(c)) \in Nat
           /\ Cardinality(Weight(c)') \in Nat /\ Cardinality(Inserting(c)') \in Nat
           /\ Cardinality(NotRevoked(c)) \in Nat /\ Cardinality(Calls) \in Nat
           /\ Cardinality(Activating) \in Nat /\ Cardinality(Activating') \in Nat
<1>1. /\ Weight(c) \in SUBSET Bindings /\ Weight(c)' \in SUBSET Bindings
      /\ NotRevoked(c) \in SUBSET Bindings
  BY DEF Weight, NotRevoked, BindingsOf
<1>2. /\ Inserting(c) \in SUBSET Calls /\ Inserting(c)' \in SUBSET Calls
      /\ Activating \in SUBSET Calls /\ Activating' \in SUBSET Calls
  BY DEF Inserting, Activating
<1>3. /\ IsFiniteSet(Weight(c)) /\ IsFiniteSet(Inserting(c))
      /\ IsFiniteSet(Weight(c)') /\ IsFiniteSet(Inserting(c)')
      /\ IsFiniteSet(NotRevoked(c)) /\ IsFiniteSet(Activating) /\ IsFiniteSet(Activating')
  BY <1>1, <1>2, FiniteAssumption, FS_Subset
<1> QED
  BY <1>3, FiniteAssumption, FS_CardinalityType

\* Each activate() names one binding, so no more of them count than there are calls.
LEMMA WeightBound ==
    ASSUME NEW c \in Citizens
    PROVE  Cardinality(Weight(c)) <= Cardinality(NotRevoked(c)) + Cardinality(Activating)
<1> DEFINE A == {i \in Activating : call[i].dev \in BindingsOf(c)}
           f == [i \in A |-> call[i].dev]
<1>1. IsFiniteSet(A) /\ Cardinality(A) <= Cardinality(Activating)
  <2>1. A \in SUBSET Activating
    OBVIOUS
  <2> QED
    BY <2>1, CapFinite, FS_Subset
<1>2. f \in Surjection(A, Revived(c))
  BY DEF Surjection, Revived
<1>3. IsFiniteSet(Revived(c)) /\ Cardinality(Revived(c)) <= Cardinality(A)
  BY <1>1, <1>2, FS_Surjection
<1>4. Weight(c) = NotRevoked(c) \cup Revived(c)
  BY DEF Weight, Revived
<1> HIDE DEF A, f
<1>5. Cardinality(Weight(c)) = Cardinality(NotRevoked(c)) + Cardinality(Revived(c))
                                 - Cardinality(NotRevoked(c) \cap Revived(c))
  BY <1>3, <1>4, CapFinite, FS_Union
<1>6. Cardinality(NotRevoked(c) \cap Revived(c)) \in Nat
  BY <1>3, FS_Intersection, FS_CardinalityType
<1>7. /\ Cardinality(Revived(c)) \in Nat /\ Cardinality(A) \in Nat
      /\ Cardinality(NotRevoked(c)) \in Nat /\ Cardinality(Activating) \in Nat
  BY <1>1, <1>3, CapFinite, FS_CardinalityType
<1> QED
  BY <1>1, <1>3, <1>5, <1>6, <1>7

\* A step that adds nothing to what the cap counts of c.
LEMMA CapKept ==
    ASSUME CapInv, NEW c \in Citizens,
           Weight(c)' \subseteq Weight(c), Inserting(c)' \subseteq Inserting(c)
    PROVE  Cardinality(Weight(c)') + Cardinality(Inserting(c)')
             <= MaxBindings - 1 + Cardinality(Calls)
<1>1. /\ Cardinality(Weight(c)') <= Cardinality(Weight(c))
      /\ Cardinality(Inserting(c)') <= Cardinality(Inserting(c))
  BY CapFinite, FS_Subset
<1> QED
  BY <1>1, CapFinite, LimitsAssumption DEF CapInv

\* An enrolment that was counted under the cap leaves room for the other requests.
LEMMA CountFits ==
    ASSUME NEW c \in Citizens, Weight(c)' = Weight(c), Activating' = Activating,
           ~(Cardinality(NotRevoked(c)) >= MaxBindings)
    PROVE  Cardinality(Weight(c)') + Cardinality(Inserting(c)')
             <= MaxBindings - 1 + Cardinality(Calls)
<1>1. Activating' \cap Inserting(c)' = {} /\ Activating' \cup Inserting(c)' \in SUBSET Calls
  BY DEF Activating, Inserting
<1>2. Cardinality(Activating' \cup Inserting(c)')
        = Cardinality(Activating') + Cardinality(Inserting(c)')
  <2>1. Cardinality(Activating' \cup Inserting(c)')
          = Cardinality(Activating') + Cardinality(Inserting(c)')
              - Cardinality(Activating' \cap Inserting(c)')
    BY CapFinite, FS_Union
  <2>2. Cardinality(Activating' \cap Inserting(c)') = 0
    BY <1>1, FS_EmptySet
  <2>3. Cardinality(Activating') \in Nat /\ Cardinality(Inserting(c)') \in Nat
    BY CapFinite
  <2> QED
    BY <2>1, <2>2, <2>3
<1>3. Cardinality(Activating' \cup Inserting(c)') <= Cardinality(Calls)
  BY <1>1, FiniteAssumption, FS_Subset
<1>4. Cardinality(Weight(c)) <= Cardinality(NotRevoked(c)) + Cardinality(Activating)
  BY WeightBound
<1> QED
  BY <1>2, <1>3, <1>4, CapFinite, LimitsAssumption

\* Every step keeps the overrun within the requests in flight.
LEMMA CapStep == IInv /\ CapInv /\ [Next]_vars => CapInv'
<1> SUFFICES ASSUME IInv, CapInv, [Next]_vars, NEW c \in Citizens
             PROVE  Cardinality(Weight(c)') + Cardinality(Inserting(c)')
                      <= MaxBindings - 1 + Cardinality(Calls)
  BY DEF CapInv
<1> DEFINE Fits == Cardinality(Weight(c)') + Cardinality(Inserting(c)')
                     <= MaxBindings - 1 + Cardinality(Calls)
<1> SUFFICES Fits
  OBVIOUS
<1>kept. ASSUME Weight(c)' \subseteq Weight(c), Inserting(c)' \subseteq Inserting(c) PROVE Fits
  BY <1>kept, CapKept
<1> HIDE DEF Fits
<1>1. ASSUME NEW i \in Calls, Advances(i) PROVE Fits
  <2>1. Others(i) /\ NotRevoked(c)' = NotRevoked(c)
    BY <1>1 DEF Advances, NotRevoked, BindingsOf
  <2>2. CASE /\ call[i].pc = "eCount" /\ call'[i].pc = "eInsert" /\ call'[i].cit = call[i].cit
             /\ ~(Cardinality(NotRevoked(call[i].cit)) >= MaxBindings)
    <3>1. Activating' = Activating
      BY <2>1, <2>2 DEF Activating, Others
    <3>2. Weight(c)' = Weight(c)
      BY <2>1, <2>2, <3>1 DEF Weight, Activating, Others
    <3>3. CASE call[i].cit = c
      BY <2>2, <3>1, <3>2, <3>3, CountFits DEF Fits
    <3>4. CASE call[i].cit # c
      <4>1. Inserting(c)' \subseteq Inserting(c)
        BY <2>1, <2>2, <3>4 DEF Inserting, Others
      <4> QED
        BY <1>kept, <3>2, <4>1
    <3> QED
      BY <3>3, <3>4
  <2>3. CASE /\ call[i].pc = "aRead" /\ call'[i].pc = "aConsume" /\ call'[i].dev = call[i].dev
             /\ bstatus[call[i].dev] = "pending"
    <3>1. Inserting(c)' \subseteq Inserting(c)
      BY <2>1, <2>3 DEF Inserting, Others
    <3>2. Weight(c)' \subseteq Weight(c)
      <4> SUFFICES ASSUME NEW b \in BindingsOf(c), NEW m \in Calls,
                          call'[m].pc \in {"aConsume", "aUpdate"}, call'[m].dev = b
                   PROVE  b \in Weight(c)
        BY <2>1 DEF Weight, Activating, BindingsOf
      <4>1. CASE m = i
        BY <2>3, <4>1 DEF Weight, NotRevoked
      <4>2. CASE m # i
        BY <2>1, <4>2 DEF Weight, Activating, Others
      <4> QED
        BY <4>1, <4>2
    <3> QED
      BY <1>kept, <3>1, <3>2
  <2>4. CASE call'[i].pc \notin {"eInsert", "aConsume", "aUpdate"}
    <3>1. Inserting(c)' \subseteq Inserting(c)
      BY <2>1, <2>4 DEF Inserting, Others
    <3>2. Weight(c)' \subseteq Weight(c)
      BY <2>1, <2>4 DEF Weight, Activating, Others, BindingsOf
    <3> QED
      BY <1>kept, <3>1, <3>2
  <2> QED
    BY <1>1, <2>2, <2>3, <2>4 DEF Advances, Aside, ReassertPcs
<1>2. ASSUME NEW i \in Calls, NEW b \in Bindings, EnrolInsert(i, b) PROVE Fits
  <2>1. /\ Others(i) /\ call[i].pc = "eInsert" /\ call[i].cit = CitizenOf[b]
        /\ call'[i].pc = "eIssue" /\ bstatus[b] = "absent"
        /\ bstatus' = [bstatus EXCEPT ![b] = "pending"]
    BY <1>2, InsertIs DEF IInv, EnrolInsert
  <2>2. Activating' = Activating /\ \A m \in Activating : call'[m] = call[m]
    BY <2>1 DEF Activating, Others
  <2>3. CASE CitizenOf[b] = c
    <3>1. NotRevoked(c)' = NotRevoked(c) \cup {b}
      BY <2>1, <2>3 DEF NotRevoked, BindingsOf, IInv, TypeOK, StoreTypeOK
    <3>2. Weight(c)' = Weight(c) \cup {b}
      BY <2>2, <3>1 DEF Weight, BindingsOf
    <3>3. Inserting(c)' = Inserting(c) \ {i} /\ i \in Inserting(c)
      BY <2>1, <2>3 DEF Inserting, Others
    <3>4. /\ Cardinality(Weight(c)') <= Cardinality(Weight(c)) + 1
          /\ Cardinality(Inserting(c)') = Cardinality(Inserting(c)) - 1
      BY <3>2, <3>3, CapFinite, CardFacts
    <3> QED
      BY <3>4, CapFinite, LimitsAssumption DEF CapInv, Fits
  <2>4. CASE CitizenOf[b] # c
    <3>1. NotRevoked(c)' = NotRevoked(c)
      BY <2>1, <2>4 DEF NotRevoked, BindingsOf, IInv, TypeOK, StoreTypeOK
    <3>2. Weight(c)' = Weight(c)
      BY <2>2, <3>1 DEF Weight, BindingsOf
    <3>3. Inserting(c)' \subseteq Inserting(c)
      BY <2>1 DEF Inserting, Others
    <3> QED
      BY <1>kept, <3>2, <3>3
  <2> QED
    BY <2>3, <2>4
<1>3. ASSUME NEW i \in Calls, ActivateConsume(i) PROVE Fits
  <2>1. call[i].pc = "aConsume" /\ NotRevoked(c)' = NotRevoked(c)
    BY <1>3 DEF ActivateConsume, NotRevoked, BindingsOf, storeVars
  <2>2. /\ Others(i)
        /\ \/ call'[i].pc = "aUpdate" /\ call'[i].dev = call[i].dev
           \/ call'[i].pc = "idle"
    <3>1. "aUpdate" \in Pcs
      BY DEF Pcs
    <3> QED
      BY <1>3, <3>1, GotoAdvances DEF ActivateConsume
  <2>3. Inserting(c)' \subseteq Inserting(c)
    BY <2>2 DEF Inserting, Others
  <2>4. Weight(c)' \subseteq Weight(c)
    BY <2>1, <2>2 DEF Weight, Activating, Others, BindingsOf
  <2> QED
    BY <1>kept, <2>3, <2>4
<1>4. ASSUME NEW i \in Calls, ActivateUpdate(i) PROVE Fits
  <2>1. /\ call[i].pc = "aUpdate" /\ Others(i) /\ call'[i].pc = "idle"
        /\ bstatus' = [bstatus EXCEPT ![call[i].dev] = "active"]
    BY <1>4, GotoAdvances DEF ActivateUpdate
  <2>2. Inserting(c)' \subseteq Inserting(c)
    BY <2>1 DEF Inserting, Others
  <2>3. NotRevoked(c)' \subseteq Weight(c)
    BY <2>1 DEF Weight, NotRevoked, Activating, BindingsOf, IInv, TypeOK, StoreTypeOK
  <2>4. Revived(c)' \subseteq Revived(c)
    BY <2>1 DEF Revived, Activating, Others, BindingsOf
  <2>5. Weight(c)' = NotRevoked(c)' \cup Revived(c)' /\ Revived(c) \subseteq Weight(c)
    BY DEF Weight, Revived
  <2> QED
    BY <1>kept, <2>2, <2>3, <2>4, <2>5
<1>5. ASSUME NEW i \in Calls,
             \/ EnrolAttest(i)
             \/ \E x \in Challenges : EnrolIssue(i, x) \/ ChallengeIssue(i, x)
             \/ LoginConsume(i) \/ LoginSession(i) \/ ReassertRevoke(i) \/ RevokeUpdate(i)
      PROVE  Fits
  <2>1. Others(i) /\ call'[i].pc \in {"idle", "eMatch", "lClear", "lFail", "sPick", "rAudit"}
    <3>1. /\ "eMatch" \in Pcs /\ "lClear" \in Pcs /\ "lFail" \in Pcs /\ "sPick" \in Pcs
          /\ "rAudit" \in Pcs
      BY DEF Pcs
    <3> QED
      BY <1>5, <3>1, GotoAdvances DEF EnrolAttest, EnrolIssue, ChallengeIssue, LoginConsume,
         LoginSession, ReassertRevoke, RevokeUpdate, Denied
  <2>2. NotRevoked(c)' \subseteq NotRevoked(c)
    <3>1. CASE UNCHANGED bstatus
      BY <3>1 DEF NotRevoked, BindingsOf
    <3>2. CASE ReassertRevoke(i)
      BY <3>2 DEF ReassertRevoke, RevokeActiveBindings, ActiveBindingsOf, BindingsOf, NotRevoked
    <3>3. CASE RevokeUpdate(i)
      BY <3>3 DEF RevokeUpdate, RevokeBinding, NotRevoked, BindingsOf, IInv, TypeOK, StoreTypeOK
    <3> QED
      BY <1>5, <3>1, <3>2, <3>3 DEF EnrolAttest, EnrolIssue, ChallengeIssue, LoginConsume,
         LoginSession, storeVars
  <2>3. Inserting(c)' \subseteq Inserting(c) /\ Revived(c)' \subseteq Revived(c)
    BY <2>1 DEF Inserting, Revived, Activating, Others, BindingsOf
  <2>4. /\ Weight(c)' = NotRevoked(c)' \cup Revived(c)'
        /\ Weight(c) = NotRevoked(c) \cup Revived(c)
    BY DEF Weight, Revived
  <2> QED
    BY <1>kept, <2>2, <2>3, <2>4
<1>6. ASSUME NEW i \in Calls, Step(i) \/ Abort(i) PROVE Fits
  BY <1>1, <1>2, <1>3, <1>4, <1>5, <1>6, StepAdvances DEF Writes
<1>7. ASSUME NEW i \in Calls, Request(i) \/ Sweep(i) PROVE Fits
  BY <1>1, <1>7, RequestAdvances
<1>8. CASE \/ Expire
           \/ \E n \in Nonces : attestationChallenge(n)
           \/ \E b \in Bindings : Stales(b)
           \/ \E d \in Citizens : SdidInvalidates(d)
           \/ UNCHANGED vars
  <2>1. call' = call /\ bstatus' = bstatus
    BY <1>8 DEF Expire, attestationChallenge, Stales, CadenceElapses, SdidInvalidates,
       vars, storeVars
  <2>2. Weight(c)' = Weight(c) /\ Inserting(c)' = Inserting(c)
    BY <2>1 DEF Weight, NotRevoked, BindingsOf, Activating, Inserting
  <2> QED
    BY <1>kept, <2>2
<1> QED
  BY <1>6, <1>7, <1>8, SweepersAssumption DEF Next

\* The bindings of the start are within the cap.
LEMMA InitCap == Init => CapInv
<1> SUFFICES ASSUME Init, NEW c \in Citizens
             PROVE  Cardinality(Weight(c)) + Cardinality(Inserting(c))
                      <= MaxBindings - 1 + Cardinality(Calls)
  BY DEF CapInv
<1>1. Weight(c) = Enrolled \cap BindingsOf(c) /\ Inserting(c) = {}
  BY DEF Init, Weight, NotRevoked, BindingsOf, Activating, Inserting, Idle
<1>2. Cardinality(Weight(c)) <= MaxBindings /\ Cardinality(Inserting(c)) = 0
  BY <1>1, CapAssumption, FS_EmptySet
<1>3. Cardinality(Calls) \in Nat \ {0}
  BY FiniteAssumption, FS_EmptySet, FS_CardinalityType
<1> QED
  BY <1>2, <1>3, CapFinite, LimitsAssumption

\* The count and the INSERT of start are two statements, so the cap on a citizen's
\* bindings can be overrun, by the requests in flight beyond the first and by no more.
THEOREM CapOverrunIsBounded == Spec => []CapOverrunBounded
<1>1. CapInv => CapOverrunBounded
  <2> SUFFICES ASSUME CapInv, NEW c \in Citizens
               PROVE  Cardinality(NotRevoked(c)) <= MaxBindings - 1 + Cardinality(Calls)
    BY DEF CapOverrunBounded
  <2>1. Cardinality(NotRevoked(c)) <= Cardinality(Weight(c))
    <3>1. NotRevoked(c) \in SUBSET Weight(c)
      BY DEF Weight
    <3> QED
      BY <3>1, CapFinite, FS_Subset
  <2> QED
    BY <2>1, CapFinite, LimitsAssumption DEF CapInv
<1> QED
  BY <1>1, InitCap, LifecycleShaped, CapStep, PTL DEF Spec

=============================================================================
