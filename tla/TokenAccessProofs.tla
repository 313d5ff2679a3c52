-------------------------- MODULE TokenAccessProofs --------------------------
(***************************************************************************)
(* Proofs about TokenAccess, for any citizens, relying parties, scopes,    *)
(* tokens, consents and requests in flight, any token lifetime and any     *)
(* stretch of time.                                                        *)
(***************************************************************************)
EXTENDS TokenAccess, TLAPS

-----------------------------------------------------------------------------
(* Types. *)

Ops == {"none", "ciba", "code", "revokeGrant", "userinfo", "introspect", "revoke"}
Pcs == {"idle", "subject", "sign", "consent", "update", "audit", "denylist",
        "resolve", "active", "grants", "released", "set", "answer"}

Token == [rp : Rps \cup {None}, citizen : Citizens \cup {None},
          scopes : SUBSET Scopes, exp : Nat]
Grant == [rp : Rps \cup {None}, citizen : Citizens \cup {None},
          scopes : SUBSET Scopes, revoked : BOOLEAN]
Call == [op : Ops, pc : Pcs, rp : Rps \cup {None}, citizen : Citizens \cup {None},
         scopes : SUBSET Scopes, jti : Tokens \cup {None}, exp : Nat,
         id : Grants \cup {None}, gone : SUBSET Grants]

TypeInv ==
    /\ now \in Nat
    /\ rpStatus \in [Rps -> {"absent", "active", "suspended"}]
    /\ subjects \subseteq Citizens \X Rps
    /\ tok \in [Tokens -> Token]
    /\ grant \in [Grants -> Grant]
    /\ denylist \in [Tokens -> Nat]
    /\ until \in [Tokens -> Nat]
    /\ call \in [Calls -> Call]

-----------------------------------------------------------------------------
(* The inductive invariant. *)

\* A denylist key that outlives the JWT it was last set for.
Outlives(j) == denylist[j] >= 2 * until[j]

\* The token's owner and audience are real, and every denylist key outlives its JWT.
TokenInv ==
    /\ \A j \in Tokens : Minted(j) => tok[j].rp \in Rps /\ tok[j].citizen \in Citizens
    /\ \A j \in Tokens : Outlives(j)

\* A consent that covers the token and was not revoked when the call began.
Covered(i) ==
    \E g \in Grants \ call[i].gone :
        /\ grant[g].citizen = call[i].citizen /\ grant[g].rp = tok[call[i].jti].rp
        /\ tok[call[i].jti].scopes \subseteq grant[g].scopes

\* What a request in flight carries, by the query it is at: a question carries
\* its token's claims and the consents it came too late for.
CallOK(i) ==
    /\ call[i].pc \in {"subject", "sign", "consent"} =>
          call[i].rp \in Rps /\ call[i].citizen \in Citizens
    /\ call[i].pc = "update" => call[i].id \in Grants
    /\ call[i].pc \in {"set", "answer"} => call[i].jti \in Tokens /\ Minted(call[i].jti)
    /\ call[i].pc \in {"denylist", "resolve", "grants", "released", "active"} =>
          /\ call[i].jti \in Tokens /\ Minted(call[i].jti)
          /\ call[i].rp = tok[call[i].jti].rp /\ call[i].scopes = tok[call[i].jti].scopes
          /\ \A g \in call[i].gone : grant[g].revoked
    /\ call[i].pc \in {"grants", "released"} => call[i].citizen = tok[call[i].jti].citizen
    /\ call[i].pc = "released" => Covered(i)

IInv == TypeInv /\ TokenInv /\ \A i \in Calls : CallOK(i)

-----------------------------------------------------------------------------
(* Half seconds and whole seconds. *)

\* A whole second holds two half seconds (Math.floor of the clock).
LEMMA SecondsAre ==
    ASSUME NEW t \in Nat
    PROVE  Seconds(t) \in Nat /\ 2 * Seconds(t) <= t /\ t <= 2 * Seconds(t) + 1
  BY DEF Seconds

\* The TTL that revoke computes makes the key outlive the JWT.
LEMMA TtlOutlives ==
    ASSUME TypeInv, NEW exp \in Nat
    PROVE  now + 2 * Ttl(exp) \in Nat /\ now + 2 * Ttl(exp) >= 2 * exp
<1>1. now \in Nat /\ Seconds(now) \in Nat /\ 2 * Seconds(now) <= now
  BY SecondsAre DEF TypeInv
<1> QED
  BY <1>1 DEF Ttl

\* A key that outlives its JWT is missing only when the JWT has expired.
LEMMA DeniedOrExpired ==
    ASSUME TypeInv, NEW j \in Tokens, Outlives(j)
    PROVE  Denied(j) \/ Seconds(now) >= until[j]
<1>1. /\ now \in Nat /\ until[j] \in Nat /\ denylist[j] \in Nat
      /\ Seconds(now) \in Nat /\ now <= 2 * Seconds(now) + 1
  BY SecondsAre DEF TypeInv
<1> QED
  BY <1>1 DEF Outlives, Denied

-----------------------------------------------------------------------------
(* Requests move, and the world around them only grows. *)

Others(i) == \A m \in Calls \ {i} : call'[m] = call[m]

\* A request that moves on keeps what it carries.
LEMMA GotoIs ==
    ASSUME TypeInv, NEW i \in Calls, NEW pc \in Pcs, Goto(i, pc)
    PROVE  /\ call' \in [Calls -> Call] /\ Others(i) /\ call'[i].pc = pc
           /\ call'[i].op = call[i].op /\ call'[i].rp = call[i].rp
           /\ call'[i].citizen = call[i].citizen /\ call'[i].scopes = call[i].scopes
           /\ call'[i].jti = call[i].jti /\ call'[i].id = call[i].id
           /\ call'[i].exp = call[i].exp /\ call'[i].gone = call[i].gone
  BY DEF TypeInv, Call, Goto, Others

\* A request that is answered leaves nothing behind.
LEMMA ReturnIs ==
    ASSUME TypeInv, NEW i \in Calls, Return(i)
    PROVE  call' \in [Calls -> Call] /\ Others(i) /\ call'[i].pc = "idle"
<1>1. Idle \in Call /\ Idle.pc = "idle"
  BY DEF Idle, Call, Ops, Pcs
<1> QED
  BY <1>1 DEF TypeInv, Return, Others

\* A request starts with its handler's arguments.
LEMMA BeginIs ==
    ASSUME TypeInv, NEW i \in Calls, NEW c \in Call, Begin(i, c)
    PROVE  call' \in [Calls -> Call] /\ Others(i) /\ call'[i] = c
  BY DEF TypeInv, Begin, Others

\* Tokens and consents keep what they say, revocations of consents stay.
Grows ==
    /\ \A j \in Tokens : Minted(j) => tok'[j] = tok[j] /\ Minted(j)'
    /\ \A g \in Grants : grant[g].revoked => grant'[g].revoked
    /\ \A g \in Grants : grant[g].citizen \in Citizens =>
          /\ grant'[g].citizen = grant[g].citizen /\ grant'[g].rp = grant[g].rp
          /\ grant'[g].scopes = grant[g].scopes

\* A request that is not served keeps what it knows.
LEMMA OtherKept ==
    ASSUME IInv, Grows, NEW i \in Calls, call'[i] = call[i]
    PROVE  CallOK(i)'
<1>1. CallOK(i)
  BY DEF IInv
<1>2. call[i].pc = "released" => Covered(i)'
  <2> SUFFICES ASSUME call[i].pc = "released" PROVE Covered(i)'
    OBVIOUS
  <2>1. /\ call[i].jti \in Tokens /\ Minted(call[i].jti)
        /\ call[i].citizen = tok[call[i].jti].citizen
    BY <1>1 DEF CallOK
  <2>2. call[i].citizen \in Citizens
    BY <2>1 DEF IInv, TokenInv
  <2>3. PICK g \in Grants \ call[i].gone :
          /\ grant[g].citizen = call[i].citizen /\ grant[g].rp = tok[call[i].jti].rp
          /\ tok[call[i].jti].scopes \subseteq grant[g].scopes
    BY <1>1 DEF CallOK, Covered
  <2>4. /\ grant'[g].citizen = grant[g].citizen /\ grant'[g].rp = grant[g].rp
        /\ grant'[g].scopes = grant[g].scopes
    BY <2>2, <2>3 DEF Grows
  <2>5. tok'[call'[i].jti] = tok[call[i].jti]
    BY <2>1 DEF Grows
  <2> QED
    BY <2>3, <2>4, <2>5 DEF Covered
<1>3. call[i].jti \in Tokens => (Minted(call[i].jti) => tok'[call[i].jti] = tok[call[i].jti])
  BY DEF Grows
<1>4. call[i].jti \in Tokens => (Minted(call[i].jti) => Minted(call[i].jti)')
  BY DEF Grows, Minted
<1>5. \A g \in Grants : grant[g].revoked => grant'[g].revoked
  BY DEF Grows
<1>6. call[i].gone \subseteq Grants
  BY DEF IInv, TypeInv, Call
<1> QED
  BY <1>1, <1>2, <1>3, <1>4, <1>5, <1>6 DEF CallOK

\* One request is served, the others wait.
LEMMA ServedKept ==
    ASSUME IInv, TypeInv', TokenInv', Grows, NEW i \in Calls, Others(i), CallOK(i)'
    PROVE  IInv'
<1>1. \A m \in Calls \ {i} : CallOK(m)'
  BY OtherKept DEF Others
<1> QED
  BY <1>1 DEF IInv

\* A request that is over, or only audits, knows nothing.
LEMMA QuietOK ==
    ASSUME NEW i \in Calls, call'[i].pc \in {"idle", "audit"}
    PROVE  CallOK(i)'
  BY DEF CallOK

\* A step that only moves a request leaves the world as it was.
LEMMA WorldStill ==
    ASSUME IInv, UNCHANGED <<now, rpStatus, subjects, tok, grant, denylist, until>>,
           call' \in [Calls -> Call]
    PROVE  TypeInv' /\ TokenInv' /\ Grows
<1>1. TypeInv'
  BY DEF IInv, TypeInv
<1>2. \A j \in Tokens : Minted(j)' = Minted(j) /\ Outlives(j)' = Outlives(j)
  BY DEF Minted, Outlives
<1>3. TokenInv'
  BY <1>2 DEF IInv, TokenInv
<1> QED
  BY <1>1, <1>2, <1>3 DEF Grows

\* Minting: the claims are those of the transaction, the token is a new one.
LEMMA MintStep ==
    ASSUME IInv, NEW i \in Calls, MintStart(i) \/ MintSubject(i) \/ MintSign(i) \/ recordGrant(i)
    PROVE  IInv'
<1>ok. TypeInv /\ TokenInv /\ CallOK(i) /\ Seconds(now) \in Nat
  BY SecondsAre DEF IInv, TypeInv
<1>pcs. "sign" \in Pcs /\ "consent" \in Pcs
  BY DEF Pcs
<1>1. CASE MintStart(i)
  <2>1. PICK op \in {"ciba", "code"}, c \in Citizens, p \in Rps, scopes \in SUBSET Scopes :
          /\ Begin(i, [Idle EXCEPT !.op = op, !.pc = "subject", !.citizen = c, !.rp = p,
                                   !.scopes = scopes])
          /\ UNCHANGED <<now, rpStatus, subjects, tok, grant, denylist, until>>
    BY <1>1 DEF MintStart
  <2> DEFINE new == [Idle EXCEPT !.op = op, !.pc = "subject", !.citizen = c, !.rp = p,
                                 !.scopes = scopes]
  <2>2. new \in Call
    BY DEF Idle, Call, Ops, Pcs
  <2>3. new.pc = "subject" /\ new.rp = p /\ new.citizen = c
    BY DEF Idle
  <2> HIDE DEF new
  <2>4. call' \in [Calls -> Call] /\ Others(i) /\ call'[i] = new
    BY <1>ok, <2>1, <2>2, BeginIs DEF new
  <2>5. CallOK(i)'
    BY <2>3, <2>4 DEF CallOK
  <2> QED
    BY <2>1, <2>4, <2>5, WorldStill, ServedKept
<1>2. CASE MintSubject(i)
  <2>1. /\ call' \in [Calls -> Call] /\ Others(i) /\ call'[i].pc = "sign"
        /\ call'[i].rp = call[i].rp /\ call'[i].citizen = call[i].citizen
        /\ call[i].pc = "subject"
    BY <1>2, <1>ok, <1>pcs, GotoIs DEF MintSubject
  <2>2. TypeInv'
    BY <1>2, <1>ok, <2>1 DEF MintSubject, subjectFor, TypeInv, CallOK
  <2>3. \A j \in Tokens : Minted(j)' = Minted(j) /\ Outlives(j)' = Outlives(j)
    BY <1>2 DEF MintSubject, Minted, Outlives
  <2>4. TokenInv' /\ Grows
    BY <1>2, <1>ok, <2>3 DEF MintSubject, TokenInv, TypeInv, Grows
  <2>5. CallOK(i)'
    BY <1>ok, <2>1 DEF CallOK
  <2> QED
    BY <2>1, <2>2, <2>4, <2>5, ServedKept
<1>3. CASE MintSign(i)
  <2>1. PICK j \in Tokens :
          /\ call[i].pc = "sign" /\ ~Minted(j)
          /\ tok' = [tok EXCEPT ![j] = [rp |-> call[i].rp, citizen |-> call[i].citizen,
                                        scopes |-> call[i].scopes,
                                        exp |-> Seconds(now) + TokenSeconds]]
          /\ IF call[i].op = "ciba" THEN Goto(i, "consent") ELSE Return(i)
          /\ UNCHANGED <<now, rpStatus, subjects, grant, denylist, until>>
    BY <1>3 DEF MintSign
  <2>2. call[i].rp \in Rps /\ call[i].citizen \in Citizens /\ call[i].scopes \in SUBSET Scopes
    BY <1>ok, <2>1 DEF CallOK, TypeInv, Call
  <2>3. /\ call' \in [Calls -> Call] /\ Others(i)
        /\ \/ call'[i].pc = "idle"
           \/ /\ call'[i].pc = "consent" /\ call'[i].rp = call[i].rp
              /\ call'[i].citizen = call[i].citizen
    BY <1>ok, <1>pcs, <2>1, GotoIs, ReturnIs
  <2>4. /\ tok' \in [Tokens -> Token] /\ tok'[j].rp \in Rps /\ tok'[j].citizen \in Citizens
        /\ \A k \in Tokens \ {j} : tok'[k] = tok[k]
    BY <1>ok, <2>1, <2>2, TokenAssumption DEF TypeInv, Token
  <2>5. TypeInv'
    BY <1>ok, <2>1, <2>3, <2>4 DEF TypeInv
  <2>6. \A k \in Tokens : Minted(k) => tok'[k] = tok[k] /\ Minted(k)'
    BY <2>1, <2>4 DEF Minted
  <2>7. \A k \in Tokens : Outlives(k)' = Outlives(k)
    BY <2>1 DEF Outlives
  <2>8. TokenInv'
    <3>1. \A k \in Tokens : Minted(k)' => tok'[k].rp \in Rps /\ tok'[k].citizen \in Citizens
      BY <1>ok, <2>4 DEF TokenInv, Minted
    <3> QED
      BY <1>ok, <2>1, <2>7, <3>1 DEF TokenInv, TypeInv
  <2>9. Grows
    BY <1>ok, <2>1, <2>6, <2>7 DEF Grows
  <2>10. CallOK(i)'
    BY <2>2, <2>3 DEF CallOK
  <2> QED
    BY <2>3, <2>5, <2>8, <2>9, <2>10, ServedKept
<1>4. CASE recordGrant(i)
  <2>1. PICK g \in Grants :
          /\ call[i].pc = "consent" /\ ~Given(g)
          /\ grant' = [grant EXCEPT ![g] = [rp |-> call[i].rp, citizen |-> call[i].citizen,
                                            scopes |-> call[i].scopes, revoked |-> FALSE]]
          /\ Return(i)
          /\ UNCHANGED <<now, rpStatus, subjects, tok, denylist, until>>
    BY <1>4 DEF recordGrant
  <2>2. call' \in [Calls -> Call] /\ Others(i) /\ call'[i].pc = "idle"
    BY <1>ok, <2>1, ReturnIs
  <2>3. call[i].rp \in Rps /\ call[i].citizen \in Citizens /\ call[i].scopes \in SUBSET Scopes
    BY <1>ok, <2>1 DEF CallOK, TypeInv, Call
  <2>4. grant' \in [Grants -> Grant] /\ \A h \in Grants \ {g} : grant'[h] = grant[h]
    BY <1>ok, <2>1, <2>3 DEF TypeInv, Grant
  <2>5. ~grant[g].revoked /\ grant[g].citizen \notin Citizens
    BY <2>1, TokenAssumption DEF Given, NoGrant
  <2>6. TypeInv'
    BY <1>ok, <2>1, <2>2, <2>4 DEF TypeInv
  <2>7. \A j \in Tokens : Minted(j)' = Minted(j) /\ Outlives(j)' = Outlives(j)
    BY <2>1 DEF Minted, Outlives
  <2>8. TokenInv'
    BY <1>ok, <2>1, <2>7 DEF TokenInv, TypeInv
  <2>9. Grows
    BY <1>ok, <2>1, <2>4, <2>5, <2>7 DEF Grows
  <2> QED
    BY <2>2, <2>6, <2>8, <2>9, QuietOK, ServedKept
<1> QED
  BY <1>1, <1>2, <1>3, <1>4

\* The citizen's revocation of a consent only adds to what is revoked.
LEMMA RevokeGrantStep ==
    ASSUME IInv, NEW i \in Calls,
           RevokeGrantRead(i) \/ RevokeGrantUpdate(i) \/ RevokeGrantAudit(i)
    PROVE  IInv'
<1>ok. TypeInv /\ TokenInv /\ CallOK(i)
  BY DEF IInv
<1>1. CASE RevokeGrantRead(i)
  <2>1. PICK g \in Grants :
          /\ Begin(i, [Idle EXCEPT !.op = "revokeGrant", !.pc = "update", !.id = g])
          /\ UNCHANGED <<now, rpStatus, subjects, tok, grant, denylist, until>>
    BY <1>1 DEF RevokeGrantRead
  <2> DEFINE new == [Idle EXCEPT !.op = "revokeGrant", !.pc = "update", !.id = g]
  <2>2. new \in Call /\ new.pc = "update" /\ new.id = g
    BY DEF Idle, Call, Ops, Pcs
  <2> HIDE DEF new
  <2>3. call' \in [Calls -> Call] /\ Others(i) /\ call'[i] = new
    BY <1>ok, <2>1, <2>2, BeginIs DEF new
  <2>4. CallOK(i)'
    BY <2>2, <2>3 DEF CallOK
  <2> QED
    BY <2>1, <2>3, <2>4, WorldStill, ServedKept
<1>2. CASE RevokeGrantUpdate(i)
  <2>1. "audit" \in Pcs
    BY DEF Pcs
  <2>2. PICK g \in Grants : g = call[i].id
    BY <1>2, <1>ok DEF RevokeGrantUpdate, At, CallOK
  <2>3. call' \in [Calls -> Call] /\ Others(i) /\ call'[i].pc = "audit"
    BY <1>2, <1>ok, <2>1, GotoIs DEF RevokeGrantUpdate
  <2>4. grant' = [grant EXCEPT ![g].revoked = TRUE]
    BY <1>2, <2>2 DEF RevokeGrantUpdate
  <2>5. /\ grant' \in [Grants -> Grant] /\ grant'[g].revoked
        /\ grant'[g].citizen = grant[g].citizen /\ grant'[g].rp = grant[g].rp
        /\ grant'[g].scopes = grant[g].scopes
        /\ \A h \in Grants \ {g} : grant'[h] = grant[h]
    BY <1>ok, <2>4 DEF TypeInv, Grant
  <2>6. TypeInv'
    BY <1>2, <1>ok, <2>3, <2>5 DEF RevokeGrantUpdate, TypeInv
  <2>7. \A j \in Tokens : Minted(j)' = Minted(j) /\ Outlives(j)' = Outlives(j)
    BY <1>2 DEF RevokeGrantUpdate, Minted, Outlives
  <2>8. TokenInv'
    BY <1>2, <1>ok, <2>7 DEF RevokeGrantUpdate, TokenInv, TypeInv
  <2>9. Grows
    BY <1>2, <1>ok, <2>5, <2>7 DEF RevokeGrantUpdate, Grows
  <2> QED
    BY <2>3, <2>6, <2>8, <2>9, QuietOK, ServedKept
<1>3. CASE RevokeGrantAudit(i)
  <2>1. call' \in [Calls -> Call] /\ Others(i) /\ call'[i].pc = "idle"
    BY <1>3, <1>ok, ReturnIs DEF RevokeGrantAudit
  <2> QED
    BY <1>3, <2>1, WorldStill, QuietOK, ServedKept DEF RevokeGrantAudit
<1> QED
  BY <1>1, <1>2, <1>3

\* A question starts with its token's claims and what it comes too late for.
LEMMA QuestionStarts ==
    ASSUME IInv, NEW i \in Calls, NEW j \in Tokens, NEW op \in {"userinfo", "introspect"},
           Minted(j), Begin(i, Question(op, j)),
           UNCHANGED <<now, rpStatus, subjects, tok, grant, denylist, until>>
    PROVE  IInv'
<1>ok. TypeInv /\ TokenInv
  BY DEF IInv
<1> DEFINE G == {g \in Grants : grant[g].revoked}
           new == Question(op, j)
<1>1. tok[j].rp \in Rps /\ tok[j].scopes \in SUBSET Scopes /\ G \in SUBSET Grants
  BY <1>ok DEF TokenInv, TypeInv, Token
<1>2. new = [Idle EXCEPT !.op = op, !.pc = "denylist", !.jti = j, !.rp = tok[j].rp,
                         !.scopes = tok[j].scopes, !.gone = G]
  BY DEF Question
<1> HIDE DEF G, new
<1>3. /\ new.pc = "denylist" /\ new.jti = j /\ new.rp = tok[j].rp
      /\ new.scopes = tok[j].scopes /\ new.gone = G
  BY <1>2 DEF Idle
<1>4. new \in Call
  BY <1>1, <1>2 DEF Idle, Call, Ops, Pcs
<1>5. call' \in [Calls -> Call] /\ Others(i) /\ call'[i] = new
  BY <1>ok, <1>4, BeginIs DEF new
<1>6. \A g \in G : grant'[g].revoked
  BY DEF G
<1>7. Minted(j)'
  BY DEF Minted
<1>8. CallOK(i)'
  BY <1>3, <1>5, <1>6, <1>7 DEF CallOK
<1> QED
  BY <1>5, <1>8, WorldStill, ServedKept

\* Each query of userinfo and introspect adds what the answer rests on.
LEMMA QuestionStep ==
    ASSUME IInv, NEW i \in Calls,
           \/ UserinfoVerify(i) \/ IntrospectVerify(i) \/ CheckDenylist(i)
           \/ UserinfoResolve(i) \/ UserinfoGrants(i) \/ Answered(i)
    PROVE  IInv'
<1>ok. TypeInv /\ TokenInv /\ CallOK(i)
  BY DEF IInv
<1>pcs. "resolve" \in Pcs /\ "active" \in Pcs /\ "grants" \in Pcs /\ "released" \in Pcs
  BY DEF Pcs
<1>return. ASSUME Return(i), UNCHANGED <<now, rpStatus, subjects, tok, grant, denylist, until>>
           PROVE  IInv'
  <2>1. call' \in [Calls -> Call] /\ Others(i) /\ call'[i].pc = "idle"
    BY <1>return, <1>ok, ReturnIs
  <2> QED
    BY <1>return, <2>1, WorldStill, QuietOK, ServedKept
<1>1. CASE UserinfoVerify(i) \/ IntrospectVerify(i)
  BY <1>1, QuestionStarts DEF UserinfoVerify, IntrospectVerify, verifyJwt
<1>2. CASE CheckDenylist(i)
  <2>1. CASE Denied(call[i].jti)
    BY <1>2, <1>return, <2>1 DEF CheckDenylist
  <2>2. CASE ~Denied(call[i].jti)
    <3>1. /\ call' \in [Calls -> Call] /\ Others(i) /\ call'[i].pc \in {"resolve", "active"}
          /\ call'[i].rp = call[i].rp /\ call'[i].scopes = call[i].scopes
          /\ call'[i].jti = call[i].jti /\ call'[i].gone = call[i].gone
          /\ call[i].pc = "denylist"
      BY <1>2, <2>2, <1>ok, <1>pcs, GotoIs DEF CheckDenylist
    <3>2. UNCHANGED <<now, tok, grant, denylist, until>>
      BY <1>2 DEF CheckDenylist
    <3>3. call[i].jti \in Tokens /\ Minted(call[i].jti)
      BY <1>ok, <3>1 DEF CallOK
    <3>4. Minted(call[i].jti)'
      BY <3>1, <3>2, <3>3 DEF Minted
    <3>5. CallOK(i)'
      BY <1>ok, <3>1, <3>2, <3>3, <3>4 DEF CallOK
    <3> QED
      BY <1>2, <3>1, <3>5, WorldStill, ServedKept DEF CheckDenylist
  <2> QED
    BY <2>1, <2>2
<1>3. CASE UserinfoResolve(i)
  <2> DEFINE c == citizenForSubject(call[i].rp, <<tok[call[i].jti].citizen, call[i].rp>>)
  <2>1. CASE c = None
    BY <1>3, <1>return, <2>1 DEF UserinfoResolve
  <2>2. CASE c # None
    <3>1. /\ call[i].pc = "resolve" /\ UNCHANGED <<now, tok, grant, denylist, until>>
          /\ call' = [call EXCEPT ![i].pc = "grants", ![i].citizen = c]
      BY <1>3, <2>2 DEF UserinfoResolve, At
    <3>2. c = tok[call[i].jti].citizen
      BY <2>2 DEF citizenForSubject
    <3>3. /\ call[i].jti \in Tokens /\ Minted(call[i].jti)
          /\ tok[call[i].jti].citizen \in Citizens
      BY <1>ok, <3>1 DEF CallOK, TokenInv
    <3> HIDE DEF c
    <3>4. /\ call' \in [Calls -> Call] /\ Others(i) /\ call'[i].pc = "grants"
          /\ call'[i].rp = call[i].rp /\ call'[i].scopes = call[i].scopes
          /\ call'[i].jti = call[i].jti /\ call'[i].gone = call[i].gone
          /\ call'[i].citizen = c
      <4> DEFINE f == [call EXCEPT ![i].pc = "grants"]
      <4>1. /\ f \in [Calls -> Call] /\ \A m \in Calls \ {i} : f[m] = call[m]
            /\ f[i].pc = "grants" /\ f[i].rp = call[i].rp /\ f[i].scopes = call[i].scopes
            /\ f[i].jti = call[i].jti /\ f[i].gone = call[i].gone
        BY <1>ok, <1>pcs DEF TypeInv, Call
      <4>2. call' = [f EXCEPT ![i].citizen = c]
        BY <3>1
      <4> HIDE DEF f
      <4> QED
        BY <3>2, <3>3, <4>1, <4>2 DEF Others, Call
    <3>5. Minted(call[i].jti)'
      BY <3>1, <3>3, <3>4 DEF Minted
    <3>6. CallOK(i)'
      BY <1>ok, <3>1, <3>2, <3>3, <3>4, <3>5 DEF CallOK
    <3> QED
      BY <1>3, <3>4, <3>6, WorldStill, ServedKept DEF UserinfoResolve
  <2> QED
    BY <2>1, <2>2
<1>4. CASE UserinfoGrants(i)
  <2>1. CASE ~hasActiveGrant(call[i].citizen, call[i].rp, call[i].scopes)
    BY <1>4, <1>return, <2>1 DEF UserinfoGrants
  <2>2. CASE hasActiveGrant(call[i].citizen, call[i].rp, call[i].scopes)
    <3>1. /\ call' \in [Calls -> Call] /\ Others(i) /\ call'[i].pc = "released"
          /\ call'[i].rp = call[i].rp /\ call'[i].scopes = call[i].scopes
          /\ call'[i].jti = call[i].jti /\ call'[i].gone = call[i].gone
          /\ call'[i].citizen = call[i].citizen
          /\ call[i].pc = "grants"
      BY <1>4, <2>2, <1>ok, <1>pcs, GotoIs DEF UserinfoGrants, At
    <3>2. UNCHANGED <<now, tok, grant, denylist, until>>
      BY <1>4 DEF UserinfoGrants
    <3>3. call[i].jti \in Tokens /\ Minted(call[i].jti)
      BY <1>ok, <3>1 DEF CallOK
    <3>4. PICK g \in Grants : /\ grant[g].citizen = call[i].citizen /\ grant[g].rp = call[i].rp
                              /\ ~grant[g].revoked /\ call[i].scopes \subseteq grant[g].scopes
      BY <2>2 DEF hasActiveGrant
    <3>5. g \notin call[i].gone
      BY <1>ok, <3>1, <3>4 DEF CallOK
    <3>6. Covered(i)'
      BY <1>ok, <3>1, <3>2, <3>3, <3>4, <3>5 DEF Covered, CallOK
    <3>7. Minted(call[i].jti)'
      BY <3>1, <3>2, <3>3 DEF Minted
    <3>8. CallOK(i)'
      BY <1>ok, <3>1, <3>2, <3>3, <3>6, <3>7 DEF CallOK
    <3> QED
      BY <1>4, <3>1, <3>8, WorldStill, ServedKept DEF UserinfoGrants
  <2> QED
    BY <2>1, <2>2
<1>5. CASE Answered(i)
  BY <1>5, <1>return DEF Answered
<1> QED
  BY <1>1, <1>2, <1>3, <1>4, <1>5

\* A revocation sets a key that outlives the JWT it was posted with, or none.
LEMMA RevokeStep ==
    ASSUME IInv, NEW i \in Calls,
           RevokeStart(i) \/ RevokeSet(i) \/ RevokeAnswer(i) \/ RevokeSwallowed(i)
    PROVE  IInv'
<1>ok. TypeInv /\ TokenInv /\ CallOK(i)
  BY DEF IInv
<1>pcs. "answer" \in Pcs
  BY DEF Pcs
<1>1. CASE RevokeStart(i)
  <2>0. PICK p \in Rps, j \in Tokens : \E e \in ClaimedExps \cup {tok[j].exp} :
          /\ Minted(j)
          /\ Begin(i, [Idle EXCEPT !.op = "revoke", !.pc = "set", !.jti = j, !.exp = e])
          /\ UNCHANGED <<now, rpStatus, subjects, tok, grant, denylist, until>>
    BY <1>1 DEF RevokeStart
  <2>1. PICK e \in ClaimedExps \cup {tok[j].exp} :
          /\ Minted(j)
          /\ Begin(i, [Idle EXCEPT !.op = "revoke", !.pc = "set", !.jti = j, !.exp = e])
          /\ UNCHANGED <<now, rpStatus, subjects, tok, grant, denylist, until>>
    BY <2>0
  <2> DEFINE new == [Idle EXCEPT !.op = "revoke", !.pc = "set", !.jti = j, !.exp = e]
  <2>2. e \in Nat
    BY <1>ok, TokenAssumption DEF TypeInv, Token
  <2>3. Begin(i, new)
    BY <2>1
  <2>4. new \in Call /\ new.pc = "set" /\ new.jti = j
    BY <2>2 DEF Idle, Call, Ops, Pcs
  <2> HIDE DEF new
  <2>5. call' \in [Calls -> Call] /\ Others(i) /\ call'[i] = new
    BY <1>ok, <2>3, <2>4, BeginIs
  <2>6. Minted(j)'
    BY <2>1 DEF Minted
  <2>7. CallOK(i)'
    BY <2>4, <2>5, <2>6 DEF CallOK
  <2> QED
    BY <2>1, <2>5, <2>7, WorldStill, ServedKept
<1>2. CASE RevokeSet(i)
  <2>1. PICK j \in Tokens : j = call[i].jti /\ Minted(j)
    BY <1>2, <1>ok DEF RevokeSet, At, CallOK
  <2>2. PICK e \in Nat : e = call[i].exp
    BY <1>ok DEF TypeInv, Call
  <2>3. /\ call' \in [Calls -> Call] /\ Others(i)
        /\ call'[i].pc = "answer" /\ call'[i].jti = j
    BY <1>2, <1>ok, <1>pcs, <2>1, GotoIs DEF RevokeSet
  <2>4. /\ denylist' = [denylist EXCEPT ![j] = now + 2 * Ttl(e)]
        /\ until' = [until EXCEPT ![j] = e]
        /\ UNCHANGED <<now, rpStatus, subjects, tok, grant>>
    BY <1>2, <2>1, <2>2 DEF RevokeSet
  <2>5. /\ denylist' \in [Tokens -> Nat] /\ until' \in [Tokens -> Nat]
        /\ denylist'[j] >= 2 * until'[j]
        /\ \A k \in Tokens \ {j} : denylist'[k] = denylist[k] /\ until'[k] = until[k]
    BY <1>ok, <2>4, TtlOutlives DEF TypeInv
  <2>6. TypeInv'
    BY <1>ok, <2>3, <2>4, <2>5 DEF TypeInv
  <2>7. \A k \in Tokens : Minted(k)' = Minted(k) /\ Outlives(k)'
    BY <1>ok, <2>4, <2>5 DEF Minted, Outlives, TokenInv
  <2>8. TokenInv' /\ Grows
    BY <1>ok, <2>4, <2>7 DEF TokenInv, Grows
  <2>9. CallOK(i)'
    BY <2>1, <2>3, <2>7 DEF CallOK
  <2> QED
    BY <2>3, <2>6, <2>8, <2>9, ServedKept
<1>3. CASE RevokeAnswer(i)
  <2>1. call' \in [Calls -> Call] /\ Others(i) /\ call'[i].pc = "idle"
    BY <1>3, <1>ok, ReturnIs DEF RevokeAnswer
  <2> QED
    BY <1>3, <2>1, WorldStill, QuietOK, ServedKept DEF RevokeAnswer
<1>4. CASE RevokeSwallowed(i)
  <2>1. /\ call' \in [Calls -> Call] /\ Others(i) /\ call'[i].pc = "answer"
        /\ call'[i].jti = call[i].jti /\ call[i].pc = "set" /\ tok' = tok
    BY <1>4, <1>ok, <1>pcs, GotoIs DEF RevokeSwallowed, At
  <2>2. CallOK(i)'
    BY <1>ok, <2>1 DEF CallOK, Minted
  <2> QED
    BY <1>4, <2>1, <2>2, WorldStill, ServedKept DEF RevokeSwallowed
<1> QED
  BY <1>1, <1>2, <1>3, <1>4

\* The registry, the pairwise subjects and the clock leave every promise standing.
LEMMA EventStep ==
    ASSUME IInv,
           \/ \E p \in Rps : registerRp(p) \/ suspendRp(p)
           \/ \E c \in Citizens, p \in Rps : provisionPairwise(c, p)
           \/ Tick \/ UNCHANGED vars
    PROVE  IInv'
<1>ok. TypeInv /\ TokenInv
  BY DEF IInv
<1>1. UNCHANGED <<tok, grant, denylist, until, call>> /\ now' \in {now, now + 1}
  BY <1>ok DEF registerRp, suspendRp, provisionPairwise, Tick, vars
<1>2. TypeInv'
  <2>1. now' \in Nat
    BY <1>ok, <1>1 DEF TypeInv
  <2>2. rpStatus' \in [Rps -> {"absent", "active", "suspended"}]
    BY <1>ok DEF TypeInv, registerRp, suspendRp, provisionPairwise, Tick, vars
  <2>3. subjects' \subseteq Citizens \X Rps
    <3>1. \/ subjects' = subjects
          \/ \E c \in Citizens, p \in Rps : subjects' = subjects \cup {<<c, p>>}
      BY DEF registerRp, suspendRp, provisionPairwise, subjectFor, Tick, vars
    <3>2. \A c \in Citizens, p \in Rps : <<c, p>> \in Citizens \X Rps
      OBVIOUS
    <3>3. subjects \subseteq Citizens \X Rps
      BY <1>ok DEF TypeInv
    <3> QED
      BY <3>1, <3>2, <3>3
  <2> QED
    BY <1>ok, <1>1, <2>1, <2>2, <2>3 DEF TypeInv
<1>3. \A k \in Tokens : Minted(k)' = Minted(k) /\ Outlives(k)' = Outlives(k)
  BY <1>1 DEF Minted, Outlives
<1>4. TokenInv'
  BY <1>ok, <1>1, <1>3 DEF TokenInv, TypeInv
<1>5. Grows
  BY <1>1, <1>3 DEF Grows
<1>6. \A m \in Calls : CallOK(m)'
  BY <1>1, <1>5, OtherKept
<1> QED
  BY <1>2, <1>4, <1>6 DEF IInv

\* The empty ledger promises nothing.
LEMMA InitOK == Init => IInv
<1> SUFFICES ASSUME Init PROVE IInv
  OBVIOUS
<1>1. Idle \in Call /\ NoToken \in Token /\ NoGrant \in Grant /\ Idle.pc = "idle"
  BY DEF Idle, Call, Ops, Pcs, NoToken, Token, NoGrant, Grant
<1>2. TypeInv
  BY <1>1 DEF Init, TypeInv
<1>3. TokenInv
  BY DEF Init, TokenInv, Minted, Outlives
<1>4. \A i \in Calls : CallOK(i)
  BY <1>1 DEF Init, CallOK
<1> QED
  BY <1>2, <1>3, <1>4 DEF IInv

\* Every step keeps the invariant.
LEMMA InvStep == IInv /\ [Next]_vars => IInv'
<1> SUFFICES ASSUME IInv, [Next]_vars PROVE IInv'
  OBVIOUS
<1>1. ASSUME NEW i \in Calls, CallStep(i) PROVE IInv'
  BY <1>1, MintStep, RevokeGrantStep, QuestionStep, RevokeStep DEF CallStep
<1> QED
  BY <1>1, EventStep DEF Next

\* What every request in flight, token and denylist key can rely on.
THEOREM TokensSound == Spec => []IInv
  BY InitOK, InvStep, PTL DEF Spec

\* Attributes leave through /oidc/userinfo only for the token's own citizen and under
\* a consent that covers the token's scopes and was not revoked when the request
\* began, however revocations, mintings and questions interleave.
THEOREM ReleaseNeedsConsent == Spec => []ReleasedUnderConsent
<1>1. IInv => ReleasedUnderConsent
  <2> SUFFICES ASSUME IInv, NEW i \in Calls, At(i, "userinfo", "released")
               PROVE  call[i].citizen = tok[call[i].jti].citizen /\ Covered(i)
    BY DEF ReleasedUnderConsent, Covered
  <2> QED
    BY DEF IInv, CallOK, At
<1> QED
  BY <1>1, TokensSound, PTL

\* The denylist key of every JWT that was posted for revocation lasts until that
\* JWT's exp, whatever the lifetime, the instant and the claims of the JWTs posted
\* before it: its TTL is computed from floored seconds, and the key is missing only
\* once the clock has reached exp.
THEOREM RevocationHolds == Spec => []LastRevocationHolds
<1>1. IInv => LastRevocationHolds
  BY DeniedOrExpired DEF IInv, TokenInv, LastRevocationHolds
<1> QED
  BY <1>1, TokensSound, PTL

=============================================================================
