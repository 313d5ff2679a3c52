----------------------------- MODULE TokenAccess -----------------------------
(***************************************************************************)
(* What happens to tokens after they are minted: the consent ledger and    *)
(* its revocation by the citizen, /oidc/userinfo, /oidc/introspect and     *)
(* /oidc/revoke, the pairwise subjects, and the registry of relying        *)
(* parties.  Requests interleave between their queries.  Time runs in half *)
(* seconds, because JWT lifetimes are whole seconds (floored) and Redis    *)
(* keys expire to the millisecond.                                         *)
(***************************************************************************)
EXTENDS Integers, FiniteSets

CONSTANTS Citizens, Rps, Scopes, Tokens, Grants, Calls,
          TokenSeconds,   \* ACCESS_TOKEN_TTL_SECONDS
          ClaimedExps,    \* exp claims of JWTs nobody signed
          MaxTime,        \* bound: half seconds
          None

ASSUME TokenAssumption ==
    /\ None \notin Citizens \cup Rps \cup Tokens \cup Grants
    /\ TokenSeconds \in Nat \ {0} /\ MaxTime \in Nat /\ ClaimedExps \subseteq Nat

VARIABLES now,
          rpStatus,       \* relying_parties.status, "absent" before registration
          subjects,       \* pairwise_subjects: the (citizen, rp) pairs with a row
          tok,            \* access tokens by jti
          grant,          \* consent_grants
          denylist,       \* revoked:<jti>: when the key expires, 0 for no key
          until,          \* ghost: exp of the JWT the last SET of the key was for
          call            \* requests in flight

vars == <<now, rpStatus, subjects, tok, grant, denylist, until, call>>

NoToken == [rp |-> None, citizen |-> None, scopes |-> {}, exp |-> 0]
NoGrant == [rp |-> None, citizen |-> None, scopes |-> {}, revoked |-> FALSE]
Idle == [op |-> "none", pc |-> "idle", rp |-> None, citizen |-> None, scopes |-> {},
         jti |-> None, exp |-> 0, id |-> None, gone |-> {}]

At(i, op, pc) == call[i].op = op /\ call[i].pc = pc
Goto(i, pc) == call' = [call EXCEPT ![i].pc = pc]
Return(i) == call' = [call EXCEPT ![i] = Idle]

Begin(i, c) == call[i] = Idle /\ call' = [call EXCEPT ![i] = c]

Seconds(t) == t \div 2
Minted(j) == tok[j] # NoToken
Given(g) == grant[g] # NoGrant

\* jose.jwtVerify: signed by the broker and exp > floor(now).
verifyJwt(j) == Minted(j) /\ Seconds(now) < tok[j].exp

\* GET revoked:<jti>.
Denied(j) == now < denylist[j]

\* The consent rows of this pair that are not revoked cover the scopes.
hasActiveGrant(c, p, scopes) ==
    \E g \in Grants : /\ grant[g].citizen = c /\ grant[g].rp = p /\ ~grant[g].revoked
                      /\ scopes \subseteq grant[g].scopes
-----------------------------------------------------------------------------
(* Relying parties and their pairwise subjects.                            *)

registerRp(p) ==
    /\ rpStatus[p] = "absent"
    /\ rpStatus' = [rpStatus EXCEPT ![p] = "active"]
    /\ UNCHANGED <<now, subjects, tok, grant, denylist, until, call>>

suspendRp(p) ==
    /\ rpStatus[p] = "active"
    /\ rpStatus' = [rpStatus EXCEPT ![p] = "suspended"]
    /\ UNCHANGED <<now, subjects, tok, grant, denylist, until, call>>

\* authenticateClient: the secret matches and the party is active.
authenticateClient(p) == rpStatus[p] = "active"

\* The subject is an HMAC of the citizen under the party's own salt: the pair
\* itself.  A row may exist already; the INSERT then does nothing.
subjectFor(c, p) == subjects' = subjects \cup {<<c, p>>}

\* citizenForSubject: found only under the party it was derived for.
citizenForSubject(p, sub) == IF sub \in subjects /\ sub[2] = p THEN sub[1] ELSE None

provisionPairwise(c, p) ==
    /\ rpStatus[p] # "absent"
    /\ <<c, p>> \notin subjects
    /\ subjectFor(c, p)
    /\ UNCHANGED <<now, rpStatus, tok, grant, denylist, until, call>>
-----------------------------------------------------------------------------
(* Minting: the tail of the CIBA and code grants, after client             *)
(* authentication and the single-use UPDATE (module AuthTxn).              *)

MintStart(i) ==
    \E op \in {"ciba", "code"}, c \in Citizens, p \in Rps, scopes \in SUBSET Scopes :
        /\ authenticateClient(p)
        /\ \E j \in Tokens : ~Minted(j)
        /\ Begin(i, [Idle EXCEPT !.op = op, !.pc = "subject", !.citizen = c, !.rp = p,
                                 !.scopes = scopes])
        /\ UNCHANGED <<now, rpStatus, subjects, tok, grant, denylist, until>>

MintSubject(i) ==
    /\ call[i].pc = "subject"
    /\ subjectFor(call[i].citizen, call[i].rp)
    /\ Goto(i, "sign")
    /\ UNCHANGED <<now, rpStatus, tok, grant, denylist, until>>

\* Two signatures, one release; the code grant stops here.
MintSign(i) ==
    \E j \in Tokens :
        /\ call[i].pc = "sign"
        /\ ~Minted(j)
        /\ tok' = [tok EXCEPT ![j] = [rp |-> call[i].rp, citizen |-> call[i].citizen,
                                      scopes |-> call[i].scopes,
                                      exp |-> Seconds(now) + TokenSeconds]]
        /\ IF call[i].op = "ciba" THEN Goto(i, "consent") ELSE Return(i)
        /\ UNCHANGED <<now, rpStatus, subjects, grant, denylist, until>>

\* recordGrant, and the same INSERT in the CIBA grant.
recordGrant(i) ==
    \E g \in Grants :
        /\ call[i].pc = "consent"
        /\ ~Given(g)
        /\ grant' = [grant EXCEPT ![g] = [rp |-> call[i].rp, citizen |-> call[i].citizen,
                                          scopes |-> call[i].scopes, revoked |-> FALSE]]
        /\ Return(i)
        /\ UNCHANGED <<now, rpStatus, subjects, tok, denylist, until>>
-----------------------------------------------------------------------------
(* The citizen revokes a consent.                                          *)

RevokeGrantRead(i) ==
    \E g \in Grants :
        /\ Given(g) /\ ~grant[g].revoked
        /\ Begin(i, [Idle EXCEPT !.op = "revokeGrant", !.pc = "update", !.id = g])
        /\ UNCHANGED <<now, rpStatus, subjects, tok, grant, denylist, until>>

\* UPDATE by id alone, so the slower of two revocations writes again.
RevokeGrantUpdate(i) ==
    /\ At(i, "revokeGrant", "update")
    /\ grant' = [grant EXCEPT ![call[i].id].revoked = TRUE]
    /\ Goto(i, "audit")
    /\ UNCHANGED <<now, rpStatus, subjects, tok, denylist, until>>

\* The audit row, and the answer; a failed append fails the answer only.
RevokeGrantAudit(i) ==
    /\ At(i, "revokeGrant", "audit")
    /\ Return(i)
    /\ UNCHANGED <<now, rpStatus, subjects, tok, grant, denylist, until>>
-----------------------------------------------------------------------------
(* GET /oidc/userinfo and POST /oidc/introspect.                           *)

\* What a call was too late for: the grants revoked before it began.
Question(op, j) ==
    [Idle EXCEPT !.op = op, !.pc = "denylist", !.jti = j, !.rp = tok[j].rp,
                 !.scopes = tok[j].scopes, !.gone = {g \in Grants : grant[g].revoked}]

UserinfoVerify(i) ==
    \E j \in Tokens :
        /\ verifyJwt(j)
        /\ Begin(i, Question("userinfo", j))
        /\ UNCHANGED <<now, rpStatus, subjects, tok, grant, denylist, until>>

\* Any active party may introspect any token.
IntrospectVerify(i) ==
    \E p \in Rps, j \in Tokens :
        /\ authenticateClient(p)
        /\ verifyJwt(j)
        /\ Begin(i, Question("introspect", j))
        /\ UNCHANGED <<now, rpStatus, subjects, tok, grant, denylist, until>>

CheckDenylist(i) ==
    /\ call[i].pc = "denylist"
    /\ IF Denied(call[i].jti) THEN Return(i)
       ELSE Goto(i, IF call[i].op = "userinfo" THEN "resolve" ELSE "active")
    /\ UNCHANGED <<now, rpStatus, subjects, tok, grant, denylist, until>>

\* The citizen comes from (party, subject); the party's and the citizen's status
\* are not looked at.
UserinfoResolve(i) ==
    LET c == citizenForSubject(call[i].rp, <<tok[call[i].jti].citizen, call[i].rp>>)
    IN
    /\ At(i, "userinfo", "resolve")
    /\ IF c = None THEN Return(i)
       ELSE call' = [call EXCEPT ![i].pc = "grants", ![i].citizen = c]
    /\ UNCHANGED <<now, rpStatus, subjects, tok, grant, denylist, until>>

\* Revoked consents are filtered by a date the query was built with.
MutantAnyGrant(i) ==
    /\ At(i, "userinfo", "grants")
    /\ IF \E g \in Grants : grant[g].citizen = call[i].citizen /\ grant[g].rp = call[i].rp
       THEN Goto(i, "released") ELSE Return(i)
    /\ UNCHANGED <<now, rpStatus, subjects, tok, grant, denylist, until>>

\* Then the attributes are fetched from SDID; a failure there answers 503.
UserinfoGrants(i) ==
    /\ At(i, "userinfo", "grants")
    /\ IF hasActiveGrant(call[i].citizen, call[i].rp, call[i].scopes)
       THEN Goto(i, "released") ELSE Return(i)
    /\ UNCHANGED <<now, rpStatus, subjects, tok, grant, denylist, until>>

\* The answer "released" or "active" leaves, or SDID is down.
Answered(i) ==
    /\ call[i].pc \in {"released", "active"}
    /\ Return(i)
    /\ UNCHANGED <<now, rpStatus, subjects, tok, grant, denylist, until>>
-----------------------------------------------------------------------------
(* POST /oidc/revoke.                                                      *)

\* The JWT is decoded, not verified, "even an expired token must be revocable":
\* its aud must be the caller, but its jti and exp are what the caller wrote.  A
\* jti that was never minted denies nothing and is left out.
RevokeStart(i) ==
    \E p \in Rps, j \in Tokens : \E e \in ClaimedExps \cup {tok[j].exp} :
        /\ authenticateClient(p)
        /\ Minted(j)
        /\ Begin(i, [Idle EXCEPT !.op = "revoke", !.pc = "set", !.jti = j, !.exp = e])
        /\ UNCHANGED <<now, rpStatus, subjects, tok, grant, denylist, until>>

\* The clock is rounded up instead of down.
MutantTtl(exp) == LET left == exp - Seconds(now + 1) IN IF left > 1 THEN left ELSE 1

\* Seconds the denylist key is to live.
Ttl(exp) == LET left == exp - Seconds(now) IN IF left > 1 THEN left ELSE 1

\* SET ... EX replaces the key and its expiry, whatever they were.
RevokeSet(i) ==
    /\ At(i, "revoke", "set")
    /\ denylist' = [denylist EXCEPT ![call[i].jti] = now + 2 * Ttl(call[i].exp)]
    /\ until' = [until EXCEPT ![call[i].jti] = call[i].exp]
    /\ Goto(i, "answer")
    /\ UNCHANGED <<now, rpStatus, subjects, tok, grant>>

\* Redis refuses the SET: the error is swallowed with those of undecodable
\* tokens.
RevokeSwallowed(i) ==
    /\ At(i, "revoke", "set")
    /\ Goto(i, "answer")
    /\ UNCHANGED <<now, rpStatus, subjects, tok, grant, denylist, until>>

\* 200 in every case; the audit row's failure is swallowed too.
RevokeAnswer(i) ==
    /\ At(i, "revoke", "answer")
    /\ Return(i)
    /\ UNCHANGED <<now, rpStatus, subjects, tok, grant, denylist, until>>
-----------------------------------------------------------------------------
Tick ==
    /\ now < MaxTime
    /\ now' = now + 1
    /\ UNCHANGED <<rpStatus, subjects, tok, grant, denylist, until, call>>

Init ==
    /\ now = 0
    /\ rpStatus = [p \in Rps |-> "absent"]
    /\ subjects = {}
    /\ tok = [j \in Tokens |-> NoToken]
    /\ grant = [g \in Grants |-> NoGrant]
    /\ denylist = [j \in Tokens |-> 0]
    /\ until = [j \in Tokens |-> 0]
    /\ call = [i \in Calls |-> Idle]

CallStep(i) ==
    \/ MintStart(i) \/ MintSubject(i) \/ MintSign(i) \/ recordGrant(i)
    \/ RevokeGrantRead(i) \/ RevokeGrantUpdate(i) \/ RevokeGrantAudit(i)
    \/ UserinfoVerify(i) \/ IntrospectVerify(i) \/ CheckDenylist(i)
    \/ UserinfoResolve(i) \/ UserinfoGrants(i) \/ Answered(i)
    \/ RevokeStart(i) \/ RevokeSet(i) \/ RevokeAnswer(i) \/ RevokeSwallowed(i)

Next ==
    \/ \E p \in Rps : registerRp(p) \/ suspendRp(p)
    \/ \E c \in Citizens, p \in Rps : provisionPairwise(c, p)
    \/ \E i \in Calls : CallStep(i)
    \/ Tick

Spec == Init /\ [][Next]_vars
-----------------------------------------------------------------------------
(* Properties.                                                             *)

\* Revoking a consent is immediate for attribute release (runbook: "even for a
\* live token"): /oidc/userinfo releases only under a grant of this citizen to
\* this party that covers the token's scopes and was not yet revoked when the
\* request began.
ReleasedUnderConsent ==
    \A i \in Calls : At(i, "userinfo", "released") =>
        /\ call[i].citizen = tok[call[i].jti].citizen
        /\ \E g \in Grants \ call[i].gone :
              /\ grant[g].citizen = call[i].citizen /\ grant[g].rp = tok[call[i].jti].rp
              /\ tok[call[i].jti].scopes \subseteq grant[g].scopes

\* The denylist key answers for the JWT it was last set for, to its very end: the
\* TTL is counted from floored seconds and Redis expires to the millisecond, yet
\* the key is gone only once that JWT's exp has passed (revoke).
LastRevocationHolds == \A j \in Tokens : Denied(j) \/ Seconds(now) >= until[j]
=============================================================================
