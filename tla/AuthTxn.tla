------------------------------ MODULE AuthTxn ------------------------------
(***************************************************************************)
(* The life of an authentication transaction in the broker.                *)
(*                                                                         *)
(* A relying party opens it (POST /oidc/bc-authorize, or GET               *)
(* /oidc/authorize for the code flow); a device of the citizen pulls it    *)
(* with a fresh single-use challenge (GET /v1/device/ciba/pending) and     *)
(* decides it with a signature (POST /v1/device/ciba/decision); the        *)
(* relying party redeems it (the CIBA grant of POST /oidc/token, or GET    *)
(* /oidc/authorize/poll followed by the code grant of POST /oidc/token).   *)
(*                                                                         *)
(* Every handler is a sequence of awaited Postgres, Redis and SDID calls   *)
(* with no transaction around them.  A call in flight is a record whose pc *)
(* names the next awaited call; one action is one awaited call with the    *)
(* code that runs up to the next await.  Abort is an awaited call that     *)
(* throws, a signature that does not verify, or the death of the process.  *)
(*                                                                         *)
(* Abstractions: ids (auth_req_id, challenge, code, jti) are drawn from    *)
(* finite sets and never reused; expiry is a flag that time raises; PKCE,  *)
(* redirect_uri, signature and client-secret checks are passed or end the  *)
(* call; scopes, messages and suspicious_report carry no control.          *)
(***************************************************************************)
EXTENDS IdentityStore, FiniteSets

CONSTANTS
    Txns,           \* auth_req_id
    Rps,            \* relying parties
    Challenges,     \* challengeId
    Codes,          \* authorization codes
    Jtis,           \* token sets, by the jti of the access token
    DeviceCalls,    \* device requests the broker can have in flight
    RpCalls,        \* relying-party and browser requests in flight
    RequestableALs, \* the assurance levels relying parties ask for
    Allowed,        \* the environment events a run lets happen
    None            \* SQL NULL

ASSUME RequestableAssumption == RequestableALs \subseteq ASSURANCE_LEVELS
ASSUME NoneAssumption ==
    /\ None \notin Citizens
    /\ None \notin Bindings
    /\ None \notin Txns
    /\ None \notin Rps
    /\ None \notin Challenges
    /\ None \notin Codes

EnvironmentEvents == {"abort", "lapse", "redis", "stale", "revoke", "sdid",
                      "suspendRp"}

ASSUME AllowedAssumption == Allowed \subseteq EnvironmentEvents

VARIABLES
    sdidValid,      \* citizens whose identity SDID still vouches for
    rpActive,       \* relying_parties with status active
    lateTxns,       \* transactions past their expires_at
    lateCodes,      \* authorization codes past theirs
    txn,            \* auth_transactions
    stash,          \* transactions with a codeflow:<auth_req_id> key in Redis
    chal,           \* challenge:<id> keys in Redis
    code,           \* authorization_codes
    tok,            \* token sets minted
    consent,        \* transactions with a consent_grants row
    log,            \* audit_events about transactions
    acked,          \* decisions answered with 200, as <<txn, decision>>
    released,       \* token sets answered with 200
    dcall,          \* device requests in flight
    rcall           \* relying-party requests in flight

world == <<sdidValid, rpActive, lateTxns, lateCodes>>
ledger == <<consent, log, acked, released>>
txnVars == <<world, txn, stash, chal, code, tok, ledger, dcall, rcall>>
vars == <<storeVars, txnVars>>

TxnStatus == {"none", "pending", "approved", "denied", "expired", "consumed"}

Txn == [status : TxnStatus, flow : {"ciba", "code"}, rp : Rps \cup {None},
        citizen : Citizens \cup {None}, al : ASSURANCE_LEVELS,
        by : Bindings \cup {None}]

\* "live" is a key in Redis; "spent" was consumed by a decision that matched
\* it; "gone" expired, or was burned by a decision that did not match it.
Challenge == [st : {"none", "live", "spent", "gone"}, txn : Txns \cup {None},
              dev : Bindings \cup {None}]

Code == [st : {"none", "unused", "used"}, txn : Txns \cup {None}]

\* A token set is minted in memory; released once the call returns 200.
Token == [txn : Txns \cup {None}, rp : Rps \cup {None}]

DevicePcs == {"idle", "list", "issue", "dRead", "dBinding", "raRead", "raSdid",
              "raSuspend", "raRevoke", "raStamp", "dConsume", "dResolve",
              "dAudit"}

DeviceCall == [pc : DevicePcs, dev : Bindings \cup {None},
               txn : Txns \cup {None}, ch : Challenges \cup {None},
               dec : {"approve", "deny"}, todo : SUBSET Txns]

RpPcs == {"idle", "bcInsert", "azInsert", "azStash", "gRead", "gExpire",
          "gAuditExpired", "gConsume", "gMint", "gConsent",
          "gAuditConsent", "gAudit",
          "pStash", "pConsume", "pInsert", "pDelStash", "pAudit",
          "cRead", "cConsume", "cMint", "cAudit"}

RpCall == [pc : RpPcs, rp : Rps \cup {None}, txn : Txns \cup {None},
           citizen : Citizens \cup {None}, al : ASSURANCE_LEVELS,
           code : Codes \cup {None}]

Event == [ev : {"request_approved", "request_denied", "request_expired",
                "consent_granted", "tokens_issued", "code_issued",
                "code_tokens_issued"},
          txn : Txns \cup {None}, by : Bindings \cup {None}]

IdleDevice == [pc |-> "idle", dev |-> None, txn |-> None, ch |-> None,
               dec |-> "deny", todo |-> {}]
IdleRp == [pc |-> "idle", rp |-> None, txn |-> None, citizen |-> None,
           al |-> 1, code |-> None]

TypeOK ==
    /\ StoreTypeOK
    /\ sdidValid \subseteq Citizens
    /\ rpActive \subseteq Rps
    /\ lateTxns \subseteq Txns
    /\ lateCodes \subseteq Codes
    /\ txn \in [Txns -> Txn]
    /\ stash \subseteq Txns
    /\ chal \in [Challenges -> Challenge]
    /\ code \in [Codes -> Code]
    /\ tok \in [Jtis -> Token]
    /\ consent \subseteq Txns
    /\ log \subseteq Event
    /\ acked \subseteq (Txns \X {"approve", "deny"})
    /\ released \subseteq Jtis
    /\ dcall \in [DeviceCalls -> DeviceCall]
    /\ rcall \in [RpCalls -> RpCall]

\* Enrolment is over: every binding is active and freshly verified.
Init ==
    /\ cstatus = [c \in Citizens |-> "active"]
    /\ bstatus = [b \in Bindings |-> "active"]
    /\ stale = {}
    /\ sdidValid = Citizens
    /\ rpActive = Rps
    /\ lateTxns = {}
    /\ lateCodes = {}
    /\ txn = [t \in Txns |-> [status |-> "none", flow |-> "ciba", rp |-> None,
                              citizen |-> None, al |-> 1, by |-> None]]
    /\ stash = {}
    /\ chal = [x \in Challenges |-> [st |-> "none", txn |-> None, dev |-> None]]
    /\ code = [k \in Codes |-> [st |-> "none", txn |-> None]]
    /\ tok = [j \in Jtis |-> [txn |-> None, rp |-> None]]
    /\ consent = {}
    /\ log = {}
    /\ acked = {}
    /\ released = {}
    /\ dcall = [i \in DeviceCalls |-> IdleDevice]
    /\ rcall = [i \in RpCalls |-> IdleRp]

-----------------------------------------------------------------------------
(* Bookkeeping of calls in flight. *)

DeviceStart(i, pc, b, t, x, dec) ==
    /\ dcall[i].pc = "idle"
    /\ dcall' = [dcall EXCEPT ![i] = [pc |-> pc, dev |-> b, txn |-> t, ch |-> x,
                                      dec |-> dec, todo |-> {}]]
RpStart(i, pc, r, t, c, al, k) ==
    /\ rcall[i].pc = "idle"
    /\ rcall' = [rcall EXCEPT ![i] = [pc |-> pc, rp |-> r, txn |-> t,
                                      citizen |-> c, al |-> al, code |-> k]]
DeviceGoto(i, pc) == dcall' = [dcall EXCEPT ![i].pc = pc]
DeviceReturn(i) == dcall' = [dcall EXCEPT ![i] = IdleDevice]
RpGoto(i, pc) == rcall' = [rcall EXCEPT ![i].pc = pc]
RpReturn(i) == rcall' = [rcall EXCEPT ![i] = IdleRp]

Record(ev, t, b) == log' = log \cup {[ev |-> ev, txn |-> t, by |-> b]}

-----------------------------------------------------------------------------
(* Opening a transaction. *)

\* Bound: the instance has an auth_req_id left.
IdLeft == \E t \in Txns : txn[t].status = "none"

CanMeet(c, al) == \E b \in ActiveBindingsOf(c) : alMeets(Level[b], al)

\* bc-authorize up to its INSERT: the client is authenticated, and the citizen
\* holds an active binding able to meet the requested level.
BcAuthorize(i, r, c, al) ==
    /\ IdLeft
    /\ r \in rpActive
    /\ CanMeet(c, al)
    /\ RpStart(i, "bcInsert", r, None, c, al, None)
    /\ UNCHANGED <<storeVars, world, txn, stash, chal, code, tok, ledger, dcall>>

InsertTxn(i, t, flow) ==
    /\ txn[t].status = "none"
    /\ txn' = [txn EXCEPT ![t] = [status |-> "pending", flow |-> flow,
                                  rp |-> rcall[i].rp,
                                  citizen |-> rcall[i].citizen,
                                  al |-> rcall[i].al, by |-> None]]

\* INSERT INTO auth_transactions; the wake-only push and the audit row that
\* follow leave the transaction alone.
BcInsert(i, t) ==
    /\ rcall[i].pc = "bcInsert"
    /\ InsertTxn(i, t, "ciba")
    /\ RpReturn(i)
    /\ UNCHANGED <<storeVars, world, stash, chal, code, tok, ledger, dcall>>

\* /authorize asks for no binding that can meet the level.
Authorize(i, r, c, al) ==
    /\ IdLeft
    /\ r \in rpActive
    /\ RpStart(i, "azInsert", r, None, c, al, None)
    /\ UNCHANGED <<storeVars, world, txn, stash, chal, code, tok, ledger, dcall>>

AuthorizeInsert(i, t) ==
    /\ rcall[i].pc = "azInsert"
    /\ InsertTxn(i, t, "code")
    /\ rcall' = [rcall EXCEPT ![i].pc = "azStash", ![i].txn = t]
    /\ UNCHANGED <<storeVars, world, stash, chal, code, tok, ledger, dcall>>

AuthorizeStash(i) ==
    /\ rcall[i].pc = "azStash"
    /\ stash' = stash \cup {rcall[i].txn}
    /\ RpReturn(i)
    /\ UNCHANGED <<storeVars, world, txn, chal, code, tok, ledger, dcall>>

-----------------------------------------------------------------------------
(* The device backchannel: pulling pending transactions. *)

\* DeviceSessionGuard: the session's binding is active in Postgres right now.
Guard(b) == bstatus[b] = "active"

Pending(i, b) ==
    /\ Guard(b)
    /\ DeviceStart(i, "list", b, None, None, "deny")
    /\ UNCHANGED <<storeVars, world, txn, stash, chal, code, tok, ledger, rcall>>

Open(t) == txn[t].status = "pending" /\ t \notin lateTxns

OpenFor(b) == {t \in Txns : Open(t) /\ txn[t].citizen = CitizenOf[b]}

PendingList(i) ==
    /\ dcall[i].pc = "list"
    /\ IF OpenFor(dcall[i].dev) = {}
         THEN DeviceReturn(i)
         ELSE dcall' = [dcall EXCEPT ![i].pc = "issue",
                                     ![i].todo = OpenFor(dcall[i].dev)]
    /\ UNCHANGED <<storeVars, world, txn, stash, chal, code, tok, ledger, rcall>>

\* One turn of the loop: a challenge bound to (auth_req_id, binding id), for a
\* transaction that was pending when the list was read.
IssueCiba(i, t, x) ==
    /\ dcall[i].pc = "issue"
    /\ t \in dcall[i].todo
    /\ chal[x].st = "none"
    /\ chal' = [chal EXCEPT ![x] = [st |-> "live", txn |-> t,
                                    dev |-> dcall[i].dev]]
    /\ IF dcall[i].todo = {t}
         THEN DeviceReturn(i)
         ELSE dcall' = [dcall EXCEPT ![i].todo = @ \ {t}]
    /\ UNCHANGED <<storeVars, world, txn, stash, code, tok, ledger, rcall>>

-----------------------------------------------------------------------------
(* The device backchannel: deciding a transaction. *)

Decision(i, b, t, x, dec) ==
    /\ Guard(b)
    /\ DeviceStart(i, "dRead", b, t, x, dec)
    /\ UNCHANGED <<storeVars, world, txn, stash, chal, code, tok, ledger, rcall>>

\* The transaction read by the handler can be decided by this device.
Decidable(t, b) == t \in OpenFor(b)

DecisionRead(i) ==
    /\ dcall[i].pc = "dRead"
    /\ IF Decidable(dcall[i].txn, dcall[i].dev)
         THEN DeviceGoto(i, "dBinding")
         ELSE DeviceReturn(i)
    /\ UNCHANGED <<storeVars, world, txn, stash, chal, code, tok, ledger, rcall>>

\* The binding is read a second time; an approval re-asserts the identity when
\* the binding is due, and always for AL3.
MayDecide(b, t) == bstatus[b] = "active" /\ alMeets(Level[b], txn[t].al)

DecisionBinding(i) ==
    LET b == dcall[i].dev
        t == dcall[i].txn
    IN
    /\ dcall[i].pc = "dBinding"
    /\ IF ~MayDecide(b, t)
         THEN DeviceReturn(i)
         ELSE IF dcall[i].dec = "approve" /\ isDue(b, txn[t].al = 3)
         THEN DeviceGoto(i, "raRead")
         ELSE DeviceGoto(i, "dConsume")
    /\ UNCHANGED <<storeVars, world, txn, stash, chal, code, tok, ledger, rcall>>

ReassertRead(i) ==
    /\ dcall[i].pc = "raRead"
    /\ IF cstatus[CitizenOf[dcall[i].dev]] = "active"
         THEN DeviceGoto(i, "raSdid")
         ELSE DeviceReturn(i)
    /\ UNCHANGED <<storeVars, world, txn, stash, chal, code, tok, ledger, rcall>>

\* SDID's verdict; an outage is an Abort.
ReassertSdid(i) ==
    /\ dcall[i].pc = "raSdid"
    /\ IF CitizenOf[dcall[i].dev] \in sdidValid
         THEN DeviceGoto(i, "raStamp")
         ELSE DeviceGoto(i, "raSuspend")
    /\ UNCHANGED <<storeVars, world, txn, stash, chal, code, tok, ledger, rcall>>

ReassertSuspend(i) ==
    /\ dcall[i].pc = "raSuspend"
    /\ SuspendCitizen(CitizenOf[dcall[i].dev])
    /\ DeviceGoto(i, "raRevoke")
    /\ UNCHANGED <<world, txn, stash, chal, code, tok, ledger, rcall>>

\* The revocation is audited and the decision refused with access_denied.
ReassertRevoke(i) ==
    /\ dcall[i].pc = "raRevoke"
    /\ RevokeActiveBindings(CitizenOf[dcall[i].dev])
    /\ DeviceReturn(i)
    /\ UNCHANGED <<world, txn, stash, chal, code, tok, ledger, rcall>>

ReassertStamp(i) ==
    /\ dcall[i].pc = "raStamp"
    /\ StampReassertion(CitizenOf[dcall[i].dev])
    /\ DeviceGoto(i, "dConsume")
    /\ UNCHANGED <<world, txn, stash, chal, code, tok, ledger, rcall>>

\* Another phone of the citizen spends a challenge it did not pull.
MutantAnyChallenge(x, t, b) == chal[x].txn = t

\* The stored purpose names this transaction and the stored binding this device.
ChallengeMatches(x, t, b) == chal[x].txn = t /\ chal[x].dev = b

\* GETDEL takes the challenge whether or not it matches; the signature over the
\* payload it yields is checked next, and a wrong one is an Abort.
ConsumeCiba(i) ==
    LET x == dcall[i].ch
        m == ChallengeMatches(x, dcall[i].txn, dcall[i].dev)
    IN
    /\ dcall[i].pc = "dConsume"
    /\ IF chal[x].st = "live"
         THEN /\ chal' = [chal EXCEPT ![x].st = IF m THEN "spent" ELSE "gone"]
              /\ IF m THEN DeviceGoto(i, "dResolve") ELSE DeviceReturn(i)
         ELSE /\ chal' = chal
              /\ DeviceReturn(i)
    /\ UNCHANGED <<storeVars, world, txn, stash, code, tok, ledger, rcall>>

MutantResolveUnguarded(t, b, dec) ==
    txn' = [txn EXCEPT
              ![t].status = IF dec = "approve" THEN "approved" ELSE "denied",
              ![t].by = b]

MutantResolveDecision(t, b, dec) ==
    txn' = IF txn[t].status = "pending"
             THEN [txn EXCEPT ![t].status = dec, ![t].by = b]
             ELSE txn

\* UPDATE ... WHERE status = 'pending'; how many rows it changed is not read.
Resolve(t, b, dec) ==
    txn' = IF txn[t].status = "pending"
             THEN [txn EXCEPT
                     ![t].status = IF dec = "approve" THEN "approved" ELSE "denied",
                     ![t].by = b]
             ELSE txn

DecisionResolve(i) ==
    /\ dcall[i].pc = "dResolve"
    /\ Resolve(dcall[i].txn, dcall[i].dev, dcall[i].dec)
    /\ DeviceGoto(i, "dAudit")
    /\ UNCHANGED <<storeVars, world, stash, chal, code, tok, ledger, rcall>>

\* The audit row, last_used_at, and the answer 200 {status}.
DecisionAudit(i) ==
    LET d == dcall[i] IN
    /\ d.pc = "dAudit"
    /\ Record(IF d.dec = "approve" THEN "request_approved" ELSE "request_denied",
              d.txn, d.dev)
    /\ acked' = acked \cup {<<d.txn, d.dec>>}
    /\ DeviceReturn(i)
    /\ UNCHANGED <<storeVars, world, txn, stash, chal, code, tok, consent, released, rcall>>

-----------------------------------------------------------------------------
(* POST /oidc/token with the CIBA grant type. *)

CibaGrant(i, r, t) ==
    /\ r \in rpActive
    /\ RpStart(i, "gRead", r, t, None, 1, None)
    /\ UNCHANGED <<storeVars, world, txn, stash, chal, code, tok, ledger, dcall>>

MutantAnyClient(t, r) == txn[t].status # "none"

\* Another client's transaction is answered like an unknown one.
OwnTxn(t, r) == txn[t].status # "none" /\ txn[t].rp = r

MutantReadNoExpiry(i) ==
    LET t == rcall[i].txn IN
    /\ rcall[i].pc = "gRead"
    /\ IF OwnTxn(t, rcall[i].rp) /\ txn[t].status = "approved"
         THEN RpGoto(i, "gConsume")
         ELSE RpReturn(i)
    /\ UNCHANGED <<storeVars, world, txn, stash, chal, code, tok, ledger, dcall>>

\* Every answer but "approved" and "expired while pending" is an error that
\* changes nothing.  The approving binding's row is read for its level.
CibaGrantRead(i) ==
    LET t == rcall[i].txn
        own == OwnTxn(t, rcall[i].rp)
    IN
    /\ rcall[i].pc = "gRead"
    /\ CASE own /\ txn[t].status = "pending" /\ t \in lateTxns -> RpGoto(i, "gExpire")
         [] own /\ txn[t].status = "approved" /\ txn[t].by # None -> RpGoto(i, "gConsume")
         [] OTHER -> RpReturn(i)
    /\ UNCHANGED <<storeVars, world, txn, stash, chal, code, tok, ledger, dcall>>

MutantExpireUnguarded(i) ==
    /\ rcall[i].pc = "gExpire"
    /\ txn' = [txn EXCEPT ![rcall[i].txn].status = "expired"]
    /\ RpGoto(i, "gAuditExpired")
    /\ UNCHANGED <<storeVars, world, stash, chal, code, tok, ledger, dcall>>

\* UPDATE ... SET status = 'expired' WHERE status = 'pending', audited only
\* when it changed a row.
CibaGrantExpire(i) ==
    LET t == rcall[i].txn IN
    /\ rcall[i].pc = "gExpire"
    /\ IF txn[t].status = "pending"
         THEN /\ txn' = [txn EXCEPT ![t].status = "expired"]
              /\ RpGoto(i, "gAuditExpired")
         ELSE /\ txn' = txn
              /\ RpReturn(i)
    /\ UNCHANGED <<storeVars, world, stash, chal, code, tok, ledger, dcall>>

CibaGrantAuditExpired(i) ==
    /\ rcall[i].pc = "gAuditExpired"
    /\ Record("request_expired", rcall[i].txn, None)
    /\ RpReturn(i)
    /\ UNCHANGED <<storeVars, world, txn, stash, chal, code, tok, consent, acked, released, dcall>>

MutantConsumeUnguarded(i, winner) ==
    /\ txn' = [txn EXCEPT ![rcall[i].txn].status = "consumed"]
    /\ RpGoto(i, winner)

\* UPDATE ... SET status = 'consumed' WHERE status = 'approved'; the call that
\* changed no row has lost the race.
ConsumeTxn(i, winner) ==
    LET t == rcall[i].txn IN
    IF txn[t].status = "approved"
      THEN /\ txn' = [txn EXCEPT ![t].status = "consumed"]
           /\ RpGoto(i, winner)
      ELSE /\ txn' = txn
           /\ RpReturn(i)

CibaGrantConsume(i) ==
    /\ rcall[i].pc = "gConsume"
    /\ ConsumeTxn(i, "gMint")
    /\ UNCHANGED <<storeVars, world, stash, chal, code, tok, ledger, dcall>>

Mint(j, t, r) ==
    /\ tok[j].txn = None
    /\ tok' = [tok EXCEPT ![j] = [txn |-> t, rp |-> r]]

\* The call answers 200 with the token set it minted.
Release(t) == released' = released \cup {j \in Jtis : tok[j].txn = t}

MutantMintNoConsent(i, j) ==
    /\ rcall[i].pc = "gMint"
    /\ Mint(j, rcall[i].txn, rcall[i].rp)
    /\ RpGoto(i, "gAudit")
    /\ UNCHANGED <<storeVars, world, txn, stash, chal, code, ledger, dcall>>

CibaGrantMint(i, j) ==
    /\ rcall[i].pc = "gMint"
    /\ Mint(j, rcall[i].txn, rcall[i].rp)
    /\ RpGoto(i, "gConsent")
    /\ UNCHANGED <<storeVars, world, txn, stash, chal, code, ledger, dcall>>

CibaGrantConsent(i) ==
    /\ rcall[i].pc = "gConsent"
    /\ consent' = consent \cup {rcall[i].txn}
    /\ RpGoto(i, "gAuditConsent")
    /\ UNCHANGED <<storeVars, world, txn, stash, chal, code, tok, log, acked, released, dcall>>

CibaGrantAuditConsent(i) ==
    /\ rcall[i].pc = "gAuditConsent"
    /\ Record("consent_granted", rcall[i].txn, None)
    /\ RpGoto(i, "gAudit")
    /\ UNCHANGED <<storeVars, world, txn, stash, chal, code, tok, consent, acked, released, dcall>>

CibaGrantAudit(i) ==
    LET t == rcall[i].txn IN
    /\ rcall[i].pc = "gAudit"
    /\ Record("tokens_issued", t, txn[t].by)
    /\ Release(t)
    /\ RpReturn(i)
    /\ UNCHANGED <<storeVars, world, txn, stash, chal, code, tok, consent, acked, dcall>>

-----------------------------------------------------------------------------
(* GET /oidc/authorize/poll: unauthenticated, driven by the browser page. *)

\* A poll that does not find an approved code-flow transaction changes nothing;
\* it never marks an expired one.
AuthorizePoll(i, t) ==
    /\ txn[t].flow = "code" /\ txn[t].status = "approved"
    /\ RpStart(i, "pStash", None, t, None, 1, None)
    /\ UNCHANGED <<storeVars, world, txn, stash, chal, code, tok, ledger, dcall>>

PollStash(i) ==
    /\ rcall[i].pc = "pStash"
    /\ IF rcall[i].txn \in stash /\ txn[rcall[i].txn].by # None
         THEN RpGoto(i, "pConsume")
         ELSE RpReturn(i)
    /\ UNCHANGED <<storeVars, world, txn, stash, chal, code, tok, ledger, dcall>>

PollConsume(i) ==
    /\ rcall[i].pc = "pConsume"
    /\ ConsumeTxn(i, "pInsert")
    /\ UNCHANGED <<storeVars, world, stash, chal, code, tok, ledger, dcall>>

PollInsert(i, k) ==
    /\ rcall[i].pc = "pInsert"
    /\ code[k].st = "none"
    /\ code' = [code EXCEPT ![k] = [st |-> "unused", txn |-> rcall[i].txn]]
    /\ RpGoto(i, "pDelStash")
    /\ UNCHANGED <<storeVars, world, txn, stash, chal, tok, ledger, dcall>>

PollDelStash(i) ==
    /\ rcall[i].pc = "pDelStash"
    /\ stash' = stash \ {rcall[i].txn}
    /\ RpGoto(i, "pAudit")
    /\ UNCHANGED <<storeVars, world, txn, chal, code, tok, ledger, dcall>>

PollAudit(i) ==
    LET t == rcall[i].txn IN
    /\ rcall[i].pc = "pAudit"
    /\ Record("code_issued", t, txn[t].by)
    /\ RpReturn(i)
    /\ UNCHANGED <<storeVars, world, txn, stash, chal, code, tok, consent, acked, released, dcall>>

-----------------------------------------------------------------------------
(* POST /oidc/token with an authorization code. *)

CodeGrant(i, r, k) ==
    /\ r \in rpActive
    /\ RpStart(i, "cRead", r, None, None, 1, k)
    /\ UNCHANGED <<storeVars, world, txn, stash, chal, code, tok, ledger, dcall>>

\* The code's row carries the relying party of its transaction.
CodeValid(k, r) ==
    /\ code[k].st = "unused"
    /\ k \notin lateCodes
    /\ txn[code[k].txn].rp = r

CodeGrantRead(i) ==
    LET k == rcall[i].code IN
    /\ rcall[i].pc = "cRead"
    /\ IF CodeValid(k, rcall[i].rp)
         THEN rcall' = [rcall EXCEPT ![i].pc = "cConsume", ![i].txn = code[k].txn]
         ELSE RpReturn(i)
    /\ UNCHANGED <<storeVars, world, txn, stash, chal, code, tok, ledger, dcall>>

MutantCodeUnguarded(i) ==
    /\ rcall[i].pc = "cConsume"
    /\ code' = [code EXCEPT ![rcall[i].code].st = "used"]
    /\ RpGoto(i, "cMint")
    /\ UNCHANGED <<storeVars, world, txn, stash, chal, tok, ledger, dcall>>

\* UPDATE ... SET consumed_at = now WHERE consumed_at IS NULL
CodeGrantConsume(i) ==
    LET k == rcall[i].code IN
    /\ rcall[i].pc = "cConsume"
    /\ IF code[k].st = "unused"
         THEN /\ code' = [code EXCEPT ![k].st = "used"]
              /\ RpGoto(i, "cMint")
         ELSE /\ code' = code
              /\ RpReturn(i)
    /\ UNCHANGED <<storeVars, world, txn, stash, chal, tok, ledger, dcall>>

CodeGrantMint(i, j) ==
    /\ rcall[i].pc = "cMint"
    /\ Mint(j, rcall[i].txn, rcall[i].rp)
    /\ RpGoto(i, "cAudit")
    /\ UNCHANGED <<storeVars, world, txn, stash, chal, code, ledger, dcall>>

CodeGrantAudit(i) ==
    LET t == rcall[i].txn IN
    /\ rcall[i].pc = "cAudit"
    /\ Record("code_tokens_issued", t, None)
    /\ Release(t)
    /\ RpReturn(i)
    /\ UNCHANGED <<storeVars, world, txn, stash, chal, code, tok, consent, acked, dcall>>

-----------------------------------------------------------------------------
(* Failures, time, and the other actors. *)

DeviceAbort(i) ==
    /\ "abort" \in Allowed
    /\ dcall[i].pc # "idle"
    /\ DeviceReturn(i)
    /\ UNCHANGED <<storeVars, world, txn, stash, chal, code, tok, ledger, rcall>>

RpAbort(i) ==
    /\ "abort" \in Allowed
    /\ rcall[i].pc # "idle"
    /\ RpReturn(i)
    /\ UNCHANGED <<storeVars, world, txn, stash, chal, code, tok, ledger, dcall>>

\* expires_at passes.  It is only ever compared for a pending transaction.
Lapse(t) ==
    /\ "lapse" \in Allowed
    /\ Open(t)
    /\ lateTxns' = lateTxns \cup {t}
    /\ UNCHANGED <<storeVars, sdidValid, rpActive, lateCodes, txn, stash, chal, code, tok, ledger, dcall, rcall>>

\* A challenge's TTL runs out (or Redis loses the key).
ChallengeExpires(x) ==
    /\ "redis" \in Allowed
    /\ chal[x].st = "live"
    /\ chal' = [chal EXCEPT ![x].st = "gone"]
    /\ UNCHANGED <<storeVars, world, txn, stash, code, tok, ledger, dcall, rcall>>

StashExpires(t) ==
    /\ "redis" \in Allowed
    /\ t \in stash
    /\ stash' = stash \ {t}
    /\ UNCHANGED <<storeVars, world, txn, chal, code, tok, ledger, dcall, rcall>>

CodeLapses(k) ==
    /\ "lapse" \in Allowed
    /\ code[k].st = "unused" /\ k \notin lateCodes
    /\ lateCodes' = lateCodes \cup {k}
    /\ UNCHANGED <<storeVars, sdidValid, rpActive, lateTxns, txn, stash, chal, code, tok, ledger, dcall, rcall>>

Stales(b) == "stale" \in Allowed /\ CadenceElapses(b) /\ UNCHANGED txnVars

\* The citizen revokes a binding from one of their devices.
DeviceRevoked(b) ==
    /\ "revoke" \in Allowed
    /\ bstatus[b] = "active"
    /\ RevokeBinding(b)
    /\ UNCHANGED txnVars

\* SDID stops vouching for an identity; it does not tell the broker.
SdidInvalidates(c) ==
    /\ "sdid" \in Allowed
    /\ c \in sdidValid
    /\ sdidValid' = sdidValid \ {c}
    /\ UNCHANGED <<storeVars, rpActive, lateTxns, lateCodes, txn, stash, chal, code, tok, ledger, dcall, rcall>>

SuspendRp(r) ==
    /\ "suspendRp" \in Allowed
    /\ r \in rpActive
    /\ rpActive' = rpActive \ {r}
    /\ UNCHANGED <<storeVars, sdidValid, lateTxns, lateCodes, txn, stash, chal, code, tok, ledger, dcall, rcall>>

-----------------------------------------------------------------------------
DeviceStep(i) ==
    \/ PendingList(i)
    \/ \E t \in Txns, x \in Challenges : IssueCiba(i, t, x)
    \/ DecisionRead(i) \/ DecisionBinding(i)
    \/ ReassertRead(i) \/ ReassertSdid(i)
    \/ ReassertSuspend(i) \/ ReassertRevoke(i) \/ ReassertStamp(i)
    \/ ConsumeCiba(i) \/ DecisionResolve(i) \/ DecisionAudit(i)

RpStep(i) ==
    \/ \E t \in Txns : BcInsert(i, t) \/ AuthorizeInsert(i, t)
    \/ AuthorizeStash(i)
    \/ CibaGrantRead(i) \/ CibaGrantExpire(i) \/ CibaGrantAuditExpired(i)
    \/ CibaGrantConsume(i) \/ (\E j \in Jtis : CibaGrantMint(i, j))
    \/ CibaGrantConsent(i) \/ CibaGrantAuditConsent(i) \/ CibaGrantAudit(i)
    \/ PollStash(i) \/ PollConsume(i) \/ (\E k \in Codes : PollInsert(i, k))
    \/ PollDelStash(i) \/ PollAudit(i)
    \/ CodeGrantRead(i) \/ CodeGrantConsume(i)
    \/ (\E j \in Jtis : CodeGrantMint(i, j)) \/ CodeGrantAudit(i)

DeviceRequest(i) ==
    \E b \in Bindings :
        \/ Pending(i, b)
        \/ \E t \in Txns, x \in Challenges, dec \in {"approve", "deny"} :
              Decision(i, b, t, x, dec)

RpRequest(i) ==
    \/ \E r \in Rps, c \in Citizens, al \in RequestableALs :
          BcAuthorize(i, r, c, al) \/ Authorize(i, r, c, al)
    \/ \E r \in Rps, t \in Txns : CibaGrant(i, r, t)
    \/ \E t \in Txns : AuthorizePoll(i, t)
    \/ \E r \in Rps, k \in Codes : CodeGrant(i, r, k)

Environment ==
    \/ \E t \in Txns : Lapse(t) \/ StashExpires(t)
    \/ \E x \in Challenges : ChallengeExpires(x)
    \/ \E k \in Codes : CodeLapses(k)
    \/ \E b \in Bindings : Stales(b) \/ DeviceRevoked(b)
    \/ \E c \in Citizens : SdidInvalidates(c)
    \/ \E r \in Rps : SuspendRp(r)

Next ==
    \/ \E i \in DeviceCalls : DeviceRequest(i) \/ DeviceStep(i) \/ DeviceAbort(i)
    \/ \E i \in RpCalls : RpRequest(i) \/ RpStep(i) \/ RpAbort(i)
    \/ Environment

Spec == Init /\ [][Next]_vars

\* Time passes; relying parties keep polling /oidc/token as the integration
\* guide tells them to; a statement retried again and again is not always the
\* one that fails.  Nothing is assumed of citizens, phones or the browser page.
Fairness ==
    /\ \A t \in Txns : WF_vars(Lapse(t))
    /\ \A i \in RpCalls :
          /\ WF_vars(RpStep(i))
          /\ \A r \in Rps, t \in Txns : SF_vars(CibaGrant(i, r, t))
          /\ SF_vars(CibaGrantRead(i))
          /\ SF_vars(CibaGrantExpire(i))
          /\ SF_vars(CibaGrantConsume(i))

FairSpec == Spec /\ Fairness

-----------------------------------------------------------------------------
(* Properties. *)

DecidePcs == {"dRead", "dBinding", "raRead", "raSdid", "raSuspend", "raRevoke",
              "raStamp", "dConsume", "dResolve", "dAudit"}
OpenPcs == {"bcInsert", "azInsert"}
CodePcs == {"cRead", "cConsume", "cMint", "cAudit"}
TxnPcs == RpPcs \ (OpenPcs \cup {"idle", "cRead"})

\* A call in flight carries the arguments its remaining steps use.
DeviceShape ==
    \A i \in DeviceCalls :
        /\ dcall[i].pc # "idle" => dcall[i].dev \in Bindings
        /\ dcall[i].pc \in DecidePcs =>
              dcall[i].txn \in Txns /\ dcall[i].ch \in Challenges

RpShape ==
    \A i \in RpCalls :
        /\ rcall[i].pc \in TxnPcs => rcall[i].txn \in Txns
        /\ rcall[i].pc \in OpenPcs =>
              rcall[i].rp \in Rps /\ rcall[i].citizen \in Citizens
        /\ rcall[i].pc \in CodePcs => rcall[i].code \in Codes

CodeShape == \A k \in Codes : code[k].st # "none" => code[k].txn \in Txns

CallShape == DeviceShape /\ RpShape /\ CodeShape

OneTokenSet ==
    \A m, n \in Jtis : tok[m].txn # None /\ tok[m].txn = tok[n].txn => m = n
OneCode ==
    \A k, l \in Codes : code[k].txn # None /\ code[k].txn = code[l].txn => k = l
CodeOrTokens ==
    \A j \in Jtis, k \in Codes : code[k].st = "unused" => tok[j].txn # code[k].txn

\* However many polls of /oidc/token and /oidc/authorize/poll race, an approval
\* is worth one authorization code and one token set: the conditional UPDATEs of
\* cibaGrant, authorizePoll and codeGrant let one caller through, and a
\* transaction redeemed by one flow cannot be redeemed by the other.
SingleRedemption == OneTokenSet /\ OneCode /\ CodeOrTokens

\* A call that has won the right to mint a code or a token set.
Holds(i) == rcall[i].pc \in {"gMint", "pInsert", "cMint"}

OneHolder ==
    \A i, m \in RpCalls : Holds(i) /\ Holds(m) /\ rcall[i].txn = rcall[m].txn => i = m
HolderOrCode ==
    \A i \in RpCalls, k \in Codes :
        Holds(i) /\ code[k].txn = rcall[i].txn =>
            code[k].st = "used" /\ rcall[i].pc = "cMint"
HolderOrTokens ==
    \A i \in RpCalls, j \in Jtis : Holds(i) => tok[j].txn # rcall[i].txn
RightsAreConsumed ==
    /\ \A i \in RpCalls : Holds(i) => txn[rcall[i].txn].status = "consumed"
    /\ \A k \in Codes : code[k].txn # None => txn[code[k].txn].status = "consumed"
    /\ \A j \in Jtis : tok[j].txn # None => txn[tok[j].txn].status = "consumed"
CodesNameTxns ==
    /\ \A k \in Codes : code[k].st = "none" <=> code[k].txn = None
    /\ \A i \in RpCalls :
          rcall[i].pc = "cConsume" => rcall[i].txn = code[rcall[i].code].txn

\* Why SingleRedemption holds.  The right to redeem a transaction comes from the
\* one UPDATE that finds it approved, and is in one place from then on: in a call
\* about to mint, in an unused code, or spent on a token set.  It is passed on by
\* the INSERT of the code and by the UPDATE that consumes the code, and it may be
\* lost (a call that dies), never copied.
RedemptionRight ==
    /\ OneHolder /\ HolderOrCode /\ HolderOrTokens
    /\ RightsAreConsumed
    /\ CodesNameTxns
    /\ SingleRedemption

\* A token set is made out to the relying party that opened the transaction,
\* through either grant of /oidc/token.
TokensGoToRequester ==
    \A j \in Jtis : tok[j].txn # None => tok[j].rp = txn[tok[j].txn].rp

\* A transaction that was decided was decided by a device of its own citizen,
\* whose level meets the request, with a challenge that was issued to that
\* device for that transaction and is used up; and only such a transaction is
\* ever redeemed (decision, consumeCiba).
DecidedByOwnDevice ==
    \A t \in Txns :
        /\ txn[t].status \in {"approved", "denied", "consumed"} <=> txn[t].by # None
        /\ txn[t].by # None =>
              /\ CitizenOf[txn[t].by] = txn[t].citizen
              /\ alMeets(Level[txn[t].by], txn[t].al)
              /\ \E x \in Challenges :
                    chal[x] = [st |-> "spent", txn |-> t, dev |-> txn[t].by]

\* Tokens of a CIBA transaction leave the broker only after the consent grant
\* and both audit rows are written (cibaGrant).
ReleasedIsConsented ==
    \A j \in Jtis :
        LET t == tok[j].txn IN
        j \in released /\ txn[t].flow = "ciba" =>
            /\ t \in consent
            /\ [ev |-> "consent_granted", txn |-> t, by |-> None] \in log
            /\ [ev |-> "tokens_issued", txn |-> t, by |-> txn[t].by] \in log

\* A decided or expired transaction keeps its outcome and the device that
\* decided it; the one step left to it is approved to consumed.
DecisionIsFinal ==
    [][\A t \in Txns :
         txn[t].status \notin {"none", "pending"} =>
             /\ txn'[t].by = txn[t].by
             /\ \/ txn'[t].status = txn[t].status
                \/ txn[t].status = "approved" /\ txn'[t].status = "consumed"]_txn

\* With a relying party that polls, a CIBA transaction does not hang: it ends
\* denied, expired or consumed, unless the relying party is suspended.  Expiry is
\* lazy, so it takes a poll after the deadline to mark it, and calls may fail on
\* the way (cibaGrant).
CibaSettles ==
    \A t \in Txns :
        txn[t].status = "pending" /\ txn[t].flow = "ciba"
            ~> \/ txn[t].status \in {"denied", "expired", "consumed"}
               \/ txn[t].rp \notin rpActive

\* Tested (ciba-flow.spec.ts): "returns access_denied after a signed deny".  A
\* denial the broker acknowledged with 200 is the outcome the relying party sees.
AcknowledgedDenialHolds ==
    \A t \in Txns, j \in Jtis : <<t, "deny">> \in acked => tok[j].txn # t

\* The handlers implement the transaction contract of AuthTxnSpec.
Contract == INSTANCE AuthTxnSpec WITH
    state <- [t \in Txns |-> txn[t].status],
    party <- [t \in Txns |-> <<txn[t].rp, txn[t].citizen>>],
    decider <- [t \in Txns |-> txn[t].by],
    issued <- [t \in Txns |->
                 {<<j, tok[j].rp>> : j \in {m \in Jtis : tok[m].txn = t}}]

\* Every step of every handler is a step of the contract, or leaves it alone.
ImplementsContract == Contract!ASpec
=============================================================================
