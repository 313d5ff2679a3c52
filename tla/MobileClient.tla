---------------------------- MODULE MobileClient ----------------------------
(***************************************************************************)
(* The authenticator app of one phone: the protocol client, the transport  *)
(* and its retries, the key store in secure hardware and the screens that  *)
(* start operations.  One operation of the citizen and one background      *)
(* refresh run interleaved on the event loop; requests and answers can be  *)
(* lost or come late; the app can be killed.  The broker is what the phone *)
(* sees of it: a decision is checked and recorded in two steps, its other  *)
(* handlers are atomic here (their own interleavings are in AuthTxn and    *)
(* BindingLifecycle).                                                      *)
(***************************************************************************)
EXTENDS Integers, FiniteSets

CONSTANTS Bindings, Keys, Txns,
          Scenarios,     \* platform, starting point, what may happen; a behaviour has one
          MaxAttempts,   \* RetryPolicy.maxAttempts
          MaxPulls,      \* bound: lists of pending requests with fresh challenges
          None

ASSUME PhoneAssumption ==
    /\ Bindings # {} /\ Keys # {} /\ None \notin Bindings \cup Keys \cup Txns
    /\ MaxAttempts \in Nat /\ MaxPulls \in Nat

VARIABLES env,       \* the scenario of this behaviour
          binding,   \* BindingStore: survives the app
          store,     \* the keys under the app's alias in secure hardware
          session,   \* in memory: the binding the session token is for
          route,     \* the screen that is mounted
          groups,    \* HomeScreen: requests on display, each with its challenge
          shown,     \* ApprovalScreen: the request the citizen looks at
          op,        \* the operation of each slot
          bind,      \* broker: device_bindings
          txn,       \* broker: status of the requests
          chals,     \* broker: live decision challenges, as <<request, pull>>
          net,       \* decisions the client no longer waits for, on their way or checked
          pulls,
          tapped,    \* ghost: what the citizen tapped
          acked,     \* ghost: decisions reported back to the citizen
          told,      \* ghost: bindings whose refusal binding_not_active was shown
          spoiled    \* ghost: key or session touched from outside their enrolment

phone == <<binding, store, session>>
screens == <<route, groups, shown>>
broker == <<bind, txn, chals, net, pulls>>
ghosts == <<tapped, acked, told, spoiled>>
phoneVars == <<env, phone, screens, op, broker, ghosts>>

Slots == {"user", "poll"}
May(what) == what \in env.may

Idle == [kind |-> "none", at |-> "idle", ep |-> "none", back |-> "none", tries |-> 0,
         relog |-> FALSE, b |-> None, key |-> None, token |-> None, ans |-> "none",
         txn |-> None, chal |-> 0, dec |-> "none", list |-> {}]

Nothing == [txn |-> None, chal |-> 0]

\* ENDPOINTS whose call consumes a single-use nonce or challenge, and those
\* behind the device session.
ConsumesNonce == {"enrolStart", "enrolActivate", "login", "decision"}
Authed == {"pending", "lists", "revokeBinding", "decision"}

\* Errors after which the phone is no longer enrolled.
TERMINAL_FOR_BINDING == {"binding_not_found", "binding_not_active"}

At(s, at) == op[s].at = at
Answered(s, ep, ans) == At(s, "answered") /\ op[s].ep = ep /\ op[s].ans = ans

Go(s, at) == [op[s] EXCEPT !.at = at, !.ep = "none", !.ans = "none", !.tries = 0, !.list = {}]

\* call(): a new request, first attempt.
Call(s, ep) == [op[s] EXCEPT !.at = "call", !.ep = ep, !.ans = "none", !.tries = 1]

\* The operation of this slot goes on as o.
Becomes(s, o) == op' = [op EXCEPT ![s] = o]

\* The operation throws or returns; the screen's buttons work again.
End(s) == Becomes(s, Idle)
-----------------------------------------------------------------------------
(* The key store in secure hardware.                                       *)

SECURITY_RANK == [software |-> 0, tee |-> 1, strongbox |-> 2]

\* A key below the minimum level, "tee" in a release build, is refused.
assertSecurityLevel(level) == SECURITY_RANK[level] >= SECURITY_RANK["tee"]

\* Hardware and strong, enrolled biometrics; a phone without them shows an error.
assertDeviceCanEnrol(caps) ==
    caps.available /\ assertSecurityLevel(caps.level) /\ caps.enrolled /\ caps.strong

\* Android replaces the key at the alias (StrongBox first, else the TEE); the
\* iOS Keychain adds a second item with the same tag.
AndroidGenerate(k) == {k}
IosGenerate(k) == store \cup {k}

\* One prompt, one signature: by the key at the alias, or by any of several
\* (SecItemCopyMatching does not say which).
AndroidSigners == store
IosSigners == store

\* Deleting the alias destroys every key under it.
AndroidDelete == {}
IosDelete == {}

Android == env.platform = "android"
generate(k) == store' = IF Android THEN AndroidGenerate(k) ELSE IosGenerate(k)
Signers == IF Android THEN AndroidSigners ELSE IosSigners
deleteKey == store' = IF Android THEN AndroidDelete ELSE IosDelete

\* A new fingerprint or face is enrolled: the platform invalidates the key.
BiometricsChange ==
    /\ May("biometricsChange")
    /\ store # {}
    /\ store' = {}
    /\ spoiled' = TRUE
    /\ UNCHANGED <<env, binding, session, screens, op, broker, tapped, acked, told>>
-----------------------------------------------------------------------------
(* reset(): session and stored binding, then the key, on behalf of whatever *)
(* operation ran into it.                                                  *)

MutantResetClear(s, at) ==
    /\ binding' = None
    /\ spoiled' = (spoiled \/ binding \notin {None, op[s].token})
    /\ Becomes(s, Go(s, at))
    /\ UNCHANGED session

ResetClear(s, at) ==
    /\ session' = None
    /\ binding' = None
    /\ spoiled' = (spoiled \/ binding \notin {None, op[s].token})
    /\ Becomes(s, Go(s, at))

\* A key store that cannot delete is ignored.
ResetDelete(s) ==
    /\ op[s].at \in {"delete", "deleteRevoked"}
    /\ deleteKey \/ (May("deleteFails") /\ UNCHANGED store)
    /\ spoiled' = (spoiled \/ binding # None \/ \E r \in Slots : op[r].kind = "enrol")
    /\ End(s)
    /\ IF At(s, "deleteRevoked")
       THEN route' = "enrol" /\ UNCHANGED told
       ELSE told' = told \cup {op[s].b} /\ UNCHANGED route
    /\ UNCHANGED <<env, binding, session, groups, shown, broker, tapped, acked>>
-----------------------------------------------------------------------------
(* Enrolment.                                                              *)

\* EnrolmentScreen's run; enrol() begins with the gates.
TapEnrol ==
    /\ route = "enrol" /\ At("user", "idle")
    /\ assertDeviceCanEnrol(env.caps)
    /\ Becomes("user", [Call("user", "attestationChallenge") EXCEPT !.kind = "enrol"])
    /\ UNCHANGED <<env, phone, screens, broker, ghosts>>

FreshKeys == {k \in Keys : k \notin store /\ \A b \in Bindings : bind[b].key # k}

\* attest() and the face capture, then the one request that carries the sample;
\* each of them can end the attempt.
EnrolStart(s, k) == End(s) \/ Becomes(s, [Call(s, "enrolStart") EXCEPT !.key = k])

\* A fresh key for every attempt; it may turn out weaker than the phone claimed.
EnrolGenerate(s) ==
    /\ Answered(s, "attestationChallenge", "ok")
    /\ \/ \E k \in FreshKeys, level \in DOMAIN SECURITY_RANK :
             /\ generate(k)
             /\ IF assertSecurityLevel(level) THEN EnrolStart(s, k) ELSE End(s)
       \/ End(s) /\ UNCHANGED store
    /\ UNCHANGED <<env, binding, session, screens, broker, ghosts>>

\* expectPayload rebuilt what is to be signed; no key, or a dismissed prompt,
\* ends the operation.
Signed(s, ep) ==
    /\ \/ \E k \in Signers : Becomes(s, [Call(s, ep) EXCEPT !.key = k])
       \/ End(s)
    /\ UNCHANGED <<env, phone, screens, broker, ghosts>>

SignActivation(s) == Answered(s, "enrolStart", "ok") /\ Signed(s, "enrolActivate")

\* bindings.save, then the screen goes home.
EnrolSave(s) ==
    /\ Answered(s, "enrolActivate", "ok")
    /\ binding' = op[s].b
    /\ route' = "home"
    /\ End(s)
    /\ UNCHANGED <<env, store, session, groups, shown, broker, ghosts>>
-----------------------------------------------------------------------------
(* Sessions and authenticated calls.                                       *)

\* ensureSession: a live session is reused; one that is about to lapse by the
\* phone's clock is dropped, and login() begins with requireBinding.
ensureSession(s) ==
    /\ At(s, "ensure")
    /\ \/ /\ session # None
          /\ Becomes(s, [IF op[s].back = "decide" THEN Go(s, "decide") ELSE Call(s, op[s].back)
                         EXCEPT !.token = session])
          /\ UNCHANGED session
       \/ /\ binding # None
          /\ session = None \/ May("expire")
          /\ session' = None
          /\ Becomes(s, [Call(s, "loginChallenge") EXCEPT !.b = binding])
       \/ /\ binding = None
          /\ session' = None
          /\ End(s)
    /\ UNCHANGED <<env, binding, store, screens, broker, ghosts>>

SignLogin(s) == Answered(s, "loginChallenge", "ok") /\ Signed(s, "login")

\* The answer to login, assigned when it arrives: perhaps after a reset.
LoginSession(s) ==
    /\ Answered(s, "login", "ok")
    /\ session' = op[s].b
    /\ spoiled' = (spoiled \/ op[s].b # binding)
    /\ Becomes(s, [(IF op[s].back = "decide" THEN Go(s, "decide") ELSE Call(s, op[s].back))
                   EXCEPT !.token = op[s].b, !.key = IF op[s].back = "decision" THEN @ ELSE None])
    /\ UNCHANGED <<env, binding, store, screens, broker, tapped, acked, told>>

MutantRelogin(s) == Becomes(s, [Go(s, "ensure") EXCEPT !.back = op[s].ep])

\* Log in once more and repeat the call.
Relogin(s) == Becomes(s, [Go(s, "ensure") EXCEPT !.back = op[s].ep, !.relog = TRUE])

\* authed(): only the answer to the call itself counts, not the answers to the
\* login before it, and only on the first round.
Refused(s) ==
    LET own == op[s].ep \in Authed /\ ~op[s].relog
        code == op[s].ans
    IN
    /\ At(s, "answered") /\ code \in {"refused", "access_denied", "binding_not_active"}
    /\ CASE own /\ code \in TERMINAL_FOR_BINDING -> ResetClear(s, "delete") /\ UNCHANGED told
         [] own /\ code = "access_denied" /\ op[s].ep \notin ConsumesNonce ->
               Relogin(s) /\ session' = None /\ UNCHANGED <<binding, spoiled, told>>
         [] OTHER ->
               /\ End(s)
               /\ told' = IF code = "binding_not_active" THEN told \cup {op[s].b} ELSE told
               /\ UNCHANGED <<binding, session, spoiled>>
    /\ UNCHANGED <<env, store, screens, broker, tapped, acked>>
-----------------------------------------------------------------------------
(* Screens: what the citizen and the poll timer start.                     *)

\* LanguageScreen, then home or enrolment.
goHomeOrEnrol ==
    /\ route = "language"
    /\ route' = IF binding # None THEN "home" ELSE "enrol"
    /\ UNCHANGED <<env, phone, groups, shown, op, broker, ghosts>>

Start(s, kind, back) ==
    /\ At(s, "idle")
    /\ Becomes(s, [Idle EXCEPT !.kind = kind, !.at = "ensure", !.back = back, !.b = binding])
    /\ UNCHANGED <<env, phone, screens, broker>>

\* HomeScreen's refresh: pull, then activity.
Refresh == route = "home" /\ May("poll") /\ Start("poll", "refresh", "pending") /\ UNCHANGED ghosts

\* DevicesScreen and ActivityScreen load lists; a consent is revoked likewise.
Look == route = "home" /\ May("look") /\ Start("user", "look", "lists") /\ UNCHANGED ghosts

\* DevicesScreen: stop this phone.
TapRevoke ==
    route = "home" /\ May("revoke") /\ Start("user", "revoke", "revokeBinding") /\ UNCHANGED ghosts

OpenApproval ==
    /\ route = "home" /\ At("user", "idle")
    /\ shown' \in groups
    /\ route' = "approval"
    /\ UNCHANGED <<env, phone, groups, op, broker, ghosts>>

\* Approve, deny or "not me"; the buttons are dead while one is submitted.
TapDecide(d) ==
    /\ route = "approval" /\ At("user", "idle") /\ binding # None
    /\ Becomes("user", [Idle EXCEPT !.kind = "decide", !.at = "ensure", !.back = "decide",
                                    !.b = binding, !.dec = d])
    /\ tapped' = tapped \cup {<<shown.txn, d>>}
    /\ UNCHANGED <<env, phone, screens, broker, acked, told, spoiled>>

\* The request pulled last instead of the one on the screen.
MutantSubject == IF groups = {} THEN shown ELSE CHOOSE g \in groups : TRUE

\* decide() signs the request that was rendered, with its own challenge.
Subject == shown

\* A challenge that has lapsed by the phone's clock, no key, or a dismissed
\* prompt ends it; else the decision goes out under a session.
Decide(s) ==
    /\ At(s, "decide")
    /\ \/ \E k \in Signers :
             Becomes(s, [Go(s, "ensure") EXCEPT !.back = "decision", !.key = k,
                                                !.txn = Subject.txn, !.chal = Subject.chal])
       \/ End(s)
    /\ UNCHANGED <<env, phone, screens, broker, ghosts>>

\* The lists came: HomeScreen shows the pending requests and asks for the
\* activity; a screen that is gone shows nothing.
Received(s) ==
    /\ At(s, "answered") /\ op[s].ans = "ok" /\ op[s].ep \in {"pending", "lists"}
    /\ IF op[s].ep = "pending"
       THEN /\ groups' = IF route = "home" THEN op[s].list ELSE groups
            /\ Becomes(s, [Go(s, "ensure") EXCEPT !.back = "lists", !.relog = FALSE])
       ELSE End(s) /\ UNCHANGED groups
    /\ UNCHANGED <<env, phone, route, shown, broker, ghosts>>

\* revokeBinding wipes the phone if the binding is the one stored now.
RevokeDone(s) ==
    /\ Answered(s, "revokeBinding", "ok")
    /\ IF binding = op[s].token
       THEN ResetClear(s, "deleteRevoked")
       ELSE End(s) /\ UNCHANGED <<binding, session, spoiled>>
    /\ UNCHANGED <<env, store, screens, broker, tapped, acked, told>>

\* The decision was accepted: back to HomeScreen.
DecideDone(s) ==
    /\ Answered(s, "decision", "ok")
    /\ route' = "home"
    /\ shown' = Nothing
    /\ acked' = acked \cup {<<op[s].txn, op[s].dec>>}
    /\ End(s)
    /\ UNCHANGED <<env, phone, groups, broker, tapped, told, spoiled>>
-----------------------------------------------------------------------------
(* The broker answers.                                                     *)

Respond(s, ep) == At(s, "call") /\ op[s].ep = ep
Answer(s, a) == Becomes(s, [op[s] EXCEPT !.at = "answered", !.ans = a])
PhoneKept == UNCHANGED <<env, phone, screens, ghosts>>

BrokerOpen(s) ==
    /\ Respond(s, "attestationChallenge")
    /\ \E a \in {"ok", "refused"} : Answer(s, a)
    /\ PhoneKept /\ UNCHANGED broker

BrokerEnrolStart(s) ==
    /\ Respond(s, "enrolStart")
    /\ \/ \E b \in Bindings :
             /\ bind[b].status = "none"
             /\ bind' = [bind EXCEPT ![b] = [status |-> "pending", key |-> op[s].key]]
             /\ Becomes(s, [op[s] EXCEPT !.at = "answered", !.ans = "ok", !.b = b])
       \/ Answer(s, "refused") /\ UNCHANGED bind
    /\ PhoneKept /\ UNCHANGED <<txn, chals, net, pulls>>

BrokerActivate(s) ==
    LET b == op[s].b
        good == bind[b] = [status |-> "pending", key |-> op[s].key]
    IN
    /\ Respond(s, "enrolActivate")
    /\ bind' = IF good THEN [bind EXCEPT ![b].status = "active"] ELSE bind
    /\ Answer(s, IF good THEN "ok" ELSE "refused")
    /\ PhoneKept /\ UNCHANGED <<txn, chals, net, pulls>>

BrokerLogin(s) ==
    /\ At(s, "call") /\ op[s].ep \in {"loginChallenge", "login"}
    /\ Answer(s, CASE bind[op[s].b].status # "active" -> "binding_not_active"
                   [] op[s].ep = "login" /\ bind[op[s].b].key # op[s].key -> "refused"
                   [] OTHER -> "ok")
    /\ PhoneKept /\ UNCHANGED broker

\* DeviceSessionGuard: the token, which may have expired, then the binding's
\* status now.
BrokerRefuses(s) ==
    /\ At(s, "call") /\ op[s].ep \in Authed
    /\ \/ bind[op[s].token].status # "active" /\ Answer(s, "binding_not_active")
       \/ May("expire") /\ Answer(s, "access_denied")
    /\ PhoneKept /\ UNCHANGED broker

Guarded(s) == bind[op[s].token].status = "active"

\* A challenge for every pending request.
BrokerPending(s) ==
    LET asked == {t \in Txns : txn[t] = "pending"}
    IN
    /\ Respond(s, "pending") /\ Guarded(s)
    /\ IF asked = {}
       THEN Answer(s, "ok") /\ UNCHANGED <<pulls, chals>>
       ELSE IF pulls < MaxPulls
       THEN /\ pulls' = pulls + 1
            /\ chals' = chals \cup {<<t, pulls + 1>> : t \in asked}
            /\ Becomes(s, [op[s] EXCEPT !.at = "answered", !.ans = "ok",
                             !.list = {[txn |-> t, chal |-> pulls + 1] : t \in asked}])
       ELSE Answer(s, "refused") /\ UNCHANGED <<pulls, chals>>
    /\ PhoneKept /\ UNCHANGED <<bind, txn, net>>

BrokerLists(s) ==
    /\ Respond(s, "lists") /\ Guarded(s)
    /\ Answer(s, "ok")
    /\ PhoneKept /\ UNCHANGED broker

BrokerRevoke(s) ==
    /\ Respond(s, "revokeBinding") /\ Guarded(s)
    /\ bind' = [bind EXCEPT ![op[s].token].status = "revoked"]
    /\ Answer(s, "ok")
    /\ PhoneKept /\ UNCHANGED <<txn, chals, net, pulls>>

\* The decision a request carries, and how far the broker is with it.
Sent(s) == [txn |-> op[s].txn, chal |-> op[s].chal, dec |-> op[s].dec, b |-> op[s].b,
            key |-> op[s].key, token |-> op[s].token, checked |-> At(s, "checked")]

\* decision(): for the session's own binding while the request is pending, on a
\* live challenge.
Admits(d) ==
    /\ d.b = d.token /\ bind[d.b].status = "active"
    /\ txn[d.txn] = "pending"
    /\ <<d.txn, d.chal>> \in chals

\* The challenge is consumed by whoever presents it first, then the signature
\* is verified.
Consumes(d) == chals' = chals \ {<<d.txn, d.chal>>}
Verifies(d) == bind[d.b].key = d.key

\* The UPDATE ... WHERE status = 'pending'; nobody asks whether it met a row.
Records(d) == txn' = IF txn[d.txn] = "pending" THEN [txn EXCEPT ![d.txn] = d.dec] ELSE txn

\* The checks of a decision, any of which refuses it (the assurance level, the
\* expiry and the re-verification too).
BrokerDecision(s) ==
    /\ Respond(s, "decision") /\ Guarded(s)
    /\ \/ /\ Admits(Sent(s)) /\ Consumes(Sent(s))
          /\ IF Verifies(Sent(s)) THEN Becomes(s, [op[s] EXCEPT !.at = "checked"])
                                  ELSE Answer(s, "refused")
       \/ Answer(s, "refused") /\ UNCHANGED chals
    /\ PhoneKept /\ UNCHANGED <<bind, txn, net, pulls>>

\* It is recorded, audited and answered 200 whatever became of the request in
\* between; a database that fails before or after the UPDATE answers 500.
BrokerRecords(s) ==
    /\ At(s, "checked")
    /\ \/ Records(Sent(s)) /\ \E a \in {"ok", "refused"} : Answer(s, a)
       \/ Answer(s, "refused") /\ UNCHANGED txn
    /\ PhoneKept /\ UNCHANGED <<bind, chals, net, pulls>>

\* A decision nobody waits for arrives and is checked, or goes on from there.
LateDecision ==
    /\ \E d \in net :
          \/ /\ ~d.checked /\ Admits(d) /\ Verifies(d) /\ Consumes(d)
             /\ net' = (net \ {d}) \cup {[d EXCEPT !.checked = TRUE]}
             /\ UNCHANGED txn
          \/ /\ d.checked /\ Records(d)
             /\ net' = net \ {d}
             /\ UNCHANGED chals
          \/ /\ net' = net \ {d}
             /\ (~d.checked /\ Admits(d) /\ Consumes(d)) \/ UNCHANGED chals
             /\ UNCHANGED txn
    /\ PhoneKept /\ UNCHANGED <<op, bind, pulls>>

\* The citizen revokes the binding from another device, or the sweep does.
RevokedElsewhere ==
    /\ May("revokedElsewhere")
    /\ \E b \in Bindings :
          /\ bind[b].status = "active"
          /\ bind' = [bind EXCEPT ![b].status = "revoked"]
    /\ PhoneKept /\ UNCHANGED <<op, txn, chals, net, pulls>>
-----------------------------------------------------------------------------
(* No answer.                                                              *)

\* The request or its answer is lost or times out, or a gateway answers 502,
\* 503 or 504.
Lost(s) == May("loss") /\ op[s].at \in {"call", "checked", "answered"}

\* A decision the broker may be working on without the client.
Underway(s) ==
    IF op[s].ep = "decision" /\ op[s].at \in {"call", "checked"} THEN {Sent(s)} ELSE {}

\* Safe calls up to the limit; a call that consumes a nonce once ("interrupted").
attempts(ep) == IF ep \in ConsumesNonce THEN 1 ELSE MaxAttempts

sendWithRetry(s) ==
    /\ Lost(s)
    /\ net' = net \cup Underway(s)
    /\ IF op[s].tries < attempts(op[s].ep)
       THEN Becomes(s, [op[s] EXCEPT !.at = "call", !.ans = "none", !.list = {}, !.tries = @ + 1])
       ELSE End(s)
    /\ PhoneKept /\ UNCHANGED <<bind, txn, chals, pulls>>

\* The app is killed and opened again; its requests go on without it.
Kill ==
    /\ May("kill") /\ route # "language"
    /\ session' = None
    /\ op' = [s \in Slots |-> Idle]
    /\ net' = net \cup UNION {Underway(s) : s \in Slots}
    /\ route' = "language" /\ groups' = {} /\ shown' = Nothing
    /\ UNCHANGED <<env, binding, store, bind, txn, chals, pulls, ghosts>>
-----------------------------------------------------------------------------
PhoneInit ==
    /\ env \in Scenarios
    /\ LET b == CHOOSE c \in Bindings : TRUE
           k == CHOOSE c \in Keys : TRUE
       IN IF env.enrolled
          THEN /\ binding = b /\ store = {k}
               /\ bind = [c \in Bindings |-> IF c = b THEN [status |-> "active", key |-> k]
                                             ELSE [status |-> "none", key |-> None]]
          ELSE /\ binding = None /\ store = {}
               /\ bind = [c \in Bindings |-> [status |-> "none", key |-> None]]
    /\ session = None
    /\ route = "language" /\ groups = {} /\ shown = Nothing
    /\ op = [s \in Slots |-> Idle]
    /\ txn = [t \in Txns |-> IF t \in env.asks THEN "pending" ELSE "none"]
    /\ chals = {} /\ net = {} /\ pulls = 0
    /\ tapped = {} /\ acked = {} /\ told = {} /\ spoiled = FALSE

OpStep(s) ==
    \/ EnrolGenerate(s) \/ SignActivation(s) \/ EnrolSave(s) \/ ensureSession(s)
    \/ SignLogin(s) \/ LoginSession(s) \/ ResetDelete(s) \/ Decide(s) \/ Received(s)
    \/ RevokeDone(s) \/ DecideDone(s) \/ Refused(s)

Network(s) ==
    \/ BrokerOpen(s) \/ BrokerEnrolStart(s) \/ BrokerActivate(s) \/ BrokerLogin(s)
    \/ BrokerRefuses(s) \/ BrokerPending(s) \/ BrokerLists(s) \/ BrokerRevoke(s)
    \/ BrokerDecision(s) \/ BrokerRecords(s) \/ sendWithRetry(s)

Citizen ==
    \/ goHomeOrEnrol \/ TapEnrol \/ Refresh \/ Look \/ TapRevoke \/ OpenApproval
    \/ \E d \in {"approved", "denied"} : TapDecide(d)

PhoneNext ==
    \/ \E s \in Slots : OpStep(s) \/ Network(s)
    \/ Citizen \/ Kill \/ LateDecision \/ RevokedElsewhere \/ BiometricsChange

\* Promises settle, prompts are answered or dismissed, and a request is
\* answered or times out.
PhoneFairness == \A s \in Slots : WF_phoneVars(OpStep(s)) /\ WF_phoneVars(Network(s))

PhoneSpec == PhoneInit /\ [][PhoneNext]_phoneVars /\ PhoneFairness
-----------------------------------------------------------------------------
(* Properties.                                                             *)

\* A phone that says it is enrolled holds the key of that very binding, which
\* the broker has activated, and a session it holds is that binding's, after
\* any failures, lost answers and kills in between; unless an operation from
\* before a reset is still running when the next enrolment starts, or the
\* platform invalidated the key (enrol, reset, login, KeyStore.generate).
EnrolmentCoherent ==
    ~spoiled =>
        /\ binding # None => /\ bind[binding].key \in store
                             /\ bind[binding].status \in {"active", "revoked"}
        /\ session # None => session = binding

\* A request is decided only as the citizen tapped on exactly that request, and
\* once a decision on it was reported back to the citizen the request is
\* decided, one way or the other, however often it was tapped, interrupted and
\* arrived late (decide, sendWithRetry, ApprovalScreen.submit, decision).
DecisionsMeant ==
    /\ \A t \in Txns : txn[t] \in {"approved", "denied"} => <<t, txn[t]>> \in tapped
    /\ \A a \in acked : txn[a[1]] \in {"approved", "denied"}

\* No screen stays busy: every operation ends, so that each slot is idle again and
\* again, whatever is refused or lost (sendWithRetry's limit, authed's single
\* relogin).
OperationsEnd == \A s \in Slots : []<>(op[s].at = "idle")

\* "A 401 binding_not_active means the binding was revoked ..., which is
\* terminal: wipe local state so the app cannot keep pretending it is enrolled"
\* (authed): once the citizen was shown it, that binding is no longer stored.
RefusedMeansWiped == binding \notin told
=============================================================================
