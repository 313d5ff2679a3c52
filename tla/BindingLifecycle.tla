-------------------------- MODULE BindingLifecycle --------------------------
(***************************************************************************)
(* The life of a device binding in the broker: enrolment (attestation      *)
(* nonce, biometric match, the multi-device cap), activation by proof of   *)
(* possession, login, revocation by the citizen, the re-verification with  *)
(* SDID that suspends a citizen, and the sweep that drives it.             *)
(*                                                                         *)
(* A request in flight is a record whose pc names its next awaited call;   *)
(* one action is one awaited call with the code up to the next one.  Abort *)
(* is an awaited call that throws (an SDID or database outage) or the      *)
(* death of the process.                                                   *)
(*                                                                         *)
(* Abstractions: ids are drawn from finite sets and never reused; the      *)
(* outcome of an attestation, of a biometric match and of a signature is a *)
(* choice; attestation is strict (production), never mocked; a request     *)
(* refused by a rate limit never starts; audit rows and metrics are left   *)
(* out; a citizen's row exists from the start.                             *)
(***************************************************************************)
EXTENDS IdentityStore, FiniteSets

CONSTANTS
    Enrolled,       \* bindings that are active, with a session, at the start
    Nonces,         \* attestation nonce ids
    Challenges,     \* challenge ids
    Calls,          \* requests the broker can have in flight
    Sweepers,       \* the calls the operator's scheduler makes, all of them sweeps
    MaxBindings,    \* MAX_ACTIVE_BINDINGS
    MaxFailures,    \* LOGIN_MAX_FAILURES, ENROL_MAX_FAILURES
    SweepLimit,     \* citizens one sweep re-asserts
    Allowed,        \* the operations and events a run lets happen
    None            \* no value

Operations == {"enrol", "login", "revoke", "push", "sweep"}
Events == {"abort", "expire", "stale", "sdid"}

ASSUME EnrolledAssumption == Enrolled \subseteq Bindings
ASSUME SweepersAssumption == Sweepers \subseteq Calls
ASSUME FiniteAssumption ==
    /\ IsFiniteSet(Bindings) /\ IsFiniteSet(Nonces)
    /\ IsFiniteSet(Calls) /\ Calls # {}
ASSUME LimitsAssumption ==
    /\ MaxBindings \in Nat \ {0}
    /\ MaxFailures \in Nat \ {0}
    /\ SweepLimit \in Nat \ {0}
\* The bindings of the start were enrolled under the cap.
ASSUME CapAssumption ==
    \A c \in Citizens : Cardinality(Enrolled \cap BindingsOf(c)) <= MaxBindings
ASSUME AllowedAssumption == Allowed \subseteq Operations \cup Events
ASSUME NoneAssumption ==
    None \notin Citizens \cup Bindings \cup Nonces \cup Challenges

VARIABLES
    sdidValid,      \* citizens whose identity SDID still vouches for
    push,           \* bindings with a push address
    nonce,          \* attnonce:<id> keys in Redis
    chal,           \* challenge:<id> keys in Redis
    failures,       \* lockout:login:<binding> and lockout:enrol:nid:<citizen>
    sessions,       \* bindings with a device session token
    call            \* requests in flight

keys == <<nonce, chal, failures>>
vars == <<storeVars, sdidValid, push, keys, sessions, call>>

KeyState == {"none", "live", "spent", "gone"}
Challenge == [st : KeyState, purpose : {"activation", "login"},
              dev : Bindings \cup {None}]

\* The lockout counters, by what their key names.
LockoutKeys == Bindings \cup Citizens

Pcs == {"idle", "eAttest", "eMatch", "eFail", "eCount", "eInsert", "eIssue",
        "aRead", "aConsume", "aUpdate", "cRead", "cLocked", "cIssue",
        "lRead", "lConsume", "lFail", "lClear", "lSession",
        "raRead", "raSdid", "raSuspend", "raRevoke", "raStamp",
        "rRead", "rUpdate", "rAudit", "pSet", "pClear", "sRead", "sPick"}

\* todo: the citizens the call found due for re-assertion; left: how many more
\* of them it may contact.
Call == [pc : Pcs, dev : Bindings \cup {None}, cit : Citizens \cup {None},
         key : Nonces \cup Challenges \cup {None},
         todo : SUBSET Citizens, left : 0..SweepLimit]

Idle == [pc |-> "idle", dev |-> None, cit |-> None, key |-> None,
         todo |-> {}, left |-> 0]

TypeOK ==
    /\ StoreTypeOK
    /\ sdidValid \subseteq Citizens
    /\ push \subseteq Bindings
    /\ nonce \in [Nonces -> KeyState]
    /\ chal \in [Challenges -> Challenge]
    /\ failures \in [LockoutKeys -> 0..MaxFailures]
    /\ sessions \subseteq Bindings
    /\ call \in [Calls -> Call]

Init ==
    /\ cstatus = [c \in Citizens |-> "active"]
    /\ bstatus = [b \in Bindings |-> IF b \in Enrolled THEN "active" ELSE "absent"]
    /\ stale = {}
    /\ sdidValid = Citizens
    /\ push = {}
    /\ nonce = [n \in Nonces |-> "none"]
    /\ chal = [x \in Challenges |->
                 [st |-> "none", purpose |-> "login", dev |-> None]]
    /\ failures = [k \in LockoutKeys |-> 0]
    /\ sessions = Enrolled
    /\ call = [i \in Calls |-> Idle]

-----------------------------------------------------------------------------
(* Bookkeeping of requests in flight. *)

Start(i, pc, b, c, k) ==
    /\ call[i].pc = "idle"
    /\ call' = [call EXCEPT ![i] = [Idle EXCEPT !.pc = pc, !.dev = b, !.cit = c,
                                                !.key = k]]
Goto(i, pc) == call' = [call EXCEPT ![i].pc = pc]
Return(i) == call' = [call EXCEPT ![i] = Idle]

-----------------------------------------------------------------------------
(* Challenges and lockout counters. *)

\* SET challenge:<id> with the purpose and the binding.
Issue(x, purpose, b) ==
    /\ chal[x].st = "none"
    /\ chal' = [chal EXCEPT ![x] = [st |-> "live", purpose |-> purpose, dev |-> b]]

MutantAnyDevice(x, purpose, b) == chal[x].st = "live" /\ chal[x].purpose = purpose

\* What consume() demands of the record GETDEL returned.
Consumable(x, purpose, b) ==
    chal[x].st = "live" /\ chal[x].purpose = purpose /\ chal[x].dev = b

\* GETDEL takes the key whether or not it matches.
Take(x, purpose, b) ==
    chal' = [chal EXCEPT ![x].st =
               IF @ # "live" THEN @
               ELSE IF Consumable(x, purpose, b) THEN "spent" ELSE "gone"]

\* INCR; every comparison is with MaxFailures, so the counter saturates there.
recordFailure(k) ==
    failures' = [failures EXCEPT ![k] = IF @ < MaxFailures THEN @ + 1 ELSE @]

assertNotLockedOut(k) == failures[k] < MaxFailures

-----------------------------------------------------------------------------
(* Enrolment. *)

attestationChallenge(n) ==
    /\ "enrol" \in Allowed
    /\ nonce[n] = "none"
    /\ nonce' = [nonce EXCEPT ![n] = "live"]
    /\ UNCHANGED <<storeVars, sdidValid, push, chal, failures, sessions, call>>

\* start() up to the attestation check.
EnrolStart(i, c, n) ==
    /\ "enrol" \in Allowed
    /\ assertNotLockedOut(c)
    /\ Start(i, "eAttest", None, c, n)
    /\ UNCHANGED <<storeVars, sdidValid, push, keys, sessions>>

MutantAttestReplay(i) ==
    /\ call[i].pc = "eAttest"
    /\ nonce' = [nonce EXCEPT ![call[i].key] = IF @ = "live" THEN "spent" ELSE @]
    /\ Goto(i, "eMatch")
    /\ UNCHANGED <<storeVars, sdidValid, push, chal, failures, sessions>>

\* GETDEL of the nonce, then the verdict of the platform's verifier.
EnrolAttest(i) ==
    LET n == call[i].key IN
    /\ call[i].pc = "eAttest"
    /\ IF nonce[n] = "live"
         THEN /\ nonce' = [nonce EXCEPT ![n] = "spent"]
              /\ Goto(i, "eMatch") \/ Return(i)
         ELSE /\ nonce' = nonce
              /\ Return(i)
    /\ UNCHANGED <<storeVars, sdidValid, push, chal, failures, sessions>>

\* SDID's reference biometric and the match; unknown identities fail like a
\* mismatch.
EnrolMatch(i) ==
    /\ call[i].pc = "eMatch"
    /\ Goto(i, "eCount") \/ Goto(i, "eFail")
    /\ UNCHANGED <<storeVars, sdidValid, push, keys, sessions>>

EnrolFail(i) ==
    /\ call[i].pc = "eFail"
    /\ recordFailure(call[i].cit)
    /\ Return(i)
    /\ UNCHANGED <<storeVars, sdidValid, push, nonce, chal, sessions>>

NotRevoked(c) == {b \in BindingsOf(c) : bstatus[b] \in {"pending", "active"}}

\* The upsert of the citizen leaves its status alone; then the rows that count
\* toward the cap are counted.
EnrolCount(i) ==
    /\ call[i].pc = "eCount"
    /\ IF Cardinality(NotRevoked(call[i].cit)) >= MaxBindings
         THEN Return(i)
         ELSE Goto(i, "eInsert")
    /\ UNCHANGED <<storeVars, sdidValid, push, keys, sessions>>

\* INSERT INTO device_bindings ... status 'pending'
EnrolInsert(i, b) ==
    /\ call[i].pc = "eInsert"
    /\ bstatus[b] = "absent" /\ CitizenOf[b] = call[i].cit
    /\ bstatus' = [bstatus EXCEPT ![b] = "pending"]
    /\ call' = [call EXCEPT ![i].pc = "eIssue", ![i].dev = b]
    /\ UNCHANGED <<cstatus, stale, sdidValid, push, keys, sessions>>

EnrolIssue(i, x) ==
    /\ call[i].pc = "eIssue"
    /\ Issue(x, "activation", call[i].dev)
    /\ Return(i)
    /\ UNCHANGED <<storeVars, sdidValid, push, nonce, failures, sessions>>

-----------------------------------------------------------------------------
(* Activation. *)

Activate(i, b, x) ==
    /\ "enrol" \in Allowed
    /\ Start(i, "aRead", b, None, x)
    /\ UNCHANGED <<storeVars, sdidValid, push, keys, sessions>>

ActivateRead(i) ==
    /\ call[i].pc = "aRead"
    /\ IF bstatus[call[i].dev] = "pending" THEN Goto(i, "aConsume") ELSE Return(i)
    /\ UNCHANGED <<storeVars, sdidValid, push, keys, sessions>>

\* GET instead of GETDEL.
MutantActivateKeepsKey(i) ==
    /\ call[i].pc = "aConsume"
    /\ IF Consumable(call[i].key, "activation", call[i].dev)
         THEN Goto(i, "aUpdate")
         ELSE Return(i)
    /\ UNCHANGED <<storeVars, sdidValid, push, keys, sessions>>

\* The challenge, and the signature over it (a wrong one ends the call).
ActivateConsume(i) ==
    /\ call[i].pc = "aConsume"
    /\ Take(call[i].key, "activation", call[i].dev)
    /\ IF Consumable(call[i].key, "activation", call[i].dev)
         THEN Goto(i, "aUpdate") \/ Return(i)
         ELSE Return(i)
    /\ UNCHANGED <<storeVars, sdidValid, push, nonce, failures, sessions>>

\* UPDATE device_bindings SET status = 'active', activated_at = now WHERE id = b:
\* whatever the status has become since it was read.
ActivateUpdate(i) ==
    /\ call[i].pc = "aUpdate"
    /\ bstatus' = [bstatus EXCEPT ![call[i].dev] = "active"]
    /\ Return(i)
    /\ UNCHANGED <<cstatus, stale, sdidValid, push, keys, sessions>>

-----------------------------------------------------------------------------
(* Login. *)

LoginChallenge(i, b) ==
    /\ "login" \in Allowed
    /\ bstatus[b] # "absent"
    /\ Start(i, "cRead", b, None, None)
    /\ UNCHANGED <<storeVars, sdidValid, push, keys, sessions>>

ChallengeRead(i) ==
    /\ call[i].pc = "cRead"
    /\ IF bstatus[call[i].dev] = "active" THEN Goto(i, "cLocked") ELSE Return(i)
    /\ UNCHANGED <<storeVars, sdidValid, push, keys, sessions>>

\* The lockout is looked at here and nowhere else in a login.
ChallengeLocked(i) ==
    /\ call[i].pc = "cLocked"
    /\ IF assertNotLockedOut(call[i].dev) THEN Goto(i, "cIssue") ELSE Return(i)
    /\ UNCHANGED <<storeVars, sdidValid, push, keys, sessions>>

ChallengeIssue(i, x) ==
    /\ call[i].pc = "cIssue"
    /\ Issue(x, "login", call[i].dev)
    /\ Return(i)
    /\ UNCHANGED <<storeVars, sdidValid, push, nonce, failures, sessions>>

Login(i, b, x) ==
    /\ "login" \in Allowed
    /\ Start(i, "lRead", b, CitizenOf[b], x)
    /\ UNCHANGED <<storeVars, sdidValid, push, keys, sessions>>

\* The row read here, with its re-assertion anchor, serves the rest of the call.
LoginRead(i) ==
    LET b == call[i].dev IN
    /\ call[i].pc = "lRead"
    /\ IF bstatus[b] = "active"
         THEN call' = [call EXCEPT ![i].pc = "lConsume",
                                   ![i].todo = IF isDue(b, FALSE) THEN {call[i].cit} ELSE {}]
         ELSE Return(i)
    /\ UNCHANGED <<storeVars, sdidValid, push, keys, sessions>>

LoginConsume(i) ==
    /\ call[i].pc = "lConsume"
    /\ Take(call[i].key, "login", call[i].dev)
    /\ IF Consumable(call[i].key, "login", call[i].dev)
         THEN Goto(i, "lClear") \/ Goto(i, "lFail")
         ELSE Goto(i, "lFail")
    /\ UNCHANGED <<storeVars, sdidValid, push, nonce, failures, sessions>>

LoginFail(i) ==
    /\ call[i].pc = "lFail"
    /\ recordFailure(call[i].dev)
    /\ Return(i)
    /\ UNCHANGED <<storeVars, sdidValid, push, nonce, chal, sessions>>

\* DEL lockout:login:<binding>, then reassertIfDue.
LoginClear(i) ==
    LET b == call[i].dev IN
    /\ call[i].pc = "lClear"
    /\ failures' = [failures EXCEPT ![b] = 0]
    /\ IF call[i].todo # {} \/ isDue(b, FALSE)
         THEN Goto(i, "raRead")
         ELSE Goto(i, "lSession")
    /\ UNCHANGED <<storeVars, sdidValid, push, nonce, chal, sessions>>

LoginSession(i) ==
    /\ call[i].pc = "lSession"
    /\ sessions' = sessions \cup {call[i].dev}
    /\ Return(i)
    /\ UNCHANGED <<storeVars, sdidValid, push, keys>>

-----------------------------------------------------------------------------
(* reassertNow, on behalf of a login or of a sweep. *)

InSweep(i) == call[i].dev = None

\* access_denied fails a login; a sweep counts it and goes on.
Denied(i) == IF InSweep(i) THEN Goto(i, "sPick") ELSE Return(i)

ReassertRead(i) ==
    /\ call[i].pc = "raRead"
    /\ IF cstatus[call[i].cit] = "active" THEN Goto(i, "raSdid") ELSE Denied(i)
    /\ UNCHANGED <<storeVars, sdidValid, push, keys, sessions>>

ReassertSdid(i) ==
    /\ call[i].pc = "raSdid"
    /\ IF call[i].cit \in sdidValid THEN Goto(i, "raStamp") ELSE Goto(i, "raSuspend")
    /\ UNCHANGED <<storeVars, sdidValid, push, keys, sessions>>

ReassertSuspend(i) ==
    /\ call[i].pc = "raSuspend"
    /\ SuspendCitizen(call[i].cit)
    /\ Goto(i, "raRevoke")
    /\ UNCHANGED <<sdidValid, push, keys, sessions>>

\* The same statement drops the push addresses.
ReassertRevoke(i) ==
    /\ call[i].pc = "raRevoke"
    /\ RevokeActiveBindings(call[i].cit)
    /\ push' = push \ ActiveBindingsOf(call[i].cit)
    /\ Denied(i)
    /\ UNCHANGED <<sdidValid, keys, sessions>>

ReassertStamp(i) ==
    /\ call[i].pc = "raStamp"
    /\ StampReassertion(call[i].cit)
    /\ IF InSweep(i) THEN Goto(i, "sPick") ELSE Goto(i, "lSession")
    /\ UNCHANGED <<sdidValid, push, keys, sessions>>

Sweep(i) ==
    /\ "sweep" \in Allowed
    /\ Start(i, "sRead", None, None, None)
    /\ UNCHANGED <<storeVars, sdidValid, push, keys, sessions>>

DueCitizens == {c \in Citizens : \E b \in ActiveBindingsOf(c) : isDue(b, FALSE)}

SweepRead(i) ==
    /\ call[i].pc = "sRead"
    /\ call' = [call EXCEPT ![i].pc = "sPick", ![i].todo = DueCitizens,
                            ![i].left = SweepLimit]
    /\ UNCHANGED <<storeVars, sdidValid, push, keys, sessions>>

\* One turn of the loop; the rows come in no particular order.
SweepPick(i) ==
    /\ call[i].pc = "sPick"
    /\ IF call[i].todo = {} \/ call[i].left = 0
         THEN Return(i)
         ELSE \E c \in call[i].todo :
                call' = [call EXCEPT ![i].pc = "raRead", ![i].cit = c,
                                     ![i].todo = @ \ {c}, ![i].left = @ - 1]
    /\ UNCHANGED <<storeVars, sdidValid, push, keys, sessions>>

-----------------------------------------------------------------------------
(* Requests of a device with a session. *)

\* DeviceSessionGuard: a session token, and an active row behind it.
Guard(d) == d \in sessions /\ bstatus[d] = "active"

revokeBinding(i, d, b) ==
    /\ "revoke" \in Allowed
    /\ Guard(d)
    /\ Start(i, "rRead", b, CitizenOf[d], None)
    /\ UNCHANGED <<storeVars, sdidValid, push, keys, sessions>>

RevokeRead(i) ==
    LET b == call[i].dev IN
    /\ call[i].pc = "rRead"
    /\ IF bstatus[b] \in {"absent", "revoked"} \/ CitizenOf[b] # call[i].cit
         THEN Return(i)
         ELSE Goto(i, "rUpdate")
    /\ UNCHANGED <<storeVars, sdidValid, push, keys, sessions>>

RevokeUpdate(i) ==
    /\ call[i].pc = "rUpdate"
    /\ RevokeBinding(call[i].dev)
    /\ push' = push \ {call[i].dev}
    /\ Goto(i, "rAudit")
    /\ UNCHANGED <<sdidValid, keys, sessions>>

RevokeAudit(i) ==
    /\ call[i].pc = "rAudit"
    /\ Return(i)
    /\ UNCHANGED <<storeVars, sdidValid, push, keys, sessions>>

registerPushToken(i, d) ==
    /\ "push" \in Allowed
    /\ Guard(d)
    /\ Start(i, "pSet", d, None, None)
    /\ UNCHANGED <<storeVars, sdidValid, push, keys, sessions>>

\* UPDATE ... WHERE id = d, whatever the status
PushSet(i) ==
    /\ call[i].pc = "pSet"
    /\ push' = push \cup {call[i].dev}
    /\ Return(i)
    /\ UNCHANGED <<storeVars, sdidValid, keys, sessions>>

removePushToken(i, d) ==
    /\ "push" \in Allowed
    /\ Guard(d)
    /\ Start(i, "pClear", d, None, None)
    /\ UNCHANGED <<storeVars, sdidValid, push, keys, sessions>>

PushClear(i) ==
    /\ call[i].pc = "pClear"
    /\ push' = push \ {call[i].dev}
    /\ Return(i)
    /\ UNCHANGED <<storeVars, sdidValid, keys, sessions>>

-----------------------------------------------------------------------------
(* Failures, time and SDID. *)

\* login() catches what consume() throws and counts it as a failed login.
Abort(i) ==
    /\ "abort" \in Allowed
    /\ call[i].pc # "idle"
    /\ Return(i) \/ (call[i].pc = "lConsume" /\ Goto(i, "lFail"))
    /\ UNCHANGED <<storeVars, sdidValid, push, keys, sessions>>

\* A TTL runs out: a challenge, a nonce, a lockout window, a session.
Expire ==
    /\ "expire" \in Allowed
    /\ \/ \E x \in Challenges :
            /\ chal[x].st = "live"
            /\ chal' = [chal EXCEPT ![x].st = "gone"]
            /\ UNCHANGED <<nonce, failures, sessions>>
       \/ \E n \in Nonces :
            /\ nonce[n] = "live"
            /\ nonce' = [nonce EXCEPT ![n] = "gone"]
            /\ UNCHANGED <<chal, failures, sessions>>
       \/ \E k \in LockoutKeys :
            /\ failures[k] # 0
            /\ failures' = [failures EXCEPT ![k] = 0]
            /\ UNCHANGED <<chal, nonce, sessions>>
       \/ \E b \in sessions :
            /\ sessions' = sessions \ {b}
            /\ UNCHANGED <<chal, nonce, failures>>
    /\ UNCHANGED <<storeVars, sdidValid, push, call>>

Stales(b) ==
    /\ "stale" \in Allowed
    /\ CadenceElapses(b)
    /\ UNCHANGED <<sdidValid, push, keys, sessions, call>>

SdidInvalidates(c) ==
    /\ "sdid" \in Allowed
    /\ c \in sdidValid
    /\ sdidValid' = sdidValid \ {c}
    /\ UNCHANGED <<storeVars, push, keys, sessions, call>>

-----------------------------------------------------------------------------
Step(i) ==
    \/ EnrolAttest(i) \/ EnrolMatch(i) \/ EnrolFail(i) \/ EnrolCount(i)
    \/ \E b \in Bindings : EnrolInsert(i, b)
    \/ \E x \in Challenges : EnrolIssue(i, x) \/ ChallengeIssue(i, x)
    \/ ActivateRead(i) \/ ActivateConsume(i) \/ ActivateUpdate(i)
    \/ ChallengeRead(i) \/ ChallengeLocked(i)
    \/ LoginRead(i) \/ LoginConsume(i) \/ LoginFail(i) \/ LoginClear(i)
    \/ LoginSession(i)
    \/ ReassertRead(i) \/ ReassertSdid(i) \/ ReassertSuspend(i)
    \/ ReassertRevoke(i) \/ ReassertStamp(i)
    \/ SweepRead(i) \/ SweepPick(i)
    \/ RevokeRead(i) \/ RevokeUpdate(i) \/ RevokeAudit(i)
    \/ PushSet(i) \/ PushClear(i)

Request(i) ==
    \/ \E c \in Citizens, n \in Nonces : EnrolStart(i, c, n)
    \/ \E b \in Bindings, x \in Challenges : Activate(i, b, x) \/ Login(i, b, x)
    \/ \E b \in Bindings : LoginChallenge(i, b)
    \/ \E d, b \in Bindings : revokeBinding(i, d, b)
    \/ \E d \in Bindings : registerPushToken(i, d) \/ removePushToken(i, d)

Next ==
    \/ \E i \in Calls \ Sweepers : Request(i)
    \/ \E i \in Calls : Sweep(i)
    \/ \E i \in Calls : Step(i) \/ Abort(i)
    \/ \E n \in Nonces : attestationChallenge(n)
    \/ Expire
    \/ \E b \in Bindings : Stales(b)
    \/ \E c \in Citizens : SdidInvalidates(c)

Spec == Init /\ [][Next]_vars

\* The scheduler keeps calling the sweep, the cadence keeps running out, and a
\* request in flight goes on.  No citizen needs to use their phone.
Fairness ==
    /\ \A b \in Bindings : WF_vars(Stales(b))
    /\ \A i \in Sweepers : WF_vars(Sweep(i))
    /\ \A i \in Calls : WF_vars(Step(i))

FairSpec == Spec /\ Fairness

-----------------------------------------------------------------------------
(* Properties. *)

\* A binding becomes active by the one activation challenge that was issued to
\* it: once it is active no such challenge is left, and no activate() that has
\* consumed one is still on its way to the UPDATE.  So a binding revoked after it
\* was active can never come back (start, activate, consume).
ActivatedOnce ==
    \A b \in Bindings : bstatus[b] = "active" =>
        /\ \A x \in Challenges : ~Consumable(x, "activation", b)
        /\ \A i \in Calls : ~(call[i].pc \in {"aUpdate", "eIssue"} /\ call[i].dev = b)
        /\ b \in Enrolled \/ \E x \in Challenges :
              chal[x] = [st |-> "spent", purpose |-> "activation", dev |-> b]

\* A device session stands for a login challenge that was issued to that device
\* and is used up, of a device that completed its activation (login).
SessionsAreProven ==
    \A b \in sessions \ Enrolled :
        /\ \E x \in Challenges :
              chal[x] = [st |-> "spent", purpose |-> "login", dev |-> b]
        /\ \E x \in Challenges :
              chal[x] = [st |-> "spent", purpose |-> "activation", dev |-> b]

\* "max 5 non-revoked bindings": the enrolment after the last one is refused, so
\* a citizen never has more than the limit (start).
DeviceCapHolds == \A c \in Citizens : Cardinality(NotRevoked(c)) <= MaxBindings

\* Every binding row rests on an attestation of its own: a nonce is good for one
\* start(), however many of them present it at once (consumeAttestationNonce).
AttestedOnce ==
    Cardinality({b \in Bindings \ Enrolled : bstatus[b] # "absent"})
        <= Cardinality({n \in Nonces : nonce[n] = "spent"})

\* "the citizen is suspended and every one of their bindings is revoked", "caught
\* even on a device that is never used again": no device that was enrolled, or
\* about to be, when SDID withdrew the identity stays active while the sweep runs
\* (sweep, reassertNow).
WithdrawnLosesDevices ==
    \A c \in Citizens : \A b \in BindingsOf(c) :
        [](bstatus[b] # "absent" /\ c \in sdidValid
              => [](c \notin sdidValid => <>(bstatus[b] # "active")))
=============================================================================
