---------------------------- MODULE PushDelivery ----------------------------
(***************************************************************************)
(* Wake-only push: one device's address in device_bindings, the wake that  *)
(* fans out to it, and the two provider transports with the credentials    *)
(* and the connection they cache.  The payload is constant and left out.   *)
(* Each behaviour follows one of the three (the `side` drawn in the        *)
(* initial state); in "addresses" a transport is the outcomes it answers.  *)
(***************************************************************************)
EXTENDS Integers, FiniteSets

CONSTANTS Jobs,           \* requests and sends in flight
          Addresses,      \* push tokens the provider gave the device
          Sessions,       \* HTTP/2 sessions
          NoAddress,
          Skew,           \* TOKEN_SKEW_SECONDS
          ExpiresIn,      \* expires_in of a Google access token
          ProviderTtl,    \* PROVIDER_TOKEN_TTL_MS
          AppleMaxAge,    \* external: the age at which Apple rejects a provider token
          Latency,        \* bound: time a request spends under way
          LastTime        \* bound

\* The default PUSH_TIMEOUT_MS is 5 s, against a skew of 120 s, access tokens of
\* an hour, and 40 of the 60 minutes Apple allows a provider token.
ASSUME PushAssumption ==
    /\ Skew \in Nat /\ ExpiresIn \in Nat /\ ProviderTtl \in Nat \ {0} /\ AppleMaxAge \in Nat
    /\ Latency \in Nat /\ LastTime \in Nat
    /\ Latency <= Skew /\ 2 * Latency < ExpiresIn /\ ProviderTtl + Latency <= AppleMaxAge
    /\ NoAddress \notin Addresses /\ NoAddress \notin Sessions

VARIABLES side,           \* "addresses", "fcm" or "apns"
          hour,           \* the clock
          binding,        \* status and push_token of the device
          dead,           \* external: addresses the provider has retired
          job,
          fcm,            \* cachedToken: value (when Google issued it) and expiresAtEpoch
          apns,           \* providerToken.mintedAt (-1 for none) and session
          sess            \* external: state of every HTTP/2 session

pushVars == <<side, hour, binding, dead, job, fcm, apns, sess>>

NoJob == [pc |-> "idle", tok |-> NoAddress, at |-> 0, cred |-> -1]

JobAt(i, pc) == job[i].pc = pc
JobDone(i) == job' = [job EXCEPT ![i] = NoJob]
-----------------------------------------------------------------------------
(* The device's address.                                                   *)

\* DeviceSessionGuard, then the handler of push-token and push-token/remove.
PushGuard(i) ==
    \E pc \in {"register", "remove"}, t \in Addresses :
        /\ side = "addresses"
        /\ job[i] = NoJob
        /\ binding.status = "active"
        /\ job' = [job EXCEPT ![i].pc = pc, ![i].tok = t]
        /\ UNCHANGED <<side, hour, binding, dead, fcm, apns, sess>>

\* The UPDATE names the binding only: not its status.
registerToken(i) ==
    /\ JobAt(i, "register")
    /\ binding' = [binding EXCEPT !.token = job[i].tok]
    /\ JobDone(i)
    /\ UNCHANGED <<side, hour, dead, fcm, apns, sess>>

\* A verdict on an address that was replaced meanwhile clears the new one: the
\* UPDATE does not name the token it is about.
clearToken(i) ==
    /\ JobAt(i, "remove") \/ JobAt(i, "prune")
    /\ binding' = [binding EXCEPT !.token = NoAddress]
    /\ JobDone(i)
    /\ UNCHANGED <<side, hour, dead, fcm, apns, sess>>

\* Revocation by the citizen or by an invalid re-assertion: one UPDATE.
Revoked ==
    /\ side = "addresses"
    /\ binding.status = "active"
    /\ binding' = [status |-> "revoked", token |-> NoAddress]
    /\ UNCHANGED <<side, hour, dead, job, fcm, apns, sess>>

\* wake: active bindings with an address; none, or a failed lookup, ends it.
Wake(i) ==
    /\ side = "addresses"
    /\ job[i] = NoJob
    /\ binding.status = "active"
    /\ binding.token # NoAddress
    /\ job' = [job EXCEPT ![i].pc = "send", ![i].tok = binding.token]
    /\ UNCHANGED <<side, hour, binding, dead, fcm, apns, sess>>

\* deliver: only "unregistered" has an effect.  Delivered, failed, timed out,
\* unconfigured and thrown are metrics and log lines.
Deliver(i) ==
    /\ JobAt(i, "send")
    /\ \/ JobDone(i)
       \/ job[i].tok \in dead /\ job' = [job EXCEPT ![i].pc = "prune"]
    /\ UNCHANGED <<side, hour, binding, dead, fcm, apns, sess>>

\* The provider retires an address: reinstallation, restore, policy.
Retire(t) ==
    /\ side = "addresses"
    /\ t \notin dead
    /\ dead' = dead \cup {t}
    /\ UNCHANGED <<side, hour, binding, job, fcm, apns, sess>>
-----------------------------------------------------------------------------
(* FCM: accessToken and send.                                              *)

\* The skew is forgotten.
MutantUsable == fcm.expiresAt > hour

Usable == fcm.expiresAt - Skew > hour

\* Without a usable token the exchange starts; its `now` was read before it.
FcmSend(i) ==
    /\ side = "fcm"
    /\ job[i] = NoJob
    /\ job' = [job EXCEPT ![i] = [pc |-> IF Usable THEN "posted" ELSE "exchange",
                                  tok |-> NoAddress, at |-> hour,
                                  cred |-> IF Usable THEN fcm.value ELSE -1]]
    /\ UNCHANGED <<side, hour, binding, dead, fcm, apns, sess>>

\* Google issues the token; its life starts here.
Exchange(i) ==
    /\ JobAt(i, "exchange")
    /\ job' = [job EXCEPT ![i].pc = "issued", ![i].cred = hour]
    /\ UNCHANGED <<side, hour, binding, dead, fcm, apns, sess>>

\* The reply fills the cache, over a newer one if it was slower, and the message
\* is posted with it.
Exchanged(i) ==
    /\ JobAt(i, "issued")
    /\ fcm' = [value |-> job[i].cred, expiresAt |-> job[i].at + ExpiresIn]
    /\ job' = [job EXCEPT ![i].pc = "posted", ![i].at = hour]
    /\ UNCHANGED <<side, hour, binding, dead, apns, sess>>

\* A reply of any kind, a timeout or a reset; no token is cached by a failure.
Replied(i) ==
    /\ job[i].pc \in {"exchange", "issued", "posted"}
    /\ JobDone(i)
    /\ UNCHANGED <<side, hour, binding, dead, fcm, apns, sess>>
-----------------------------------------------------------------------------
(* APNs: one HTTP/2 session, reused, and a provider token.                 *)

Reusable == apns.session # NoAddress /\ sess[apns.session] = "open"

currentSession == IF Reusable THEN apns.session
                  ELSE CHOOSE s \in Sessions : sess[s] = "unused"

currentToken == IF apns.mintedAt >= 0 /\ hour - apns.mintedAt < ProviderTtl
                THEN apns.mintedAt ELSE hour

ApnsSend(i) ==
    /\ side = "apns"
    /\ job[i] = NoJob
    /\ Reusable \/ \E s \in Sessions : sess[s] = "unused"
    /\ apns' = [mintedAt |-> currentToken, session |-> currentSession]
    /\ sess' = [sess EXCEPT ![currentSession] = "open"]
    /\ job' = [job EXCEPT ![i] = [NoJob EXCEPT !.pc = "posted", !.at = hour,
                                               !.cred = currentToken]]
    /\ UNCHANGED <<side, hour, binding, dead, fcm>>

\* Apple winds a session down (GOAWAY): it reads as closed before its event comes.
Goaway(s) ==
    /\ sess[s] = "open"
    /\ sess' = [sess EXCEPT ![s] = "closed"]
    /\ UNCHANGED <<side, hour, binding, dead, job, fcm, apns>>

\* The error or close event: the reference goes only if it is still this one.
SessionEvent(s) ==
    /\ sess[s] \in {"open", "closed"}
    /\ sess' = [sess EXCEPT ![s] = "gone"]
    /\ apns' = IF apns.session = s THEN [apns EXCEPT !.session = NoAddress] ELSE apns
    /\ UNCHANGED <<side, hour, binding, dead, job, fcm>>
-----------------------------------------------------------------------------
\* Nothing stays under way longer than Latency: postJson and the stream time out.
PushTick ==
    /\ side # "addresses"
    /\ hour < LastTime
    /\ \A i \in Jobs : job[i] = NoJob \/ hour < job[i].at + Latency
    /\ hour' = hour + 1
    /\ UNCHANGED <<side, binding, dead, job, fcm, apns, sess>>

PushInit ==
    /\ side \in {"addresses", "fcm", "apns"}
    /\ hour = 0
    /\ binding = [status |-> "active", token |-> NoAddress]
    /\ dead = {}
    /\ job = [i \in Jobs |-> NoJob]
    /\ fcm = [value |-> -1, expiresAt |-> 0]
    /\ apns = [mintedAt |-> -1, session |-> NoAddress]
    /\ sess = [s \in Sessions |-> "unused"]

PushNext ==
    \/ \E i \in Jobs :
          \/ PushGuard(i) \/ registerToken(i) \/ clearToken(i) \/ Wake(i) \/ Deliver(i)
          \/ FcmSend(i) \/ Exchange(i) \/ Exchanged(i) \/ Replied(i) \/ ApnsSend(i)
    \/ Revoked
    \/ \E t \in Addresses : Retire(t)
    \/ \E s \in Sessions : Goaway(s) \/ SessionEvent(s)
    \/ PushTick
-----------------------------------------------------------------------------
(* Properties.                                                             *)

\* Every request to a provider arrives with a credential it still accepts:
\* Google's access token is not expired ("an in-flight send never races it"),
\* Apple's provider token not too old.
CredentialsLive ==
    \A i \in Jobs : JobAt(i, "posted") =>
        IF side = "fcm" THEN hour < job[i].cred + ExpiresIn
        ELSE hour - job[i].cred < AppleMaxAge

\* APNs is not met with connection churn: an open session is the one in use.
OneSession == \A s \in Sessions : sess[s] = "open" => s = apns.session

\* What the push transports promise their providers.
PushHolds == CredentialsLive /\ OneSession

PushSpec == PushInit /\ [][PushNext]_pushVars
=============================================================================
