----------------------------- MODULE Attestation -----------------------------
(***************************************************************************)
(* Device attestation: what the Play Integrity, Android key attestation    *)
(* and App Attest verifiers conclude from the evidence a client sends, and *)
(* the broker's service around them, which spends the single-use nonce     *)
(* first.  Parsing is the module StrictParsers; here a part of the         *)
(* evidence either parses or does not.                                     *)
(***************************************************************************)
EXTENDS Integers, Sequences, FiniteSets

CONSTANTS Enrolments,     \* requests in flight
          Nonces,         \* attestation nonces in Redis
          NoNonce,
          MaxChain,       \* MAX_CHAIN_LENGTH
          MaxAge, Tolerance  \* maxTokenAgeMs and CLOCK_SKEW_TOLERANCE_MS

VARIABLES evidence,       \* what the device sends, and how the broker is configured
          live,           \* nonces that are still in Redis
          enrol           \* requests in AttestationService.verify

attestVars == <<evidence, live, enrol>>

\* The code of the first check that fails, in the order they are made.
FirstFailure(checks) ==
    LET failed == {i \in DOMAIN checks : ~checks[i][1]}
    IN IF failed = {} THEN "ok" ELSE checks[CHOOSE i \in failed : \A j \in failed : i <= j][2]
-----------------------------------------------------------------------------
(* X.509 chains, leaf first.                                               *)

\* external: X509Certificate, checkIssued and verify.
Cert(name, issuer, key, by, ca, valid) ==
    [name |-> name, issuer |-> issuer, key |-> key, by |-> by, ca |-> ca, valid |-> valid]

Links(child, parent) == child.issuer = parent.name /\ child.by = parent.key

verifyCertificateChain(chain, anchors) ==
    /\ Len(chain) \in 1..MaxChain
    /\ anchors # {}
    /\ \A i \in 1..Len(chain) : chain[i].valid /\ (i > 1 => chain[i].ca)
    /\ \A i \in 1..(Len(chain) - 1) : Links(chain[i], chain[i + 1])
    /\ \E a \in anchors : chain[Len(chain)] = a \/ (a.ca /\ Links(chain[Len(chain)], a))
-----------------------------------------------------------------------------
(* Android.                                                                *)

\* `hardware ?? software`.
Prefer(first, second) == IF first # "absent" THEN first ELSE second

\* The lower of the two levels the extension reports.
RawLevel(e) == IF e.attestationLevel < e.keymasterLevel THEN e.attestationLevel
               ELSE e.keymasterLevel

\* Anything that is not TEE or StrongBox, a claim with no hardware-enforced list
\* behind it, and a key that was imported, count as software.
keySecurityLevel(e) ==
    IF \/ ~e.hardwarePresent
       \/ Prefer(e.hardwareOrigin, e.softwareOrigin) = "imported"
    THEN "software"
    ELSE CASE RawLevel(e) = 1 -> "trusted-environment"
           [] RawLevel(e) = 2 -> "strongbox"
           [] OTHER -> "software"

\* JSON array, PEM bundle or list, of at most MAX_CHAIN_LENGTH strict base64 blobs.
parseCertificateChainInput(e) == e.chainParses /\ Len(e.chain) \in 1..MaxChain

\* The leaf carries the extension.
findCertificateExtension(e) == e.description # "missing"

\* An enumerated value has no sign and fits two octets.
derEnumerated == {n \in Nat : n < 65536}

\* All fields of the extension and its authorization lists parse.
parseKeyDescription(e) ==
    /\ e.description = "parses"
    /\ e.attestationLevel \in derEnumerated /\ e.keymasterLevel \in derEnumerated

\* Strict base64url coordinates of 32 bytes each.
jwkToRawPoint(e) == e.jwk = "ok"

\* Only a P-256 key has a point to compare.
keyObjectToRawPoint(e) == e.attestedKey # "not P-256"

\* A boot state that is reported must be locked and verified.
BootSound(e) == Prefer(e.hardwareBoot, e.softwareBoot) \in {"absent", "locked-verified"}

\* Corroboration only: an application id that does not parse is ignored.
tryParseAttestationApplicationId(e) == IF e.applicationId = "unparseable" THEN "absent"
                                       ELSE e.applicationId

verifyAndroidKeyAttestation(e, nonce, anchors) ==
    FirstFailure(<<
        <<parseCertificateChainInput(e), "malformed">>,
        <<verifyCertificateChain(e.chain, anchors), "chain_invalid">>,
        <<findCertificateExtension(e) /\ parseKeyDescription(e), "malformed">>,
        <<e.challenge = nonce, "nonce_mismatch">>,
        <<jwkToRawPoint(e), "malformed">>,
        <<keyObjectToRawPoint(e) /\ e.attestedKey = "enrolled", "key_mismatch">>,
        <<BootSound(e), "device_integrity">>,
        <<tryParseAttestationApplicationId(e) \in {"absent", "ours"}, "app_mismatch">> >>)

\* deriveAssuranceCap with appGenuine, which both verifiers pass.
deriveAssuranceCap(level, requireStrongBox) ==
    IF level = "strongbox" \/ (level = "trusted-environment" /\ ~requireStrongBox)
    THEN "AL2" ELSE "AL1"

\* Every required field has its type; absent device verdicts are no verdicts.
parseIntegrityPayload(e) == e.decode = "shape"

\* PlayIntegrityVerifier: the token, then the key attestation if there is one.
verifyPlayIntegrity(e, nonce, anchors) ==
    LET token == FirstFailure(<<
            <<e.token = "present", "malformed">>,
            <<e.decode # "throws", "verifier_unavailable">>,
            <<parseIntegrityPayload(e), "malformed">>,
            <<e.requestPackage = "ours", "app_mismatch">>,
            <<e.tokenNonce = nonce, "nonce_mismatch">>,
            <<e.age >= -Tolerance /\ e.age <= MaxAge, "stale">>,
            <<e.recognition = "PLAY_RECOGNIZED", "app_integrity">>,
            <<e.appPackage \in {"absent", "ours"}, "app_mismatch">>,
            <<e.digest = "ours", "app_mismatch">>,
            <<e.verdicts \cap {"DEVICE", "STRONG"} # {}, "device_integrity">> >>)
        key == IF e.keyAttestation THEN verifyAndroidKeyAttestation(e, nonce, anchors) ELSE "ok"
        level == IF e.keyAttestation THEN keySecurityLevel(e) ELSE "software"
    IN [code |-> IF token # "ok" THEN token ELSE key,
        cap |-> deriveAssuranceCap(level, e.requireStrongBox)]
-----------------------------------------------------------------------------
(* iOS.                                                                    *)

\* The three members, a chain that is not empty, and certificates that parse.
decodeAttestationObject(e) == e.object = "parses" /\ e.chain # <<>>

\* The fixed layout up to a credential id that lies within the bytes.
parseAuthenticatorData(e) == e.authData

\* An optional COSE key must be EC2 on P-256 with full coordinates.
coseKeyToRawPoint(e) == e.coseKey # "unparseable"

\* The leaf carries Apple's extension: a [1] EXPLICIT OCTET STRING.
parseNonceExtension(e) == e.nonceExtension

\* AppAttestVerifier.  Apple certifies a digest over authData, the nonce and the
\* enrolled key, so another key shows as another nonce.
verifyAppAttest(e, nonce, anchors) ==
    [code |-> FirstFailure(<<
        <<e.token = "present", "malformed">>,
        <<decodeAttestationObject(e), "malformed">>,
        <<verifyCertificateChain(e.chain, anchors), "chain_invalid">>,
        <<jwkToRawPoint(e), "malformed">>,
        <<parseNonceExtension(e), "malformed">>,
        <<e.certifiedNonce = nonce /\ e.attestedKey = "enrolled", "nonce_mismatch">>,
        <<parseAuthenticatorData(e), "malformed">>,
        <<e.credentialId, "key_mismatch">>,
        <<e.rpIdHash = "ours", "app_mismatch">>,
        <<e.signCount = 0, "malformed">>,
        <<e.aaguid \in {"production", "development"}, "malformed">>,
        <<e.aaguid = "production" \/ e.production = "no", "app_integrity">>,
        <<coseKeyToRawPoint(e), "malformed">>,
        <<e.coseKey # "other", "key_mismatch">> >>),
     cap |-> deriveAssuranceCap("trusted-environment", FALSE)]

\* An unusable PEM is a configuration error.
parseTrustAnchors(e) == e.roots = "parse"

\* createAttestationVerifiers: what would weaken a check is refused at construction.
createAttestationVerifiers(e) ==
    /\ e.digests # {}
    /\ e.production # "unset"
    /\ parseTrustAnchors(e)
-----------------------------------------------------------------------------
(* AttestationService.                                                     *)

NoEnrolment == [pc |-> "idle", nonceId |-> NoNonce, cap |-> "none"]

Conclude(i, pc, cap) ==
    enrol' = [enrol EXCEPT ![i] = [pc |-> pc, nonceId |-> enrol[i].nonceId, cap |-> cap]]

PlatformRoots == {Cert("root", "root", "root", "root", TRUE, TRUE)}   \* roots.ts

\* The checks of verifyStrict before the nonce; mock mode has none.
Verify(i) ==
    \E n \in Nonces \cup {NoNonce} :
        /\ enrol[i].pc = "idle"
        /\ enrol' = [enrol EXCEPT ![i] =
              [pc |-> IF evidence.mode = "mock" \/ (evidence.platform # "sim" /\ n # NoNonce)
                      THEN "consume" ELSE IF evidence.platform = "sim" THEN "rejected" ELSE "nonce",
               nonceId |-> n, cap |-> "none"]]
        /\ UNCHANGED <<evidence, live>>

\* The nonce is looked up, and left for the next enrolment.
MutantConsumeNonce(i) ==
    /\ enrol[i].pc = "consume"
    /\ IF evidence.mode = "mock" \/ enrol[i].nonceId \in live
       THEN Conclude(i, "verify", "none") ELSE Conclude(i, "nonce", "none")
    /\ UNCHANGED <<evidence, live>>

\* consumeAttestationNonce (GETDEL) before verification, whatever comes of it.
ConsumeNonce(i) ==
    /\ enrol[i].pc = "consume"
    /\ live' = live \ {enrol[i].nonceId}
    /\ IF evidence.mode = "mock" \/ enrol[i].nonceId \in live
       THEN Conclude(i, "verify", "none") ELSE Conclude(i, "nonce", "none")
    /\ UNCHANGED evidence

\* Redis fails the GETDEL, before or after it took effect.  The catch of
\* verifyStrict gives the answer of a used nonce ("unasked": nobody knows whether
\* it was one); that of verifyMock goes on.
NonceStoreFails(i) ==
    /\ enrol[i].pc = "consume" /\ enrol[i].nonceId # NoNonce
    /\ live' \in {live, live \ {enrol[i].nonceId}}
    /\ Conclude(i, IF evidence.mode = "mock" THEN "verify" ELSE "unasked", "none")
    /\ UNCHANGED evidence

\* An exception, a configuration that does not build and an unreachable platform
\* are "unavailable": a retryable 503.
verifyStrict(i) ==
    LET e == evidence
        verdict == IF e.platform = "android"
                   THEN verifyPlayIntegrity(e, enrol[i].nonceId, PlatformRoots)
                   ELSE verifyAppAttest(e, enrol[i].nonceId, PlatformRoots)
    IN
    /\ enrol[i].pc = "verify" /\ e.mode = "strict"
    /\ IF ~createAttestationVerifiers(e) \/ verdict.code = "verifier_unavailable"
       THEN Conclude(i, "unavailable", "none")
       ELSE IF verdict.code = "ok" THEN Conclude(i, "accepted", verdict.cap)
       ELSE Conclude(i, "rejected", "none")
    /\ UNCHANGED <<evidence, live>>

\* A platform's token is not the JSON with claims that mock mode reads.
verifyMock(i) ==
    LET e == evidence IN
    /\ enrol[i].pc = "verify" /\ e.mode = "mock"
    /\ IF "claims" \in DOMAIN e /\ e.claims = "mock" /\ e.deviceIntegrity /\ e.appIntegrity
       THEN Conclude(i, "accepted", IF e.hardwareBackedKey /\ e.keyAttestation THEN "AL2" ELSE "AL1")
       ELSE Conclude(i, "rejected", "none")
    /\ UNCHANGED <<evidence, live>>

NonceExpires ==
    /\ \E n \in live : live' = live \ {n}
    /\ UNCHANGED <<evidence, enrol>>
-----------------------------------------------------------------------------
(* The evidence: a genuine device's, and what may be different in it.      *)

Leaf == Cert("leaf", "batch", "leaf", "batch", FALSE, TRUE)
Batch == Cert("batch", "root", "batch", "root", TRUE, TRUE)
Root == Cert("root", "root", "root", "root", TRUE, TRUE)

GoodChain == <<Leaf, Batch, Root>>

BadChains ==
    { <<>>,
      <<Leaf>>,                                                           \* issuer missing
      <<Leaf, [Batch EXCEPT !.valid = FALSE], Root>>,
      <<[Leaf EXCEPT !.valid = FALSE], Batch>>,
      <<Leaf, [Batch EXCEPT !.ca = FALSE], Root>>,                        \* a leaf that signs
      <<[Leaf EXCEPT !.by = "other"], Batch, Root>>,                      \* forged signature
      <<Leaf, Batch, [Root EXCEPT !.key = "other", !.by = "other"]>>,     \* a root with our root's name
      <<Leaf, [Batch EXCEPT !.issuer = "own", !.by = "own"],
        Cert("own", "own", "own", "own", TRUE, TRUE)>>,                   \* a root of its own
      <<Leaf>> \o [k \in 1..MaxChain |-> Root] }

Fresh(n) == CHOOSE m \in Nonces : m # n

AndroidGood(n) ==
    [platform |-> "android", mode |-> "strict", digests |-> {"ours"}, production |-> "yes",
     roots |-> "parse", requireStrongBox |-> FALSE, decode |-> "shape", token |-> "present",
     requestPackage |-> "ours", tokenNonce |-> n, age |-> 0, recognition |-> "PLAY_RECOGNIZED",
     appPackage |-> "ours", digest |-> "ours", verdicts |-> {"DEVICE"}, keyAttestation |-> TRUE,
     chainParses |-> TRUE, chain |-> GoodChain, description |-> "parses", challenge |-> n,
     jwk |-> "ok", attestedKey |-> "enrolled", hardwareBoot |-> "locked-verified",
     softwareBoot |-> "absent", applicationId |-> "ours", attestationLevel |-> 1,
     keymasterLevel |-> 1, hardwarePresent |-> TRUE, hardwareOrigin |-> "generated",
     softwareOrigin |-> "absent"]

\* What may be different: field and value.
AndroidChanges(n) ==
    { <<"mode", "mock">>, <<"digests", {}>>, <<"production", "unset">>,
      <<"roots", "bad">>, <<"requireStrongBox", TRUE>>,
      <<"decode", "throws">>, <<"decode", "garbage">>, <<"token", "absent">>,
      <<"requestPackage", "other">>, <<"tokenNonce", Fresh(n)>>,
      <<"age", -Tolerance>>, <<"age", -Tolerance - 1>>, <<"age", MaxAge>>,
      <<"age", MaxAge + 1>>, <<"recognition", "UNRECOGNIZED_VERSION">>,
      <<"appPackage", "absent">>, <<"appPackage", "other">>,
      <<"digest", "other">>, <<"verdicts", {}>>, <<"verdicts", {"BASIC"}>>,
      <<"verdicts", {"STRONG"}>>, <<"keyAttestation", FALSE>>,
      <<"chainParses", FALSE>>, <<"chain", <<Leaf, Batch>>>>,
      <<"description", "garbage">>, <<"description", "missing">>,
      <<"challenge", Fresh(n)>>,
      <<"jwk", "bad">>, <<"attestedKey", "other">>, <<"attestedKey", "not P-256">>,
      <<"hardwareBoot", "absent">>, <<"hardwareBoot", "unlocked">>,
      <<"hardwareBoot", "self-signed">>, <<"applicationId", "absent">>,
      <<"applicationId", "unparseable">>, <<"applicationId", "other">>,
      <<"attestationLevel", 0>>, <<"attestationLevel", 2>>,
      <<"keymasterLevel", 0>>, <<"keymasterLevel", 2>>,
      <<"keymasterLevel", 3>>, <<"hardwarePresent", FALSE>>,
      <<"softwareBoot", "unlocked">>, <<"softwareOrigin", "imported">>,
      <<"hardwareOrigin", "absent">>, <<"hardwareOrigin", "imported">> }
    \cup {<<"chain", c>> : c \in BadChains}

IosGood(n) ==
    [platform |-> "ios", mode |-> "strict", digests |-> {"ours"}, production |-> "yes",
     roots |-> "parse", token |-> "present", object |-> "parses", chain |-> GoodChain, jwk |-> "ok",
     nonceExtension |-> TRUE, certifiedNonce |-> n, attestedKey |-> "enrolled", authData |-> TRUE,
     credentialId |-> TRUE, rpIdHash |-> "ours", signCount |-> 0, aaguid |-> "production",
     coseKey |-> "absent"]

IosChanges(n) ==
    { <<"mode", "mock">>, <<"digests", {}>>, <<"production", "unset">>,
      <<"production", "no">>, <<"roots", "bad">>, <<"token", "absent">>,
      <<"object", "garbage">>, <<"chain", <<Leaf, Batch>>>>, <<"jwk", "bad">>,
      <<"nonceExtension", FALSE>>, <<"certifiedNonce", Fresh(n)>>,
      <<"attestedKey", "other">>, <<"authData", FALSE>>, <<"credentialId", FALSE>>,
      <<"rpIdHash", "other">>, <<"signCount", 1>>, <<"aaguid", "development">>,
      <<"aaguid", "other">>, <<"coseKey", "same">>, <<"coseKey", "other">>,
      <<"coseKey", "unparseable">> }
    \cup {<<"chain", c>> : c \in BadChains}

SimGood ==
    [platform |-> "sim", mode |-> "mock", claims |-> "mock", deviceIntegrity |-> TRUE,
     appIntegrity |-> TRUE, hardwareBackedKey |-> TRUE, keyAttestation |-> TRUE]

SimChanges ==
    { <<"mode", "strict">>, <<"claims", "not mock">>, <<"claims", "garbage">>,
      <<"deviceIntegrity", FALSE>>, <<"appIntegrity", FALSE>>,
      <<"hardwareBackedKey", FALSE>>, <<"keyAttestation", FALSE>> }

\* At most two of the changes at once.
Altered(good, changes) ==
    {good} \cup {[good EXCEPT ![c[1]] = c[2]] : c \in changes}
    \cup {[good EXCEPT ![c[1]] = c[2], ![d[1]] = d[2]] : c, d \in changes}
-----------------------------------------------------------------------------
Issued == CHOOSE n \in Nonces : TRUE

AttestInit ==
    /\ evidence \in Altered(AndroidGood(Issued), AndroidChanges(Issued))
                   \cup Altered(IosGood(Issued), IosChanges(Issued))
                   \cup Altered(SimGood, SimChanges)
                   \cup {[AndroidGood(Issued) EXCEPT !.requireStrongBox = TRUE,
                                                    !.attestationLevel = a, !.keymasterLevel = k] :
                          a, k \in 0..3}
    /\ live = Nonces
    /\ enrol = [i \in Enrolments |-> NoEnrolment]

AttestNext ==
    \/ \E i \in Enrolments : \/ Verify(i) \/ ConsumeNonce(i) \/ NonceStoreFails(i)
                             \/ verifyStrict(i) \/ verifyMock(i)
    \/ NonceExpires
-----------------------------------------------------------------------------
(* Properties.                                                             *)

\* The evidence is bound to this nonce, in every part that carries one.
Binds(e, n) ==
    CASE e.platform = "android" -> e.tokenNonce = n /\ (e.keyAttestation => e.challenge = n)
      [] e.platform = "ios" -> e.certifiedNonce = n
      [] OTHER -> TRUE

\* The platform's verdict cannot be had: the verifiers do not build, or the
\* token is there and Google's service does not decode it.
Outage(e) ==
    /\ e.platform # "sim"
    /\ \/ ~createAttestationVerifiers(e)
       \/ e.platform = "android" /\ e.token = "present" /\ e.decode = "throws"

\* The key is the enrolled one under a chain to a platform root, generated in
\* hardware; the lower of the two levels reported is one the broker knows, and
\* StrongBox where it asks for that.
InHardware(e) ==
    /\ e.attestedKey = "enrolled" /\ verifyCertificateChain(e.chain, PlatformRoots)
    /\ e.platform = "android" =>
          /\ e.keyAttestation /\ e.hardwarePresent /\ e.hardwareOrigin # "imported"
          /\ \E l \in {e.attestationLevel, e.keymasterLevel} :
                /\ l \in (IF e.requireStrongBox THEN {2} ELSE {1, 2})
                /\ e.attestationLevel >= l /\ e.keymasterLevel >= l

\* In strict mode a nonce this broker issued admits one enrolment and is gone,
\* whichever requests race for it; what is admitted is bound to that nonce, AL2
\* only with the enrolled key proven to be in hardware; and when the platform's
\* verdict cannot be had the answer is the retryable 503, neither an acceptance
\* nor a refusal, and only then (verifyStrict, unavailable).
AdmittedOnce ==
    \A i \in Enrolments :
        /\ enrol[i].pc = "accepted" /\ evidence.mode = "strict" =>
              /\ Binds(evidence, enrol[i].nonceId)
              /\ enrol[i].cap = "AL2" => InHardware(evidence)
              /\ enrol[i].nonceId \in Nonces \ live
              /\ \A j \in Enrolments \ {i} :
                    enrol[j].pc = "accepted" => enrol[j].nonceId # enrol[i].nonceId
        /\ enrol[i].pc = "unavailable" => Outage(evidence)
        /\ enrol[i].pc \in {"accepted", "rejected"} /\ evidence.mode = "strict" => ~Outage(evidence)

AttestSpec == AttestInit /\ [][AttestNext]_attestVars
=============================================================================
