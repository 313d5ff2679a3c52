--------------------------- MODULE ServicesProofs ---------------------------
(*****************************************************************************)
(* The services around the transactions: attestation, for any evidence and   *)
(* any number of enrolments; the counters, locks and alerts, for any number  *)
(* of requests, limits and windows; and the push wake, for any number of     *)
(* requests, addresses and connections.                                      *)
(*****************************************************************************)
EXTENDS Attestation, AbuseControls, PushDelivery, FiniteSetTheorems, WellFoundedInduction,
        TLAPS

-----------------------------------------------------------------------------
(* Attestation: a nonce admits once.                                       *)

\* The code of a failure is the code of a check that fails.
LEMMA FailureIsACheck ==
  ASSUME NEW checks, DOMAIN checks \subseteq Nat,
         \E i \in DOMAIN checks : ~checks[i][1]
  PROVE  \E i \in DOMAIN checks : ~checks[i][1] /\ FirstFailure(checks) = checks[i][2]
<1> DEFINE failed == {i \in DOMAIN checks : ~checks[i][1]}
<1>1. failed \in SUBSET Nat /\ failed # {}
  OBVIOUS
<1>2. \E i \in failed : \A j \in failed : i <= j
  <2> DEFINE less == {ss \in Nat \X Nat : ss[1] < ss[2]}
  <2>0. IsWellFoundedOn(less, Nat)
    BY NatLessThanWellFounded, Zenon DEF OpToRel
  <2>1. PICK i \in failed : \A j \in failed : ~(<<j, i>> \in less)
    BY <1>1, <2>0, WFMin
  <2>2. \A j, k \in Nat : j < k => <<j, k>> \in less
    OBVIOUS
  <2>3. \A j \in failed : ~(j < i) /\ j \in Nat /\ i \in Nat
    <3> HIDE DEF failed, less
    <3> QED BY <1>1, <2>1, <2>2
  <2> HIDE DEF failed
  <2> QED BY <2>3
<1>3. (CHOOSE i \in failed : \A j \in failed : i <= j) \in failed
  BY <1>2
<1>4. FirstFailure(checks) = checks[CHOOSE i \in failed : \A j \in failed : i <= j][2]
  BY <1>1 DEF FirstFailure
<1>5. QED
  BY <1>3, <1>4

\* A check that fails, where those before it do not, gives the code.
LEMMA FirstIsReported ==
  ASSUME NEW checks, DOMAIN checks \subseteq Nat, NEW k \in DOMAIN checks, ~checks[k][1],
         \A i \in DOMAIN checks : i < k => checks[i][1]
  PROVE  FirstFailure(checks) = checks[k][2]
<1> DEFINE failed == {i \in DOMAIN checks : ~checks[i][1]}
<1>1. k \in failed /\ \A j \in failed : k <= j
  OBVIOUS
<1>2. \A i \in failed : (\A j \in failed : i <= j) => i = k
  <2> SUFFICES ASSUME NEW i \in failed, \A j \in failed : i <= j PROVE i = k
    OBVIOUS
  <2>1. i \in Nat /\ k \in Nat
    OBVIOUS
  <2>2. i <= k /\ k <= i
    BY <1>1
  <2>3. QED BY <2>1, <2>2
<1>3. (CHOOSE i \in failed : \A j \in failed : i <= j) = k
  <2> HIDE DEF failed
  <2> QED BY <1>1, <1>2
<1>4. QED
  BY <1>1, <1>3 DEF FirstFailure

\* A pair whose first component holds.
LEMMA PassedPair ==
  ASSUME NEW pair, NEW holds \in BOOLEAN, NEW code, pair = <<holds, code>>, pair[1]
  PROVE  holds
OBVIOUS

\* A pair whose first component does not.
LEMMA FailedPair ==
  ASSUME NEW pair, NEW holds \in BOOLEAN, NEW code, pair = <<holds, code>>, ~pair[1]
  PROVE  ~holds
OBVIOUS

\* With no failure the result is "ok".
LEMMA OkWhenNoneFails ==
  ASSUME NEW checks, \A i \in DOMAIN checks : checks[i][1]
  PROVE  FirstFailure(checks) = "ok"
BY DEF FirstFailure

\* When the result is "ok" every check was passed.
LEMMA OkMeansAllPassed ==
  ASSUME NEW checks, DOMAIN checks \subseteq Nat,
         \A i \in DOMAIN checks : checks[i][2] # "ok",
         FirstFailure(checks) = "ok"
  PROVE  \A i \in DOMAIN checks : checks[i][1]
BY FailureIsACheck

\* What the Android key attestation establishes when nothing failed.
LEMMA AndroidKeyProven ==
  ASSUME NEW e, NEW n, NEW anchors, verifyAndroidKeyAttestation(e, n, anchors) = "ok"
  PROVE  /\ verifyCertificateChain(e.chain, anchors)
         /\ e.challenge = n
         /\ e.attestedKey = "enrolled"
         /\ e.attestationLevel \in Nat /\ e.keymasterLevel \in Nat
<1> DEFINE checks == <<
        <<parseCertificateChainInput(e), "malformed">>,
        <<verifyCertificateChain(e.chain, anchors), "chain_invalid">>,
        <<findCertificateExtension(e) /\ parseKeyDescription(e), "malformed">>,
        <<e.challenge = n, "nonce_mismatch">>,
        <<jwkToRawPoint(e), "malformed">>,
        <<keyObjectToRawPoint(e) /\ e.attestedKey = "enrolled", "key_mismatch">>,
        <<BootSound(e), "device_integrity">>,
        <<tryParseAttestationApplicationId(e) \in {"absent", "ours"}, "app_mismatch">> >>
<1>1. DOMAIN checks = 1..8 /\ 1..8 \subseteq Nat
  OBVIOUS
<1>2. FirstFailure(checks) = "ok"
  BY DEF verifyAndroidKeyAttestation
<1>3. \A i \in 1..8 : checks[i][2] # "ok"
  OBVIOUS
<1>4. \A i \in 1..8 : checks[i][1]
  <2> HIDE DEF checks
  <2> QED BY <1>1, <1>2, <1>3, OkMeansAllPassed
<1>5. checks[2][1] /\ checks[3][1] /\ checks[4][1] /\ checks[6][1]
  <2> HIDE DEF checks
  <2> QED BY <1>4
<1>6. /\ checks[2] = <<verifyCertificateChain(e.chain, anchors), "chain_invalid">>
      /\ checks[3] = <<findCertificateExtension(e) /\ parseKeyDescription(e), "malformed">>
      /\ checks[4] = <<e.challenge = n, "nonce_mismatch">>
      /\ checks[6] = <<keyObjectToRawPoint(e) /\ e.attestedKey = "enrolled", "key_mismatch">>
  OBVIOUS
<1>7. QED
  <2> HIDE DEF checks
  <2>1. verifyCertificateChain(e.chain, anchors)
    BY <1>5, <1>6 DEF verifyCertificateChain
  <2>2. findCertificateExtension(e) /\ parseKeyDescription(e)
    BY <1>5, <1>6, PassedPair
  <2>3. e.challenge = n
    BY <1>5, <1>6, PassedPair
  <2>4. e.attestedKey = "enrolled"
    BY <1>5, <1>6, PassedPair
  <2>5. e.attestationLevel \in derEnumerated /\ e.keymasterLevel \in derEnumerated
    BY <2>2, Zenon DEF parseKeyDescription
  <2>6. e.attestationLevel \in Nat /\ e.keymasterLevel \in Nat
    BY <2>5 DEF derEnumerated
  <2> QED BY <2>1, <2>3, <2>4, <2>6, Zenon

\* What the Play Integrity verifier establishes: the token is bound to the nonce,
\* and so is the key attestation when there is one.
LEMMA AndroidProven ==
  ASSUME NEW e, NEW n, NEW anchors, verifyPlayIntegrity(e, n, anchors).code = "ok"
  PROVE  /\ e.tokenNonce = n
         /\ e.keyAttestation => verifyAndroidKeyAttestation(e, n, anchors) = "ok"
<1> DEFINE checks == <<
            <<e.token = "present", "malformed">>,
            <<e.decode # "throws", "verifier_unavailable">>,
            <<parseIntegrityPayload(e), "malformed">>,
            <<e.requestPackage = "ours", "app_mismatch">>,
            <<e.tokenNonce = n, "nonce_mismatch">>,
            <<e.age >= -Tolerance /\ e.age <= MaxAge, "stale">>,
            <<e.recognition = "PLAY_RECOGNIZED", "app_integrity">>,
            <<e.appPackage \in {"absent", "ours"}, "app_mismatch">>,
            <<e.digest = "ours", "app_mismatch">>,
            <<e.verdicts \cap {"DEVICE", "STRONG"} # {}, "device_integrity">> >>
       keyCode == IF e.keyAttestation THEN verifyAndroidKeyAttestation(e, n, anchors) ELSE "ok"
<1>1. DOMAIN checks = 1..10 /\ 1..10 \subseteq Nat
  OBVIOUS
<1>2. (IF FirstFailure(checks) # "ok" THEN FirstFailure(checks) ELSE keyCode) = "ok"
  BY DEF verifyPlayIntegrity
<1>3. FirstFailure(checks) = "ok" /\ keyCode = "ok"
  <2> HIDE DEF checks, keyCode
  <2> QED BY <1>2
<1>4. \A i \in 1..10 : checks[i][2] # "ok"
  OBVIOUS
<1>5. checks[5][1]
  <2> HIDE DEF checks
  <2> QED BY <1>1, <1>3, <1>4, OkMeansAllPassed
<1>6. checks[5] = <<e.tokenNonce = n, "nonce_mismatch">>
  OBVIOUS
<1>7. e.tokenNonce = n
  <2> HIDE DEF checks
  <2> QED BY <1>5, <1>6, PassedPair
<1>8. QED
  BY <1>3, <1>7

\* The Play Integrity verifier is unavailable exactly when there is a token that
\* could not be decoded.
LEMMA AndroidUnavailable ==
  ASSUME NEW e, NEW n, NEW anchors
  PROVE  verifyPlayIntegrity(e, n, anchors).code = "verifier_unavailable"
            <=> e.token = "present" /\ e.decode = "throws"
<1> DEFINE checks == <<
            <<e.token = "present", "malformed">>,
            <<e.decode # "throws", "verifier_unavailable">>,
            <<parseIntegrityPayload(e), "malformed">>,
            <<e.requestPackage = "ours", "app_mismatch">>,
            <<e.tokenNonce = n, "nonce_mismatch">>,
            <<e.age >= -Tolerance /\ e.age <= MaxAge, "stale">>,
            <<e.recognition = "PLAY_RECOGNIZED", "app_integrity">>,
            <<e.appPackage \in {"absent", "ours"}, "app_mismatch">>,
            <<e.digest = "ours", "app_mismatch">>,
            <<e.verdicts \cap {"DEVICE", "STRONG"} # {}, "device_integrity">> >>
       keyChecks == <<
        <<parseCertificateChainInput(e), "malformed">>,
        <<verifyCertificateChain(e.chain, anchors), "chain_invalid">>,
        <<findCertificateExtension(e) /\ parseKeyDescription(e), "malformed">>,
        <<e.challenge = n, "nonce_mismatch">>,
        <<jwkToRawPoint(e), "malformed">>,
        <<keyObjectToRawPoint(e) /\ e.attestedKey = "enrolled", "key_mismatch">>,
        <<BootSound(e), "device_integrity">>,
        <<tryParseAttestationApplicationId(e) \in {"absent", "ours"}, "app_mismatch">> >>
       keyCode == IF e.keyAttestation THEN verifyAndroidKeyAttestation(e, n, anchors) ELSE "ok"
<1>1. /\ DOMAIN checks = 1..10 /\ 1..10 \subseteq Nat
      /\ DOMAIN keyChecks = 1..8 /\ 1..8 \subseteq Nat
  OBVIOUS
<1>2. verifyPlayIntegrity(e, n, anchors).code
        = (IF FirstFailure(checks) # "ok" THEN FirstFailure(checks) ELSE keyCode)
  BY DEF verifyPlayIntegrity
<1>3. keyCode = FirstFailure(keyChecks) \/ keyCode = "ok"
  BY DEF verifyAndroidKeyAttestation
<1>4. /\ \A i \in 1..10 : checks[i][2] = "verifier_unavailable" <=> i = 2
      /\ \A i \in 1..8 : keyChecks[i][2] # "verifier_unavailable"
  OBVIOUS
<1>5. FirstFailure(keyChecks) # "verifier_unavailable"
  <2> HIDE DEF keyChecks
  <2> QED BY <1>1, <1>4, FailureIsACheck, OkWhenNoneFails
<1>6. verifyPlayIntegrity(e, n, anchors).code = "verifier_unavailable"
        <=> FirstFailure(checks) = "verifier_unavailable"
  <2> HIDE DEF keyChecks, checks, keyCode
  <2> QED BY <1>2, <1>3, <1>5
<1>7. checks[1] = <<e.token = "present", "malformed">>
      /\ checks[2] = <<e.decode # "throws", "verifier_unavailable">>
  OBVIOUS
<1>8. /\ checks[1][1] <=> e.token = "present"
      /\ checks[2][1] <=> e.decode # "throws"
  BY <1>7
<1>9. ASSUME FirstFailure(checks) = "verifier_unavailable"
      PROVE  checks[1][1] /\ ~checks[2][1]
  <2> HIDE DEF checks
  <2>1. ~checks[2][1]
    BY <1>1, <1>4, <1>9, FailureIsACheck, OkWhenNoneFails
  <2>2. ~checks[1][1] => FirstFailure(checks) = checks[1][2]
    <3>1. 1 \in DOMAIN checks /\ \A i \in DOMAIN checks : ~(i < 1)
      BY <1>1
    <3> QED BY <1>1, <3>1, FirstIsReported
  <2> QED BY <1>4, <1>9, <2>1, <2>2
<1>10. ASSUME checks[1][1], ~checks[2][1]
       PROVE  FirstFailure(checks) = "verifier_unavailable"
  <2> HIDE DEF checks
  <2>1. 2 \in DOMAIN checks /\ \A i \in DOMAIN checks : i < 2 => i = 1
    BY <1>1
  <2>2. FirstFailure(checks) = checks[2][2]
    BY <1>1, <1>10, <2>1, FirstIsReported
  <2> QED BY <1>4, <2>2
<1>11. QED
  <2> HIDE DEF checks
  <2> QED BY <1>6, <1>8, <1>9, <1>10

\* What the App Attest verifier establishes; it is never unavailable.
LEMMA IosProven ==
  ASSUME NEW e, NEW n, NEW anchors
  PROVE  /\ verifyAppAttest(e, n, anchors).code = "ok" =>
              /\ e.certifiedNonce = n /\ e.attestedKey = "enrolled"
              /\ verifyCertificateChain(e.chain, anchors)
         /\ verifyAppAttest(e, n, anchors).code # "verifier_unavailable"
<1> DEFINE checks == <<
        <<e.token = "present", "malformed">>,
        <<decodeAttestationObject(e), "malformed">>,
        <<verifyCertificateChain(e.chain, anchors), "chain_invalid">>,
        <<jwkToRawPoint(e), "malformed">>,
        <<parseNonceExtension(e), "malformed">>,
        <<e.certifiedNonce = n /\ e.attestedKey = "enrolled", "nonce_mismatch">>,
        <<parseAuthenticatorData(e), "malformed">>,
        <<e.credentialId, "key_mismatch">>,
        <<e.rpIdHash = "ours", "app_mismatch">>,
        <<e.signCount = 0, "malformed">>,
        <<e.aaguid \in {"production", "development"}, "malformed">>,
        <<e.aaguid = "production" \/ e.production = "no", "app_integrity">>,
        <<coseKeyToRawPoint(e), "malformed">>,
        <<e.coseKey # "other", "key_mismatch">> >>
<1>1. DOMAIN checks = 1..14 /\ 1..14 \subseteq Nat
  OBVIOUS
<1>2. verifyAppAttest(e, n, anchors).code = FirstFailure(checks)
  BY DEF verifyAppAttest
<1>3. \A i \in 1..14 : checks[i][2] \notin {"ok", "verifier_unavailable"}
  OBVIOUS
<1>4. FirstFailure(checks) # "verifier_unavailable"
  <2> HIDE DEF checks
  <2> QED BY <1>1, <1>3, FailureIsACheck, OkWhenNoneFails
<1>5. FirstFailure(checks) = "ok" => checks[3][1] /\ checks[6][1]
  <2> HIDE DEF checks
  <2> QED BY <1>1, <1>3, OkMeansAllPassed
<1>6. /\ checks[3] = <<verifyCertificateChain(e.chain, anchors), "chain_invalid">>
      /\ checks[6] = <<e.certifiedNonce = n /\ e.attestedKey = "enrolled", "nonce_mismatch">>
  OBVIOUS
<1>7. ASSUME FirstFailure(checks) = "ok" PROVE verifyCertificateChain(e.chain, anchors)
  <2> HIDE DEF checks
  <2> QED BY <1>5, <1>6, <1>7 DEF verifyCertificateChain
<1>8. ASSUME FirstFailure(checks) = "ok" PROVE e.certifiedNonce = n /\ e.attestedKey = "enrolled"
  <2> HIDE DEF checks
  <2> QED BY <1>5, <1>6, <1>8, PassedPair
<1>9. QED
  <2> HIDE DEF checks
  <2> QED BY <1>2, <1>4, <1>7, <1>8, Zenon

\* AL2 on Android needs both levels in hardware.
LEMMA AndroidInHardware ==
  ASSUME NEW e, NEW n, e.platform = "android",
         verifyPlayIntegrity(e, n, PlatformRoots).code = "ok",
         verifyPlayIntegrity(e, n, PlatformRoots).cap = "AL2"
  PROVE  InHardware(e)
<1>1. e.keyAttestation /\ deriveAssuranceCap(keySecurityLevel(e), e.requireStrongBox) = "AL2"
  BY DEF verifyPlayIntegrity, deriveAssuranceCap
<1>2. /\ verifyCertificateChain(e.chain, PlatformRoots)
      /\ e.attestedKey = "enrolled"
      /\ e.attestationLevel \in Nat /\ e.keymasterLevel \in Nat
  BY <1>1, AndroidProven, AndroidKeyProven
<1>3. keySecurityLevel(e) # "software"
  BY <1>1 DEF deriveAssuranceCap
<1>4. e.hardwarePresent /\ e.hardwareOrigin # "imported"
  BY <1>3 DEF keySecurityLevel, Prefer
<1>5. keySecurityLevel(e) = "strongbox" \/ (keySecurityLevel(e) = "trusted-environment" /\ ~e.requireStrongBox)
  BY <1>1 DEF deriveAssuranceCap
<1>6. /\ keySecurityLevel(e) = "strongbox" => RawLevel(e) = 2
      /\ keySecurityLevel(e) = "trusted-environment" => RawLevel(e) = 1
  BY DEF keySecurityLevel
<1>7. RawLevel(e) <= e.attestationLevel /\ RawLevel(e) <= e.keymasterLevel
  BY <1>2 DEF RawLevel
<1>8. RawLevel(e) \in {1, 2} /\ (e.requireStrongBox => RawLevel(e) = 2)
  BY <1>5, <1>6
<1>9. \E l \in {e.attestationLevel, e.keymasterLevel} :
         /\ l \in (IF e.requireStrongBox THEN {2} ELSE {1, 2})
         /\ e.attestationLevel >= l /\ e.keymasterLevel >= l
  <2>1. RawLevel(e) \in {e.attestationLevel, e.keymasterLevel}
    BY DEF RawLevel
  <2>2. RawLevel(e) \in (IF e.requireStrongBox THEN {2} ELSE {1, 2})
    BY <1>8
  <2>3. e.attestationLevel >= RawLevel(e) /\ e.keymasterLevel >= RawLevel(e)
    BY <1>2, <1>7, <1>8
  <2>4. QED BY <2>1, <2>2, <2>3, Zenon
<1>10. QED
  BY <1>1, <1>2, <1>4, <1>9, Zenon DEF InHardware

EnrolStates == [pc : {"idle", "consume", "verify", "nonce", "unasked", "accepted", "rejected", "unavailable"},
                nonceId : Nonces \cup {NoNonce},
                cap : {"none", "AL1", "AL2"}]

\* Past the nonce in strict mode.
Spent(i) == evidence.mode = "strict" /\ enrol[i].pc \in {"verify", "accepted"}

\* The nonce of a request past it is gone, and is its alone.
NonceSpent ==
    \A i \in Enrolments : Spent(i) =>
        /\ evidence.platform # "sim"
        /\ enrol[i].nonceId \in Nonces \ live
        /\ \A j \in Enrolments \ {i} : Spent(j) => enrol[j].nonceId # enrol[i].nonceId

NotSimulated ==
    \A i \in Enrolments : evidence.mode = "strict" /\ enrol[i].pc = "consume" => evidence.platform # "sim"

VerdictSound ==
    \A i \in Enrolments :
        /\ enrol[i].pc = "accepted" /\ evidence.mode = "strict" =>
              /\ Binds(evidence, enrol[i].nonceId)
              /\ enrol[i].cap = "AL2" => InHardware(evidence)
        /\ enrol[i].pc = "unavailable" => Outage(evidence)
        /\ enrol[i].pc \in {"accepted", "rejected"} /\ evidence.mode = "strict" => ~Outage(evidence)

\* The inductive invariant of AttestationService.
AttestInv ==
    /\ enrol \in [Enrolments -> EnrolStates]
    /\ live \subseteq Nonces
    /\ NonceSpent
    /\ NotSimulated
    /\ VerdictSound

\* Nobody has asked yet.
LEMMA AttestInitInv == AttestInit => AttestInv
<1> SUFFICES ASSUME AttestInit PROVE AttestInv
  OBVIOUS
<1>1. enrol = [i \in Enrolments |-> NoEnrolment] /\ live = Nonces
  BY DEF AttestInit
<1>2. enrol \in [Enrolments -> EnrolStates] /\ \A i \in Enrolments : enrol[i].pc = "idle"
  BY <1>1 DEF NoEnrolment, EnrolStates
<1>3. QED
  BY <1>1, <1>2 DEF AttestInv, NonceSpent, NotSimulated, VerdictSound, Spent

\* A request that does not get past the nonce disturbs nobody.
LEMMA StepKeeps ==
  ASSUME AttestInv, NEW i \in Enrolments, NEW s \in EnrolStates,
         enrol' = [enrol EXCEPT ![i] = s], evidence' = evidence,
         live' \subseteq live,
         evidence.mode = "strict" /\ s.pc \in {"consume", "verify", "accepted"} => evidence.platform # "sim",
         evidence.mode = "strict" /\ s.pc \in {"verify", "accepted"} =>
            /\ s.nonceId \in Nonces \ live'
            /\ s.nonceId = enrol[i].nonceId /\ (Spent(i) \/ s.nonceId \in live),
         evidence.mode = "strict" /\ s.pc = "accepted" =>
            Binds(evidence, s.nonceId) /\ (s.cap = "AL2" => InHardware(evidence)),
         s.pc = "unavailable" => Outage(evidence),
         s.pc \in {"accepted", "rejected"} /\ evidence.mode = "strict" => ~Outage(evidence)
  PROVE  AttestInv'
<1>1. enrol' \in [Enrolments -> EnrolStates] /\ live' \subseteq Nonces
  BY DEF AttestInv
<1>2. enrol'[i] = s /\ \A j \in Enrolments : j # i => enrol'[j] = enrol[j]
  BY DEF AttestInv
<1>3. NonceSpent'
  <2> SUFFICES ASSUME NEW a \in Enrolments, Spent(a)'
               PROVE  /\ evidence.platform # "sim"
                      /\ enrol'[a].nonceId \in Nonces \ live'
                      /\ \A b \in Enrolments \ {a} : Spent(b)' => enrol'[b].nonceId # enrol'[a].nonceId
    BY DEF NonceSpent
  <2>1. CASE a = i
    <3>1. evidence.mode = "strict" /\ s.pc \in {"verify", "accepted"}
      BY <1>2, <2>1 DEF Spent
    <3>2. ASSUME NEW b \in Enrolments \ {a}, Spent(b)' PROVE enrol'[b].nonceId # enrol'[a].nonceId
      <4>1. Spent(b) /\ enrol'[b] = enrol[b]
        BY <1>2, <2>1, <3>2 DEF Spent
      <4>2. enrol[b].nonceId \in Nonces \ live /\ (Spent(i) => enrol[b].nonceId # enrol[i].nonceId)
        BY <4>1, <2>1, <3>2 DEF AttestInv, NonceSpent
      <4>3. QED BY <4>1, <4>2, <3>1, <2>1, <1>2
    <3>3. QED BY <3>1, <3>2, <1>2, <2>1
  <2>2. CASE a # i
    <3>1. Spent(a) /\ enrol'[a] = enrol[a]
      BY <1>2, <2>2 DEF Spent
    <3>2. /\ evidence.platform # "sim"
          /\ enrol[a].nonceId \in Nonces \ live
          /\ \A j \in Enrolments \ {a} : Spent(j) => enrol[j].nonceId # enrol[a].nonceId
      BY <3>1 DEF AttestInv, NonceSpent
    <3>3. ASSUME NEW b \in Enrolments \ {a}, Spent(b)' PROVE enrol'[b].nonceId # enrol'[a].nonceId
      <4>1. CASE b = i
        <5>1. evidence.mode = "strict" /\ s.pc \in {"verify", "accepted"}
          BY <1>2, <3>3, <4>1 DEF Spent
        <5>2. QED BY <5>1, <4>1, <3>1, <3>2, <1>2, <3>3
      <4>2. CASE b # i
        <5>1. Spent(b) /\ enrol'[b] = enrol[b]
          BY <1>2, <3>3, <4>2 DEF Spent
        <5>2. QED BY <5>1, <3>1, <3>2, <3>3
      <4>3. QED BY <4>1, <4>2
    <3>4. QED BY <3>1, <3>2, <3>3
  <2>3. QED BY <2>1, <2>2
<1>4. NotSimulated'
  BY <1>2 DEF AttestInv, NotSimulated
<1>5. VerdictSound'
  <2> SUFFICES ASSUME NEW a \in Enrolments
               PROVE  /\ enrol'[a].pc = "accepted" /\ evidence.mode = "strict" =>
                            /\ Binds(evidence, enrol'[a].nonceId)
                            /\ enrol'[a].cap = "AL2" => InHardware(evidence)
                      /\ enrol'[a].pc = "unavailable" => Outage(evidence)
                      /\ enrol'[a].pc \in {"accepted", "rejected"} /\ evidence.mode = "strict" =>
                            ~Outage(evidence)
    BY Zenon DEF VerdictSound, Binds, InHardware, Outage, createAttestationVerifiers, parseTrustAnchors
  <2>1. CASE a = i
    BY <1>2, <2>1
  <2>2. CASE a # i
    BY <1>2, <2>2 DEF AttestInv, VerdictSound
  <2>3. QED BY <2>1, <2>2
<1>6. QED
  BY <1>1, <1>3, <1>4, <1>5 DEF AttestInv

\* What a step of AttestationService.verify concludes has its type.
LEMMA Concluded ==
  ASSUME AttestInv, NEW i \in Enrolments,
         NEW pc \in {"verify", "nonce", "unasked", "accepted", "rejected", "unavailable"},
         NEW cap \in {"none", "AL1", "AL2"}
  PROVE  [pc |-> pc, nonceId |-> enrol[i].nonceId, cap |-> cap] \in EnrolStates
BY DEF AttestInv, EnrolStates

\* A request enters, or fails the checks before the nonce.
LEMMA VerifyKeeps == ASSUME AttestInv, NEW i \in Enrolments, Verify(i) PROVE AttestInv'
<1>1. PICK n \in Nonces \cup {NoNonce} :
        enrol' = [enrol EXCEPT ![i] =
              [pc |-> IF evidence.mode = "mock" \/ (evidence.platform # "sim" /\ n # NoNonce)
                      THEN "consume" ELSE IF evidence.platform = "sim" THEN "rejected" ELSE "nonce",
               nonceId |-> n, cap |-> "none"]]
  BY DEF Verify
<1>2. PICK s : s = [pc |-> IF evidence.mode = "mock" \/ (evidence.platform # "sim" /\ n # NoNonce)
                      THEN "consume" ELSE IF evidence.platform = "sim" THEN "rejected" ELSE "nonce",
               nonceId |-> n, cap |-> "none"]
  OBVIOUS
<1>3. s \in EnrolStates /\ s.pc \in {"consume", "rejected", "nonce"}
  BY <1>2 DEF EnrolStates
<1>4. /\ evidence.mode = "strict" /\ s.pc = "consume" => evidence.platform # "sim"
      /\ s.pc = "rejected" => ~Outage(evidence)
  BY <1>2 DEF Outage
<1>5. enrol' = [enrol EXCEPT ![i] = s] /\ evidence' = evidence /\ live' = live
  BY <1>1, <1>2 DEF Verify
<1>6. QED
  BY <1>3, <1>4, <1>5, StepKeeps

\* GETDEL: a nonce that was live becomes this request's alone.
LEMMA ConsumeKeeps == ASSUME AttestInv, NEW i \in Enrolments, ConsumeNonce(i) PROVE AttestInv'
<1> DEFINE pass == evidence.mode = "mock" \/ enrol[i].nonceId \in live
<1>0. enrol[i] \in EnrolStates /\ live \subseteq Nonces
  BY DEF AttestInv
<1>1. enrol[i].pc = "consume" /\ live' = live \ {enrol[i].nonceId} /\ evidence' = evidence
  BY DEF ConsumeNonce
<1>2. CASE pass
  <2>1. PICK s : s = [pc |-> "verify", nonceId |-> enrol[i].nonceId, cap |-> "none"]
    OBVIOUS
  <2>2. s \in EnrolStates /\ s.pc = "verify" /\ s.nonceId = enrol[i].nonceId
    BY <2>1, Concluded
  <2>3. enrol' = [enrol EXCEPT ![i] = s]
    BY <1>2, <2>1 DEF ConsumeNonce, Conclude
  <2>4. evidence.mode = "strict" => evidence.platform # "sim" /\ s.nonceId \in live
    BY <1>1, <1>2, <2>2 DEF AttestInv, NotSimulated
  <2>5. evidence.mode = "strict" => s.nonceId \in Nonces \ live'
    BY <1>0, <1>1, <2>2, <2>4
  <2>6. QED
    BY <1>1, <2>2, <2>3, <2>4, <2>5, StepKeeps
<1>3. CASE ~pass
  <2>1. PICK s : s = [pc |-> "nonce", nonceId |-> enrol[i].nonceId, cap |-> "none"]
    OBVIOUS
  <2>2. s \in EnrolStates /\ s.pc = "nonce"
    BY <2>1, Concluded
  <2>3. enrol' = [enrol EXCEPT ![i] = s]
    BY <1>3, <2>1 DEF ConsumeNonce, Conclude
  <2>4. QED
    BY <1>1, <2>2, <2>3, StepKeeps
<1>4. QED BY <1>2, <1>3

\* Redis fails: in strict mode the request ends there.
LEMMA StoreFailsKeeps ==
  ASSUME AttestInv, NEW i \in Enrolments, NonceStoreFails(i) PROVE AttestInv'
<1>1. PICK s : s = [pc |-> IF evidence.mode = "mock" THEN "verify" ELSE "unasked",
                    nonceId |-> enrol[i].nonceId, cap |-> "none"]
  OBVIOUS
<1>2. s \in EnrolStates /\ s.pc \in {"verify", "unasked"} /\ (s.pc = "verify" => evidence.mode = "mock")
  BY <1>1, Concluded
<1>3. enrol' = [enrol EXCEPT ![i] = s] /\ evidence' = evidence /\ live' \subseteq live
  BY <1>1 DEF NonceStoreFails, Conclude
<1>4. QED
  BY <1>2, <1>3, StepKeeps

\* The verdict of the platform's verifier, whatever the evidence.
LEMMA StrictKeeps == ASSUME AttestInv, NEW i \in Enrolments, verifyStrict(i) PROVE AttestInv'
<1> DEFINE n == enrol[i].nonceId
           verdict == IF evidence.platform = "android"
                      THEN verifyPlayIntegrity(evidence, n, PlatformRoots)
                      ELSE verifyAppAttest(evidence, n, PlatformRoots)
           out == ~createAttestationVerifiers(evidence) \/ verdict.code = "verifier_unavailable"
<1>1. /\ enrol[i].pc = "verify" /\ evidence.mode = "strict"
      /\ evidence' = evidence /\ live' = live
      /\ IF out THEN Conclude(i, "unavailable", "none")
         ELSE IF verdict.code = "ok" THEN Conclude(i, "accepted", verdict.cap)
         ELSE Conclude(i, "rejected", "none")
  BY DEF verifyStrict
<1>2. Spent(i) /\ evidence.platform # "sim" /\ n \in Nonces \ live
  BY <1>1 DEF AttestInv, NonceSpent, Spent
<1>2b. Outage(evidence) => out
  BY <1>2, AndroidUnavailable DEF Outage
<1>3. CASE out
  <2>1. PICK s : s = [pc |-> "unavailable", nonceId |-> enrol[i].nonceId, cap |-> "none"]
    OBVIOUS
  <2>2. s \in EnrolStates /\ s.pc = "unavailable"
    BY <2>1, Concluded
  <2>3. enrol' = [enrol EXCEPT ![i] = s]
    BY <1>1, <1>3, <2>1 DEF Conclude
  <2>4. Outage(evidence)
    <3>1. CASE ~createAttestationVerifiers(evidence)
      BY <3>1, <1>2 DEF Outage
    <3>2. CASE verdict.code = "verifier_unavailable"
      <4>1. evidence.platform = "android"
        BY <3>2, IosProven
      <4>2. evidence.token = "present" /\ evidence.decode = "throws"
        BY <3>2, <4>1, AndroidUnavailable
      <4>3. QED BY <4>1, <4>2, <1>2 DEF Outage
    <3>3. QED BY <1>3, <3>1, <3>2
  <2>5. QED
    <3> HIDE DEF n, verdict, out
    <3> QED BY <1>1, <2>2, <2>3, <2>4, StepKeeps
<1>4. CASE ~out /\ verdict.code = "ok"
  <2>1. verdict.cap \in {"AL1", "AL2"}
    BY DEF verifyPlayIntegrity, verifyAppAttest, deriveAssuranceCap
  <2>2. PICK s : s = [pc |-> "accepted", nonceId |-> enrol[i].nonceId, cap |-> verdict.cap]
    OBVIOUS
  <2>3. s \in EnrolStates /\ s.pc = "accepted" /\ s.nonceId = n /\ s.cap = verdict.cap
    <3> HIDE DEF verdict
    <3> QED BY <2>1, <2>2, Concluded
  <2>4. enrol' = [enrol EXCEPT ![i] = s]
    <3> HIDE DEF verdict, out
    <3> QED BY <1>1, <1>4, <2>2 DEF Conclude
  <2>5. Binds(evidence, n) /\ (verdict.cap = "AL2" => InHardware(evidence))
    <3>1. CASE evidence.platform = "android"
      <4>1. verifyPlayIntegrity(evidence, n, PlatformRoots).code = "ok"
        BY <1>4, <3>1
      <4>2. /\ evidence.tokenNonce = n
            /\ evidence.keyAttestation => evidence.challenge = n
        BY <4>1, AndroidProven, AndroidKeyProven
      <4>3. verdict.cap = "AL2" => InHardware(evidence)
        BY <3>1, <4>1, AndroidInHardware
      <4>4. QED BY <3>1, <4>2, <4>3 DEF Binds
    <3>2. CASE evidence.platform # "android"
      <4>1. verifyAppAttest(evidence, n, PlatformRoots).code = "ok"
        BY <1>4, <3>2
      <4>2. /\ evidence.certifiedNonce = n /\ evidence.attestedKey = "enrolled"
            /\ verifyCertificateChain(evidence.chain, PlatformRoots)
        BY <4>1, IosProven
      <4>3. QED BY <3>2, <4>2 DEF Binds, InHardware
    <3>3. QED BY <3>1, <3>2
  <2>6. QED
    <3> HIDE DEF n, verdict, out
    <3> QED BY <1>1, <1>2, <1>2b, <1>4, <2>3, <2>4, <2>5, StepKeeps DEF n
<1>5. CASE ~out /\ verdict.code # "ok"
  <2>1. PICK s : s = [pc |-> "rejected", nonceId |-> enrol[i].nonceId, cap |-> "none"]
    OBVIOUS
  <2>2. s \in EnrolStates /\ s.pc = "rejected"
    BY <2>1, Concluded
  <2>3. enrol' = [enrol EXCEPT ![i] = s]
    <3> HIDE DEF verdict, out
    <3> QED BY <1>1, <1>5, <2>1 DEF Conclude
  <2>4. QED
    <3> HIDE DEF n, verdict, out
    <3> QED BY <1>1, <1>2b, <1>5, <2>2, <2>3, StepKeeps
<1>6. QED BY <1>3, <1>4, <1>5

\* Mock mode promises nothing of this.
LEMMA MockKeeps == ASSUME AttestInv, NEW i \in Enrolments, verifyMock(i) PROVE AttestInv'
<1>1. /\ enrol[i].pc = "verify" /\ evidence.mode = "mock" /\ evidence' = evidence /\ live' = live
      /\ \E pc \in {"accepted", "rejected"}, cap \in {"none", "AL1", "AL2"} : Conclude(i, pc, cap)
  BY DEF verifyMock
<1>2. PICK pc \in {"accepted", "rejected"}, cap \in {"none", "AL1", "AL2"} : Conclude(i, pc, cap)
  BY <1>1
<1>3. PICK s : s = [pc |-> pc, nonceId |-> enrol[i].nonceId, cap |-> cap]
  OBVIOUS
<1>4. s \in EnrolStates /\ s.pc \in {"accepted", "rejected"}
  BY <1>3, Concluded
<1>5. enrol' = [enrol EXCEPT ![i] = s]
  BY <1>2, <1>3 DEF Conclude
<1>6. QED
  BY <1>1, <1>4, <1>5, StepKeeps

\* Redis drops a nonce: there are fewer to spend.
LEMMA ExpiryKeeps == ASSUME AttestInv, NonceExpires PROVE AttestInv'
<1>1. evidence' = evidence /\ enrol' = enrol /\ live' \subseteq live
  BY DEF NonceExpires
<1>2. NonceSpent'
  BY <1>1 DEF AttestInv, NonceSpent, Spent
<1>3. NotSimulated'
  BY <1>1 DEF AttestInv, NotSimulated
<1>4. VerdictSound'
  BY <1>1 DEF AttestInv, VerdictSound, Binds, InHardware, Outage, createAttestationVerifiers,
              parseTrustAnchors
<1>5. QED
  BY <1>1, <1>2, <1>3, <1>4 DEF AttestInv

\* A step of somebody else.
LEMMA AttestStutters == ASSUME AttestInv, UNCHANGED attestVars PROVE AttestInv'
<1>1. evidence' = evidence /\ enrol' = enrol /\ live' = live
  BY DEF attestVars
<1>2. VerdictSound'
  BY <1>1 DEF AttestInv, VerdictSound, Binds, InHardware, Outage, createAttestationVerifiers,
              parseTrustAnchors
<1>3. QED
  BY <1>1, <1>2 DEF AttestInv, NonceSpent, NotSimulated, Spent

\* Every step keeps the invariant.
LEMMA AttestNextInv == AttestInv /\ [AttestNext]_attestVars => AttestInv'
<1> SUFFICES ASSUME AttestInv, [AttestNext]_attestVars PROVE AttestInv'
  OBVIOUS
<1>1. ASSUME NEW i \in Enrolments, Verify(i) PROVE AttestInv'
  BY <1>1, VerifyKeeps
<1>2. ASSUME NEW i \in Enrolments, ConsumeNonce(i) PROVE AttestInv'
  BY <1>2, ConsumeKeeps
<1>3. ASSUME NEW i \in Enrolments, verifyStrict(i) PROVE AttestInv'
  BY <1>3, StrictKeeps
<1>4. ASSUME NEW i \in Enrolments, verifyMock(i) PROVE AttestInv'
  BY <1>4, MockKeeps
<1>5. CASE NonceExpires
  BY <1>5, ExpiryKeeps
<1>6. CASE UNCHANGED attestVars
  BY <1>6, AttestStutters
<1>7. ASSUME NEW i \in Enrolments, NonceStoreFails(i) PROVE AttestInv'
  BY <1>7, StoreFailsKeeps
<1>8. QED
  BY <1>1, <1>2, <1>3, <1>4, <1>5, <1>6, <1>7 DEF AttestNext

\* The invariant is strong enough.
LEMMA AttestInvAdmits == AttestInv => AdmittedOnce
<1> SUFFICES ASSUME AttestInv, NEW i \in Enrolments
    PROVE /\ enrol[i].pc = "accepted" /\ evidence.mode = "strict" =>
              /\ Binds(evidence, enrol[i].nonceId)
              /\ enrol[i].cap = "AL2" => InHardware(evidence)
              /\ enrol[i].nonceId \in Nonces \ live
              /\ \A j \in Enrolments \ {i} :
                    enrol[j].pc = "accepted" => enrol[j].nonceId # enrol[i].nonceId
          /\ enrol[i].pc = "unavailable" => Outage(evidence)
          /\ enrol[i].pc \in {"accepted", "rejected"} /\ evidence.mode = "strict" => ~Outage(evidence)
  BY DEF AdmittedOnce
<1>1. QED
  BY DEF AttestInv, NonceSpent, Spent, VerdictSound

\* However many enrolments race for however many nonces, whatever evidence they
\* bring: in strict mode a nonce admits one of them, the evidence admitted is
\* bound to it, AL2 is for the enrolled key proven in hardware, and a request past
\* its nonce is answered 503 exactly when the platform's verdict cannot be had
\* (AttestationService.verify and the verifiers it calls).
THEOREM NonceAdmitsOnce == AttestSpec => []AdmittedOnce
<1>1. AttestInit => AttestInv
  BY AttestInitInv
<1>2. AttestInv /\ [AttestNext]_attestVars => AttestInv'
  BY AttestNextInv
<1>3. AttestInv => AdmittedOnce
  BY AttestInvAdmits
<1>4. QED
  BY <1>1, <1>2, <1>3, PTL DEF AttestSpec

-----------------------------------------------------------------------------
(* The counters: any number of requests, limits, windows and backoffs.     *)

Trips == [pc : {"idle", "expire", "counted", "append"}, count : Nat, at : Nat, life : Nat]
Hits == [at : Nat, life : Nat, count : Nat]

AbuseTyped ==
    /\ kind \in {"hit", "lockout", "anomaly", "probe"}
    /\ clock \in Nat /\ key \in [n : Nat, exp : Nat]
    /\ key.n = 0 => key.exp = 0
    /\ alerted \in Nat /\ rows \in Nat
    /\ req \in [Requests -> Trips]
    /\ born \in Nat /\ passed \in Seq(Hits)
    /\ locked \in Nat /\ died \in BOOLEAN

\* A hit was counted in a life of the counter: this one, where its count is one
\* the counter has passed, or one that was over, a window after it began, when
\* this one, or the next, began.
Counted(t) ==
    /\ t.count >= 1 /\ t.life <= t.at /\ t.at <= clock
    /\ key.n > 0 /\ t.life = born => t.count <= key.n
    /\ key.n > 0 /\ t.life # born => t.at < born /\ t.life + Window <= born
    /\ key.n = 0 => t.at < clock /\ t.life + Window <= clock

Earlier(t, u) == t.life < u.life => t.at < u.life /\ t.life + Window <= u.life

\* Two hits have different counts in one life, or lives that follow each other.
Apart(t, u) ==
    /\ t.life # u.life \/ t.count # u.count
    /\ Earlier(t, u) /\ Earlier(u, t)

InFlight(i) == req[i].pc \in {"expire", "counted"}

CounterAged ==
    key.n > 0 => born <= clock /\ (key.exp # 0 => born + Window <= key.exp)

\* What hit() has counted, and what it let pass.
HitsApart ==
    /\ CounterAged
    /\ \A i \in Requests : InFlight(i) => Counted(req[i])
    /\ \A n \in 1..Len(passed) : Counted(passed[n]) /\ passed[n].count <= Limit
    /\ \A i, j \in Requests : InFlight(i) /\ InFlight(j) /\ i # j => Apart(req[i], req[j])
    /\ \A i \in Requests, n \in 1..Len(passed) : InFlight(i) => Apart(req[i], passed[n])
    /\ \A n, m \in 1..Len(passed) : n # m => Apart(passed[n], passed[m])

NonePassed == kind # "hit" => passed = <<>>

\* Every later EXPIRE of a locked counter moves its end further out.
LockHeld == clock < locked => key.n >= Limit /\ key.exp >= locked

\* A lockout answered for is at most a window long.
LockAhead == locked <= clock + Window

Pending == {i \in Requests : req[i].pc = "append"}

\* The alerts raised, a window apart, bound the rows.
RowsSpaced == Window * (rows + Cardinality(Pending)) <= alerted /\ alerted <= clock + Window

AlertKept == clock < alerted => rows > 0 \/ died \/ Pending # {}

AbuseInv ==
    /\ AbuseTyped
    /\ kind = "hit" => HitsApart
    /\ NonePassed
    /\ LockHeld /\ LockAhead /\ RowsSpaced /\ AlertKept

USE AbuseAssumption

LEMMA QuietTyped ==
    Quiet \in Trips /\ Quiet.pc = "idle" /\ Absent \in [n : Nat, exp : Nat]
    /\ Absent.n = 0 /\ Absent.exp = 0
  BY DEF Quiet, Trips, Absent

\* Two requests' tickets do not depend on who is asked first.
LEMMA ApartSymmetric ==
    ASSUME NEW t, NEW u, Apart(t, u)
    PROVE  Apart(u, t)
  BY DEF Apart

\* In any span of a window's length there are hits of two lives at most.
LEMMA TwoLives ==
    ASSUME NEW a \in Hits, NEW b \in Hits, NEW c \in Hits, NEW from \in Nat,
           Earlier(a, b), Earlier(b, a), Earlier(a, c), Earlier(c, a), Earlier(b, c), Earlier(c, b),
           a.life <= a.at, b.life <= b.at, c.life <= c.at,
           from <= a.at, a.at < from + Window, from <= b.at, b.at < from + Window,
           from <= c.at, c.at < from + Window,
           a.life # b.life, a.life # c.life
    PROVE  b.life = c.life
  BY DEF Hits, Earlier

\* The accepted hits of a span map one to one onto the counts of two lives.
LEMMA SpanBounded ==
    ASSUME AbuseTyped, HitsApart, NEW from \in Nat
    PROVE  Cardinality(Within(from)) <= 2 * Limit
<1> DEFINE S == Within(from)
<1>1. CASE S = {}
  BY <1>1, FS_EmptySet
<1>2. CASE S # {}
  <2>1. PICK o : o \in S
    BY <1>2
  <2> DEFINE f == [n \in S |-> IF passed[n].life = passed[o].life THEN passed[n].count
                               ELSE Limit + passed[n].count]
             T == 1..(2 * Limit)
  <2>2. ASSUME NEW n \in S
        PROVE  /\ n \in 1..Len(passed) /\ passed[n] \in Hits
               /\ passed[n].count \in 1..Limit /\ passed[n].life <= passed[n].at
               /\ from <= passed[n].at /\ passed[n].at < from + Window
    <3>1. n \in 1..Len(passed) /\ passed[n] \in Hits
      BY DEF Within, AbuseTyped
    <3>2. passed[n].count \in Nat
      BY <3>1 DEF Hits
    <3>3. Counted(passed[n]) /\ passed[n].count <= Limit
      BY <3>1 DEF HitsApart
    <3>4. QED BY <3>1, <3>2, <3>3 DEF Counted, Within
  <2>3. f \in [S -> T]
    BY <2>2
  <2>4. ASSUME NEW n \in S, NEW m \in S, f[n] = f[m], n # m
        PROVE  FALSE
    <3>1. Apart(passed[n], passed[m])
      BY <2>2, <2>4 DEF HitsApart
    <3>2. CASE passed[n].life = passed[o].life /\ passed[m].life = passed[o].life
      BY <2>4, <3>1, <3>2 DEF Apart
    <3>3. CASE passed[n].life # passed[o].life /\ passed[m].life # passed[o].life
      <4>1. passed[n].count = passed[m].count
        BY <2>2, <2>4, <3>3
      <4>2. Apart(passed[n], passed[o]) /\ Apart(passed[m], passed[o])
        BY <2>1, <2>2, <3>3 DEF HitsApart
      <4>3. passed[n].life = passed[m].life
        BY <2>1, <2>2, <3>1, <3>3, <4>2, TwoLives DEF Apart
      <4>4. QED BY <3>1, <4>1, <4>3 DEF Apart
    <3>4. CASE (passed[n].life = passed[o].life) # (passed[m].life = passed[o].life)
      BY <2>2, <2>4, <3>4
    <3>5. QED BY <3>2, <3>3, <3>4
  <2>5. f \in Injection(S, T)
    <3> HIDE DEF f
    <3>1. QED BY <2>3, <2>4 DEF Injection, IsInjective
  <2>6. IsFiniteSet(T) /\ Cardinality(T) = 2 * Limit
    BY FS_Interval
  <2> HIDE DEF f, S, T
  <2>7. Cardinality(S) <= Cardinality(T)
    BY <2>5, <2>6, FS_Injection
  <2>8. QED BY <2>6, <2>7 DEF S
<1>3. QED BY <1>1, <1>2

LEMMA AbuseStart ==
    AbuseInit => AbuseInv
<1> SUFFICES ASSUME AbuseInit PROVE AbuseInv
  OBVIOUS
<1>1. AbuseTyped
  <2>1. passed \in Seq(Hits) /\ req \in [Requests -> Trips] /\ key \in [n : Nat, exp : Nat]
    BY QuietTyped DEF AbuseInit
  <2>2. QED BY <2>1, QuietTyped DEF AbuseInit, AbuseTyped
<1>2. \A i \in Requests : req[i].pc = "idle"
  BY QuietTyped DEF AbuseInit
<1>3. Len(passed) = 0 /\ key.n = 0 /\ clock = 0
  BY QuietTyped DEF AbuseInit
<1>4. HitsApart
  BY <1>2, <1>3 DEF HitsApart, InFlight, CounterAged
<1>5. LockHeld /\ LockAhead /\ AlertKept
  BY <1>3 DEF AbuseInit, LockHeld, LockAhead, AlertKept
<1>6. RowsSpaced
  <2>1. Pending = {}
    BY <1>2 DEF Pending
  <2>2. QED BY <2>1, FS_EmptySet DEF AbuseInit, RowsSpaced
<1>7. QED BY <1>1, <1>4, <1>5, <1>6 DEF AbuseInv, NonePassed, AbuseInit

LEMMA ExpireLemma ==
    ASSUME AbuseTyped, NEW seconds \in Nat \ {0}, EXPIRE(seconds)
    PROVE  /\ key' \in [n : Nat, exp : Nat] /\ key'.n = key.n
           /\ key.n > 0 => key'.exp = clock + seconds
           /\ key.n = 0 => key'.exp = 0
<1>1. CASE key.n = 0
  BY <1>1, QuietTyped DEF EXPIRE
<1>2. CASE key.n # 0
  BY <1>2 DEF EXPIRE, AbuseTyped
<1>3. QED BY <1>1, <1>2

\* A lockout lasts a window at least.
LEMMA BackoffLemma ==
    ASSUME NEW count \in Nat, count >= Limit
    PROVE  Backoff(count) \in Nat \ {0} /\ Backoff(count) >= Window
<1> DEFINE e == IF count - Limit < BackoffCap THEN count - Limit ELSE BackoffCap
<1>1. e \in 0..BackoffCap
  OBVIOUS
<1>2. PICK p \in Nat \ {0} : p = 2 ^ e
  BY <1>1
<1>3. Backoff(count) = Window * p
  BY <1>2 DEF Backoff
<1>4. Window * p = Window * (p - 1) + Window /\ Window * (p - 1) \in Nat
  <2>1. p - 1 \in Nat
    OBVIOUS
  <2>2. \A x, y \in Nat : x * y \in Nat
    OBVIOUS
  <2>3. \A x, y \in Nat : x * y + x = x * (y + 1)
    OBVIOUS
  <2>4. QED BY <2>1, <2>2, <2>3
<1>5. QED BY <1>3, <1>4

\* Hits that go on or end, with the counter no younger and no smaller.
LEMMA HitsFrame ==
    ASSUME AbuseTyped, HitsApart, born' = born, passed' = passed, clock' = clock, key'.n = key.n,
           CounterAged',
           \A i \in Requests : InFlight(i)' =>
               /\ InFlight(i)
               /\ req'[i].at = req[i].at /\ req'[i].life = req[i].life /\ req'[i].count = req[i].count
    PROVE  HitsApart'
<1>1. \A i \in Requests : InFlight(i)' => Counted(req[i])'
  BY DEF HitsApart, Counted
<1>2. \A n \in 1..Len(passed') : Counted(passed[n])' /\ passed'[n].count <= Limit
  BY DEF HitsApart, Counted
<1>3. \A i, j \in Requests : InFlight(i)' /\ InFlight(j)' /\ i # j => Apart(req'[i], req'[j])
  BY DEF HitsApart, Apart, Earlier
<1>4. \A i \in Requests, n \in 1..Len(passed') : InFlight(i)' => Apart(req'[i], passed'[n])
  BY DEF HitsApart, Apart, Earlier
<1>5. \A n, m \in 1..Len(passed') : n # m => Apart(passed'[n], passed'[m])
  BY DEF HitsApart
<1>6. QED BY <1>1, <1>2, <1>3, <1>4, <1>5 DEF HitsApart

\* The count of one more hit.
LEMMA AbuseIncr ==
    ASSUME AbuseInv, NEW i \in Requests, Incr(i)
    PROVE  AbuseInv'
<1>0. /\ UNCHANGED <<kind, clock, alerted, rows, passed, locked, died>> /\ AbuseTyped
      /\ req[i] = Quiet
  BY DEF Incr, AbuseInv
<1>1. PICK new \in {0, 1} :
        /\ key.n = 0 \/ kind # "probe" => new = 1
        /\ key' = [key EXCEPT !.n = @ + new]
        /\ req' = [req EXCEPT ![i] =
              [pc |-> IF key.n + new = 1 \/ kind = "probe" THEN "expire" ELSE "counted",
               count |-> key.n + new, at |-> clock, life |-> born']]
  <2>1. CASE kind = "probe" /\ key.n > 0
    <3>1. key.n # 0
      BY <1>0, <2>1 DEF AbuseTyped
    <3>2. (IF kind = "probe" /\ key.n > 0 THEN {0, 1} ELSE {1}) = {0, 1}
      BY <2>1
    <3>3. QED BY <2>1, <3>1, <3>2, Zenon DEF Incr
  <2>2. CASE ~(kind = "probe" /\ key.n > 0)
    BY <1>0, <2>2 DEF Incr, AbuseTyped
  <2>3. QED BY <2>1, <2>2
<1>2. born' = IF kind = "hit" /\ key.n = 0 THEN clock ELSE born
  BY DEF Incr
<1>3. /\ key.n \in Nat /\ key.exp \in Nat /\ clock \in Nat /\ born \in Nat /\ born' \in Nat
      /\ key' = [n |-> key.n + new, exp |-> key.exp]
      /\ key'.n = key.n + new /\ key'.exp = key.exp /\ key'.n >= 1
  BY <1>0, <1>1, <1>2 DEF AbuseTyped
<1> PICK l \in Nat : l = born'
  BY <1>3
<1> DEFINE t == [pc |-> IF key.n + new = 1 \/ kind = "probe" THEN "expire" ELSE "counted",
                 count |-> key.n + new, at |-> clock, life |-> l]
<1>4. t \in Trips /\ t.pc \in {"expire", "counted"} /\ t.count = key.n + new /\ t.at = clock
      /\ t.life = born' /\ (key.n = 0 => t.pc = "expire")
  BY <1>1, <1>3 DEF Trips
<1> HIDE DEF t
<1>5. req' \in [Requests -> Trips] /\ \A j \in Requests : req'[j] = IF j = i THEN t ELSE req[j]
  BY <1>0, <1>1, <1>4 DEF AbuseTyped, t
<1>6. AbuseTyped'
  BY <1>0, <1>3, <1>5 DEF AbuseTyped
<1>7. Pending' = Pending
  BY <1>0, <1>4, <1>5, QuietTyped DEF Pending
<1>8. ASSUME kind = "hit" PROVE HitsApart'
  <2>1. HitsApart /\ new = 1
    BY <1>1, <1>8 DEF AbuseInv
  <2>2. CounterAged'
    BY <1>0, <1>2, <1>3, <1>8, <2>1 DEF HitsApart, CounterAged, AbuseTyped
  <2>3. ASSUME NEW u, u \in Trips \/ u \in Hits, Counted(u)
        PROVE  Counted(u)' /\ Apart(t, u) /\ Apart(u, t)
    <3>1. u.at \in Nat /\ u.life \in Nat /\ u.count \in Nat
      BY <2>3 DEF Trips, Hits
    <3>2. CASE key.n = 0
      <4>1. born' = clock /\ u.at < clock /\ u.life + Window <= clock
        BY <1>2, <1>8, <2>3, <3>2 DEF Counted
      <4>2. QED BY <1>0, <1>3, <1>4, <2>1, <2>3, <3>1, <4>1 DEF Counted, Apart, Earlier
    <3>3. CASE key.n > 0
      <4>1. born' = born
        BY <1>2, <3>3
      <4>2. CASE u.life = born
        BY <1>0, <1>3, <1>4, <2>1, <2>3, <3>1, <3>3, <4>1, <4>2 DEF Counted, Apart, Earlier
      <4>3. CASE u.life # born
        BY <1>0, <1>3, <1>4, <2>1, <2>3, <3>1, <3>3, <4>1, <4>3 DEF Counted, Apart, Earlier
      <4>4. QED BY <4>2, <4>3
    <3>4. QED BY <1>3, <3>2, <3>3
  <2>4. \A u \in Trips : u = t => Counted(u)'
    <3>1. born' <= clock
      BY <1>2, <1>3, <1>8, <2>1 DEF HitsApart, CounterAged
    <3>2. QED BY <1>0, <1>3, <1>4, <3>1 DEF Counted
  <2>5. ~InFlight(i) /\ \A j \in Requests : req[j] \in Trips
    BY <1>0, QuietTyped DEF InFlight, AbuseTyped
  <2>6. \A n \in 1..Len(passed) : passed[n] \in Hits
    BY <1>0 DEF AbuseTyped
  <2>7. \A j \in Requests : j # i => (InFlight(j)' <=> InFlight(j)) /\ req'[j] = req[j]
    BY <1>5 DEF InFlight
  <2>8. \A j \in Requests : InFlight(j)' => Counted(req[j])'
    <3>1. req'[i] \in Trips /\ req'[i] = t
      BY <1>4, <1>5
    <3>2. Counted(req[i])'
      BY <2>4, <3>1 DEF Counted
    <3>3. QED BY <2>1, <2>3, <2>5, <2>7, <3>2 DEF HitsApart, Counted
  <2>9. \A n \in 1..Len(passed') : Counted(passed[n])' /\ passed'[n].count <= Limit
    BY <1>0, <2>1, <2>3, <2>6 DEF HitsApart
  <2>10. \A j, k \in Requests : InFlight(j)' /\ InFlight(k)' /\ j # k => Apart(req'[j], req'[k])
    BY <1>5, <2>1, <2>3, <2>5, <2>7 DEF HitsApart
  <2>11. \A j \in Requests, n \in 1..Len(passed') : InFlight(j)' => Apart(req'[j], passed'[n])
    BY <1>0, <1>5, <2>1, <2>3, <2>6, <2>7 DEF HitsApart
  <2>12. \A n, m \in 1..Len(passed') : n # m => Apart(passed'[n], passed'[m])
    BY <1>0, <2>1 DEF HitsApart
  <2>13. QED BY <2>2, <2>8, <2>9, <2>10, <2>11, <2>12 DEF HitsApart
<1>9. LockHeld'
  BY <1>0, <1>1, <1>3 DEF AbuseInv, LockHeld, AbuseTyped
<1>10. RowsSpaced' /\ AlertKept' /\ LockAhead'
  BY <1>0, <1>7 DEF AbuseInv, RowsSpaced, AlertKept, LockAhead
<1>11. QED BY <1>0, <1>6, <1>8, <1>9, <1>10 DEF AbuseInv, NonePassed

LEMMA TripMoved ==
    ASSUME AbuseTyped, NEW i \in Requests, NEW r \in Trips, req' = [req EXCEPT ![i] = r]
    PROVE  /\ req' \in [Requests -> Trips]
           /\ \A j \in Requests : req'[j] = IF j = i THEN r ELSE req[j]
  BY DEF AbuseTyped

LEMMA TripEnded ==
    ASSUME AbuseTyped, NEW i \in Requests, Finish(i)
    PROVE  /\ req' \in [Requests -> Trips]
           /\ \A j \in Requests : req'[j] = IF j = i THEN Quiet ELSE req[j]
           /\ Pending' = Pending \ {i}
           /\ \A j \in Requests : InFlight(j)' => j # i /\ InFlight(j) /\ req'[j] = req[j]
<1>1. /\ req' \in [Requests -> Trips]
      /\ \A j \in Requests : req'[j] = IF j = i THEN Quiet ELSE req[j]
  BY TripMoved, QuietTyped DEF Finish
<1>2. QED BY <1>1, QuietTyped DEF Pending, InFlight

LEMMA AbuseFirstExpire ==
    ASSUME AbuseInv, NEW i \in Requests, FirstExpire(i)
    PROVE  AbuseInv'
<1>0. /\ UNCHANGED <<kind, clock, alerted, rows, born, passed, locked, died>> /\ AbuseTyped
      /\ req[i].pc = "expire" /\ req[i] \in Trips /\ EXPIRE(Window) /\ clock \in Nat
      /\ key.n \in Nat /\ key.exp \in Nat
  BY DEF FirstExpire, AbuseInv, AbuseTyped
<1>1. /\ key' \in [n : Nat, exp : Nat] /\ key'.n = key.n
      /\ key.n > 0 => key'.exp = clock + Window
      /\ key.n = 0 => key'.exp = 0
  BY <1>0, ExpireLemma
<1>2. PICK r \in Trips :
          /\ r.pc = "counted" /\ r.at = req[i].at /\ r.life = req[i].life
          /\ kind = "hit" => r.count = req[i].count
          /\ req' = [req EXCEPT ![i] = r]
  <2> DEFINE n == IF kind = "probe" THEN key.n ELSE req[i].count
             r == [pc |-> "counted", count |-> n, at |-> req[i].at, life |-> req[i].life]
  <2>1. req' = [req EXCEPT ![i] = [[req[i] EXCEPT !.pc = "counted"] EXCEPT !.count = n]]
    BY <1>0 DEF FirstExpire, AbuseTyped
  <2>2. [req[i] EXCEPT !.pc = "counted"]
           = [pc |-> "counted", count |-> req[i].count, at |-> req[i].at, life |-> req[i].life]
    BY <1>0 DEF Trips
  <2>3. PICK c : c = n
    OBVIOUS
  <2>4. PICK q : q = [pc |-> "counted", count |-> req[i].count, at |-> req[i].at, life |-> req[i].life]
    OBVIOUS
  <2>5. [q EXCEPT !.count = c] = [pc |-> "counted", count |-> c, at |-> req[i].at, life |-> req[i].life]
    BY <2>4
  <2>6. req' = [req EXCEPT ![i] = r]
    BY <2>1, <2>2, <2>3, <2>4, <2>5
  <2>7. r \in Trips
    BY <1>0 DEF Trips
  <2>8. QED BY <2>6, <2>7
<1>3. req' \in [Requests -> Trips] /\ \A j \in Requests : req'[j] = IF j = i THEN r ELSE req[j]
  BY <1>0, <1>2, TripMoved
<1>4. AbuseTyped'
  BY <1>0, <1>1, <1>3 DEF AbuseTyped
<1>5. Pending' = Pending
  BY <1>0, <1>2, <1>3 DEF Pending
<1>6. ASSUME kind = "hit" PROVE HitsApart'
  <2>1. HitsApart
    BY <1>6 DEF AbuseInv
  <2>2. CounterAged'
    BY <1>0, <1>1, <2>1 DEF HitsApart, CounterAged, AbuseTyped
  <2>3. \A j \in Requests : InFlight(j)' =>
               /\ InFlight(j)
               /\ req'[j].at = req[j].at /\ req'[j].life = req[j].life /\ req'[j].count = req[j].count
    BY <1>0, <1>2, <1>3, <1>6 DEF InFlight
  <2>4. QED BY <1>0, <1>1, <2>1, <2>2, <2>3, HitsFrame
<1>7. LockHeld'
  <2> SUFFICES ASSUME clock < locked PROVE key'.n >= Limit /\ key'.exp >= locked
    BY <1>0 DEF LockHeld
  <2>1. key.n >= Limit /\ locked <= clock + Window
    BY DEF AbuseInv, LockHeld, LockAhead
  <2>2. QED BY <1>0, <1>1, <2>1 DEF AbuseTyped
<1>8. RowsSpaced' /\ AlertKept' /\ LockAhead'
  BY <1>0, <1>5 DEF AbuseInv, RowsSpaced, AlertKept, LockAhead
<1>9. QED BY <1>0, <1>4, <1>6, <1>7, <1>8 DEF AbuseInv, NonePassed

\* A hit that passes takes its ticket along.
LEMMA AbuseHit ==
    ASSUME AbuseInv, NEW i \in Requests, hit(i)
    PROVE  AbuseInv'
<1>0. /\ UNCHANGED <<kind, clock, key, alerted, rows, born, locked, died>> /\ AbuseTyped
      /\ kind = "hit" /\ req[i].pc = "counted" /\ req[i] \in Trips /\ Finish(i)
      /\ HitsApart /\ Counted(req[i]) /\ InFlight(i)
  BY DEF hit, AbuseInv, AbuseTyped, HitsApart, InFlight
<1>1. /\ req' \in [Requests -> Trips]
      /\ \A j \in Requests : req'[j] = IF j = i THEN Quiet ELSE req[j]
      /\ Pending' = Pending \ {i}
      /\ \A j \in Requests : InFlight(j)' => j # i /\ InFlight(j) /\ req'[j] = req[j]
  BY <1>0, TripEnded
<1>2. Pending' = Pending
  BY <1>0, <1>1 DEF Pending
<1>3. PICK h \in Hits : h = Hit(req[i]) /\ h.at = req[i].at /\ h.life = req[i].life /\ h.count = req[i].count
  <2>1. req[i].at \in Nat /\ req[i].life \in Nat /\ req[i].count \in Nat
    BY <1>0 DEF Trips
  <2>2. Hit(req[i]) \in Hits
    BY <2>1 DEF Hit, Hits
  <2>3. QED BY <2>2 DEF Hit
<1>4. CounterAged'
  BY <1>0 DEF HitsApart, CounterAged
<1>5. CASE req[i].count > Limit
  <2>1. passed' = passed
    BY <1>5 DEF hit
  <2>2. HitsApart'
    BY <1>0, <1>1, <1>4, <2>1, HitsFrame
  <2>3. AbuseTyped'
    BY <1>0, <1>1, <2>1 DEF AbuseTyped
  <2>4. QED BY <1>0, <1>1, <1>2, <2>2, <2>3
            DEF AbuseInv, NonePassed, LockHeld, LockAhead, RowsSpaced, AlertKept
<1>6. CASE ~(req[i].count > Limit)
  <2> DEFINE N == Len(passed) + 1
  <2>1. passed' = Append(passed, h) /\ passed \in Seq(Hits)
    BY <1>0, <1>3, <1>6 DEF hit, AbuseTyped
  <2>2. /\ passed' \in Seq(Hits) /\ Len(passed') = N /\ passed'[N] = h /\ Len(passed) \in Nat
        /\ \A n \in 1..Len(passed) : passed'[n] = passed[n]
    BY <2>1
  <2>3. h.count <= Limit
    BY <1>0, <1>3, <1>6 DEF Trips
  <2>4. \A n \in 1..Len(passed') : n \in 1..Len(passed) \/ n = N
    BY <2>2
  <2> HIDE DEF N
  <2>5. Counted(h)
    BY <1>0, <1>3 DEF Counted
  <2>6. \A n \in 1..Len(passed') : Counted(passed'[n]) /\ passed'[n].count <= Limit
    BY <1>0, <2>2, <2>3, <2>4, <2>5 DEF HitsApart
  <2>7. \A n \in 1..Len(passed') : Counted(passed[n])' /\ passed'[n].count <= Limit
    BY <1>0, <2>6 DEF Counted
  <2>8. \A j \in Requests : InFlight(j)' => Counted(req[j])'
    BY <1>0, <1>1 DEF HitsApart, Counted
  <2>9. \A j, k \in Requests : InFlight(j)' /\ InFlight(k)' /\ j # k => Apart(req'[j], req'[k])
    BY <1>0, <1>1 DEF HitsApart
  <2>10. \A j \in Requests : InFlight(j) /\ j # i => Apart(req[j], h)
    BY <1>0, <1>3 DEF HitsApart, Apart, Earlier
  <2>11. \A n \in 1..Len(passed) : Apart(h, passed[n]) /\ Apart(passed[n], h)
    BY <1>0, <1>3 DEF HitsApart, Apart, Earlier
  <2>12. \A j \in Requests, n \in 1..Len(passed') : InFlight(j)' => Apart(req'[j], passed'[n])
    BY <1>0, <1>1, <2>2, <2>4, <2>10 DEF HitsApart
  <2>13. \A n, m \in 1..Len(passed') : n # m => Apart(passed'[n], passed'[m])
    BY <1>0, <2>2, <2>4, <2>11 DEF HitsApart
  <2>14. HitsApart'
    BY <1>4, <2>7, <2>8, <2>9, <2>12, <2>13 DEF HitsApart
  <2>15. AbuseTyped'
    BY <1>0, <1>1, <2>2 DEF AbuseTyped
  <2>16. QED BY <1>0, <1>1, <1>2, <2>14, <2>15
            DEF AbuseInv, NonePassed, LockHeld, LockAhead, RowsSpaced, AlertKept
<1>7. QED BY <1>5, <1>6

\* The EXPIRE of a failure never shortens a lockout.
LEMMA AbuseFailure ==
    ASSUME AbuseInv, NEW i \in Requests, recordFailure(i)
    PROVE  AbuseInv'
<1>0. /\ UNCHANGED <<kind, clock, alerted, rows, born, passed, died>> /\ AbuseTyped
      /\ kind = "lockout" /\ req[i].pc = "counted" /\ req[i].count \in Nat /\ Finish(i)
      /\ clock \in Nat /\ locked \in Nat /\ key.n \in Nat /\ key.exp \in Nat
  BY DEF recordFailure, AbuseInv, AbuseTyped, Trips
<1>1. /\ req' \in [Requests -> Trips] /\ Pending' = Pending \ {i}
      /\ \A j \in Requests : req'[j] = IF j = i THEN Quiet ELSE req[j]
  BY <1>0, TripEnded
<1>2. Pending' = Pending
  BY <1>0, <1>1 DEF Pending
<1>3. RowsSpaced' /\ AlertKept'
  BY <1>0, <1>2 DEF AbuseInv, RowsSpaced, AlertKept
<1>4. \A j \in Requests : req[j].pc = "expire" => req'[j].pc = "expire"
  BY <1>0, <1>1
<1>5. CASE req[i].count < Limit
  <2>1. UNCHANGED <<key, locked>>
    BY <1>0, <1>5 DEF recordFailure
  <2>2. AbuseTyped'
    BY <1>0, <1>1, <2>1 DEF AbuseTyped
  <2>3. LockHeld' /\ LockAhead'
    BY <1>0, <1>4, <2>1 DEF AbuseInv, LockHeld, LockAhead
  <2>4. QED BY <1>0, <1>3, <2>2, <2>3 DEF AbuseInv, NonePassed
<1>6. CASE req[i].count >= Limit
  <2>1. PICK b \in Nat \ {0} : b = Backoff(req[i].count) /\ b >= Window
    BY <1>0, <1>6, BackoffLemma
  <2>2. EXPIRE(b) /\ locked' = IF key.n >= Limit THEN clock + Window ELSE locked
    BY <1>0, <1>6, <2>1 DEF recordFailure
  <2>3. /\ key' \in [n : Nat, exp : Nat] /\ key'.n = key.n
        /\ key.n > 0 => key'.exp = clock + b
        /\ key.n = 0 => key'.exp = 0
    BY <1>0, <2>2, ExpireLemma
  <2>4. AbuseTyped'
    BY <1>0, <1>1, <2>2, <2>3 DEF AbuseTyped
  <2>5. LockAhead'
    BY <1>0, <2>2 DEF AbuseInv, LockAhead
  <2>6. LockHeld'
    <3> SUFFICES ASSUME clock < locked' PROVE key'.n >= Limit /\ key'.exp >= locked'
      BY <1>0 DEF LockHeld
    <3>1. key.n >= Limit
      BY <2>2 DEF AbuseInv, LockHeld
    <3>2. QED BY <1>0, <2>1, <2>2, <2>3, <3>1
  <2>7. QED BY <1>0, <1>3, <2>4, <2>5, <2>6 DEF AbuseInv, NonePassed
<1>7. QED BY <1>0, <1>5, <1>6

LEMMA AbuseClear ==
    ASSUME AbuseInv, clearFailures
    PROVE  AbuseInv'
<1>0. /\ UNCHANGED <<kind, clock, alerted, rows, req, born, passed, died>> /\ AbuseTyped
      /\ kind = "lockout" /\ key' = Absent /\ locked' = 0 /\ clock \in Nat
  BY DEF clearFailures, AbuseInv, AbuseTyped
<1>1. AbuseTyped'
  BY <1>0, QuietTyped DEF AbuseTyped
<1>2. LockHeld' /\ LockAhead'
  BY <1>0, QuietTyped DEF LockHeld, LockAhead
<1>3. RowsSpaced' /\ AlertKept'
  BY <1>0 DEF AbuseInv, RowsSpaced, AlertKept, Pending
<1>4. QED BY <1>0, <1>1, <1>2, <1>3 DEF AbuseInv, NonePassed

LEMMA PendingFinite ==
    IsFiniteSet(Pending) /\ Cardinality(Pending) \in Nat
<1>1. Pending \subseteq Requests
  BY DEF Pending
<1>2. QED BY <1>1, FS_Subset, FS_CardinalityType

\* Only one of the requests over the threshold raises the alert of a window.
LEMMA AbuseRaise ==
    ASSUME AbuseInv, NEW i \in Requests, Raise(i)
    PROVE  AbuseInv'
<1>0. /\ UNCHANGED <<kind, clock, key, rows, born, passed, locked, died>> /\ AbuseTyped
      /\ kind # "hit" /\ req[i].pc = "counted" /\ req[i] \in Trips
      /\ clock \in Nat /\ alerted \in Nat /\ rows \in Nat
  BY DEF Raise, AbuseInv, AbuseTyped
<1>1. LockHeld' /\ LockAhead'
  BY <1>0 DEF AbuseInv, LockHeld, LockAhead
<1>2. CASE ~(req[i].count >= Limit /\ clock >= alerted)
  <2>1. Finish(i) /\ UNCHANGED alerted
    BY <1>2 DEF Raise
  <2>2. /\ req' \in [Requests -> Trips] /\ Pending' = Pending \ {i}
        /\ \A j \in Requests : req'[j] = IF j = i THEN Quiet ELSE req[j]
    BY <1>0, <2>1, TripEnded
  <2>3. Pending' = Pending
    BY <1>0, <2>2 DEF Pending
  <2>4. AbuseTyped'
    BY <1>0, <2>1, <2>2 DEF AbuseTyped
  <2>5. RowsSpaced' /\ AlertKept'
    BY <1>0, <2>1, <2>3 DEF AbuseInv, RowsSpaced, AlertKept
  <2>6. QED BY <1>0, <1>1, <2>4, <2>5 DEF AbuseInv, NonePassed
<1>3. CASE req[i].count >= Limit /\ clock >= alerted
  <2>1. alerted' = clock + Window /\ Proceed(i, "append")
    BY <1>3 DEF Raise
  <2>2. PICK r \in Trips : r.pc = "append" /\ req' = [req EXCEPT ![i] = r]
    <3>1. [req[i] EXCEPT !.pc = "append"] \in Trips /\ [req[i] EXCEPT !.pc = "append"].pc = "append"
      BY <1>0 DEF Trips
    <3>2. req' = [req EXCEPT ![i] = [req[i] EXCEPT !.pc = "append"]]
      BY <1>0, <2>1 DEF Proceed, AbuseTyped
    <3>3. QED BY <3>1, <3>2
  <2>3. /\ req' \in [Requests -> Trips]
        /\ \A j \in Requests : req'[j] = IF j = i THEN r ELSE req[j]
    BY <1>0, <2>2, TripMoved
  <2>4. Pending' = Pending \cup {i} /\ i \notin Pending
    BY <1>0, <2>2, <2>3 DEF Pending
  <2>5. PICK c \in Nat : c = Cardinality(Pending) /\ Cardinality(Pending') = c + 1
    BY <2>4, PendingFinite, FS_AddElement
  <2>6. Window * (rows + c) <= alerted
    BY <2>5 DEF AbuseInv, RowsSpaced
  <2>7. Window * (rows + (c + 1)) <= clock + Window
    <3>1. PICK w \in Nat : w = Window * (rows + c)
      BY <1>0
    <3>2. \A x, y \in Nat : x * (y + 1) = x * y + x
      OBVIOUS
    <3>3. rows + (c + 1) = (rows + c) + 1 /\ rows + c \in Nat
      BY <1>0
    <3>4. Window * (rows + (c + 1)) = w + Window
      BY <3>1, <3>2, <3>3
    <3>5. QED BY <1>0, <1>3, <2>6, <3>1, <3>4
  <2>8. RowsSpaced'
    BY <1>0, <2>1, <2>5, <2>7 DEF RowsSpaced
  <2>9. AlertKept'
    BY <2>4 DEF AlertKept
  <2>10. AbuseTyped'
    BY <1>0, <2>1, <2>3 DEF AbuseTyped
  <2>11. QED BY <1>0, <1>1, <2>8, <2>9, <2>10 DEF AbuseInv, NonePassed
<1>4. QED BY <1>2, <1>3

\* A request that is lost, or has written its row or failed to.
LEMMA AbuseEnds ==
    ASSUME AbuseInv, NEW i \in Requests, AppendRow(i) \/ Die(i)
    PROVE  AbuseInv'
<1>0. /\ UNCHANGED <<kind, clock, key, alerted, born, passed, locked>> /\ AbuseTyped /\ Finish(i)
      /\ clock \in Nat /\ alerted \in Nat /\ rows \in Nat /\ died \in BOOLEAN
      /\ \/ rows' = rows + 1 /\ died' = died /\ req[i].pc = "append"
         \/ rows' = rows /\ died' = TRUE
  BY DEF AppendRow, Die, AbuseInv, AbuseTyped
<1>1. /\ req' \in [Requests -> Trips] /\ Pending' = Pending \ {i}
      /\ \A j \in Requests : req'[j] = IF j = i THEN Quiet ELSE req[j]
      /\ \A j \in Requests : InFlight(j)' => j # i /\ InFlight(j) /\ req'[j] = req[j]
  BY <1>0, TripEnded
<1>2. AbuseTyped'
  <2>1. died' \in BOOLEAN
    BY <1>0
  <2>2. rows' \in Nat
    BY <1>0
  <2>3. QED BY <1>0, <1>1, <2>1, <2>2 DEF AbuseTyped
<1>3. LockHeld' /\ LockAhead'
  BY <1>0 DEF AbuseInv, LockHeld, LockAhead
<1>4. ASSUME kind = "hit" PROVE HitsApart'
  <2>1. HitsApart /\ CounterAged'
    BY <1>0, <1>4 DEF AbuseInv, HitsApart, CounterAged
  <2>2. QED BY <1>0, <1>1, <2>1, HitsFrame
<1>5. AlertKept'
  BY <1>0 DEF AlertKept
<1>6. RowsSpaced'
  <2>1. PICK c \in Nat : c = Cardinality(Pending)
    BY PendingFinite
  <2>2. PICK d \in Nat : d = Cardinality(Pending')
    <3>1. IsFiniteSet(Pending')
      BY <1>1, PendingFinite, FS_RemoveElement
    <3>2. QED BY <3>1, FS_CardinalityType
  <2>3. d = IF i \in Pending THEN c - 1 ELSE c
    BY <1>1, <2>1, <2>2, PendingFinite, FS_RemoveElement
  <2>4. rows' \in Nat /\ rows' + d <= rows + c
    BY <1>0, <2>3 DEF Pending
  <2>5. Window * (rows' + d) <= Window * (rows + c)
    <3>1. \A w, x, y \in Nat : x <= y => w * x <= w * y
      OBVIOUS
    <3>2. rows' + d \in Nat /\ rows + c \in Nat
      <4>1. rows \in Nat /\ rows' \in Nat
        BY <1>0, <2>4
      <4>2. \A x, y \in Nat : x + y \in Nat
        OBVIOUS
      <4>3. QED BY <4>1, <4>2, Zenon
    <3>3. QED BY <2>4, <3>1, <3>2
  <2>6. Window * (rows + c) <= alerted /\ alerted <= clock + Window
    BY <2>1 DEF AbuseInv, RowsSpaced
  <2>7. Window * (rows' + d) \in Nat /\ Window * (rows + c) \in Nat
    BY <1>0, <2>4
  <2>8. QED BY <1>0, <2>2, <2>5, <2>6, <2>7 DEF RowsSpaced
<1>7. QED BY <1>0, <1>2, <1>3, <1>4, <1>5, <1>6 DEF AbuseInv, NonePassed

\* The counter dies a window or more after it was born, and the hits of its life
\* are over by then.
LEMMA AbuseTicks ==
    ASSUME AbuseInv, AbuseTick
    PROVE  AbuseInv'
<1>0. /\ UNCHANGED <<kind, alerted, rows, req, born, passed, locked, died>> /\ AbuseTyped
      /\ clock' = clock + 1 /\ key' = IF key.exp = clock + 1 THEN Absent ELSE key
      /\ clock \in Nat /\ alerted \in Nat /\ rows \in Nat /\ locked \in Nat /\ born \in Nat
      /\ key.n \in Nat /\ key.exp \in Nat /\ (key.n = 0 => key.exp = 0)
  BY DEF AbuseTick, AbuseInv, AbuseTyped
<1>1. \/ key' = key /\ key.exp # clock + 1
      \/ key'.n = 0 /\ key'.exp = 0 /\ key.exp = clock + 1 /\ key.n > 0
  BY <1>0, QuietTyped
<1>2. AbuseTyped'
  BY <1>0, QuietTyped DEF AbuseTyped
<1>3. LockHeld' /\ LockAhead'
  BY <1>0, <1>1 DEF AbuseInv, LockHeld, LockAhead
<1>4. AlertKept'
  BY <1>0 DEF AbuseInv, AlertKept, Pending
<1>5. RowsSpaced'
  <2>1. Pending' = Pending
    BY <1>0 DEF Pending
  <2>2. alerted <= clock + Window => alerted <= clock' + Window
    BY <1>0
  <2>3. QED BY <1>0, <2>1, <2>2 DEF AbuseInv, RowsSpaced
<1>6. ASSUME kind = "hit" PROVE HitsApart'
  <2>1. HitsApart
    BY <1>6 DEF AbuseInv
  <2>2. CounterAged'
    BY <1>0, <1>1, <2>1 DEF HitsApart, CounterAged
  <2>3. ASSUME NEW u, u \in Trips \/ u \in Hits, Counted(u) PROVE Counted(u)'
    <3>1. u.at \in Nat /\ u.life \in Nat /\ u.count \in Nat
      BY <2>3 DEF Trips, Hits
    <3>2. QED BY <1>0, <1>1, <2>1, <2>3, <3>1 DEF Counted, HitsApart, CounterAged
  <2>4. \A j \in Requests : req[j] \in Trips
    BY <1>0 DEF AbuseTyped
  <2>5. \A n \in 1..Len(passed) : passed[n] \in Hits
    BY <1>0 DEF AbuseTyped
  <2>6. \A j \in Requests : InFlight(j)' => InFlight(j) /\ Counted(req[j])'
    BY <1>0, <2>1, <2>3, <2>4 DEF HitsApart, InFlight, Counted
  <2>7. \A n \in 1..Len(passed') : Counted(passed[n])' /\ passed'[n].count <= Limit
    BY <1>0, <2>1, <2>3, <2>5 DEF HitsApart, Counted
  <2>8. QED BY <1>0, <2>1, <2>2, <2>6, <2>7 DEF HitsApart
<1>7. QED BY <1>0, <1>2, <1>3, <1>4, <1>5, <1>6 DEF AbuseInv, NonePassed

\* For any number of requests, however their round trips to Redis interleave
\* and wherever processes die: a span of a window lets twice the limit pass at
\* most, a lockout that was reported lasts a window, and a burst writes a row a
\* window at most and its first one unless that append failed (hit,
\* recordFailure, clearFailures, count, raise).
THEOREM AbuseStaysControlled == AbuseSpec => []AbuseControlsHold
<1>1. AbuseInit => AbuseInv
  BY AbuseStart
<1>2. AbuseInv /\ [AbuseNext]_abuseVars => AbuseInv'
  <2>1. ASSUME AbuseInv, UNCHANGED abuseVars PROVE AbuseInv'
    BY <2>1 DEF abuseVars, AbuseInv, NonePassed, AbuseTyped, HitsApart, CounterAged, Counted, InFlight, LockHeld,
                LockAhead, RowsSpaced, AlertKept, Pending
  <2>2. QED
    BY <2>1, AbuseIncr, AbuseFirstExpire, AbuseHit, AbuseFailure, AbuseRaise, AbuseEnds,
       AbuseClear, AbuseTicks
    DEF AbuseNext
<1>3. AbuseInv => AbuseControlsHold
  <2> SUFFICES ASSUME AbuseInv PROVE AbuseControlsHold
    OBVIOUS
  <2>1. HitsBounded
    <3>1. CASE kind = "hit"
      <4>1. AbuseTyped /\ HitsApart /\ \A from \in 0..EndOfTime : from \in Nat
        BY <3>1 DEF AbuseInv
      <4>2. QED BY <4>1, SpanBounded DEF HitsBounded
    <3>2. CASE kind # "hit"
      <4>1. passed = <<>>
        BY <3>2 DEF AbuseInv, NonePassed
      <4>2. \A from : Within(from) = {}
        BY <4>1 DEF Within
      <4>3. QED BY <4>2, FS_EmptySet DEF HitsBounded
    <3>3. QED BY <3>1, <3>2
  <2>2. LockoutLasts
    BY DEF AbuseInv, LockHeld, LockoutLasts, assertNotLockedOut, AbuseTyped
  <2>3. AlertsRecorded
    <3>1. Window * rows <= clock + Window
      <4>1. PICK c \in Nat : c = Cardinality(Pending)
        BY PendingFinite
      <4>2. /\ Window * (rows + c) <= alerted /\ alerted <= clock + Window
            /\ rows \in Nat /\ alerted \in Nat /\ clock \in Nat
        BY <4>1 DEF AbuseInv, RowsSpaced, AbuseTyped
      <4>3. Window * rows <= Window * (rows + c)
        <5>1. \A w, x, y \in Nat : x <= y => w * x <= w * y
          OBVIOUS
        <5>2. rows + c \in Nat /\ rows <= rows + c
          BY <4>2
        <5>3. QED BY <4>2, <5>1, <5>2
      <4>4. Window * (rows + c) \in Nat /\ Window * rows \in Nat
        BY <4>2
      <4>5. QED BY <4>2, <4>3, <4>4
    <3>2. clock < alerted => rows > 0 \/ died \/ \E i \in Requests : req[i].pc = "append"
      BY DEF AbuseInv, AlertKept, Pending
    <3>3. QED BY <3>1, <3>2 DEF AlertsRecorded
  <2>4. QED BY <2>1, <2>2, <2>3 DEF AbuseControlsHold
<1>4. QED BY <1>1, <1>2, <1>3, PTL DEF AbuseSpec

HIDE AbuseAssumption

-----------------------------------------------------------------------------
(* Push: any number of requests, addresses and sessions.                   *)

PushJobs == [pc : {"idle", "register", "remove", "send", "prune", "exchange", "issued", "posted"},
             tok : Addresses \cup {NoAddress}, at : Nat, cred : Int]

PushTyped ==
    /\ side \in {"addresses", "fcm", "apns"}
    /\ hour \in Nat
    /\ binding \in [status : {"active", "revoked"}, token : Addresses \cup {NoAddress}]
    /\ dead \subseteq Addresses
    /\ job \in [Jobs -> PushJobs]
    /\ fcm \in [value : Int, expiresAt : Int]
    /\ apns \in [mintedAt : Int, session : Sessions \cup {NoAddress}]
    /\ sess \in [Sessions -> {"unused", "open", "closed", "gone"}]

\* The requests a side knows, and what the credential of each will still stand:
\* a request is under way for Latency at most.
JobSound(j) ==
    /\ side = "addresses" => j.pc \in {"idle", "register", "remove", "send", "prune"}
    /\ side = "fcm" => j.pc \in {"idle", "exchange", "issued", "posted"}
    /\ side = "apns" => j.pc \in {"idle", "posted"}
    /\ j.pc \in {"exchange", "issued", "posted"} => j.at <= hour /\ hour <= j.at + Latency
    /\ j.pc = "issued" => j.at <= j.cred
    /\ j.pc = "posted" /\ side = "fcm" => j.at + Latency < j.cred + ExpiresIn
    /\ j.pc = "posted" /\ side = "apns" => j.at - j.cred < ProviderTtl
    /\ j.pc = "prune" => j.tok \in dead

\* The cached access token is believed to live no longer than it does.
FcmSound == fcm.expiresAt <= fcm.value + ExpiresIn

PushInv ==
    /\ PushTyped
    /\ \A i \in Jobs : JobSound(job[i])
    /\ FcmSound /\ OneSession

USE PushAssumption

LEMMA NoJobTyped ==
    NoJob \in PushJobs /\ NoJob.pc = "idle"
  BY DEF NoJob, PushJobs

LEMMA NoJobSound ==
    JobSound(NoJob)
  BY DEF NoJob, JobSound

\* A request that moves on.
LEMMA JobMoved ==
    ASSUME PushTyped, NEW i \in Jobs, NEW j \in PushJobs, job' = [job EXCEPT ![i] = j]
    PROVE  /\ job' \in [Jobs -> PushJobs]
           /\ \A k \in Jobs : job'[k] = IF k = i THEN j ELSE job[k]
  BY DEF PushTyped

\* The updates of a request, field by field.
LEMMA JobAddressed ==
    ASSUME NEW r \in PushJobs, NEW v, NEW w
    PROVE  [r EXCEPT !.pc = v, !.tok = w]
              = [pc |-> v, tok |-> w, at |-> r.at, cred |-> r.cred]
<1>1. PICK q : q = [pc |-> v, tok |-> r.tok, at |-> r.at, cred |-> r.cred]
  OBVIOUS
<1>2. q = [r EXCEPT !.pc = v]
  BY <1>1 DEF PushJobs
<1>3. PICK z : z = [pc |-> v, tok |-> w, at |-> r.at, cred |-> r.cred]
  OBVIOUS
<1>4. z = [q EXCEPT !.tok = w]
  BY <1>1, <1>3
<1>5. QED BY <1>2, <1>3, <1>4

LEMMA JobIssued ==
    ASSUME NEW r \in PushJobs, NEW w
    PROVE  [r EXCEPT !.pc = "issued", !.cred = w]
              = [pc |-> "issued", tok |-> r.tok, at |-> r.at, cred |-> w]
<1>1. PICK q : q = [pc |-> "issued", tok |-> r.tok, at |-> r.at, cred |-> r.cred]
  OBVIOUS
<1>2. q = [r EXCEPT !.pc = "issued"]
  BY <1>1 DEF PushJobs
<1>3. PICK z : z = [pc |-> "issued", tok |-> r.tok, at |-> r.at, cred |-> w]
  OBVIOUS
<1>4. z = [q EXCEPT !.cred = w]
  BY <1>1, <1>3
<1>5. QED BY <1>2, <1>3, <1>4

LEMMA JobExchanged ==
    ASSUME NEW r \in PushJobs, NEW w
    PROVE  [r EXCEPT !.pc = "posted", !.at = w]
              = [pc |-> "posted", tok |-> r.tok, at |-> w, cred |-> r.cred]
<1>1. PICK q : q = [pc |-> "posted", tok |-> r.tok, at |-> r.at, cred |-> r.cred]
  OBVIOUS
<1>2. q = [r EXCEPT !.pc = "posted"]
  BY <1>1 DEF PushJobs
<1>3. PICK z : z = [pc |-> "posted", tok |-> r.tok, at |-> w, cred |-> r.cred]
  OBVIOUS
<1>4. z = [q EXCEPT !.at = w]
  BY <1>1, <1>3
<1>5. QED BY <1>2, <1>3, <1>4

LEMMA JobPosted ==
    ASSUME NEW r \in PushJobs, NEW w, NEW x
    PROVE  [r EXCEPT !.pc = "posted", !.at = w, !.cred = x]
              = [pc |-> "posted", tok |-> r.tok, at |-> w, cred |-> x]
<1>1. PICK q : q = [pc |-> "posted", tok |-> r.tok, at |-> r.at, cred |-> r.cred]
  OBVIOUS
<1>2. q = [r EXCEPT !.pc = "posted"]
  BY <1>1 DEF PushJobs
<1>3. PICK z : z = [pc |-> "posted", tok |-> r.tok, at |-> w, cred |-> r.cred]
  OBVIOUS
<1>4. z = [q EXCEPT !.at = w]
  BY <1>1, <1>3
<1>5. PICK y : y = [pc |-> "posted", tok |-> r.tok, at |-> w, cred |-> x]
  OBVIOUS
<1>6. y = [z EXCEPT !.cred = x]
  BY <1>3, <1>5
<1>7. QED BY <1>2, <1>3, <1>4, <1>5, <1>6

LEMMA PushStart ==
    PushInit => PushInv
<1> SUFFICES ASSUME PushInit PROVE PushInv
  OBVIOUS
<1>1. PushTyped
  <2>1. job \in [Jobs -> PushJobs] /\ sess \in [Sessions -> {"unused", "open", "closed", "gone"}]
    BY NoJobTyped DEF PushInit
  <2>2. fcm \in [value : Int, expiresAt : Int]
    BY DEF PushInit
  <2>3. apns \in [mintedAt : Int, session : Sessions \cup {NoAddress}]
    BY DEF PushInit
  <2>4. binding \in [status : {"active", "revoked"}, token : Addresses \cup {NoAddress}]
    BY DEF PushInit
  <2>5. QED BY <2>1, <2>2, <2>3, <2>4 DEF PushInit, PushTyped
<1>2. \A i \in Jobs : JobSound(job[i])
  BY NoJobSound DEF PushInit
<1>3. FcmSound /\ OneSession
  BY DEF PushInit, FcmSound, OneSession
<1>4. QED BY <1>1, <1>2, <1>3 DEF PushInv

\* The steps that only move one request on.
LEMMA PushJobStep ==
    ASSUME PushInv, NEW i \in Jobs, NEW j \in PushJobs, job' = [job EXCEPT ![i] = j],
           UNCHANGED <<side, hour, binding, dead, fcm, apns, sess>>,
           JobSound(j)
    PROVE  PushInv'
<1>1. /\ job' \in [Jobs -> PushJobs]
      /\ \A k \in Jobs : job'[k] = IF k = i THEN j ELSE job[k]
  BY JobMoved DEF PushInv
<1>2. PushTyped'
  BY <1>1 DEF PushInv, PushTyped
<1>3. \A k \in Jobs : JobSound(job'[k])
  BY <1>1 DEF PushInv
<1>4. \A k \in Jobs : JobSound(job[k])'
  BY <1>3 DEF JobSound
<1>5. FcmSound' /\ OneSession'
  BY DEF PushInv, FcmSound, OneSession
<1>6. QED BY <1>2, <1>4, <1>5 DEF PushInv

\* The steps of the addresses that leave the requests alone or end one.
LEMMA PushAddressStep ==
    ASSUME PushInv, job' \in [Jobs -> PushJobs],
           \A k \in Jobs : job'[k] = job[k] \/ job'[k] = NoJob,
           UNCHANGED <<side, hour, fcm, apns, sess>>,
           dead \subseteq dead', binding' \in [status : {"active", "revoked"}, token : Addresses \cup {NoAddress}],
           dead' \subseteq Addresses
    PROVE  PushInv'
<1>1. PushTyped'
  BY DEF PushInv, PushTyped
<1>2. ASSUME NEW k \in Jobs PROVE JobSound(job[k])'
  <2>1. CASE job'[k] = NoJob
    BY <2>1, NoJobTyped DEF JobSound
  <2>2. CASE job'[k] = job[k]
    BY <2>2 DEF JobSound, PushInv
  <2>3. QED BY <2>1, <2>2
<1>3. FcmSound' /\ OneSession'
  BY DEF PushInv, FcmSound, OneSession
<1>4. QED BY <1>1, <1>2, <1>3 DEF PushInv

\* The four writes to the address touch no credential and no session.
LEMMA PushAddressWrites ==
    ASSUME PushInv,
           \/ \E i \in Jobs : registerToken(i) \/ clearToken(i)
           \/ Revoked
           \/ \E t \in Addresses : Retire(t)
    PROVE  PushInv'
<1>1. PushTyped
  BY DEF PushInv
<1>2. ASSUME NEW i \in Jobs, registerToken(i) \/ clearToken(i) PROVE PushInv'
  <2>1. /\ job' \in [Jobs -> PushJobs]
        /\ \A k \in Jobs : job'[k] = IF k = i THEN NoJob ELSE job[k]
    BY <1>1, <1>2, NoJobTyped, JobMoved DEF registerToken, clearToken, JobDone
  <2>2. job[i].tok \in Addresses \cup {NoAddress}
    BY <1>1 DEF PushTyped, PushJobs
  <2>3. /\ binding' \in [status : {"active", "revoked"}, token : Addresses \cup {NoAddress}]
        /\ UNCHANGED <<side, hour, dead, fcm, apns, sess>>
    BY <1>1, <1>2, <2>2 DEF registerToken, clearToken, PushTyped
  <2>4. QED BY <1>1, <2>1, <2>3, PushAddressStep DEF PushTyped
<1>3. CASE Revoked
  BY <1>1, <1>3, PushAddressStep DEF Revoked, PushTyped
<1>4. ASSUME NEW t \in Addresses, Retire(t) PROVE PushInv'
  BY <1>1, <1>4, PushAddressStep DEF Retire, PushTyped
<1>5. QED BY <1>2, <1>3, <1>4

LEMMA PushAddressJobs ==
    ASSUME PushInv, NEW i \in Jobs, PushGuard(i) \/ Wake(i) \/ Deliver(i)
    PROVE  PushInv'
<1>0. /\ UNCHANGED <<side, hour, binding, dead, fcm, apns, sess>>
      /\ PushTyped /\ job[i] \in PushJobs
  BY DEF PushInv, PushTyped, PushGuard, Wake, Deliver
<1>1. ASSUME NEW pc \in {"register", "remove", "send"}, NEW t \in Addresses \cup {NoAddress},
             side = "addresses", job[i] = NoJob,
             job' = [job EXCEPT ![i].pc = pc, ![i].tok = t]
      PROVE  PushInv'
  <2> DEFINE j == [pc |-> pc, tok |-> t, at |-> 0, cred |-> -1]
  <2>1. job' = [job EXCEPT ![i] = j]
    <3>1. job' = [job EXCEPT ![i] = [job[i] EXCEPT !.pc = pc, !.tok = t]]
      BY <1>0, <1>1 DEF PushTyped
    <3>2. [job[i] EXCEPT !.pc = pc, !.tok = t] = j
      <4>1. [job[i] EXCEPT !.pc = pc, !.tok = t] = [pc |-> pc, tok |-> t, at |-> job[i].at, cred |-> job[i].cred]
        BY <1>0, JobAddressed, Zenon
      <4>2. job[i].at = 0 /\ job[i].cred = -1
        BY <1>1 DEF NoJob
      <4>3. QED BY <4>1, <4>2
    <3>3. QED BY <3>1, <3>2
  <2>2. j \in PushJobs
    BY DEF PushJobs
  <2>3. JobSound(j)
    BY <1>1 DEF JobSound
  <2> HIDE DEF j
  <2>4. QED BY <1>0, <2>1, <2>2, <2>3, PushJobStep
<1>2. CASE PushGuard(i)
  <2>1. PICK pc \in {"register", "remove"}, t \in Addresses :
          /\ side = "addresses" /\ job[i] = NoJob /\ binding.status = "active"
          /\ job' = [job EXCEPT ![i].pc = pc, ![i].tok = t]
    BY <1>2 DEF PushGuard
  <2>2. QED BY <1>1, <2>1
<1>3. CASE Wake(i)
  <2>1. binding.token \in Addresses \cup {NoAddress}
    BY <1>0 DEF PushTyped
  <2>2. QED BY <1>1, <1>3, <2>1 DEF Wake
<1>4. CASE Deliver(i)
  <2>1. CASE JobDone(i)
    BY <1>0, <2>1, NoJobTyped, NoJobSound, PushJobStep DEF JobDone
  <2>2. CASE job[i].tok \in dead /\ job' = [job EXCEPT ![i].pc = "prune"]
    <3> DEFINE j == [job[i] EXCEPT !.pc = "prune"]
    <3>1. j \in PushJobs /\ j.pc = "prune" /\ j.tok = job[i].tok
      BY <1>0 DEF PushJobs
    <3>2. job' = [job EXCEPT ![i] = j]
      BY <1>0, <2>2 DEF PushTyped
    <3>3. side = "addresses"
      BY <1>0, <1>4 DEF Deliver, JobAt, PushInv, JobSound, PushTyped
    <3> HIDE DEF j
    <3>4. JobSound(j)
      BY <2>2, <3>1, <3>3 DEF JobSound
    <3>5. QED BY <1>0, <3>1, <3>2, <3>4, PushJobStep
  <2>3. QED BY <1>4, <2>1, <2>2 DEF Deliver
<1>5. QED BY <1>2, <1>3, <1>4

\* A usable token still has more than the skew to live, and a request is under
\* way for less than that; a fresh one has its whole life but the two latencies.
LEMMA PushFcm ==
    ASSUME PushInv, NEW i \in Jobs, FcmSend(i) \/ Exchange(i) \/ Exchanged(i) \/ Replied(i)
    PROVE  PushInv'
<1>0. /\ UNCHANGED <<side, hour, binding, dead, apns, sess>>
      /\ PushTyped /\ job[i] \in PushJobs /\ JobSound(job[i]) /\ hour \in Nat
  BY DEF PushInv, PushTyped, FcmSend, Exchange, Exchanged, Replied
<1>1. CASE FcmSend(i)
  <2> DEFINE j == [pc |-> IF Usable THEN "posted" ELSE "exchange", tok |-> NoAddress, at |-> hour,
                   cred |-> IF Usable THEN fcm.value ELSE -1]
  <2>1. j \in PushJobs
    BY <1>0 DEF PushTyped, PushJobs
  <2>2. job' = [job EXCEPT ![i] = j] /\ UNCHANGED fcm /\ side = "fcm"
    BY <1>1 DEF FcmSend
  <2>3. /\ fcm.value \in Int /\ fcm.expiresAt \in Int /\ fcm.expiresAt <= fcm.value + ExpiresIn
    BY <1>0 DEF PushTyped, PushInv, FcmSound
  <2>4. JobSound(j)
    <3>1. CASE Usable
      BY <1>0, <2>2, <2>3, <3>1 DEF JobSound, Usable
    <3>2. CASE ~Usable
      BY <1>0, <2>2, <3>2 DEF JobSound
    <3>3. QED BY <3>1, <3>2
  <2> HIDE DEF j
  <2>5. QED BY <1>0, <2>1, <2>2, <2>4, PushJobStep
<1>2. CASE Exchange(i)
  <2> DEFINE j == [pc |-> "issued", tok |-> job[i].tok, at |-> job[i].at, cred |-> hour]
  <2>1. j \in PushJobs
    BY <1>0 DEF PushJobs
  <2>2. job' = [job EXCEPT ![i] = j] /\ UNCHANGED fcm /\ job[i].pc = "exchange"
    <3>1. job' = [job EXCEPT ![i] = [job[i] EXCEPT !.pc = "issued", !.cred = hour]]
      BY <1>0, <1>2 DEF PushTyped, Exchange
    <3>2. [job[i] EXCEPT !.pc = "issued", !.cred = hour] = j
      BY <1>0, JobIssued, Zenon
    <3>3. QED BY <1>2, <3>1, <3>2 DEF Exchange, JobAt
  <2>3. JobSound(j)
    BY <1>0, <2>2 DEF JobSound
  <2> HIDE DEF j
  <2>4. QED BY <1>0, <2>1, <2>2, <2>3, PushJobStep
<1>3. CASE Exchanged(i)
  <2> DEFINE j == [pc |-> "posted", tok |-> job[i].tok, at |-> hour, cred |-> job[i].cred]
  <2>1. j \in PushJobs
    BY <1>0 DEF PushJobs
  <2>2. job' = [job EXCEPT ![i] = j] /\ job[i].pc = "issued"
    <3>1. job' = [job EXCEPT ![i] = [job[i] EXCEPT !.pc = "posted", !.at = hour]]
      BY <1>0, <1>3 DEF PushTyped, Exchanged
    <3>2. [job[i] EXCEPT !.pc = "posted", !.at = hour] = j
      BY <1>0, JobExchanged, Zenon
    <3>3. QED BY <1>3, <3>1, <3>2 DEF Exchanged, JobAt
  <2>3. job[i].at \in Nat /\ job[i].cred \in Int
    BY <1>0 DEF PushJobs
  <2>4. side = "fcm" /\ job[i].at <= job[i].cred /\ hour <= job[i].at + Latency
    BY <1>0, <2>2 DEF JobSound, PushTyped
  <2>5. JobSound(j)
    BY <1>0, <2>3, <2>4 DEF JobSound
  <2>6. fcm' = [value |-> job[i].cred, expiresAt |-> job[i].at + ExpiresIn]
    BY <1>3 DEF Exchanged
  <2> HIDE DEF j
  <2>7. /\ job' \in [Jobs -> PushJobs]
        /\ \A k \in Jobs : job'[k] = IF k = i THEN j ELSE job[k]
    BY <1>0, <2>1, <2>2, JobMoved
  <2>8. PushTyped'
    BY <1>0, <2>3, <2>6, <2>7 DEF PushTyped
  <2>9. FcmSound'
    BY <2>3, <2>4, <2>6 DEF FcmSound
  <2>10. ASSUME NEW k \in Jobs PROVE JobSound(job[k])'
    <3>1. JobSound(job'[k])
      BY <2>5, <2>7 DEF PushInv
    <3>2. QED BY <1>0, <3>1 DEF JobSound
  <2>11. OneSession'
    BY <1>0 DEF PushInv, OneSession
  <2>12. QED BY <2>8, <2>9, <2>10, <2>11 DEF PushInv
<1>4. CASE Replied(i)
  BY <1>0, <1>4, NoJobTyped, NoJobSound, PushJobStep DEF Replied, JobDone
<1>5. QED BY <1>1, <1>2, <1>3, <1>4

\* A new session is opened only when the one in use is not open.
LEMMA PushApnsSend ==
    ASSUME PushInv, NEW i \in Jobs, ApnsSend(i)
    PROVE  PushInv'
<1>0. /\ UNCHANGED <<side, hour, binding, dead, fcm>>
      /\ PushTyped /\ hour \in Nat /\ side = "apns"
  BY DEF PushInv, PushTyped, ApnsSend
<1>1. PICK s \in Sessions : /\ s = currentSession
                            /\ \A t \in Sessions : sess[t] = "open" => t = s
  <2>1. CASE Reusable
    BY <1>0, <2>1 DEF Reusable, currentSession, PushTyped, PushInv, OneSession
  <2>2. CASE ~Reusable
    <3>1. currentSession \in Sessions
      BY <2>2 DEF ApnsSend, currentSession
    <3>2. \A t \in Sessions : sess[t] # "open"
      BY <2>2 DEF Reusable, PushInv, OneSession
    <3>3. QED BY <3>1, <3>2
  <2>3. QED BY <2>1, <2>2
<1>2. PICK m \in Int : m = currentToken /\ hour - m < ProviderTtl
  BY <1>0 DEF currentToken, PushTyped
<1>3. /\ apns' = [mintedAt |-> m, session |-> s]
      /\ sess' = [sess EXCEPT ![s] = "open"]
  BY <1>1, <1>2 DEF ApnsSend
<1> DEFINE j == [pc |-> "posted", tok |-> NoAddress, at |-> hour, cred |-> m]
<1>4. job' = [job EXCEPT ![i] = j]
  <2>1. job' = [job EXCEPT ![i] = [NoJob EXCEPT !.pc = "posted", !.at = hour, !.cred = m]]
    BY <1>2 DEF ApnsSend
  <2>2. [NoJob EXCEPT !.pc = "posted", !.at = hour, !.cred = m] = j
    <3>1. [NoJob EXCEPT !.pc = "posted", !.at = hour, !.cred = m]
            = [pc |-> "posted", tok |-> NoJob.tok, at |-> hour, cred |-> m]
      BY NoJobTyped, JobPosted, Zenon
    <3>2. NoJob.tok = NoAddress
      BY DEF NoJob
    <3>3. QED BY <3>1, <3>2
  <2>3. QED BY <2>1, <2>2
<1>5. j \in PushJobs /\ JobSound(j)
  BY <1>0, <1>2 DEF PushJobs, JobSound
<1> HIDE DEF j
<1>6. /\ job' \in [Jobs -> PushJobs]
      /\ \A k \in Jobs : job'[k] = IF k = i THEN j ELSE job[k]
  BY <1>0, <1>4, <1>5, JobMoved
<1>7. PushTyped'
  BY <1>0, <1>3, <1>6 DEF PushTyped
<1>8. ASSUME NEW k \in Jobs PROVE JobSound(job[k])'
  <2>1. JobSound(job'[k])
    BY <1>5, <1>6 DEF PushInv
  <2>2. QED BY <1>0, <2>1 DEF JobSound
<1>9. OneSession'
  BY <1>0, <1>1, <1>3 DEF OneSession, PushTyped
<1>10. FcmSound'
  BY <1>0 DEF PushInv, FcmSound
<1>11. QED BY <1>7, <1>8, <1>9, <1>10 DEF PushInv

LEMMA PushSessions ==
    ASSUME PushInv, NEW s \in Sessions, Goaway(s) \/ SessionEvent(s)
    PROVE  PushInv'
<1>0. /\ UNCHANGED <<side, hour, binding, dead, job, fcm>>
      /\ PushTyped
  BY DEF PushInv, Goaway, SessionEvent
<1>1. PICK how \in {"closed", "gone"} : sess' = [sess EXCEPT ![s] = how]
  BY DEF Goaway, SessionEvent
<1>2. /\ apns' \in [mintedAt : Int, session : Sessions \cup {NoAddress}]
      /\ apns.session # s => apns' = apns
  BY <1>0 DEF Goaway, SessionEvent, PushTyped
<1>3. PushTyped'
  BY <1>0, <1>1, <1>2 DEF PushTyped
<1>4. OneSession'
  BY <1>0, <1>1, <1>2 DEF PushInv, OneSession, PushTyped
<1>5. FcmSound' /\ \A k \in Jobs : JobSound(job[k])'
  BY <1>0 DEF PushInv, FcmSound, JobSound
<1>6. QED BY <1>3, <1>4, <1>5 DEF PushInv

LEMMA PushTicks ==
    ASSUME PushInv, PushTick
    PROVE  PushInv'
<1>0. /\ UNCHANGED <<side, binding, dead, job, fcm, apns, sess>>
      /\ PushTyped /\ hour \in Nat /\ hour' = hour + 1
  BY DEF PushInv, PushTyped, PushTick
<1>1. PushTyped'
  BY <1>0 DEF PushTyped
<1>2. ASSUME NEW k \in Jobs PROVE JobSound(job[k])'
  <2>1. JobSound(job[k]) /\ job[k].at \in Nat /\ job[k].cred \in Int
    BY <1>0 DEF PushInv, PushTyped, PushJobs
  <2>2. job[k].pc # "idle" => hour < job[k].at + Latency
    BY NoJobTyped DEF PushTick
  <2>3. QED BY <1>0, <2>1, <2>2 DEF JobSound
<1>3. FcmSound' /\ OneSession'
  BY <1>0 DEF PushInv, FcmSound, OneSession
<1>4. QED BY <1>1, <1>2, <1>3 DEF PushInv

\* For any number of sends and sessions and any lifetimes of the credentials that
\* leave room for the latency: no request reaches a provider with a credential it
\* no longer accepts, though slower replies overwrite newer tokens, and APNs sees
\* one open session (accessToken, currentToken, currentSession).
THEOREM PushStaysSound == PushSpec => []PushHolds
<1>1. PushInit => PushInv
  BY PushStart
<1>2. PushInv /\ [PushNext]_pushVars => PushInv'
  <2>1. ASSUME PushInv, UNCHANGED pushVars PROVE PushInv'
    BY <2>1 DEF pushVars, PushInv, PushTyped, JobSound, FcmSound, OneSession
  <2>2. QED
    BY <2>1, PushAddressJobs, PushAddressWrites, PushFcm, PushApnsSend, PushSessions, PushTicks
    DEF PushNext
<1>3. PushInv => PushHolds
  <2> SUFFICES ASSUME PushInv, NEW i \in Jobs, JobAt(i, "posted")
               PROVE  IF side = "fcm" THEN hour < job[i].cred + ExpiresIn
                      ELSE hour - job[i].cred < AppleMaxAge
    BY DEF PushInv, PushHolds, CredentialsLive
  <2>1. JobSound(job[i]) /\ job[i].at \in Nat /\ job[i].cred \in Int /\ hour \in Nat
    BY DEF PushInv, PushTyped, PushJobs
  <2>2. side \in {"fcm", "apns"}
    BY <2>1 DEF PushInv, PushTyped, JobSound, JobAt
  <2>3. QED BY <2>1, <2>2 DEF JobSound, JobAt
<1>4. QED BY <1>1, <1>2, <1>3, PTL DEF PushSpec
=============================================================================
