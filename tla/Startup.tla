------------------------------ MODULE Startup ------------------------------
(***************************************************************************)
(* From process.env to app.listen (config.ts, main.ts, db/migrate.ts, the  *)
(* guards that read the configured tokens, and the factories that refuse   *)
(* to build).                                                              *)
(*                                                                         *)
(* All replicas of a deployment have one configuration.  They start when   *)
(* they like, die at any moment and are started again, and migrate one     *)
(* database without a lock of their own.                                   *)
(***************************************************************************)
EXTENDS Naturals

CONSTANTS Brokers,
          Files,        \* how many migration files there are
          MaxStarts     \* bound: how often a replica is started

ASSUME FilesAssumption == Files \in Nat /\ MaxStarts \in Nat

VARIABLES config,       \* the environment of the deployment
          boot,         \* replica -> where bootstrap() is
          starts,       \* replica -> times started
          applied,      \* rows of _migrations
          schema        \* file -> times its SQL was committed

startVars == <<config, boot, starts, applied, schema>>
-----------------------------------------------------------------------------
(* Configuration: present holds the settings that are not blank (for       *)
(* IOS_APP_ID, that have the shape <teamId>.<bundleId>).                   *)

KmsSettings == {"KMS_ENDPOINT", "KMS_KEY_GROUP", "KMS_CREDENTIALS"}
HsmSettings == {"HSM_PKCS11_LIBRARY", "HSM_SLOT", "HSM_KEY_LABEL", "HSM_PIN"}
FcmSettings == {"FCM_PROJECT_ID", "FCM_CREDENTIALS_JSON"}
ApnsSettings == {"APNS_TEAM_ID", "APNS_KEY_ID", "APNS_PRIVATE_KEY_P8", "APNS_TOPIC"}
AppSettings == {"ANDROID_PACKAGE_NAME", "ANDROID_CERT_SHA256_DIGESTS",
                "PLAY_INTEGRITY_CREDENTIALS_JSON", "IOS_APP_ID"}

\* A complete production configuration, with an adapter for its key service
\* registered by the deployment.
Complete ==
    [NODE_ENV |-> "production", NID_PEPPER |-> "real", ADMIN_API_TOKEN |-> "admin",
     ATTESTATION_MODE |-> "strict", IOS_ATTESTATION_PRODUCTION |-> TRUE,
     NONCE_TTL |-> "300", KEY_CUSTODY |-> "kms", METRICS_ENABLED |-> TRUE,
     METRICS_TOKEN |-> "scrape", ANOMALY_ENABLED |-> TRUE, ANOMALY_SOURCE_PEPPER |-> "real",
     APNS_PRODUCTION |-> TRUE, SDID_STRATEGY |-> "mock", factory |-> TRUE,
     present |-> AppSettings \cup KmsSettings]

\* What an operator may do differently: another value, settings left out or
\* added.
Edits ==
    { [Complete EXCEPT !.present = @ \ {s}] : s \in AppSettings \cup KmsSettings }
    \cup { [Complete EXCEPT !.present = @ \cup S] :
             S \in {FcmSettings, ApnsSettings} \cup {{s} : s \in FcmSettings \cup ApnsSettings} }
    \cup { [Complete EXCEPT !.present = @ \cup ApnsSettings, !.APNS_PRODUCTION = FALSE] }
    \cup { [Complete EXCEPT !.KEY_CUSTODY = "hsm", !.present = @ \cup S] :
             S \in {HsmSettings, HsmSettings \ {"HSM_PIN"}} }
    \cup { [Complete EXCEPT !.NID_PEPPER = "dev-only"], [Complete EXCEPT !.factory = FALSE],
           [Complete EXCEPT !.ADMIN_API_TOKEN = "dev-admin-token"],
           [Complete EXCEPT !.ATTESTATION_MODE = "mock"],
           [Complete EXCEPT !.IOS_ATTESTATION_PRODUCTION = FALSE],
           [Complete EXCEPT !.NONCE_TTL = "301"],
           [Complete EXCEPT !.KEY_CUSTODY = "postgres-dev"],
           [Complete EXCEPT !.METRICS_ENABLED = FALSE], [Complete EXCEPT !.METRICS_TOKEN = ""],
           [Complete EXCEPT !.METRICS_TOKEN = "admin"], [Complete EXCEPT !.ANOMALY_ENABLED = FALSE],
           [Complete EXCEPT !.ANOMALY_SOURCE_PEPPER = "dev-only"],
           [Complete EXCEPT !.SDID_STRATEGY = "oidc"] }

\* The edits of two of them that differ from Complete in other places.
Both(a, b) ==
    [f \in DOMAIN Complete |->
        IF f = "present" THEN (a[f] \cap b[f]) \cup ((a[f] \cup b[f]) \ Complete[f])
        ELSE IF a[f] # Complete[f] THEN a[f] ELSE b[f]]

Configs == {Complete} \cup { [Both(a, b) EXCEPT !.NODE_ENV = env] :
               a \in Edits, b \in Edits \cup {Complete}, env \in {"production", "development"} }

All(c, S) == S \subseteq c.present
Some(c, S) == S \cap c.present # {}

assertStrictAttestationConfigured(c) == All(c, AppSettings) /\ c.IOS_ATTESTATION_PRODUCTION

assertKeyCustodyConfigured(c) ==
    /\ c.KEY_CUSTODY # "postgres-dev"
    /\ c.KEY_CUSTODY = "kms" => All(c, KmsSettings)
    /\ c.KEY_CUSTODY = "hsm" => All(c, HsmSettings)

assertObservabilityConfigured(c) ==
    /\ c.METRICS_ENABLED => c.METRICS_TOKEN # "" /\ c.METRICS_TOKEN # c.ADMIN_API_TOKEN
    /\ c.ANOMALY_ENABLED => c.ANOMALY_SOURCE_PEPPER # "dev-only"

\* A provider counts as absent unless all of its settings are there.
MutantAssertPushConfigured(c) == All(c, ApnsSettings) => c.APNS_PRODUCTION

assertPushConfigured(c) ==
    /\ Some(c, FcmSettings) => All(c, FcmSettings)
    /\ Some(c, ApnsSettings) => All(c, ApnsSettings) /\ c.APNS_PRODUCTION

\* Whether loadConfig() returns, at its first call.
loadConfig(c) ==
    /\ c.NODE_ENV = "production" =>
         /\ c.NID_PEPPER # "dev-only" /\ c.ADMIN_API_TOKEN # "dev-admin-token"
         /\ c.ATTESTATION_MODE = "strict"
         /\ assertStrictAttestationConfigured(c)
         /\ assertKeyCustodyConfigured(c)
         /\ assertObservabilityConfigured(c)
         /\ assertPushConfigured(c)
    /\ c.ATTESTATION_MODE = "strict" => c.NONCE_TTL = "300"
-----------------------------------------------------------------------------
(* What reads the configuration later.                                     *)

createKmsCustody(c) == All(c, KmsSettings) /\ c.factory

createHsmPkcs11Custody(c) == All(c, HsmSettings) /\ c.factory

\* A boundary that can sign is built; the others refuse when the first key is
\* asked for, while the application is created.
KeyCustodyBuilt(c) ==
    CASE c.KEY_CUSTODY = "kms" -> createKmsCustody(c)
      [] c.KEY_CUSTODY = "hsm" -> createHsmPkcs11Custody(c)
      [] OTHER -> c.NODE_ENV # "production"

\* The broker hands no oidc or proprietary block to createSdidProvider.
SdidProviderBuilt(c) == c.SDID_STRATEGY = "mock"

\* The bearer token is the one configured for the route.
AdminGuard(c, token) == token = c.ADMIN_API_TOKEN

MetricsGuard(c, token) ==
    /\ c.METRICS_ENABLED
    /\ token = IF c.METRICS_TOKEN # "" THEN c.METRICS_TOKEN ELSE c.ADMIN_API_TOKEN
-----------------------------------------------------------------------------
(* bootstrap()                                                             *)

Reached(r, at) == boot[r].at = at
Proceed(r, at, file) == boot' = [boot EXCEPT ![r] = [at |-> at, file |-> file]]

\* bootstrap().catch: process.exit(1).  A transaction that is open is rolled back.
Exit(r) == Proceed(r, "exited", 0)

Load(r) ==
    /\ Reached(r, "start")
    /\ IF loadConfig(config) THEN Proceed(r, "select", 1) ELSE Exit(r)
    /\ UNCHANGED <<config, starts, applied, schema>>

\* The files in lexicographic order; those already in _migrations are skipped.
Select(r) ==
    LET f == boot[r].file IN
    /\ Reached(r, "select")
    /\ CASE f > Files -> Proceed(r, "create", 0)
         [] f <= Files /\ f \in applied -> Proceed(r, "select", f + 1)
         [] OTHER -> Proceed(r, "begin", f)
    /\ UNCHANGED <<config, starts, applied, schema>>

\* The SQL creates tables and columns: it waits while another transaction has
\* created them and fails once that one has committed.
RunSql(r) ==
    LET f == boot[r].file IN
    /\ Reached(r, "begin")
    /\ \A q \in Brokers : ~(Reached(q, "commit") /\ boot[q].file = f)
    /\ IF schema[f] > 0 THEN Exit(r) ELSE Proceed(r, "commit", f)
    /\ UNCHANGED <<config, starts, applied, schema>>

\* INSERT INTO _migrations and COMMIT.
Commit(r) ==
    LET f == boot[r].file IN
    /\ Reached(r, "commit")
    /\ schema' = [schema EXCEPT ![f] = @ + 1]
    /\ applied' = applied \cup {f}
    /\ Proceed(r, "select", f + 1)
    /\ UNCHANGED <<config, starts>>

\* NestFactory.create and app.listen.
Create(r) ==
    /\ Reached(r, "create")
    /\ IF KeyCustodyBuilt(config) /\ SdidProviderBuilt(config)
         THEN Proceed(r, "listening", 0) ELSE Exit(r)
    /\ UNCHANGED <<config, starts, applied, schema>>

\* A query fails, or the process dies.
Dies(r) ==
    /\ boot[r].at \notin {"off", "exited"}
    /\ Exit(r)
    /\ UNCHANGED <<config, starts, applied, schema>>

Start(r) ==
    /\ boot[r].at \in {"off", "exited"} /\ starts[r] < MaxStarts
    /\ Proceed(r, "start", 0)
    /\ starts' = [starts EXCEPT ![r] = @ + 1]
    /\ UNCHANGED <<config, applied, schema>>

\* Nothing is started and the database is empty.
Deployed(c) ==
    /\ config = c
    /\ boot = [r \in Brokers |-> [at |-> "off", file |-> 0]]
    /\ starts = [r \in Brokers |-> 0]
    /\ applied = {}
    /\ schema = [f \in 1..Files |-> 0]

StartInit == \E c \in Configs : Deployed(c)

StartNext ==
    \E r \in Brokers : \/ Start(r) \/ Load(r) \/ Select(r) \/ RunSql(r) \/ Commit(r)
                        \/ Create(r) \/ Dies(r)

StartSpec == StartInit /\ [][StartNext]_startVars
-----------------------------------------------------------------------------
\* Documented (docs/runbook.md, 8): what a production configuration must have.
GuardRails(c) ==
    /\ c.ANOMALY_ENABLED => c.ANOMALY_SOURCE_PEPPER # "dev-only"
    /\ c.NID_PEPPER # "dev-only" /\ c.ADMIN_API_TOKEN # "dev-admin-token"
    /\ c.ATTESTATION_MODE = "strict" /\ c.NONCE_TTL = "300" /\ c.IOS_ATTESTATION_PRODUCTION
    /\ AppSettings \subseteq c.present
    /\ c.KEY_CUSTODY \in {"kms", "hsm"}
    /\ (IF c.KEY_CUSTODY = "kms" THEN KmsSettings ELSE HsmSettings) \subseteq c.present
    /\ \A P \in {FcmSettings, ApnsSettings} : P \cap c.present \in {{}, P}
    /\ ApnsSettings \subseteq c.present => c.APNS_PRODUCTION

\* Documented (docs/runbook.md, 8): a production broker gets past loadConfig()
\* only with the guard rails up, and then no token opens both the metrics and
\* the admin routes.  A broker that listens can sign and finds the whole schema;
\* each migration was committed once, in order and together with its row,
\* however many replicas migrate at once and die (bootstrap, runMigrations).
BootedSafely ==
    /\ \A r \in Brokers :
         /\ config.NODE_ENV = "production" /\ boot[r].at \notin {"off", "start", "exited"} =>
               /\ GuardRails(config)
               /\ \A token \in {config.ADMIN_API_TOKEN, config.METRICS_TOKEN} :
                     ~(AdminGuard(config, token) /\ MetricsGuard(config, token))
         /\ Reached(r, "listening") => KeyCustodyBuilt(config) /\ applied = 1..Files
    /\ \A f \in 1..Files : schema[f] = IF f \in applied THEN 1 ELSE 0
    /\ \E n \in 0..Files : applied = 1..n
=============================================================================
