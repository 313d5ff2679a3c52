--------------------------- MODULE IdentityStore ---------------------------
(***************************************************************************)
(* The two Postgres tables every flow of the broker reads: citizens and    *)
(* device_bindings.  The module has no next-state relation of its own.  It *)
(* names the single SQL statements that handlers run against the tables,   *)
(* so that a module modelling a handler can put other handlers' statements *)
(* between them: no handler wraps its statements in a transaction.         *)
(*                                                                         *)
(* A binding row's owner and assurance level are written once, by the      *)
(* INSERT, and never updated; they are constants of the binding's id.      *)
(***************************************************************************)
EXTENDS Naturals

CONSTANTS
    Citizens,       \* citizens.id
    Bindings,       \* device_bindings.id
    CitizenOf,      \* device_bindings.citizen_id
    Level           \* device_bindings.assurance_level

\* The levels AL1, AL2, AL3 by rank (AL_RANK).
ASSURANCE_LEVELS == 1..3

ASSUME OwnerAssumption == CitizenOf \in [Bindings -> Citizens]
ASSUME LevelAssumption == Level \in [Bindings -> ASSURANCE_LEVELS]

VARIABLES
    cstatus,        \* citizens.status
    bstatus,        \* device_bindings.status ("absent": no such row yet)
    stale           \* bindings whose last SDID contact is past the cadence

storeVars == <<cstatus, bstatus, stale>>

CitizenStatus == {"active", "suspended"}
BindingStatus == {"absent", "pending", "active", "revoked"}

StoreTypeOK ==
    /\ cstatus \in [Citizens -> CitizenStatus]
    /\ bstatus \in [Bindings -> BindingStatus]
    /\ stale \subseteq Bindings

alMeets(held, wanted) == held >= wanted

BindingsOf(c) == {b \in Bindings : CitizenOf[b] = c}

ActiveBindingsOf(c) == {b \in BindingsOf(c) : bstatus[b] = "active"}

\* A binding is due when forced, or when its anchor is older than the cadence.
isDue(b, force) == force \/ b \in stale

-----------------------------------------------------------------------------
(* Statements of reassertNow. *)

\* UPDATE citizens SET status = 'suspended' WHERE id = c
SuspendCitizen(c) ==
    /\ cstatus' = [cstatus EXCEPT ![c] = "suspended"]
    /\ UNCHANGED <<bstatus, stale>>

\* UPDATE device_bindings SET status = 'revoked' WHERE citizen_id = c AND
\* status = 'active'
RevokeActiveBindings(c) ==
    /\ bstatus' = [b \in Bindings |->
                     IF b \in ActiveBindingsOf(c) THEN "revoked" ELSE bstatus[b]]
    /\ UNCHANGED <<cstatus, stale>>

\* UPDATE device_bindings SET last_reasserted_at = now WHERE citizen_id = c
\* AND status = 'active'
StampReassertion(c) ==
    /\ stale' = stale \ ActiveBindingsOf(c)
    /\ UNCHANGED <<cstatus, bstatus>>

\* The cadence runs out for a binding: REVERIFY_INTERVAL_SECONDS have passed
\* since its anchor.
CadenceElapses(b) ==
    /\ bstatus[b] = "active"
    /\ b \notin stale
    /\ stale' = stale \cup {b}
    /\ UNCHANGED <<cstatus, bstatus>>

\* UPDATE device_bindings SET status = 'revoked' WHERE id = b
RevokeBinding(b) ==
    /\ bstatus' = [bstatus EXCEPT ![b] = "revoked"]
    /\ UNCHANGED <<cstatus, stale>>
=============================================================================
