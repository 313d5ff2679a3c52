--------------------------- MODULE AuthTxnProofs ----------------------------
(*****************************************************************************)
(* Proofs about AuthTxn, for any number of citizens, bindings, relying       *)
(* parties, transactions, challenges, codes and calls in flight: that a      *)
(* transaction pays once and is never undone; then whose it is, who decides  *)
(* it, who is paid for it, what is written before tokens leave, and that the *)
(* handlers implement the contract of AuthTxnSpec.                           *)
(*****************************************************************************)
EXTENDS AuthTxn, TLAPS

USE OwnerAssumption, LevelAssumption, NoneAssumption, RequestableAssumption

\* What the statements on citizens and device_bindings preserve.
LEMMA StoreTyped ==
    ASSUME StoreTypeOK
    PROVE  /\ \A c \in Citizens : SuspendCitizen(c) => StoreTypeOK'
           /\ \A c \in Citizens : RevokeActiveBindings(c) => StoreTypeOK'
           /\ \A c \in Citizens : StampReassertion(c) => StoreTypeOK'
           /\ \A b \in Bindings : CadenceElapses(b) => StoreTypeOK'
           /\ \A b \in Bindings : RevokeBinding(b) => StoreTypeOK'
  BY DEF StoreTypeOK, SuspendCitizen, RevokeActiveBindings, StampReassertion,
         CadenceElapses, RevokeBinding, CitizenStatus, BindingStatus

\* A step that leaves citizens and device_bindings alone keeps their types.
LEMMA StoreSame == StoreTypeOK /\ UNCHANGED storeVars => StoreTypeOK'
  BY DEF StoreTypeOK, storeVars

\* The empty database and an idle broker are well typed.
LEMMA InitTyped == Init => TypeOK
  BY DEF Init, TypeOK, StoreTypeOK, CitizenStatus, BindingStatus, Txn, TxnStatus,
         Challenge, Code, Token, DeviceCall, DevicePcs, RpCall, RpPcs, IdleDevice,
         IdleRp, ASSURANCE_LEVELS

\* A device call moved or ended is still a device call; so for the others.
LEMMA CallsTyped ==
    ASSUME TypeOK
    PROVE  /\ \A i \in DeviceCalls, pc \in DevicePcs :
                 DeviceGoto(i, pc) => dcall' \in [DeviceCalls -> DeviceCall]
           /\ \A i \in DeviceCalls :
                 DeviceReturn(i) => dcall' \in [DeviceCalls -> DeviceCall]
           /\ \A i \in RpCalls, pc \in RpPcs :
                 RpGoto(i, pc) => rcall' \in [RpCalls -> RpCall]
           /\ \A i \in RpCalls : RpReturn(i) => rcall' \in [RpCalls -> RpCall]
  <1> USE DEF TypeOK
  <1>1. ASSUME NEW i \in DeviceCalls, NEW pc \in DevicePcs, DeviceGoto(i, pc)
        PROVE  dcall' \in [DeviceCalls -> DeviceCall]
    BY <1>1 DEF DeviceGoto, DeviceCall
  <1>2. ASSUME NEW i \in DeviceCalls, DeviceReturn(i)
        PROVE  dcall' \in [DeviceCalls -> DeviceCall]
    BY <1>2 DEF DeviceReturn, DeviceCall, IdleDevice, DevicePcs
  <1>3. ASSUME NEW i \in RpCalls, NEW pc \in RpPcs, RpGoto(i, pc)
        PROVE  rcall' \in [RpCalls -> RpCall]
    BY <1>3 DEF RpGoto, RpCall
  <1>4. ASSUME NEW i \in RpCalls, RpReturn(i)
        PROVE  rcall' \in [RpCalls -> RpCall]
    BY <1>4 DEF RpReturn, RpCall, IdleRp, RpPcs, ASSURANCE_LEVELS
  <1> QED BY <1>1, <1>2, <1>3, <1>4

\* A row updated in place keeps its shape (the UPDATE of resolve).
LEMMA TxnRowTyped ==
    ASSUME TypeOK, NEW t \in Txns, NEW s \in TxnStatus, NEW b \in Bindings
    PROVE  [txn EXCEPT ![t].status = s, ![t].by = b] \in [Txns -> Txn]
  <1> DEFINE mid == [txn EXCEPT ![t].status = s]
  <1>1. mid \in [Txns -> Txn]
    BY DEF TypeOK, Txn
  <1>2. [mid EXCEPT ![t].by = b] \in [Txns -> Txn]
    <2> HIDE DEF mid
    <2> QED BY <1>1 DEF Txn
  <1> QED BY <1>2

\* A challenge key that is spent or gone keeps its payload.
LEMMA ChalKeyTyped ==
    ASSUME TypeOK, NEW x \in Challenges, NEW st \in {"spent", "gone"}
    PROVE  [chal EXCEPT ![x].st = st] \in [Challenges -> Challenge]
  BY DEF TypeOK, Challenge

\* A relying-party call that learns its transaction on the way.
LEMMA RpTxnTyped ==
    ASSUME TypeOK, NEW i \in RpCalls, NEW pc \in RpPcs, NEW t \in Txns
    PROVE  [rcall EXCEPT ![i].pc = pc, ![i].txn = t] \in [RpCalls -> RpCall]
  <1> DEFINE mid == [rcall EXCEPT ![i].pc = pc]
  <1>1. mid \in [RpCalls -> RpCall]
    BY DEF TypeOK, RpCall
  <1>2. [mid EXCEPT ![i].txn = t] \in [RpCalls -> RpCall]
    <2> HIDE DEF mid
    <2> QED BY <1>1 DEF RpCall
  <1> QED BY <1>2

\* A pull that learns, and then works off, the transactions it lists.
LEMMA TodoTyped ==
    ASSUME TypeOK, NEW i \in DeviceCalls, NEW S \in SUBSET Txns
    PROVE  /\ [dcall EXCEPT ![i].pc = "issue", ![i].todo = S] \in [DeviceCalls -> DeviceCall]
           /\ [dcall EXCEPT ![i].todo = S] \in [DeviceCalls -> DeviceCall]
  <1> DEFINE mid == [dcall EXCEPT ![i].pc = "issue"]
  <1>1. mid \in [DeviceCalls -> DeviceCall]
    BY DEF TypeOK, DeviceCall, DevicePcs
  <1>2. [mid EXCEPT ![i].todo = S] \in [DeviceCalls -> DeviceCall]
    <2> HIDE DEF mid
    <2> QED BY <1>1 DEF DeviceCall
  <1>3. [dcall EXCEPT ![i].todo = S] \in [DeviceCalls -> DeviceCall]
    BY DEF TypeOK, DeviceCall
  <1> QED BY <1>2, <1>3

\* A transaction's status moves without disturbing the row (expire, consume).
LEMMA StatusTyped ==
    ASSUME TypeOK, NEW t \in Txns, NEW s \in TxnStatus
    PROVE  [txn EXCEPT ![t].status = s] \in [Txns -> Txn]
  BY DEF TypeOK, Txn

\* Every step keeps the type invariant, one case per awaited call of the handlers.
LEMMA TypeStep == TypeOK /\ CallShape /\ [Next]_vars => TypeOK'
  <1> SUFFICES ASSUME TypeOK, CallShape, [Next]_vars PROVE TypeOK'
    OBVIOUS
  <1> USE DEF vars, world, ledger, txnVars
  <1>dev. ASSUME NEW i \in DeviceCalls, DeviceRequest(i) \/ DeviceStep(i) \/ DeviceAbort(i)
    PROVE  TypeOK'
    <2>1. ASSUME NEW b \in Bindings, Pending(i, b)
          PROVE  TypeOK'
      BY <2>1, CallsTyped, StoreSame DEF TypeOK, Pending, DeviceCall, DevicePcs, DeviceStart
    <2>2. ASSUME NEW b \in Bindings, NEW t \in Txns, NEW x \in Challenges,
                NEW dec \in {"approve", "deny"}, Decision(i, b, t, x, dec)
          PROVE  TypeOK'
      BY <2>2, CallsTyped, StoreSame DEF TypeOK, Decision, DeviceCall, DevicePcs, DeviceStart
    <2>3. CASE PendingList(i)
      <3> OpenFor(dcall[i].dev) \in SUBSET Txns
        BY DEF OpenFor
      <3> dcall' \in [DeviceCalls -> DeviceCall]
        <4>1. [dcall EXCEPT ![i].pc = "issue", ![i].todo = OpenFor(dcall[i].dev)]
                \in [DeviceCalls -> DeviceCall]
          BY TodoTyped
        <4>2. DeviceReturn(i) => dcall' \in [DeviceCalls -> DeviceCall]
          BY CallsTyped
        <4> QED BY <2>3, <4>1, <4>2 DEF PendingList
      <3> QED BY <2>3, StoreSame DEF TypeOK, PendingList
    <2>4. ASSUME NEW t \in Txns, NEW x \in Challenges, IssueCiba(i, t, x)
          PROVE  TypeOK'
      <3> dcall[i].todo \ {t} \in SUBSET Txns /\ dcall[i].dev \in Bindings
        BY <2>4 DEF TypeOK, DeviceCall, IssueCiba, CallShape, DeviceShape
      <3> [dcall EXCEPT ![i].todo = @ \ {t}] \in [DeviceCalls -> DeviceCall]
        BY TodoTyped DEF TypeOK
      <3> dcall' \in [DeviceCalls -> DeviceCall]
        BY <2>4, CallsTyped DEF IssueCiba
      <3> chal' \in [Challenges -> Challenge]
        BY <2>4 DEF IssueCiba, TypeOK, Challenge
      <3> QED BY <2>4, StoreSame DEF TypeOK, IssueCiba
    <2>5. CASE DecisionRead(i)
      BY <2>5, CallsTyped, StoreSame DEF TypeOK, DecisionRead, DevicePcs
    <2>6. CASE DecisionBinding(i)
      BY <2>6, CallsTyped, StoreSame DEF TypeOK, DecisionBinding, DevicePcs
    <2>7. CASE ReassertRead(i)
      BY <2>7, CallsTyped, StoreSame DEF TypeOK, ReassertRead, DevicePcs
    <2>8. CASE ReassertSdid(i)
      BY <2>8, CallsTyped, StoreSame DEF TypeOK, ReassertSdid, DevicePcs
    <2>9. CASE ReassertSuspend(i)
      BY <2>9, CallsTyped, StoreTyped DEF TypeOK, ReassertSuspend, DevicePcs, DeviceCall, CallShape, DeviceShape
    <2>10. CASE ReassertRevoke(i)
      BY <2>10, CallsTyped, StoreTyped DEF TypeOK, ReassertRevoke, DeviceCall, CallShape, DeviceShape
    <2>11. CASE ReassertStamp(i)
      BY <2>11, CallsTyped, StoreTyped DEF TypeOK, ReassertStamp, DevicePcs, DeviceCall, CallShape, DeviceShape
    <2>12. CASE ConsumeCiba(i)
      <3> dcall[i].ch \in Challenges
        BY <2>12 DEF ConsumeCiba, CallShape, DeviceShape, DecidePcs
      <3> QED
        <4> chal' \in [Challenges -> Challenge]
          <5>1. /\ [chal EXCEPT ![dcall[i].ch].st = "spent"] \in [Challenges -> Challenge]
                /\ [chal EXCEPT ![dcall[i].ch].st = "gone"] \in [Challenges -> Challenge]
            BY ChalKeyTyped
          <5>2. \/ chal' = [chal EXCEPT ![dcall[i].ch].st = "spent"]
                \/ chal' = [chal EXCEPT ![dcall[i].ch].st = "gone"]
                \/ chal' = chal
            BY <2>12 DEF ConsumeCiba
          <5> QED BY <5>1, <5>2 DEF TypeOK
        <4> dcall' \in [DeviceCalls -> DeviceCall]
          BY <2>12, CallsTyped DEF ConsumeCiba, DevicePcs
        <4> QED BY <2>12, StoreSame DEF TypeOK, ConsumeCiba
    <2>13. CASE DecisionResolve(i)
      <3> dcall[i].txn \in Txns /\ dcall[i].dev \in Bindings
        BY <2>13 DEF DecisionResolve, CallShape, DeviceShape, DecidePcs
      <3> txn' \in [Txns -> Txn]
        BY <2>13, TxnRowTyped DEF TypeOK, DecisionResolve, Resolve, TxnStatus
      <3> QED
        BY <2>13, CallsTyped, StoreSame DEF TypeOK, DecisionResolve, DevicePcs
    <2>14. CASE DecisionAudit(i)
      BY <2>14, CallsTyped, StoreSame DEF TypeOK, DecisionAudit, Record, Event, DeviceCall, CallShape, DeviceShape, DecidePcs
    <2>15. CASE DeviceAbort(i)
      BY <2>15, CallsTyped, StoreSame DEF TypeOK, DeviceAbort
    <2> QED BY <1>dev, <2>1, <2>2, <2>3, <2>4, <2>5, <2>6, <2>7, <2>8, <2>9, <2>10, <2>11, <2>12, <2>13, <2>14, <2>15 DEF DeviceRequest, DeviceStep
  <1>rp. ASSUME NEW i \in RpCalls, RpRequest(i) \/ RpStep(i) \/ RpAbort(i)
    PROVE  TypeOK'
    <2>1. ASSUME NEW r \in Rps, NEW c \in Citizens, NEW al \in RequestableALs, BcAuthorize(i, r, c, al)
          PROVE  TypeOK'
      BY <2>1, CallsTyped, StoreSame DEF TypeOK, BcAuthorize, RpCall, RpPcs, RpStart
    <2>2. ASSUME NEW t \in Txns, BcInsert(i, t)
          PROVE  TypeOK'
      BY <2>2, CallsTyped, StoreSame DEF TypeOK, BcInsert, InsertTxn, RpCall, Txn, TxnStatus, CallShape, RpShape, OpenPcs
    <2>3. ASSUME NEW r \in Rps, NEW c \in Citizens, NEW al \in RequestableALs, Authorize(i, r, c, al)
          PROVE  TypeOK'
      BY <2>3, CallsTyped, StoreSame DEF TypeOK, Authorize, RpCall, RpPcs, RpStart
    <2>4. ASSUME NEW t \in Txns, AuthorizeInsert(i, t)
          PROVE  TypeOK'
      <3> rcall' \in [RpCalls -> RpCall]
        BY <2>4, RpTxnTyped DEF AuthorizeInsert, RpPcs
      <3> txn' \in [Txns -> Txn]
        BY <2>4 DEF TypeOK, AuthorizeInsert, InsertTxn, RpCall, Txn, TxnStatus
      <3> QED BY <2>4, StoreSame DEF TypeOK, AuthorizeInsert
    <2>5. CASE AuthorizeStash(i)
      BY <2>5, CallsTyped, StoreSame DEF TypeOK, AuthorizeStash, RpCall, CallShape, RpShape, TxnPcs, RpPcs, OpenPcs
    <2>6. ASSUME NEW r \in Rps, NEW t \in Txns, CibaGrant(i, r, t)
          PROVE  TypeOK'
      BY <2>6, CallsTyped, StoreSame DEF TypeOK, CibaGrant, RpCall, RpPcs, RpStart, ASSURANCE_LEVELS
    <2>7. CASE CibaGrantRead(i)
      BY <2>7, CallsTyped, StoreSame DEF TypeOK, CibaGrantRead, RpPcs
    <2>8. CASE CibaGrantExpire(i)
      BY <2>8, CallsTyped, StoreSame DEF TypeOK, CibaGrantExpire, RpPcs, Txn, TxnStatus
    <2>9. CASE CibaGrantAuditExpired(i)
      BY <2>9, CallsTyped, StoreSame DEF TypeOK, CibaGrantAuditExpired, Record, Event, RpCall
    <2>10. CASE CibaGrantConsume(i)
      <3> rcall[i].txn \in Txns
        BY <2>10 DEF CibaGrantConsume, CallShape, RpShape, TxnPcs, RpPcs, OpenPcs
      <3> txn' \in [Txns -> Txn]
        <4>1. [txn EXCEPT ![rcall[i].txn].status = "consumed"] \in [Txns -> Txn]
          BY StatusTyped DEF TxnStatus
        <4>2. txn' = [txn EXCEPT ![rcall[i].txn].status = "consumed"] \/ txn' = txn
          BY <2>10 DEF CibaGrantConsume, ConsumeTxn
        <4> QED BY <4>1, <4>2 DEF TypeOK
      <3> rcall' \in [RpCalls -> RpCall]
        BY <2>10, CallsTyped DEF CibaGrantConsume, ConsumeTxn, RpPcs
      <3> QED BY <2>10, StoreSame DEF TypeOK, CibaGrantConsume
    <2>11. ASSUME NEW j \in Jtis, CibaGrantMint(i, j)
          PROVE  TypeOK'
      BY <2>11, CallsTyped, StoreSame DEF TypeOK, CibaGrantMint, Mint, RpPcs, RpCall, Token
    <2>12. CASE CibaGrantConsent(i)
      BY <2>12, CallsTyped, StoreSame DEF TypeOK, CibaGrantConsent, RpPcs, RpCall, CallShape, RpShape, TxnPcs, OpenPcs
    <2>13. CASE CibaGrantAuditConsent(i)
      BY <2>13, CallsTyped, StoreSame DEF TypeOK, CibaGrantAuditConsent, Record, Event, RpPcs, RpCall
    <2>14. CASE CibaGrantAudit(i)
      BY <2>14, CallsTyped, StoreSame DEF TypeOK, CibaGrantAudit, Record, Event, Release, RpPcs, Txn, CallShape, RpShape, TxnPcs, OpenPcs
    <2>15. ASSUME NEW t \in Txns, AuthorizePoll(i, t)
          PROVE  TypeOK'
      BY <2>15, CallsTyped, StoreSame DEF TypeOK, AuthorizePoll, RpCall, RpPcs, RpStart, ASSURANCE_LEVELS
    <2>16. CASE PollStash(i)
      BY <2>16, CallsTyped, StoreSame DEF TypeOK, PollStash, RpPcs
    <2>17. CASE PollConsume(i)
      <3> rcall[i].txn \in Txns
        BY <2>17 DEF PollConsume, CallShape, RpShape, TxnPcs, RpPcs, OpenPcs
      <3> txn' \in [Txns -> Txn]
        <4>1. [txn EXCEPT ![rcall[i].txn].status = "consumed"] \in [Txns -> Txn]
          BY StatusTyped DEF TxnStatus
        <4>2. txn' = [txn EXCEPT ![rcall[i].txn].status = "consumed"] \/ txn' = txn
          BY <2>17 DEF PollConsume, ConsumeTxn
        <4> QED BY <4>1, <4>2 DEF TypeOK
      <3> rcall' \in [RpCalls -> RpCall]
        BY <2>17, CallsTyped DEF PollConsume, ConsumeTxn, RpPcs
      <3> QED BY <2>17, StoreSame DEF TypeOK, PollConsume
    <2>18. ASSUME NEW k \in Codes, PollInsert(i, k)
          PROVE  TypeOK'
      BY <2>18, CallsTyped, StoreSame DEF TypeOK, PollInsert, RpPcs, RpCall, Code
    <2>19. CASE PollDelStash(i)
      BY <2>19, CallsTyped, StoreSame DEF TypeOK, PollDelStash, RpPcs
    <2>20. CASE PollAudit(i)
      BY <2>20, CallsTyped, StoreSame DEF TypeOK, PollAudit, Record, Event, RpPcs, Txn, CallShape, RpShape, TxnPcs, OpenPcs
    <2>21. ASSUME NEW r \in Rps, NEW k \in Codes, CodeGrant(i, r, k)
          PROVE  TypeOK'
      BY <2>21, CallsTyped, StoreSame DEF TypeOK, CodeGrant, RpCall, RpPcs, RpStart, ASSURANCE_LEVELS
    <2>22. CASE CodeGrantRead(i)
      <3>1. CASE RpReturn(i)
        BY <2>22, <3>1, CallsTyped, StoreSame DEF TypeOK, CodeGrantRead
      <3>2. CASE CodeValid(rcall[i].code, rcall[i].rp)
        <4>1. code[rcall[i].code].txn \in Txns
          BY <2>22, <3>2 DEF CodeGrantRead, CodeValid, CallShape, CodeShape, RpShape, CodePcs
        <4>2. rcall' \in [RpCalls -> RpCall]
          <5>1. [rcall EXCEPT ![i].pc = "cConsume", ![i].txn = code[rcall[i].code].txn]
                  \in [RpCalls -> RpCall]
            BY <4>1, RpTxnTyped DEF RpPcs
          <5> QED BY <2>22, <3>2, <5>1 DEF CodeGrantRead
        <4> QED BY <2>22, <4>2, StoreSame DEF TypeOK, CodeGrantRead
      <3> QED BY <2>22, <3>1, <3>2 DEF CodeGrantRead
    <2>23. CASE CodeGrantConsume(i)
      BY <2>23, CallsTyped, StoreSame DEF TypeOK, CodeGrantConsume, RpPcs, Code
    <2>24. ASSUME NEW j \in Jtis, CodeGrantMint(i, j)
          PROVE  TypeOK'
      BY <2>24, CallsTyped, StoreSame DEF TypeOK, CodeGrantMint, Mint, RpPcs, RpCall, Token
    <2>25. CASE CodeGrantAudit(i)
      BY <2>25, CallsTyped, StoreSame DEF TypeOK, CodeGrantAudit, Record, Event, Release, RpPcs, CallShape, RpShape, TxnPcs, OpenPcs
    <2>26. CASE RpAbort(i)
      BY <2>26, CallsTyped, StoreSame DEF TypeOK, RpAbort
    <2> QED BY <1>rp, <2>1, <2>2, <2>3, <2>4, <2>5, <2>6, <2>7, <2>8, <2>9, <2>10, <2>11, <2>12, <2>13, <2>14, <2>15, <2>16, <2>17, <2>18, <2>19, <2>20, <2>21, <2>22, <2>23, <2>24, <2>25, <2>26 DEF RpRequest, RpStep
  <1>env. CASE Environment
    <2>1. ASSUME NEW t \in Txns, Lapse(t)
          PROVE  TypeOK'
      BY <2>1, CallsTyped, StoreSame DEF TypeOK, Lapse
    <2>2. ASSUME NEW t \in Txns, StashExpires(t)
          PROVE  TypeOK'
      BY <2>2, CallsTyped, StoreSame DEF TypeOK, StashExpires
    <2>3. ASSUME NEW x \in Challenges, ChallengeExpires(x)
          PROVE  TypeOK'
      BY <2>3, CallsTyped, StoreSame DEF TypeOK, ChallengeExpires, Challenge
    <2>4. ASSUME NEW k \in Codes, CodeLapses(k)
          PROVE  TypeOK'
      BY <2>4, CallsTyped, StoreSame DEF TypeOK, CodeLapses
    <2>5. ASSUME NEW b \in Bindings, Stales(b)
          PROVE  TypeOK'
      BY <2>5, CallsTyped, StoreTyped DEF TypeOK, Stales
    <2>6. ASSUME NEW b \in Bindings, DeviceRevoked(b)
          PROVE  TypeOK'
      BY <2>6, CallsTyped, StoreTyped DEF TypeOK, DeviceRevoked
    <2>7. ASSUME NEW c \in Citizens, SdidInvalidates(c)
          PROVE  TypeOK'
      BY <2>7, CallsTyped, StoreSame DEF TypeOK, SdidInvalidates
    <2>8. ASSUME NEW r \in Rps, SuspendRp(r)
          PROVE  TypeOK'
      BY <2>8, CallsTyped, StoreSame DEF TypeOK, SuspendRp
    <2> QED BY <1>env, <2>1, <2>2, <2>3, <2>4, <2>5, <2>6, <2>7, <2>8 DEF Environment
  <1>same. CASE UNCHANGED vars
    BY <1>same, StoreSame DEF TypeOK
  <1> QED BY <1>dev, <1>rp, <1>env, <1>same DEF Next
-----------------------------------------------------------------------------
(* Calls in flight keep the arguments their steps need. *)

\* Who writes the calls: requests of one kind never touch those of the other,
\* and nothing else touches either.
LEMMA RpLeavesDevices ==
    ASSUME NEW i \in RpCalls, RpRequest(i) \/ RpStep(i) \/ RpAbort(i)
    PROVE  dcall' = dcall
  BY DEF RpRequest, RpStep, RpAbort, BcAuthorize, BcInsert, Authorize,
         AuthorizeInsert, AuthorizeStash, CibaGrant, CibaGrantRead,
         CibaGrantExpire, CibaGrantAuditExpired, CibaGrantConsume, CibaGrantMint,
         CibaGrantConsent, CibaGrantAuditConsent, CibaGrantAudit, AuthorizePoll,
         PollStash, PollConsume, PollInsert, PollDelStash, PollAudit, CodeGrant,
         CodeGrantRead, CodeGrantConsume, CodeGrantMint, CodeGrantAudit

\* A step of a device call touches no relying-party call, and no code or token.
LEMMA DeviceLeavesRp ==
    ASSUME NEW i \in DeviceCalls,
           DeviceRequest(i) \/ DeviceStep(i) \/ DeviceAbort(i)
    PROVE  UNCHANGED <<rcall, code, tok>>
  BY DEF DeviceRequest, DeviceStep, DeviceAbort, Pending, PendingList, IssueCiba,
         Decision, DecisionRead, DecisionBinding, ReassertRead, ReassertSdid,
         ReassertSuspend, ReassertRevoke, ReassertStamp, ConsumeCiba,
         DecisionResolve, DecisionAudit

\* Time, revocation, SDID and the administrator touch no request in flight.
LEMMA EnvironmentLeavesCalls ==
    ASSUME Environment
    PROVE  UNCHANGED <<dcall, rcall, code, tok, txn>>
  BY DEF Environment, Lapse, StashExpires, ChallengeExpires, CodeLapses, Stales,
         DeviceRevoked, SdidInvalidates, SuspendRp, txnVars, world, ledger

\* A device call past its lookups names the binding and the row it acts on.
LEMMA DeviceShapeStep ==
    TypeOK /\ DeviceShape /\ [Next]_vars => DeviceShape'
  <1> SUFFICES ASSUME TypeOK, DeviceShape, [Next]_vars PROVE DeviceShape'
    OBVIOUS
  <1>same. ASSUME dcall' = dcall PROVE DeviceShape'
    BY <1>same DEF DeviceShape
  <1>1. ASSUME NEW i \in DeviceCalls,
               DeviceRequest(i) \/ DeviceStep(i) \/ DeviceAbort(i)
        PROVE  DeviceShape'
    <2>back. ASSUME DeviceReturn(i) PROVE DeviceShape'
      BY <2>back DEF DeviceReturn, IdleDevice, DeviceShape, DecidePcs, TypeOK
    <2>on. ASSUME NEW pc \in DecidePcs, dcall[i].pc \in DecidePcs, DeviceGoto(i, pc)
           PROVE  DeviceShape'
      BY <2>on DEF DeviceGoto, DeviceShape, DecidePcs, DeviceCall, TypeOK
    <2>1. ASSUME NEW b \in Bindings, Pending(i, b) PROVE DeviceShape'
      BY <2>1 DEF Pending, DeviceStart, DeviceShape, DecidePcs, TypeOK
    <2>2. ASSUME NEW b \in Bindings, NEW t \in Txns, NEW x \in Challenges,
                 NEW dec \in {"approve", "deny"}, Decision(i, b, t, x, dec)
          PROVE  DeviceShape'
      BY <2>2 DEF Decision, DeviceStart, DeviceShape, TypeOK
    <2>3. CASE PendingList(i)
      BY <2>3, <2>back DEF PendingList, DeviceShape, DecidePcs, DeviceCall, TypeOK
    <2>4. ASSUME NEW t \in Txns, NEW x \in Challenges, IssueCiba(i, t, x)
          PROVE  DeviceShape'
      BY <2>4, <2>back DEF IssueCiba, DeviceShape, DecidePcs, DeviceCall, TypeOK
    <2>5. CASE DecisionRead(i)
      BY <2>5, <2>back, <2>on DEF DecisionRead, DecidePcs
    <2>6. CASE DecisionBinding(i)
      BY <2>6, <2>back, <2>on DEF DecisionBinding, DecidePcs
    <2>7. CASE ReassertRead(i)
      BY <2>7, <2>back, <2>on DEF ReassertRead, DecidePcs
    <2>8. CASE ReassertSdid(i)
      BY <2>8, <2>on DEF ReassertSdid, DecidePcs
    <2>9. CASE ReassertSuspend(i)
      BY <2>9, <2>on DEF ReassertSuspend, DecidePcs
    <2>10. CASE ReassertRevoke(i)
      BY <2>10, <2>back DEF ReassertRevoke
    <2>11. CASE ReassertStamp(i)
      BY <2>11, <2>on DEF ReassertStamp, DecidePcs
    <2>12. CASE ConsumeCiba(i)
      BY <2>12, <2>back, <2>on DEF ConsumeCiba, DecidePcs
    <2>13. CASE DecisionResolve(i)
      BY <2>13, <2>on DEF DecisionResolve, DecidePcs
    <2>14. CASE DecisionAudit(i)
      BY <2>14, <2>back DEF DecisionAudit
    <2>15. CASE DeviceAbort(i)
      BY <2>15, <2>back DEF DeviceAbort
    <2> QED BY <1>1, <2>1, <2>2, <2>3, <2>4, <2>5, <2>6, <2>7, <2>8, <2>9, <2>10,
               <2>11, <2>12, <2>13, <2>14, <2>15 DEF DeviceRequest, DeviceStep
  <1> QED BY <1>1, <1>same, RpLeavesDevices, EnvironmentLeavesCalls
          DEF Next, vars, txnVars

\* Who writes authorization codes.
LEMMA RpWritesCodes ==
    ASSUME NEW i \in RpCalls, RpRequest(i) \/ RpStep(i) \/ RpAbort(i)
    PROVE  \/ code' = code
           \/ \E k \in Codes : PollInsert(i, k)
           \/ CodeGrantConsume(i)
  BY DEF RpRequest, RpStep, RpAbort, BcAuthorize, BcInsert, Authorize,
         AuthorizeInsert, AuthorizeStash, CibaGrant, CibaGrantRead,
         CibaGrantExpire, CibaGrantAuditExpired, CibaGrantConsume, CibaGrantMint,
         CibaGrantConsent, CibaGrantAuditConsent, CibaGrantAudit, AuthorizePoll,
         PollStash, PollConsume, PollDelStash, PollAudit, CodeGrant,
         CodeGrantRead, CodeGrantMint, CodeGrantAudit

\* An authorization code that was issued names a transaction and a client.
LEMMA CodeShapeStep ==
    TypeOK /\ CallShape /\ [Next]_vars => CodeShape'
  <1> SUFFICES ASSUME TypeOK, CallShape, [Next]_vars PROVE CodeShape'
    OBVIOUS
  <1>same. ASSUME code' = code PROVE CodeShape'
    BY <1>same DEF CallShape, CodeShape
  <1>1. ASSUME NEW i \in RpCalls, RpRequest(i) \/ RpStep(i) \/ RpAbort(i)
        PROVE  CodeShape'
    <2>1. ASSUME NEW k \in Codes, PollInsert(i, k) PROVE CodeShape'
      BY <2>1 DEF PollInsert, CallShape, CodeShape, RpShape, TxnPcs, RpPcs, OpenPcs, TypeOK
    <2>2. CASE CodeGrantConsume(i)
      BY <2>2 DEF CodeGrantConsume, CallShape, CodeShape, RpShape, CodePcs, Code, TypeOK
    <2>3. \/ code' = code
          \/ \E k \in Codes : PollInsert(i, k)
          \/ CodeGrantConsume(i)
      BY <1>1, RpWritesCodes
    <2> QED BY <2>1, <2>2, <2>3, <1>same
  <1> QED BY <1>1, <1>same, DeviceLeavesRp, EnvironmentLeavesCalls
          DEF Next, vars, txnVars

\* A relying-party call past its lookups names the row or the code it redeems.
LEMMA RpShapeStep ==
    TypeOK /\ CallShape /\ [Next]_vars => RpShape'
  <1> SUFFICES ASSUME TypeOK, CallShape, [Next]_vars PROVE RpShape'
    OBVIOUS
  <1>same. ASSUME rcall' = rcall PROVE RpShape'
    BY <1>same DEF CallShape, RpShape
  <1>1. ASSUME NEW i \in RpCalls, RpRequest(i) \/ RpStep(i) \/ RpAbort(i)
        PROVE  RpShape'
    <2> USE DEF CallShape, RpShape, TxnPcs, RpPcs, OpenPcs, CodePcs
    <2>back. ASSUME RpReturn(i) PROVE RpShape'
      BY <2>back DEF RpReturn, IdleRp, TypeOK
    <2>on. ASSUME NEW pc \in TxnPcs, rcall[i].pc \in TxnPcs,
                  pc \in CodePcs => rcall[i].pc \in CodePcs, RpGoto(i, pc)
           PROVE  RpShape'
      BY <2>on DEF RpGoto, RpCall, TypeOK
    <2>1. ASSUME NEW r \in Rps, NEW c \in Citizens, NEW al \in RequestableALs,
                 BcAuthorize(i, r, c, al) \/ Authorize(i, r, c, al)
          PROVE  RpShape'
      BY <2>1 DEF BcAuthorize, Authorize, RpStart, TypeOK
    <2>2. ASSUME NEW t \in Txns, BcInsert(i, t) PROVE RpShape'
      BY <2>2, <2>back DEF BcInsert
    <2>3. ASSUME NEW t \in Txns, AuthorizeInsert(i, t) PROVE RpShape'
      BY <2>3 DEF AuthorizeInsert, RpCall, TypeOK
    <2>4. ASSUME NEW r \in Rps, NEW t \in Txns, CibaGrant(i, r, t) PROVE RpShape'
      BY <2>4 DEF CibaGrant, RpStart, TypeOK
    <2>5. ASSUME NEW t \in Txns, AuthorizePoll(i, t) PROVE RpShape'
      BY <2>5 DEF AuthorizePoll, RpStart, TypeOK
    <2>6. ASSUME NEW r \in Rps, NEW k \in Codes, CodeGrant(i, r, k) PROVE RpShape'
      BY <2>6 DEF CodeGrant, RpStart, TypeOK
    <2>7. CASE AuthorizeStash(i)
      BY <2>7, <2>back DEF AuthorizeStash
    <2>8. CASE CibaGrantRead(i)
      BY <2>8, <2>back, <2>on DEF CibaGrantRead
    <2>9. CASE CibaGrantExpire(i)
      BY <2>9, <2>back, <2>on DEF CibaGrantExpire
    <2>10. CASE CibaGrantAuditExpired(i) \/ CibaGrantAudit(i) \/ PollAudit(i)
                \/ CodeGrantAudit(i) \/ RpAbort(i)
      BY <2>10, <2>back
         DEF CibaGrantAuditExpired, CibaGrantAudit, PollAudit, CodeGrantAudit, RpAbort
    <2>11. CASE CibaGrantConsume(i) \/ PollConsume(i)
      BY <2>11, <2>back, <2>on DEF CibaGrantConsume, PollConsume, ConsumeTxn
    <2>12. ASSUME NEW j \in Jtis, CibaGrantMint(i, j) \/ CodeGrantMint(i, j)
           PROVE  RpShape'
      BY <2>12, <2>on DEF CibaGrantMint, CodeGrantMint
    <2>13. CASE CibaGrantConsent(i) \/ CibaGrantAuditConsent(i) \/ PollDelStash(i)
      BY <2>13, <2>on DEF CibaGrantConsent, CibaGrantAuditConsent, PollDelStash
    <2>14. CASE PollStash(i)
      BY <2>14, <2>back, <2>on DEF PollStash
    <2>15. ASSUME NEW k \in Codes, PollInsert(i, k) PROVE RpShape'
      BY <2>15, <2>on DEF PollInsert
    <2>16. CASE CodeGrantRead(i)
      <3>1. CASE CodeValid(rcall[i].code, rcall[i].rp)
        <4>1. code[rcall[i].code].txn \in Txns
          BY <2>16, <3>1 DEF CodeGrantRead, CodeValid, CodeShape
        <4> QED BY <2>16, <3>1, <4>1 DEF CodeGrantRead, RpCall, TypeOK
      <3> QED BY <2>16, <2>back, <3>1 DEF CodeGrantRead
    <2>17. CASE CodeGrantConsume(i)
      BY <2>17, <2>back, <2>on DEF CodeGrantConsume
    <2> HIDE DEF CallShape, RpShape, TxnPcs, RpPcs, OpenPcs, CodePcs
    <2> QED BY <1>1, <2>1, <2>2, <2>3, <2>4, <2>5, <2>6, <2>7, <2>8, <2>9, <2>10,
               <2>11, <2>12, <2>13, <2>14, <2>15, <2>16, <2>17 DEF RpRequest, RpStep
  <1> QED BY <1>1, <1>same, DeviceLeavesRp, EnvironmentLeavesCalls
          DEF Next, vars, txnVars

\* The type invariant, with the shape of calls in flight that it needs to be
\* inductive: TypeOK alone does not say that a call about to update a row knows
\* which row.
THEOREM TypeCorrect == Spec => [](TypeOK /\ CallShape)
  <1>1. Init => TypeOK /\ CallShape
    BY InitTyped DEF Init, CallShape, DeviceShape, RpShape, CodeShape, IdleDevice,
                     IdleRp, DecidePcs, TxnPcs, RpPcs, OpenPcs, CodePcs
  <1>2. TypeOK /\ CallShape /\ [Next]_vars => (TypeOK /\ CallShape)'
    BY TypeStep, DeviceShapeStep, RpShapeStep, CodeShapeStep DEF CallShape
  <1> QED BY <1>1, <1>2, PTL DEF Spec

-----------------------------------------------------------------------------
(* Who writes auth_transactions, and the finality of decisions. *)

\* What a device call may do to auth_transactions: resolve one pending row.
LEMMA DeviceWritesTxns ==
    ASSUME NEW i \in DeviceCalls,
           DeviceRequest(i) \/ DeviceStep(i) \/ DeviceAbort(i)
    PROVE  txn' = txn \/ DecisionResolve(i)
  BY DEF DeviceRequest, DeviceStep, DeviceAbort, Pending, PendingList, IssueCiba,
         Decision, DecisionRead, DecisionBinding, ReassertRead, ReassertSdid,
         ReassertSuspend, ReassertRevoke, ReassertStamp, ConsumeCiba,
         DecisionAudit

\* What a relying-party call may do to it: insert, expire or consume one row.
LEMMA RpWritesTxns ==
    ASSUME NEW i \in RpCalls, RpRequest(i) \/ RpStep(i) \/ RpAbort(i)
    PROVE  \/ txn' = txn
           \/ \E t \in Txns : BcInsert(i, t) \/ AuthorizeInsert(i, t)
           \/ CibaGrantExpire(i)
           \/ CibaGrantConsume(i) \/ PollConsume(i)
  BY DEF RpRequest, RpStep, RpAbort, BcAuthorize, Authorize, AuthorizeStash,
         CibaGrant, CibaGrantRead, CibaGrantAuditExpired, CibaGrantMint,
         CibaGrantConsent, CibaGrantAuditConsent, CibaGrantAudit, AuthorizePoll,
         PollStash, PollInsert, PollDelStash, PollAudit, CodeGrant,
         CodeGrantRead, CodeGrantConsume, CodeGrantMint, CodeGrantAudit

\* What one step may do to a transaction that is decided or expired.
Settled(t) ==
    txn[t].status \notin {"none", "pending"} =>
        /\ txn'[t].by = txn[t].by
        /\ \/ txn'[t].status = txn[t].status
           \/ txn[t].status = "approved" /\ txn'[t].status = "consumed"

\* No step moves a settled transaction except from approved to consumed.
LEMMA SettledStep ==
    ASSUME TypeOK, CallShape, [Next]_vars, NEW u \in Txns
    PROVE  Settled(u)
  <1> USE DEF Settled
  <1>same. ASSUME txn' = txn PROVE Settled(u)
    BY <1>same
  <1>1. ASSUME NEW i \in DeviceCalls, DecisionResolve(i) PROVE Settled(u)
    BY <1>1 DEF DecisionResolve, Resolve, TypeOK, Txn
  <1>2. ASSUME NEW i \in RpCalls, NEW t \in Txns,
               BcInsert(i, t) \/ AuthorizeInsert(i, t)
        PROVE  Settled(u)
    BY <1>2 DEF BcInsert, AuthorizeInsert, InsertTxn, TypeOK
  <1>3. ASSUME NEW i \in RpCalls, CibaGrantExpire(i) PROVE Settled(u)
    BY <1>3 DEF CibaGrantExpire, TypeOK, Txn
  <1>4. ASSUME NEW i \in RpCalls, CibaGrantConsume(i) \/ PollConsume(i)
        PROVE  Settled(u)
    BY <1>4 DEF CibaGrantConsume, PollConsume, ConsumeTxn, TypeOK, Txn
  <1> HIDE DEF Settled
  <1> QED BY <1>same, <1>1, <1>2, <1>3, <1>4, DeviceWritesTxns, RpWritesTxns,
             EnvironmentLeavesCalls DEF Next, vars, txnVars

\* Whatever decision, expiry and redemption handlers are in flight at once, a
\* transaction keeps its outcome and its decider.
THEOREM DecisionsAreFinal == Spec => DecisionIsFinal
  <1>1. TypeOK /\ CallShape /\ [Next]_vars => [\A t \in Txns : Settled(t)]_txn
    BY SettledStep
  <1> QED BY <1>1, TypeCorrect, PTL DEF Spec, DecisionIsFinal, Settled

-----------------------------------------------------------------------------
(* The right to redeem is never copied. *)

\* A consumed transaction stays consumed.
LEMMA ConsumedStays ==
    ASSUME TypeOK, CallShape, [Next]_vars
    PROVE  \A t \in Txns : txn[t].status = "consumed" => txn'[t].status = "consumed"
  BY SettledStep DEF Settled

\* A relying-party step moves one call; unless it is one of the steps named here
\* the call does not end up with a right, and no code or token set is written.
LEMMA RpMovesRights ==
    ASSUME TypeOK, NEW i \in RpCalls, RpRequest(i) \/ RpStep(i) \/ RpAbort(i)
    PROVE  \/ CibaGrantConsume(i) \/ PollConsume(i)
           \/ \E k \in Codes : PollInsert(i, k)
           \/ CodeGrantRead(i) \/ CodeGrantConsume(i)
           \/ \E j \in Jtis : CibaGrantMint(i, j) \/ CodeGrantMint(i, j)
           \/ /\ UNCHANGED <<code, tok>>
              /\ \A m \in RpCalls : m # i => rcall'[m] = rcall[m]
              /\ rcall'[i].pc \notin {"gMint", "pInsert", "cMint", "cConsume"}
  BY DEF TypeOK, RpCall, IdleRp, RpStart, RpGoto, RpReturn,
         RpRequest, RpStep, RpAbort, BcAuthorize, BcInsert, Authorize,
         AuthorizeInsert, AuthorizeStash, CibaGrant, CibaGrantRead,
         CibaGrantExpire, CibaGrantAuditExpired,
         CibaGrantConsent, CibaGrantAuditConsent, CibaGrantAudit, AuthorizePoll,
         PollStash, PollDelStash, PollAudit, CodeGrant, CodeGrantAudit

\* Every step keeps the right to redeem an approval in one place.
LEMMA RedemptionStep ==
    TypeOK /\ CallShape /\ RedemptionRight /\ [Next]_vars => RedemptionRight'
  <1> SUFFICES ASSUME TypeOK, CallShape, RedemptionRight, [Next]_vars
               PROVE  RedemptionRight'
    OBVIOUS
  <1> USE DEF RedemptionRight, OneHolder, HolderOrCode, HolderOrTokens,
              RightsAreConsumed, CodesNameTxns, SingleRedemption, OneTokenSet,
              OneCode, CodeOrTokens, Holds
  <1>1. \A t \in Txns : txn[t].status = "consumed" => txn'[t].status = "consumed"
    BY ConsumedStays
  <1>2. /\ \A i \in RpCalls : Holds(i) => rcall[i].txn \in Txns
        /\ \A k \in Codes : code[k].txn \in Txns \cup {None}
        /\ \A j \in Jtis : tok[j].txn \in Txns \cup {None}
    BY DEF CallShape, RpShape, TxnPcs, RpPcs, OpenPcs, TypeOK, Code, Token
  <1>3. \A i \in RpCalls : rcall[i].pc = "cConsume" =>
            rcall[i].txn \in Txns /\ rcall[i].code \in Codes
    BY DEF CallShape, RpShape, TxnPcs, RpPcs, OpenPcs, CodePcs
  <1>same. ASSUME UNCHANGED <<rcall, code, tok>> PROVE RedemptionRight'
    BY <1>same, <1>1, <1>2
  <1>rp. ASSUME NEW i \in RpCalls, RpRequest(i) \/ RpStep(i) \/ RpAbort(i)
         PROVE  RedemptionRight'
    <2>1. CASE /\ UNCHANGED <<code, tok>>
               /\ \A m \in RpCalls : m # i => rcall'[m] = rcall[m]
               /\ rcall'[i].pc \notin {"gMint", "pInsert", "cMint", "cConsume"}
      BY <2>1, <1>1, <1>2
    <2>2. CASE CibaGrantConsume(i) \/ PollConsume(i)
      <3>1. CASE RpReturn(i)
        BY <2>1, <2>2, <3>1 DEF CibaGrantConsume, PollConsume, RpReturn, IdleRp, TypeOK
      <3>2. CASE txn[rcall[i].txn].status = "approved"
        <4>1. /\ \A m \in RpCalls : m # i => rcall'[m] = rcall[m]
              /\ rcall'[i].pc \in {"gMint", "pInsert"}
              /\ rcall'[i].txn = rcall[i].txn
              /\ UNCHANGED <<code, tok>>
          BY <2>2, <3>2 DEF CibaGrantConsume, PollConsume, ConsumeTxn, RpGoto, TypeOK, RpCall
        <4>2. rcall[i].txn \in Txns /\ txn'[rcall[i].txn].status = "consumed"
          BY <2>2, <3>2 DEF CibaGrantConsume, PollConsume, ConsumeTxn, TypeOK, Txn,
             CallShape, RpShape, TxnPcs, RpPcs, OpenPcs
        <4> QED BY <3>2, <4>1, <4>2, <1>1, <1>2
      <3> QED BY <2>2, <3>1, <3>2 DEF CibaGrantConsume, PollConsume, ConsumeTxn
    <2>3. ASSUME NEW k \in Codes, PollInsert(i, k) PROVE RedemptionRight'
      <3>1. /\ \A m \in RpCalls : m # i => rcall'[m] = rcall[m]
            /\ rcall[i].pc = "pInsert" /\ rcall'[i].pc = "pDelStash"
            /\ UNCHANGED tok
        BY <2>3 DEF PollInsert, RpGoto, TypeOK, RpCall
      <3>2. /\ \A l \in Codes : l # k => code'[l] = code[l]
            /\ code[k].st = "none"
            /\ code'[k].st = "unused" /\ code'[k].txn = rcall[i].txn
        BY <2>3 DEF PollInsert, TypeOK, Code
      <3>a. (OneHolder /\ HolderOrTokens)'
        BY <3>1, <3>2, <1>1, <1>2
      <3>b. HolderOrCode'
        BY <3>1, <3>2, <1>1, <1>2
      <3>c. RightsAreConsumed'
        BY <3>1, <3>2, <1>1, <1>2
      <3>d. CodesNameTxns'
        BY <3>1, <3>2, <1>2, <1>3
      <3>e. OneTokenSet'
        BY <3>1, <3>2, <1>1, <1>2
      <3>f. OneCode'
        BY <3>1, <3>2, <1>1, <1>2
      <3>g. CodeOrTokens'
        BY <3>1, <3>2, <1>1, <1>2
      <3> QED BY <3>a, <3>b, <3>c, <3>d, <3>e, <3>f, <3>g
    <2>4. CASE CodeGrantRead(i)
      <3>1. CASE RpReturn(i)
        BY <2>1, <2>4, <3>1 DEF CodeGrantRead, RpReturn, IdleRp, TypeOK
      <3>2. CASE CodeValid(rcall[i].code, rcall[i].rp)
        <4>1. /\ \A m \in RpCalls : m # i => rcall'[m] = rcall[m]
              /\ rcall'[i].pc = "cConsume"
              /\ rcall'[i].txn = code[rcall[i].code].txn
              /\ rcall'[i].code = rcall[i].code
              /\ UNCHANGED <<code, tok>>
          BY <2>4, <3>2 DEF CodeGrantRead, TypeOK, RpCall
        <4> QED BY <4>1, <1>1, <1>2
      <3> QED BY <2>4, <3>1, <3>2 DEF CodeGrantRead
    <2>5. CASE CodeGrantConsume(i)
      <3> DEFINE k == rcall[i].code
      <3>1. CASE RpReturn(i)
        BY <2>1, <2>5, <3>1, <1>1, <1>2 DEF CodeGrantConsume, RpReturn, IdleRp, TypeOK, RpGoto
      <3>2. CASE code[k].st = "unused"
        <4>1. /\ \A m \in RpCalls : m # i => rcall'[m] = rcall[m]
              /\ rcall[i].pc = "cConsume" /\ rcall'[i].pc = "cMint"
              /\ rcall'[i].txn = rcall[i].txn
              /\ UNCHANGED tok
          BY <2>5, <3>2 DEF CodeGrantConsume, RpGoto, TypeOK, RpCall
        <4>2. /\ k \in Codes
              /\ \A l \in Codes : l # k => code'[l] = code[l]
              /\ code'[k].st = "used" /\ code'[k].txn = code[k].txn
          BY <2>5, <3>2 DEF CodeGrantConsume, TypeOK, Code, CallShape, RpShape, CodePcs
        <4>3. rcall[i].txn = code[k].txn /\ code[k].txn \in Txns
          BY <3>2, <4>1, <4>2, <1>2
        <4> HIDE DEF k
        <4>a. (OneHolder /\ HolderOrTokens)'
          BY <3>2, <4>1, <4>2, <4>3, <1>1, <1>2
        <4>b. HolderOrCode'
          BY <3>2, <4>1, <4>2, <4>3, <1>1, <1>2
        <4>c. RightsAreConsumed'
          BY <3>2, <4>1, <4>2, <4>3, <1>1, <1>2
        <4>d. CodesNameTxns'
          BY <3>2, <4>1, <4>2, <4>3, <1>3
        <4>e. OneTokenSet'
          BY <3>2, <4>1, <4>2, <4>3, <1>1, <1>2
        <4>f. OneCode'
          BY <3>2, <4>1, <4>2, <4>3, <1>1, <1>2
        <4>g. CodeOrTokens'
          BY <3>2, <4>1, <4>2, <4>3, <1>1, <1>2
        <4> QED BY <4>a, <4>b, <4>c, <4>d, <4>e, <4>f, <4>g
      <3> QED BY <2>5, <3>1, <3>2 DEF CodeGrantConsume
    <2>6. ASSUME NEW j \in Jtis, CibaGrantMint(i, j) \/ CodeGrantMint(i, j)
          PROVE  RedemptionRight'
      <3>1. /\ \A m \in RpCalls : m # i => rcall'[m] = rcall[m]
            /\ Holds(i) /\ rcall'[i].pc \in {"gConsent", "cAudit"}
            /\ UNCHANGED code
        BY <2>6 DEF CibaGrantMint, CodeGrantMint, RpGoto, TypeOK, RpCall
      <3>2. /\ \A n \in Jtis : n # j => tok'[n] = tok[n]
            /\ tok[j].txn = None /\ tok'[j].txn = rcall[i].txn
        BY <2>6 DEF CibaGrantMint, CodeGrantMint, Mint, TypeOK
      <3> QED BY <3>1, <3>2, <1>1, <1>2
    <2> QED BY <1>rp, <2>1, <2>2, <2>3, <2>4, <2>5, <2>6, RpMovesRights
  <1> HIDE DEF RedemptionRight
  <1> QED BY <1>same, <1>rp, DeviceLeavesRp, EnvironmentLeavesCalls
          DEF Next, vars, txnVars

\* The right to redeem is in one place: in a call about to mint, in an unused
\* code, or spent (cibaGrant, authorizePoll, codeGrant).
THEOREM RightIsNeverCopied == Spec => []RedemptionRight
  <1>1. Init => RedemptionRight
    BY DEF Init, RedemptionRight, OneHolder, HolderOrCode, HolderOrTokens,
           RightsAreConsumed, CodesNameTxns, SingleRedemption, OneTokenSet,
           OneCode, CodeOrTokens, Holds, IdleRp
  <1> QED BY <1>1, TypeCorrect, RedemptionStep, PTL DEF Spec

\* An approval is worth one code and one token set, whatever races for it.
THEOREM RedeemedOnce == Spec => []SingleRedemption
  <1>1. RedemptionRight => SingleRedemption
    BY DEF RedemptionRight
  <1> QED BY <1>1, RightIsNeverCopied, PTL

-----------------------------------------------------------------------------
(* Whose transaction it is, and the contract.                              *)

\* The columns of an auth_transactions row that the INSERT writes and no UPDATE
\* touches.
LEMMA PartyStays ==
    ASSUME TypeOK, CallShape, [Next]_vars, NEW u \in Txns, txn[u].status # "none"
    PROVE  /\ txn'[u].status # "none"
           /\ txn'[u].rp = txn[u].rp /\ txn'[u].citizen = txn[u].citizen
           /\ txn'[u].al = txn[u].al /\ txn'[u].flow = txn[u].flow
  <1> DEFINE Kept == /\ txn'[u].status # "none"
                     /\ txn'[u].rp = txn[u].rp /\ txn'[u].citizen = txn[u].citizen
                     /\ txn'[u].al = txn[u].al /\ txn'[u].flow = txn[u].flow
  <1>same. ASSUME txn' = txn PROVE Kept
    BY <1>same
  <1>1. ASSUME NEW i \in DeviceCalls, DecisionResolve(i) PROVE Kept
    BY <1>1 DEF DecisionResolve, Resolve, TypeOK, Txn
  <1>2. ASSUME NEW i \in RpCalls, NEW t \in Txns,
               BcInsert(i, t) \/ AuthorizeInsert(i, t)
        PROVE  Kept
    BY <1>2 DEF BcInsert, AuthorizeInsert, InsertTxn, TypeOK
  <1>3. ASSUME NEW i \in RpCalls, CibaGrantExpire(i) PROVE Kept
    BY <1>3 DEF CibaGrantExpire, TypeOK, Txn
  <1>4. ASSUME NEW i \in RpCalls, CibaGrantConsume(i) \/ PollConsume(i)
        PROVE  Kept
    <2>1. CASE CibaGrantConsume(i)
      BY <2>1 DEF CibaGrantConsume, ConsumeTxn, TypeOK, Txn
    <2>2. CASE PollConsume(i)
      BY <2>2 DEF PollConsume, ConsumeTxn, TypeOK, Txn
    <2> QED BY <1>4, <2>1, <2>2
  <1> HIDE DEF Kept
  <1>5. Kept
    BY <1>same, <1>1, <1>2, <1>3, <1>4, DeviceWritesTxns, RpWritesTxns,
       EnvironmentLeavesCalls DEF Next, vars, txnVars
  <1> QED BY <1>5 DEF Kept

-----------------------------------------------------------------------------
(* Tokens go to the relying party that asked. *)

\* Past the check of the client, a call is about a transaction of its client.
ClientChecked(i) == rcall[i].pc \in {"gConsume", "gMint", "cConsume", "cMint"}

RequesterInv ==
    /\ \A i \in RpCalls : ClientChecked(i) =>
          txn[rcall[i].txn].status # "none" /\ txn[rcall[i].txn].rp = rcall[i].rp
    /\ TokensGoToRequester

\* A relying-party step moves one call; unless it is one of the steps named here
\* the call does not end up past the check, and no token set is written.
LEMMA RpMovesClients ==
    ASSUME TypeOK, NEW i \in RpCalls, RpRequest(i) \/ RpStep(i) \/ RpAbort(i)
    PROVE  \/ CibaGrantRead(i) \/ CibaGrantConsume(i)
           \/ CodeGrantRead(i) \/ CodeGrantConsume(i)
           \/ \E j \in Jtis : CibaGrantMint(i, j) \/ CodeGrantMint(i, j)
           \/ /\ UNCHANGED tok
              /\ \A m \in RpCalls : m # i => rcall'[m] = rcall[m]
              /\ ~ClientChecked(i)'
  BY DEF TypeOK, RpCall, IdleRp, RpStart, RpGoto, RpReturn, ClientChecked,
         RpRequest, RpStep, RpAbort, BcAuthorize, BcInsert, Authorize,
         AuthorizeInsert, AuthorizeStash, CibaGrant,
         CibaGrantExpire, CibaGrantAuditExpired,
         CibaGrantConsent, CibaGrantAuditConsent, CibaGrantAudit, AuthorizePoll,
         PollStash, PollConsume, ConsumeTxn, PollInsert, PollDelStash, PollAudit,
         CodeGrant, CodeGrantAudit

\* Every step keeps tokens, and the calls about to mint them, with the client.
LEMMA RequesterStep ==
    TypeOK /\ CallShape /\ RedemptionRight /\ RequesterInv /\ [Next]_vars
        => RequesterInv'
  <1> SUFFICES ASSUME TypeOK, CallShape, RedemptionRight, RequesterInv, [Next]_vars
               PROVE  RequesterInv'
    OBVIOUS
  <1> USE DEF RequesterInv, TokensGoToRequester, ClientChecked
  <1>1. \A t \in Txns : txn[t].status # "none" =>
            txn'[t].status # "none" /\ txn'[t].rp = txn[t].rp
    BY PartyStays
  <1>2. /\ \A i \in RpCalls : ClientChecked(i) => rcall[i].txn \in Txns
        /\ \A j \in Jtis : tok[j].txn # None =>
              tok[j].txn \in Txns /\ txn[tok[j].txn].status # "none"
    BY DEF CallShape, RpShape, TxnPcs, RpPcs, OpenPcs, TypeOK, Token,
           RedemptionRight, RightsAreConsumed
  <1>same. ASSUME UNCHANGED <<rcall, tok>> PROVE RequesterInv'
    BY <1>same, <1>1, <1>2
  <1>rp. ASSUME NEW i \in RpCalls, RpRequest(i) \/ RpStep(i) \/ RpAbort(i)
         PROVE  RequesterInv'
    <2>1. CASE /\ UNCHANGED tok
               /\ \A m \in RpCalls : m # i => rcall'[m] = rcall[m]
               /\ ~ClientChecked(i)'
      BY <2>1, <1>1, <1>2
    <2>back. ASSUME RpReturn(i), UNCHANGED tok PROVE RequesterInv'
      BY <2>1, <2>back DEF RpReturn, IdleRp, TypeOK
    <2>on. ASSUME NEW pc \in RpPcs, RpGoto(i, pc), UNCHANGED tok,
                  rcall[i].txn \in Txns, txn[rcall[i].txn].status # "none",
                  txn[rcall[i].txn].rp = rcall[i].rp
           PROVE  RequesterInv'
      <3>1. /\ \A m \in RpCalls : m # i => rcall'[m] = rcall[m]
            /\ rcall'[i].txn = rcall[i].txn /\ rcall'[i].rp = rcall[i].rp
        BY <2>on DEF RpGoto, TypeOK, RpCall
      <3> QED BY <2>on, <3>1, <1>1, <1>2
    <2>2. CASE CibaGrantRead(i)
      <3>1. rcall[i].txn \in Txns
        BY <2>2 DEF CibaGrantRead, CallShape, RpShape, TxnPcs, RpPcs, OpenPcs
      <3>2. \/ RpReturn(i)
            \/ /\ OwnTxn(rcall[i].txn, rcall[i].rp)
               /\ RpGoto(i, "gExpire") \/ RpGoto(i, "gConsume")
        BY <2>2 DEF CibaGrantRead
      <3>3. UNCHANGED tok /\ {"gExpire", "gConsume"} \subseteq RpPcs
        BY <2>2 DEF CibaGrantRead, RpPcs
      <3> QED BY <2>back, <2>on, <3>1, <3>2, <3>3 DEF OwnTxn
    <2>3. CASE CibaGrantConsume(i)
      BY <2>3, <2>back, <2>on, <1>2 DEF CibaGrantConsume, ConsumeTxn, RpPcs
    <2>4. CASE CodeGrantRead(i)
      <3>1. CASE CodeValid(rcall[i].code, rcall[i].rp)
        <4> DEFINE k == rcall[i].code
        <4>1. /\ \A m \in RpCalls : m # i => rcall'[m] = rcall[m]
              /\ rcall'[i].txn = code[k].txn /\ rcall'[i].rp = rcall[i].rp
              /\ UNCHANGED tok
          BY <2>4, <3>1 DEF CodeGrantRead, TypeOK, RpCall
        <4>2. k \in Codes /\ code[k].txn \in Txns /\ txn[code[k].txn].status = "consumed"
          BY <2>4, <3>1, NoneAssumption DEF CodeGrantRead, CodeValid, CallShape,
             CodeShape, RpShape, CodePcs, RedemptionRight, RightsAreConsumed
        <4> QED BY <3>1, <4>1, <4>2, <1>1, <1>2 DEF CodeValid
      <3> QED BY <2>4, <2>back, <3>1 DEF CodeGrantRead
    <2>5. CASE CodeGrantConsume(i)
      BY <2>5, <2>back, <2>on, <1>2 DEF CodeGrantConsume, RpPcs
    <2>6. ASSUME NEW j \in Jtis, CibaGrantMint(i, j) \/ CodeGrantMint(i, j)
          PROVE  RequesterInv'
      <3>1. /\ \A m \in RpCalls : m # i => rcall'[m] = rcall[m]
            /\ ClientChecked(i) /\ rcall'[i].pc \in {"gConsent", "cAudit"}
        BY <2>6 DEF CibaGrantMint, CodeGrantMint, RpGoto, TypeOK, RpCall
      <3>2. /\ \A n \in Jtis : n # j => tok'[n] = tok[n]
            /\ tok'[j].txn = rcall[i].txn /\ tok'[j].rp = rcall[i].rp
        BY <2>6 DEF CibaGrantMint, CodeGrantMint, Mint, TypeOK
      <3> QED BY <3>1, <3>2, <1>1, <1>2
    <2> QED BY <1>rp, <2>1, <2>2, <2>3, <2>4, <2>5, <2>6, RpMovesClients
  <1> HIDE DEF RequesterInv
  <1> QED BY <1>same, <1>rp, DeviceLeavesRp, EnvironmentLeavesCalls
          DEF Next, vars, txnVars

\* Whichever grant redeems a transaction, and however calls of several clients
\* interleave, its token set is made out to the relying party that opened it.
THEOREM TokensGoHome == Spec => []TokensGoToRequester
  <1>1. Init => RequesterInv
    BY DEF Init, RequesterInv, ClientChecked, TokensGoToRequester, IdleRp
  <1>2. RequesterInv => TokensGoToRequester
    BY DEF RequesterInv
  <1> QED BY <1>1, <1>2, TypeCorrect, RightIsNeverCopied, RequesterStep, PTL DEF Spec

-----------------------------------------------------------------------------
(* Only a device of the citizen decides. *)

\* Where a decision has found the transaction to be its citizen's, and where it
\* has found the binding's level to meet the request.
LevelPcs == {"raRead", "raSdid", "raSuspend", "raRevoke", "raStamp", "dConsume",
             "dResolve"}
OwnerPcs == LevelPcs \cup {"dBinding"}

SpentOn(keys, x, t, b) == keys[x] = [st |-> "spent", txn |-> t, dev |-> b]

DeciderCalls ==
    \A i \in DeviceCalls :
        /\ dcall[i].pc \in OwnerPcs =>
              /\ txn[dcall[i].txn].status # "none"
              /\ txn[dcall[i].txn].citizen = CitizenOf[dcall[i].dev]
        /\ dcall[i].pc \in LevelPcs =>
              alMeets(Level[dcall[i].dev], txn[dcall[i].txn].al)
        /\ dcall[i].pc = "dResolve" => SpentOn(chal, dcall[i].ch, dcall[i].txn, dcall[i].dev)

DeciderInv == DeciderCalls /\ DecidedByOwnDevice

\* A challenge that was consumed keeps its payload and never lives again: ids are
\* not issued twice (issueCiba), and GETDEL and the TTL act on live keys only.
LEMMA SpentStays ==
    ASSUME TypeOK, CallShape, [Next]_vars, NEW x \in Challenges, chal[x].st = "spent"
    PROVE  chal'[x] = chal[x]
  <1>1. ASSUME NEW i \in DeviceCalls,
               DeviceRequest(i) \/ DeviceStep(i) \/ DeviceAbort(i)
        PROVE  chal'[x] = chal[x]
    <2>1. ASSUME NEW t \in Txns, NEW y \in Challenges, IssueCiba(i, t, y)
          PROVE  chal'[x] = chal[x]
      BY <2>1 DEF IssueCiba, TypeOK
    <2>2. CASE ConsumeCiba(i)
      <3>1. \/ chal' = chal
            \/ /\ chal[dcall[i].ch].st = "live"
               /\ \E s \in {"spent", "gone"} : chal' = [chal EXCEPT ![dcall[i].ch].st = s]
        BY <2>2 DEF ConsumeCiba
      <3> QED BY <3>1 DEF TypeOK
    <2>3. \/ chal' = chal
          \/ \E t \in Txns, y \in Challenges : IssueCiba(i, t, y)
          \/ ConsumeCiba(i)
      BY <1>1 DEF DeviceRequest, DeviceStep, DeviceAbort, Pending, PendingList,
         Decision, DecisionRead, DecisionBinding, ReassertRead, ReassertSdid,
         ReassertSuspend, ReassertRevoke, ReassertStamp, DecisionResolve,
         DecisionAudit
    <2> QED BY <2>1, <2>2, <2>3
  <1>2. ASSUME NEW i \in RpCalls, RpRequest(i) \/ RpStep(i) \/ RpAbort(i)
        PROVE  chal' = chal
    BY <1>2 DEF RpRequest, RpStep, RpAbort, BcAuthorize, BcInsert, Authorize,
       AuthorizeInsert, AuthorizeStash, CibaGrant, CibaGrantRead,
       CibaGrantExpire, CibaGrantAuditExpired, CibaGrantConsume, CibaGrantMint,
       CibaGrantConsent, CibaGrantAuditConsent, CibaGrantAudit, AuthorizePoll,
       PollStash, PollConsume, PollInsert, PollDelStash, PollAudit, CodeGrant,
       CodeGrantRead, CodeGrantConsume, CodeGrantMint, CodeGrantAudit
  <1>3. ASSUME Environment PROVE chal'[x] = chal[x]
    BY <1>3 DEF Environment, Lapse, StashExpires, ChallengeExpires, CodeLapses,
       Stales, DeviceRevoked, SdidInvalidates, SuspendRp, txnVars, TypeOK
  <1> QED BY <1>1, <1>2, <1>3 DEF Next, vars, txnVars

\* What a decision in flight has established stays true while it waits, and each
\* step establishes what the next one relies on.
LEMMA DeciderCallsStep ==
    TypeOK /\ CallShape /\ DeciderCalls /\ [Next]_vars => DeciderCalls'
  <1> SUFFICES ASSUME TypeOK, CallShape, DeciderCalls, [Next]_vars
               PROVE  DeciderCalls'
    OBVIOUS
  <1>1. \A t \in Txns : txn[t].status # "none" =>
            /\ txn'[t].status # "none"
            /\ txn'[t].citizen = txn[t].citizen /\ txn'[t].al = txn[t].al
    BY PartyStays
  <1>2. \A x \in Challenges, t \in Txns, b \in Bindings :
            SpentOn(chal, x, t, b) => SpentOn(chal', x, t, b)
    BY SpentStays DEF SpentOn
  <1>3. \A i \in DeviceCalls : dcall[i].pc \in OwnerPcs =>
            dcall[i].txn \in Txns /\ dcall[i].ch \in Challenges /\ dcall[i].dev \in Bindings
    BY DEF CallShape, DeviceShape, DecidePcs, OwnerPcs, LevelPcs
  <1>same. ASSUME dcall' = dcall PROVE DeciderCalls'
    BY <1>same, <1>1, <1>2, <1>3 DEF DeciderCalls, OwnerPcs, LevelPcs
  <1>dev. ASSUME NEW i \in DeviceCalls,
                 DeviceRequest(i) \/ DeviceStep(i) \/ DeviceAbort(i)
          PROVE  DeciderCalls'
    <2> DEFINE t == dcall[i].txn
               b == dcall[i].dev
    <2>off. ASSUME \A m \in DeviceCalls : m # i => dcall'[m] = dcall[m],
                   dcall'[i].pc \notin OwnerPcs
            PROVE  DeciderCalls'
      BY <2>off, <1>1, <1>2, <1>3 DEF DeciderCalls, OwnerPcs, LevelPcs
    <2>back. ASSUME DeviceReturn(i) PROVE DeciderCalls'
      BY <2>off, <2>back DEF DeviceReturn, IdleDevice, TypeOK, OwnerPcs, LevelPcs
    <2>on. ASSUME NEW pc \in OwnerPcs, dcall[i].pc \in DecidePcs, DeviceGoto(i, pc),
                  txn[t].status # "none", txn[t].citizen = CitizenOf[b],
                  pc \in LevelPcs => alMeets(Level[b], txn[t].al),
                  pc = "dResolve" => SpentOn(chal', dcall[i].ch, t, b)
           PROVE  DeciderCalls'
      <3>1. /\ \A m \in DeviceCalls : m # i => dcall'[m] = dcall[m]
            /\ dcall'[i].pc = pc /\ dcall'[i].txn = t /\ dcall'[i].dev = b
            /\ dcall'[i].ch = dcall[i].ch
        BY <2>on DEF DeviceGoto, TypeOK, DeviceCall
      <3>2. t \in Txns
        BY <2>on DEF CallShape, DeviceShape
      <3> HIDE DEF t, b
      <3>3. \A m \in DeviceCalls : m # i =>
              /\ dcall'[m].pc \in OwnerPcs =>
                    /\ txn'[dcall'[m].txn].status # "none"
                    /\ txn'[dcall'[m].txn].citizen = CitizenOf[dcall'[m].dev]
              /\ dcall'[m].pc \in LevelPcs =>
                    alMeets(Level[dcall'[m].dev], txn'[dcall'[m].txn].al)
              /\ dcall'[m].pc = "dResolve" =>
                    SpentOn(chal', dcall'[m].ch, dcall'[m].txn, dcall'[m].dev)
        BY <3>1, <1>1, <1>2, <1>3 DEF DeciderCalls, OwnerPcs, LevelPcs
      <3> QED BY <2>on, <3>1, <3>2, <3>3, <1>1 DEF DeciderCalls
    <2>1. ASSUME NEW d \in Bindings, Pending(i, d) PROVE DeciderCalls'
      BY <2>1, <2>off DEF Pending, DeviceStart, TypeOK, OwnerPcs, LevelPcs
    <2>2. ASSUME NEW d \in Bindings, NEW u \in Txns, NEW x \in Challenges,
                 NEW dec \in {"approve", "deny"}, Decision(i, d, u, x, dec)
          PROVE  DeciderCalls'
      BY <2>2, <2>off DEF Decision, DeviceStart, TypeOK, OwnerPcs, LevelPcs
    <2>3. CASE PendingList(i)
      BY <2>3, <2>off, <2>back DEF PendingList, TypeOK, DeviceCall, OwnerPcs, LevelPcs
    <2>4. ASSUME NEW u \in Txns, NEW x \in Challenges, IssueCiba(i, u, x)
          PROVE  DeciderCalls'
      BY <2>4, <2>off, <2>back DEF IssueCiba, TypeOK, DeviceCall, OwnerPcs, LevelPcs
    <2>5. CASE DecisionRead(i)
      BY <2>5, <2>back, <2>on
         DEF DecisionRead, Decidable, OpenFor, Open, DecidePcs, OwnerPcs, LevelPcs
    <2>6. CASE DecisionBinding(i)
      BY <2>6, <2>back, <2>on
         DEF DecisionBinding, MayDecide, DeciderCalls, DecidePcs, OwnerPcs, LevelPcs
    <2>7. CASE ReassertRead(i) \/ ReassertSdid(i)
      BY <2>7, <2>back, <2>on
         DEF ReassertRead, ReassertSdid, DeciderCalls, DecidePcs, OwnerPcs, LevelPcs
    <2>8. CASE ReassertSuspend(i) \/ ReassertStamp(i)
      BY <2>8, <2>on
         DEF ReassertSuspend, ReassertStamp, DeciderCalls, DecidePcs, OwnerPcs, LevelPcs
    <2>9. CASE ReassertRevoke(i) \/ DecisionAudit(i) \/ DeviceAbort(i)
      BY <2>9, <2>back DEF ReassertRevoke, DecisionAudit, DeviceAbort
    <2>10. CASE ConsumeCiba(i)
      <3> DEFINE x == dcall[i].ch
      <3>1. CASE chal[x].st = "live" /\ ChallengeMatches(x, t, b)
        <4>1. x \in Challenges /\ chal' = [chal EXCEPT ![x].st = "spent"]
          BY <2>10, <3>1 DEF ConsumeCiba, CallShape, DeviceShape, DecidePcs
        <4>2. SpentOn(chal', x, t, b)
          BY <3>1, <4>1 DEF SpentOn, ChallengeMatches, TypeOK, Challenge
        <4> QED BY <2>10, <2>on, <3>1, <4>2
                DEF ConsumeCiba, DeciderCalls, DecidePcs, OwnerPcs, LevelPcs
      <3> QED BY <2>10, <2>back, <3>1 DEF ConsumeCiba
    <2>11. CASE DecisionResolve(i)
      BY <2>11, <2>off DEF DecisionResolve, DeviceGoto, TypeOK, DeviceCall, OwnerPcs, LevelPcs
    <2> QED BY <1>dev, <2>1, <2>2, <2>3, <2>4, <2>5, <2>6, <2>7, <2>8, <2>9, <2>10,
               <2>11 DEF DeviceRequest, DeviceStep
  <1> QED BY <1>dev, <1>same, RpLeavesDevices, EnvironmentLeavesCalls
          DEF Next, vars, txnVars

\* Every step keeps decided transactions decided by their own device.
LEMMA DecidedStep ==
    TypeOK /\ CallShape /\ DeciderInv /\ [Next]_vars => DecidedByOwnDevice'
  <1> SUFFICES ASSUME TypeOK, CallShape, DeciderInv, [Next]_vars, NEW u \in Txns
               PROVE  /\ txn'[u].status \in {"approved", "denied", "consumed"}
                            <=> txn'[u].by # None
                      /\ txn'[u].by # None =>
                            /\ CitizenOf[txn'[u].by] = txn'[u].citizen
                            /\ alMeets(Level[txn'[u].by], txn'[u].al)
                            /\ \E x \in Challenges : SpentOn(chal', x, u, txn'[u].by)
    BY DEF DecidedByOwnDevice, SpentOn
  <1> DEFINE Good == /\ txn'[u].status \in {"approved", "denied", "consumed"}
                            <=> txn'[u].by # None
                     /\ txn'[u].by # None =>
                            /\ CitizenOf[txn'[u].by] = txn'[u].citizen
                            /\ alMeets(Level[txn'[u].by], txn'[u].al)
                            /\ \E x \in Challenges : SpentOn(chal', x, u, txn'[u].by)
  <1>1. /\ txn[u].status \in {"approved", "denied", "consumed"} <=> txn[u].by # None
        /\ txn[u].by # None =>
              /\ CitizenOf[txn[u].by] = txn[u].citizen
              /\ alMeets(Level[txn[u].by], txn[u].al)
              /\ \E x \in Challenges : SpentOn(chal, x, u, txn[u].by)
    BY DEF DeciderInv, DecidedByOwnDevice, SpentOn
  <1>2. \A x \in Challenges : \A b \in Bindings : SpentOn(chal, x, u, b) => SpentOn(chal', x, u, b)
    BY SpentStays DEF SpentOn
  <1>3. txn[u].by \in Bindings \cup {None}
    BY DEF TypeOK, Txn
  \* The decider stays; the status may move, on the same side of the decision.
  <1>kept. ASSUME txn'[u].by = txn[u].by, txn'[u].citizen = txn[u].citizen,
                  txn'[u].al = txn[u].al,
                  txn'[u].status \in {"approved", "denied", "consumed"} <=>
                      txn[u].status \in {"approved", "denied", "consumed"}
           PROVE  Good
    BY <1>kept, <1>1, <1>2, <1>3
  <1>same. ASSUME txn'[u] = txn[u] PROVE Good
    BY <1>same, <1>kept
  <1>4. ASSUME NEW i \in DeviceCalls, DecisionResolve(i) PROVE Good
    <2>1. CASE txn[u].status = "pending" /\ u = dcall[i].txn
      <3> DEFINE b == dcall[i].dev
      <3>1. b \in Bindings /\ dcall[i].ch \in Challenges
        BY <1>4 DEF DecisionResolve, CallShape, DeviceShape, DecidePcs
      <3>2. /\ txn'[u].status \in {"approved", "denied"} /\ txn'[u].by = b
            /\ txn'[u].citizen = txn[u].citizen /\ txn'[u].al = txn[u].al
        BY <1>4, <2>1 DEF DecisionResolve, Resolve, TypeOK, Txn
      <3>3. /\ txn[u].citizen = CitizenOf[b] /\ alMeets(Level[b], txn[u].al)
            /\ SpentOn(chal, dcall[i].ch, u, b)
        BY <1>4, <2>1 DEF DecisionResolve, DeciderInv, DeciderCalls, OwnerPcs, LevelPcs
      <3>4. SpentOn(chal', dcall[i].ch, u, b)
        BY <3>1, <3>3, <1>2
      <3> HIDE DEF b
      <3> QED BY <3>1, <3>2, <3>3, <3>4, NoneAssumption
    <2>2. CASE ~(txn[u].status = "pending" /\ u = dcall[i].txn)
      <3>1. txn'[u] = txn[u]
        BY <1>4, <2>2 DEF DecisionResolve, Resolve, TypeOK, Txn
      <3> QED BY <3>1, <1>same
    <2> QED BY <2>1, <2>2
  <1>5. ASSUME NEW i \in RpCalls, NEW t \in Txns,
               BcInsert(i, t) \/ AuthorizeInsert(i, t)
        PROVE  Good
    BY <1>5, <1>same DEF BcInsert, AuthorizeInsert, InsertTxn, TypeOK
  <1>6. ASSUME NEW i \in RpCalls, CibaGrantExpire(i) PROVE Good
    <2>1. \/ txn'[u] = txn[u]
          \/ /\ txn[u].status = "pending" /\ txn'[u].status = "expired"
             /\ txn'[u].by = txn[u].by /\ txn'[u].citizen = txn[u].citizen
             /\ txn'[u].al = txn[u].al
      BY <1>6 DEF CibaGrantExpire, TypeOK, Txn
    <2> QED BY <2>1, <1>same, <1>kept
  <1>7. ASSUME NEW i \in RpCalls, CibaGrantConsume(i) \/ PollConsume(i)
        PROVE  Good
    <2>1. \/ txn'[u] = txn[u]
          \/ /\ txn[u].status = "approved" /\ txn'[u].status = "consumed"
             /\ txn'[u].by = txn[u].by /\ txn'[u].citizen = txn[u].citizen
             /\ txn'[u].al = txn[u].al
      BY <1>7 DEF CibaGrantConsume, PollConsume, ConsumeTxn, TypeOK, Txn
    <2> QED BY <2>1, <1>same, <1>kept
  <1> HIDE DEF Good
  <1>8. Good
    BY <1>same, <1>4, <1>5, <1>6, <1>7, DeviceWritesTxns, RpWritesTxns,
       EnvironmentLeavesCalls DEF Next, vars, txnVars
  <1> QED BY <1>8 DEF Good

\* Whatever devices race to decide, a decision is that of a device of the
\* transaction's citizen, of sufficient level, with its own challenge used up.
THEOREM DecidersAreOwners == Spec => []DecidedByOwnDevice
  <1>1. Init => DeciderInv
    BY DEF Init, DeciderInv, DeciderCalls, DecidedByOwnDevice, IdleDevice, OwnerPcs,
           LevelPcs
  <1>2. TypeOK /\ CallShape /\ DeciderInv /\ [Next]_vars => DeciderInv'
    BY DeciderCallsStep, DecidedStep DEF DeciderInv
  <1>3. DeciderInv => DecidedByOwnDevice
    BY DEF DeciderInv
  <1> QED BY <1>1, <1>2, <1>3, TypeCorrect, PTL DEF Spec

-----------------------------------------------------------------------------
(* Consent and audit before tokens leave. *)

\* Calls of the CIBA grant that have consumed their transaction, and calls that
\* act on a transaction of the code flow.
PaidPcs == {"gMint", "gConsent", "gAuditConsent", "gAudit"}
CodeFlowPcs == {"pStash", "pConsume", "pInsert", "pDelStash", "pAudit", "cConsume",
                "cMint", "cAudit"}

Granted(t) == [ev |-> "consent_granted", txn |-> t, by |-> None]
Issued(t, b) == [ev |-> "tokens_issued", txn |-> t, by |-> b]

\* What a redemption in flight has done so far.
ConsentCalls ==
    \A i \in RpCalls :
        LET pc == rcall[i].pc
            t == rcall[i].txn
        IN
        /\ pc \in PaidPcs => txn[t].status = "consumed"
        /\ pc \in {"gAuditConsent", "gAudit"} => t \in consent
        /\ pc = "gAudit" => Granted(t) \in log
        /\ pc \in CodeFlowPcs => txn[t].status # "none" /\ txn[t].flow = "code"

CodesAreCodeFlow == \A k \in Codes : code[k].txn # None => txn[code[k].txn].flow = "code"

\* A token set that left was minted, and if it is of a CIBA transaction the
\* consent grant and the two audit rows are written.
Consented(j) ==
    LET t == tok[j].txn IN
    /\ t # None
    /\ txn[t].flow = "ciba" =>
          t \in consent /\ Granted(t) \in log /\ Issued(t, txn[t].by) \in log

ConsentInv ==
    /\ ConsentCalls
    /\ CodesAreCodeFlow
    /\ \A j \in released : Consented(j)

\* The ledger grows, and a minted token set is never rewritten.
LEMMA LedgerGrows ==
    ASSUME TypeOK, [Next]_vars
    PROVE  /\ consent \subseteq consent' /\ log \subseteq log'
           /\ \A j \in Jtis : tok[j].txn # None => tok'[j] = tok[j]
           /\ released' # released =>
                 \E i \in RpCalls : CibaGrantAudit(i) \/ CodeGrantAudit(i)
  <1> USE DEF ledger
  <1>1. ASSUME NEW i \in DeviceCalls,
               DeviceRequest(i) \/ DeviceStep(i) \/ DeviceAbort(i)
        PROVE  /\ consent' = consent /\ log \subseteq log' /\ tok' = tok
               /\ released' = released
    BY <1>1 DEF DeviceRequest, DeviceStep, DeviceAbort, Pending, PendingList, IssueCiba,
       Decision, DecisionRead, DecisionBinding, ReassertRead, ReassertSdid,
       ReassertSuspend, ReassertRevoke, ReassertStamp, ConsumeCiba,
       DecisionResolve, DecisionAudit, Record
  <1>2. ASSUME NEW i \in RpCalls, RpRequest(i) \/ RpStep(i) \/ RpAbort(i)
        PROVE  /\ consent \subseteq consent' /\ log \subseteq log'
               /\ \A j \in Jtis : tok[j].txn # None => tok'[j] = tok[j]
               /\ released' # released => CibaGrantAudit(i) \/ CodeGrantAudit(i)
    <2>1. ASSUME NEW j \in Jtis, CibaGrantMint(i, j) \/ CodeGrantMint(i, j)
          PROVE  /\ consent' = consent /\ log' = log /\ released' = released
                 /\ \A n \in Jtis : tok[n].txn # None => tok'[n] = tok[n]
      BY <2>1 DEF CibaGrantMint, CodeGrantMint, Mint, TypeOK
    <2>2. CASE ~\E j \in Jtis : CibaGrantMint(i, j) \/ CodeGrantMint(i, j)
      BY <1>2, <2>2
         DEF RpRequest, RpStep, RpAbort, BcAuthorize, BcInsert, Authorize,
         AuthorizeInsert, AuthorizeStash, CibaGrant, CibaGrantRead,
         CibaGrantExpire, CibaGrantAuditExpired, CibaGrantConsume,
         CibaGrantConsent, CibaGrantAuditConsent, CibaGrantAudit, AuthorizePoll,
         PollStash, PollConsume, PollInsert, PollDelStash, PollAudit, CodeGrant,
         CodeGrantRead, CodeGrantConsume, CodeGrantAudit, Record
    <2> QED BY <2>1, <2>2
  <1>3. ASSUME Environment
        PROVE  UNCHANGED <<consent, log, tok, released>>
    BY <1>3 DEF Environment, Lapse, StashExpires, ChallengeExpires, CodeLapses,
       Stales, DeviceRevoked, SdidInvalidates, SuspendRp, txnVars
  <1>4. CASE UNCHANGED vars
    BY <1>4 DEF vars, txnVars
  <1> QED BY <1>1, <1>2, <1>3, <1>4 DEF Next

\* Each step of a redemption has done what the next one relies on, and what it
\* has done stays done while it waits.
LEMMA ConsentCallsStep ==
    TypeOK /\ CallShape /\ RedemptionRight /\ ConsentInv /\ [Next]_vars => ConsentCalls'
  <1> SUFFICES ASSUME TypeOK, CallShape, RedemptionRight, ConsentInv, [Next]_vars
               PROVE  ConsentCalls'
    OBVIOUS
  <1>1. \A t \in Txns : txn[t].status # "none" =>
            txn'[t].status # "none" /\ txn'[t].flow = txn[t].flow
    BY PartyStays
  <1>2. \A t \in Txns : txn[t].status = "consumed" => txn'[t].status = "consumed"
    BY ConsumedStays
  <1>3. consent \subseteq consent' /\ log \subseteq log'
    BY LedgerGrows
  <1>4. \A i \in RpCalls : rcall[i].pc \in PaidPcs \cup CodeFlowPcs => rcall[i].txn \in Txns
    BY DEF CallShape, RpShape, TxnPcs, RpPcs, OpenPcs, PaidPcs, CodeFlowPcs
  <1>5. \A m \in RpCalls : rcall'[m] = rcall[m] =>
            LET pc == rcall'[m].pc
                t == rcall'[m].txn
            IN
            /\ pc \in PaidPcs => txn'[t].status = "consumed"
            /\ pc \in {"gAuditConsent", "gAudit"} => t \in consent'
            /\ pc = "gAudit" => Granted(t) \in log'
            /\ pc \in CodeFlowPcs => txn'[t].status # "none" /\ txn'[t].flow = "code"
    BY <1>1, <1>2, <1>3, <1>4 DEF ConsentInv, ConsentCalls
  <1>same. ASSUME rcall' = rcall PROVE ConsentCalls'
    BY <1>same, <1>5 DEF ConsentCalls, Granted
  <1>rp. ASSUME NEW i \in RpCalls, RpRequest(i) \/ RpStep(i) \/ RpAbort(i)
         PROVE  ConsentCalls'
    <2> DEFINE t == rcall[i].txn
    <2>off. ASSUME \A m \in RpCalls : m # i => rcall'[m] = rcall[m],
                   rcall'[i].pc \notin PaidPcs \cup CodeFlowPcs
            PROVE  ConsentCalls'
      BY <2>off, <1>5 DEF ConsentCalls, Granted, PaidPcs
    <2>back. ASSUME RpReturn(i) PROVE ConsentCalls'
      BY <2>off, <2>back DEF RpReturn, IdleRp, TypeOK, PaidPcs, CodeFlowPcs
    <2>to. ASSUME NEW pc, NEW u,
                  \A m \in RpCalls : m # i => rcall'[m] = rcall[m],
                  rcall'[i].pc = pc, rcall'[i].txn = u,
                  pc \in PaidPcs => txn'[u].status = "consumed",
                  pc \in {"gAuditConsent", "gAudit"} => u \in consent',
                  pc = "gAudit" => Granted(u) \in log',
                  pc \in CodeFlowPcs => txn'[u].status # "none" /\ txn'[u].flow = "code"
           PROVE  ConsentCalls'
      BY <2>to, <1>5 DEF ConsentCalls, Granted
    <2>go. ASSUME NEW pc \in RpPcs, RpGoto(i, pc)
           PROVE  /\ \A m \in RpCalls : m # i => rcall'[m] = rcall[m]
                  /\ rcall'[i].pc = pc /\ rcall'[i].txn = t
      BY <2>go DEF RpGoto, TypeOK, RpCall
    <2>at. rcall[i].pc \in TxnPcs => t \in Txns
      BY DEF CallShape, RpShape
    <2>has. /\ rcall[i].pc \in PaidPcs => txn[t].status = "consumed"
            /\ rcall[i].pc \in {"gAuditConsent", "gAudit"} => t \in consent
            /\ rcall[i].pc \in CodeFlowPcs => txn[t].status # "none" /\ txn[t].flow = "code"
      BY DEF ConsentInv, ConsentCalls
    <2>1. ASSUME NEW r \in Rps, NEW c \in Citizens, NEW al \in RequestableALs,
                 BcAuthorize(i, r, c, al) \/ Authorize(i, r, c, al)
          PROVE  ConsentCalls'
      BY <2>1, <2>off DEF BcAuthorize, Authorize, RpStart, TypeOK, PaidPcs, CodeFlowPcs
    <2>2. ASSUME NEW u \in Txns, BcInsert(i, u) PROVE ConsentCalls'
      BY <2>2, <2>back DEF BcInsert
    <2>3. ASSUME NEW u \in Txns, AuthorizeInsert(i, u) PROVE ConsentCalls'
      BY <2>3, <2>off DEF AuthorizeInsert, RpCall, TypeOK, PaidPcs, CodeFlowPcs
    <2>4. ASSUME NEW r \in Rps, NEW u \in Txns, CibaGrant(i, r, u) PROVE ConsentCalls'
      BY <2>4, <2>off DEF CibaGrant, RpStart, TypeOK, PaidPcs, CodeFlowPcs
    <2>5. ASSUME NEW u \in Txns, AuthorizePoll(i, u) PROVE ConsentCalls'
      <3>1. /\ \A m \in RpCalls : m # i => rcall'[m] = rcall[m]
            /\ rcall'[i].pc = "pStash" /\ rcall'[i].txn = u
            /\ txn'[u].status # "none" /\ txn'[u].flow = "code"
        BY <2>5 DEF AuthorizePoll, RpStart, TypeOK
      <3> QED BY <2>to, <3>1 DEF PaidPcs
    <2>6. ASSUME NEW r \in Rps, NEW k \in Codes, CodeGrant(i, r, k) PROVE ConsentCalls'
      BY <2>6, <2>off DEF CodeGrant, RpStart, TypeOK, PaidPcs, CodeFlowPcs
    <2>7. CASE AuthorizeStash(i) \/ CibaGrantAuditExpired(i) \/ CibaGrantAudit(i)
               \/ PollAudit(i) \/ CodeGrantAudit(i) \/ RpAbort(i)
      BY <2>7, <2>back DEF AuthorizeStash, CibaGrantAuditExpired, CibaGrantAudit,
                           PollAudit, CodeGrantAudit, RpAbort
    <2>8. CASE CibaGrantRead(i) \/ CibaGrantExpire(i)
      <3>1. \/ RpReturn(i)
            \/ \E pc \in {"gExpire", "gConsume", "gAuditExpired"} : RpGoto(i, pc)
        BY <2>8 DEF CibaGrantRead, CibaGrantExpire
      <3> QED BY <2>back, <2>off, <2>go, <3>1 DEF RpPcs, PaidPcs, CodeFlowPcs
    <2>9. CASE CibaGrantConsume(i)
      <3>1. CASE txn[t].status = "approved"
        <4>1. RpGoto(i, "gMint") /\ txn'[t].status = "consumed"
          BY <2>9, <2>at, <3>1 DEF CibaGrantConsume, ConsumeTxn, TypeOK, Txn, TxnPcs,
             RpPcs, OpenPcs
        <4> QED BY <2>to, <2>go, <4>1 DEF RpPcs, CodeFlowPcs
      <3> QED BY <2>9, <2>back, <3>1 DEF CibaGrantConsume, ConsumeTxn
    <2>10. ASSUME NEW j \in Jtis, CibaGrantMint(i, j) PROVE ConsentCalls'
      <3>1. rcall[i].pc = "gMint" /\ RpGoto(i, "gConsent") /\ t \in Txns
        BY <2>10, <2>at DEF CibaGrantMint, TxnPcs, RpPcs, OpenPcs
      <3>2. txn'[t].status = "consumed"
        BY <3>1, <2>has, <1>2 DEF PaidPcs
      <3> HIDE DEF t
      <3> QED BY <2>to, <2>go, <3>1, <3>2 DEF RpPcs, CodeFlowPcs
    <2>11. CASE CibaGrantConsent(i)
      <3>1. /\ rcall[i].pc = "gConsent" /\ RpGoto(i, "gAuditConsent")
            /\ t \in Txns /\ t \in consent'
        BY <2>11, <2>at DEF CibaGrantConsent, TxnPcs, RpPcs, OpenPcs
      <3>2. txn'[t].status = "consumed"
        BY <3>1, <2>has, <1>2 DEF PaidPcs
      <3> HIDE DEF t
      <3> QED BY <2>to, <2>go, <3>1, <3>2 DEF RpPcs, CodeFlowPcs
    <2>12. CASE CibaGrantAuditConsent(i)
      <3>1. /\ rcall[i].pc = "gAuditConsent" /\ RpGoto(i, "gAudit")
            /\ t \in Txns /\ Granted(t) \in log'
        BY <2>12, <2>at DEF CibaGrantAuditConsent, Record, Granted, TxnPcs, RpPcs, OpenPcs
      <3>2. txn'[t].status = "consumed" /\ t \in consent'
        BY <3>1, <2>has, <1>2, <1>3 DEF PaidPcs
      <3> HIDE DEF t
      <3> QED BY <2>to, <2>go, <3>1, <3>2 DEF RpPcs, CodeFlowPcs
    \* The steps of the code flow, each on the transaction of the one before.
    <2>13. ASSUME rcall[i].pc \in CodeFlowPcs,
                  NEW pc \in CodeFlowPcs, RpGoto(i, pc)
           PROVE  ConsentCalls'
      <3>1. t \in Txns /\ pc \in RpPcs /\ pc \notin PaidPcs
        BY <2>13, <2>at DEF CodeFlowPcs, TxnPcs, RpPcs, OpenPcs, PaidPcs
      <3>2. txn'[t].status # "none" /\ txn'[t].flow = "code"
        BY <3>1, <2>13, <2>has, <1>1
      <3> HIDE DEF t
      <3> QED BY <2>to, <2>go, <2>13, <3>1, <3>2 DEF PaidPcs
    <2>14. CASE PollStash(i) \/ PollConsume(i) \/ PollDelStash(i) \/ CodeGrantConsume(i)
      BY <2>14, <2>13, <2>back DEF PollStash, PollConsume, ConsumeTxn, PollDelStash,
                                   CodeGrantConsume, CodeFlowPcs
    <2>15. ASSUME NEW k \in Codes, PollInsert(i, k) PROVE ConsentCalls'
      BY <2>15, <2>13 DEF PollInsert, CodeFlowPcs
    <2>16. ASSUME NEW j \in Jtis, CodeGrantMint(i, j) PROVE ConsentCalls'
      BY <2>16, <2>13 DEF CodeGrantMint, CodeFlowPcs
    <2>17. CASE CodeGrantRead(i)
      <3>1. CASE CodeValid(rcall[i].code, rcall[i].rp)
        <4> DEFINE u == code[rcall[i].code].txn
        <4>1. /\ \A m \in RpCalls : m # i => rcall'[m] = rcall[m]
              /\ rcall'[i].pc = "cConsume" /\ rcall'[i].txn = u
          BY <2>17, <3>1 DEF CodeGrantRead, TypeOK, RpCall
        <4>2. u \in Txns /\ rcall[i].code \in Codes
          BY <2>17, <3>1 DEF CodeGrantRead, CodeValid, CallShape, CodeShape, RpShape,
             CodePcs
        <4>3. txn'[u].status # "none" /\ txn'[u].flow = "code"
          BY <4>2, <1>1, NoneAssumption
             DEF ConsentInv, CodesAreCodeFlow, RedemptionRight, RightsAreConsumed
        <4> HIDE DEF u
        <4> QED BY <2>to, <4>1, <4>3 DEF PaidPcs
      <3> QED BY <2>17, <2>back, <3>1 DEF CodeGrantRead
    <2> QED BY <1>rp, <2>1, <2>2, <2>3, <2>4, <2>5, <2>6, <2>7, <2>8, <2>9, <2>10,
               <2>11, <2>12, <2>14, <2>15, <2>16, <2>17 DEF RpRequest, RpStep
  <1> QED BY <1>same, <1>rp, DeviceLeavesRp, EnvironmentLeavesCalls
          DEF Next, vars, txnVars

\* Codes are made out for transactions of the code flow only.
LEMMA CodesStep ==
    TypeOK /\ CallShape /\ RedemptionRight /\ ConsentInv /\ [Next]_vars
        => CodesAreCodeFlow'
  <1> SUFFICES ASSUME TypeOK, CallShape, RedemptionRight, ConsentInv, [Next]_vars
               PROVE  CodesAreCodeFlow'
    OBVIOUS
  <1>1. \A t \in Txns : txn[t].status # "none" => txn'[t].flow = txn[t].flow
    BY PartyStays
  <1>2. \A k \in Codes : code[k].txn # None =>
            code[k].txn \in Txns /\ txn[code[k].txn].status # "none"
    BY DEF TypeOK, Code, RedemptionRight, RightsAreConsumed
  <1>same. ASSUME \A k \in Codes : code'[k].txn = code[k].txn PROVE CodesAreCodeFlow'
    BY <1>same, <1>1, <1>2 DEF ConsentInv, CodesAreCodeFlow
  <1>3. ASSUME NEW i \in RpCalls, NEW k \in Codes, PollInsert(i, k)
        PROVE  CodesAreCodeFlow'
    <2>1. /\ \A l \in Codes : l # k => code'[l] = code[l]
          /\ code'[k].txn = rcall[i].txn /\ txn' = txn
      BY <1>3 DEF PollInsert, TypeOK, Code
    <2>2. txn[rcall[i].txn].flow = "code"
      BY <1>3 DEF PollInsert, ConsentInv, ConsentCalls, CodeFlowPcs
    <2> QED BY <2>1, <2>2 DEF ConsentInv, CodesAreCodeFlow
  <1>4. ASSUME NEW i \in RpCalls, CodeGrantConsume(i) PROVE CodesAreCodeFlow'
    BY <1>4, <1>same DEF CodeGrantConsume, TypeOK, Code
  <1> QED BY <1>same, <1>3, <1>4, RpWritesCodes, DeviceLeavesRp, EnvironmentLeavesCalls
          DEF Next, vars, txnVars

\* A token set leaves with its consent and its audit rows written, and they stay.
LEMMA ReleasedStep ==
    TypeOK /\ CallShape /\ RedemptionRight /\ ConsentInv /\ [Next]_vars
        => \A j \in released' : Consented(j)'
  <1> SUFFICES ASSUME TypeOK, CallShape, RedemptionRight, ConsentInv, [Next]_vars,
                      NEW j \in released'
               PROVE  Consented(j)'
    OBVIOUS
  <1>1. consent \subseteq consent' /\ log \subseteq log'
        /\ \A m \in Jtis : tok[m].txn # None => tok'[m] = tok[m]
    BY LedgerGrows
  <1>2. \A m \in Jtis : tok[m].txn # None =>
            tok[m].txn \in Txns /\ txn[tok[m].txn].status = "consumed"
    BY DEF TypeOK, Token, RedemptionRight, RightsAreConsumed
  <1>3. \A t \in Txns : txn[t].status = "consumed" =>
            txn'[t].by = txn[t].by /\ txn'[t].flow = txn[t].flow
    BY SettledStep, PartyStays DEF Settled
  <1>4. CASE j \in released
    <2>1. j \in Jtis /\ Consented(j)
      BY <1>4 DEF ConsentInv, TypeOK
    <2> QED BY <2>1, <1>1, <1>2, <1>3 DEF Consented, Granted, Issued
  <1>5. CASE j \notin released
    <2>1. PICK i \in RpCalls : CibaGrantAudit(i) \/ CodeGrantAudit(i)
      BY <1>5, LedgerGrows
    <2> DEFINE t == rcall[i].txn
    <2>2. j \in Jtis /\ tok[j].txn = t /\ txn' = txn /\ tok' = tok /\ consent' = consent
      BY <1>5, <2>1 DEF CibaGrantAudit, CodeGrantAudit, Release
    <2>3. t \in Txns
      BY <2>1 DEF CibaGrantAudit, CodeGrantAudit, CallShape, RpShape, TxnPcs, RpPcs, OpenPcs
    <2>4. CASE CibaGrantAudit(i)
      <3>1. t \in consent /\ Granted(t) \in log /\ Issued(t, txn[t].by) \in log'
        BY <2>4 DEF CibaGrantAudit, Record, ConsentInv, ConsentCalls, Issued
      <3> HIDE DEF t
      <3> QED BY <2>2, <2>3, <3>1, <1>1, NoneAssumption DEF Consented, Granted, Issued
    <2>5. CASE CodeGrantAudit(i)
      <3>1. txn[t].flow = "code"
        BY <2>5 DEF CodeGrantAudit, ConsentInv, ConsentCalls, CodeFlowPcs
      <3> HIDE DEF t
      <3> QED BY <2>2, <2>3, <3>1, NoneAssumption DEF Consented
    <2> QED BY <2>1, <2>4, <2>5
  <1> QED BY <1>4, <1>5

\* Whatever fails between the UPDATE that consumes a CIBA transaction and the
\* answer, tokens leave the broker only with the consent grant and both audit
\* rows written (cibaGrant).
THEOREM ReleasedWithConsent == Spec => []ReleasedIsConsented
  <1>1. Init => ConsentInv
    BY DEF Init, ConsentInv, ConsentCalls, CodesAreCodeFlow, IdleRp, PaidPcs, CodeFlowPcs
  <1>2. TypeOK /\ CallShape /\ RedemptionRight /\ ConsentInv /\ [Next]_vars => ConsentInv'
    BY ConsentCallsStep, CodesStep, ReleasedStep DEF ConsentInv
  <1>3. ConsentInv => ReleasedIsConsented
    BY DEF ConsentInv, Consented, ReleasedIsConsented, Granted, Issued
  <1> QED BY <1>1, <1>2, <1>3, TypeCorrect, RightIsNeverCopied, PTL DEF Spec

-----------------------------------------------------------------------------
(* The handlers implement the contract. *)

\* The refinement mapping, by its parts.
StateMap == [t \in Txns |-> txn[t].status]
PartyMap == [t \in Txns |-> <<txn[t].rp, txn[t].citizen>>]
DeciderMap == [t \in Txns |-> txn[t].by]
IssuedMap == [t \in Txns |->
                {<<j, tok[j].rp>> : j \in {m \in Jtis : tok[m].txn = t}}]

Mapped == <<StateMap, PartyMap, DeciderMap, IssuedMap>>

\* Steps that write neither auth_transactions nor token sets are stutters.
LEMMA MapStutters == UNCHANGED <<txn, tok>> => UNCHANGED Mapped
  BY DEF Mapped, StateMap, PartyMap, DeciderMap, IssuedMap

\* A step that writes one row of auth_transactions changes the mapping there only.
LEMMA MapOfRow ==
    ASSUME NEW t \in Txns, \A u \in Txns : u # t => txn'[u] = txn[u], tok' = tok
    PROVE  /\ StateMap' = [StateMap EXCEPT ![t] = txn'[t].status]
           /\ PartyMap' = [PartyMap EXCEPT ![t] = <<txn'[t].rp, txn'[t].citizen>>]
           /\ DeciderMap' = [DeciderMap EXCEPT ![t] = txn'[t].by]
           /\ IssuedMap' = IssuedMap
  <1>1. StateMap' = [StateMap EXCEPT ![t] = txn'[t].status]
    BY DEF StateMap
  <1>2. PartyMap' = [PartyMap EXCEPT ![t] = <<txn'[t].rp, txn'[t].citizen>>]
    BY DEF PartyMap
  <1>3. DeciderMap' = [DeciderMap EXCEPT ![t] = txn'[t].by]
    BY DEF DeciderMap
  <1>4. IssuedMap' = IssuedMap
    BY DEF IssuedMap
  <1> QED BY <1>1, <1>2, <1>3, <1>4

\* A column that keeps its value keeps its part of the mapping.
LEMMA MapKept ==
    ASSUME NEW t \in Txns
    PROVE  /\ [PartyMap EXCEPT ![t] = <<txn[t].rp, txn[t].citizen>>] = PartyMap
           /\ [DeciderMap EXCEPT ![t] = txn[t].by] = DeciderMap
  <1>1. [PartyMap EXCEPT ![t] = <<txn[t].rp, txn[t].citizen>>] = PartyMap
    BY DEF PartyMap
  <1>2. [DeciderMap EXCEPT ![t] = txn[t].by] = DeciderMap
    BY DEF DeciderMap
  <1> QED BY <1>1, <1>2

\* The INSERT of a transaction opens it for the client and the citizen of the call.
LEMMA InsertOpens ==
    ASSUME TypeOK, CallShape, DeciderInv, NEW i \in RpCalls, NEW t \in Txns,
           BcInsert(i, t) \/ AuthorizeInsert(i, t)
    PROVE  Contract!AOpen(t)
  <1> DEFINE r == rcall[i].rp
             c == rcall[i].citizen
  <1>1. r \in Rps /\ c \in Citizens
    BY DEF BcInsert, AuthorizeInsert, CallShape, RpShape, OpenPcs
  <1>2. /\ txn[t].status = "none" /\ tok' = tok
        /\ \A u \in Txns : u # t => txn'[u] = txn[u]
        /\ txn'[t].status = "pending" /\ txn'[t].rp = r /\ txn'[t].citizen = c
        /\ txn'[t].by = None
    BY DEF BcInsert, AuthorizeInsert, InsertTxn, TypeOK
  <1>3. txn[t].by = None
    BY <1>2 DEF DeciderInv, DecidedByOwnDevice
  <1> HIDE DEF r, c
  <1>4. /\ StateMap[t] = "none"
        /\ StateMap' = [StateMap EXCEPT ![t] = "pending"]
        /\ PartyMap' = [PartyMap EXCEPT ![t] = <<r, c>>]
        /\ DeciderMap' = DeciderMap /\ IssuedMap' = IssuedMap
    BY <1>2, <1>3, MapOfRow, MapKept DEF StateMap
  <1> QED BY <1>1, <1>4
          DEF Contract!AOpen, StateMap, PartyMap, DeciderMap, IssuedMap

\* The UPDATE of decision() decides a pending transaction for one of the citizen's
\* devices, or changes no row.
LEMMA ResolveDecides ==
    ASSUME TypeOK, CallShape, DeciderInv, NEW i \in DeviceCalls, DecisionResolve(i)
    PROVE  (\E t \in Txns : Contract!ADecide(t)) \/ UNCHANGED <<txn, tok>>
  <1> DEFINE b == dcall[i].dev
  <1>0. dcall[i].txn \in Txns /\ b \in Bindings
    BY DEF DecisionResolve, CallShape, DeviceShape, DecidePcs
  <1>1. PICK t \in Txns : t = dcall[i].txn
    BY <1>0
  <1>2. txn[t].citizen = CitizenOf[b] /\ tok' = tok
    BY <1>1 DEF DecisionResolve, DeciderInv, DeciderCalls, OwnerPcs, LevelPcs
  <1>3. CASE txn[t].status # "pending"
    BY <1>1, <1>2, <1>3 DEF DecisionResolve, Resolve
  <1>4. CASE txn[t].status = "pending"
    <2>1. PICK s \in {"approved", "denied"} :
            txn' = [txn EXCEPT ![t].status = s, ![t].by = b]
      BY <1>1, <1>4 DEF DecisionResolve, Resolve
    <2> HIDE DEF b
    <2>2. /\ \A u \in Txns : u # t => txn'[u] = txn[u]
          /\ txn'[t].status = s /\ txn'[t].by = b
          /\ txn'[t].rp = txn[t].rp /\ txn'[t].citizen = txn[t].citizen
      BY <1>1, <2>1 DEF TypeOK, Txn
    <2>3. /\ StateMap[t] = "pending" /\ CitizenOf[b] = PartyMap[t][2]
          /\ StateMap' = [StateMap EXCEPT ![t] = s]
          /\ DeciderMap' = [DeciderMap EXCEPT ![t] = b]
          /\ PartyMap' = PartyMap /\ IssuedMap' = IssuedMap
      <3>1. StateMap[t] = "pending" /\ CitizenOf[b] = PartyMap[t][2]
        BY <1>1, <1>2, <1>4 DEF StateMap, PartyMap
      <3>2. StateMap' = [StateMap EXCEPT ![t] = s]
        BY <1>1, <1>4, <2>2, MapOfRow DEF StateMap
      <3>3. DeciderMap' = [DeciderMap EXCEPT ![t] = b]
        BY <1>1, <1>4, <2>2, MapOfRow DEF DeciderMap
      <3>4. PartyMap' = PartyMap /\ IssuedMap' = IssuedMap
        BY <1>1, <1>2, <1>4, <2>2, MapOfRow, MapKept
      <3> QED BY <3>1, <3>2, <3>3, <3>4
    <2>4. Contract!ADecide(t)
      BY <1>0, <2>3 DEF Contract!ADecide, StateMap, PartyMap, DeciderMap, IssuedMap
    <2> QED BY <2>4
  <1> QED BY <1>3, <1>4

\* The UPDATEs that expire or consume a transaction do so to one that is pending
\* or approved, or change no row.
LEMMA StatusMoves ==
    ASSUME TypeOK, CallShape, NEW i \in RpCalls,
           CibaGrantExpire(i) \/ CibaGrantConsume(i) \/ PollConsume(i)
    PROVE  \/ \E t \in Txns : Contract!AExpire(t) \/ Contract!ARedeem(t)
           \/ UNCHANGED <<txn, tok>>
  <1>0. rcall[i].txn \in Txns /\ tok' = tok
    BY DEF CibaGrantExpire, CibaGrantConsume, PollConsume, CallShape, RpShape, TxnPcs,
           RpPcs, OpenPcs
  <1>1. PICK t \in Txns : t = rcall[i].txn
    BY <1>0
  <1>2. \/ txn' = txn
        \/ txn[t].status = "pending" /\ txn' = [txn EXCEPT ![t].status = "expired"]
        \/ txn[t].status = "approved" /\ txn' = [txn EXCEPT ![t].status = "consumed"]
    BY <1>1 DEF CibaGrantExpire, CibaGrantConsume, PollConsume, ConsumeTxn
  <1>3. ASSUME NEW s \in TxnStatus, txn' = [txn EXCEPT ![t].status = s]
        PROVE  /\ StateMap' = [StateMap EXCEPT ![t] = s]
               /\ UNCHANGED <<PartyMap, DeciderMap, IssuedMap>>
    <2>1. /\ \A u \in Txns : u # t => txn'[u] = txn[u]
          /\ txn'[t].status = s /\ txn'[t].by = txn[t].by
          /\ txn'[t].rp = txn[t].rp /\ txn'[t].citizen = txn[t].citizen
      BY <1>1, <1>3 DEF TypeOK, Txn
    <2> QED BY <1>0, <2>1, MapOfRow, MapKept
  <1>4. CASE txn[t].status = "pending" /\ txn' = [txn EXCEPT ![t].status = "expired"]
    <2>1. /\ StateMap[t] = "pending" /\ StateMap' = [StateMap EXCEPT ![t] = "expired"]
          /\ UNCHANGED <<PartyMap, DeciderMap, IssuedMap>>
      BY <1>1, <1>3, <1>4 DEF TxnStatus, StateMap
    <2>2. Contract!AExpire(t)
      BY <2>1 DEF Contract!AExpire, StateMap, PartyMap, DeciderMap, IssuedMap
    <2> QED BY <2>2
  <1>5. CASE txn[t].status = "approved" /\ txn' = [txn EXCEPT ![t].status = "consumed"]
    <2>1. /\ StateMap[t] = "approved" /\ StateMap' = [StateMap EXCEPT ![t] = "consumed"]
          /\ UNCHANGED <<PartyMap, DeciderMap, IssuedMap>>
      BY <1>1, <1>3, <1>5 DEF TxnStatus, StateMap
    <2>2. Contract!ARedeem(t)
      BY <2>1 DEF Contract!ARedeem, StateMap, PartyMap, DeciderMap, IssuedMap
    <2> QED BY <2>2
  <1> QED BY <1>0, <1>2, <1>4, <1>5

\* Minting issues the one token set of a consumed transaction, to its client.
LEMMA MintIssues ==
    ASSUME TypeOK, CallShape, RedemptionRight, RequesterInv,
           NEW i \in RpCalls, NEW j \in Jtis, CibaGrantMint(i, j) \/ CodeGrantMint(i, j)
    PROVE  \E t \in Txns : Contract!AIssue(t)
  <1> DEFINE r == rcall[i].rp
  <1>0. PICK t \in Txns : t = rcall[i].txn
    BY DEF CibaGrantMint, CodeGrantMint, CallShape, RpShape, TxnPcs, RpPcs, OpenPcs
  <1>1. /\ txn' = txn /\ tok[j].txn = None
        /\ tok' = [tok EXCEPT ![j] = [txn |-> t, rp |-> r]]
    BY <1>0 DEF CibaGrantMint, CodeGrantMint, Mint
  <1>2. /\ txn[t].status = "consumed" /\ txn[t].rp = r
        /\ \A m \in Jtis : tok[m].txn # t
    BY <1>0 DEF CibaGrantMint, CodeGrantMint, RedemptionRight, RightsAreConsumed,
           HolderOrTokens, Holds, RequesterInv, ClientChecked
  <1> HIDE DEF r
  <1>3. /\ \A m \in Jtis : m # j => tok'[m] = tok[m]
        /\ tok'[j].txn = t /\ tok'[j].rp = r
    BY <1>1 DEF TypeOK
  <1>4. {<<m, tok'[m].rp>> : m \in {n \in Jtis : tok'[n].txn = t}} = {<<j, r>>}
    BY <1>1, <1>2, <1>3
  <1>5. \A u \in Txns : u # t =>
           {<<m, tok'[m].rp>> : m \in {n \in Jtis : tok'[n].txn = u}}
             = {<<m, tok[m].rp>> : m \in {n \in Jtis : tok[n].txn = u}}
    <2> SUFFICES ASSUME NEW u \in Txns, u # t
                 PROVE  {<<m, tok'[m].rp>> : m \in {n \in Jtis : tok'[n].txn = u}}
                          = {<<m, tok[m].rp>> : m \in {n \in Jtis : tok[n].txn = u}}
      OBVIOUS
    <2>1. {n \in Jtis : tok'[n].txn = u} = {n \in Jtis : tok[n].txn = u}
      BY <1>1, <1>3, NoneAssumption
    <2>2. \A n \in {m \in Jtis : tok[m].txn = u} : tok'[n] = tok[n]
      BY <1>1, <1>3, NoneAssumption
    <2> QED BY <2>1, <2>2
  <1>6. IssuedMap' = [IssuedMap EXCEPT ![t] = {<<j, r>>}]
    BY <1>1, <1>4, <1>5 DEF IssuedMap
  <1>7. IssuedMap[t] = {} /\ StateMap[t] = "consumed" /\ PartyMap[t][1] = r
    BY <1>1, <1>2 DEF IssuedMap, StateMap, PartyMap
  <1>8. UNCHANGED <<StateMap, PartyMap, DeciderMap>>
    BY <1>1 DEF StateMap, PartyMap, DeciderMap
  <1>9. Contract!AIssue(t)
    BY <1>6, <1>7, <1>8 DEF Contract!AIssue, StateMap, PartyMap, DeciderMap, IssuedMap
  <1> QED BY <1>9

\* Every step of every handler is a step of the contract or a stutter.
LEMMA ContractStep ==
    TypeOK /\ CallShape /\ RedemptionRight /\ RequesterInv /\ DeciderInv /\ [Next]_vars
        => [Contract!ANext]_(Contract!specVars)
  <1> SUFFICES ASSUME TypeOK, CallShape, RedemptionRight, RequesterInv, DeciderInv,
                      [Next]_vars
               PROVE  Contract!ANext \/ UNCHANGED <<txn, tok>>
    BY MapStutters
       DEF Contract!specVars, Mapped, StateMap, PartyMap, DeciderMap, IssuedMap
  <1>1. ASSUME NEW i \in DeviceCalls,
               DeviceRequest(i) \/ DeviceStep(i) \/ DeviceAbort(i)
        PROVE  Contract!ANext \/ UNCHANGED <<txn, tok>>
    BY <1>1, DeviceWritesTxns, DeviceLeavesRp, ResolveDecides DEF Contract!ANext
  <1>2. ASSUME NEW i \in RpCalls, RpRequest(i) \/ RpStep(i) \/ RpAbort(i)
        PROVE  Contract!ANext \/ UNCHANGED <<txn, tok>>
    <2>1. CASE txn' # txn
      BY <1>2, <2>1, RpWritesTxns, InsertOpens, StatusMoves DEF Contract!ANext
    <2>2. CASE tok' # tok
      BY <1>2, <2>2, RpMovesRights, MintIssues
         DEF Contract!ANext, CibaGrantConsume, PollConsume, PollInsert, CodeGrantRead,
             CodeGrantConsume
    <2> QED BY <2>1, <2>2
  <1> QED BY <1>1, <1>2, EnvironmentLeavesCalls DEF Next, vars, txnVars

\* The broker keeps the contract: whatever happens inside it, a transaction is
\* opened for one relying party and one citizen, decided once by a device of that
\* citizen, redeemed once, and paid once to the relying party that opened it.
THEOREM HandlersImplementContract == Spec => ImplementsContract
  <1>1. Init => Contract!AInit
    BY NoneAssumption DEF Init, Contract!AInit
  <1>2. Init => RequesterInv /\ DeciderInv
    BY DEF Init, RequesterInv, ClientChecked, TokensGoToRequester, IdleRp,
           DeciderInv, DeciderCalls, DecidedByOwnDevice, IdleDevice, OwnerPcs, LevelPcs
  <1>3. TypeOK /\ CallShape /\ DeciderInv /\ [Next]_vars => DeciderInv'
    BY DeciderCallsStep, DecidedStep DEF DeciderInv
  <1> QED BY <1>1, <1>2, <1>3, TypeCorrect, RightIsNeverCopied, RequesterStep,
             ContractStep, PTL DEF Spec, ImplementsContract, Contract!ASpec
=============================================================================
