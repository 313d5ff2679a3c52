------------------------ MODULE MobileClientProofs ------------------------
(***************************************************************************)
(* Proofs about MobileClient, for any bindings, keys and requests, any     *)
(* scenario, and any number of attempts and pulls.                         *)
(***************************************************************************)
EXTENDS MobileClient, TLAPS

-----------------------------------------------------------------------------
(* What an operation holds. *)

Kinds == {"none", "enrol", "refresh", "look", "revoke", "decide"}
Places == {"idle", "call", "checked", "answered", "ensure", "decide", "delete", "deleteRevoked"}
EnrolEps == {"attestationChallenge", "enrolStart", "enrolActivate"}
Endpoints == EnrolEps \cup {"none", "loginChallenge", "login"} \cup Authed
Backs == {"none", "decide"} \cup Authed
Answers == {"none", "ok", "refused", "access_denied", "binding_not_active"}
Verdicts == {"approved", "denied"}

Request == [txn : Txns, chal : Nat]

Op == [kind : Kinds, at : Places, ep : Endpoints, back : Backs, tries : Nat, relog : BOOLEAN,
       b : Bindings \cup {None}, key : Keys \cup {None}, token : Bindings \cup {None},
       ans : Answers, txn : Txns \cup {None}, chal : Nat, dec : Verdicts \cup {"none"},
       list : SUBSET Request]

Row == [status : {"none", "pending", "active", "revoked"}, key : Keys \cup {None}]

MobileTyped ==
    /\ binding \in Bindings \cup {None} /\ session \in Bindings \cup {None}
    /\ store \in SUBSET Keys
    /\ groups \in SUBSET Request /\ shown \in Request \cup {Nothing}
    /\ op \in [Slots -> Op]
    /\ bind \in [Bindings -> Row]
    /\ txn \in [Txns -> {"none", "pending"} \cup Verdicts]
    /\ chals \in SUBSET (Txns \X Nat) /\ pulls \in Nat
    /\ spoiled \in BOOLEAN

-----------------------------------------------------------------------------
(* What an operation is about, and what it knows. *)

\* Which operation does what: the poll refreshes, only an enrolment calls the
\* enrolment endpoints, only a decision is on its way to one.
Shape(s, o) ==
    /\ o.at = "idle" => o = Idle
    /\ s = "poll" => o.kind \in {"none", "refresh"}
    /\ o.kind = "enrol" <=> o.ep \in EnrolEps
    /\ o.kind = "enrol" => o.at \in {"call", "answered"}
    /\ o.kind = "decide" => o.dec \in Verdicts
    /\ o.back \in {"decide", "decision"} => o.kind = "decide"
    /\ o.at = "decide" => o.back = "decide"
    /\ o.ep = "decision" => o.back = "decision"
    /\ o.at = "checked" => o.ep = "decision"
    /\ o.ep = "revokeBinding" \/ o.back = "revokeBinding" \/ o.at = "deleteRevoked"
          => o.kind = "revoke"

Ok(o, ep) == o.at = "answered" /\ o.ep = ep /\ o.ans = "ok"

\* An enrolment knows a row of the broker, and once activated its key.
Enrolling(o) ==
    /\ o.kind = "enrol" \/ o.at = "deleteRevoked" => binding = None
    /\ Ok(o, "enrolStart") \/ o.ep = "enrolActivate" =>
          o.b \in Bindings /\ bind[o.b].status # "none"
    /\ Ok(o, "enrolActivate") =>
          bind[o.b].key = o.key /\ bind[o.b].status \in {"active", "revoked"}
    /\ o.ep = "enrolActivate" /\ ~spoiled => o.key \in store

\* A decision carries what was tapped; once it is checked the request exists, and
\* once it is answered with ok the request is decided.
Deciding(o) ==
    /\ o.back = "decide" => <<shown.txn, o.dec>> \in tapped
    /\ o.back = "decision" => <<o.txn, o.dec>> \in tapped
    /\ o.at = "checked" => o.txn \in Txns /\ txn[o.txn] # "none"
    /\ Ok(o, "decision") => o.txn \in Txns /\ txn[o.txn] \in Verdicts

Good(s) == Shape(s, op[s]) /\ Enrolling(op[s]) /\ Deciding(op[s])

\* What was sent stays a record.
IsSent(d) ==
    d = [txn |-> d.txn, chal |-> d.chal, dec |-> d.dec, b |-> d.b, key |-> d.key,
         token |-> d.token, checked |-> d.checked]

\* Decisions that may still arrive, and those that were reported.
Meant ==
    /\ \A t \in Txns : txn[t] \in Verdicts => <<t, txn[t]>> \in tapped
    /\ \A d \in net : d.dec \in Verdicts /\ <<d.txn, d.dec>> \in tapped /\ IsSent(d)
    /\ \A a \in acked : a[1] \in Txns /\ txn[a[1]] \in Verdicts

PhoneInv ==
    /\ EnrolmentCoherent
    /\ route = "enrol" => binding = None

IInv == MobileTyped /\ (\A s \in Slots : Good(s)) /\ PhoneInv /\ Meant

-----------------------------------------------------------------------------
(* The record of an operation. *)

LEMMA IdleOp ==
    /\ Idle \in Op /\ Idle.at = "idle" /\ Idle.kind = "none" /\ Idle.ep = "none"
    /\ Idle.back = "none" /\ Idle.dec = "none" /\ Idle.ans = "none"
  BY DEF Idle, Op, Kinds, Places, Endpoints, EnrolEps, Authed, Backs, Answers, Verdicts

\* The operation goes on as another one that is about the same thing.
SameAim(o, p) ==
    o.kind = p.kind /\ o.back = p.back /\ o.dec = p.dec /\ o.txn = p.txn

LEMMA GoIs ==
    ASSUME MobileTyped, NEW s \in Slots, NEW at \in Places
    PROVE  /\ Go(s, at) \in Op /\ Go(s, at).at = at /\ Go(s, at).ep = "none"
           /\ SameAim(Go(s, at), op[s])
<1>1. op[s] \in Op
  BY DEF MobileTyped
<1>2. "none" \in Endpoints /\ "none" \in Answers /\ {} \in SUBSET Request
  BY DEF Endpoints, Answers
<1>3. QED BY <1>1, <1>2 DEF Go, Op, SameAim

LEMMA CallIs ==
    ASSUME MobileTyped, NEW s \in Slots, NEW ep \in Endpoints
    PROVE  /\ Call(s, ep) \in Op /\ Call(s, ep).at = "call" /\ Call(s, ep).ep = ep
           /\ SameAim(Call(s, ep), op[s])
           /\ Call(s, ep).b = op[s].b /\ Call(s, ep).key = op[s].key
<1>1. op[s] \in Op
  BY DEF MobileTyped
<1>2. "call" \in Places /\ "none" \in Answers
  BY DEF Places, Answers
<1>3. QED BY <1>1, <1>2 DEF Call, Op, SameAim

LEMMA AnsweredIs ==
    ASSUME MobileTyped, NEW s \in Slots, NEW a \in Answers,
           NEW o, o = [op[s] EXCEPT !.at = "answered", !.ans = a]
    PROVE  /\ o \in Op /\ o.at = "answered" /\ o.ans = a /\ o.ep = op[s].ep
           /\ SameAim(o, op[s]) /\ o.b = op[s].b /\ o.key = op[s].key
<1>1. op[s] \in Op
  BY DEF MobileTyped
<1>2. "answered" \in Places
  BY DEF Places
<1>3. QED BY <1>1, <1>2 DEF Op, SameAim

-----------------------------------------------------------------------------
(* Steps. *)

\* Whatever happens, the broker's rows, what was tapped and what was decided
\* only go forward.
Advances ==
    /\ \A b \in Bindings : bind[b].status # "none" =>
          /\ bind'[b].status # "none" /\ bind'[b].key = bind[b].key
          /\ bind[b].status \in {"active", "revoked"} => bind'[b].status \in {"active", "revoked"}
    /\ tapped \subseteq tapped'
    /\ \A t \in Txns : txn[t] \in Verdicts => txn'[t] = txn[t]
    /\ \A t \in Txns : txn[t] # "none" => txn'[t] # "none"
    /\ spoiled => spoiled'

\* The step leaves alone what operation o of slot q relies on.
Spares(q, o) ==
    \/ q = "poll"
    \/ /\ binding' \in {binding, None}
       /\ store' = store \/ spoiled' \/ o.kind # "enrol"
       /\ shown' = shown

LEMMA AimKept ==
    ASSUME NEW q \in Slots, NEW o \in Op, spoiled' \in BOOLEAN, spoiled \in BOOLEAN,
           Shape(q, o), Enrolling(o), Deciding(o), Advances, Spares(q, o)
    PROVE  Enrolling(o)' /\ Deciding(o)'
<1>1. Enrolling(o)'
  <2>1. o.kind = "enrol" \/ o.at = "deleteRevoked" \/ o.ep \in EnrolEps => q # "poll"
    BY DEF Shape
  <2>2. o.kind = "enrol" \/ o.at = "deleteRevoked" => binding' = None
    BY <2>1 DEF Enrolling, Spares
  <2>3. Ok(o, "enrolStart") \/ o.ep = "enrolActivate" =>
           o.b \in Bindings /\ bind'[o.b].status # "none"
    BY DEF Enrolling, Advances
  <2>4. Ok(o, "enrolActivate") =>
           bind'[o.b].key = o.key /\ bind'[o.b].status \in {"active", "revoked"}
    <3>1. SUFFICES ASSUME Ok(o, "enrolActivate")
                   PROVE  bind'[o.b].key = o.key /\ bind'[o.b].status \in {"active", "revoked"}
      OBVIOUS
    <3>2. /\ o.b \in Bindings /\ bind[o.b].status # "none"
          /\ bind[o.b].key = o.key /\ bind[o.b].status \in {"active", "revoked"}
      BY <3>1 DEF Enrolling, Ok
    <3>3. QED BY <3>2 DEF Advances
  <2>5. o.ep = "enrolActivate" /\ ~spoiled' => o.key \in store'
    <3>1. SUFFICES ASSUME o.ep = "enrolActivate", ~spoiled'
                   PROVE  o.key \in store'
      OBVIOUS
    <3>2. o.kind = "enrol" /\ q # "poll"
      BY <2>1, <3>1 DEF Shape, EnrolEps
    <3>3. ~spoiled
      BY <3>1 DEF Advances
    <3>4. QED BY <3>1, <3>2, <3>3 DEF Enrolling, Spares
  <2>6. QED BY <2>2, <2>3, <2>4, <2>5 DEF Enrolling, Ok
<1>2. Deciding(o)'
  <2>1. o.back = "decide" => q # "poll"
    BY DEF Shape
  <2>2. o.back = "decide" => <<shown'.txn, o.dec>> \in tapped'
    BY <2>1 DEF Deciding, Spares, Advances
  <2>3. o.back = "decision" => <<o.txn, o.dec>> \in tapped'
    BY DEF Deciding, Advances
  <2>4. Ok(o, "decision") => o.txn \in Txns /\ txn'[o.txn] \in Verdicts
    <3>1. SUFFICES ASSUME Ok(o, "decision")
                   PROVE  o.txn \in Txns /\ txn'[o.txn] \in Verdicts
      OBVIOUS
    <3>2. o.txn \in Txns /\ txn[o.txn] \in Verdicts
      BY <3>1 DEF Deciding
    <3>3. QED BY <3>2 DEF Advances
  <2>5. o.at = "checked" => o.txn \in Txns /\ txn'[o.txn] # "none"
    <3>1. SUFFICES ASSUME o.at = "checked"
                   PROVE  o.txn \in Txns /\ txn'[o.txn] # "none"
      OBVIOUS
    <3>2. o.txn \in Txns /\ txn[o.txn] # "none"
      BY <3>1 DEF Deciding
    <3>3. QED BY <3>2 DEF Advances
  <2>6. QED BY <2>2, <2>3, <2>4, <2>5 DEF Deciding, Ok
<1>3. QED BY <1>1, <1>2

LEMMA GoodKept ==
    ASSUME MobileTyped, NEW q \in Slots, Good(q), Advances, Spares(q, op[q]), op'[q] = op[q],
           spoiled' \in BOOLEAN
    PROVE  Good(q)'
<1>1. PICK o \in Op : o = op[q]
  BY DEF MobileTyped
<1>2. Shape(q, o) /\ Enrolling(o) /\ Deciding(o) /\ Spares(q, o)
  BY <1>1 DEF Good
<1>3. Enrolling(o)' /\ Deciding(o)'
  BY <1>2, AimKept DEF MobileTyped
<1>4. Shape(q, op[q])'
  BY <1>1, <1>2 DEF Shape
<1>5. QED BY <1>1, <1>3, <1>4 DEF Good

LEMMA OpSet ==
    ASSUME op \in [Slots -> Op], NEW s \in Slots, NEW o \in Op, op' = [op EXCEPT ![s] = o]
    PROVE  /\ op' \in [Slots -> Op] /\ op'[s] = o
           /\ \A q \in Slots \ {s} : op'[q] = op[q]
  OBVIOUS

\* The operation of slot s becomes o, a good one after the step.
LEMMA GoodStep ==
    ASSUME IInv, NEW s \in Slots, NEW o \in Op, op' = [op EXCEPT ![s] = o],
           Advances, \A q \in Slots \ {s} : Spares(q, op[q]), spoiled' \in BOOLEAN,
           Shape(s, o), Enrolling(o)', Deciding(o)'
    PROVE  \A q \in Slots : Good(q)'
<1>1. op'[s] = o /\ \A q \in Slots \ {s} : op'[q] = op[q]
  BY OpSet DEF IInv, MobileTyped
<1>2. Good(s)'
  BY <1>1 DEF Good, Shape, Enrolling, Deciding, Ok
<1>3. \A q \in Slots \ {s} : Good(q)'
  BY <1>1, GoodKept DEF IInv
<1>4. QED BY <1>2, <1>3

\* The verdicts on record were tapped, and stay.
LEMMA MeantKept ==
    ASSUME Meant, Advances, UNCHANGED <<txn, net, acked>>
    PROVE  Meant'
  BY DEF Meant, Advances

\* The phone keeps what it holds while the broker's rows go forward.
LEMMA PhoneKeeps ==
    ASSUME IInv, Advances, UNCHANGED <<phone, spoiled>>, route' = "enrol" => binding = None
    PROVE  PhoneInv'
<1>1. binding' = binding /\ store' = store /\ session' = session /\ spoiled' = spoiled
  BY DEF phone
<1>2. ASSUME ~spoiled, binding # None
      PROVE  bind'[binding].key \in store /\ bind'[binding].status \in {"active", "revoked"}
  <2>1. binding \in Bindings
    BY <1>2 DEF IInv, MobileTyped
  <2>2. bind[binding].key \in store /\ bind[binding].status \in {"active", "revoked"}
    BY <1>2 DEF IInv, PhoneInv, EnrolmentCoherent
  <2>3. QED BY <2>1, <2>2 DEF Advances
<1>3. ~spoiled /\ session # None => session = binding
  BY DEF IInv, PhoneInv, EnrolmentCoherent
<1>4. EnrolmentCoherent'
  BY <1>1, <1>2, <1>3 DEF EnrolmentCoherent
<1>5. QED BY <1>1, <1>4 DEF PhoneInv

-----------------------------------------------------------------------------
(* Operations that are good. *)

LEMMA IdleGood ==
    ASSUME NEW s \in Slots
    PROVE  /\ Shape(s, Idle) /\ Enrolling(Idle) /\ Deciding(Idle)
           /\ Enrolling(Idle)' /\ Deciding(Idle)'
  BY IdleOp DEF Shape, Enrolling, Deciding, Ok, EnrolEps

\* An operation that goes on with the same aim outside an enrolment.
LEMMA GoesOn ==
    ASSUME NEW s \in Slots, Good(s), NEW o \in Op, SameAim(o, op[s]), o.kind # "enrol",
           o.ep \notin EnrolEps, o.at \notin {"idle", "deleteRevoked", "checked"},
           o.at = "decide" => o.back = "decide",
           o.ep = "decision" => o.back = "decision",
           o.ep = "revokeBinding" => o.kind = "revoke",
           ~Ok(o, "decision")
    PROVE  Shape(s, o) /\ Enrolling(o) /\ Deciding(o)
<1>1. Shape(s, o)
  BY DEF Good, Shape, SameAim
<1>2. Enrolling(o)
  BY DEF Enrolling, Ok, EnrolEps
<1>3. Deciding(o)
  BY DEF Good, Deciding, SameAim
<1>4. QED BY <1>1, <1>2, <1>3

\* The answer to a call, where it says nothing new of the broker.
LEMMA AnswerGood ==
    ASSUME IInv, NEW s \in Slots, At(s, "call"), NEW a \in Answers,
           a = "ok" => op[s].ep \notin {"enrolStart", "enrolActivate", "decision"},
           NEW o \in Op, o = [op[s] EXCEPT !.at = "answered", !.ans = a]
    PROVE  Shape(s, o) /\ Enrolling(o) /\ Deciding(o)
<1>1. /\ o.at = "answered" /\ o.ans = a /\ o.ep = op[s].ep
      /\ SameAim(o, op[s]) /\ o.b = op[s].b /\ o.key = op[s].key
  <2>1. op[s] \in Op
    BY DEF IInv, MobileTyped
  <2>2. QED BY <2>1 DEF Op, SameAim
<1>2. Good(s) /\ op[s].at = "call"
  BY DEF IInv, At
<1>3. Shape(s, o)
  BY <1>1, <1>2 DEF Good, Shape, SameAim
<1>4. Enrolling(o)
  BY <1>1, <1>2 DEF Good, Enrolling, Ok, SameAim
<1>5. Deciding(o)
  BY <1>1, <1>2 DEF Good, Deciding, Ok, SameAim
<1>6. QED BY <1>3, <1>4, <1>5

-----------------------------------------------------------------------------
(* Steps that change only the operation of one slot. *)

LEMMA OpOnly ==
    ASSUME IInv, NEW s \in Slots, NEW o \in Op, op' = [op EXCEPT ![s] = o],
           Shape(s, o), Enrolling(o), Deciding(o),
           UNCHANGED <<phone, screens, bind, txn, chals, pulls, tapped, acked, spoiled>>,
           \A d \in net' \ net : d.dec \in Verdicts /\ <<d.txn, d.dec>> \in tapped /\ IsSent(d)
    PROVE  IInv'
<1> USE DEF phone, screens
<1>1. Advances
  BY DEF Advances
<1>2. MobileTyped'
  BY OpSet DEF IInv, MobileTyped
<1>3. \A q \in Slots, p \in Op : Spares(q, p)
  BY DEF Spares
<1>4. Enrolling(o)' /\ Deciding(o)'
  BY <1>1, <1>3, AimKept DEF IInv, MobileTyped
<1>5. \A q \in Slots : Good(q)'
  BY <1>1, <1>2, <1>3, <1>4, GoodStep DEF IInv, MobileTyped
<1>6. PhoneInv'
  BY <1>1, PhoneKeeps DEF IInv, PhoneInv
<1>7. Meant'
  BY <1>1 DEF IInv, Meant, Advances
<1>8. QED BY <1>2, <1>5, <1>6, <1>7 DEF IInv

LEMMA EndOnly ==
    ASSUME IInv, NEW s \in Slots, End(s),
           UNCHANGED <<phone, screens, broker, tapped, acked, spoiled>>
    PROVE  IInv'
<1>1. op' = [op EXCEPT ![s] = Idle] /\ Idle \in Op
  BY IdleOp DEF End, Becomes
<1>2. Shape(s, Idle) /\ Enrolling(Idle) /\ Deciding(Idle)
  BY IdleGood
<1>3. net' = net /\ UNCHANGED <<bind, txn, chals, pulls>>
  BY DEF broker
<1>4. QED BY <1>1, <1>2, <1>3, OpOnly

LEMMA AnswerOnly ==
    ASSUME IInv, NEW s \in Slots, At(s, "call"), NEW a \in Answers, Answer(s, a),
           a = "ok" => op[s].ep \notin {"enrolStart", "enrolActivate", "decision"},
           PhoneKept, UNCHANGED broker
    PROVE  IInv'
<1>1. PICK o \in Op : o = [op[s] EXCEPT !.at = "answered", !.ans = a]
  BY AnsweredIs DEF IInv
<1>2. Shape(s, o) /\ Enrolling(o) /\ Deciding(o)
  BY <1>1, AnswerGood
<1>3. op' = [op EXCEPT ![s] = o]
  BY <1>1 DEF Answer, Becomes
<1>4. net' = net /\ UNCHANGED <<phone, screens, bind, txn, chals, pulls, tapped, acked, spoiled>>
  BY DEF PhoneKept, broker, ghosts
<1>5. QED BY <1>2, <1>3, <1>4, OpOnly

LEMMA BrokerOpenInv ==
    ASSUME IInv, NEW s \in Slots, BrokerOpen(s)
    PROVE  IInv'
<1>1. PICK a \in {"ok", "refused"} : Answer(s, a)
  BY DEF BrokerOpen
<1>2. QED BY <1>1, AnswerOnly DEF BrokerOpen, Respond, Answers

LEMMA BrokerLoginInv ==
    ASSUME IInv, NEW s \in Slots, BrokerLogin(s)
    PROVE  IInv'
<1>1. PICK a \in {"binding_not_active", "refused", "ok"} : Answer(s, a)
  BY DEF BrokerLogin
<1>2. QED BY <1>1, AnswerOnly DEF BrokerLogin, Answers

LEMMA BrokerRefusesInv ==
    ASSUME IInv, NEW s \in Slots, BrokerRefuses(s)
    PROVE  IInv'
<1>1. PICK a \in {"binding_not_active", "access_denied"} : Answer(s, a)
  BY DEF BrokerRefuses
<1>2. QED BY <1>1, AnswerOnly DEF BrokerRefuses, Answers

LEMMA BrokerListsInv ==
    ASSUME IInv, NEW s \in Slots, BrokerLists(s)
    PROVE  IInv'
  BY AnswerOnly DEF BrokerLists, Respond, Answers

\* A call that carries a key.
LEMMA CallKeyIs ==
    ASSUME MobileTyped, NEW s \in Slots, NEW ep \in Endpoints, NEW k \in Keys
    PROVE  \E o \in Op :
              /\ o = [Call(s, ep) EXCEPT !.key = k]
              /\ o.at = "call" /\ o.ep = ep /\ o.key = k /\ o.b = op[s].b
              /\ SameAim(o, op[s])
<1>1. PICK c \in Op : c = Call(s, ep)
  BY CallIs
<1>2. c.at = "call" /\ c.ep = ep /\ c.b = op[s].b /\ SameAim(c, op[s])
  BY <1>1, CallIs
<1>3. PICK o \in Op : o = [c EXCEPT !.key = k]
  BY DEF Op
<1>4. /\ o.at = "call" /\ o.ep = ep /\ o.key = k /\ o.b = op[s].b
      /\ SameAim(o, op[s])
  BY <1>2, <1>3 DEF Op, SameAim
<1>5. QED BY <1>1, <1>3, <1>4

LEMMA SignersAre == MobileTyped => Signers \subseteq store /\ store \subseteq Keys
  BY DEF MobileTyped, Signers, AndroidSigners, IosSigners

LEMMA SignActivationInv ==
    ASSUME IInv, NEW s \in Slots, SignActivation(s)
    PROVE  IInv'
<1>1. UNCHANGED <<phone, screens, broker, ghosts>> /\ MobileTyped /\ Good(s)
  BY DEF SignActivation, Signed, IInv
<1>2. Ok(op[s], "enrolStart")
  BY DEF SignActivation, Answered, At, Ok
<1>3. CASE End(s)
  BY <1>1, <1>3, EndOnly DEF ghosts
<1>4. ASSUME NEW k \in Signers, Becomes(s, [Call(s, "enrolActivate") EXCEPT !.key = k])
      PROVE  IInv'
  <2>1. k \in store /\ k \in Keys
    BY <1>1, SignersAre
  <2>2. "enrolActivate" \in Endpoints /\ "enrolActivate" \in EnrolEps /\ "enrolStart" \in EnrolEps
    BY DEF Endpoints, EnrolEps
  <2>3. PICK o \in Op :
          /\ o = [Call(s, "enrolActivate") EXCEPT !.key = k]
          /\ o.at = "call" /\ o.ep = "enrolActivate" /\ o.key = k /\ o.b = op[s].b
          /\ SameAim(o, op[s])
    BY <1>1, <2>1, <2>2, CallKeyIs
  <2>4. /\ o.at = "call" /\ o.ep = "enrolActivate" /\ o.key = k /\ o.b = op[s].b
        /\ SameAim(o, op[s])
    BY <2>3
  <2>5. op[s].kind = "enrol"
    BY <1>1, <1>2, <2>2 DEF Good, Shape, Ok
  <2>6. Shape(s, o)
    BY <1>1, <2>2, <2>4, <2>5 DEF Good, Shape, SameAim
  <2>7. Enrolling(o)
    BY <1>1, <1>2, <2>1, <2>4, <2>5 DEF Good, Enrolling, Ok
  <2>8. Deciding(o)
    BY <1>1, <2>4 DEF Good, Deciding, Ok, SameAim
  <2>9. op' = [op EXCEPT ![s] = o]
    BY <1>4, <2>3 DEF Becomes
  <2>10. QED BY <1>1, <2>6, <2>7, <2>8, <2>9, OpOnly DEF broker, ghosts
<1>5. QED BY <1>3, <1>4 DEF SignActivation, Signed

LEMMA SignLoginInv ==
    ASSUME IInv, NEW s \in Slots, SignLogin(s)
    PROVE  IInv'
<1>1. UNCHANGED <<phone, screens, broker, ghosts>> /\ MobileTyped /\ Good(s)
  BY DEF SignLogin, Signed, IInv
<1>2. op[s].at = "answered" /\ op[s].ep = "loginChallenge"
  BY DEF SignLogin, Answered, At
<1>3. CASE End(s)
  BY <1>1, <1>3, EndOnly DEF ghosts
<1>4. ASSUME NEW k \in Signers, Becomes(s, [Call(s, "login") EXCEPT !.key = k])
      PROVE  IInv'
  <2>1. k \in Keys
    BY <1>1, SignersAre
  <2>2. "login" \in Endpoints /\ "login" \notin EnrolEps /\ "loginChallenge" \notin EnrolEps
    BY DEF Endpoints, EnrolEps
  <2>3. PICK o \in Op :
          /\ o = [Call(s, "login") EXCEPT !.key = k]
          /\ o.at = "call" /\ o.ep = "login" /\ SameAim(o, op[s])
    BY <1>1, <2>1, <2>2, CallKeyIs
  <2>4. o.at = "call" /\ o.ep = "login" /\ SameAim(o, op[s])
    BY <2>3
  <2>5. o.kind # "enrol"
    BY <1>1, <1>2, <2>2, <2>4 DEF Good, Shape, SameAim
  <2>6. Shape(s, o) /\ Enrolling(o) /\ Deciding(o)
    BY <1>1, <2>2, <2>4, <2>5, GoesOn DEF Ok
  <2>7. op' = [op EXCEPT ![s] = o]
    BY <1>4, <2>3 DEF Becomes
  <2>8. QED BY <1>1, <2>6, <2>7, OpOnly DEF broker, ghosts
<1>5. QED BY <1>3, <1>4 DEF SignLogin, Signed

LEMMA DecideInv ==
    ASSUME IInv, NEW s \in Slots, Decide(s)
    PROVE  IInv'
<1>1. UNCHANGED <<phone, screens, broker, ghosts>> /\ MobileTyped /\ Good(s)
  BY DEF Decide, IInv
<1>2. op[s].at = "decide" /\ op[s].back = "decide" /\ op[s].kind = "decide"
  BY <1>1 DEF Decide, At, Good, Shape
<1>3. CASE End(s)
  BY <1>1, <1>3, EndOnly DEF ghosts
<1>4. ASSUME NEW k \in Signers,
             Becomes(s, [Go(s, "ensure") EXCEPT !.back = "decision", !.key = k,
                                                !.txn = Subject.txn, !.chal = Subject.chal])
      PROVE  IInv'
  <2>1. k \in Keys
    BY <1>1, SignersAre
  <2>2. PICK g \in Op : g = Go(s, "ensure")
    BY <1>1, GoIs DEF Places
  <2>3. g.at = "ensure" /\ g.ep = "none" /\ SameAim(g, op[s])
    BY <1>1, <2>2, GoIs DEF Places
  <2>4. PICK t \in Txns \cup {None}, c \in Nat : t = shown.txn /\ c = shown.chal
    BY <1>1 DEF MobileTyped, Request, Nothing
  <2>5. "decision" \in Backs
    BY DEF Backs, Authed
  <2>6. PICK o \in Op : o = [g EXCEPT !.back = "decision", !.key = k, !.txn = t, !.chal = c]
    BY <2>1, <2>4, <2>5 DEF Op
  <2>7. /\ o.at = "ensure" /\ o.ep = "none" /\ o.back = "decision" /\ o.txn = shown.txn
        /\ o.kind = "decide" /\ o.dec = op[s].dec
    BY <1>2, <2>3, <2>4, <2>6 DEF Op, SameAim
  <2>8. Shape(s, o)
    BY <1>1, <1>2, <2>7 DEF Good, Shape, EnrolEps
  <2>9. Enrolling(o)
    BY <2>7 DEF Enrolling, Ok
  <2>10. Deciding(o)
    BY <1>1, <1>2, <2>7 DEF Good, Deciding, Ok
  <2>11. op' = [op EXCEPT ![s] = o]
    BY <1>4, <2>2, <2>4, <2>6 DEF Becomes, Subject
  <2>12. QED BY <1>1, <2>8, <2>9, <2>10, <2>11, OpOnly DEF broker, ghosts
<1>5. QED BY <1>3, <1>4 DEF Decide

LEMMA TapEnrolInv ==
    ASSUME IInv, TapEnrol
    PROVE  IInv'
<1>1. /\ UNCHANGED <<phone, screens, broker, ghosts>> /\ MobileTyped
      /\ "user" \in Slots /\ Good("user") /\ PhoneInv
  BY DEF TapEnrol, IInv, Slots
<1>2. op["user"] = Idle
  BY <1>1 DEF TapEnrol, At, Good, Shape
<1>3. "attestationChallenge" \in Endpoints /\ "attestationChallenge" \in EnrolEps
  BY DEF Endpoints, EnrolEps
<1>4. PICK c \in Op : c = Call("user", "attestationChallenge")
  BY <1>1, <1>3, CallIs
<1>5. c.at = "call" /\ c.ep = "attestationChallenge" /\ SameAim(c, op["user"])
  BY <1>1, <1>3, <1>4, CallIs
<1>6. PICK o \in Op : o = [c EXCEPT !.kind = "enrol"]
  BY DEF Op, Kinds
<1>7. /\ o.at = "call" /\ o.ep = "attestationChallenge" /\ o.kind = "enrol"
      /\ o.back = "none"
  BY <1>2, <1>5, <1>6, IdleOp DEF Op, SameAim
<1>8. Shape("user", o)
  BY <1>3, <1>7 DEF Shape
<1>9. Enrolling(o)
  BY <1>1, <1>7 DEF TapEnrol, Enrolling, Ok, PhoneInv
<1>10. Deciding(o)
  BY <1>7 DEF Deciding, Ok
<1>11. op' = [op EXCEPT !["user"] = o]
  BY <1>4, <1>6 DEF TapEnrol, Becomes
<1>12. QED BY <1>1, <1>8, <1>9, <1>10, <1>11, OpOnly DEF broker, ghosts

LEMMA StartInv ==
    ASSUME IInv, NEW s \in Slots, NEW kind \in {"refresh", "look", "revoke"},
           NEW back \in {"pending", "lists", "revokeBinding"}, Start(s, kind, back),
           s = "poll" => kind = "refresh", back = "revokeBinding" => kind = "revoke",
           UNCHANGED ghosts
    PROVE  IInv'
<1>1. UNCHANGED <<phone, screens, broker, ghosts>> /\ MobileTyped
  BY DEF Start, IInv
<1>2. PICK b \in Bindings \cup {None} : b = binding
  BY <1>1 DEF MobileTyped
<1>3. kind \in Kinds /\ back \in Backs /\ "ensure" \in Places
  BY DEF Kinds, Backs, Authed, Places
<1>4. PICK o \in Op :
        o = [Idle EXCEPT !.kind = kind, !.at = "ensure", !.back = back, !.b = b]
  BY <1>2, <1>3, IdleOp DEF Op
<1>5. o.kind = kind /\ o.at = "ensure" /\ o.back = back /\ o.ep = "none"
  BY <1>4, IdleOp DEF Op
<1>6. Shape(s, o)
  BY <1>5 DEF Shape, EnrolEps
<1>7. Enrolling(o) /\ Deciding(o)
  BY <1>5 DEF Enrolling, Deciding, Ok
<1>8. op' = [op EXCEPT ![s] = o]
  BY <1>2, <1>4 DEF Start, Becomes
<1>9. QED BY <1>1, <1>6, <1>7, <1>8, OpOnly DEF broker, ghosts

\* A lost decision may still arrive; it is one that was tapped.
\* What goes on without the client was tapped.
LEMMA UnderwayMeant ==
    ASSUME IInv, NEW s \in Slots
    PROVE  \A d \in Underway(s) : d.dec \in Verdicts /\ <<d.txn, d.dec>> \in tapped /\ IsSent(d)
<1>1. SUFFICES ASSUME op[s].ep = "decision"
               PROVE  Sent(s).dec \in Verdicts /\ <<Sent(s).txn, Sent(s).dec>> \in tapped
                      /\ IsSent(Sent(s))
  BY DEF Underway
<1>2. Good(s)
  BY DEF IInv
<1>3. op[s].back = "decision" /\ op[s].dec \in Verdicts
  BY <1>1, <1>2 DEF Good, Shape
<1>4. IsSent(Sent(s))
  BY DEF IsSent, Sent
<1>5. QED BY <1>2, <1>3, <1>4 DEF Good, Deciding, Sent

LEMMA sendWithRetryInv ==
    ASSUME IInv, NEW s \in Slots, sendWithRetry(s)
    PROVE  IInv'
<1>1. /\ UNCHANGED <<phone, screens, bind, txn, chals, pulls, tapped, acked, spoiled>>
      /\ MobileTyped /\ Good(s) /\ op[s] \in Op /\ op[s].at \in {"call", "checked", "answered"}
  BY DEF sendWithRetry, PhoneKept, ghosts, IInv, MobileTyped, Lost
<1>2. \A d \in net' \ net : d.dec \in Verdicts /\ <<d.txn, d.dec>> \in tapped /\ IsSent(d)
  BY UnderwayMeant DEF sendWithRetry
<1>3. CASE End(s)
  BY <1>1, <1>2, <1>3, IdleOp, IdleGood, OpOnly DEF End, Becomes
<1>4. CASE Becomes(s, [op[s] EXCEPT !.at = "call", !.ans = "none", !.list = {}, !.tries = @ + 1])
  <2>1. PICK n \in Nat : n = op[s].tries + 1
    BY <1>1 DEF Op
  <2>2. PICK o \in Op : o = [op[s] EXCEPT !.at = "call", !.ans = "none", !.list = {}, !.tries = n]
    BY <1>1 DEF Op, Places, Answers
  <2>3. /\ o.at = "call" /\ o.ans = "none" /\ SameAim(o, op[s]) /\ o.ep = op[s].ep
        /\ o.b = op[s].b /\ o.key = op[s].key
    BY <1>1, <2>2 DEF Op, SameAim
  <2>4. Shape(s, o)
    BY <1>1, <2>3 DEF Good, Shape, SameAim
  <2>5. Enrolling(o)
    BY <1>1, <2>3 DEF Good, Enrolling, Ok, SameAim
  <2>6. Deciding(o)
    BY <1>1, <2>3 DEF Good, Deciding, Ok, SameAim
  <2>7. op' = [op EXCEPT ![s] = o]
    BY <1>4, <2>1, <2>2 DEF Becomes
  <2>8. QED BY <1>1, <1>2, <2>4, <2>5, <2>6, <2>7, OpOnly
<1>5. QED BY <1>3, <1>4 DEF sendWithRetry

-----------------------------------------------------------------------------
(* Steps that change what the phone holds. *)

\* An operation outside an enrolment takes up what it logged in for.
Resumed(s, c) ==
    /\ SameAim(c, op[s]) /\ c.kind # "enrol" /\ c.at \in {"call", "decide"}
    /\ c.at = "decide" => c.back = "decide"
    /\ c.ep \notin EnrolEps
    /\ c.ep = "decision" => c.back = "decision"
    /\ c.ep = "revokeBinding" => c.kind = "revoke"

LEMMA ResumeIs ==
    ASSUME IInv, NEW s \in Slots, op[s].ep \notin EnrolEps
    PROVE  \E c \in Op :
              /\ c = IF op[s].back = "decide" THEN Go(s, "decide") ELSE Call(s, op[s].back)
              /\ Resumed(s, c)
<1>1. MobileTyped /\ Good(s) /\ op[s] \in Op
  BY DEF IInv, MobileTyped
<1>2. op[s].kind # "enrol"
  BY <1>1 DEF Good, Shape
<1>3. CASE op[s].back = "decide"
  <2>1. PICK c \in Op : c = Go(s, "decide")
    BY <1>1, GoIs DEF Places
  <2>2. c.at = "decide" /\ c.ep = "none" /\ SameAim(c, op[s])
    BY <1>1, <2>1, GoIs DEF Places
  <2>3. Resumed(s, c)
    BY <1>2, <1>3, <2>2 DEF Resumed, SameAim, EnrolEps
  <2>4. QED BY <1>3, <2>1, <2>3
<1>4. CASE op[s].back # "decide"
  <2>1. PICK e \in Endpoints : e = op[s].back /\ e \notin EnrolEps
    BY <1>1, <1>4 DEF Op, Backs, Endpoints, Authed, EnrolEps
  <2>2. PICK c \in Op : c = Call(s, e)
    BY <1>1, CallIs
  <2>3. c.at = "call" /\ c.ep = e /\ SameAim(c, op[s])
    BY <1>1, <2>2, CallIs
  <2>4. Resumed(s, c)
    BY <1>1, <1>2, <2>1, <2>3 DEF Resumed, SameAim, Good, Shape
  <2>5. QED BY <1>4, <2>1, <2>2, <2>4
<1>5. QED BY <1>3, <1>4

LEMMA ResumedGood ==
    ASSUME IInv, NEW s \in Slots, NEW o \in Op, Resumed(s, o)
    PROVE  Shape(s, o) /\ Enrolling(o) /\ Deciding(o)
  BY GoesOn DEF IInv, Resumed, Ok

\* The session changes, and the operation of slot s goes on as o.
LEMMA SessionStep ==
    ASSUME IInv, NEW s \in Slots, NEW o \in Op, op' = [op EXCEPT ![s] = o],
           Shape(s, o), Enrolling(o), Deciding(o),
           session' \in Bindings \cup {None}, spoiled' \in BOOLEAN, spoiled => spoiled',
           ~spoiled' => session' \in {None, binding},
           UNCHANGED <<binding, store, screens, broker, tapped, acked>>
    PROVE  IInv'
<1> USE DEF screens, broker
<1>1. Advances
  BY DEF Advances
<1>2. MobileTyped'
  BY OpSet DEF IInv, MobileTyped
<1>3. \A q \in Slots, p \in Op : Spares(q, p)
  BY DEF Spares
<1>4. Enrolling(o)' /\ Deciding(o)'
  BY <1>1, <1>3, AimKept DEF IInv, MobileTyped
<1>5. \A q \in Slots : Good(q)'
  BY <1>1, <1>3, <1>4, GoodStep DEF IInv, MobileTyped
<1>6. PhoneInv'
  BY DEF IInv, PhoneInv, EnrolmentCoherent
<1>7. Meant'
  BY <1>1, MeantKept DEF IInv
<1>8. QED BY <1>2, <1>5, <1>6, <1>7 DEF IInv

LEMMA ensureSessionInv ==
    ASSUME IInv, NEW s \in Slots, ensureSession(s)
    PROVE  IInv'
<1>1. /\ UNCHANGED <<binding, store, screens, broker, tapped, acked, spoiled>>
      /\ MobileTyped /\ Good(s) /\ op[s] \in Op /\ op[s].at = "ensure"
      /\ spoiled \in BOOLEAN /\ None \in Bindings \cup {None}
  BY DEF ensureSession, ghosts, IInv, MobileTyped, At
<1>2. op[s].ep \notin EnrolEps /\ op[s].kind # "enrol"
  BY <1>1 DEF Good, Shape
<1>3. ASSUME session # None, UNCHANGED session,
             Becomes(s, [IF op[s].back = "decide" THEN Go(s, "decide") ELSE Call(s, op[s].back)
                         EXCEPT !.token = session])
      PROVE  IInv'
  <2>1. PICK c \in Op :
          /\ c = IF op[s].back = "decide" THEN Go(s, "decide") ELSE Call(s, op[s].back)
          /\ Resumed(s, c)
    BY <1>2, ResumeIs
  <2>2. PICK t \in Bindings \cup {None} : t = session
    BY <1>1 DEF MobileTyped
  <2>3. PICK o \in Op : o = [c EXCEPT !.token = t]
    BY <2>2 DEF Op
  <2>4. Resumed(s, o)
    BY <2>1, <2>3 DEF Op, Resumed, SameAim
  <2>5. op' = [op EXCEPT ![s] = o]
    BY <1>3, <2>1, <2>2, <2>3 DEF Becomes
  <2>6. UNCHANGED <<phone, screens, bind, txn, chals, pulls, tapped, acked, spoiled>> /\ net' = net
    BY <1>1, <1>3 DEF phone, broker
  <2>7. QED BY <2>4, <2>5, <2>6, ResumedGood, OpOnly
<1>4. ASSUME session' = None, Becomes(s, [Call(s, "loginChallenge") EXCEPT !.b = binding])
      PROVE  IInv'
  <2>1. "loginChallenge" \in Endpoints /\ "loginChallenge" \notin EnrolEps
    BY DEF Endpoints, EnrolEps
  <2>2. PICK c \in Op : c = Call(s, "loginChallenge")
    BY <1>1, <2>1, CallIs
  <2>3. c.at = "call" /\ c.ep = "loginChallenge" /\ SameAim(c, op[s])
    BY <1>1, <2>1, <2>2, CallIs
  <2>4. PICK b \in Bindings \cup {None} : b = binding
    BY <1>1 DEF MobileTyped
  <2>5. PICK o \in Op : o = [c EXCEPT !.b = b]
    BY <2>4 DEF Op
  <2>6. Resumed(s, o)
    BY <1>2, <2>1, <2>3, <2>5 DEF Op, Resumed, SameAim
  <2>7. op' = [op EXCEPT ![s] = o]
    BY <1>4, <2>2, <2>4, <2>5 DEF Becomes
  <2>8. QED BY <1>1, <1>4, <2>6, <2>7, ResumedGood, SessionStep
<1>5. ASSUME session' = None, End(s)
      PROVE  IInv'
  BY <1>1, <1>5, IdleOp, IdleGood, SessionStep DEF End, Becomes
<1>6. QED BY <1>3, <1>4, <1>5 DEF ensureSession

\* A session for another binding than the stored one is the spoiled case.
LEMMA LoginSessionInv ==
    ASSUME IInv, NEW s \in Slots, LoginSession(s)
    PROVE  IInv'
<1>1. /\ UNCHANGED <<binding, store, screens, broker, tapped, acked>>
      /\ MobileTyped /\ Good(s) /\ op[s] \in Op /\ op[s].ep = "login"
      /\ spoiled \in BOOLEAN
  BY DEF LoginSession, IInv, MobileTyped, Answered
<1>2. op[s].ep \notin EnrolEps
  BY <1>1 DEF EnrolEps
<1>3. PICK c \in Op :
        /\ c = IF op[s].back = "decide" THEN Go(s, "decide") ELSE Call(s, op[s].back)
        /\ Resumed(s, c)
  BY <1>2, ResumeIs
<1>4. PICK b \in Bindings \cup {None} : b = op[s].b
  BY <1>1 DEF Op
<1>5. PICK k \in Keys \cup {None} : k = IF op[s].back = "decision" THEN c.key ELSE None
  BY DEF Op
<1>6. PICK o \in Op : o = [c EXCEPT !.token = b, !.key = k]
  BY <1>4, <1>5 DEF Op
<1>7. Resumed(s, o)
  BY <1>3, <1>6 DEF Op, Resumed, SameAim
<1>8. op' = [op EXCEPT ![s] = o]
  BY <1>3, <1>4, <1>5, <1>6 DEF LoginSession, Becomes
<1>9. /\ session' = b /\ spoiled' \in BOOLEAN
      /\ spoiled => spoiled'
      /\ ~spoiled' => session' = binding
  BY <1>1, <1>4 DEF LoginSession
<1>10. QED BY <1>1, <1>4, <1>7, <1>8, <1>9, ResumedGood, SessionStep

\* Session and binding go together; an operation that wipes the phone was no
\* enrolment.
LEMMA ResetClearInv ==
    ASSUME IInv, NEW s \in Slots, NEW at \in {"delete", "deleteRevoked"}, ResetClear(s, at),
           at = "deleteRevoked" => op[s].kind = "revoke", op[s].kind # "enrol",
           UNCHANGED <<store, screens, broker, tapped, acked>>
    PROVE  IInv'
<1> USE DEF screens, broker
<1>1. /\ session' = None /\ binding' = None /\ spoiled' \in BOOLEAN
      /\ spoiled => spoiled'
  BY DEF ResetClear, IInv, MobileTyped
<1>2. MobileTyped /\ Good(s)
  BY DEF IInv
<1>3. PICK o \in Op : o = Go(s, at)
  BY <1>2, GoIs DEF Places
<1>4. o.at = at /\ o.ep = "none" /\ SameAim(o, op[s])
  BY <1>2, <1>3, GoIs DEF Places
<1>5. op' = [op EXCEPT ![s] = o]
  BY <1>3 DEF ResetClear, Becomes
<1>6. Advances
  BY <1>1 DEF Advances
<1>7. \A q \in Slots, p \in Op : Spares(q, p)
  BY <1>1 DEF Spares
<1>8. Shape(s, o)
  BY <1>2, <1>4 DEF Good, Shape, SameAim, EnrolEps
<1>9. Enrolling(o)'
  BY <1>1, <1>4 DEF Enrolling, Ok, SameAim
<1>10. Deciding(o)'
  BY <1>2, <1>4 DEF Good, Deciding, Ok, SameAim
<1>11. \A q \in Slots : Good(q)'
  BY <1>1, <1>2, <1>5, <1>6, <1>7, <1>8, <1>9, <1>10, GoodStep DEF MobileTyped
<1>12. MobileTyped'
  BY <1>1, <1>2, <1>5, OpSet DEF MobileTyped
<1>13. PhoneInv'
  BY <1>1 DEF PhoneInv, EnrolmentCoherent
<1>14. Meant'
  BY <1>6, MeantKept DEF IInv
<1>15. QED BY <1>11, <1>12, <1>13, <1>14 DEF IInv

\* The key goes while a binding or an enrolment needs it only in the spoiled case.
LEMMA ResetDeleteInv ==
    ASSUME IInv, NEW s \in Slots, ResetDelete(s)
    PROVE  IInv'
<1>1. /\ UNCHANGED <<binding, session, groups, shown, bind, txn, chals, net, pulls, tapped, acked>>
      /\ op' = [op EXCEPT ![s] = Idle] /\ Idle \in Op
      /\ MobileTyped /\ Good(s) /\ spoiled \in BOOLEAN
  BY IdleOp DEF ResetDelete, End, Becomes, broker, IInv, MobileTyped
<1>2. store' = {} \/ store' = store
  BY DEF ResetDelete, deleteKey, AndroidDelete, IosDelete
<1>3. /\ spoiled' \in BOOLEAN
      /\ spoiled => spoiled'
      /\ ~spoiled' => binding = None /\ \A r \in Slots : op[r].kind # "enrol"
  BY <1>1 DEF ResetDelete
<1>4. route' = "enrol" => binding = None
  <2>1. CASE op[s].at = "deleteRevoked"
    BY <1>1, <2>1 DEF Good, Enrolling
  <2>2. CASE op[s].at # "deleteRevoked"
    BY <2>2 DEF ResetDelete, At, IInv, PhoneInv
  <2>3. QED BY <2>1, <2>2
<1>5. Advances
  BY <1>1, <1>3 DEF Advances
<1>6. \A q \in Slots : Spares(q, op[q])
  BY <1>1, <1>3 DEF Spares
<1>7. \A q \in Slots : Good(q)'
  BY <1>1, <1>3, <1>5, <1>6, IdleGood, GoodStep
<1>8. MobileTyped'
  BY <1>1, <1>2, <1>3, OpSet DEF MobileTyped
<1>9. PhoneInv'
  BY <1>1, <1>3, <1>4 DEF IInv, PhoneInv, EnrolmentCoherent
<1>10. Meant'
  BY <1>1, <1>5, MeantKept DEF IInv
<1>11. QED BY <1>7, <1>8, <1>9, <1>10 DEF IInv

\* While the citizen enrols, the phone is not enrolled, and the operation of
\* the other slot is a refresh.
LEMMA EnrolIs ==
    ASSUME IInv, NEW s \in Slots, op[s].ep \in EnrolEps
    PROVE  s = "user" /\ op[s].kind = "enrol" /\ binding = None
  BY DEF IInv, Good, Shape, Enrolling, Slots

LEMMA EnrolGenerateInv ==
    ASSUME IInv, NEW s \in Slots, EnrolGenerate(s)
    PROVE  IInv'
<1>1. /\ UNCHANGED <<binding, session, route, groups, shown, bind, txn, chals, net, pulls,
                     tapped, acked, spoiled>>
      /\ MobileTyped /\ Good(s) /\ spoiled \in BOOLEAN /\ op[s].ep = "attestationChallenge"
  BY DEF EnrolGenerate, Answered, screens, broker, ghosts, IInv, MobileTyped
<1>2. s = "user" /\ op[s].kind = "enrol" /\ binding = None
  BY <1>1, EnrolIs DEF EnrolEps
<1>3. store' \in SUBSET Keys
  BY <1>1 DEF EnrolGenerate, generate, AndroidGenerate, IosGenerate, FreshKeys, MobileTyped
<1>4. \E o \in Op : /\ op' = [op EXCEPT ![s] = o]
                    /\ Shape(s, o) /\ Enrolling(o)' /\ Deciding(o)'
  <2>1. CASE End(s)
    BY <2>1, IdleOp, IdleGood DEF End, Becomes
  <2>2. ASSUME NEW k \in Keys, Becomes(s, [Call(s, "enrolStart") EXCEPT !.key = k])
        PROVE  \E o \in Op : /\ op' = [op EXCEPT ![s] = o]
                             /\ Shape(s, o) /\ Enrolling(o)' /\ Deciding(o)'
    <3>1. "enrolStart" \in Endpoints /\ "enrolStart" \in EnrolEps
      BY DEF Endpoints, EnrolEps
    <3>2. PICK o \in Op :
            /\ o = [Call(s, "enrolStart") EXCEPT !.key = k]
            /\ o.at = "call" /\ o.ep = "enrolStart" /\ SameAim(o, op[s])
      BY <1>1, <3>1, CallKeyIs
    <3>3. o.at = "call" /\ o.ep = "enrolStart" /\ SameAim(o, op[s])
      BY <3>2
    <3>4. Shape(s, o)
      BY <1>1, <1>2, <3>1, <3>3 DEF Good, Shape, SameAim
    <3>5. Enrolling(o)'
      BY <1>1, <1>2, <3>3 DEF Enrolling, Ok
    <3>6. Deciding(o)'
      BY <1>1, <3>3 DEF Good, Deciding, Ok, SameAim
    <3>7. op' = [op EXCEPT ![s] = o]
      BY <2>2, <3>2 DEF Becomes
    <3>8. QED BY <3>4, <3>5, <3>6, <3>7
  <2>3. End(s) \/ \E k \in Keys : Becomes(s, [Call(s, "enrolStart") EXCEPT !.key = k])
    BY DEF EnrolGenerate, EnrolStart, FreshKeys
  <2>4. QED BY <2>1, <2>2, <2>3
<1>5. Advances
  BY <1>1 DEF Advances
<1>6. \A q \in Slots \ {s} : Spares(q, op[q])
  BY <1>2 DEF Spares, Slots
<1>7. \A q \in Slots : Good(q)'
  BY <1>1, <1>4, <1>5, <1>6, GoodStep
<1>8. MobileTyped'
  BY <1>1, <1>3, <1>4, OpSet DEF MobileTyped
<1>9. PhoneInv'
  BY <1>1, <1>2 DEF IInv, PhoneInv, EnrolmentCoherent
<1>10. Meant'
  BY <1>1, <1>5, MeantKept DEF IInv
<1>11. QED BY <1>7, <1>8, <1>9, <1>10 DEF IInv

\* The stored binding is an activated one, and its key is in the hardware.
LEMMA EnrolSaveInv ==
    ASSUME IInv, NEW s \in Slots, EnrolSave(s)
    PROVE  IInv'
<1>1. /\ UNCHANGED <<store, session, groups, shown, bind, txn, chals, net, pulls,
                     tapped, acked, spoiled>>
      /\ MobileTyped /\ Good(s) /\ spoiled \in BOOLEAN /\ op[s].ep = "enrolActivate"
      /\ route' = "home" /\ binding' = op[s].b
      /\ op' = [op EXCEPT ![s] = Idle] /\ Idle \in Op
  BY IdleOp DEF EnrolSave, Answered, End, Becomes, broker, ghosts, IInv, MobileTyped
<1>2. s = "user" /\ op[s].kind = "enrol" /\ binding = None
  BY <1>1, EnrolIs DEF EnrolEps
<1>3. /\ op[s].b \in Bindings
      /\ bind[op[s].b].key = op[s].key /\ bind[op[s].b].status \in {"active", "revoked"}
      /\ ~spoiled => op[s].key \in store
  BY <1>1 DEF Good, Enrolling, Ok, EnrolSave, Answered, At
<1>4. ~spoiled => session = None
  BY <1>2 DEF IInv, PhoneInv, EnrolmentCoherent
<1>5. Advances
  BY <1>1 DEF Advances
<1>6. \A q \in Slots \ {s} : Spares(q, op[q])
  BY <1>2 DEF Spares, Slots
<1>7. \A q \in Slots : Good(q)'
  BY <1>1, <1>5, <1>6, IdleGood, GoodStep
<1>8. MobileTyped'
  BY <1>1, <1>3, OpSet DEF MobileTyped
<1>9. PhoneInv'
  BY <1>1, <1>3, <1>4 DEF PhoneInv, EnrolmentCoherent
<1>10. Meant'
  BY <1>1, <1>5, MeantKept DEF IInv
<1>11. QED BY <1>7, <1>8, <1>9, <1>10 DEF IInv

LEMMA RefusedInv ==
    ASSUME IInv, NEW s \in Slots, Refused(s)
    PROVE  IInv'
<1>1. /\ UNCHANGED <<store, screens, broker, tapped, acked>>
      /\ MobileTyped /\ Good(s) /\ op[s] \in Op /\ spoiled \in BOOLEAN
      /\ session \in Bindings \cup {None}
  BY DEF Refused, IInv, MobileTyped
<1>2. op[s].ep \in Authed => op[s].ep \notin EnrolEps /\ op[s].kind # "enrol"
  BY <1>1 DEF Good, Shape, Authed, EnrolEps
<1>3. CASE op[s].ep \in Authed /\ ResetClear(s, "delete")
  BY <1>1, <1>2, <1>3, ResetClearInv
<1>4. ASSUME op[s].ep \in Authed, op[s].ep \notin ConsumesNonce, Relogin(s), session' = None,
             UNCHANGED <<binding, spoiled>>
      PROVE  IInv'
  <2>1. PICK g \in Op : g = Go(s, "ensure")
    BY <1>1, GoIs DEF Places
  <2>2. g.at = "ensure" /\ g.ep = "none" /\ SameAim(g, op[s])
    BY <1>1, <2>1, GoIs DEF Places
  <2>3. PICK e \in {"pending", "lists", "revokeBinding"} : e = op[s].ep
    BY <1>4 DEF Authed, ConsumesNonce
  <2>4. PICK o \in Op : o = [g EXCEPT !.back = e, !.relog = TRUE]
    BY DEF Op, Backs, Authed
  <2>5. /\ o.at = "ensure" /\ o.ep = "none" /\ o.back = e
        /\ o.kind = op[s].kind /\ o.dec = op[s].dec
    BY <2>2, <2>4 DEF Op, SameAim
  <2>6. Shape(s, o)
    BY <1>1, <1>2, <1>4, <2>3, <2>5 DEF Good, Shape, EnrolEps
  <2>7. Enrolling(o) /\ Deciding(o)
    BY <1>2, <1>4, <2>5 DEF Enrolling, Deciding, Ok
  <2>8. op' = [op EXCEPT ![s] = o]
    BY <1>4, <2>1, <2>3, <2>4 DEF Relogin, Becomes
  <2>9. QED BY <1>1, <1>4, <2>6, <2>7, <2>8, SessionStep
<1>5. ASSUME End(s), UNCHANGED <<binding, session, spoiled>>
      PROVE  IInv'
  BY <1>1, <1>5, EndOnly DEF phone
<1>6. QED BY <1>3, <1>4, <1>5 DEF Refused

LEMMA ReceivedInv ==
    ASSUME IInv, NEW s \in Slots, Received(s)
    PROVE  IInv'
<1>1. /\ UNCHANGED <<phone, route, shown, broker, tapped, acked, spoiled>>
      /\ MobileTyped /\ Good(s) /\ op[s] \in Op /\ spoiled \in BOOLEAN
  BY DEF Received, ghosts, IInv, MobileTyped
<1>2. CASE op[s].ep = "pending"
  <2>1. op[s].kind # "enrol"
    BY <1>1, <1>2 DEF Good, Shape, EnrolEps
  <2>2. PICK g \in Op : g = Go(s, "ensure")
    BY <1>1, GoIs DEF Places
  <2>3. g.at = "ensure" /\ g.ep = "none" /\ SameAim(g, op[s])
    BY <1>1, <2>2, GoIs DEF Places
  <2>4. PICK o \in Op : o = [g EXCEPT !.back = "lists", !.relog = FALSE]
    BY DEF Op, Backs, Authed
  <2>5. /\ o.at = "ensure" /\ o.ep = "none" /\ o.back = "lists"
        /\ o.kind = op[s].kind /\ o.dec = op[s].dec
    BY <2>3, <2>4 DEF Op, SameAim
  <2>6. Shape(s, o)
    BY <1>1, <2>1, <2>5 DEF Good, Shape, EnrolEps
  <2>7. Enrolling(o)' /\ Deciding(o)'
    BY <2>1, <2>5 DEF Enrolling, Deciding, Ok
  <2>8. op' = [op EXCEPT ![s] = o]
    BY <1>2, <2>2, <2>4 DEF Received, Becomes
  <2>9. groups' \in SUBSET Request
    BY <1>1, <1>2 DEF Received, Op, MobileTyped
  <2>10. Advances
    BY <1>1 DEF Advances, broker
  <2>11. \A q \in Slots, p \in Op : Spares(q, p)
    BY <1>1 DEF Spares, phone
  <2>12. \A q \in Slots : Good(q)'
    BY <1>1, <2>6, <2>7, <2>8, <2>10, <2>11, GoodStep DEF MobileTyped
  <2>13. MobileTyped'
    BY <1>1, <2>8, <2>9, OpSet DEF MobileTyped, phone, broker
  <2>14. PhoneInv'
    BY <1>1, <2>10, PhoneKeeps DEF IInv, PhoneInv
  <2>15. Meant'
    BY <1>1, <2>10, MeantKept DEF IInv, broker
  <2>16. QED BY <2>12, <2>13, <2>14, <2>15 DEF IInv
<1>3. CASE op[s].ep # "pending"
  BY <1>1, <1>3, EndOnly DEF Received, screens
<1>4. QED BY <1>2, <1>3

LEMMA RevokeDoneInv ==
    ASSUME IInv, NEW s \in Slots, RevokeDone(s)
    PROVE  IInv'
<1>1. UNCHANGED <<store, screens, broker, tapped, acked>> /\ op[s].kind = "revoke"
  BY DEF RevokeDone, Answered, IInv, Good, Shape
<1>2. CASE ResetClear(s, "deleteRevoked")
  BY <1>1, <1>2, ResetClearInv
<1>3. ASSUME End(s), UNCHANGED <<binding, session, spoiled>>
      PROVE  IInv'
  BY <1>1, <1>3, EndOnly DEF phone
<1>4. QED BY <1>2, <1>3 DEF RevokeDone

\* What is reported to the citizen is on record.
LEMMA DecideDoneInv ==
    ASSUME IInv, NEW s \in Slots, DecideDone(s)
    PROVE  IInv'
<1>1. /\ UNCHANGED <<phone, groups, broker, tapped, spoiled>>
      /\ route' = "home" /\ shown' = Nothing /\ acked' = acked \cup {<<op[s].txn, op[s].dec>>}
      /\ op' = [op EXCEPT ![s] = Idle] /\ Idle \in Op
      /\ MobileTyped /\ Good(s) /\ Ok(op[s], "decision") /\ spoiled \in BOOLEAN
  BY IdleOp DEF DecideDone, Answered, At, Ok, End, Becomes, IInv, MobileTyped
<1>2. s = "user" /\ op[s].txn \in Txns /\ txn[op[s].txn] \in Verdicts
  BY <1>1 DEF Good, Shape, Deciding, Ok, Slots
<1>3. Advances
  BY <1>1 DEF Advances, broker
<1>4. \A q \in Slots \ {s} : Spares(q, op[q])
  BY <1>2 DEF Spares, Slots
<1>5. \A q \in Slots : Good(q)'
  BY <1>1, <1>3, <1>4, IdleGood, GoodStep
<1>6. MobileTyped'
  BY <1>1, OpSet DEF MobileTyped, phone, broker
<1>7. PhoneInv'
  BY <1>1, <1>3, PhoneKeeps
<1>8. Meant'
  BY <1>1, <1>2, <1>3 DEF IInv, Meant, Advances, broker
<1>9. QED BY <1>5, <1>6, <1>7, <1>8 DEF IInv
-----------------------------------------------------------------------------
(* Screens, the app and the platform. *)

LEMMA goHomeOrEnrolInv ==
    ASSUME IInv, goHomeOrEnrol
    PROVE  IInv'
<1>1. /\ UNCHANGED <<phone, groups, shown, op, broker, ghosts>>
      /\ route' = "enrol" => binding = None
  BY DEF goHomeOrEnrol
<1>2. Advances /\ \A q \in Slots : Spares(q, op[q])
  BY <1>1 DEF Advances, Spares, phone, broker, ghosts
<1>3. MobileTyped'
  BY <1>1 DEF IInv, MobileTyped, phone, broker, ghosts
<1>4. \A q \in Slots : Good(q)'
  BY <1>1, <1>2, <1>3, GoodKept DEF IInv, MobileTyped
<1>5. PhoneInv'
  BY <1>1, <1>2, PhoneKeeps DEF ghosts
<1>6. Meant'
  BY <1>1, <1>2, MeantKept DEF IInv, broker, ghosts
<1>7. QED BY <1>3, <1>4, <1>5, <1>6 DEF IInv

\* The citizen's slot is free: it becomes o, and the request on the screen may
\* change with it.
LEMMA UserStep ==
    ASSUME IInv, NEW o \in Op, op' = [op EXCEPT !["user"] = o],
           Shape("user", o), Enrolling(o)', Deciding(o)',
           route' # "enrol", shown' \in Request \cup {Nothing}, tapped \subseteq tapped',
           UNCHANGED <<phone, groups, broker, acked, spoiled>>
    PROVE  IInv'
<1>1. "user" \in Slots /\ spoiled' \in BOOLEAN
  BY DEF Slots, IInv, MobileTyped
<1>2. Advances
  BY DEF Advances, broker
<1>3. \A q \in Slots \ {"user"} : Spares(q, op[q])
  BY DEF Spares, Slots
<1>4. \A q \in Slots : Good(q)'
  BY <1>1, <1>2, <1>3, GoodStep
<1>5. MobileTyped'
  BY <1>1, OpSet DEF IInv, MobileTyped, phone, broker
<1>6. PhoneInv'
  BY <1>2, PhoneKeeps
<1>7. Meant'
  BY <1>2, MeantKept DEF IInv, broker
<1>8. QED BY <1>4, <1>5, <1>6, <1>7 DEF IInv

LEMMA OpenApprovalInv ==
    ASSUME IInv, OpenApproval
    PROVE  IInv'
<1>1. op["user"] = Idle /\ op \in [Slots -> Op] /\ groups \in SUBSET Request
  BY DEF OpenApproval, At, IInv, Good, Shape, Slots, MobileTyped
<1>2. op' = [op EXCEPT !["user"] = Idle]
  BY <1>1 DEF OpenApproval
<1>3. "user" \in Slots
  BY DEF Slots
<1>4. QED BY <1>1, <1>2, <1>3, IdleOp, IdleGood, UserStep DEF OpenApproval, ghosts

LEMMA TapDecideInv ==
    ASSUME IInv, NEW d \in Verdicts, TapDecide(d)
    PROVE  IInv'
<1>1. MobileTyped
  BY DEF IInv
<1>2. PICK b \in Bindings \cup {None} : b = binding
  BY <1>1 DEF MobileTyped
<1>3. PICK o \in Op : o = [Idle EXCEPT !.kind = "decide", !.at = "ensure", !.back = "decide",
                                       !.b = b, !.dec = d]
  BY IdleOp DEF Op, Kinds, Places, Backs
<1>4. o.kind = "decide" /\ o.at = "ensure" /\ o.back = "decide" /\ o.dec = d /\ o.ep = "none"
  BY <1>3, IdleOp DEF Op
<1>5. op' = [op EXCEPT !["user"] = o]
  BY <1>2, <1>3 DEF TapDecide, Becomes
<1>6. Shape("user", o)
  BY <1>4 DEF Shape, EnrolEps
<1>7. Enrolling(o)'
  BY <1>4 DEF Enrolling, Ok
<1>8. Deciding(o)'
  BY <1>4 DEF Deciding, Ok, TapDecide, screens
<1>9. /\ UNCHANGED <<phone, groups, broker, acked, spoiled>> /\ route' # "enrol"
      /\ shown' \in Request \cup {Nothing} /\ tapped \subseteq tapped'
  BY <1>1 DEF TapDecide, screens, MobileTyped
<1>10. QED BY <1>5, <1>6, <1>7, <1>8, <1>9, UserStep

\* A killed app forgets its operations, its session and its screens.
LEMMA KillInv ==
    ASSUME IInv, Kill
    PROVE  IInv'
<1>1. /\ UNCHANGED <<binding, store, bind, txn, chals, pulls, ghosts>>
      /\ session' = None /\ route' = "language"
      /\ op' = [s \in Slots |-> Idle] /\ groups' = {} /\ shown' = Nothing
  BY DEF Kill
<1>2. \A q \in Slots : Good(q)'
  BY <1>1, IdleGood DEF Good, Shape, Enrolling, Deciding
<1>3. MobileTyped'
  BY <1>1, IdleOp DEF IInv, MobileTyped, ghosts
<1>4. PhoneInv'
  BY <1>1 DEF IInv, PhoneInv, EnrolmentCoherent, ghosts
<1>5. Meant'
  <2>1. \A s \in Slots : \A d \in Underway(s) :
           d.dec \in Verdicts /\ <<d.txn, d.dec>> \in tapped /\ IsSent(d)
    BY UnderwayMeant
  <2>2. \A d \in net' \ net : d.dec \in Verdicts /\ <<d.txn, d.dec>> \in tapped /\ IsSent(d)
    BY <2>1 DEF Kill
  <2>3. QED BY <1>1, <2>2 DEF IInv, Meant, ghosts
<1>6. QED BY <1>2, <1>3, <1>4, <1>5 DEF IInv

LEMMA BiometricsChangeInv ==
    ASSUME IInv, BiometricsChange
    PROVE  IInv'
<1>1. /\ UNCHANGED <<binding, session, route, groups, shown, op, bind, txn, chals, net, pulls,
                     tapped, acked>>
      /\ store' = {} /\ spoiled' = TRUE
  BY DEF BiometricsChange, screens, broker
<1>2. Advances /\ \A q \in Slots : Spares(q, op[q])
  BY <1>1 DEF Advances, Spares
<1>3. MobileTyped'
  BY <1>1 DEF IInv, MobileTyped
<1>4. \A q \in Slots : Good(q)'
  BY <1>1, <1>2, GoodKept DEF IInv
<1>5. PhoneInv'
  BY <1>1 DEF IInv, PhoneInv, EnrolmentCoherent
<1>6. Meant'
  BY <1>1, <1>2, MeantKept DEF IInv
<1>7. QED BY <1>3, <1>4, <1>5, <1>6 DEF IInv
-----------------------------------------------------------------------------
(* Steps that change the broker. *)

\* A row of the broker goes forward, and the operation of slot s becomes o.
LEMMA BindStep ==
    ASSUME IInv, NEW s \in Slots, NEW o \in Op, op' = [op EXCEPT ![s] = o],
           Shape(s, o), Enrolling(o)', Deciding(o)', Advances, bind' \in [Bindings -> Row],
           PhoneKept, UNCHANGED <<txn, chals, net, pulls>>
    PROVE  IInv'
<1>1. UNCHANGED <<phone, screens, ghosts>>
  BY DEF PhoneKept
<1>2. \A q \in Slots, p \in Op : Spares(q, p)
  BY <1>1 DEF Spares, phone, screens
<1>3. MobileTyped'
  BY <1>1, OpSet DEF IInv, MobileTyped, phone, screens, ghosts
<1>4. \A q \in Slots : Good(q)'
  BY <1>2, <1>3, GoodStep DEF IInv, MobileTyped
<1>5. PhoneInv'
  BY <1>1, PhoneKeeps DEF IInv, PhoneInv, screens, ghosts
<1>6. Meant'
  BY <1>1, MeantKept DEF IInv, ghosts
<1>7. QED BY <1>3, <1>4, <1>5, <1>6 DEF IInv

\* One row changes, and only forward.
LEMMA RowForward ==
    ASSUME IInv, NEW b, NEW row \in Row, bind' = [bind EXCEPT ![b] = row],
           b \in Bindings => \/ bind[b].status = "none"
                             \/ row.key = bind[b].key /\ row.status \in {"active", "revoked"},
           UNCHANGED ghosts, UNCHANGED txn
    PROVE  Advances /\ bind' \in [Bindings -> Row]
<1>1. bind \in [Bindings -> Row]
  BY DEF IInv, MobileTyped
<1>2. bind' \in [Bindings -> Row]
  BY <1>1
<1>3. \A c \in Bindings : bind'[c] = IF c = b THEN row ELSE bind[c]
  BY <1>1
<1>4. Advances
  BY <1>3 DEF Advances, ghosts
<1>5. QED BY <1>2, <1>4

LEMMA BrokerEnrolStartInv ==
    ASSUME IInv, NEW s \in Slots, BrokerEnrolStart(s)
    PROVE  IInv'
<1>1. /\ MobileTyped /\ Good(s) /\ op[s] \in Op /\ op[s].at = "call" /\ op[s].ep = "enrolStart"
      /\ PhoneKept /\ UNCHANGED <<txn, chals, net, pulls>>
  BY DEF BrokerEnrolStart, Respond, At, IInv, MobileTyped
<1>2. CASE Answer(s, "refused") /\ UNCHANGED bind
  <2>1. UNCHANGED broker /\ "refused" \in Answers /\ At(s, "call")
    BY <1>1, <1>2 DEF broker, Answers, At
  <2>2. QED BY <1>1, <1>2, <2>1, AnswerOnly
<1>3. ASSUME NEW b \in Bindings, bind[b].status = "none",
             bind' = [bind EXCEPT ![b] = [status |-> "pending", key |-> op[s].key]],
             Becomes(s, [op[s] EXCEPT !.at = "answered", !.ans = "ok", !.b = b])
      PROVE  IInv'
  <2>1. PICK row \in Row : row = [status |-> "pending", key |-> op[s].key]
    BY <1>1 DEF Row, Op
  <2>2. Advances /\ bind' \in [Bindings -> Row] /\ bind'[b] = row
    BY <1>1, <1>3, <2>1, RowForward DEF PhoneKept, MobileTyped
  <2>3. PICK o \in Op : o = [op[s] EXCEPT !.at = "answered", !.ans = "ok", !.b = b]
    BY <1>1 DEF Op, Places, Answers
  <2>4. o.at = "answered" /\ o.ep = "enrolStart" /\ o.b = b /\ SameAim(o, op[s])
    BY <1>1, <2>3 DEF Op, SameAim
  <2>5. Shape(s, o)
    BY <1>1, <2>4 DEF Good, Shape, SameAim
  <2>6. o.kind = "enrol" /\ binding' = None
    BY <1>1, <2>4, EnrolIs DEF SameAim, EnrolEps, PhoneKept, phone
  <2>7. Enrolling(o)'
    BY <2>1, <2>2, <2>4, <2>6 DEF Enrolling, Ok
  <2>8. Deciding(o)'
    BY <1>1, <2>4 DEF Good, Deciding, Ok, SameAim, PhoneKept, screens, ghosts
  <2>9. op' = [op EXCEPT ![s] = o]
    BY <1>3, <2>3 DEF Becomes
  <2>10. QED BY <1>1, <2>2, <2>5, <2>7, <2>8, <2>9, BindStep
<1>4. QED BY <1>2, <1>3 DEF BrokerEnrolStart

LEMMA BrokerActivateInv ==
    ASSUME IInv, NEW s \in Slots, BrokerActivate(s)
    PROVE  IInv'
<1>1. /\ MobileTyped /\ Good(s) /\ op[s] \in Op /\ op[s].at = "call" /\ op[s].ep = "enrolActivate"
      /\ PhoneKept /\ UNCHANGED <<txn, chals, net, pulls>> /\ bind \in [Bindings -> Row]
  BY DEF BrokerActivate, Respond, At, IInv, MobileTyped
<1>2. CASE bind[op[s].b] # [status |-> "pending", key |-> op[s].key]
  <2>1. UNCHANGED broker /\ Answer(s, "refused") /\ "refused" \in Answers /\ At(s, "call")
    BY <1>1, <1>2 DEF BrokerActivate, broker, Answers, At
  <2>2. QED BY <1>1, <2>1, AnswerOnly
<1>3. CASE bind[op[s].b] = [status |-> "pending", key |-> op[s].key]
  <2>1. PICK b \in Bindings : b = op[s].b
    BY <1>1 DEF Good, Enrolling
  <2>2. PICK row \in Row : row = [status |-> "active", key |-> op[s].key]
    BY <1>1 DEF Row, Op
  <2>3. bind' = [bind EXCEPT ![b] = row]
    <3>1. bind' = [bind EXCEPT ![b].status = "active"]
      BY <1>3, <2>1 DEF BrokerActivate
    <3>2. [bind[b] EXCEPT !.status = "active"] = row
      BY <1>3, <2>1, <2>2
    <3>3. QED BY <3>1, <3>2
  <2>4. bind[b].key = row.key /\ row.status = "active"
    BY <1>3, <2>1, <2>2
  <2>5. Advances /\ bind' \in [Bindings -> Row] /\ bind'[b] = row
    BY <1>1, <2>3, <2>4, RowForward DEF PhoneKept
  <2>6. PICK o \in Op : o = [op[s] EXCEPT !.at = "answered", !.ans = "ok"]
    BY <1>1 DEF Op, Places, Answers
  <2>7. /\ o.at = "answered" /\ o.ep = "enrolActivate" /\ o.b = b /\ o.key = op[s].key
        /\ SameAim(o, op[s])
    BY <1>1, <2>1, <2>6 DEF Op, SameAim
  <2>8. Shape(s, o)
    BY <1>1, <2>7 DEF Good, Shape, SameAim
  <2>9. o.kind = "enrol" /\ binding' = None
    BY <1>1, <2>7, EnrolIs DEF SameAim, EnrolEps, PhoneKept, phone
  <2>10. ~spoiled' => o.key \in store'
    BY <1>1, <2>7 DEF Good, Enrolling, PhoneKept, phone, ghosts
  <2>11. Enrolling(o)'
    BY <2>2, <2>5, <2>7, <2>9, <2>10 DEF Enrolling, Ok
  <2>12. Deciding(o)'
    BY <1>1, <2>7 DEF Good, Deciding, Ok, SameAim, PhoneKept, screens, ghosts
  <2>13. op' = [op EXCEPT ![s] = o]
    BY <1>3, <2>6 DEF BrokerActivate, Answer, Becomes
  <2>14. QED BY <1>1, <2>5, <2>8, <2>11, <2>12, <2>13, BindStep
<1>4. QED BY <1>2, <1>3

\* A row that was active is revoked.
LEMMA RevokeForward ==
    ASSUME IInv, NEW b, bind' = [bind EXCEPT ![b].status = "revoked"],
           UNCHANGED ghosts, UNCHANGED txn
    PROVE  Advances /\ bind' \in [Bindings -> Row]
<1>1. bind \in [Bindings -> Row]
  BY DEF IInv, MobileTyped
<1>2. bind' \in [Bindings -> Row]
  BY <1>1 DEF Row
<1>3. \A c \in Bindings : /\ bind'[c].key = bind[c].key
                          /\ bind'[c].status \in {bind[c].status, "revoked"}
  BY <1>1 DEF Row
<1>4. Advances
  BY <1>3 DEF Advances, ghosts
<1>5. QED BY <1>2, <1>4

LEMMA BrokerRevokeInv ==
    ASSUME IInv, NEW s \in Slots, BrokerRevoke(s)
    PROVE  IInv'
<1>1. /\ At(s, "call") /\ op[s].ep = "revokeBinding" /\ Answer(s, "ok") /\ PhoneKept
      /\ UNCHANGED <<txn, chals, net, pulls>>
      /\ bind' = [bind EXCEPT ![op[s].token].status = "revoked"]
  BY DEF BrokerRevoke, Respond
<1>2. Advances /\ bind' \in [Bindings -> Row]
  BY <1>1, RevokeForward DEF PhoneKept
<1>3. PICK o \in Op : o = [op[s] EXCEPT !.at = "answered", !.ans = "ok"]
  BY AnsweredIs DEF IInv, Answers
<1>4. Shape(s, o) /\ Enrolling(o) /\ Deciding(o)
  BY <1>1, <1>3, AnswerGood DEF Answers
<1>5. Spares(s, o) /\ spoiled' \in BOOLEAN /\ spoiled \in BOOLEAN
  BY <1>1 DEF Spares, PhoneKept, phone, screens, ghosts, IInv, MobileTyped
<1>6. Enrolling(o)' /\ Deciding(o)'
  BY <1>2, <1>4, <1>5, AimKept
<1>7. op' = [op EXCEPT ![s] = o]
  BY <1>1, <1>3 DEF Answer, Becomes
<1>8. QED BY <1>1, <1>2, <1>4, <1>6, <1>7, BindStep

LEMMA RevokedElsewhereInv ==
    ASSUME IInv, RevokedElsewhere
    PROVE  IInv'
<1>1. /\ UNCHANGED <<phone, screens, ghosts>> /\ UNCHANGED <<op, txn, chals, net, pulls>>
      /\ \E b \in Bindings : bind' = [bind EXCEPT ![b].status = "revoked"]
  BY DEF RevokedElsewhere, PhoneKept
<1>2. Advances /\ bind' \in [Bindings -> Row]
  BY <1>1, RevokeForward
<1>3. \A q \in Slots : Spares(q, op[q])
  BY <1>1 DEF Spares, phone, screens
<1>4. MobileTyped'
  BY <1>1, <1>2 DEF IInv, MobileTyped, phone, screens, ghosts
<1>5. \A q \in Slots : Good(q)'
  BY <1>1, <1>2, <1>3, <1>4, GoodKept DEF IInv, MobileTyped
<1>6. PhoneInv'
  BY <1>1, <1>2, PhoneKeeps DEF IInv, PhoneInv, screens, ghosts
<1>7. Meant'
  BY <1>1, <1>2, MeantKept DEF IInv, ghosts
<1>8. QED BY <1>4, <1>5, <1>6, <1>7 DEF IInv

LEMMA BrokerPendingInv ==
    ASSUME IInv, NEW s \in Slots, BrokerPending(s)
    PROVE  IInv'
<1> DEFINE asked == {t \in Txns : txn[t] = "pending"}
<1>1. /\ At(s, "call") /\ op[s].ep = "pending" /\ PhoneKept /\ UNCHANGED <<bind, txn, net>>
      /\ MobileTyped /\ Good(s) /\ op[s] \in Op /\ pulls \in Nat
  BY DEF BrokerPending, Respond, IInv, MobileTyped
<1>2. ASSUME NEW a \in {"ok", "refused"}, Answer(s, a), UNCHANGED <<pulls, chals>>
      PROVE  IInv'
  BY <1>1, <1>2, AnswerOnly DEF Answers, broker
<1>3. ASSUME pulls' = pulls + 1, chals' = chals \cup {<<t, pulls + 1>> : t \in asked},
             Becomes(s, [op[s] EXCEPT !.at = "answered", !.ans = "ok",
                           !.list = {[txn |-> t, chal |-> pulls + 1] : t \in asked}])
      PROVE  IInv'
  <2>1. PICK n \in Nat : n = pulls + 1
    BY <1>1
  <2>2. PICK l \in SUBSET Request : l = {[txn |-> t, chal |-> n] : t \in asked}
    <3>1. \A t \in asked : [txn |-> t, chal |-> n] \in Request
      BY DEF Request
    <3>2. {[txn |-> t, chal |-> n] : t \in asked} \in SUBSET Request
      BY <3>1
    <3>3. QED BY <3>2
  <2>3. PICK o \in Op : o = [op[s] EXCEPT !.at = "answered", !.ans = "ok", !.list = l]
    BY <1>1 DEF Op, Places, Answers
  <2>4. o.at = "answered" /\ o.ep = "pending" /\ SameAim(o, op[s])
    BY <1>1, <2>3 DEF Op, SameAim
  <2>5. o.kind # "enrol"
    BY <1>1, <2>4 DEF Good, Shape, SameAim, EnrolEps
  <2>6. Shape(s, o) /\ Enrolling(o) /\ Deciding(o)
    BY <1>1, <2>4, <2>5, GoesOn DEF Ok, EnrolEps
  <2>7. op' = [op EXCEPT ![s] = o]
    BY <1>3, <2>1, <2>2, <2>3 DEF Becomes
  <2>8. pulls' \in Nat /\ chals' \in SUBSET (Txns \X Nat)
    BY <1>1, <1>3 DEF MobileTyped
  <2>9. UNCHANGED <<phone, screens, ghosts>>
    BY <1>1 DEF PhoneKept
  <2>10. Advances /\ \A q \in Slots, p \in Op : Spares(q, p)
    BY <1>1, <2>9 DEF Advances, Spares, phone, screens, ghosts
  <2>11. MobileTyped'
    BY <1>1, <2>7, <2>8, <2>9, OpSet DEF MobileTyped, phone, screens, ghosts
  <2>12. Enrolling(o)' /\ Deciding(o)'
    BY <1>1, <2>6, <2>10, <2>11, AimKept DEF MobileTyped
  <2>13. \A q \in Slots : Good(q)'
    BY <1>1, <2>6, <2>7, <2>10, <2>11, <2>12, GoodStep DEF MobileTyped
  <2>14. PhoneInv'
    BY <2>9, <2>10, PhoneKeeps DEF IInv, PhoneInv, screens, ghosts
  <2>15. Meant'
    BY <1>1, <2>9, <2>10, MeantKept DEF IInv, ghosts
  <2>16. QED BY <2>11, <2>13, <2>14, <2>15 DEF IInv
<1>4. QED BY <1>2, <1>3 DEF BrokerPending

\* A decision the citizen tapped is recorded: a request is decided once, as
\* tapped, and is decided after it.
LEMMA RecordsMeant ==
    ASSUME IInv, NEW d, d.dec \in Verdicts, <<d.txn, d.dec>> \in tapped, Records(d),
           net' \subseteq net, UNCHANGED <<tapped, acked, bind, spoiled>>
    PROVE  /\ Advances /\ Meant'
           /\ txn' \in [Txns -> {"none", "pending"} \cup Verdicts]
           /\ d.txn \in Txns /\ txn[d.txn] # "none" => txn'[d.txn] \in Verdicts
<1>1. txn \in [Txns -> {"none", "pending"} \cup Verdicts] /\ Meant
  BY DEF IInv, MobileTyped
<1>2. CASE txn[d.txn] # "pending"
  <2>1. txn' = txn
    BY <1>2 DEF Records
  <2>2. Advances
    BY <2>1 DEF Advances
  <2>3. Meant'
    BY <1>1, <2>1 DEF Meant
  <2>4. QED BY <1>1, <1>2, <2>1, <2>2, <2>3
<1>3. CASE txn[d.txn] = "pending"
  <2>1. txn' = [txn EXCEPT ![d.txn] = d.dec]
    BY <1>3 DEF Records
  <2>2. \A t \in Txns : txn'[t] = IF t = d.txn THEN d.dec ELSE txn[t]
    BY <1>1, <2>1
  <2>3. "pending" \notin Verdicts /\ "none" \notin Verdicts
    BY DEF Verdicts
  <2>4. Advances
    BY <1>3, <2>2, <2>3 DEF Advances
  <2>5. Meant'
    <3>1. \A t \in Txns : txn'[t] \in Verdicts => <<t, txn'[t]>> \in tapped
      BY <1>1, <2>2 DEF Meant
    <3>2. \A a \in acked : a[1] \in Txns /\ txn'[a[1]] \in Verdicts
      <4>1. SUFFICES ASSUME NEW a \in acked
                     PROVE  a[1] \in Txns /\ txn'[a[1]] \in Verdicts
        OBVIOUS
      <4>2. a[1] \in Txns /\ txn[a[1]] \in Verdicts
        BY <1>1 DEF Meant
      <4>3. QED BY <2>4, <4>2 DEF Advances
    <3>3. QED BY <1>1, <3>1, <3>2 DEF Meant
  <2>6. txn' \in [Txns -> {"none", "pending"} \cup Verdicts]
    BY <1>1, <2>1
  <2>7. QED BY <2>2, <2>4, <2>5, <2>6
<1>4. QED BY <1>2, <1>3

\* The operation of slot s becomes o, and the broker's challenges and requests
\* go forward under it.
LEMMA DecisionStep ==
    ASSUME IInv, NEW s \in Slots, NEW o \in Op, op' = [op EXCEPT ![s] = o],
           Shape(s, o), Enrolling(o)', Deciding(o)', Advances, Meant',
           txn' \in [Txns -> {"none", "pending"} \cup Verdicts],
           chals' \in SUBSET (Txns \X Nat), PhoneKept, UNCHANGED <<bind, pulls>>
    PROVE  IInv'
<1>1. UNCHANGED <<phone, screens, ghosts>>
  BY DEF PhoneKept
<1>2. \A q \in Slots, p \in Op : Spares(q, p)
  BY <1>1 DEF Spares, phone, screens
<1>3. MobileTyped'
  BY <1>1, OpSet DEF IInv, MobileTyped, phone, screens, ghosts
<1>4. \A q \in Slots : Good(q)'
  BY <1>2, <1>3, GoodStep DEF IInv, MobileTyped
<1>5. PhoneInv'
  BY <1>1, PhoneKeeps DEF IInv, PhoneInv, screens, ghosts
<1>6. QED BY <1>3, <1>4, <1>5 DEF IInv

\* What an answered or checked decision still is.
LEMMA StillDeciding ==
    ASSUME IInv, NEW s \in Slots, op[s].ep = "decision", NEW o \in Op,
           o.at \in {"checked", "answered"}, o.ep = "decision", SameAim(o, op[s])
    PROVE  /\ Shape(s, o) /\ Enrolling(o)' /\ o.back = "decision"
           /\ o.dec \in Verdicts /\ <<o.txn, o.dec>> \in tapped
           /\ Sent(s).dec = o.dec /\ Sent(s).txn = o.txn
<1>1. Good(s)
  BY DEF IInv
<1>2. Shape(s, o)
  BY <1>1 DEF Good, Shape, SameAim
<1>3. op[s].back = "decision" /\ op[s].dec \in Verdicts /\ <<op[s].txn, op[s].dec>> \in tapped
  BY <1>1 DEF Good, Shape, Deciding
<1>4. Enrolling(o)'
  BY <1>2 DEF Shape, Enrolling, Ok, EnrolEps
<1>5. QED BY <1>2, <1>3, <1>4 DEF SameAim, Sent

LEMMA BrokerDecisionInv ==
    ASSUME IInv, NEW s \in Slots, BrokerDecision(s)
    PROVE  IInv'
<1>1. /\ op[s].at = "call" /\ op[s].ep = "decision" /\ PhoneKept
      /\ UNCHANGED <<bind, txn, net, pulls>> /\ UNCHANGED <<tapped, acked, spoiled>>
      /\ chals \in SUBSET (Txns \X Nat) /\ op[s] \in Op
      /\ txn \in [Txns -> {"none", "pending"} \cup Verdicts]
  BY DEF BrokerDecision, Respond, At, IInv, MobileTyped, PhoneKept, ghosts
<1>2. Advances /\ Meant'
  BY <1>1, MeantKept DEF Advances, IInv
<1>3. chals' \in SUBSET (Txns \X Nat)
  BY <1>1 DEF BrokerDecision, Consumes
<1>4. CASE Answer(s, "refused")
  <2>1. PICK o \in Op : o = [op[s] EXCEPT !.at = "answered", !.ans = "refused"]
    BY <1>1 DEF Op, Places, Answers
  <2>2. /\ o.at = "answered" /\ o.ans = "refused" /\ Shape(s, o) /\ Enrolling(o)'
        /\ o.back = "decision" /\ <<o.txn, o.dec>> \in tapped
    <3>1. o.at = "answered" /\ o.ans = "refused" /\ o.ep = "decision" /\ SameAim(o, op[s])
      BY <1>1, <2>1 DEF Op, SameAim
    <3>2. QED BY <1>1, <3>1, StillDeciding
  <2>3. Deciding(o)'
    BY <1>1, <2>2 DEF Deciding, Ok
  <2>4. op' = [op EXCEPT ![s] = o]
    BY <1>4, <2>1 DEF Answer, Becomes
  <2>5. QED BY <1>1, <1>2, <1>3, <2>2, <2>3, <2>4, DecisionStep
<1>5. CASE Admits(Sent(s)) /\ Becomes(s, [op[s] EXCEPT !.at = "checked"])
  <2>1. PICK o \in Op : o = [op[s] EXCEPT !.at = "checked"]
    BY <1>1 DEF Op, Places
  <2>2. /\ o.at = "checked" /\ Shape(s, o) /\ Enrolling(o)'
        /\ o.back = "decision" /\ <<o.txn, o.dec>> \in tapped /\ Sent(s).txn = o.txn
    <3>1. o.at = "checked" /\ o.ep = "decision" /\ SameAim(o, op[s])
      BY <1>1, <2>1 DEF Op, SameAim
    <3>2. QED BY <1>1, <3>1, StillDeciding
  <2>3. o.txn \in Txns /\ txn[o.txn] = "pending"
    BY <1>1, <1>5, <2>2 DEF Admits
  <2>4. Deciding(o)'
    BY <1>1, <2>2, <2>3 DEF Deciding, Ok
  <2>5. op' = [op EXCEPT ![s] = o]
    BY <1>5, <2>1 DEF Becomes
  <2>6. QED BY <1>1, <1>2, <1>3, <2>2, <2>4, <2>5, DecisionStep
<1>6. QED BY <1>4, <1>5 DEF BrokerDecision

LEMMA BrokerRecordsInv ==
    ASSUME IInv, NEW s \in Slots, BrokerRecords(s)
    PROVE  IInv'
<1>1. /\ op[s].at = "checked" /\ PhoneKept /\ UNCHANGED <<bind, chals, net, pulls>>
      /\ UNCHANGED <<tapped, acked, spoiled>> /\ chals' \in SUBSET (Txns \X Nat)
      /\ op[s] \in Op /\ Good(s) /\ txn \in [Txns -> {"none", "pending"} \cup Verdicts]
  BY DEF BrokerRecords, At, IInv, MobileTyped, PhoneKept, ghosts
<1>2. op[s].ep = "decision" /\ op[s].txn \in Txns /\ txn[op[s].txn] # "none"
  BY <1>1 DEF Good, Shape, Deciding
<1>3. PICK a \in {"ok", "refused"} :
         /\ Answer(s, a)
         /\ Records(Sent(s)) \/ (a = "refused" /\ txn' = txn)
  BY DEF BrokerRecords
<1>4. PICK o \in Op : o = [op[s] EXCEPT !.at = "answered", !.ans = a]
  BY <1>1 DEF Op, Places, Answers
<1>5. /\ o.at = "answered" /\ o.ans = a /\ o.txn = op[s].txn
      /\ Shape(s, o) /\ Enrolling(o)' /\ o.back = "decision"
      /\ <<o.txn, o.dec>> \in tapped
      /\ Sent(s).dec \in Verdicts /\ Sent(s).txn = op[s].txn
      /\ <<Sent(s).txn, Sent(s).dec>> \in tapped
  <2>1. o.at = "answered" /\ o.ans = a /\ o.ep = "decision" /\ SameAim(o, op[s])
    BY <1>1, <1>2, <1>4 DEF Op, SameAim
  <2>2. QED BY <1>2, <2>1, StillDeciding DEF SameAim
<1>6. /\ Advances /\ Meant'
      /\ txn' \in [Txns -> {"none", "pending"} \cup Verdicts]
      /\ a = "ok" => txn'[op[s].txn] \in Verdicts
  <2>1. CASE Records(Sent(s))
    <3>1. PICK d : d = Sent(s)
      OBVIOUS
    <3>2. /\ Advances /\ Meant'
          /\ txn' \in [Txns -> {"none", "pending"} \cup Verdicts]
          /\ d.txn \in Txns /\ txn[d.txn] # "none" => txn'[d.txn] \in Verdicts
      BY <1>1, <1>5, <2>1, <3>1, RecordsMeant
    <3>3. QED BY <1>2, <1>5, <3>1, <3>2
  <2>2. CASE a = "refused" /\ txn' = txn
    BY <1>1, <2>2, MeantKept DEF Advances, IInv
  <2>3. QED BY <1>3, <2>1, <2>2
<1>7. Deciding(o)'
  BY <1>1, <1>2, <1>5, <1>6 DEF Deciding, Ok
<1>8. op' = [op EXCEPT ![s] = o]
  BY <1>3, <1>4 DEF Answer, Becomes
<1>9. QED BY <1>1, <1>5, <1>6, <1>7, <1>8, DecisionStep

\* A decision that comes late decides nothing that was not tapped.
LEMMA LateDecisionInv ==
    ASSUME IInv, LateDecision
    PROVE  IInv'
<1>1. /\ UNCHANGED <<phone, screens, ghosts>> /\ UNCHANGED <<op, bind, pulls>>
      /\ UNCHANGED <<tapped, acked, spoiled>>
  BY DEF LateDecision, PhoneKept, ghosts
<1>2. PICK d \in net :
         \/ net' = (net \ {d}) \cup {[d EXCEPT !.checked = TRUE]} /\ txn' = txn
         \/ net' = net \ {d} /\ Records(d)
         \/ net' = net \ {d} /\ txn' = txn
  BY DEF LateDecision
<1>3. d.dec \in Verdicts /\ <<d.txn, d.dec>> \in tapped /\ IsSent(d)
  BY DEF IInv, Meant
<1>4. chals' \in SUBSET (Txns \X Nat)
  BY DEF IInv, MobileTyped, LateDecision, Consumes
<1>5. Advances /\ Meant' /\ txn' \in [Txns -> {"none", "pending"} \cup Verdicts]
  <2>1. CASE net' = net \ {d} /\ Records(d)
    BY <1>1, <1>3, <2>1, RecordsMeant
  <2>2. CASE txn' = txn /\ net' = net \ {d}
    BY <1>1, <2>2 DEF IInv, MobileTyped, Meant, Advances
  <2>3. CASE txn' = txn /\ net' = (net \ {d}) \cup {[d EXCEPT !.checked = TRUE]}
    <3>1. PICK e : e = [d EXCEPT !.checked = TRUE]
      OBVIOUS
    <3>2. IsSent(e) /\ e.dec = d.dec /\ e.txn = d.txn
      BY <1>3, <3>1 DEF IsSent
    <3>3. \A x \in net' : x.dec \in Verdicts /\ <<x.txn, x.dec>> \in tapped /\ IsSent(x)
      BY <1>3, <2>3, <3>1, <3>2 DEF IInv, Meant
    <3>4. QED BY <1>1, <2>3, <3>3 DEF IInv, MobileTyped, Meant, Advances
  <2>4. QED BY <1>2, <2>1, <2>2, <2>3
<1>6. \A q \in Slots : Spares(q, op[q])
  BY <1>1 DEF Spares, phone, screens
<1>7. MobileTyped'
  BY <1>1, <1>4, <1>5 DEF IInv, MobileTyped, phone, screens
<1>8. \A q \in Slots : Good(q)'
  BY <1>1, <1>5, <1>6, <1>7, GoodKept DEF IInv, MobileTyped
<1>9. PhoneInv'
  BY <1>1, <1>5, PhoneKeeps DEF IInv, PhoneInv, screens
<1>10. QED BY <1>5, <1>7, <1>8, <1>9 DEF IInv
-----------------------------------------------------------------------------
LEMMA InitInv == PhoneInit => IInv
<1> SUFFICES ASSUME PhoneInit
             PROVE  IInv
  OBVIOUS
<1>1. PICK b \in Bindings : b = CHOOSE c \in Bindings : TRUE
  BY PhoneAssumption
<1>2. PICK k \in Keys : k = CHOOSE c \in Keys : TRUE
  BY PhoneAssumption
<1>3. \/ /\ binding = b /\ store = {k}
         /\ bind = [c \in Bindings |-> IF c = b THEN [status |-> "active", key |-> k]
                                       ELSE [status |-> "none", key |-> None]]
      \/ /\ binding = None /\ store = {}
         /\ bind = [c \in Bindings |-> [status |-> "none", key |-> None]]
  BY <1>1, <1>2 DEF PhoneInit
<1>4. /\ session = None /\ route = "language" /\ groups = {} /\ shown = Nothing
      /\ op = [s \in Slots |-> Idle] /\ chals = {} /\ net = {} /\ pulls = 0
      /\ tapped = {} /\ acked = {} /\ spoiled = FALSE
      /\ txn = [t \in Txns |-> IF t \in env.asks THEN "pending" ELSE "none"]
  BY DEF PhoneInit
<1>5. /\ binding \in Bindings \cup {None} /\ store \in SUBSET Keys
      /\ bind \in [Bindings -> Row]
  BY <1>3 DEF Row
<1>6. MobileTyped
  BY <1>4, <1>5, IdleOp DEF MobileTyped
<1>7. \A s \in Slots : Good(s)
  BY <1>4, IdleGood DEF Good
<1>8. PhoneInv
  BY <1>3, <1>4 DEF PhoneInv, EnrolmentCoherent
<1>9. Meant
  BY <1>4 DEF Meant, Verdicts
<1>10. QED BY <1>6, <1>7, <1>8, <1>9 DEF IInv

LEMMA NextInv == IInv /\ [PhoneNext]_phoneVars => IInv'
<1> SUFFICES ASSUME IInv, [PhoneNext]_phoneVars
             PROVE  IInv'
  OBVIOUS
<1>1. ASSUME NEW s \in Slots, OpStep(s)
      PROVE  IInv'
  BY <1>1, EnrolGenerateInv, SignActivationInv, EnrolSaveInv, ensureSessionInv, SignLoginInv,
     LoginSessionInv, ResetDeleteInv, DecideInv, ReceivedInv, RevokeDoneInv, DecideDoneInv,
     RefusedInv DEF OpStep
<1>2. ASSUME NEW s \in Slots, Network(s)
      PROVE  IInv'
  BY <1>2, BrokerOpenInv, BrokerEnrolStartInv, BrokerActivateInv, BrokerLoginInv,
     BrokerRefusesInv, BrokerPendingInv, BrokerListsInv, BrokerRevokeInv, BrokerDecisionInv, BrokerRecordsInv,
     sendWithRetryInv DEF Network
<1>3. CASE Refresh \/ Look \/ TapRevoke
  BY <1>3, StartInv DEF Refresh, Look, TapRevoke, Slots
<1>4. CASE \E d \in {"approved", "denied"} : TapDecide(d)
  BY <1>4, TapDecideInv DEF Verdicts
<1>5. CASE goHomeOrEnrol \/ TapEnrol \/ OpenApproval
  BY <1>5, goHomeOrEnrolInv, TapEnrolInv, OpenApprovalInv
<1>6. CASE Kill \/ LateDecision \/ RevokedElsewhere \/ BiometricsChange
  BY <1>6, KillInv, LateDecisionInv, RevokedElsewhereInv, BiometricsChangeInv
<1>7. CASE UNCHANGED phoneVars
  BY <1>7 DEF phoneVars, phone, screens, broker, ghosts, IInv, MobileTyped, Good, Shape, Enrolling,
     Deciding, Ok, PhoneInv, EnrolmentCoherent, Meant
<1>8. QED BY <1>1, <1>2, <1>3, <1>4, <1>5, <1>6, <1>7 DEF PhoneNext, Citizen

\* Throughout, every operation knows what it is about: an enrolment holds a row
\* and the key of that row, a decision in flight or given up on was tapped, and
\* a request whose decision was answered with ok is decided.
THEOREM PhoneInvariant == PhoneSpec => []IInv
  BY InitInv, NextInv, PTL DEF PhoneSpec

\* A phone that says it is enrolled holds the key of that binding, which the
\* broker activated, and its session is that binding's, through every failure,
\* lost answer, revocation and kill (enrol, reset, login), short of a key or a
\* session touched from outside their enrolment.
THEOREM EnrolmentStaysCoherent == PhoneSpec => []EnrolmentCoherent
<1>1. IInv => EnrolmentCoherent
  BY DEF IInv, PhoneInv
<1>2. QED BY <1>1, PhoneInvariant, PTL

\* A request is decided only as the citizen tapped on that very request, and
\* once a decision on it was reported back it is decided, one way or the other,
\* however often it was tapped, interrupted and arrived late (decide,
\* sendWithRetry, ApprovalScreen.submit, the broker's decision).
THEOREM DecisionsAreMeant == PhoneSpec => []DecisionsMeant
<1>1. IInv => DecisionsMeant
  BY DEF IInv, Meant, DecisionsMeant, Verdicts
<1>2. QED BY <1>1, PhoneInvariant, PTL
=============================================================================
