---------------------------- MODULE MCKeyCustody ----------------------------
(***************************************************************************)
(* Instances of KeyCustody for TLC, drawn by the initial state.            *)
(***************************************************************************)
EXTENDS KeyCustody

CONSTANTS r1, r2

\* Two replicas boot at once and are probed; one rotates.
Fleet == [on |-> {r1, r2}, rotators |-> {r1}, may |-> {"probe"}, keys |-> 3]

\* One replica through an outage, crashes and restarts.
Weather == [on |-> {r1}, rotators |-> {r1}, keys |-> 3,
            may |-> {"probe", "outage", "crash", "stop"}]

\* One replica signs, reports and rotates while appends fail.
Usage == [on |-> {r1}, rotators |-> {r1}, keys |-> 2, may |-> {"usage", "sign", "auditFails"}]

\* One replica signs, fails to sign and reports while appends fail.
Failures == [on |-> {r1}, rotators |-> {}, keys |-> 1,
             may |-> {"usage", "sign", "signFails", "auditFails"}]

\* One replica reports what it signed as it stops.
Farewell == [on |-> {r1}, rotators |-> {}, keys |-> 1,
             may |-> {"usage", "sign", "probe", "stop", "auditFails"}]

OnlyFleet == {Fleet}
AllSettings == {Fleet, Weather, Usage, Failures, Farewell}
=============================================================================
