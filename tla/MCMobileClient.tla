--------------------------- MODULE MCMobileClient ---------------------------
(***************************************************************************)
(* Instances of MobileClient for TLC.                                      *)
(***************************************************************************)
EXTENDS MobileClient

Fit == [available |-> TRUE, level |-> "tee", enrolled |-> TRUE, strong |-> TRUE]
Base == [platform |-> "android", enrolled |-> TRUE, caps |-> Fit, asks |-> {}, may |-> {}]

\* Two requests are decided while the poll runs.
Approvals == [Base EXCEPT !.asks = Txns, !.may = {"poll"}]

\* One request, while the app is killed, or while answers are lost.
Interruptions == {[Base EXCEPT !.asks = {CHOOSE t \in Txns : TRUE}, !.may = {"poll", what}] :
                     what \in {"kill", "loss"}}

\* Sessions end at any moment under both operations of the phone.
Expiries == [Base EXCEPT !.may = {"poll", "look", "loss", "expire"}]

\* This phone is stopped here or elsewhere and enrolled again.
Comebacks == [Base EXCEPT !.enrolled = FALSE,
              !.may = {"look", "revoke", "revokedElsewhere", "loss", "expire", "kill"}]

\* A refresh is still running when the phone is stopped and enrolled again.
Overlaps == [Base EXCEPT !.may = {"poll", "revoke"}]

\* Keys pile up in the Keychain, the platform drops them, deletion fails.
Hardware == [Base EXCEPT !.platform = "ios", !.enrolled = FALSE,
             !.may = {"revoke", "biometricsChange", "deleteFails", "expire", "loss"}]

OnlyComebacks == {Comebacks}
AllScenarios == {Approvals, Expiries, Comebacks, Overlaps, Hardware} \cup Interruptions
=============================================================================
