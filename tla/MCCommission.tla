---------------------------- MODULE MCCommission ----------------------------
(* One proposal that two requests may issue, and two requests at once on    *)
(* its commission and the reversals of it.                                  *)
EXTENDS Commission, TLC

SameProposal == ("k1" :> "p1") @@ ("k2" :> "p1")
=============================================================================
