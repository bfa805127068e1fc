-------------------------- MODULE MCMessageDelivery --------------------------
(* Two messages for one worker.                                              *)
EXTENDS MessageDelivery

TwoMessages == {"m1", "m2"}
=============================================================================
