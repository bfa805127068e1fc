------------------------------ MODULE MCChatBot ------------------------------
(* One conversation of a channel with a job id, and two slots for its jobs. *)
EXTENDS ChatBot, TLC

OneConv == {"c1"}
NoConv == {}
SameConv == ("j1" :> "c1") @@ ("j2" :> "c1")
=============================================================================
