---------------------------- MODULE MCChatIncoming ----------------------------
(* Four deliveries of one contact for two workers: a message that comes      *)
(* twice and the command that closes, which comes twice too.                 *)
EXTENDS ChatIncoming, TLC

CONSTANTS j1, j2, j3, j4

TwiceEach == j1 :> "m1" @@ j2 :> "m1" @@ j3 :> "fim" @@ j4 :> "fim"

\* Deliveries of the same message, and conversations, are interchangeable.
SameDelivery ==
    {p @@ q : p \in Permutations({j1, j2}), q \in Permutations({j3, j4})}
Interchangeable == Permutations(Convs) \cup SameDelivery
=============================================================================
