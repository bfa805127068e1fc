------------------------------ MODULE MCProposal ------------------------------
(* Two requests and one promotion on a proposal that starts at capture.      *)
EXTENDS Proposal, TLC

RequestSymmetry == Permutations(Requests)
=============================================================================
