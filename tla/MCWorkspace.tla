----------------------------- MODULE MCWorkspace -----------------------------
(* An organization of two users with two invitations and two requests.      *)
EXTENDS Workspace, TLC

Symmetries == Permutations(Requests) \cup Permutations(Invitations)
=============================================================================
