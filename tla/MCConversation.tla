--------------------------- MODULE MCConversation ---------------------------
(* The instance of Conversation: two agents who compete, and a second       *)
(* conversation on a channel without AI.                                    *)
EXTENDS Conversation

TwoConvs == {"c1", "c2"}
FirstHasAI == {"c1"}
=============================================================================
