--------------------------- MODULE MCConversation ---------------------------
(* Small instances of Conversation for TLC. *)
EXTENDS Conversation, TLC

CONSTANTS w1, w2
=============================================================================
