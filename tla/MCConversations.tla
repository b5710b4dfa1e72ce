--------------------------- MODULE MCConversations ---------------------------
(* A small instance of Conversations for TLC. *)
EXTENDS Conversations

CONSTANTS c1, c2, s1, s2
=============================================================================
