---------------------------- MODULE MCConversation ----------------------------
(* Small instances of Conversation for TLC: conversation.cfg and              *)
(* conversation_live.cfg for what holds, delete_session.cfg for a statement   *)
(* of the documents that the code does not keep.                              *)
EXTENDS Conversation
=============================================================================
