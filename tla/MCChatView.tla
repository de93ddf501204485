----------------------------- MODULE MCChatView -----------------------------
(* A session of two messages, seen through a view of two or four rows.     *)
EXTENDS ChatView
=============================================================================
