---------------------------- MODULE MCChatDialog ----------------------------
(* A chat whose opener has two messages to send, and its partner one.       *)
EXTENDS ChatDialog

MCMaxSaid == [e \in Ends |-> IF e = "opener" THEN 2 ELSE 1]

=============================================================================
