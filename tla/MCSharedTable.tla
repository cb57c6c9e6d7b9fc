---------------------------- MODULE MCSharedTable ----------------------------
(* Small instance of SharedTable: one user. *)
EXTENDS SharedTable

CONSTANT u1

MCUserOf == [m \in Msgs |-> u1]
MCChatUser == [e \in Chats |-> u1]
=============================================================================
