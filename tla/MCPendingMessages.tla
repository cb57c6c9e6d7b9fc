-------------------------- MODULE MCPendingMessages --------------------------
(* A small instance of PendingRetries. *)
EXTENDS PendingRetries, TLC

CONSTANTS u1, u2

OneUser == [m \in Msgs |-> u1]

ConsumerSymmetry == Permutations(Consumers)
=============================================================================
