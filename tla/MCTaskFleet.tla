----------------------------- MODULE MCTaskFleet -----------------------------
(* Small instance of TaskFleet: one user, and the prewarm row. *)
EXTENDS TaskFleet

CONSTANT u1

MCUserOf == [m \in Msgs |-> u1]
=============================================================================
