---------------------------- MODULE MCSessionLock ----------------------------
(* A small instance of SessionLock. *)
EXTENDS SessionLock

CONSTANTS u1, u2, e3

\* All executions belong to one user but the last.
MCExecUser == [e \in Execs |-> IF e = e3 THEN u2 ELSE u1]
=============================================================================
