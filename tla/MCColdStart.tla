----------------------------- MODULE MCColdStart -----------------------------
(* Small instances of ColdStart. *)
EXTENDS ColdStart

CONSTANTS u1, u2, t1

\* The last of three messages is another user's.
MCUserOf == [m \in Msgs |-> IF m = 3 THEN u2 ELSE u1]
=============================================================================
