--------------------------- MODULE MCPrewarmClaims ---------------------------
(* Small instances of PrewarmClaims: two users with a message each. *)
EXTENDS PrewarmClaims

CONSTANTS u1, u2

MCUserOf == [m \in Msgs |-> IF m = 1 THEN u1 ELSE u2]
=============================================================================
