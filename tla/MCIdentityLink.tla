---------------------------- MODULE MCIdentityLink ----------------------------
(* A small instance of IdentityLink. *)
EXTENDS IdentityLink, TLC

CONSTANTS u1, u2, t1, t2, c1, h1, h2

IdentitySymmetry ==
  Permutations(Users) \cup Permutations(Telegrams) \cup Permutations(Handlers)
=============================================================================
