-------------------------- MODULE SessionTranscript --------------------------
(***************************************************************************)
(* What the session store promises, whatever synchronises its writers: the *)
(* transcript of a user's session only grows.                              *)
(***************************************************************************)
CONSTANTS Users, Turns

VARIABLE transcript

Init == transcript = [u \in Users |-> {}]

Append(u, new) == transcript' = [transcript EXCEPT ![u] = @ \cup new]

Next == \E u \in Users : \E new \in SUBSET Turns : Append(u, new)

Spec == Init /\ [][Next]_transcript
=============================================================================
