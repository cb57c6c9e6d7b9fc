------------------------ MODULE MCLockUnderWatchdog -------------------------
(* A small instance of LockUnderWatchdog: all executions are one user's. *)
EXTENDS LockUnderWatchdog

CONSTANT u1

OneUser == [e \in Execs |-> u1]
=============================================================================
