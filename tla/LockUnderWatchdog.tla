-------------------------- MODULE LockUnderWatchdog --------------------------
(***************************************************************************)
(* SessionLock where AGENT_RUNTIME is "both", the default: the watchdog    *)
(* runs too and takes every Running row of TaskState for an ECS task's.    *)
(* The taskArn of a lock row is an execution's id, which DescribeTasks     *)
(* does not find or refuses: watchdog.ts deletes the row either way,       *)
(* without a condition.  Fargate's own rows are left out.                  *)
(***************************************************************************)
EXTENDS SessionLock

VARIABLE scanned   \* the rows of its scan that the watchdog has still to verify

allVars == <<lockVars, scanned>>

WatchdogScan ==
  /\ scanned = {}
  /\ scanned' = {u \in Users : row[u].status = "Running"}
  /\ UNCHANGED lockVars

WatchdogCleansUp(u) ==
  /\ u \in scanned
  /\ row' = [row EXCEPT ![u] = NoRow]
  /\ scanned' = scanned \ {u}
  /\ UNCHANGED <<exec, s3, kept>>

BothInit == Init /\ scanned = {}

BothNext ==
  \/ Next /\ UNCHANGED scanned
  \/ WatchdogScan
  \/ \E u \in Users : WatchdogCleansUp(u)

BothSpec == BothInit /\ [][BothNext]_allVars
=============================================================================
