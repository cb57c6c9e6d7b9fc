------------------------------ MODULE Watchdog -------------------------------
(***************************************************************************)
(* packages/gateway/src/handlers/watchdog.ts, cut at its awaits: one scan  *)
(* of the active rows, then for each row of that snapshot a DescribeTasks  *)
(* and what follows from it, then a sweep of the running tasks which the   *)
(* snapshot does not refer to.  Ages are those of the scan.                *)
(***************************************************************************)
EXTENDS TaskState

CONSTANTS
  MinUptime,      \* MIN_UPTIME_MINUTES: 1 tick
  StaleStarting,  \* STALE_STARTING_TIMEOUT_MS: 2 ticks
  OrphanUptime,   \* ORPHAN_TASK_MIN_UPTIME_MS: 3 ticks
  Timeouts,       \* INACTIVE_, INACTIVITY_ and ACTIVE_TIMEOUT_MS: 2, 3 and 6 ticks
  DescribeThrows  \* whether DescribeTasks may throw

ASSUME WatchdogAssumption ==
  /\ MinUptime \in Nat
  /\ OrphanUptime \in Nat
  /\ StaleStarting \in Nat
  /\ Timeouts \subseteq Nat
  /\ MinUptime <= OrphanUptime
  /\ DescribeThrows \in BOOLEAN

VARIABLE watch

Watch ==
  [pc: {"idle", "loop", "stop", "delete", "sweep"},
   timeout: Timeouts \cup {0},
   seen: [Owners -> Row],      \* the snapshot, without the rows done with
   refs: SUBSET (Tasks \cup {NoTask}),   \* referencedTaskArns
   at: Owners,                 \* the row being stopped or deleted
   orphans: SUBSET Tasks]      \* what the sweep still has to stop

WatchdogIdle ==
  [pc |-> "idle", timeout |-> 0, seen |-> [o \in Owners |-> NoRow], refs |-> {},
   at |-> Prewarm, orphans |-> {}]

\* What the scan returns of a row, without the address, which nothing here uses.
Scanned(r) == IF IsActive(r) THEN [r EXCEPT !.ip = FALSE] ELSE NoRow

\* getActiveTimeout picks one of the timeouts from CloudWatch's metrics.
Scan ==
  /\ watch.pc = "idle"
  /\ \E timeout \in Timeouts :
       watch' = [WatchdogIdle EXCEPT
         !.pc = "loop",
         !.timeout = timeout,
         !.seen = [o \in Owners |-> Scanned(taskState[o])],
         !.refs = {taskState[o].task : o \in {p \in Owners : IsActive(taskState[p])}}]
  /\ UNCHANGED fleetVars

\* The row of the snapshot the loop looks at: DynamoDB gives no order.
Looks(o) == watch.pc = "loop" /\ IsActive(watch.seen[o])

\* No task, a STOPPED one, or any error of DescribeTasks.
Gone(r) == IsStopped(r.task) \/ DescribeThrows

StillThere(r) == ~IsStopped(r.task)

\* Mutant: a row is left to whoever put it until its task runs.
ExaminedIfRunning(r) == r.status = "Running"

Examined(r) == r.status = "Running" \/ r.age > StaleStarting

Protected(r) == r.age < MinUptime \/ r.warm > 0

Inactive(r) == r.idle > watch.timeout

PassOver(o) ==
  LET r == watch.seen[o]
  IN  /\ Looks(o)
      /\ Examined(r) => StillThere(r)
      /\ r.status = "Running" => Protected(r) \/ ~Inactive(r)
      /\ watch' = [watch EXCEPT !.seen[o] = NoRow]
      /\ UNCHANGED fleetVars

FindGone(o) ==
  /\ Looks(o)
  /\ Examined(watch.seen[o])
  /\ Gone(watch.seen[o])
  /\ watch' = [watch EXCEPT !.pc = "delete", !.at = o]
  /\ UNCHANGED fleetVars

FindInactive(o) ==
  LET r == watch.seen[o]
  IN  /\ Looks(o)
      /\ r.status = "Running"
      /\ StillThere(r)
      /\ ~Protected(r)
      /\ Inactive(r)
      /\ watch' = [watch EXCEPT !.pc = "stop", !.at = o]
      /\ UNCHANGED fleetVars

StopInactive ==
  /\ watch.pc = "stop"
  /\ StopTask(watch.seen[watch.at].task)
  /\ watch' = [watch EXCEPT !.pc = "delete"]
  /\ UNCHANGED taskState

\* Whatever the row holds by now.
DeleteRow ==
  /\ watch.pc = "delete"
  /\ DeleteTaskState(watch.at)
  /\ watch' = [watch EXCEPT !.pc = "loop", !.seen[watch.at] = NoRow, !.at = Prewarm]
  /\ UNCHANGED container

\* Mutant: whatever the snapshot does not refer to is an orphan.
ListUnreferenced ==
  /\ watch.pc = "loop"
  /\ \A o \in Owners : ~IsActive(watch.seen[o])
  /\ watch' = [watch EXCEPT
       !.pc = "sweep",
       !.orphans = {t \in Tasks \ watch.refs : IsAlive(t) /\ ~container[t].condemned}]
  /\ UNCHANGED fleetVars

\* stopOrphanStandaloneTasks: list, describe, and stop one after the other.
ListOrphans ==
  /\ watch.pc = "loop"
  /\ \A o \in Owners : ~IsActive(watch.seen[o])
  /\ watch' = [watch EXCEPT
       !.pc = "sweep",
       !.orphans = {t \in Tasks \ watch.refs :
                      /\ IsAlive(t)
                      /\ ~container[t].condemned
                      /\ container[t].age >= OrphanUptime}]
  /\ UNCHANGED fleetVars

StopOrphan(t) ==
  /\ watch.pc = "sweep" /\ t \in watch.orphans
  /\ StopTask(t)
  /\ watch' = [watch EXCEPT !.orphans = @ \ {t}]
  /\ UNCHANGED taskState

EndSweep ==
  /\ watch.pc = "sweep" /\ watch.orphans = {}
  /\ watch' = WatchdogIdle
  /\ UNCHANGED fleetVars

\* An error that nothing catches, or one of the sweep, ends the run.
WatchdogFails ==
  /\ watch.pc \in {"loop", "stop", "delete"} \/ watch.orphans # {}
  /\ watch' = WatchdogIdle
  /\ UNCHANGED fleetVars

WatchdogInit == watch = WatchdogIdle

WatchdogStep ==
  \/ Scan
  \/ \E o \in Owners : PassOver(o) \/ FindGone(o) \/ FindInactive(o)
  \/ StopInactive
  \/ DeleteRow
  \/ ListOrphans
  \/ \E t \in Tasks : StopOrphan(t)
  \/ EndSweep

WatchdogTypeOK == watch \in Watch
=============================================================================
