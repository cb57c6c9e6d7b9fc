------------------------------ MODULE TaskState ------------------------------
(***************************************************************************)
(* What the gateway, the containers, the watchdog and the prewarm handler  *)
(* share: the TaskState table, one row for each owner of a container, and  *)
(* the ECS tasks.  Nobody locks a row: every writer reads, awaits, and     *)
(* then puts or deletes the whole row without a condition.                 *)
(*                                                                         *)
(* Time is counted in ticks of 5 minutes, the watchdog's interval; a row   *)
(* holds how long ago its startedAt and lastActivity were, and how much is *)
(* left until its prewarmUntil.                                            *)
(***************************************************************************)
EXTENDS Naturals, FiniteSets

CONSTANTS
  Users,     \* owners of containers who send messages
  Prewarm,   \* PREWARM_USER_ID, the owner of a container nobody has claimed
  Tasks,     \* ECS tasks that may be started
  NoTask,
  AgeCap,    \* ages are counted up to this bound
  WarmFor    \* PREWARM_DURATION

ASSUME TaskStateAssumption ==
  /\ Prewarm \notin Users
  /\ NoTask \notin Tasks
  /\ AgeCap \in Nat
  /\ WarmFor \in Nat

VARIABLES
  taskState,   \* the table
  container    \* the tasks: what ECS knows of each, and how far its bridge is

fleetVars == <<taskState, container>>

Owners == Users \cup {Prewarm}

(***************************************************************************)
(* A "Partial" row has neither status nor task: DynamoDB creates it for an *)
(* Update of a key that is gone.                                           *)
(***************************************************************************)
Row == [status: {"Absent", "Partial", "Starting", "Running", "Idle"},
        task: Tasks \cup {NoTask},
        ip: BOOLEAN,
        age: 0..AgeCap,      \* since startedAt
        idle: 0..AgeCap,     \* since lastActivity
        warm: 0..WarmFor]    \* until prewarmUntil

NoRow == [status |-> "Absent", task |-> NoTask, ip |-> FALSE, age |-> 0, idle |-> 0, warm |-> 0]

IdleRow == [NoRow EXCEPT !.status = "Idle"]

FreshRow(status, t) == [NoRow EXCEPT !.status = status, !.task = t]

\* The filter of the scans: #s IN (:running, :starting).
IsActive(r) == r.status \in {"Running", "Starting"}

\* The row leads to a bridge.
Reachable(r) == r.status = "Running" /\ r.ip

\* getTaskState: an Idle row reads as none.
GetTaskState(o) == IF taskState[o].status = "Idle" THEN NoRow ELSE taskState[o]

PutTaskState(o, r) == taskState' = [taskState EXCEPT ![o] = r]

DeleteTaskState(o) == PutTaskState(o, NoRow)

(***************************************************************************)
(* A container boots (restores its workspace, waits for OpenClaw), opens   *)
(* its bridge, puts its row, drains the pending messages and serves.  Its  *)
(* SIGTERM handler is installed only then, and the entry point, a shell    *)
(* without a trap, passes no signal of ECS on: a task ECS stops goes on    *)
(* until ECS kills it.                                                     *)
(***************************************************************************)
Listening == {"bridge", "running", "serving"}

Alive == Listening \cup {"boot", "stopping"}

ContainerState ==
  [pc: {"unborn", "stopped"} \cup Alive,
   owner: Owners,
   condemned: BOOLEAN,                      \* ECS was told to stop it
   ip: {"unknown", "discovering", "settled"},
   age: 0..AgeCap]                          \* since RunTask

Unborn(o) == [pc |-> "unborn", owner |-> o, condemned |-> FALSE, ip |-> "unknown", age |-> 0]

\* A stopped task keeps nothing but whose it was.
Ended(c) == [Unborn(c.owner) EXCEPT !.pc = "stopped"]

IsAlive(t) == container[t].pc \in Alive

IsListening(t) == container[t].pc \in Listening

IsStopped(t) == container[t].pc = "stopped"

\* RunTask: a task that has never run, which one makes no difference.  Its owner
\* is fixed by its USER_ID.
RunTask(t, o) ==
  /\ container[t].pc = "unborn"
  /\ t = CHOOSE x \in Tasks : container[x].pc = "unborn"
  /\ container' = [container EXCEPT ![t] = [Unborn(o) EXCEPT !.pc = "boot"]]

\* StopTask changes what ECS wants of the task.
StopTask(t) == container' = [container EXCEPT ![t].condemned = @ \/ IsAlive(t)]

TaskStateInit ==
  /\ taskState = [o \in Owners |-> NoRow]
  /\ container = [t \in Tasks |-> Unborn(Prewarm)]

Older(n) == IF n < AgeCap THEN n + 1 ELSE n

AgedRow(r) ==
  IF IsActive(r)
  THEN [r EXCEPT !.age = Older(@), !.idle = Older(@), !.warm = IF @ = 0 THEN 0 ELSE @ - 1]
  ELSE r

AgedContainer(c) == IF c.pc \in Alive THEN [c EXCEPT !.age = Older(@)] ELSE c

\* Five minutes pass.
TimePasses ==
  /\ taskState' = [o \in Owners |-> AgedRow(taskState[o])]
  /\ container' = [t \in Tasks |-> AgedContainer(container[t])]

TaskStateTypeOK ==
  /\ taskState \in [Owners -> Row]
  /\ container \in [Tasks -> ContainerState]
=============================================================================
