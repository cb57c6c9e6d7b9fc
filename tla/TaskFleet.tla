------------------------------ MODULE TaskFleet ------------------------------
(***************************************************************************)
(* Everything that writes the TaskState table or starts and stops tasks,   *)
(* running at once: gateway requests, containers, watchdog, prewarm        *)
(* handler, and time.  What a container does between "running" and         *)
(* "serving", the drain of the pending messages, touches neither the table *)
(* nor a task and is in ColdStart.                                         *)
(***************************************************************************)
EXTENDS FargateRouter, FargateContainer, Watchdog, PrewarmHandler

vars == <<fleetVars, req, pendingVars, watch, prewarmVars>>

Init ==
  /\ TaskStateInit
  /\ RouterInit
  /\ WatchdogInit
  /\ PrewarmInit

(***************************************************************************)
(* A gateway Lambda runs for at most 30 seconds, less than a task takes to *)
(* be provisioned: the invocation that started a task is over, with its    *)
(* Put or without, when the task's bridge is up.                           *)
(***************************************************************************)
PutIsDue(t) ==
  \/ \E m \in Msgs : At(m, "put") /\ req[m].task = t
  \/ prewarm.pc = "put" /\ prewarm.task = t

GatewayRuns(m) == UNCHANGED <<watch, prewarmVars>> /\ (RouterStep(m) \/ RequestFails(m))

BridgeBoots(t) ==
  /\ UNCHANGED <<watch, prewarmVars, req, pendingVars>>
  /\ Boot(t)
  /\ ~PutIsDue(t)

BridgePuts(t) ==
  /\ UNCHANGED <<watch, prewarmVars, req, pendingVars>>
  /\ PutRunning(t) \/ PutAddress(t) \/ NoAddress(t) \/ PutIdle(t)

BridgeServes(t) ==
  /\ UNCHANGED <<watch, prewarmVars, req, pendingVars>>
  /\ Serve(t)

BridgeEnds(t) ==
  /\ UNCHANGED <<watch, prewarmVars, req, pendingVars>>
  /\ GatewayExits(t) \/ Crash(t)

WatchdogRuns == UNCHANGED <<prewarmVars, req, pendingVars>> /\ WatchdogStep

WatchdogEnds == UNCHANGED <<prewarmVars, req, pendingVars>> /\ WatchdogFails

PrewarmRuns == UNCHANGED <<watch, req, pendingVars>> /\ (PrewarmStep \/ PrewarmFails)

\* No Lambda's run lasts for a tick.
Tick ==
  /\ UNCHANGED <<watch, prewarmVars, req, pendingVars>>
  /\ NoRequestInFlight
  /\ watch.pc = "idle"
  /\ prewarm.pc = "idle"
  /\ TimePasses

Next ==
  \/ \E m \in Msgs : GatewayRuns(m)
  \/ \E t \in Tasks : BridgeBoots(t) \/ BridgePuts(t) \/ BridgeServes(t) \/ BridgeEnds(t)
  \/ WatchdogRuns
  \/ WatchdogEnds
  \/ PrewarmRuns
  \/ Tick

Spec == Init /\ [][Next]_vars

-----------------------------------------------------------------------------
(***************************************************************************)
(* Fairness: what AWS and the schedule give.  Time passes; the watchdog is *)
(* invoked again and again, and from some time on its calls succeed;       *)
(* Lambdas end; a bridge's calls to AWS return; ECS kills what it was told *)
(* to stop.  No container ends by itself, nor does one that boots or       *)
(* drains its messages ever get through: both wait for OpenClaw, without a *)
(* timeout.                                                                *)
(***************************************************************************)
KillsCondemned(t) == UNCHANGED <<watch, prewarmVars, req, pendingVars>> /\ Kill(t)

FairSpec ==
  /\ Spec
  /\ SF_vars(Tick)
  /\ WF_vars(WatchdogRuns)
  /\ WF_vars(prewarm.pc # "idle" /\ PrewarmRuns)
  /\ \A m \in Msgs : WF_vars(~At(m, "new") /\ GatewayRuns(m))
  /\ \A t \in Tasks :
       /\ WF_vars(BridgePuts(t))
       /\ WF_vars(KillsCondemned(t))
  /\ <>[][~WatchdogEnds]_vars

-----------------------------------------------------------------------------

\* Every variable has its type.
TypeOK ==
  /\ TaskStateTypeOK
  /\ RouterTypeOK
  /\ WatchdogTypeOK
  /\ PrewarmTypeOK

\* The owners whose row may name a task: who it was started for and, if nobody
\* in particular, whoever claimed it.
MayName(o, t) == container[t].owner \in {o, Prewarm}

NamesOwnTask(o, r) ==
  r.task # NoTask => MayName(o, r.task) /\ container[r.task].pc # "unborn"

\* Whatever the order in which requests, containers, watchdog and prewarm
\* handler overwrite each other's rows, a user's row never names a container
\* started for another user, nor does the prewarm row.  (A prewarmed one is started
\* for nobody: see PrewarmClaims.)
RowsNameOwnTasks == \A o \in Owners : NamesOwnTask(o, taskState[o])

\* What the watchdog is about to stop.
Condemns(t) ==
  \/ watch.pc = "stop" /\ watch.seen[watch.at].task = t
  \/ t \in watch.orphans

\* "Tasks within 5 minutes of startup are not terminated" (docs/architecture.md),
\* though the watchdog acts on a snapshot and sweeps what the snapshot lacks: a
\* task that was started, claimed or registered after the scan is spared.
YoungTasksSurvive ==
  \A t \in Tasks : Condemns(t) /\ IsAlive(t) => container[t].age >= MinUptime

\* The same of what is kept of rows across awaits, and of what will be put.
StartedFor(o, t) == t # NoTask => container[t].owner = o /\ container[t].pc # "unborn"

SnapshotsNameOwnTasks ==
  /\ \A m \in Msgs : NamesOwnTask(Prewarm, req[m].warm) /\ StartedFor(UserOf[m], req[m].task)
  /\ \A o \in Owners : NamesOwnTask(o, watch.seen[o])
  /\ StartedFor(Prewarm, prewarm.task)

\* A row, and what is kept of one, makes its task no older than it is.
NoOlder(r) == r.task # NoTask /\ IsAlive(r.task) => r.age <= container[r.task].age

AgesAreNoOlder ==
  /\ \A o \in Owners : NoOlder(taskState[o]) /\ NoOlder(watch.seen[o])
  /\ \A m \in Msgs : NoOlder(req[m].warm)

\* The watchdog has checked the age of what it is about to stop.
CondemnedAreOld ==
  /\ watch.pc = "stop" => watch.seen[watch.at].age >= MinUptime
  /\ \A t \in watch.orphans :
       /\ container[t].pc # "unborn"
       /\ IsAlive(t) => container[t].age >= MinUptime

\* The inductive invariant behind RowsNameOwnTasks and YoungTasksSurvive.
FleetInv ==
  /\ TypeOK
  /\ RowsNameOwnTasks
  /\ SnapshotsNameOwnTasks
  /\ AgesAreNoOlder
  /\ CondemnedAreOld

\* A task that waits in its boot for ever, and has a row of its own.
Hangs(t) ==
  /\ container[t].pc = "boot"
  /\ \E o \in Owners : taskState[o].status = "Starting" /\ taskState[o].task = t

\* "Zombie Task Detection" (docs/architecture.md): when the traffic is over, the
\* fleet goes down to those that hang as they boot.  Every other task ends, registered
\* or not, claimed or not, whatever Put of its row was lost or overwritten, and also if
\* its drain hangs; and no row is left that names another.
OnlyHangingTasksStay ==
  <>[](/\ \A t \in Tasks : IsAlive(t) => Hangs(t)
       /\ \A o \in Owners : IsActive(taskState[o]) => Hangs(taskState[o].task))
=============================================================================
