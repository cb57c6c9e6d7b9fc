-------------------------- MODULE FargateContainer ---------------------------
(***************************************************************************)
(* The bridge process of a Fargate task: packages/container/src/startup.ts *)
(* and lifecycle.ts, cut at their awaits.  Draining the pending messages   *)
(* is PendingMessages's; here it is the time a container is "running" and  *)
(* not yet "serving".                                                      *)
(***************************************************************************)
EXTENDS TaskState

\* OpenClaw is up and its client is ready; the bridge starts to listen.
Boot(t) ==
  /\ container[t].pc = "boot"
  /\ container' = [container EXCEPT ![t].pc = "bridge"]
  /\ UNCHANGED taskState

\* updateTaskState("Running"): a new row, whatever the old one was.  Its
\* lastActivity is the bridge's own, not the old row's.
RunningRow(t, ip, idle) == [FreshRow("Running", t) EXCEPT !.ip = ip, !.idle = idle]

PutRunning(t) ==
  /\ container[t].pc = "bridge"
  /\ PutTaskState(container[t].owner, RunningRow(t, FALSE, 0))
  /\ container' = [container EXCEPT ![t].pc = "running", ![t].ip = "discovering"]

\* Nothing waits for the discovery of the address: its Put comes at any time, and
\* the bridge's lastActivity is then of its start or of any message since.
PutAddress(t) ==
  /\ IsAlive(t) /\ container[t].ip = "discovering"
  /\ \E idle \in 0..container[t].age :
       PutTaskState(container[t].owner, RunningRow(t, TRUE, idle))
  /\ container' = [container EXCEPT ![t].ip = "settled"]

\* No address, or an error: "non-fatal", and never tried again.
NoAddress(t) ==
  /\ IsAlive(t) /\ container[t].ip = "discovering"
  /\ container' = [container EXCEPT ![t].ip = "settled"]
  /\ UNCHANGED taskState

\* The drain is over; periodic backup and SIGTERM handler are set up.
Serve(t) ==
  /\ container[t].pc = "running"
  /\ container' = [container EXCEPT ![t].pc = "serving"]
  /\ UNCHANGED taskState

\* The OpenClaw gateway exits, and the entry point ends the bridge: with its
\* handler gracefully, without one at once.
GatewayExits(t) ==
  /\ container[t].pc \in {"boot", "bridge", "running", "serving"}
  /\ container' = [container EXCEPT ![t] =
       IF @.pc = "serving" THEN [@ EXCEPT !.pc = "stopping"] ELSE Ended(@)]
  /\ UNCHANGED taskState

\* gracefulShutdown ends with updateTaskState("Idle"), then the process exits.
PutIdle(t) ==
  /\ container[t].pc = "stopping"
  /\ PutTaskState(container[t].owner, IdleRow)
  /\ container' = [container EXCEPT ![t] = Ended(@)]

\* The bridge dies without a word: exit(1) when anything in startContainer
\* throws, a failed backup during shutdown, SIGKILL, a Spot reclaim.
Crash(t) ==
  /\ IsAlive(t)
  /\ container' = [container EXCEPT ![t] = Ended(@)]
  /\ UNCHANGED taskState

\* What ECS does to a task it was told to stop, when the stop timeout is over.
Kill(t) == container[t].condemned /\ Crash(t)
=============================================================================
