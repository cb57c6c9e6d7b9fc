--------------------------- MODULE PrewarmHandler ----------------------------
(***************************************************************************)
(* packages/gateway/src/handlers/prewarm.ts, cut at its awaits: on its     *)
(* schedule it extends the protection of one active row, whichever the     *)
(* scan returns first, or starts a container that belongs to nobody.       *)
(***************************************************************************)
EXTENDS TaskState

CONSTANT MaxPrewarms   \* how often the schedule fires

ASSUME PrewarmAssumption == MaxPrewarms \in Nat

VARIABLES
  prewarm,
  prewarms   \* how often it has fired

prewarmVars == <<prewarm, prewarms>>

PrewarmState == [pc: {"idle", "update", "run", "put"}, at: Owners, task: Tasks \cup {NoTask}]

PrewarmIdle == [pc |-> "idle", at |-> Prewarm, task |-> NoTask]

PrewarmScan ==
  LET active == {o \in Owners : IsActive(taskState[o])}
  IN  /\ prewarm.pc = "idle"
      /\ prewarms < MaxPrewarms
      /\ prewarms' = prewarms + 1
      /\ \/ active = {} /\ prewarm' = [PrewarmIdle EXCEPT !.pc = "run"]
         \/ \E o \in active : prewarm' = [PrewarmIdle EXCEPT !.pc = "update", !.at = o]
      /\ UNCHANGED fleetVars

\* SET lastActivity, prewarmUntil: an upsert.
Protect(r) ==
  CASE r.status = "Absent" -> [NoRow EXCEPT !.status = "Partial"]
    [] IsActive(r) -> [r EXCEPT !.idle = 0, !.warm = WarmFor]
    [] OTHER -> r

PrewarmUpdate ==
  /\ prewarm.pc = "update"
  /\ PutTaskState(prewarm.at, Protect(taskState[prewarm.at]))
  /\ prewarm' = PrewarmIdle
  /\ UNCHANGED <<container, prewarms>>

PrewarmRun(t) ==
  /\ prewarm.pc = "run"
  /\ RunTask(t, Prewarm)
  /\ prewarm' = [prewarm EXCEPT !.pc = "put", !.task = t]
  /\ UNCHANGED <<taskState, prewarms>>

PrewarmPut ==
  /\ prewarm.pc = "put"
  /\ PutTaskState(Prewarm, [FreshRow("Starting", prewarm.task) EXCEPT !.warm = WarmFor])
  /\ prewarm' = PrewarmIdle
  /\ UNCHANGED <<container, prewarms>>

PrewarmFails ==
  /\ prewarm.pc # "idle"
  /\ prewarm' = PrewarmIdle
  /\ UNCHANGED <<fleetVars, prewarms>>

PrewarmInit == prewarm = PrewarmIdle /\ prewarms = 0

PrewarmStep ==
  \/ PrewarmScan
  \/ PrewarmUpdate
  \/ \E t \in Tasks : PrewarmRun(t)
  \/ PrewarmPut

PrewarmTypeOK == prewarm \in PrewarmState /\ prewarms \in 0..MaxPrewarms
=============================================================================
