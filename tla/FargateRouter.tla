---------------------------- MODULE FargateRouter ----------------------------
(***************************************************************************)
(* routeFargate of packages/gateway/src/services/message.ts, cut at its    *)
(* awaits.  Requests run concurrently, each in a Lambda of its own, and    *)
(* each acts on the row it read at its start.  A request is its message.   *)
(***************************************************************************)
EXTENDS TaskState

CONSTANTS Msgs, UserOf, MaxRetries   \* as in PendingMessages

ASSUME RouterAssumption ==
  /\ Msgs \subseteq Nat
  /\ UserOf \in [Msgs -> Users]
  /\ MaxRetries \in Nat \ {0}

VARIABLES
  req,   \* the requests
  pending, drain, saved, handled, expired, failures   \* PendingMessages

Queue == INSTANCE PendingMessages
           WITH Users <- Owners, Consumers <- Tasks, MaxDraining <- Cardinality(Tasks)

pendingVars == <<pending, drain, saved, handled, expired, failures>>

Request ==
  [pc: {"new", "send", "readPrewarm", "sendPrewarm", "claimDelete", "claimPut", "save",
        "delete", "start", "put", "done"},
   row: Row,                      \* the caller's taskState
   warm: Row,                     \* the prewarm row, when it was read
   task: Tasks \cup {NoTask},     \* the task this request started
   result: {"none", "started", "queued"}]   \* what the user is told to wait for

NewRequest == [pc |-> "new", row |-> NoRow, warm |-> NoRow, task |-> NoTask, result |-> "none"]

At(m, pc) == req[m].pc = pc

Goto(m, pc) == req' = [req EXCEPT ![m].pc = pc]

Finish(m, result) ==
  req' = [req EXCEPT ![m] = [NewRequest EXCEPT !.pc = "done", !.task = req[m].task, !.result = result]]

\* getTaskState of the caller, and which branch the row selects.
ReadTask(m) ==
  LET r == GetTaskState(UserOf[m])
  IN  /\ At(m, "new")
      /\ req' = [req EXCEPT ![m].row = r,
                            ![m].pc = CASE Reachable(r) -> "send"
                                        [] r = NoRow -> "readPrewarm"
                                        [] OTHER -> "save"]
      /\ UNCHANGED <<fleetVars, pendingVars>>

(***************************************************************************)
(* sendToBridge.  A bridge that listens answers 202 and works on the       *)
(* message later; all a container keeps of it is its own lastActivity (see *)
(* RunningRow).  A send may fail whatever the bridge made of it.           *)
(***************************************************************************)
BridgeAccepts(t) == IsListening(t)

SendOk(m) ==
  /\ At(m, "send")
  /\ BridgeAccepts(req[m].row.task)
  /\ Finish(m, "none")
  /\ UNCHANGED <<fleetVars, pendingVars>>

SendFails(m) ==
  /\ At(m, "send")
  /\ Goto(m, "save")
  /\ UNCHANGED <<fleetVars, pendingVars>>

(***************************************************************************)
(* The claim of a prewarmed container: send, delete its row, put the       *)
(* user's.  An error at any of them is "bridge unreachable".               *)
(***************************************************************************)
ReadPrewarm(m) ==
  LET r == GetTaskState(Prewarm)
  IN  /\ At(m, "readPrewarm")
      /\ req' = [req EXCEPT ![m].warm = r,
                            ![m].pc = IF Reachable(r) THEN "sendPrewarm" ELSE "save"]
      /\ UNCHANGED <<fleetVars, pendingVars>>

SendPrewarmOk(m) ==
  /\ At(m, "sendPrewarm")
  /\ BridgeAccepts(req[m].warm.task)
  /\ Goto(m, "claimDelete")
  /\ UNCHANGED <<fleetVars, pendingVars>>

SendPrewarmFails(m) ==
  /\ At(m, "sendPrewarm")
  /\ Goto(m, "save")
  /\ UNCHANGED <<fleetVars, pendingVars>>

\* Mutant: the prewarm row stays.
ClaimKeepsRow(m) ==
  /\ At(m, "claimDelete")
  /\ Goto(m, "claimPut")
  /\ UNCHANGED <<fleetVars, pendingVars>>

ClaimDelete(m) ==
  /\ At(m, "claimDelete")
  /\ DeleteTaskState(Prewarm)
  /\ Goto(m, "claimPut")
  /\ UNCHANGED <<container, pendingVars>>

\* startedAt is the prewarm row's, lastActivity is now, prewarmUntil is gone.
ClaimedRow(r) == [r EXCEPT !.idle = 0, !.warm = 0]

ClaimPut(m) ==
  /\ At(m, "claimPut")
  /\ PutTaskState(UserOf[m], ClaimedRow(req[m].warm))
  /\ Finish(m, "none")
  /\ UNCHANGED <<container, pendingVars>>

ClaimFails(m) ==
  /\ req[m].pc \in {"claimDelete", "claimPut"}
  /\ Goto(m, "save")
  /\ UNCHANGED <<fleetVars, pendingVars>>

(***************************************************************************)
(* The normal path: save the message first, then replace a row that led    *)
(* nowhere, or that is not there, by a new task's.  A request that finds a *)
(* task starting, or running without an address, only saves.               *)
(***************************************************************************)
AfterSave(m) ==
  IF Reachable(req[m].row) THEN Goto(m, "delete")
  ELSE IF req[m].row = NoRow THEN Goto(m, "start")
  ELSE Finish(m, "queued")

\* Mutants: a Put whose error is swallowed, and one only where a task is started.
SaveBestEffort(m) ==
  /\ At(m, "save")
  /\ Queue!SavePending(m) \/ UNCHANGED pendingVars
  /\ AfterSave(m)
  /\ UNCHANGED fleetVars

SaveToStart(m) ==
  /\ At(m, "save")
  /\ IF Reachable(req[m].row) \/ req[m].row = NoRow
     THEN Queue!SavePending(m) ELSE UNCHANGED pendingVars
  /\ AfterSave(m)
  /\ UNCHANGED fleetVars

Save(m) ==
  /\ At(m, "save")
  /\ Queue!SavePending(m)
  /\ AfterSave(m)
  /\ UNCHANGED fleetVars

DeleteStale(m) ==
  /\ At(m, "delete")
  /\ DeleteTaskState(UserOf[m])
  /\ Goto(m, "start")
  /\ UNCHANGED <<container, pendingVars>>

\* Mutant: the task is told of no user.
StartUnownedTask(m, t) ==
  /\ At(m, "start")
  /\ RunTask(t, Prewarm)
  /\ req' = [req EXCEPT ![m].pc = "put", ![m].task = t]
  /\ UNCHANGED <<taskState, pendingVars>>

StartTask(m, t) ==
  /\ At(m, "start")
  /\ RunTask(t, UserOf[m])
  /\ req' = [req EXCEPT ![m].pc = "put", ![m].task = t]
  /\ UNCHANGED <<taskState, pendingVars>>

PutStarting(m) ==
  /\ At(m, "put")
  /\ PutTaskState(UserOf[m], FreshRow("Starting", req[m].task))
  /\ Finish(m, "started")
  /\ UNCHANGED <<container, pendingVars>>

\* An await that routeFargate does not catch throws, or the Lambda times out.
RequestFails(m) ==
  /\ req[m].pc \notin {"new", "done"}
  /\ Finish(m, "none")
  /\ UNCHANGED <<fleetVars, pendingVars>>

RouterInit ==
  /\ req = [m \in Msgs |-> NewRequest]
  /\ Queue!Init

RouterStep(m) ==
  \/ ReadTask(m)
  \/ SendOk(m)
  \/ SendFails(m)
  \/ ReadPrewarm(m)
  \/ SendPrewarmOk(m)
  \/ SendPrewarmFails(m)
  \/ ClaimDelete(m)
  \/ ClaimPut(m)
  \/ ClaimFails(m)
  \/ Save(m)
  \/ DeleteStale(m)
  \/ \E t \in Tasks : StartTask(m, t)
  \/ PutStarting(m)

NoRequestInFlight == \A m \in Msgs : req[m].pc \in {"new", "done"}

RouterTypeOK ==
  /\ req \in [Msgs -> Request]
  /\ Queue!TypeOK
=============================================================================
