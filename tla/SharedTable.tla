----------------------------- MODULE SharedTable -----------------------------
(***************************************************************************)
(* AGENT_RUNTIME "both", the default: TaskState holds the rows of Fargate  *)
(* containers and, under the same key USER#<userId>, the lock rows of the  *)
(* Lambda agent.  ColdStart with chats that go to Lambda meanwhile.  The   *)
(* watchdog, which deletes lock rows, is in LockUnderWatchdog.             *)
(***************************************************************************)
EXTENDS ColdStart

CONSTANTS
  Chats,      \* executions of the Lambda agent
  ChatUser,   \* the user of each
  NoChat

ASSUME ChatsAssumption ==
  /\ ChatUser \in [Chats -> Users]
  /\ NoChat \notin Chats

VARIABLES
  chat,     \* the executions
  holder,   \* the execution that the lock row of a user names, while it is one
  robbed    \* history: executions whose lock row Fargate has written over

chatVars == <<chat, holder, robbed>>

sharedVars == <<vars, chatVars>>

\* A Running row whose taskArn is an execution's id, and which has no address.
LockRow == [NoRow EXCEPT !.status = "Running"]

IsLocked(u) == taskState[u] = LockRow

Holds(e) == IsLocked(ChatUser[e]) /\ holder[ChatUser[e]] = e

Works(e) == chat[e] = "working"

ChatIs(e, pc) == chat' = [chat EXCEPT ![e] = pc]

-----------------------------------------------------------------------------

\* Mutant: a Starting row alone is in the way.
LockIsFreeUnlessStarting(u) == taskState[u].status # "Starting"

\* attribute_not_exists(PK) OR status <> "Running"
LockIsFree(u) == taskState[u].status # "Running"

\* acquire; the Put's answer may be lost, and then its own retry is refused.
Acquire(e) ==
  /\ chat[e] = "new"
  /\ LockIsFree(ChatUser[e])
  /\ PutTaskState(ChatUser[e], LockRow)
  /\ holder' = [holder EXCEPT ![ChatUser[e]] = e]
  /\ ChatIs(e, "working") \/ ChatIs(e, "ended")
  /\ UNCHANGED robbed

\* "Session is already being processed."
Refuse(e) ==
  /\ chat[e] = "new"
  /\ ~LockIsFree(ChatUser[e])
  /\ ChatIs(e, "refused")
  /\ UNCHANGED <<taskState, holder, robbed>>

\* Mutant: the Delete has no condition.
ReleaseAnyRow(e) ==
  /\ Works(e)
  /\ DeleteTaskState(ChatUser[e])
  /\ ChatIs(e, "ended")
  /\ UNCHANGED <<holder, robbed>>

\* release deletes the row if it names this execution.
Release(e) ==
  /\ Works(e)
  /\ IF Holds(e) THEN DeleteTaskState(ChatUser[e]) ELSE UNCHANGED taskState
  /\ ChatIs(e, "ended")
  /\ UNCHANGED <<holder, robbed>>

\* The execution dies, or its release fails.
Die(e) ==
  /\ Works(e)
  /\ ChatIs(e, "ended")
  /\ UNCHANGED <<taskState, holder, robbed>>

ChatStep(e) ==
  /\ Acquire(e) \/ Refuse(e) \/ Release(e) \/ Die(e)
  /\ UNCHANGED <<container, req, pendingVars>>

\* The ttl of a lock row is no shorter than an execution can last.
LockExpires(u) ==
  /\ IsLocked(u) /\ ~Works(holder[u])
  /\ DeleteTaskState(u)
  /\ UNCHANGED <<container, req, pendingVars, chatVars>>

\* Fargate's Puts and Deletes have no condition.
FargateStep ==
  /\ Next
  /\ robbed' = robbed \cup
       {e \in Chats : Works(e) /\ Holds(e) /\ taskState'[ChatUser[e]] # LockRow}
  /\ UNCHANGED <<chat, holder>>

SharedInit ==
  /\ Init
  /\ chat = [e \in Chats |-> "new"]
  /\ holder = [u \in Users |-> NoChat]
  /\ robbed = {}

SharedNext ==
  \/ FargateStep
  \/ \E e \in Chats : ChatStep(e)
  \/ \E u \in Users : LockExpires(u)

SharedSpec == SharedInit /\ [][SharedNext]_sharedVars

-----------------------------------------------------------------------------

\* The lock excludes as long as it is there: two executions work on one user's
\* session only if Fargate has written over the row of one of them (PutStarting,
\* DeleteStale, and the Puts of lifecycle.ts know nothing of locks).
ExclusiveUnlessRobbed ==
  \A e, f \in Chats :
    Works(e) /\ Works(f) /\ ChatUser[e] = ChatUser[f] => e = f \/ robbed \cap {e, f} # {}

\* Lambda never takes away a row that leads to a container, though acquire may
\* have found none and the container's row has replaced the lock since.
LocksLeaveContainers ==
  [][(\E e \in Chats : ChatStep(e)) =>
       \A u \in Users : Reachable(taskState[u]) => taskState'[u] = taskState[u]]_sharedVars
=============================================================================
