--------------------------- MODULE ColdStartProofs ---------------------------
(***************************************************************************)
(* For any number of users, messages and containers: the container that a  *)
(* message starts finds it in its one query, and no request ends with its  *)
(* message in nobody's hands.  The queue's own invariant is taken from     *)
(* PendingMessagesProofs.                                                  *)
(*                                                                         *)
(* And, for any number of chats of the Lambda agent on the same table: the *)
(* lock excludes as long as Fargate leaves it alone, Lambda leaves the     *)
(* containers' rows alone, and what Fargate promises without chats it      *)
(* keeps beside them.                                                      *)
(***************************************************************************)
EXTENDS SharedTable, FiniteSetTheorems, TLAPS

QueueProofs == INSTANCE PendingMessagesProofs
                 WITH Users <- Owners, Consumers <- Tasks, MaxDraining <- Cardinality(Tasks),
                      overtaken <- {}

-----------------------------------------------------------------------------
(* The queue *)

LEMMA FiniteTasks == QueueProofs!IsFiniteSet(Tasks)
BY TasksAssumption, Zenon DEF QueueProofs!IsFiniteSet, IsFiniteSet

LEMMA QueueAssumption == QueueProofs!PendingAssumption
<1>1. Cardinality(Tasks) \in Nat
  BY TasksAssumption, FS_CardinalityType
<1>2. QED
  BY <1>1, RouterAssumption, FiniteTasks DEF QueueProofs!PendingAssumption, Owners

\* The queue of FargateRouter and that of the proofs are one.
LEMMA OneQueue ==
  /\ Queue!TypeOK <=> QueueProofs!TypeOK
  /\ Queue!Init <=> QueueProofs!Init
  /\ \A m \in Msgs : Queue!Present(m) <=> QueueProofs!Present(m)
  /\ \A m \in Msgs : Queue!SavePending(m) <=> QueueProofs!SavePending(m)
  /\ \A m \in Msgs : Queue!Expire(m) <=> QueueProofs!Expire(m)
  /\ \A m \in Msgs : Queue!BackoffElapses(m) <=> QueueProofs!BackoffElapses(m)
  /\ \A t \in Tasks, o \in Owners : Queue!Query(t, o) <=> QueueProofs!Query(t, o)
  /\ \A t \in Tasks : Queue!EndDrain(t) <=> QueueProofs!EndDrain(t)
  /\ \A t \in Tasks : Queue!AbandonDrain(t) <=> QueueProofs!AbandonDrain(t)
BY DEF Queue!TypeOK, QueueProofs!TypeOK, Queue!Item, QueueProofs!Item, Queue!Drain,
       QueueProofs!Drain, Queue!Init, QueueProofs!Init, Queue!Present, QueueProofs!Present,
       Queue!SavePending, QueueProofs!SavePending, Queue!Expire, QueueProofs!Expire,
       Queue!BackoffElapses, QueueProofs!BackoffElapses, Queue!Query, QueueProofs!Query,
       Queue!EndDrain, QueueProofs!EndDrain, Queue!Drained, QueueProofs!Drained,
       Queue!Left, QueueProofs!Left, Queue!AbandonDrain, QueueProofs!AbandonDrain,
       Queue!NothingSeen, QueueProofs!NothingSeen, Queue!Absent, QueueProofs!Absent

LEMMA OneDrain ==
  ASSUME NEW t \in Tasks, NEW m \in Msgs, Queue!DrainStep(t, m)
  PROVE  QueueProofs!DrainStep(t, m)
BY DEF Queue!DrainStep, QueueProofs!DrainStep, Queue!Skip, QueueProofs!Skip,
       Queue!ProcessOk, QueueProofs!ProcessOk, Queue!ProcessFails, QueueProofs!ProcessFails,
       Queue!DeleteOk, QueueProofs!DeleteOk, Queue!DeleteFails, QueueProofs!DeleteFails,
       Queue!RecordFailure, QueueProofs!RecordFailure, Queue!RetryCount, QueueProofs!RetryCount,
       Queue!Eligible, QueueProofs!Eligible, Queue!Current, QueueProofs!Current,
       Queue!NextItem, QueueProofs!NextItem, Queue!Left, QueueProofs!Left,
       Queue!Absent, QueueProofs!Absent

LEMMA QueueStep ==
  ASSUME QueueProofs!QueueInv, QueueProofs!AnyStep \/ UNCHANGED pendingVars
  PROVE  QueueProofs!QueueInv'
<1>1. UNCHANGED pendingVars => UNCHANGED QueueProofs!pendingVars
  BY DEF pendingVars, QueueProofs!pendingVars
<1>2. QED
  BY <1>1, QueueAssumption, QueueProofs!QueueInvStep

-----------------------------------------------------------------------------
(* The invariant *)

Draws(t) == drain[t].pc \in {"loop", "delete"}

Early == {"unborn", "boot", "bridge"}

Typed ==
  /\ container \in [Tasks -> ContainerState]
  /\ taskState \in [Owners -> Row]
  /\ req \in [Msgs -> Request]

\* An item that waits for a retry, or that is given up, has been tried.
MarksTell ==
  \A m \in Msgs :
    /\ pending[m].st \in {"cooling", "dead"} => failures[m] > 0
    /\ \A t \in Tasks : drain[t].seen[m].st \in {"cooling", "dead"} => failures[m] > 0

\* A container drains once, when its row is put and before it serves.
DrainsWhileRunning ==
  \A t \in Tasks :
    /\ drain[t].pc # "idle" => container[t].pc \notin Early
    /\ Draws(t) => container[t].pc = "running"

\* A message is saved before anything is started for it or said about it.
SavedFirst(m) ==
  req[m].task # NoTask \/ req[m].result # "none" \/ req[m].pc \in {"delete", "start", "put"}
    => m \in saved

StartedForUser(m) ==
  req[m].task # NoTask =>
    container[req[m].task].pc # "unborn" /\ container[req[m].task].owner = UserOf[m]

ColdInv ==
  /\ Typed
  /\ QueueProofs!QueueInv
  /\ MarksTell
  /\ DrainsWhileRunning
  /\ \A m \in Msgs : SavedFirst(m) /\ StartedForUser(m)
  /\ StarterFindsMessage

-----------------------------------------------------------------------------
(* What a step may do to each part of the state *)

\* No container is born twice, revived, or given to another; none goes back.
ContainersGoOn ==
  \A t \in Tasks :
    /\ container[t].pc # "unborn" =>
         container'[t].pc # "unborn" /\ container'[t].owner = container[t].owner
    /\ container[t].pc = "stopped" => container'[t].pc = "stopped"
    /\ container[t].pc \notin Early => container'[t].pc \notin Early

\* A request keeps the task it started, or starts one for a message that is saved.
RequestsGoOn ==
  \A m \in Msgs :
    /\ \/ req'[m].task = req[m].task
       \/ /\ req'[m].task \in Tasks
          /\ container[req'[m].task].pc = "unborn"
          /\ container'[req'[m].task].pc # "unborn"
          /\ container'[req'[m].task].owner = UserOf[m]
          /\ m \in saved
    /\ req'[m].result # "none" \/ req'[m].pc \in {"delete", "start", "put"} => m \in saved'

\* A drain begins with all that waits for its user; what it has seen it forgets only
\* when it was tried, or when its container ends.
DrainsGoOn ==
  \A t \in Tasks :
    /\ drain[t].pc = "idle" /\ drain'[t].pc # "idle" =>
         /\ container[t].pc = "running"
         /\ \A m \in saved : UserOf[m] = container[t].owner =>
              Attempted(m)' \/ drain'[t].seen[m].st # "absent"
    /\ drain[t].pc # "idle" =>
         /\ drain'[t].pc # "idle"
         /\ \/ container'[t].pc = "stopped"
            \/ \A m \in Msgs : Attempted(m)' \/ drain'[t].seen[m] = drain[t].seen[m]
    /\ drain'[t].pc \in {"loop", "delete"} => container'[t].pc = "running"

HistoryGoesOn ==
  /\ saved \subseteq saved'
  /\ \A m \in Msgs : Attempted(m) => Attempted(m)'

LEMMA GoingOn ==
  ASSUME ColdInv, Typed', ContainersGoOn, RequestsGoOn, DrainsGoOn, HistoryGoesOn
  PROVE  /\ DrainsWhileRunning'
         /\ \A m \in Msgs : SavedFirst(m)' /\ StartedForUser(m)'
         /\ StarterFindsMessage'
<1>0. NoTask \notin Tasks
  BY TaskStateAssumption
<1>1. \A m \in Msgs : req[m].task \in Tasks \cup {NoTask} /\ req'[m].task \in Tasks \cup {NoTask}
  BY DEF ColdInv, Typed, Request
<1>2. DrainsWhileRunning'
  <2>1. ASSUME NEW t \in Tasks, drain'[t].pc # "idle"
        PROVE  container'[t].pc \notin Early
    <3>1. CASE drain[t].pc = "idle"
      BY <2>1, <3>1 DEF DrainsGoOn, ContainersGoOn, Early
    <3>2. CASE drain[t].pc # "idle"
      BY <3>2 DEF ColdInv, DrainsWhileRunning, ContainersGoOn
    <3>3. QED
      BY <3>1, <3>2
  <2>2. QED
    BY <2>1 DEF DrainsWhileRunning, DrainsGoOn, Draws
<1>3. ASSUME NEW m \in Msgs
      PROVE  SavedFirst(m)' /\ StartedForUser(m)'
  <2>1. SavedFirst(m)'
    BY <1>3 DEF ColdInv, SavedFirst, RequestsGoOn, HistoryGoesOn
  <2>2. StartedForUser(m)'
    BY <1>0, <1>1, <1>3 DEF ColdInv, StartedForUser, RequestsGoOn, ContainersGoOn
  <2>3. QED
    BY <2>1, <2>2
<1>4. ASSUME NEW m \in Msgs, NEW t \in Tasks,
             req'[m].task = t, drain'[t].pc # "idle", container'[t].pc # "stopped"
      PROVE  Attempted(m)' \/ drain'[t].seen[m].st # "absent"
  <2>1. CASE req[m].task = t
    <3>1. m \in saved /\ container[t].owner = UserOf[m]
      BY <1>0, <2>1 DEF ColdInv, SavedFirst, StartedForUser
    <3>2. CASE drain[t].pc = "idle"
      BY <1>4, <3>1, <3>2 DEF DrainsGoOn
    <3>3. CASE drain[t].pc # "idle"
      <4>1. container[t].pc # "stopped"
        BY <1>4 DEF ContainersGoOn
      <4>2. Attempted(m) \/ drain[t].seen[m].st # "absent"
        BY <2>1, <3>3, <4>1 DEF ColdInv, StarterFindsMessage, IsStopped
      <4>3. Attempted(m)' \/ drain'[t].seen[m] = drain[t].seen[m]
        BY <1>4, <3>3 DEF DrainsGoOn
      <4>4. QED
        BY <4>2, <4>3 DEF HistoryGoesOn
    <3>4. QED
      BY <3>2, <3>3
  <2>2. CASE req[m].task # t
    <3>1. container[t].pc = "unborn"
      BY <1>4, <2>2 DEF RequestsGoOn
    <3>2. drain[t].pc = "idle"
      BY <3>1 DEF ColdInv, DrainsWhileRunning, Early
    <3>3. container[t].pc = "running"
      BY <1>4, <3>2 DEF DrainsGoOn
    <3>4. QED
      BY <3>1, <3>3
  <2>3. QED
    BY <2>1, <2>2
<1>5. StarterFindsMessage'
  BY <1>4 DEF StarterFindsMessage, IsStopped
<1>6. QED
  BY <1>2, <1>3, <1>5

-----------------------------------------------------------------------------
(* Steps of the queue *)

LEMMA QueueTypes ==
  ASSUME ColdInv
  PROVE  /\ pending \in [Msgs -> QueueProofs!Item]
         /\ drain \in [Tasks -> QueueProofs!Drain]
         /\ handled \in [Msgs -> SUBSET Tasks]
         /\ failures \in [Msgs -> Nat]
         /\ saved \subseteq Msgs
BY DEF ColdInv, QueueProofs!QueueInv, QueueProofs!TypeOK

\* What holds of the queue after a step, and of the step.
QueueGoesOn == QueueProofs!QueueInv' /\ MarksTell' /\ DrainsGoOn /\ HistoryGoesOn

DrainsLast == \A t \in Tasks : Draws(t) => container'[t].pc = "running"

LEMMA QuietQueue ==
  ASSUME ColdInv, UNCHANGED pendingVars, DrainsLast
  PROVE  QueueGoesOn
<1>1. UNCHANGED <<pending, drain, saved, handled, expired, failures>>
  BY DEF pendingVars
<1>2. QueueProofs!QueueInv'
  BY QueueStep DEF ColdInv
<1>3. MarksTell'
  BY <1>1 DEF ColdInv, MarksTell
<1>4. DrainsGoOn
  BY <1>1 DEF DrainsGoOn, DrainsLast, Draws
<1>5. HistoryGoesOn
  BY <1>1 DEF HistoryGoesOn, Attempted
<1>6. QED
  BY <1>2, <1>3, <1>4, <1>5 DEF QueueGoesOn

LEMMA ContainersQuiet ==
  ASSUME ColdInv, UNCHANGED container
  PROVE  DrainsLast /\ ContainersGoOn
BY DEF ColdInv, DrainsWhileRunning, DrainsLast, ContainersGoOn

\* The gateway saves a message, DynamoDB drops one, or a retry time comes.
LEMMA TableChanges ==
  ASSUME ColdInv, NEW m \in Msgs, DrainsLast,
         Queue!SavePending(m) \/ Queue!Expire(m) \/ Queue!BackoffElapses(m)
  PROVE  QueueGoesOn
<1>1. \/ QueueProofs!SavePending(m)
      \/ QueueProofs!Expire(m)
      \/ QueueProofs!BackoffElapses(m)
  BY OneQueue
<1>2. QueueProofs!QueueInv'
  BY <1>1, QueueStep DEF ColdInv, QueueProofs!AnyStep
<1>3. /\ UNCHANGED <<drain, handled, failures>>
      /\ saved \subseteq saved' /\ expired \subseteq expired'
      /\ \A n \in Msgs : pending'[n].st \in {"absent", "ready", pending[n].st}
  <2>1. /\ UNCHANGED <<drain, handled, failures>>
        /\ saved \subseteq saved' /\ expired \subseteq expired'
        /\ \A n \in Msgs \ {m} : pending'[n] = pending[n]
    BY <1>1, QueueTypes DEF QueueProofs!SavePending, QueueProofs!Expire, QueueProofs!BackoffElapses
  <2>2. pending'[m].st \in {"absent", "ready"}
    <3>1. pending[m] \in QueueProofs!Item
      BY QueueTypes
    <3>2. CASE QueueProofs!BackoffElapses(m)
      <4>1. pending'[m] = [pending[m] EXCEPT !.st = "ready"]
        BY <3>2, QueueTypes DEF QueueProofs!BackoffElapses
      <4>2. QED
        BY <3>1, <4>1 DEF QueueProofs!Item
    <3>3. CASE QueueProofs!SavePending(m) \/ QueueProofs!Expire(m)
      BY <3>3, QueueTypes DEF QueueProofs!SavePending, QueueProofs!Expire, QueueProofs!Absent
    <3>4. QED
      BY <1>1, <3>2, <3>3
  <2>3. QED
    BY <2>1, <2>2
<1>4. MarksTell'
  BY <1>3 DEF ColdInv, MarksTell
<1>5. DrainsGoOn
  BY <1>3 DEF DrainsGoOn, DrainsLast, Draws
<1>6. HistoryGoesOn
  BY <1>3 DEF HistoryGoesOn, Attempted
<1>7. QED
  BY <1>2, <1>4, <1>5, <1>6 DEF QueueGoesOn

\* The drain of t looks at m.
LEMMA DrainSteps ==
  ASSUME ColdInv, NEW t \in Tasks, NEW m \in Msgs, DrainsLast, Queue!DrainStep(t, m)
  PROVE  QueueGoesOn
<1>1. QueueProofs!DrainStep(t, m)
  BY OneDrain
<1>2. QueueProofs!QueueInv'
  BY <1>1, QueueStep DEF ColdInv, QueueProofs!AnyStep
<1>3. /\ saved' = saved /\ expired' = expired
      /\ \A n \in Msgs : handled[n] \subseteq handled'[n] /\ failures'[n] >= failures[n]
  BY <1>1, QueueTypes DEF QueueProofs!DrainStep, QueueProofs!Skip, QueueProofs!ProcessOk,
       QueueProofs!ProcessFails, QueueProofs!RecordFailure, QueueProofs!DeleteOk,
       QueueProofs!DeleteFails
<1>4. HistoryGoesOn
  <2>1. ASSUME NEW n \in Msgs, Attempted(n)
        PROVE  Attempted(n)'
    <3>1. failures[n] \in Nat /\ failures'[n] >= failures[n] /\ failures'[n] \in Nat
      BY <1>2, <1>3, QueueTypes DEF QueueProofs!QueueInv, QueueProofs!TypeOK
    <3>2. handled[n] \subseteq handled'[n] /\ expired' = expired
      BY <1>3
    <3>3. QED
      BY <2>1, <3>1, <3>2 DEF Attempted
  <2>2. QED
    BY <1>3, <2>1 DEF HistoryGoesOn
<1>5. /\ Draws(t) /\ drain'[t].pc \in {"loop", "delete"}
      /\ \A d \in Tasks \ {t} : drain'[d] = drain[d]
      /\ \A n \in Msgs \ {m} : drain'[t].seen[n] = drain[t].seen[n]
      /\ drain'[t].seen[m] \in {drain[t].seen[m], QueueProofs!Absent}
  BY <1>1, QueueTypes DEF QueueProofs!DrainStep, QueueProofs!Skip, QueueProofs!ProcessOk,
       QueueProofs!ProcessFails, QueueProofs!RecordFailure, QueueProofs!DeleteOk,
       QueueProofs!DeleteFails, QueueProofs!NextItem, QueueProofs!Eligible, QueueProofs!Drain,
       Draws
<1>6. Attempted(m)' \/ drain'[t].seen[m] = drain[t].seen[m]
  <2>1. CASE QueueProofs!Skip(t, m)
    <3>1. failures[m] > 0
      BY <2>1 DEF QueueProofs!Skip, ColdInv, MarksTell
    <3>2. QED
      BY <1>4, <3>1 DEF Attempted, HistoryGoesOn
  <2>2. CASE QueueProofs!ProcessOk(t, m)
    BY <2>2, QueueTypes DEF QueueProofs!ProcessOk, QueueProofs!Drain
  <2>3. CASE QueueProofs!ProcessFails(t, m)
    <3>1. failures'[m] = failures[m] + 1 /\ failures[m] \in Nat
      BY <2>3, QueueTypes DEF QueueProofs!ProcessFails, QueueProofs!RecordFailure
    <3>2. QED
      BY <3>1 DEF Attempted
  <2>4. CASE QueueProofs!DeleteOk(t, m) \/ QueueProofs!DeleteFails(t, m)
    <3>1. t \in handled[m]
      BY <2>4 DEF QueueProofs!DeleteOk, QueueProofs!DeleteFails, ColdInv,
                  QueueProofs!QueueInv, QueueProofs!DeletesFollowProcessing
    <3>2. QED
      BY <1>4, <3>1 DEF Attempted, HistoryGoesOn
  <2>5. QED
    BY <1>1, <2>1, <2>2, <2>3, <2>4 DEF QueueProofs!DrainStep
<1>7. DrainsGoOn
  BY <1>5, <1>6 DEF DrainsGoOn, DrainsLast, Draws
<1>8. MarksTell'
  <2>1. ASSUME NEW n \in Msgs, failures[n] > 0
        PROVE  failures'[n] > 0
    <3>1. failures[n] \in Nat /\ failures'[n] \in Nat
      BY <1>2, QueueTypes DEF QueueProofs!QueueInv, QueueProofs!TypeOK
    <3>2. QED
      BY <1>3, <2>1, <3>1
  <2>2. \A d \in Tasks, n \in Msgs : drain'[d].seen[n].st \in {"cooling", "dead"} => failures'[n] > 0
    BY <1>5, <2>1 DEF ColdInv, MarksTell, QueueProofs!Absent
  <2>3. ASSUME NEW n \in Msgs, pending'[n].st \in {"cooling", "dead"}
        PROVE  failures'[n] > 0
    <3>1. CASE QueueProofs!ProcessFails(t, m) /\ n = m
      <4>1. failures'[m] = failures[m] + 1 /\ failures[m] \in Nat
        BY <3>1, QueueTypes DEF QueueProofs!ProcessFails, QueueProofs!RecordFailure
      <4>2. QED
        BY <3>1, <4>1
    <3>2. CASE ~(QueueProofs!ProcessFails(t, m) /\ n = m)
      <4>1. pending'[n] \in {pending[n], QueueProofs!Absent}
        BY <1>1, <3>2, QueueTypes DEF QueueProofs!DrainStep, QueueProofs!Skip,
             QueueProofs!ProcessOk, QueueProofs!ProcessFails, QueueProofs!RecordFailure,
             QueueProofs!DeleteOk, QueueProofs!DeleteFails
      <4>2. pending[n].st \in {"cooling", "dead"}
        BY <2>3, <4>1 DEF QueueProofs!Absent
      <4>3. QED
        BY <2>1, <4>2 DEF ColdInv, MarksTell
    <3>3. QED
      BY <3>1, <3>2
  <2>4. QED
    BY <2>2, <2>3 DEF MarksTell
<1>9. QED
  BY <1>2, <1>4, <1>7, <1>8 DEF QueueGoesOn

-----------------------------------------------------------------------------
(* Steps of a container *)

LEMMA BeginsDrain ==
  ASSUME ColdInv, NEW t \in Tasks, BeginDrain(t)
  PROVE  QueueGoesOn
<1>0. container[t].owner \in Owners /\ Prewarm \notin Users
  BY TaskStateAssumption DEF ColdInv, Typed, ContainerState
<1>1. /\ QueueProofs!Query(t, container[t].owner)
      /\ container[t].pc = "running"
      /\ UNCHANGED container
  BY <1>0, OneQueue DEF BeginDrain, fleetVars
<1>2. QueueProofs!QueueInv'
  BY <1>0, <1>1, QueueStep DEF ColdInv, QueueProofs!AnyStep
<1>3. /\ UNCHANGED <<pending, saved, handled, expired, failures>>
      /\ drain[t].pc = "idle" /\ drain'[t].pc = "loop"
      /\ \A d \in Tasks \ {t} : drain'[d] = drain[d]
      /\ \A m \in Msgs : drain'[t].seen[m] =
           IF UserOf[m] = container[t].owner THEN pending[m] ELSE QueueProofs!Absent
  BY <1>1, QueueTypes DEF QueueProofs!Query
<1>4. HistoryGoesOn
  BY <1>3 DEF HistoryGoesOn, Attempted
<1>5. ASSUME NEW m \in saved, UserOf[m] = container[t].owner
      PROVE  Attempted(m)' \/ drain'[t].seen[m].st # "absent"
  <2>1. m \in Msgs
    BY QueueTypes
  <2>2. drain'[t].seen[m] = pending[m]
    BY <1>3, <1>5, <2>1
  <2>3. pending[m].st # "absent" \/ Attempted(m)
    BY <2>1 DEF ColdInv, QueueProofs!QueueInv, QueueProofs!NothingLost, QueueProofs!Present,
                Attempted
  <2>4. QED
    BY <1>4, <2>1, <2>2, <2>3 DEF HistoryGoesOn
<1>6. DrainsGoOn
  <2>1. \A d \in Tasks \ {t} : drain'[d] = drain[d] /\ container'[d] = container[d]
    BY <1>1, <1>3
  <2>2. \A d \in Tasks : Draws(d) => container'[d].pc = "running"
    BY <1>1 DEF ColdInv, DrainsWhileRunning
  <2>3. container'[t].pc = "running"
    BY <1>1
  <2>4. QED
    BY <1>1, <1>3, <1>5, <2>1, <2>2, <2>3 DEF DrainsGoOn, Draws
<1>7. MarksTell'
  BY <1>3 DEF ColdInv, MarksTell, QueueProofs!Absent
<1>8. QED
  BY <1>2, <1>4, <1>6, <1>7 DEF QueueGoesOn

\* The drain of a container ends, with all that it has seen looked at, or when the
\* container does.
LEMMA DrainEnds ==
  ASSUME ColdInv, NEW t \in Tasks, drain[t].pc # "idle",
         \A d \in Tasks \ {t} : Draws(d) => container'[d].pc = "running",
         \/ Queue!EndDrain(t)
         \/ Queue!AbandonDrain(t) /\ container'[t].pc = "stopped"
  PROVE  QueueGoesOn
<1>1. QueueProofs!EndDrain(t) \/ (QueueProofs!AbandonDrain(t) /\ container'[t].pc = "stopped")
  BY OneQueue
<1>2. QueueProofs!QueueInv'
  BY <1>1, QueueStep DEF ColdInv, QueueProofs!AnyStep
<1>3. /\ UNCHANGED <<pending, saved, handled, expired, failures>>
      /\ drain'[t].pc = "done"
      /\ \A d \in Tasks \ {t} : drain'[d] = drain[d]
      /\ \A m \in Msgs : drain'[t].seen[m] \in {drain[t].seen[m], QueueProofs!Absent}
      /\ container'[t].pc = "stopped" \/ \A m \in Msgs : drain'[t].seen[m] = drain[t].seen[m]
  BY <1>1, QueueTypes DEF QueueProofs!EndDrain, QueueProofs!AbandonDrain, QueueProofs!Drain,
                          QueueProofs!NothingSeen
<1>4. HistoryGoesOn
  BY <1>3 DEF HistoryGoesOn, Attempted
<1>5. MarksTell'
  BY <1>3 DEF ColdInv, MarksTell, QueueProofs!Absent
<1>6. DrainsGoOn
  BY <1>3 DEF DrainsGoOn, Draws
<1>7. QED
  BY <1>2, <1>4, <1>5, <1>6 DEF QueueGoesOn

\* Rows that are put are rows.
LEMMA RowTypes ==
  /\ NoRow \in Row /\ IdleRow \in Row
  /\ \A t \in Tasks \cup {NoTask} : FreshRow("Starting", t) \in Row /\ FreshRow("Running", t) \in Row
  /\ \A r \in Row : ClaimedRow(r) \in Row
  /\ \A t \in Tasks, ip \in BOOLEAN, idle \in 0..AgeCap : RunningRow(t, ip, idle) \in Row
<1>1. 0 \in 0..AgeCap /\ 0 \in 0..WarmFor
  BY TaskStateAssumption
<1>2. NoRow \in Row
  BY <1>1 DEF NoRow, Row
<1>3. IdleRow \in Row
  BY <1>2 DEF IdleRow, Row
<1>4. \A t \in Tasks \cup {NoTask} : FreshRow("Starting", t) \in Row /\ FreshRow("Running", t) \in Row
  BY <1>2 DEF FreshRow, Row
<1>5. \A r \in Row : ClaimedRow(r) \in Row
  BY <1>1 DEF ClaimedRow, Row
<1>6. ASSUME NEW t \in Tasks, NEW ip \in BOOLEAN, NEW idle \in 0..AgeCap
      PROVE  RunningRow(t, ip, idle) \in Row
  <2>1. FreshRow("Running", t) \in Row
    BY <1>4
  <2>2. QED
    BY <2>1 DEF RunningRow, Row
<1>7. QED
  BY <1>2, <1>3, <1>4, <1>5, <1>6

LEMMA ContainerTypes ==
  /\ \A o \in Owners : Unborn(o) \in ContainerState
  /\ \A c \in ContainerState : Ended(c) \in ContainerState
  /\ \A c \in ContainerState, pc \in Alive : [c EXCEPT !.pc = pc] \in ContainerState
<1>1. 0 \in 0..AgeCap
  BY TaskStateAssumption
<1>2. \A o \in Owners : Unborn(o) \in ContainerState
  BY <1>1 DEF Unborn, ContainerState
<1>3. ASSUME NEW c \in ContainerState
      PROVE  Ended(c) \in ContainerState
  <2>1. c.owner \in Owners
    BY DEF ContainerState
  <2>2. Unborn(c.owner) \in ContainerState
    BY <1>2, <2>1
  <2>3. QED
    BY <2>2 DEF Ended, ContainerState
<1>4. \A c \in ContainerState, pc \in Alive : [c EXCEPT !.pc = pc] \in ContainerState
  BY DEF ContainerState
<1>5. QED
  BY <1>2, <1>3, <1>4

\* One container changes.
Becomes(t, c) == container' = [container EXCEPT ![t] = c]

LEMMA OneBecomes ==
  ASSUME ColdInv, NEW t \in Tasks, NEW c \in ContainerState, Becomes(t, c),
         container[t].pc # "unborn", c.pc # "unborn", c.owner = container[t].owner,
         container[t].pc = "stopped" => c.pc = "stopped",
         container[t].pc \notin Early => c.pc \notin Early
  PROVE  /\ container' \in [Tasks -> ContainerState]
         /\ ContainersGoOn
         /\ \A d \in Tasks \ {t} : container'[d] = container[d]
         /\ container'[t] = c
BY DEF ColdInv, Typed, Becomes, ContainersGoOn

LEMMA TablePut ==
  ASSUME ColdInv, NEW o \in Owners, NEW r \in Row, PutTaskState(o, r)
  PROVE  taskState' \in [Owners -> Row]
BY DEF ColdInv, Typed, PutTaskState

\* What holds after a step of a container, and of the step.
FleetGoesOn == Typed' /\ ContainersGoOn /\ RequestsGoOn

LEMMA RequestsQuiet ==
  ASSUME ColdInv, UNCHANGED req, saved \subseteq saved'
  PROVE  req' \in [Msgs -> Request] /\ RequestsGoOn
BY DEF ColdInv, Typed, SavedFirst, RequestsGoOn

\* A bridge boots, puts a row, or looks for its address.
LEMMA BridgeWorks ==
  ASSUME ColdInv, NEW t \in Tasks, BridgeBoots(t) \/ BridgeRuns(t)
  PROVE  FleetGoesOn /\ QueueGoesOn
<1>0. /\ container[t] \in ContainerState /\ container[t].owner \in Owners
      /\ 0 \in 0..AgeCap /\ 0..container[t].age \subseteq 0..AgeCap
  BY TaskStateAssumption DEF ColdInv, Typed, ContainerState
<1>1. UNCHANGED <<req, pendingVars>>
  BY DEF BridgeBoots, BridgeRuns
<1>2. req' \in [Msgs -> Request] /\ RequestsGoOn
  BY <1>1, RequestsQuiet DEF pendingVars
<1>3. ASSUME NEW c \in ContainerState, Becomes(t, c), taskState' \in [Owners -> Row],
             container[t].pc \in Alive, c.pc \notin {"unborn"}, c.owner = container[t].owner,
             container[t].pc \notin Early => c.pc \notin Early,
             container[t].pc = "running" => c.pc = "running"
      PROVE  FleetGoesOn /\ QueueGoesOn
  <2>1. container[t].pc \notin {"unborn", "stopped"}
    BY <1>3 DEF Alive, Listening
  <2>2. /\ container' \in [Tasks -> ContainerState]
        /\ ContainersGoOn
        /\ \A d \in Tasks \ {t} : container'[d] = container[d]
        /\ container'[t] = c
    BY <1>3, <2>1, OneBecomes
  <2>3. DrainsLast
    BY <1>3, <2>2 DEF DrainsLast, ColdInv, DrainsWhileRunning
  <2>4. QueueGoesOn
    BY <1>1, <2>3, QuietQueue
  <2>5. QED
    BY <1>2, <1>3, <2>2, <2>4 DEF FleetGoesOn, Typed
<1>4. UNCHANGED taskState => taskState' \in [Owners -> Row]
  BY DEF ColdInv, Typed
<1>5. CASE Boot(t)
  <2> DEFINE c == [container[t] EXCEPT !.pc = "bridge"]
  <2>1. c \in ContainerState /\ c.pc = "bridge" /\ c.owner = container[t].owner
    BY <1>0 DEF ContainerState, Alive, Listening
  <2>2. Becomes(t, c) /\ container[t].pc = "boot" /\ UNCHANGED taskState
    BY <1>5 DEF Boot, Becomes
  <2>3. QED
    BY <1>3, <1>4, <2>1, <2>2 DEF Alive, Listening, Early
<1>6. CASE PutRunning(t)
  <2> DEFINE c == [container[t] EXCEPT !.pc = "running", !.ip = "discovering"]
  <2>1. c \in ContainerState /\ c.pc = "running" /\ c.owner = container[t].owner
    BY <1>0 DEF ContainerState, Alive, Listening
  <2>2. Becomes(t, c) /\ container[t].pc = "bridge"
    BY <1>0, <1>6 DEF PutRunning, Becomes, ColdInv, Typed
  <2>3. taskState' \in [Owners -> Row]
    <3>1. RunningRow(t, FALSE, 0) \in Row
      BY <1>0, RowTypes
    <3>2. QED
      BY <1>0, <1>6, <3>1, TablePut DEF PutRunning
  <2>4. QED
    BY <1>3, <2>1, <2>2, <2>3 DEF Alive, Listening, Early
<1>7. CASE PutAddress(t) \/ NoAddress(t)
  <2> DEFINE c == [container[t] EXCEPT !.ip = "settled"]
  <2>1. c \in ContainerState /\ c.pc = container[t].pc /\ c.owner = container[t].owner
    BY <1>0 DEF ContainerState
  <2>2. Becomes(t, c) /\ container[t].pc \in Alive
    BY <1>7 DEF PutAddress, NoAddress, Becomes, IsAlive
  <2>3. taskState' \in [Owners -> Row]
    <3>1. CASE NoAddress(t)
      BY <1>4, <3>1 DEF NoAddress
    <3>2. CASE PutAddress(t)
      <4>1. PICK idle \in 0..container[t].age :
              PutTaskState(container[t].owner, RunningRow(t, TRUE, idle))
        BY <3>2 DEF PutAddress
      <4>2. RunningRow(t, TRUE, idle) \in Row
        BY <1>0, RowTypes
      <4>3. QED
        BY <1>0, <4>1, <4>2, TablePut
    <3>3. QED
      BY <1>7, <3>1, <3>2
  <2>4. QED
    BY <1>3, <2>1, <2>2, <2>3 DEF Alive, Listening
<1>8. CASE PutIdle(t)
  <2>1. Ended(container[t]) \in ContainerState
    BY <1>0, ContainerTypes
  <2>2. Ended(container[t]).owner = container[t].owner /\ Ended(container[t]).pc = "stopped"
    BY DEF Ended, Unborn
  <2>3. Becomes(t, Ended(container[t])) /\ container[t].pc = "stopping"
    BY <1>8 DEF PutIdle, Becomes
  <2>4. taskState' \in [Owners -> Row]
    BY <1>0, <1>8, RowTypes, TablePut DEF PutIdle
  <2>5. QED
    BY <1>3, <2>1, <2>2, <2>3, <2>4 DEF Alive, Listening, Early
<1>9. QED
  BY <1>5, <1>6, <1>7, <1>8 DEF BridgeBoots, BridgeRuns

\* A container ends, and its drain with it.
LEMMA ContainerEnds ==
  ASSUME ColdInv, NEW t \in Tasks, BridgeEnds(t)
  PROVE  FleetGoesOn /\ QueueGoesOn
<1>0. container[t] \in ContainerState
  BY DEF ColdInv, Typed
<1>1. UNCHANGED <<req, taskState>>
  BY DEF BridgeEnds, GatewayExits, Crash
<1>2. PICK c \in ContainerState :
        /\ Becomes(t, c) /\ c.owner = container[t].owner
        /\ c.pc \in {"stopping", "stopped"}
        /\ container[t].pc \notin {"unborn", "stopped"}
        /\ c.pc = "stopped" \/ container[t].pc = "serving"
  <2>1. /\ Ended(container[t]) \in ContainerState
        /\ Ended(container[t]).owner = container[t].owner /\ Ended(container[t]).pc = "stopped"
    BY <1>0, ContainerTypes DEF Ended, Unborn
  <2>2. CASE Crash(t)
    <3>1. Becomes(t, Ended(container[t])) /\ container[t].pc \notin {"unborn", "stopped"}
      BY <2>2 DEF Crash, Becomes, IsAlive, Alive, Listening
    <3>2. QED
      BY <2>1, <3>1
  <2>3. CASE GatewayExits(t) /\ container[t].pc # "serving"
    <3>1. Becomes(t, Ended(container[t])) /\ container[t].pc \notin {"unborn", "stopped"}
      BY <2>3 DEF GatewayExits, Becomes
    <3>2. QED
      BY <2>1, <3>1
  <2>4. CASE GatewayExits(t) /\ container[t].pc = "serving"
    <3> DEFINE c == [container[t] EXCEPT !.pc = "stopping"]
    <3>1. c \in ContainerState /\ c.pc = "stopping" /\ c.owner = container[t].owner
      BY <1>0 DEF ContainerState, Alive
    <3>2. Becomes(t, c)
      BY <2>4 DEF GatewayExits, Becomes
    <3>3. QED
      BY <2>4, <3>1, <3>2
  <2>5. QED
    BY <2>2, <2>3, <2>4 DEF BridgeEnds
<1>3. /\ container' \in [Tasks -> ContainerState]
      /\ ContainersGoOn
      /\ \A d \in Tasks \ {t} : container'[d] = container[d]
      /\ container'[t] = c
  BY <1>2, OneBecomes DEF Early
<1>4. \A d \in Tasks \ {t} : Draws(d) => container'[d].pc = "running"
  BY <1>3 DEF ColdInv, DrainsWhileRunning
<1>5. QueueGoesOn
  <2>1. CASE Draining(t)
    <3>1. container[t].pc = "running"
      BY <2>1 DEF Draining, ColdInv, DrainsWhileRunning, Draws
    <3>2. container'[t].pc = "stopped" /\ Queue!AbandonDrain(t) /\ drain[t].pc # "idle"
      BY <1>2, <1>3, <2>1, <3>1 DEF BridgeEnds, Draining
    <3>3. QED
      BY <1>4, <3>2, DrainEnds
  <2>2. CASE ~Draining(t)
    <3>1. UNCHANGED pendingVars
      BY <2>2 DEF BridgeEnds
    <3>2. DrainsLast
      BY <1>4, <2>2 DEF DrainsLast, Draining, Draws
    <3>3. QED
      BY <3>1, <3>2, QuietQueue
  <2>3. QED
    BY <2>1, <2>2
<1>6. saved \subseteq saved'
  BY <1>5 DEF QueueGoesOn, HistoryGoesOn
<1>7. QED
  BY <1>1, <1>3, <1>5, <1>6, RequestsQuiet DEF FleetGoesOn, Typed, ColdInv

\* The drain of a container, from its query to its end.
LEMMA ContainerDrains ==
  ASSUME ColdInv, NEW t \in Tasks, BeginDrain(t) \/ DrainOne(t) \/ EndDrain(t)
  PROVE  FleetGoesOn /\ QueueGoesOn
<1>0. container[t] \in ContainerState
  BY DEF ColdInv, Typed
<1>1. UNCHANGED <<req, taskState>>
  BY DEF BeginDrain, DrainOne, EndDrain, fleetVars, Serve
<1>2. container' \in [Tasks -> ContainerState] /\ ContainersGoOn /\ QueueGoesOn
  <2>1. CASE BeginDrain(t)
    <3>1. UNCHANGED container
      BY <2>1 DEF BeginDrain, fleetVars
    <3>2. QED
      BY <2>1, <3>1, ContainersQuiet, BeginsDrain DEF ColdInv, Typed
  <2>2. CASE DrainOne(t)
    <3>1. UNCHANGED container
      BY <2>2 DEF DrainOne, fleetVars
    <3>2. PICK m \in Msgs : Queue!DrainStep(t, m)
      BY <2>2 DEF DrainOne
    <3>3. QED
      BY <3>1, <3>2, ContainersQuiet, DrainSteps DEF ColdInv, Typed
  <2>3. CASE EndDrain(t)
    <3> DEFINE c == [container[t] EXCEPT !.pc = "serving"]
    <3>1. c \in ContainerState /\ c.pc = "serving" /\ c.owner = container[t].owner
      BY <1>0 DEF ContainerState, Alive, Listening
    <3>2. Becomes(t, c) /\ container[t].pc = "running"
      BY <2>3 DEF EndDrain, Serve, Becomes
    <3>3. /\ container' \in [Tasks -> ContainerState]
          /\ ContainersGoOn
          /\ \A d \in Tasks \ {t} : container'[d] = container[d]
      BY <3>1, <3>2, OneBecomes DEF Early
    <3>4. \A d \in Tasks \ {t} : Draws(d) => container'[d].pc = "running"
      BY <3>3 DEF ColdInv, DrainsWhileRunning
    <3>5. Queue!EndDrain(t) /\ drain[t].pc # "idle"
      BY <2>3 DEF EndDrain, Queue!EndDrain, Queue!Drained
    <3>6. QED
      BY <3>3, <3>4, <3>5, DrainEnds
  <2>4. QED
    BY <2>1, <2>2, <2>3
<1>3. saved \subseteq saved'
  BY <1>2 DEF QueueGoesOn, HistoryGoesOn
<1>4. QED
  BY <1>1, <1>2, <1>3, RequestsQuiet DEF FleetGoesOn, Typed, ColdInv

-----------------------------------------------------------------------------
(* Steps of the gateway *)

LEMMA Ages ==
  ASSUME ColdInv, NEW m \in Msgs, QueueAges(m)
  PROVE  FleetGoesOn /\ QueueGoesOn
<1>1. UNCHANGED <<container, taskState, req>>
  BY DEF QueueAges, fleetVars
<1>2. ContainersGoOn /\ DrainsLast
  BY <1>1, ContainersQuiet
<1>3. QueueGoesOn
  BY <1>2, TableChanges DEF QueueAges
<1>4. req' \in [Msgs -> Request] /\ RequestsGoOn
  BY <1>1, <1>3, RequestsQuiet DEF QueueGoesOn, HistoryGoesOn
<1>5. QED
  BY <1>1, <1>2, <1>3, <1>4 DEF FleetGoesOn, Typed, ColdInv

PastSaving == {"delete", "start", "put"}

\* The request of m goes on to q, with the task it had.
Follows(m, q) ==
  /\ q \in Request
  /\ req' = [req EXCEPT ![m] = q]
  /\ q.task = req[m].task
  /\ q.result # "none" \/ q.pc \in PastSaving => m \in saved'

LEMMA OneFollows ==
  ASSUME ColdInv, NEW m \in Msgs, NEW q, Follows(m, q), saved \subseteq saved'
  PROVE  req' \in [Msgs -> Request] /\ RequestsGoOn
<1>1. req' \in [Msgs -> Request]
  BY DEF ColdInv, Typed, Follows
<1>2. req'[m] = q /\ \A n \in Msgs \ {m} : req'[n] = req[n]
  BY DEF ColdInv, Typed, Follows
<1>3. ASSUME NEW n \in Msgs
      PROVE  /\ req'[n].task = req[n].task
             /\ req'[n].result # "none" \/ req'[n].pc \in PastSaving => n \in saved'
  <2>1. CASE n = m
    BY <1>2, <2>1 DEF Follows
  <2>2. CASE n # m
    BY <1>2, <2>2 DEF ColdInv, SavedFirst, PastSaving
  <2>3. QED
    BY <2>1, <2>2
<1>4. QED
  BY <1>1, <1>3 DEF RequestsGoOn, PastSaving

PCs == {"new", "send", "readPrewarm", "sendPrewarm", "claimDelete", "claimPut", "save",
        "delete", "start", "put", "done"}

LEMMA GoingTo ==
  ASSUME ColdInv, NEW m \in Msgs, NEW pc \in PCs, Goto(m, pc), saved \subseteq saved',
         pc \in PastSaving => m \in saved'
  PROVE  req' \in [Msgs -> Request] /\ RequestsGoOn
<1> DEFINE q == [req[m] EXCEPT !.pc = pc]
<1>1. req[m] \in Request
  BY DEF ColdInv, Typed
<1>2. q \in Request /\ q.task = req[m].task /\ q.result = req[m].result /\ q.pc = pc
  BY <1>1 DEF Request, PCs
<1>3. req' = [req EXCEPT ![m] = q]
  BY DEF Goto, ColdInv, Typed
<1>4. req[m].result # "none" => m \in saved'
  BY DEF ColdInv, SavedFirst
<1>5. Follows(m, q)
  BY <1>2, <1>3, <1>4 DEF Follows
<1>6. QED
  BY <1>5, OneFollows

LEMMA FinishingWith ==
  ASSUME ColdInv, NEW m \in Msgs, NEW result \in {"none", "started", "queued"},
         Finish(m, result), saved \subseteq saved', result # "none" => m \in saved'
  PROVE  req' \in [Msgs -> Request] /\ RequestsGoOn
<1> DEFINE q == [NewRequest EXCEPT !.pc = "done", !.task = req[m].task, !.result = result]
<1>1. req[m] \in Request
  BY DEF ColdInv, Typed
<1>2. q \in Request /\ q.task = req[m].task /\ q.result = result /\ q.pc = "done"
  BY <1>1, RowTypes DEF Request, NewRequest
<1>3. Follows(m, q)
  BY <1>2 DEF Follows, Finish, PastSaving
<1>4. QED
  BY <1>3, OneFollows

LEMMA ReadRows ==
  ASSUME ColdInv, NEW o \in Owners
  PROVE  GetTaskState(o) \in Row
BY RowTypes DEF ColdInv, Typed, GetTaskState

\* A request reads a row, and goes where it leads: never past its Put.
LEMMA RowIsRead ==
  ASSUME ColdInv, NEW m \in Msgs, ReadTask(m) \/ ReadPrewarm(m)
  PROVE  \E q : Follows(m, q) /\ UNCHANGED <<fleetVars, pendingVars>>
<1>0. UserOf[m] \in Owners /\ Prewarm \in Owners /\ req[m] \in Request
  BY RouterAssumption DEF Owners, ColdInv, Typed
<1>1. req[m].result # "none" => m \in saved'
  BY DEF ReadTask, ReadPrewarm, pendingVars, ColdInv, SavedFirst
<1>2. CASE ReadTask(m)
  <2> DEFINE r == GetTaskState(UserOf[m])
             pc == CASE Reachable(r) -> "send"
                     [] r = NoRow -> "readPrewarm"
                     [] OTHER -> "save"
             q == [req[m] EXCEPT !.row = r, !.pc = pc]
  <2>1. r \in Row
    BY <1>0, ReadRows
  <2>2. pc \in PCs \ PastSaving
    BY DEF PCs, PastSaving
  <2> HIDE DEF r, pc
  <2>3. q \in Request /\ q.task = req[m].task /\ q.pc = pc /\ q.result = req[m].result
    BY <1>0, <2>1, <2>2 DEF Request, PCs
  <2>4. req' = [req EXCEPT ![m].row = r, ![m].pc = pc]
    BY <1>2, Zenon DEF ReadTask, r, pc
  <2>5. req' = [req EXCEPT ![m] = q]
    BY <2>4 DEF ColdInv, Typed
  <2>6. UNCHANGED <<fleetVars, pendingVars>>
    BY <1>2 DEF ReadTask
  <2>7. Follows(m, q)
    BY <1>1, <2>2, <2>3, <2>5 DEF Follows
  <2>8. QED
    BY <2>6, <2>7
<1>3. CASE ReadPrewarm(m)
  <2> DEFINE r == GetTaskState(Prewarm)
             pc == IF Reachable(r) THEN "sendPrewarm" ELSE "save"
             q == [req[m] EXCEPT !.warm = r, !.pc = pc]
  <2>1. r \in Row
    BY <1>0, ReadRows
  <2>2. pc \in PCs \ PastSaving
    BY DEF PCs, PastSaving
  <2> HIDE DEF r, pc
  <2>3. q \in Request /\ q.task = req[m].task /\ q.pc = pc /\ q.result = req[m].result
    BY <1>0, <2>1, <2>2 DEF Request, PCs
  <2>4. req' = [req EXCEPT ![m] = q]
    BY <1>3 DEF ReadPrewarm, ColdInv, Typed, r, pc
  <2>5. UNCHANGED <<fleetVars, pendingVars>>
    BY <1>3 DEF ReadPrewarm
  <2>6. Follows(m, q)
    BY <1>1, <2>2, <2>3, <2>4 DEF Follows
  <2>7. QED
    BY <2>5, <2>6
<1>4. QED
  BY <1>2, <1>3

\* The Put of the message comes before all that is done for it.
LEMMA Saves ==
  ASSUME ColdInv, NEW m \in Msgs, Save(m)
  PROVE  FleetGoesOn /\ QueueGoesOn
<1>1. UNCHANGED <<container, taskState>> /\ Queue!SavePending(m) /\ AfterSave(m)
  BY DEF Save, fleetVars
<1>2. ContainersGoOn /\ DrainsLast
  BY <1>1, ContainersQuiet
<1>3. QueueGoesOn
  BY <1>1, <1>2, TableChanges
<1>4. saved \subseteq saved' /\ m \in saved'
  BY <1>1 DEF Queue!SavePending
<1>5. Goto(m, "delete") \/ Goto(m, "start") \/ Finish(m, "queued")
  BY <1>1 DEF AfterSave
<1>6. req' \in [Msgs -> Request] /\ RequestsGoOn
  BY <1>4, <1>5, GoingTo, FinishingWith DEF PCs
<1>7. QED
  BY <1>1, <1>2, <1>3, <1>6 DEF FleetGoesOn, Typed, ColdInv

\* A task is started for the user of the message.
LEMMA Starts ==
  ASSUME ColdInv, NEW m \in Msgs, NEW t \in Tasks, StartTask(m, t)
  PROVE  FleetGoesOn /\ QueueGoesOn
<1> DEFINE c == [Unborn(UserOf[m]) EXCEPT !.pc = "boot"]
           q == [req[m] EXCEPT !.pc = "put", !.task = t]
<1>0. UserOf[m] \in Owners /\ req[m] \in Request
  BY RouterAssumption DEF Owners, ColdInv, Typed
<1>1. c \in ContainerState /\ c.pc = "boot" /\ c.owner = UserOf[m]
  <2>1. Unborn(UserOf[m]) \in ContainerState
    BY <1>0, ContainerTypes
  <2>2. QED
    BY <2>1 DEF ContainerState, Unborn, Alive
<1>2. /\ UNCHANGED <<taskState, pendingVars>> /\ req[m].pc = "start"
      /\ container[t].pc = "unborn" /\ container' = [container EXCEPT ![t] = c]
  BY DEF StartTask, RunTask, At
<1>3. /\ container' \in [Tasks -> ContainerState] /\ container'[t] = c
      /\ \A d \in Tasks \ {t} : container'[d] = container[d]
  BY <1>1, <1>2 DEF ColdInv, Typed
<1>4. ContainersGoOn
  BY <1>1, <1>2, <1>3 DEF ContainersGoOn, Early
<1>5. DrainsLast
  BY <1>2, <1>3 DEF ColdInv, DrainsWhileRunning, DrainsLast
<1>6. QueueGoesOn
  BY <1>2, <1>5, QuietQueue
<1>7. m \in saved /\ saved' = saved
  BY <1>2 DEF ColdInv, SavedFirst, pendingVars
<1>8. q \in Request /\ q.task = t
  BY <1>0 DEF Request
<1>9. req' = [req EXCEPT ![m] = q]
  BY DEF StartTask, ColdInv, Typed
<1>10. req' \in [Msgs -> Request] /\ req'[m] = q /\ \A n \in Msgs \ {m} : req'[n] = req[n]
  BY <1>8, <1>9 DEF ColdInv, Typed
<1>11. RequestsGoOn
  <2>1. ASSUME NEW n \in Msgs, n # m
        PROVE  /\ req'[n].task = req[n].task
               /\ req'[n].result # "none" \/ req'[n].pc \in PastSaving => n \in saved'
    BY <1>7, <1>10, <2>1 DEF ColdInv, SavedFirst, PastSaving
  <2>2. req'[m].task = t /\ container'[t].pc # "unborn" /\ container'[t].owner = UserOf[m]
    BY <1>1, <1>3, <1>8, <1>10
  <2>3. QED
    BY <1>2, <1>7, <2>1, <2>2 DEF RequestsGoOn, PastSaving
<1>12. QED
  BY <1>2, <1>3, <1>4, <1>6, <1>10, <1>11 DEF FleetGoesOn, Typed, ColdInv

\* Every step of the gateway.
LEMMA GatewaySteps ==
  ASSUME ColdInv, NEW m \in Msgs, GatewayRuns(m)
  PROVE  FleetGoesOn /\ QueueGoesOn
<1>0. /\ UserOf[m] \in Owners /\ Prewarm \in Owners
      /\ req[m].warm \in Row /\ req[m].task \in Tasks \cup {NoTask}
  BY RouterAssumption DEF Owners, ColdInv, Typed, Request
<1>1. ASSUME UNCHANGED <<container, pendingVars>>, taskState' \in [Owners -> Row],
             req' \in [Msgs -> Request], RequestsGoOn
      PROVE  FleetGoesOn /\ QueueGoesOn
  <2>1. ContainersGoOn /\ DrainsLast
    BY <1>1, ContainersQuiet
  <2>2. QueueGoesOn
    BY <1>1, <2>1, QuietQueue
  <2>3. QED
    BY <1>1, <2>1, <2>2 DEF FleetGoesOn, Typed, ColdInv
<1>2. UNCHANGED pendingVars => saved' = saved
  BY DEF pendingVars
<1>3. UNCHANGED fleetVars => UNCHANGED container /\ taskState' \in [Owners -> Row]
  BY DEF fleetVars, ColdInv, Typed
<1>4. CASE ReadTask(m) \/ ReadPrewarm(m)
  <2>1. PICK q : Follows(m, q) /\ UNCHANGED <<fleetVars, pendingVars>>
    BY <1>4, RowIsRead
  <2>2. req' \in [Msgs -> Request] /\ RequestsGoOn
    BY <1>2, <2>1, OneFollows
  <2>3. QED
    BY <1>1, <1>3, <2>1, <2>2
<1>5. CASE SendFails(m) \/ SendPrewarmOk(m) \/ SendPrewarmFails(m) \/ ClaimFails(m)
  <2>1. UNCHANGED <<fleetVars, pendingVars>> /\ (Goto(m, "save") \/ Goto(m, "claimDelete"))
    BY <1>5 DEF SendFails, SendPrewarmOk, SendPrewarmFails, ClaimFails
  <2>2. req' \in [Msgs -> Request] /\ RequestsGoOn
    BY <1>2, <2>1, GoingTo DEF PCs, PastSaving
  <2>3. QED
    BY <1>1, <1>3, <2>1, <2>2
<1>6. CASE SendOk(m) \/ RequestFails(m)
  <2>1. UNCHANGED <<fleetVars, pendingVars>> /\ Finish(m, "none")
    BY <1>6 DEF SendOk, RequestFails
  <2>2. req' \in [Msgs -> Request] /\ RequestsGoOn
    BY <1>2, <2>1, FinishingWith
  <2>3. QED
    BY <1>1, <1>3, <2>1, <2>2
<1>7. CASE ClaimDelete(m) \/ DeleteStale(m)
  <2>1. /\ UNCHANGED <<container, pendingVars>>
        /\ DeleteTaskState(Prewarm) \/ DeleteTaskState(UserOf[m])
    BY <1>7 DEF ClaimDelete, DeleteStale
  <2>2. taskState' \in [Owners -> Row]
    BY <1>0, <2>1, RowTypes, TablePut DEF DeleteTaskState
  <2>3. req' \in [Msgs -> Request] /\ RequestsGoOn
    <3>1. CASE ClaimDelete(m)
      BY <1>2, <2>1, <3>1, GoingTo DEF ClaimDelete, PCs, PastSaving
    <3>2. CASE DeleteStale(m)
      <4>1. m \in saved
        BY <3>2 DEF DeleteStale, At, ColdInv, SavedFirst
      <4>2. QED
        BY <1>2, <2>1, <3>2, <4>1, GoingTo DEF DeleteStale, PCs
    <3>3. QED
      BY <1>7, <3>1, <3>2
  <2>4. QED
    BY <1>1, <2>1, <2>2, <2>3
<1>8. CASE ClaimPut(m)
  <2>1. /\ UNCHANGED <<container, pendingVars>> /\ Finish(m, "none")
        /\ PutTaskState(UserOf[m], ClaimedRow(req[m].warm))
    BY <1>8 DEF ClaimPut
  <2>2. taskState' \in [Owners -> Row]
    BY <1>0, <2>1, RowTypes, TablePut
  <2>3. req' \in [Msgs -> Request] /\ RequestsGoOn
    BY <1>2, <2>1, FinishingWith
  <2>4. QED
    BY <1>1, <2>1, <2>2, <2>3
<1>9. CASE PutStarting(m)
  <2>1. /\ UNCHANGED <<container, pendingVars>> /\ Finish(m, "started")
        /\ PutTaskState(UserOf[m], FreshRow("Starting", req[m].task)) /\ req[m].pc = "put"
    BY <1>9 DEF PutStarting, At
  <2>2. taskState' \in [Owners -> Row]
    BY <1>0, <2>1, RowTypes, TablePut
  <2>3. m \in saved'
    BY <1>2, <2>1 DEF ColdInv, SavedFirst
  <2>4. req' \in [Msgs -> Request] /\ RequestsGoOn
    BY <1>2, <2>1, <2>3, FinishingWith
  <2>5. QED
    BY <1>1, <2>1, <2>2, <2>4
<1>10. QED
  BY <1>4, <1>5, <1>6, <1>7, <1>8, <1>9, Saves, Starts DEF GatewayRuns, RouterStep

-----------------------------------------------------------------------------
(* The invariant holds *)

LEMMA ColdInit == Init => ColdInv
<1> SUFFICES ASSUME Init
             PROVE  ColdInv
  OBVIOUS
<1>1. Prewarm \in Owners
  BY DEF Owners
<1>2. container \in [Tasks -> ContainerState]
  <2>1. Unborn(Prewarm) \in ContainerState
    BY <1>1, ContainerTypes
  <2>2. PrewarmedContainer \in ContainerState
    BY <2>1 DEF PrewarmedContainer, ContainerState, Alive, Listening
  <2>3. QED
    BY <2>1, <2>2 DEF Init
<1>3. taskState \in [Owners -> Row]
  <2>1. \A t \in Tasks : [FreshRow("Running", t) EXCEPT !.ip = TRUE] \in Row
    BY RowTypes, ZenonT(60) DEF Row
  <2>2. QED
    BY <2>1, RowTypes, PrewarmedAssumption DEF Init
<1>4. req = [m \in Msgs |-> NewRequest] /\ QueueProofs!Init
  BY OneQueue DEF Init, RouterInit
<1>5. req \in [Msgs -> Request]
  <2>1. NewRequest \in Request
    BY RowTypes DEF NewRequest, Request
  <2>2. QED
    BY <1>4, <2>1
<1>6. QueueProofs!QueueInv
  BY <1>4, QueueAssumption, QueueProofs!QueueInit
<1>7. /\ \A m \in Msgs : pending[m].st = "absent"
      /\ \A t \in Tasks : drain[t].pc = "idle" /\ \A m \in Msgs : drain[t].seen[m].st = "absent"
  BY <1>4 DEF QueueProofs!Init, QueueProofs!NothingSeen, QueueProofs!Absent
<1>8. MarksTell /\ DrainsWhileRunning /\ StarterFindsMessage
  BY <1>7 DEF MarksTell, DrainsWhileRunning, StarterFindsMessage, Draws
<1>9. \A m \in Msgs : SavedFirst(m) /\ StartedForUser(m)
  BY <1>4 DEF SavedFirst, StartedForUser, NewRequest
<1>10. QED
  BY <1>2, <1>3, <1>5, <1>6, <1>8, <1>9 DEF ColdInv, Typed

LEMMA ColdStep == ColdInv /\ [Next]_vars => ColdInv'
<1> SUFFICES ASSUME ColdInv, [Next]_vars
             PROVE  ColdInv'
  OBVIOUS
<1>1. FleetGoesOn /\ QueueGoesOn
  <2>1. ASSUME NEW m \in Msgs, GatewayRuns(m) \/ QueueAges(m)
        PROVE  FleetGoesOn /\ QueueGoesOn
    BY <2>1, GatewaySteps, Ages
  <2>2. ASSUME NEW t \in Tasks,
               \/ BridgeBoots(t) \/ BridgeRuns(t) \/ BridgeEnds(t)
               \/ BeginDrain(t) \/ DrainOne(t) \/ EndDrain(t)
        PROVE  FleetGoesOn /\ QueueGoesOn
    BY <2>2, BridgeWorks, ContainerEnds, ContainerDrains
  <2>3. CASE UNCHANGED vars
    <3>1. UNCHANGED <<container, taskState, req, pendingVars>>
      BY <2>3 DEF vars, fleetVars
    <3>2. ContainersGoOn /\ DrainsLast
      BY <3>1, ContainersQuiet
    <3>3. QueueGoesOn
      BY <3>1, <3>2, QuietQueue
    <3>4. req' \in [Msgs -> Request] /\ RequestsGoOn
      BY <3>1, <3>3, RequestsQuiet DEF QueueGoesOn, HistoryGoesOn
    <3>5. QED
      BY <3>1, <3>2, <3>3, <3>4 DEF FleetGoesOn, Typed, ColdInv
  <2>4. QED
    BY <2>1, <2>2, <2>3 DEF Next
<1>2. /\ DrainsWhileRunning'
      /\ \A m \in Msgs : SavedFirst(m)' /\ StartedForUser(m)'
      /\ StarterFindsMessage'
  BY <1>1, GoingOn DEF FleetGoesOn, QueueGoesOn
<1>3. QED
  BY <1>1, <1>2 DEF ColdInv, FleetGoesOn, QueueGoesOn

\* In every reachable state the table, the drains, the requests and the containers
\* fit: a message is saved before a task is started for it, the task is started for
\* its user, and a container drains only while its row says Running and it does not
\* serve.
THEOREM ColdStartInvariance == Spec => []ColdInv
BY ColdInit, ColdStep, PTL DEF Spec

\* Every variable keeps its type: the rows, the containers and the requests, and
\* the queue under them.
THEOREM Typing == Spec => []TypeOK
<1>1. ColdInv => TypeOK
  BY OneQueue DEF ColdInv, Typed, QueueProofs!QueueInv, TypeOK, TaskStateTypeOK, RouterTypeOK
<1>2. QED
  BY <1>1, ColdStartInvariance, PTL

\* The container that a message has started finds the message in the one query of
\* its drain (consumePendingMessages, after the row is put), whatever other
\* containers and requests do meanwhile.
THEOREM StartersFind == Spec => []StarterFindsMessage
<1>1. ColdInv => StarterFindsMessage
  BY DEF ColdInv
<1>2. QED
  BY <1>1, ColdStartInvariance, PTL

\* Nobody is told to wait, and no task is started, for a message that is neither in
\* the table nor tried: routeFargate's savePendingMessage comes first, and the drain
\* deletes last.
THEOREM UnansweredAreSaved == Spec => []UnansweredIsSaved
<1>1. ColdInv => UnansweredIsSaved
  <2> SUFFICES ASSUME ColdInv, NEW m \in Msgs,
                      req[m].task # NoTask \/ req[m].result \in {"queued", "started"}
               PROVE  Queue!Present(m) \/ Attempted(m)
    BY DEF UnansweredIsSaved
  <2>1. m \in saved
    BY DEF ColdInv, SavedFirst
  <2>2. QueueProofs!Present(m) \/ handled[m] # {} \/ m \in expired
    BY <2>1 DEF ColdInv, QueueProofs!QueueInv, QueueProofs!NothingLost
  <2>3. QED
    BY <2>2, OneQueue DEF Attempted
<1>2. QED
  BY <1>1, ColdStartInvariance, PTL

-----------------------------------------------------------------------------
(* With chats on the same table: what ColdStart promises *)

LEMMA LockRowType == LockRow \in Row /\ LockRow.status = "Running" /\ LockRow.ip = FALSE
<1>1. NoRow \in Row /\ NoRow.ip = FALSE
  BY RowTypes DEF NoRow
<1>2. QED
  BY <1>1 DEF LockRow, Row

LEMMA ChatUsers == \A e \in Chats : ChatUser[e] \in Users /\ ChatUser[e] \in Owners
BY ChatsAssumption DEF Owners

\* A chat touches nothing but rows, and puts only rows that are ones.
LEMMA ChatRows ==
  ASSUME ColdInv, NEW e \in Chats, ChatStep(e)
  PROVE  taskState' \in [Owners -> Row]
<1>1. taskState \in [Owners -> Row] /\ ChatUser[e] \in Owners
  BY ChatUsers DEF ColdInv, Typed
<1>2. CASE Acquire(e)
  BY <1>1, <1>2, LockRowType, TablePut DEF Acquire
<1>3. CASE Refuse(e)
  BY <1>1, <1>3 DEF Refuse
<1>4. CASE Release(e)
  BY <1>1, <1>4, RowTypes, TablePut DEF Release, DeleteTaskState
<1>5. CASE Die(e)
  BY <1>1, <1>5 DEF Die
<1>6. QED
  BY <1>2, <1>3, <1>4, <1>5 DEF ChatStep

\* Whatever becomes of the rows, ColdStart's invariant does not rest on them.
LEMMA RowsAlone ==
  ASSUME ColdInv, taskState' \in [Owners -> Row], UNCHANGED <<container, req, pendingVars>>
  PROVE  ColdInv'
<1>1. ContainersGoOn /\ DrainsLast
  BY ContainersQuiet
<1>2. QueueGoesOn
  BY <1>1, QuietQueue
<1>3. req' \in [Msgs -> Request] /\ RequestsGoOn
  BY <1>2, RequestsQuiet DEF QueueGoesOn, HistoryGoesOn
<1>4. Typed'
  BY <1>3 DEF ColdInv, Typed
<1>5. /\ DrainsWhileRunning'
      /\ \A m \in Msgs : SavedFirst(m)' /\ StartedForUser(m)'
      /\ StarterFindsMessage'
  BY <1>1, <1>2, <1>3, <1>4, GoingOn DEF QueueGoesOn
<1>6. QED
  BY <1>2, <1>4, <1>5 DEF ColdInv, QueueGoesOn

LEMMA SharedColdStep == ColdInv /\ [SharedNext]_sharedVars => ColdInv'
<1> SUFFICES ASSUME ColdInv, [SharedNext]_sharedVars
             PROVE  ColdInv'
  OBVIOUS
<1>1. CASE FargateStep
  BY <1>1, ColdStep DEF FargateStep
<1>2. ASSUME NEW e \in Chats, ChatStep(e)
      PROVE  ColdInv'
  BY <1>2, ChatRows, RowsAlone DEF ChatStep
<1>3. ASSUME NEW u \in Users, LockExpires(u)
      PROVE  ColdInv'
  <2>1. taskState' \in [Owners -> Row]
    BY <1>3, RowTypes, TablePut DEF LockExpires, DeleteTaskState, Owners
  <2>2. QED
    BY <1>3, <2>1, RowsAlone DEF LockExpires
<1>4. CASE UNCHANGED sharedVars
  <2>1. UNCHANGED vars
    BY <1>4 DEF sharedVars
  <2>2. QED
    BY <2>1, ColdStep
<1>5. QED
  BY <1>1, <1>2, <1>3, <1>4 DEF SharedNext

\* The invariant of ColdStart holds with chats on the same table.
THEOREM SharedColdStart == SharedSpec => []ColdInv
<1>1. SharedInit => ColdInv
  BY ColdInit DEF SharedInit
<1>2. QED
  BY <1>1, SharedColdStep, PTL DEF SharedSpec

\* In mode "both" too the container that a message has started finds it in its one
\* query, whatever the chats of the user do to the row meanwhile.
THEOREM StartersFindBesideChats == SharedSpec => []StarterFindsMessage
<1>1. ColdInv => StarterFindsMessage
  BY DEF ColdInv
<1>2. QED
  BY <1>1, SharedColdStart, PTL

-----------------------------------------------------------------------------
(* The lock *)

\* An execution that works is named by its user's row, or has been robbed of it.
LockInv ==
  /\ chat \in [Chats -> {"new", "working", "refused", "ended"}]
  /\ holder \in [Users -> Chats \cup {NoChat}]
  /\ taskState \in [Owners -> Row]
  /\ \A e \in Chats : Works(e) => Holds(e) \/ e \in robbed

LEMMA LockStep == ColdInv /\ LockInv /\ [SharedNext]_sharedVars => LockInv'
<1> SUFFICES ASSUME ColdInv, LockInv, [SharedNext]_sharedVars
             PROVE  LockInv'
  OBVIOUS
<1> USE ChatUsers
<1>0. taskState' \in [Owners -> Row]
  BY SharedColdStep DEF ColdInv, Typed
<1>1. CASE FargateStep
  BY <1>0, <1>1 DEF FargateStep, LockInv, Works, Holds, IsLocked
<1>2. ASSUME NEW e \in Chats, Acquire(e)
      PROVE  LockInv'
  <2>1. /\ taskState' = [taskState EXCEPT ![ChatUser[e]] = LockRow]
        /\ holder' = [holder EXCEPT ![ChatUser[e]] = e]
        /\ UNCHANGED robbed
        /\ chat' = [chat EXCEPT ![e] = "working"] \/ chat' = [chat EXCEPT ![e] = "ended"]
    BY <1>2 DEF Acquire, PutTaskState, ChatIs
  <2>2. ~IsLocked(ChatUser[e])
    BY <1>2, LockRowType DEF Acquire, LockIsFree, IsLocked
  <2>3. ASSUME NEW f \in Chats, Works(f)'
        PROVE  Holds(f)' \/ f \in robbed'
    <3>1. CASE f = e
      BY <2>1, <3>1 DEF LockInv, Holds, IsLocked
    <3>2. CASE f # e
      <4>1. Works(f)
        BY <2>1, <2>3, <3>2 DEF LockInv, Works
      <4>2. CASE ChatUser[f] = ChatUser[e]
        BY <2>1, <2>2, <4>1, <4>2 DEF LockInv, Holds
      <4>3. CASE ChatUser[f] # ChatUser[e]
        BY <2>1, <4>1, <4>3 DEF LockInv, Holds, IsLocked
      <4>4. QED
        BY <4>2, <4>3
    <3>3. QED
      BY <3>1, <3>2
  <2>4. QED
    BY <1>0, <2>1, <2>3 DEF LockInv
<1>3. ASSUME NEW e \in Chats, Refuse(e)
      PROVE  LockInv'
  <2>1. chat' = [chat EXCEPT ![e] = "refused"] /\ UNCHANGED <<taskState, holder, robbed>>
    BY <1>3 DEF Refuse, ChatIs
  <2>2. \A f \in Chats : (Works(f)' => Works(f)) /\ (Holds(f)' <=> Holds(f))
    BY <2>1 DEF LockInv, Works, Holds, IsLocked
  <2>3. QED
    BY <1>0, <2>1, <2>2 DEF LockInv
<1>4. ASSUME NEW e \in Chats, Release(e)
      PROVE  LockInv'
  <2>1. /\ chat' = [chat EXCEPT ![e] = "ended"] /\ UNCHANGED <<holder, robbed>>
        /\ \/ Holds(e) /\ taskState' = [taskState EXCEPT ![ChatUser[e]] = NoRow]
           \/ UNCHANGED taskState
    BY <1>4 DEF Release, ChatIs, DeleteTaskState, PutTaskState
  <2>2. ASSUME NEW f \in Chats, Works(f)'
        PROVE  Holds(f)' \/ f \in robbed'
    <3>1. f # e /\ Works(f)
      BY <2>1, <2>2 DEF LockInv, Works
    <3>2. Holds(f) /\ Holds(e) => ChatUser[f] # ChatUser[e]
      BY <3>1 DEF Holds
    <3>3. Holds(f) => Holds(f)'
      BY <2>1, <3>2 DEF LockInv, Holds, IsLocked
    <3>4. QED
      BY <2>1, <3>1, <3>3 DEF LockInv
  <2>3. QED
    BY <1>0, <2>1, <2>2 DEF LockInv
<1>5. ASSUME NEW e \in Chats, Die(e)
      PROVE  LockInv'
  <2>1. chat' = [chat EXCEPT ![e] = "ended"] /\ UNCHANGED <<taskState, holder, robbed>>
    BY <1>5 DEF Die, ChatIs
  <2>2. \A f \in Chats : (Works(f)' => Works(f)) /\ (Holds(f)' <=> Holds(f))
    BY <2>1 DEF LockInv, Works, Holds, IsLocked
  <2>3. QED
    BY <1>0, <2>1, <2>2 DEF LockInv
<1>6. ASSUME NEW u \in Users, LockExpires(u)
      PROVE  LockInv'
  <2>1. /\ UNCHANGED <<chat, holder, robbed>> /\ ~Works(holder[u])
        /\ taskState' = [taskState EXCEPT ![u] = NoRow]
    BY <1>6 DEF LockExpires, chatVars, DeleteTaskState, PutTaskState
  <2>2. ASSUME NEW f \in Chats, Works(f), Holds(f)
        PROVE  Holds(f)'
    BY <2>1, <2>2 DEF LockInv, Holds, IsLocked
  <2>3. QED
    BY <1>0, <2>1, <2>2 DEF LockInv, Works
<1>7. CASE UNCHANGED sharedVars
  BY <1>7 DEF sharedVars, vars, fleetVars, chatVars, LockInv, Works, Holds, IsLocked
<1>8. QED
  BY <1>1, <1>2, <1>3, <1>4, <1>5, <1>6, <1>7 DEF SharedNext, ChatStep

\* Two executions work on one user's session (session-lock.ts) only if a write of
\* Fargate to the shared key has taken the lock row from one of them.
THEOREM LocksExclude == SharedSpec => []ExclusiveUnlessRobbed
<1>1. SharedInit => LockInv
  <2> SUFFICES ASSUME SharedInit
               PROVE  LockInv
    OBVIOUS
  <2>1. taskState \in [Owners -> Row]
    BY ColdInit DEF SharedInit, ColdInv, Typed
  <2>2. QED
    BY <2>1 DEF SharedInit, LockInv, Works
<1>2. LockInv => ExclusiveUnlessRobbed
  BY DEF LockInv, ExclusiveUnlessRobbed, Holds
<1>3. QED
  BY <1>1, <1>2, LockStep, SharedColdStart, PTL DEF SharedSpec

\* acquire and release of the Lambda agent leave alone a row that leads to a
\* container, whenever it was put.
THEOREM ContainersAreLeft == SharedSpec => LocksLeaveContainers
<1>1. ASSUME NEW e \in Chats, ChatStep(e), NEW u \in Users, Reachable(taskState[u]), ColdInv
      PROVE  taskState'[u] = taskState[u]
  <2>0. taskState \in [Owners -> Row] /\ u \in Owners /\ ChatUser[e] \in Owners
    BY <1>1, ChatUsers DEF ColdInv, Typed, Owners
  <2>1. CASE Acquire(e)
    BY <1>1, <2>0, <2>1 DEF Acquire, LockIsFree, PutTaskState, Reachable
  <2>2. CASE Release(e)
    <3>1. ~IsLocked(u)
      BY <1>1, LockRowType DEF IsLocked, Reachable
    <3>2. QED
      BY <2>0, <2>2, <3>1 DEF Release, Holds, DeleteTaskState, PutTaskState
  <2>3. CASE Refuse(e) \/ Die(e)
    BY <2>3 DEF Refuse, Die
  <2>4. QED
    BY <1>1, <2>1, <2>2, <2>3 DEF ChatStep
<1>2. ColdInv => [(\E e \in Chats : ChatStep(e)) =>
         \A u \in Users : Reachable(taskState[u]) => taskState'[u] = taskState[u]]_sharedVars
  BY <1>1
<1>3. QED
  BY <1>2, SharedColdStart, PTL DEF LocksLeaveContainers
=============================================================================
