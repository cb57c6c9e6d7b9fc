-------------------------- MODULE TaskFleetProofs --------------------------
(***************************************************************************)
(* For any number of users, messages and tasks, and any limits of the      *)
(* watchdog with MinUptime at most OrphanUptime: rows name only their own  *)
(* tasks, the watchdog stops no young one, and a prewarmed container has   *)
(* one user unless two claimed it at once.                                 *)
(***************************************************************************)
EXTENDS PrewarmClaims, TLAPS

(***************************************************************************)
(* What no step does to a container: give birth to it twice, change whose  *)
(* it is, revive it or make it younger.                                    *)
(***************************************************************************)
ContainersLast ==
  \A t \in Tasks : container[t].pc # "unborn" =>
    /\ container'[t].pc # "unborn"
    /\ container'[t].owner = container[t].owner
    /\ container'[t].pc \in Alive =>
         container[t].pc \in Alive /\ container'[t].age >= container[t].age

\* FleetInv, one part for each component's variables.
TableInv ==
  /\ taskState \in [Owners -> Row]
  /\ \A o \in Owners : NamesOwnTask(o, taskState[o]) /\ NoOlder(taskState[o])

RequestInv ==
  /\ req \in [Msgs -> Request]
  /\ \A m \in Msgs :
       /\ NamesOwnTask(Prewarm, req[m].warm)
       /\ NoOlder(req[m].warm)
       /\ StartedFor(UserOf[m], req[m].task)

\* What a state of the watchdog knows of rows, and what it may stop.
Knows(w) ==
  /\ w \in Watch
  /\ \A o \in Owners : NamesOwnTask(o, w.seen[o]) /\ NoOlder(w.seen[o])
  /\ w.pc = "stop" => w.seen[w.at].age >= MinUptime
  /\ \A t \in w.orphans :
       /\ container[t].pc # "unborn"
       /\ IsAlive(t) => container[t].age >= MinUptime

WatchInv == Knows(watch)

PrewarmInv == PrewarmTypeOK /\ StartedFor(Prewarm, prewarm.task)

ContainerInv == container \in [Tasks -> ContainerState]

LEMMA FleetInvParts ==
  FleetInv <=> ContainerInv /\ TableInv /\ RequestInv /\ Queue!TypeOK /\ WatchInv /\ PrewarmInv
BY DEF FleetInv, TypeOK, TaskStateTypeOK, RouterTypeOK, WatchdogTypeOK, RowsNameOwnTasks,
       SnapshotsNameOwnTasks, AgesAreNoOlder, CondemnedAreOld, ContainerInv, TableInv,
       RequestInv, WatchInv, Knows, PrewarmInv

-----------------------------------------------------------------------------
(***************************************************************************)
(* Containers                                                              *)
(***************************************************************************)

LEMMA ContainerTypes ==
  /\ \A o \in Owners : Unborn(o) \in ContainerState
  /\ \A c \in ContainerState : Ended(c) \in ContainerState
  /\ \A c \in ContainerState, pc \in Alive : [c EXCEPT !.pc = pc] \in ContainerState
<1>1. 0 \in 0..AgeCap
  BY TaskStateAssumption
<1>2. \A o \in Owners : Unborn(o) \in ContainerState
  BY <1>1 DEF Unborn, ContainerState
<1>3. ASSUME NEW c \in ContainerState
      PROVE  Ended(c) \in ContainerState
  <2>1. c.owner \in Owners
    BY DEF ContainerState
  <2>2. Unborn(c.owner) \in ContainerState
    BY <1>2, <2>1
  <2>3. QED
    BY <2>2 DEF Ended, ContainerState
<1>4. \A c \in ContainerState, pc \in Alive : [c EXCEPT !.pc = pc] \in ContainerState
  BY DEF ContainerState
<1>5. QED
  BY <1>2, <1>3, <1>4

\* One container changes: it keeps its owner and its age, or ends.
GetsOn(t) ==
  \E c \in ContainerState :
    /\ container' = [container EXCEPT ![t] = c]
    /\ container[t].pc # "unborn"
    /\ c.owner = container[t].owner
    /\ \/ c.pc = "stopped"
       \/ c.pc = container[t].pc /\ c.age = container[t].age
       \/ container[t].pc \in Alive /\ c.pc \in Alive /\ c.age = container[t].age

LEMMA GettingOn ==
  ASSUME ContainerInv, NEW t \in Tasks, GetsOn(t)
  PROVE  ContainerInv' /\ ContainersLast
<1>1. PICK c \in ContainerState :
        /\ container' = [container EXCEPT ![t] = c]
        /\ container[t].pc # "unborn"
        /\ c.owner = container[t].owner
        /\ \/ c.pc = "stopped"
           \/ c.pc = container[t].pc /\ c.age = container[t].age
           \/ container[t].pc \in Alive /\ c.pc \in Alive /\ c.age = container[t].age
  BY DEF GetsOn
<1>2. ContainerInv'
  BY <1>1 DEF ContainerInv
<1>3. \A x \in Tasks : container[x].age \in Nat
  BY TaskStateAssumption DEF ContainerInv, ContainerState
<1>4. QED
  BY <1>1, <1>2, <1>3 DEF ContainersLast, ContainerInv, Alive, Listening

LEMMA ContainersUnchanged ==
  ASSUME ContainerInv, UNCHANGED container
  PROVE  ContainerInv' /\ ContainersLast
<1>1. \A x \in Tasks : container[x].age \in Nat
  BY TaskStateAssumption DEF ContainerInv, ContainerState
<1>2. QED
  BY <1>1 DEF ContainerInv, ContainersLast

\* Every step of a bridge.
BridgeStep(t) ==
  \/ Boot(t) \/ PutRunning(t) \/ PutAddress(t) \/ NoAddress(t) \/ Serve(t) \/ PutIdle(t)
  \/ GatewayExits(t) \/ Crash(t)

LEMMA BridgesGetOn ==
  ASSUME ContainerInv, NEW t \in Tasks, BridgeStep(t)
  PROVE  ContainerInv' /\ ContainersLast
<1>0. container[t] \in ContainerState /\ 0 \in 0..AgeCap
  BY TaskStateAssumption DEF ContainerInv
<1> SUFFICES GetsOn(t)
  BY GettingOn
<1>1. ASSUME container' = [container EXCEPT ![t] = Ended(container[t])], container[t].pc # "unborn"
      PROVE  GetsOn(t)
  <2>1. Ended(container[t]) \in ContainerState
    BY <1>0, ContainerTypes
  <2>2. Ended(container[t]).owner = container[t].owner /\ Ended(container[t]).pc = "stopped"
    BY DEF Ended, Unborn
  <2>3. QED
    BY <1>1, <2>1, <2>2 DEF GetsOn
<1>2. ASSUME NEW c \in ContainerState, container' = [container EXCEPT ![t] = c],
             container[t].pc \in Alive, c.pc \in Alive,
             c.owner = container[t].owner, c.age = container[t].age
      PROVE  GetsOn(t)
  BY <1>2 DEF GetsOn, Alive, Listening
<1>4. CASE PutRunning(t)
  <2> DEFINE c == [container[t] EXCEPT !.pc = "running", !.ip = "discovering"]
  <2>1. c \in ContainerState
    BY <1>0 DEF ContainerState, Alive, Listening
  <2>2. container' = [container EXCEPT ![t] = c]
    BY <1>4, <1>0 DEF PutRunning, ContainerInv
  <2>3. c.pc \in Alive /\ c.owner = container[t].owner /\ c.age = container[t].age
    BY <1>0 DEF ContainerState, Alive, Listening
  <2>4. container[t].pc \in Alive
    BY <1>4 DEF PutRunning, Alive, Listening
  <2>5. QED
    BY <1>2, <2>1, <2>2, <2>3, <2>4
<1>5. CASE PutAddress(t) \/ NoAddress(t)
  <2> DEFINE c == [container[t] EXCEPT !.ip = "settled"]
  <2>1. c \in ContainerState
    BY <1>0 DEF ContainerState
  <2>2. container' = [container EXCEPT ![t] = c]
    BY <1>5 DEF PutAddress, NoAddress
  <2>3. container[t].pc \in Alive
    BY <1>5 DEF PutAddress, NoAddress, IsAlive
  <2>4. c.pc \in Alive /\ c.owner = container[t].owner /\ c.age = container[t].age
    BY <1>0, <2>3 DEF ContainerState
  <2>5. QED
    BY <1>2, <2>1, <2>2, <2>3, <2>4
<1>6. ASSUME NEW pc \in Alive, container' = [container EXCEPT ![t].pc = pc], container[t].pc \in Alive
      PROVE  GetsOn(t)
  <2> DEFINE c == [container[t] EXCEPT !.pc = pc]
  <2>1. c \in ContainerState
    BY <1>0, ContainerTypes
  <2>2. c.pc \in Alive /\ c.owner = container[t].owner /\ c.age = container[t].age
    BY <1>0 DEF ContainerState
  <2>3. container' = [container EXCEPT ![t] = c]
    BY <1>6
  <2>4. QED
    BY <1>2, <1>6, <2>1, <2>2, <2>3
<1>7. CASE Boot(t) \/ Serve(t)
  BY <1>6, <1>7 DEF Boot, Serve, Alive, Listening
<1>8. CASE GatewayExits(t)
  <2>1. CASE container[t].pc = "serving"
    <3>1. container' = [container EXCEPT ![t] = [container[t] EXCEPT !.pc = "stopping"]]
      BY <1>8, <2>1 DEF GatewayExits
    <3>2. container' = [container EXCEPT ![t].pc = "stopping"]
      BY <3>1
    <3>3. QED
      BY <1>6, <2>1, <3>2 DEF Alive, Listening
  <2>2. CASE container[t].pc # "serving"
    <3>1. container' = [container EXCEPT ![t] = Ended(container[t])] /\ container[t].pc # "unborn"
      BY <1>8, <2>2 DEF GatewayExits
    <3>2. QED
      BY <1>1, <3>1
  <2>3. QED
    BY <2>1, <2>2
<1>9. CASE PutIdle(t) \/ Crash(t)
  BY <1>1, <1>9 DEF PutIdle, Crash, IsAlive, Alive, Listening
<1>10. QED
  BY <1>4, <1>5, <1>7, <1>8, <1>9 DEF BridgeStep

\* A task is started for o.
LEMMA TaskStarts ==
  ASSUME ContainerInv, NEW t \in Tasks, NEW o \in Owners, RunTask(t, o)
  PROVE  /\ ContainerInv'
         /\ ContainersLast
         /\ container'[t].owner = o /\ container'[t].pc # "unborn"
<1> DEFINE c == [Unborn(o) EXCEPT !.pc = "boot"]
<1>1. c \in ContainerState
  BY ContainerTypes DEF Alive
<1>2. c.owner = o /\ c.pc = "boot"
  BY DEF Unborn
<1>3. container' = [container EXCEPT ![t] = c] /\ container[t].pc = "unborn"
  BY DEF RunTask
<1>4. ContainerInv'
  BY <1>1, <1>3 DEF ContainerInv
<1>5. \A x \in Tasks : container[x].age \in Nat
  BY TaskStateAssumption DEF ContainerInv, ContainerState
<1>6. ContainersLast
  BY <1>3, <1>5 DEF ContainerInv, ContainersLast
<1>7. QED
  BY <1>2, <1>3, <1>4, <1>6 DEF ContainerInv

LEMMA StoppedTasksLast ==
  ASSUME ContainerInv, NEW t, StopTask(t)
  PROVE  ContainerInv' /\ ContainersLast
<1>1. CASE t \notin Tasks
  <2>1. container' = container
    BY <1>1 DEF StopTask, ContainerInv
  <2>2. QED
    BY <2>1, ContainersUnchanged
<1>2. CASE t \in Tasks
  <2>0. PICK b : b = (container[t].condemned \/ IsAlive(t))
    OBVIOUS
  <2>1. b \in BOOLEAN
    <3>1. IsAlive(t) \in BOOLEAN
      BY DEF IsAlive
    <3>2. container[t].condemned \in BOOLEAN
      BY <1>2 DEF ContainerInv, ContainerState
    <3>3. QED
      BY <2>0, <3>1, <3>2
  <2>2. container' = [container EXCEPT ![t].condemned = b]
    BY <1>2, <2>0 DEF StopTask, ContainerInv
  <2>3. ContainerInv'
    BY <1>2, <2>1, <2>2 DEF ContainerInv, ContainerState
  <2>4. \A x \in Tasks : container[x].age \in Nat
    BY TaskStateAssumption DEF ContainerInv, ContainerState
  <2>5. \A x \in Tasks : /\ container'[x].pc = container[x].pc
                         /\ container'[x].owner = container[x].owner
                         /\ container'[x].age = container[x].age
    BY <1>2, <2>2 DEF ContainerInv, ContainerState
  <2>6. QED
    BY <2>3, <2>4, <2>5 DEF ContainersLast
<1>3. QED
  BY <1>1, <1>2

\* An age counted up to the cap stays below it, and order is kept.
LEMMA OlderMonotone ==
  \A a, b \in 0..AgeCap :
    /\ Older(a) \in 0..AgeCap
    /\ Older(a) >= a
    /\ a <= b => a <= Older(b) /\ Older(a) <= Older(b)
BY TaskStateAssumption DEF Older

\* Time makes a container older and changes nothing else.
LEMMA ContainersAge ==
  ASSUME ContainerInv, container' = [t \in Tasks |-> AgedContainer(container[t])]
  PROVE  /\ ContainerInv'
         /\ ContainersLast
         /\ \A t \in Tasks :
              /\ container'[t].pc = container[t].pc
              /\ container[t].pc \in Alive => container'[t].age = Older(container[t].age)
<1>1. ASSUME NEW c \in ContainerState
      PROVE  /\ AgedContainer(c) \in ContainerState
             /\ AgedContainer(c).pc = c.pc /\ AgedContainer(c).owner = c.owner
             /\ AgedContainer(c).age >= c.age
             /\ c.pc \in Alive => AgedContainer(c).age = Older(c.age)
  <2>1. c.age \in 0..AgeCap /\ c.age >= c.age
    BY TaskStateAssumption DEF ContainerState
  <2>2. Older(c.age) \in 0..AgeCap /\ Older(c.age) >= c.age
    BY <2>1, OlderMonotone
  <2>3. CASE c.pc \in Alive
    <3>1. AgedContainer(c) = [c EXCEPT !.age = Older(c.age)]
      BY <2>3 DEF AgedContainer
    <3>2. QED
      BY <2>2, <3>1 DEF ContainerState
  <2>4. CASE c.pc \notin Alive
    BY <2>1, <2>4 DEF AgedContainer
  <2>5. QED
    BY <2>3, <2>4
<1>2. \A t \in Tasks : container[t] \in ContainerState /\ container'[t] = AgedContainer(container[t])
  BY DEF ContainerInv
<1>3. ContainerInv'
  BY <1>1, <1>2 DEF ContainerInv
<1>4. QED
  BY <1>1, <1>2, <1>3 DEF ContainersLast

-----------------------------------------------------------------------------
(***************************************************************************)
(* What is known of a row stays true of it while containers go on.         *)
(***************************************************************************)
NamesOwnNext(o, r) ==
  r.task # NoTask => container'[r.task].owner \in {o, Prewarm} /\ container'[r.task].pc # "unborn"

NoOlderNext(r) ==
  r.task # NoTask /\ container'[r.task].pc \in Alive => r.age <= container'[r.task].age

StartedForNext(o, t) ==
  t # NoTask => container'[t].owner = o /\ container'[t].pc # "unborn"

LEMMA RowsLast ==
  ASSUME ContainerInv, ContainerInv', ContainersLast, NEW o, NEW r \in Row, NamesOwnTask(o, r)
  PROVE  NamesOwnNext(o, r) /\ (NoOlder(r) => NoOlderNext(r))
<1>1. CASE r.task = NoTask
  BY <1>1 DEF NamesOwnNext, NoOlderNext
<1>2. CASE r.task # NoTask
  <2>1. r.task \in Tasks /\ r.age \in Nat
    BY <1>2, TaskStateAssumption DEF Row
  <2>2. container[r.task].pc # "unborn" /\ container[r.task].owner \in {o, Prewarm}
    BY <1>2 DEF NamesOwnTask, MayName
  <2>3. container[r.task].age \in Nat /\ container'[r.task].age \in Nat
    BY <2>1, TaskStateAssumption DEF ContainerInv, ContainerState
  <2>4. NamesOwnNext(o, r)
    BY <2>1, <2>2 DEF ContainersLast, NamesOwnNext
  <2>5. ASSUME NoOlder(r)
        PROVE  NoOlderNext(r)
    BY <1>2, <2>1, <2>2, <2>3, <2>5 DEF NoOlder, NoOlderNext, IsAlive, ContainersLast
  <2>6. QED
    BY <2>4, <2>5
<1>3. QED
  BY <1>1, <1>2

LEMMA StartedLast ==
  ASSUME ContainersLast, NEW o, NEW t \in Tasks \cup {NoTask}, StartedFor(o, t)
  PROVE  StartedForNext(o, t)
BY DEF ContainersLast, StartedFor, StartedForNext

\* The table, when at most one row is put.
PutsOwnRow ==
  \E o \in Owners, r \in Row :
    taskState' = [taskState EXCEPT ![o] = r] /\ NamesOwnTask(o, r) /\ NoOlder(r)

LEMMA TableStep ==
  ASSUME ContainerInv, ContainerInv', ContainersLast, TableInv,
         UNCHANGED taskState \/ PutsOwnRow
  PROVE  TableInv'
<1>1. taskState' \in [Owners -> Row]
  BY DEF TableInv, PutsOwnRow
<1>2. \A o \in Owners : NamesOwnTask(o, taskState'[o]) /\ NoOlder(taskState'[o])
  BY DEF TableInv, PutsOwnRow
<1>3. \A o \in Owners : NamesOwnNext(o, taskState'[o]) /\ NoOlderNext(taskState'[o])
  BY <1>1, <1>2, RowsLast
<1>4. QED
  BY <1>1, <1>3 DEF TableInv, NamesOwnTask, MayName, NoOlder, IsAlive, NamesOwnNext, NoOlderNext

LEMMA RequestsLast ==
  ASSUME ContainerInv, ContainerInv', ContainersLast, RequestInv, UNCHANGED req
  PROVE  RequestInv'
<1>1. \A m \in Msgs : req[m].warm \in Row /\ req[m].task \in Tasks \cup {NoTask}
  BY DEF RequestInv, Request
<1>2. \A m \in Msgs :
        /\ NamesOwnNext(Prewarm, req[m].warm)
        /\ NoOlderNext(req[m].warm)
        /\ StartedForNext(UserOf[m], req[m].task)
  BY <1>1, RowsLast, StartedLast DEF RequestInv
<1>3. QED
  BY <1>2 DEF RequestInv, NamesOwnTask, MayName, NoOlder, IsAlive, StartedFor,
              NamesOwnNext, NoOlderNext, StartedForNext

LEMMA PrewarmLasts ==
  ASSUME ContainersLast, PrewarmInv, UNCHANGED prewarmVars
  PROVE  PrewarmInv'
<1>1. prewarm.task \in Tasks \cup {NoTask}
  BY DEF PrewarmInv, PrewarmTypeOK, PrewarmState
<1>2. StartedForNext(Prewarm, prewarm.task)
  BY <1>1, StartedLast DEF PrewarmInv
<1>3. QED
  BY <1>2 DEF PrewarmInv, PrewarmTypeOK, prewarmVars, StartedFor, StartedForNext

LEMMA WatchLasts ==
  ASSUME ContainerInv, ContainerInv', ContainersLast, Knows(watch')
  PROVE  WatchInv'
<1>1. /\ watch' \in Watch
      /\ \A o \in Owners : watch'.seen[o] \in Row
      /\ \A o \in Owners : NamesOwnTask(o, watch'.seen[o]) /\ NoOlder(watch'.seen[o])
  BY DEF Knows, Watch
<1>2. \A o \in Owners : NamesOwnNext(o, watch'.seen[o]) /\ NoOlderNext(watch'.seen[o])
  BY <1>1, RowsLast
<1>3. ASSUME NEW t \in watch'.orphans
      PROVE  /\ container'[t].pc # "unborn"
             /\ container'[t].pc \in Alive => container'[t].age >= MinUptime
  <2>1. t \in Tasks
    BY <1>1 DEF Watch
  <2>2. /\ container[t].pc # "unborn"
        /\ container[t].pc \in Alive => container[t].age >= MinUptime
    BY DEF Knows, IsAlive
  <2>3. container[t].age \in Nat /\ container'[t].age \in Nat /\ MinUptime \in Nat
    BY <2>1, TaskStateAssumption, WatchdogAssumption DEF ContainerInv, ContainerState
  <2>4. QED
    BY <2>1, <2>2, <2>3 DEF ContainersLast
<1>4. watch'.pc = "stop" => watch'.seen[watch'.at].age >= MinUptime
  BY DEF Knows
<1>5. QED
  BY <1>1, <1>2, <1>3, <1>4 DEF WatchInv, Knows, NamesOwnTask, MayName, NoOlder, IsAlive,
                                NamesOwnNext, NoOlderNext

\* Rows that are put are rows.
LEMMA RowTypes ==
  /\ NoRow \in Row /\ IdleRow \in Row
  /\ \A t \in Tasks \cup {NoTask} : FreshRow("Starting", t) \in Row /\ FreshRow("Running", t) \in Row
  /\ \A r \in Row : ClaimedRow(r) \in Row /\ Protect(r) \in Row
<1>1. 0 \in 0..AgeCap /\ 0 \in 0..WarmFor /\ WarmFor \in 0..WarmFor
  BY TaskStateAssumption
<1>2. NoRow \in Row
  BY <1>1 DEF NoRow, Row
<1>3. IdleRow \in Row
  BY <1>2 DEF IdleRow, Row
<1>4. \A t \in Tasks \cup {NoTask} : FreshRow("Starting", t) \in Row /\ FreshRow("Running", t) \in Row
  BY <1>2 DEF FreshRow, Row
<1>5. ASSUME NEW r \in Row
      PROVE  ClaimedRow(r) \in Row
  BY <1>1 DEF ClaimedRow, Row
<1>6. ASSUME NEW r \in Row
      PROVE  Protect(r) \in Row
  <2>1. [NoRow EXCEPT !.status = "Partial"] \in Row
    BY <1>2 DEF Row
  <2>2. [r EXCEPT !.idle = 0, !.warm = WarmFor] \in Row
    BY <1>1 DEF Row
  <2>3. QED
    BY <2>1, <2>2 DEF Protect
<1>7. QED
  BY <1>2, <1>3, <1>4, <1>5, <1>6

\* A row of a task that is just put says that it is new.
LEMMA FreshRows ==
  ASSUME ContainerInv, NEW o \in Owners, NEW t \in Tasks \cup {NoTask},
         NEW r, r.task = t, r.age = 0, StartedFor(o, t)
  PROVE  NamesOwnTask(o, r) /\ NoOlder(r)
<1>1. t # NoTask => container[t].age \in Nat
  BY TaskStateAssumption DEF ContainerInv, ContainerState
<1>2. QED
  BY <1>1 DEF NamesOwnTask, MayName, NoOlder, StartedFor

\* A bridge puts a row of its own, or none.
LEMMA BridgesPutOwnRows ==
  ASSUME ContainerInv, NEW t \in Tasks, BridgeStep(t)
  PROVE  UNCHANGED taskState \/ PutsOwnRow
<1>1. container[t] \in ContainerState
  BY DEF ContainerInv
<1>2. /\ container[t].owner \in Owners
      /\ 0 \in 0..AgeCap /\ 0..container[t].age \subseteq 0..AgeCap
  BY <1>1, TaskStateAssumption DEF ContainerState
<1>3. ASSUME NEW ip \in BOOLEAN, NEW idle \in 0..AgeCap, container[t].pc # "unborn",
             PutTaskState(container[t].owner, RunningRow(t, ip, idle))
      PROVE  PutsOwnRow
  <2>1. FreshRow("Running", t) \in Row
    BY RowTypes
  <2>2. RunningRow(t, ip, idle) \in Row
    BY <1>2, <2>1 DEF RunningRow, Row
  <2>3. RunningRow(t, ip, idle).task = t /\ RunningRow(t, ip, idle).age = 0
    BY DEF RunningRow, FreshRow, NoRow
  <2>4. StartedFor(container[t].owner, t)
    BY <1>3 DEF StartedFor
  <2>5. NamesOwnTask(container[t].owner, RunningRow(t, ip, idle)) /\ NoOlder(RunningRow(t, ip, idle))
    BY <1>2, <2>3, <2>4, FreshRows
  <2>6. QED
    BY <1>2, <1>3, <2>2, <2>5 DEF PutsOwnRow, PutTaskState
<1>4. CASE PutRunning(t)
  BY <1>2, <1>3, <1>4 DEF PutRunning
<1>5. CASE PutAddress(t)
  BY <1>2, <1>3, <1>5 DEF PutAddress, IsAlive, Alive, Listening
<1>6. CASE PutIdle(t)
  <2>1. NamesOwnTask(container[t].owner, IdleRow) /\ NoOlder(IdleRow)
    BY DEF NamesOwnTask, NoOlder, IdleRow, NoRow
  <2>2. QED
    BY <1>2, <1>6, <2>1, RowTypes DEF PutIdle, PutsOwnRow, PutTaskState
<1>7. QED
  BY <1>4, <1>5, <1>6 DEF BridgeStep, Boot, NoAddress, Serve, GatewayExits, Crash

-----------------------------------------------------------------------------
(***************************************************************************)
(* Requests                                                                *)
(***************************************************************************)

\* One request moves on, with what it knows of rows and tasks.
Moves(m) ==
  \E q \in Request :
    /\ req' = [req EXCEPT ![m] = q]
    /\ NamesOwnNext(Prewarm, q.warm) /\ NoOlderNext(q.warm)
    /\ StartedForNext(UserOf[m], q.task)

LEMMA RequestsMove ==
  ASSUME ContainerInv, ContainerInv', ContainersLast, RequestInv, NEW m \in Msgs, Moves(m)
  PROVE  RequestInv'
<1>1. PICK q \in Request :
        /\ req' = [req EXCEPT ![m] = q]
        /\ NamesOwnNext(Prewarm, q.warm) /\ NoOlderNext(q.warm)
        /\ StartedForNext(UserOf[m], q.task)
  BY DEF Moves
<1>2. \A n \in Msgs : req[n].warm \in Row /\ req[n].task \in Tasks \cup {NoTask}
  BY DEF RequestInv, Request
<1>3. \A n \in Msgs :
        /\ NamesOwnNext(Prewarm, req[n].warm)
        /\ NoOlderNext(req[n].warm)
        /\ StartedForNext(UserOf[n], req[n].task)
  BY <1>2, RowsLast, StartedLast DEF RequestInv
<1>4. req' \in [Msgs -> Request]
  BY <1>1 DEF RequestInv
<1>5. \A n \in Msgs :
        /\ NamesOwnNext(Prewarm, req'[n].warm)
        /\ NoOlderNext(req'[n].warm)
        /\ StartedForNext(UserOf[n], req'[n].task)
  BY <1>1, <1>3 DEF RequestInv
<1>6. QED
  BY <1>4, <1>5 DEF RequestInv, NamesOwnTask, MayName, NoOlder, IsAlive, StartedFor,
                    NamesOwnNext, NoOlderNext, StartedForNext

PCs == {"new", "send", "readPrewarm", "sendPrewarm", "claimDelete", "claimPut", "save",
        "delete", "start", "put", "done"}

\* Most steps only go to another await, or finish.
LEMMA GoingOn ==
  ASSUME ContainerInv, ContainerInv', ContainersLast, RequestInv, NEW m \in Msgs,
         \/ \E pc \in PCs : Goto(m, pc)
         \/ \E result \in {"none", "started", "queued"} : Finish(m, result)
  PROVE  RequestInv'
<1>1. /\ req[m] \in Request
      /\ req[m].warm \in Row /\ req[m].task \in Tasks \cup {NoTask}
  BY DEF RequestInv, Request
<1>2. /\ NamesOwnNext(Prewarm, req[m].warm) /\ NoOlderNext(req[m].warm)
      /\ StartedForNext(UserOf[m], req[m].task)
  BY <1>1, RowsLast, StartedLast DEF RequestInv
<1>3. ASSUME NEW pc \in PCs, Goto(m, pc)
      PROVE  Moves(m)
  <2> DEFINE q == [req[m] EXCEPT !.pc = pc]
  <2>1. q \in Request /\ q.warm = req[m].warm /\ q.task = req[m].task
    BY <1>1 DEF Request, PCs
  <2>2. req' = [req EXCEPT ![m] = q]
    BY <1>3 DEF Goto
  <2>3. QED
    BY <1>2, <2>1, <2>2 DEF Moves
<1>4. ASSUME NEW result \in {"none", "started", "queued"}, Finish(m, result)
      PROVE  Moves(m)
  <2> DEFINE q == [NewRequest EXCEPT !.pc = "done", !.task = req[m].task, !.result = result]
  <2>1. q \in Request /\ q.warm = NoRow /\ q.task = req[m].task
    BY <1>1, RowTypes DEF Request, NewRequest
  <2>2. req' = [req EXCEPT ![m] = q]
    BY <1>4 DEF Finish
  <2>3. NamesOwnNext(Prewarm, NoRow) /\ NoOlderNext(NoRow)
    BY DEF NamesOwnNext, NoOlderNext, NoRow
  <2>4. QED
    BY <1>2, <2>1, <2>2, <2>3 DEF Moves
<1>5. QED
  BY <1>3, <1>4, RequestsMove

\* The message is saved under a key of its own.
LEMMA SavingTypes ==
  ASSUME Queue!TypeOK, NEW m \in Msgs, Queue!SavePending(m)
  PROVE  Queue!TypeOK'
<1>1. 0 \in 0..MaxRetries /\ 0 < MaxRetries
  BY RouterAssumption
<1>2. [st |-> "ready", body |-> TRUE, retry |-> 0] \in Queue!Item
  BY <1>1 DEF Queue!Item
<1>3. pending' \in [Msgs -> Queue!Item]
  BY <1>2 DEF Queue!TypeOK, Queue!SavePending
<1>4. QED
  BY <1>3 DEF Queue!TypeOK, Queue!SavePending

\* Reading a row: an Idle one reads as none.
LEMMA ReadRows ==
  ASSUME TableInv, NEW o \in Owners
  PROVE  /\ GetTaskState(o) \in Row
         /\ NamesOwnTask(o, GetTaskState(o)) /\ NoOlder(GetTaskState(o))
<1>1. NoRow \in Row /\ NamesOwnTask(o, NoRow) /\ NoOlder(NoRow)
  BY RowTypes DEF NamesOwnTask, NoOlder, NoRow
<1>2. QED
  BY <1>1 DEF TableInv, GetTaskState

\* Every step of the gateway.
LEMMA GatewaySteps ==
  ASSUME FleetInv, NEW m \in Msgs, GatewayRuns(m)
  PROVE  /\ ContainerInv' /\ ContainersLast
         /\ UNCHANGED taskState \/ PutsOwnRow
         /\ RequestInv' /\ Queue!TypeOK'
<1>0. ContainerInv /\ TableInv /\ RequestInv /\ Queue!TypeOK
  BY FleetInvParts
<1>a. UserOf[m] \in Owners /\ Prewarm \in Owners
  BY RouterAssumption DEF Owners
<1>b. req[m] \in Request /\ req[m].warm \in Row /\ req[m].row \in Row /\ req[m].task \in Tasks \cup {NoTask}
  BY <1>0 DEF RequestInv, Request
<1>c. UNCHANGED pendingVars => Queue!TypeOK'
  BY <1>0 DEF pendingVars, Queue!TypeOK
<1>d. UNCHANGED container => ContainerInv' /\ ContainersLast
  BY <1>0, ContainersUnchanged
<1>e. NamesOwnTask(Prewarm, NoRow) /\ NoOlder(NoRow) /\ \A o \in Owners : NamesOwnTask(o, NoRow)
  BY DEF NamesOwnTask, NoOlder, NoRow
<1>1. CASE ReadTask(m)
  <2>1. UNCHANGED <<fleetVars, pendingVars>>
    BY <1>1 DEF ReadTask
  <2>2. ContainerInv' /\ ContainersLast
    BY <1>d, <2>1 DEF fleetVars
  <2> DEFINE r == GetTaskState(UserOf[m])
             pc == CASE Reachable(r) -> "send"
                     [] r = NoRow -> "readPrewarm"
                     [] OTHER -> "save"
             q == [req[m] EXCEPT !.row = r, !.pc = pc]
  <2>3. r \in Row
    BY <1>0, <1>a, ReadRows
  <2>4. pc \in PCs
    BY DEF PCs
  <2> HIDE DEF r, pc
  <2>5. q \in Request /\ q.warm = req[m].warm /\ q.task = req[m].task
    BY <1>b, <2>3, <2>4 DEF Request, PCs
  <2>6. req' = [req EXCEPT ![m] = q]
    <3>1. req' = [req EXCEPT ![m].row = r, ![m].pc = pc]
      BY <1>1, Zenon DEF ReadTask, r, pc
    <3>2. QED
      BY <1>0, <3>1 DEF RequestInv
  <2>7. NamesOwnNext(Prewarm, q.warm) /\ NoOlderNext(q.warm) /\ StartedForNext(UserOf[m], q.task)
    BY <1>0, <1>b, <2>2, <2>5, RowsLast, StartedLast DEF RequestInv
  <2>8. Moves(m)
    BY <2>5, <2>6, <2>7 DEF Moves
  <2>9. QED
    BY <1>0, <1>c, <2>1, <2>2, <2>8, RequestsMove DEF fleetVars
<1>2. CASE ReadPrewarm(m)
  <2>1. UNCHANGED <<fleetVars, pendingVars>>
    BY <1>2 DEF ReadPrewarm
  <2>2. ContainerInv' /\ ContainersLast
    BY <1>d, <2>1 DEF fleetVars
  <2> DEFINE r == GetTaskState(Prewarm)
             pc == IF Reachable(r) THEN "sendPrewarm" ELSE "save"
             q == [req[m] EXCEPT !.warm = r, !.pc = pc]
  <2>3. r \in Row /\ NamesOwnNext(Prewarm, r) /\ NoOlderNext(r)
    BY <1>0, <1>a, <2>2, ReadRows, RowsLast
  <2>4. pc \in PCs
    BY DEF PCs
  <2> HIDE DEF r, pc
  <2>5. q \in Request /\ q.warm = r /\ q.task = req[m].task
    BY <1>b, <2>3, <2>4 DEF Request, PCs
  <2>6. req' = [req EXCEPT ![m] = q]
    BY <1>2, <1>0 DEF ReadPrewarm, RequestInv, r, pc
  <2>7. StartedForNext(UserOf[m], q.task)
    BY <1>0, <1>b, <2>2, <2>5, StartedLast DEF RequestInv
  <2>8. Moves(m)
    BY <2>3, <2>5, <2>6, <2>7 DEF Moves
  <2>9. QED
    BY <1>0, <1>c, <2>1, <2>2, <2>8, RequestsMove DEF fleetVars
<1>3. CASE SendOk(m) \/ SendFails(m) \/ SendPrewarmOk(m) \/ SendPrewarmFails(m)
  <2>1. UNCHANGED <<taskState, container, pendingVars>>
    BY <1>3 DEF SendOk, SendFails, SendPrewarmOk, SendPrewarmFails, fleetVars
  <2>2. ContainerInv' /\ ContainersLast
    BY <1>d, <2>1
  <2>3. \/ \E pc \in PCs : Goto(m, pc)
        \/ \E result \in {"none", "started", "queued"} : Finish(m, result)
    BY <1>3 DEF SendOk, SendFails, SendPrewarmOk, SendPrewarmFails, PCs
  <2>4. QED
    BY <1>0, <1>c, <2>1, <2>2, <2>3, GoingOn
<1>4. CASE ClaimDelete(m) \/ ClaimPut(m) \/ ClaimFails(m) \/ DeleteStale(m) \/ PutStarting(m)
           \/ RequestFails(m)
  <2>1. UNCHANGED <<container, pendingVars>>
    BY <1>4 DEF ClaimDelete, ClaimPut, ClaimFails, DeleteStale, PutStarting, RequestFails, fleetVars
  <2>2. ContainerInv' /\ ContainersLast
    BY <1>d, <2>1
  <2>3. \/ \E pc \in PCs : Goto(m, pc)
        \/ \E result \in {"none", "started", "queued"} : Finish(m, result)
    BY <1>4 DEF ClaimDelete, ClaimPut, ClaimFails, DeleteStale, PutStarting, RequestFails, PCs
  <2>4. UNCHANGED taskState \/ PutsOwnRow
    <3>1. CASE ClaimDelete(m) \/ DeleteStale(m)
      BY <1>a, <1>e, <3>1, RowTypes DEF ClaimDelete, DeleteStale, DeleteTaskState, PutTaskState, PutsOwnRow
    <3>2. CASE ClaimPut(m)
      <4> DEFINE r == ClaimedRow(req[m].warm)
      <4>1. r \in Row /\ r.task = req[m].warm.task /\ r.age = req[m].warm.age
        BY <1>b, RowTypes DEF ClaimedRow, Row
      <4>2. NamesOwnTask(Prewarm, req[m].warm) /\ NoOlder(req[m].warm)
        BY <1>0 DEF RequestInv
      <4> HIDE DEF r
      <4>3. NamesOwnTask(UserOf[m], r) /\ NoOlder(r)
        BY <4>1, <4>2 DEF NamesOwnTask, MayName, NoOlder
      <4>4. QED
        BY <1>a, <3>2, <4>1, <4>3 DEF ClaimPut, PutTaskState, PutsOwnRow, r
    <3>3. CASE PutStarting(m)
      <4> DEFINE r == FreshRow("Starting", req[m].task)
      <4>1. r \in Row /\ r.task = req[m].task /\ r.age = 0
        BY <1>b, RowTypes DEF FreshRow, NoRow
      <4>2. NamesOwnTask(UserOf[m], r) /\ NoOlder(r)
        BY <1>0, <1>a, <1>b, <4>1, FreshRows DEF RequestInv
      <4>3. QED
        BY <1>a, <3>3, <4>1, <4>2 DEF PutStarting, PutTaskState, PutsOwnRow
    <3>4. CASE ClaimFails(m) \/ RequestFails(m)
      BY <3>4 DEF ClaimFails, RequestFails, fleetVars
    <3>5. QED
      BY <1>4, <3>1, <3>2, <3>3, <3>4
  <2>5. QED
    BY <1>0, <1>c, <2>1, <2>2, <2>3, <2>4, GoingOn
<1>5. CASE Save(m)
  <2>1. ContainerInv' /\ ContainersLast
    BY <1>5, <1>d DEF Save, fleetVars
  <2>2. \/ \E pc \in PCs : Goto(m, pc)
        \/ \E result \in {"none", "started", "queued"} : Finish(m, result)
    BY <1>5 DEF Save, AfterSave, PCs
  <2>3. Queue!TypeOK'
    BY <1>0, <1>5, SavingTypes DEF Save
  <2>4. QED
    BY <1>0, <1>5, <2>1, <2>2, <2>3, GoingOn DEF Save, fleetVars
<1>6. ASSUME NEW t \in Tasks, StartTask(m, t)
      PROVE  /\ ContainerInv' /\ ContainersLast
             /\ UNCHANGED <<taskState, pendingVars>>
             /\ RequestInv'
  <2>1. RunTask(t, UserOf[m])
    BY <1>6 DEF StartTask
  <2>2. /\ ContainerInv' /\ ContainersLast
        /\ container'[t].owner = UserOf[m] /\ container'[t].pc # "unborn"
    BY <1>0, <1>a, <2>1, TaskStarts
  <2> DEFINE q == [req[m] EXCEPT !.pc = "put", !.task = t]
  <2>3. q \in Request /\ q.warm = req[m].warm /\ q.task = t
    BY <1>b DEF Request
  <2>4. req' = [req EXCEPT ![m] = q]
    BY <1>6, <1>0 DEF StartTask, RequestInv
  <2>5. NamesOwnNext(Prewarm, q.warm) /\ NoOlderNext(q.warm)
    BY <1>0, <1>b, <2>2, <2>3, RowsLast DEF RequestInv
  <2>6. StartedForNext(UserOf[m], q.task)
    BY <2>2, <2>3 DEF StartedForNext
  <2>7. Moves(m)
    BY <2>3, <2>4, <2>5, <2>6 DEF Moves
  <2>8. QED
    BY <1>0, <1>6, <2>2, <2>7, RequestsMove DEF StartTask
<1>7. QED
  BY <1>1, <1>2, <1>3, <1>4, <1>5, <1>6, <1>c DEF GatewayRuns, RouterStep

-----------------------------------------------------------------------------
(***************************************************************************)
(* The watchdog                                                            *)
(***************************************************************************)

LEMMA NothingKnown == Knows(WatchdogIdle)
<1>1. WatchdogIdle \in Watch
  BY RowTypes DEF WatchdogIdle, Watch, Owners
<1>2. QED
  BY <1>1 DEF Knows, WatchdogIdle, NamesOwnTask, NoOlder, NoRow

\* Every step of the watchdog.
LEMMA WatchdogSteps ==
  ASSUME FleetInv, WatchdogStep \/ WatchdogFails
  PROVE  /\ ContainerInv' /\ ContainersLast
         /\ UNCHANGED taskState \/ PutsOwnRow
         /\ Knows(watch')
<1>0. ContainerInv /\ TableInv /\ WatchInv
  BY FleetInvParts
<1>a. UNCHANGED container => ContainerInv' /\ ContainersLast
  BY <1>0, ContainersUnchanged
<1>b. watch \in Watch /\ \A o \in Owners : watch.seen[o] \in Row /\ watch.seen[o].age \in Nat
  BY <1>0, TaskStateAssumption DEF WatchInv, Knows, Watch, Row
<1>c. \A o \in Owners : NoRow \in Row /\ NamesOwnTask(o, NoRow) /\ NoOlder(NoRow)
  BY RowTypes DEF NamesOwnTask, NoOlder, NoRow
<1>1. CASE Scan
  <2>1. UNCHANGED fleetVars
    BY <1>1 DEF Scan
  <2> DEFINE seen == [o \in Owners |-> Scanned(taskState[o])]
             refs == {taskState[o].task : o \in {p \in Owners : IsActive(taskState[p])}}
  <2>2. PICK timeout \in Timeouts :
          watch' = [WatchdogIdle EXCEPT !.pc = "loop", !.timeout = timeout, !.seen = seen, !.refs = refs]
    BY <1>1 DEF Scan
  <2>3. ASSUME NEW o \in Owners
        PROVE  seen[o] \in Row /\ NamesOwnTask(o, seen[o]) /\ NoOlder(seen[o])
    <3> DEFINE r == taskState[o]
    <3>1. r \in Row /\ NamesOwnTask(o, r) /\ NoOlder(r)
      BY <1>0 DEF TableInv
    <3>2. seen[o] = Scanned(r)
      OBVIOUS
    <3> HIDE DEF r, seen
    <3>3. /\ [r EXCEPT !.ip = FALSE] \in Row
          /\ [r EXCEPT !.ip = FALSE].task = r.task /\ [r EXCEPT !.ip = FALSE].age = r.age
      BY <3>1 DEF Row
    <3>4. QED
      BY <1>c, <3>1, <3>2, <3>3 DEF Scanned, NamesOwnTask, NoOlder
  <2>4. seen \in [Owners -> Row] /\ refs \in SUBSET (Tasks \cup {NoTask})
    BY <1>0, <2>3 DEF TableInv, Row
  <2> HIDE DEF seen, refs
  <2>5. /\ watch' \in Watch
        /\ watch'.seen = seen /\ watch'.pc = "loop" /\ watch'.orphans = {}
    BY <2>2, <2>4, NothingKnown DEF Knows, Watch, WatchdogIdle
  <2>6. Knows(watch')
    BY <2>3, <2>5 DEF Knows
  <2>7. QED
    BY <1>a, <2>1, <2>6 DEF fleetVars
<1>2. ASSUME NEW o \in Owners, PassOver(o) \/ FindGone(o) \/ FindInactive(o)
      PROVE  UNCHANGED fleetVars /\ Knows(watch')
  <2>1. CASE PassOver(o)
    <3>1. watch' = [watch EXCEPT !.seen = [watch.seen EXCEPT ![o] = NoRow]]
      BY <1>b, <2>1 DEF PassOver, Watch
    <3>2. /\ watch' \in Watch
          /\ watch'.seen = [watch.seen EXCEPT ![o] = NoRow]
          /\ watch'.pc = "loop" /\ watch'.orphans = watch.orphans
      BY <1>b, <1>c, <2>1, <3>1 DEF PassOver, Looks, Watch
    <3>3. \A p \in Owners : NamesOwnTask(p, watch'.seen[p]) /\ NoOlder(watch'.seen[p])
      BY <1>0, <1>b, <1>c, <3>2 DEF WatchInv, Knows, Watch
    <3>4. QED
      BY <1>0, <2>1, <3>2, <3>3 DEF PassOver, WatchInv, Knows
  <2>2. CASE FindGone(o)
    <3>1. /\ watch' \in Watch
          /\ watch'.seen = watch.seen /\ watch'.pc = "delete" /\ watch'.orphans = watch.orphans
      BY <1>b, <2>2 DEF FindGone, Watch
    <3>2. QED
      BY <1>0, <2>2, <3>1 DEF FindGone, WatchInv, Knows
  <2>3. CASE FindInactive(o)
    <3>1. /\ watch' \in Watch
          /\ watch'.seen = watch.seen /\ watch'.at = o /\ watch'.orphans = watch.orphans
      BY <1>b, <2>3 DEF FindInactive, Watch
    <3>2. watch.seen[o].age >= MinUptime
      BY <1>b, <2>3, WatchdogAssumption DEF FindInactive, Protected
    <3>3. QED
      BY <1>0, <2>3, <3>1, <3>2 DEF FindInactive, WatchInv, Knows
  <2>4. QED
    BY <1>2, <2>1, <2>2, <2>3 DEF PassOver, FindGone, FindInactive
<1>3. CASE StopInactive
  <2>1. ContainerInv' /\ ContainersLast
    BY <1>0, <1>3, StoppedTasksLast DEF StopInactive
  <2>2. /\ watch' \in Watch
        /\ watch'.seen = watch.seen /\ watch'.pc = "delete" /\ watch'.orphans = watch.orphans
    BY <1>b, <1>3 DEF StopInactive, Watch
  <2>3. Knows(watch')
    BY <1>0, <2>2 DEF WatchInv, Knows
  <2>4. QED
    BY <1>3, <2>1, <2>3 DEF StopInactive
<1>4. CASE DeleteRow
  <2>1. ContainerInv' /\ ContainersLast
    BY <1>a, <1>4 DEF DeleteRow
  <2>2. watch.at \in Owners /\ Prewarm \in Owners
    BY <1>b DEF Watch, Owners
  <2>3. PutsOwnRow
    BY <1>4, <1>c, <2>2 DEF DeleteRow, DeleteTaskState, PutTaskState, PutsOwnRow
  <2>4. watch' = [watch EXCEPT !.pc = "loop", !.seen = [watch.seen EXCEPT ![watch.at] = NoRow],
                               !.at = Prewarm]
    BY <1>b, <1>4 DEF DeleteRow, Watch
  <2>5. /\ watch' \in Watch
        /\ watch'.seen = [watch.seen EXCEPT ![watch.at] = NoRow]
        /\ watch'.pc = "loop" /\ watch'.orphans = watch.orphans
    BY <1>b, <1>c, <2>2, <2>4 DEF Watch
  <2>6. \A p \in Owners : NamesOwnTask(p, watch'.seen[p]) /\ NoOlder(watch'.seen[p])
    BY <1>0, <1>b, <1>c, <2>2, <2>5 DEF WatchInv, Knows, Watch
  <2>7. Knows(watch')
    BY <1>0, <2>5, <2>6 DEF WatchInv, Knows
  <2>8. QED
    BY <2>1, <2>3, <2>7
<1>5. CASE ListOrphans
  <2> DEFINE orphans == {t \in Tasks \ watch.refs :
                           /\ IsAlive(t)
                           /\ ~container[t].condemned
                           /\ container[t].age >= OrphanUptime}
  <2>1. watch' = [watch EXCEPT !.pc = "sweep", !.orphans = orphans]
    BY <1>5 DEF ListOrphans
  <2>2. orphans \in SUBSET Tasks
    OBVIOUS
  <2>3. ASSUME NEW t \in orphans
        PROVE  container[t].pc # "unborn" /\ container[t].age >= MinUptime
    <3>1. container[t].age \in Nat
      BY <1>0, TaskStateAssumption DEF ContainerInv, ContainerState
    <3>2. QED
      BY <2>3, <3>1, WatchdogAssumption DEF IsAlive, Alive, Listening
  <2> HIDE DEF orphans
  <2>4. /\ watch' \in Watch
        /\ watch'.seen = watch.seen /\ watch'.pc = "sweep" /\ watch'.orphans = orphans
    BY <1>b, <2>1, <2>2 DEF Watch
  <2>5. Knows(watch')
    BY <1>0, <2>3, <2>4 DEF WatchInv, Knows
  <2>6. QED
    BY <1>a, <1>5, <2>5 DEF ListOrphans, fleetVars
<1>6. ASSUME NEW t \in Tasks, StopOrphan(t)
      PROVE  ContainerInv' /\ ContainersLast /\ UNCHANGED taskState /\ Knows(watch')
  <2>1. ContainerInv' /\ ContainersLast
    BY <1>0, <1>6, StoppedTasksLast DEF StopOrphan
  <2>2. /\ watch' \in Watch
        /\ watch'.seen = watch.seen /\ watch'.pc = "sweep" /\ watch'.orphans = watch.orphans \ {t}
    BY <1>b, <1>6 DEF StopOrphan, Watch
  <2>3. Knows(watch')
    BY <1>0, <2>2 DEF WatchInv, Knows
  <2>4. QED
    BY <1>6, <2>1, <2>3 DEF StopOrphan
<1>7. CASE EndSweep \/ WatchdogFails
  BY <1>7, <1>a, NothingKnown DEF EndSweep, WatchdogFails, fleetVars
<1>8. QED
  BY <1>1, <1>2, <1>3, <1>4, <1>5, <1>6, <1>7, <1>a DEF WatchdogStep, fleetVars

-----------------------------------------------------------------------------
(***************************************************************************)
(* The prewarm handler                                                     *)
(***************************************************************************)

\* Every step of the prewarm handler.
LEMMA PrewarmSteps ==
  ASSUME FleetInv, PrewarmStep \/ PrewarmFails
  PROVE  /\ ContainerInv' /\ ContainersLast
         /\ UNCHANGED taskState \/ PutsOwnRow
         /\ PrewarmInv'
<1>0. ContainerInv /\ TableInv /\ PrewarmInv
  BY FleetInvParts
<1>a. UNCHANGED container => ContainerInv' /\ ContainersLast
  BY <1>0, ContainersUnchanged
<1>b. /\ prewarm \in PrewarmState /\ prewarms \in 0..MaxPrewarms
      /\ prewarm.at \in Owners /\ prewarm.task \in Tasks \cup {NoTask}
      /\ Prewarm \in Owners
  BY <1>0 DEF PrewarmInv, PrewarmTypeOK, PrewarmState, Owners
<1>c. ASSUME prewarm' \in PrewarmState, prewarm'.task = NoTask, prewarms' \in 0..MaxPrewarms
      PROVE  PrewarmInv'
  BY <1>c DEF PrewarmInv, PrewarmTypeOK, StartedFor
<1>d. PrewarmIdle \in PrewarmState /\ PrewarmIdle.task = NoTask
  BY <1>b DEF PrewarmIdle, PrewarmState
<1>1. CASE PrewarmScan
  <2>1. prewarms' \in 0..MaxPrewarms
    <3>1. prewarms < MaxPrewarms /\ prewarms' = prewarms + 1
      BY <1>1, Zenon DEF PrewarmScan
    <3>2. prewarms \in 0..MaxPrewarms
      BY <1>b
    <3>3. QED
      BY <3>1, <3>2, PrewarmAssumption
  <2>2. prewarm' \in PrewarmState /\ prewarm'.task = NoTask
    BY <1>1, <1>d DEF PrewarmScan, PrewarmIdle, PrewarmState
  <2>3. QED
    BY <1>1, <1>a, <1>c, <2>1, <2>2 DEF PrewarmScan, fleetVars
<1>2. CASE PrewarmUpdate
  <2> DEFINE old == taskState[prewarm.at]
             r == Protect(old)
  <2>1. old \in Row /\ NamesOwnTask(prewarm.at, old) /\ NoOlder(old)
    BY <1>0, <1>b DEF TableInv
  <2>2. r \in Row /\ (r.task = NoTask \/ (r.task = old.task /\ r.age = old.age))
    <3>1. r \in {[NoRow EXCEPT !.status = "Partial"], [old EXCEPT !.idle = 0, !.warm = WarmFor], old}
      BY DEF Protect
    <3>2. r \in Row
      BY <2>1, RowTypes
    <3>3. [NoRow EXCEPT !.status = "Partial"].task = NoTask
      BY DEF NoRow
    <3>4. /\ [old EXCEPT !.idle = 0, !.warm = WarmFor].task = old.task
          /\ [old EXCEPT !.idle = 0, !.warm = WarmFor].age = old.age
      BY <2>1 DEF Row
    <3>5. QED
      BY <3>1, <3>2, <3>3, <3>4
  <2>3. taskState' = [taskState EXCEPT ![prewarm.at] = r]
    BY <1>2 DEF PrewarmUpdate, PutTaskState
  <2> HIDE DEF r, old
  <2>4. NamesOwnTask(prewarm.at, r) /\ NoOlder(r)
    BY <2>1, <2>2 DEF NamesOwnTask, NoOlder
  <2>5. PutsOwnRow
    BY <1>b, <2>2, <2>3, <2>4 DEF PutsOwnRow
  <2>6. QED
    BY <1>2, <1>a, <1>b, <1>c, <1>d, <2>5 DEF PrewarmUpdate
<1>3. ASSUME NEW t \in Tasks, PrewarmRun(t)
      PROVE  ContainerInv' /\ ContainersLast /\ UNCHANGED taskState /\ PrewarmInv'
  <2>1. /\ ContainerInv' /\ ContainersLast
        /\ container'[t].owner = Prewarm /\ container'[t].pc # "unborn"
    BY <1>0, <1>b, <1>3, TaskStarts DEF PrewarmRun
  <2>2. prewarm' \in PrewarmState /\ prewarm'.task = t /\ prewarms' = prewarms
    BY <1>b, <1>3 DEF PrewarmRun, PrewarmState
  <2>3. PrewarmInv'
    BY <1>b, <2>1, <2>2 DEF PrewarmInv, PrewarmTypeOK, StartedFor
  <2>4. QED
    BY <1>3, <2>1, <2>3 DEF PrewarmRun
<1>4. CASE PrewarmPut
  <2> DEFINE r == [FreshRow("Starting", prewarm.task) EXCEPT !.warm = WarmFor]
  <2>1. FreshRow("Starting", prewarm.task) \in Row /\ WarmFor \in 0..WarmFor
    BY <1>b, RowTypes, TaskStateAssumption
  <2>2. r \in Row
    BY <2>1 DEF Row
  <2>3. r.task = prewarm.task /\ r.age = 0
    BY DEF FreshRow, NoRow
  <2>4. taskState' = [taskState EXCEPT ![Prewarm] = r]
    BY <1>4 DEF PrewarmPut, PutTaskState
  <2> HIDE DEF r
  <2>5. NamesOwnTask(Prewarm, r) /\ NoOlder(r)
    BY <1>0, <1>b, <2>3, FreshRows DEF PrewarmInv
  <2>6. PutsOwnRow
    BY <1>b, <2>2, <2>4, <2>5 DEF PutsOwnRow
  <2>7. QED
    BY <1>4, <1>a, <1>b, <1>c, <1>d, <2>6 DEF PrewarmPut
<1>5. CASE PrewarmFails
  BY <1>5, <1>a, <1>b, <1>c, <1>d DEF PrewarmFails, fleetVars
<1>6. QED
  BY <1>1, <1>2, <1>3, <1>4, <1>5 DEF PrewarmStep

-----------------------------------------------------------------------------
(***************************************************************************)
(* Time                                                                    *)
(***************************************************************************)

\* Time passes for rows as it does for tasks: no row gets older than its task.
LEMMA TableAges ==
  ASSUME ContainerInv, TableInv, TimePasses
  PROVE  ContainerInv' /\ ContainersLast /\ TableInv'
<1>1. /\ ContainerInv' /\ ContainersLast
      /\ \A t \in Tasks :
           /\ container'[t].pc = container[t].pc
           /\ container[t].pc \in Alive => container'[t].age = Older(container[t].age)
  BY ContainersAge DEF TimePasses
<1>2. ASSUME NEW r \in Row
      PROVE  /\ AgedRow(r) \in Row /\ AgedRow(r).task = r.task
             /\ AgedRow(r).age \in {r.age, Older(r.age)}
  <2>1. CASE IsActive(r)
    <3> DEFINE warm == IF r.warm = 0 THEN 0 ELSE r.warm - 1
    <3>1. r.age \in 0..AgeCap /\ r.idle \in 0..AgeCap /\ r.warm \in 0..WarmFor
      BY DEF Row
    <3>2. Older(r.age) \in 0..AgeCap /\ Older(r.idle) \in 0..AgeCap /\ warm \in 0..WarmFor
      BY <3>1, OlderMonotone, TaskStateAssumption
    <3>3. AgedRow(r) = [r EXCEPT !.age = Older(r.age), !.idle = Older(r.idle), !.warm = warm]
      BY <2>1 DEF AgedRow
    <3> HIDE DEF warm
    <3>4. QED
      BY <3>2, <3>3 DEF Row
  <2>2. CASE ~IsActive(r)
    BY <2>2 DEF AgedRow
  <2>3. QED
    BY <2>1, <2>2
<1>3. \A o \in Owners : taskState[o] \in Row /\ taskState'[o] = AgedRow(taskState[o])
  BY DEF TableInv, TimePasses
<1>4. taskState' \in [Owners -> Row]
  BY <1>2, <1>3 DEF TimePasses
<1>5. ASSUME NEW o \in Owners
      PROVE  NamesOwnNext(o, taskState'[o]) /\ NoOlderNext(taskState'[o])
  <2> DEFINE r == taskState[o]
  <2>1. r \in Row /\ NamesOwnTask(o, r) /\ NoOlder(r)
    BY <1>3 DEF TableInv
  <2> HIDE DEF r
  <2>2. NamesOwnNext(o, r)
    BY <1>1, <2>1, RowsLast
  <2>3. NamesOwnNext(o, AgedRow(r))
    BY <1>2, <2>1, <2>2 DEF NamesOwnNext
  <2>4. ASSUME r.task # NoTask, container'[r.task].pc \in Alive
        PROVE  AgedRow(r).age <= container'[r.task].age
    <3>1. r.task \in Tasks /\ r.age \in 0..AgeCap
      BY <2>1, <2>4 DEF Row
    <3>2. container[r.task].age \in 0..AgeCap /\ container[r.task].pc \in Alive
      BY <1>1, <2>4, <3>1 DEF ContainerInv, ContainerState
    <3>3. r.age <= container[r.task].age
      BY <2>1, <2>4, <3>2 DEF NoOlder, IsAlive
    <3>4. container'[r.task].age = Older(container[r.task].age)
      BY <1>1, <3>1, <3>2
    <3>5. QED
      BY <1>2, <2>1, <3>1, <3>2, <3>3, <3>4, OlderMonotone
  <2>5. NoOlderNext(AgedRow(r))
    BY <1>2, <2>1, <2>4 DEF NoOlderNext
  <2>6. QED
    BY <1>3, <2>3, <2>5 DEF r
<1>6. QED
  BY <1>1, <1>4, <1>5 DEF TableInv, NamesOwnTask, MayName, NoOlder, IsAlive, NamesOwnNext, NoOlderNext

-----------------------------------------------------------------------------
(***************************************************************************)
(* The fleet                                                               *)
(***************************************************************************)

LEMMA FleetInit == Init => FleetInv
<1> SUFFICES ASSUME Init
             PROVE  FleetInv
  OBVIOUS
<1> USE DEF Init, TaskStateInit, RouterInit, WatchdogInit, PrewarmInit
<1>1. ContainerInv
  BY ContainerTypes DEF ContainerInv, Owners
<1>2. TableInv
  BY RowTypes DEF TableInv, NamesOwnTask, NoOlder, NoRow
<1>3. RequestInv
  <2>1. NewRequest \in Request
    BY RowTypes DEF NewRequest, Request
  <2>2. QED
    BY <2>1 DEF RequestInv, NewRequest, NamesOwnTask, NoOlder, StartedFor, NoRow
<1>4. Queue!TypeOK
  <2>1. Queue!Absent \in Queue!Item
    BY RouterAssumption DEF Queue!Absent, Queue!Item
  <2>2. Queue!NothingSeen \in [Msgs -> Queue!Item]
    BY <2>1 DEF Queue!NothingSeen
  <2>3. QED
    BY <2>2 DEF Queue!Init, Queue!TypeOK, Queue!Drain
<1>5. WatchInv
  BY NothingKnown DEF WatchInv
<1>6. PrewarmInv
  BY PrewarmAssumption DEF PrewarmInv, PrewarmTypeOK, PrewarmState, PrewarmIdle, StartedFor, Owners
<1>7. QED
  BY <1>1, <1>2, <1>3, <1>4, <1>5, <1>6, FleetInvParts

LEMMA FleetInvNext ==
  ContainerInv' /\ TableInv' /\ RequestInv' /\ Queue!TypeOK' /\ WatchInv' /\ PrewarmInv' => FleetInv'
BY FleetInvParts, PTL

LEMMA FleetStep == FleetInv /\ [Next]_vars => FleetInv'
<1> SUFFICES ASSUME FleetInv, [Next]_vars
             PROVE  FleetInv'
  OBVIOUS
<1>0. ContainerInv /\ TableInv /\ RequestInv /\ Queue!TypeOK /\ WatchInv /\ PrewarmInv
  BY FleetInvParts
<1>a. UNCHANGED pendingVars => Queue!TypeOK'
  BY <1>0 DEF pendingVars, Queue!TypeOK
<1>b. UNCHANGED watch => Knows(watch')
  BY <1>0 DEF WatchInv
\* One component moves; what the others know stays true.
<1>c. ASSUME ContainerInv', ContainersLast,
             UNCHANGED taskState \/ PutsOwnRow,
             UNCHANGED req \/ RequestInv',
             Queue!TypeOK',
             Knows(watch'),
             UNCHANGED prewarmVars \/ PrewarmInv'
      PROVE  FleetInv'
  <2>1. TableInv' /\ RequestInv' /\ WatchInv' /\ PrewarmInv'
    BY <1>0, <1>c, TableStep, RequestsLast, WatchLasts, PrewarmLasts
  <2>2. QED
    BY <1>c, <2>1, FleetInvNext
<1>1. ASSUME NEW m \in Msgs, GatewayRuns(m)
      PROVE  FleetInv'
  BY <1>1, <1>b, <1>c, GatewaySteps DEF GatewayRuns
<1>2. ASSUME NEW t \in Tasks,
             BridgeBoots(t) \/ BridgePuts(t) \/ BridgeServes(t) \/ BridgeEnds(t)
      PROVE  FleetInv'
  <2>1. BridgeStep(t) /\ UNCHANGED <<req, pendingVars, watch, prewarmVars>>
    BY <1>2 DEF BridgeBoots, BridgePuts, BridgeServes, BridgeEnds, BridgeStep
  <2>2. QED
    BY <1>0, <1>a, <1>b, <1>c, <2>1, BridgesGetOn, BridgesPutOwnRows
<1>3. CASE WatchdogRuns \/ WatchdogEnds
  BY <1>3, <1>a, <1>c, WatchdogSteps DEF WatchdogRuns, WatchdogEnds
<1>4. CASE PrewarmRuns
  BY <1>4, <1>a, <1>b, <1>c, PrewarmSteps DEF PrewarmRuns
<1>5. CASE Tick
  <2>1. ContainerInv' /\ ContainersLast /\ TableInv'
    BY <1>0, <1>5, TableAges DEF Tick
  <2>2. RequestInv' /\ WatchInv' /\ PrewarmInv' /\ Queue!TypeOK'
    BY <1>0, <1>5, <1>a, <1>b, <2>1, RequestsLast, WatchLasts, PrewarmLasts DEF Tick
  <2>3. QED
    BY <2>1, <2>2, FleetInvNext
<1>6. CASE UNCHANGED vars
  <2>1. ContainerInv' /\ ContainersLast
    BY <1>0, <1>6, ContainersUnchanged DEF vars, fleetVars
  <2>2. QED
    BY <1>6, <1>a, <1>b, <1>c, <2>1 DEF vars, fleetVars
<1>7. QED
  BY <1>1, <1>2, <1>3, <1>4, <1>5, <1>6 DEF Next

\* FleetInv is an invariant: whatever order requests, containers, watchdog and
\* prewarm handler run in, and wherever any of them fails.
THEOREM FleetInvariance == Spec => []FleetInv
BY FleetInit, FleetStep, PTL DEF Spec

\* No user's row ever names a container that was started for another user, though
\* every writer overwrites whole rows without a condition.
THEOREM OwnTasksOnly == Spec => []RowsNameOwnTasks
<1>1. FleetInv => RowsNameOwnTasks
  BY DEF FleetInv
<1>2. QED
  BY <1>1, FleetInvariance, PTL

\* The watchdog never stops a task younger than MinUptime, though it acts on a
\* snapshot: the row it read makes its task no older than it is, and an orphan's
\* age is the task's own.
THEOREM YoungTasksAreSpared == Spec => []YoungTasksSurvive
<1>1. FleetInv => YoungTasksSurvive
  <2> SUFFICES ASSUME FleetInv, NEW t \in Tasks, Condemns(t), IsAlive(t)
               PROVE  container[t].age >= MinUptime
    BY DEF YoungTasksSurvive
  <2>0. ContainerInv /\ WatchInv
    BY FleetInvParts
  <2>1. CASE t \in watch.orphans
    BY <2>0, <2>1 DEF WatchInv, Knows
  <2>2. CASE watch.pc = "stop" /\ watch.seen[watch.at].task = t
    <3>1. watch.at \in Owners /\ watch.seen[watch.at] \in Row
      BY <2>0 DEF WatchInv, Knows, Watch
    <3>2. /\ watch.seen[watch.at].age \in Nat
          /\ container[t].age \in Nat
          /\ MinUptime \in Nat
      BY <2>0, <3>1, TaskStateAssumption, WatchdogAssumption DEF Row, ContainerInv, ContainerState
    <3>3. watch.seen[watch.at].age >= MinUptime
      BY <2>0, <2>2 DEF WatchInv, Knows
    <3>4. watch.seen[watch.at].age <= container[t].age
      BY <2>0, <2>2, <3>1, TaskStateAssumption DEF WatchInv, Knows, NoOlder
    <3>5. QED
      BY <3>2, <3>3, <3>4
  <2>3. QED
    BY <2>1, <2>2 DEF Condemns
<1>2. QED
  BY <1>1, FleetInvariance, PTL

-----------------------------------------------------------------------------
(***************************************************************************)
(* Claims.  What a step may do to rows, claims and addresses, whichever    *)
(* component makes it.                                                     *)
(***************************************************************************)
AddressesAreOfBridges ==
  \A t \in Tasks : container[t].ip # "unknown" => container[t].pc \in {"running", "serving", "stopping"}

Offered(t) == Reachable(taskState[Prewarm]) /\ taskState[Prewarm].task = t

\* The delete of the prewarm row is behind a request, the put of its user's before it.
Takes(m, t) == At(m, "claimPut") /\ req[m].warm.task = t

PutsPrewarmed(t) == prewarm.pc = "put" /\ prewarm.task = t

SettledLast == \A t \in Tasks : Settled(t) => Settled(t)'

\* A row that names a task it did not name is the user's own, or its container's, or the
\* prewarm handler's, or a claim's.
RowsFollow ==
  \A o \in Owners, t \in Tasks : taskState'[o].task = t /\ taskState[o].task # t =>
    \/ o \in Users /\ container'[t].owner = o
    \/ o = Prewarm /\ ~Settled(t) /\ container[t].pc \notin {"unborn", "boot", "stopped"}
    \/ o = Prewarm /\ PutsPrewarmed(t) /\ prewarm'.pc # "put"
    \/ o \in Users /\ \E m \in Msgs : UserOf[m] = o /\ Takes(m, t)

OffersFollow == \A t \in Tasks : Offered(t)' => Offered(t) \/ Settled(t)'

ClaimsFollow ==
  \A m \in Msgs, t \in Tasks :
    /\ Claims(m, t)' => Claims(m, t) \/ Offered(t)
    /\ Takes(m, t)' => Takes(m, t) \/ (Claims(m, t) /\ taskState'[Prewarm].task = NoTask)

PutsFollow ==
  \A t \in Tasks : PutsPrewarmed(t)' =>
    \/ PutsPrewarmed(t) /\ container'[t].pc \in {"boot", "stopped"}
    \/ container[t].pc = "unborn" /\ container'[t].pc = "boot"

StepRules ==
  /\ SettledLast /\ AddressesAreOfBridges'
  /\ RowsFollow /\ OffersFollow /\ ClaimsFollow /\ PutsFollow

LEMMA UnbornUnknown ==
  ASSUME FleetInv, ClaimInv, NEW t \in Tasks, container[t].pc = "unborn"
  PROVE  /\ ~Settled(t)
         /\ \A o \in Owners : taskState[o].task # t
         /\ \A m \in Msgs : ~Claims(m, t)
<1>1. ~Settled(t)
  BY DEF ClaimInv, OffersAreSettled, Settled, IsStopped
<1>2. \A o \in Owners : taskState[o].task # t
  BY TaskStateAssumption DEF FleetInv, RowsNameOwnTasks, NamesOwnTask
<1>3. \A m \in Msgs : ~Claims(m, t)
  BY <1>1 DEF ClaimInv, OffersAreSettled
<1>4. QED
  BY <1>1, <1>2, <1>3

\* What is taken after a step was taken before, or is claimed by this step.
LEMMA TakenBefore ==
  ASSUME FleetInv, ClaimInv, ContainersLast, StepRules, NEW t \in Tasks, NEW o \in Users, Taken(t, o)'
  PROVE  \/ Taken(t, o)
         \/ \E m \in Msgs : /\ UserOf[m] = o /\ Claims(m, t) /\ Claims(m, t)'
                            /\ taskState'[Prewarm].task = NoTask
<1>0. o \in Owners /\ o # Prewarm
  BY TaskStateAssumption DEF Owners
<1>1. container'[t].owner = Prewarm
  BY DEF Taken
<1>2. CASE container[t].pc = "unborn"
  <2>1. \A m \in Msgs : ~Claims(m, t) /\ ~Takes(m, t)
    BY <1>2, UnbornUnknown DEF Claims, Takes, At
  <2>2. taskState[o].task # t
    BY <1>0, <1>2, UnbornUnknown
  <2>3. taskState'[o].task # t
    BY <1>0, <1>1, <2>1, <2>2 DEF StepRules, RowsFollow
  <2>4. \A m \in Msgs : ~Takes(m, t)'
    BY <2>1 DEF StepRules, ClaimsFollow
  <2>5. QED
    BY <2>3, <2>4 DEF Taken, Takes, At
<1>3. CASE container[t].pc # "unborn"
  <2>1. container[t].owner = Prewarm
    BY <1>1, <1>3 DEF ContainersLast
  <2>2. CASE taskState'[o].task = t
    <3>1. taskState[o].task = t \/ \E m \in Msgs : UserOf[m] = o /\ Takes(m, t)
      BY <1>0, <1>1, <2>2 DEF StepRules, RowsFollow
    <3>2. QED
      BY <2>1, <3>1 DEF Taken, Takes
  <2>3. ASSUME NEW m \in Msgs, UserOf[m] = o, Takes(m, t)'
        PROVE  \/ Taken(t, o)
               \/ Claims(m, t) /\ Claims(m, t)' /\ taskState'[Prewarm].task = NoTask
    <3>1. Claims(m, t)'
      BY <2>3 DEF Takes, Claims, At
    <3>2. Takes(m, t) \/ (Claims(m, t) /\ taskState'[Prewarm].task = NoTask)
      BY <2>3 DEF StepRules, ClaimsFollow
    <3>3. QED
      BY <2>1, <2>3, <3>1, <3>2 DEF Taken, Takes
  <2>4. QED
    BY <2>2, <2>3 DEF Taken, Takes, At
<1>4. QED
  BY <1>2, <1>3

\* The claims after any step that keeps to the rules.
LEMMA ClaimsStep ==
  ASSUME FleetInv, ClaimInv, PrewarmInv', ContainersLast, StepRules, Remembers
  PROVE  OffersAreSettled' /\ PutIsFirst' /\ TakenOnce'
<1>a. Prewarm \in Owners /\ \A o \in Users : o \in Owners /\ o # Prewarm
  BY TaskStateAssumption DEF Owners
<1>b. \A t \in Tasks : t # NoTask
  BY TaskStateAssumption
<1>c. \A t \in Tasks : t \in doubled \/ ClaimedTwice(t)' => t \in doubled'
  BY DEF Remembers
<1>1. OffersAreSettled'
  <2>1. \A t \in Tasks : Offered(t)' => Settled(t)'
    BY DEF StepRules, OffersFollow, SettledLast, Offered, ClaimInv, OffersAreSettled
  <2>2. \A t \in Tasks, m \in Msgs : Claims(m, t)' => Settled(t)'
    BY DEF StepRules, ClaimsFollow, SettledLast, Offered, ClaimInv, OffersAreSettled
  <2>3. QED
    BY <2>1, <2>2 DEF StepRules, AddressesAreOfBridges, OffersAreSettled, Offered
<1>2. PutIsFirst'
  <2> SUFFICES ASSUME NEW t \in Tasks, PutsPrewarmed(t)'
               PROVE  /\ container'[t].pc \in {"boot", "stopped"}
                      /\ \A o \in Owners : taskState'[o].task # t
                      /\ \A m \in Msgs : ~Claims(m, t)'
    BY DEF PutIsFirst, PutsPrewarmed
  <2>1. container'[t].owner = Prewarm
    BY <1>b DEF PrewarmInv, StartedFor, PutsPrewarmed
  <2>2. \/ PutsPrewarmed(t) /\ container'[t].pc \in {"boot", "stopped"}
        \/ container[t].pc = "unborn" /\ container'[t].pc = "boot"
    BY DEF StepRules, PutsFollow
  <2>3. /\ container[t].pc \in {"unborn", "boot", "stopped"}
        /\ \A o \in Owners : taskState[o].task # t
        /\ \A m \in Msgs : ~Claims(m, t)
    BY <2>2, UnbornUnknown DEF ClaimInv, PutIsFirst, PutsPrewarmed
  <2>4. \A m \in Msgs : ~Takes(m, t)
    BY <2>3 DEF Takes, Claims, At
  <2>5. prewarm'.pc = "put"
    BY DEF PutsPrewarmed
  <2>6. \A o \in Owners : taskState'[o].task # t
    BY <1>a, <2>1, <2>3, <2>4, <2>5 DEF StepRules, RowsFollow
  <2>7. \A m \in Msgs : ~Claims(m, t)'
    BY <1>a, <2>3 DEF StepRules, ClaimsFollow, Offered
  <2>8. QED
    BY <2>2, <2>6, <2>7
<1>3. TakenOnce'
  <2> SUFFICES ASSUME NEW t \in Tasks, NEW o \in Users, Taken(t, o)'
               PROVE  /\ Settled(t)'
                      /\ taskState'[Prewarm].task # t
                      /\ \A m \in Msgs : Claims(m, t)' /\ UserOf[m] # o => t \in doubled'
                      /\ \A p \in Users : Taken(t, p)' /\ p # o => t \in doubled'
    BY DEF TakenOnce
  <2>1. CASE Taken(t, o)
    <3>1. /\ Settled(t)
          /\ taskState[Prewarm].task # t
          /\ \A m \in Msgs : Claims(m, t) /\ UserOf[m] # o => t \in doubled
          /\ \A p \in Users : Taken(t, p) /\ p # o => t \in doubled
      BY <2>1 DEF ClaimInv, TakenOnce
    <3>2. ~PutsPrewarmed(t)
      BY <1>a, <2>1 DEF ClaimInv, PutIsFirst, PutsPrewarmed, Taken, Claims, At
    <3>3. Settled(t)'
      BY <3>1 DEF StepRules, SettledLast
    <3>4. taskState'[Prewarm].task # t
      BY <1>a, <3>1, <3>2 DEF StepRules, RowsFollow
    <3>5. ASSUME NEW m \in Msgs, Claims(m, t)', UserOf[m] # o
          PROVE  t \in doubled'
      BY <1>c, <3>1, <3>5 DEF StepRules, ClaimsFollow, Offered
    <3>6. ASSUME NEW p \in Users, Taken(t, p)', p # o
          PROVE  t \in doubled'
      <4>1. \/ Taken(t, p)
            \/ \E m \in Msgs : UserOf[m] = p /\ Claims(m, t)
        BY <3>6, TakenBefore
      <4>2. QED
        BY <1>c, <3>1, <3>6, <4>1
    <3>7. QED
      BY <3>3, <3>4, <3>5, <3>6
  <2>2. ASSUME NEW m \in Msgs, UserOf[m] = o, Claims(m, t), Claims(m, t)', taskState'[Prewarm].task = NoTask
        PROVE  /\ Settled(t)'
               /\ taskState'[Prewarm].task # t
               /\ \A n \in Msgs : Claims(n, t)' /\ UserOf[n] # o => t \in doubled'
               /\ \A p \in Users : Taken(t, p)' /\ p # o => t \in doubled'
    <3>1. Settled(t)'
      BY <2>2 DEF ClaimInv, OffersAreSettled, StepRules, SettledLast
    <3>2. ASSUME NEW n \in Msgs, Claims(n, t)', UserOf[n] # o
          PROVE  t \in doubled'
      BY <1>c, <2>2, <3>2 DEF ClaimedTwice
    <3>3. ASSUME NEW p \in Users, Taken(t, p)', p # o
          PROVE  t \in doubled'
      <4>1. CASE Taken(t, p)
        BY <1>c, <2>2, <3>3, <4>1 DEF ClaimInv, TakenOnce
      <4>2. CASE \E n \in Msgs : UserOf[n] = p /\ Claims(n, t)'
        BY <3>2, <3>3, <4>2
      <4>3. QED
        BY <3>3, <4>1, <4>2, TakenBefore
    <3>4. QED
      BY <1>b, <2>2, <3>1, <3>2, <3>3
  <2>3. QED
    BY <2>1, <2>2, TakenBefore
<1>4. QED
  BY <1>1, <1>2, <1>3

-----------------------------------------------------------------------------
(* Each component keeps to the rules. *)

LEMMA ContainersQuiet ==
  ASSUME ClaimInv,
         \A t \in Tasks : container'[t].pc = container[t].pc /\ container'[t].ip = container[t].ip
  PROVE  SettledLast /\ AddressesAreOfBridges'
BY DEF ClaimInv, OffersAreSettled, SettledLast, Settled, IsStopped, AddressesAreOfBridges

\* Rows go, or keep their task and whether they lead to it.
LEMMA RowsQuiet ==
  ASSUME \A o \in Owners :
           \/ taskState'[o].task = NoTask
           \/ /\ taskState'[o].task = taskState[o].task
              /\ Reachable(taskState'[o]) => Reachable(taskState[o])
  PROVE  RowsFollow /\ OffersFollow
BY TaskStateAssumption DEF RowsFollow, OffersFollow, Offered, Owners

LEMMA RequestsQuiet == UNCHANGED req => ClaimsFollow
BY DEF ClaimsFollow, Claims, Takes, At

LEMMA RequestsAreQuiet ==
  ASSUME RequestInv, NEW m \in Msgs, NEW q, req' = [req EXCEPT ![m] = q],
         \/ q.pc \notin {"sendPrewarm", "claimDelete", "claimPut"}
         \/ At(m, "sendPrewarm") /\ q.pc = "claimDelete" /\ q.warm = req[m].warm
  PROVE  ClaimsFollow
BY DEF RequestInv, ClaimsFollow, Claims, Takes, At

LEMMA PutsQuiet ==
  ASSUME ClaimInv, UNCHANGED prewarm \/ prewarm'.pc # "put",
         \A t \in Tasks : PutsPrewarmed(t) /\ container[t].pc \in {"boot", "stopped"}
                            => container'[t].pc \in {"boot", "stopped"}
  PROVE  PutsFollow
BY DEF PutsFollow, PutsPrewarmed, ClaimInv, PutIsFirst

LEMMA BridgeRules ==
  ASSUME FleetInv, ClaimInv, NEW u \in Tasks, UNCHANGED <<req, prewarmVars>>,
         \/ Boot(u) /\ ~PutIsDue(u)
         \/ PutRunning(u) \/ PutAddress(u) \/ NoAddress(u) \/ Serve(u) \/ PutIdle(u)
         \/ GatewayExits(u) \/ Crash(u)
  PROVE  StepRules
<1>0. /\ container \in [Tasks -> ContainerState] /\ container[u] \in ContainerState
      /\ taskState \in [Owners -> Row]
      /\ container[u].owner \in Owners
  BY FleetInvParts DEF ContainerInv, TableInv, ContainerState
<1>a. AddressesAreOfBridges
  BY DEF ClaimInv, OffersAreSettled, AddressesAreOfBridges
<1>b. ClaimsFollow
  BY RequestsQuiet
<1>c. Prewarm \in Owners /\ \A t \in Tasks : t # NoTask
  BY TaskStateAssumption DEF Owners
<1>1. ASSUME NEW pc, NEW ip,
             \A t \in Tasks \ {u} : container'[t] = container[t],
             container'[u].pc = pc, container'[u].ip = ip,
             ip # "unknown" => pc \in {"running", "serving", "stopping"},
             Settled(u) => pc = "stopped" \/ ip = "settled",
             pc = "stopped" \/ container[u].pc \notin {"boot", "stopped"} \/ ~PutsPrewarmed(u)
      PROVE  SettledLast /\ AddressesAreOfBridges' /\ PutsFollow
  <2>1. SettledLast
    BY <1>1 DEF SettledLast, Settled, IsStopped
  <2>2. AddressesAreOfBridges'
    BY <1>1, <1>a DEF AddressesAreOfBridges
  <2>3. \A t \in Tasks : PutsPrewarmed(t) /\ container[t].pc \in {"boot", "stopped"}
                            => container'[t].pc \in {"boot", "stopped"}
    BY <1>1
  <2>4. QED
    BY <2>1, <2>2, <2>3, PutsQuiet DEF prewarmVars
\* The container ends.
<1>2. ASSUME container' = [container EXCEPT ![u] = Ended(container[u])]
      PROVE  SettledLast /\ AddressesAreOfBridges' /\ PutsFollow
  <2>1. container'[u].pc = "stopped" /\ container'[u].ip = "unknown"
    BY <1>0, <1>2 DEF Ended, Unborn
  <2>2. \A t \in Tasks \ {u} : container'[t] = container[t]
    BY <1>0, <1>2
  <2>3. QED
    BY <1>1, <2>1, <2>2
\* The container puts its Running row.
<1>3. ASSUME NEW ip \in BOOLEAN, NEW idle,
             PutTaskState(container[u].owner, RunningRow(u, ip, idle)),
             ~Settled(u), container[u].pc \notin {"unborn", "boot", "stopped"},
             container'[u].owner = container[u].owner,
             ip => Settled(u)'
      PROVE  RowsFollow /\ OffersFollow
  <2>1. taskState' = [taskState EXCEPT ![container[u].owner] = RunningRow(u, ip, idle)]
    BY <1>3 DEF PutTaskState
  <2>2. RunningRow(u, ip, idle).task = u /\ RunningRow(u, ip, idle).ip = ip
    BY DEF RunningRow, FreshRow, NoRow
  <2>3. RowsFollow
    BY <1>0, <1>3, <2>1, <2>2 DEF RowsFollow, Owners
  <2>4. OffersFollow
    BY <1>0, <1>c, <1>3, <2>1, <2>2 DEF OffersFollow, Offered, Reachable
  <2>5. QED
    BY <2>3, <2>4
<1>4. ASSUME UNCHANGED taskState
      PROVE  RowsFollow /\ OffersFollow
  BY <1>4, RowsQuiet
<1>5. CASE Boot(u) /\ ~PutIsDue(u)
  <2>1. /\ \A t \in Tasks \ {u} : container'[t] = container[t]
        /\ container'[u].pc = "bridge" /\ container'[u].ip = container[u].ip
        /\ container[u].pc = "boot"
    BY <1>0, <1>5 DEF Boot, ContainerState
  <2>2. ~PutsPrewarmed(u)
    BY <1>5 DEF PutIsDue, PutsPrewarmed
  <2>3. container[u].ip = "unknown" /\ ~Settled(u)
    BY <1>a, <2>1 DEF AddressesAreOfBridges, Settled, IsStopped
  <2>4. SettledLast /\ AddressesAreOfBridges' /\ PutsFollow
    BY <1>1, <2>1, <2>2, <2>3
  <2>5. QED
    BY <1>4, <1>5, <1>b, <2>4 DEF Boot, StepRules
<1>6. CASE PutRunning(u)
  <2>1. /\ \A t \in Tasks \ {u} : container'[t] = container[t]
        /\ container'[u].pc = "running" /\ container'[u].ip = "discovering"
        /\ container'[u].owner = container[u].owner
        /\ container[u].pc = "bridge"
    BY <1>0, <1>6 DEF PutRunning, ContainerState
  <2>2. ~Settled(u)
    BY <1>a, <2>1 DEF AddressesAreOfBridges, Settled, IsStopped
  <2>3. SettledLast /\ AddressesAreOfBridges' /\ PutsFollow
    BY <1>1, <2>1, <2>2
  <2>4. RowsFollow /\ OffersFollow
    BY <1>3, <1>6, <2>1, <2>2 DEF PutRunning
  <2>5. QED
    BY <1>b, <2>3, <2>4 DEF StepRules
<1>7. CASE PutAddress(u) \/ NoAddress(u)
  <2>1. /\ \A t \in Tasks \ {u} : container'[t] = container[t]
        /\ container'[u].pc = container[u].pc /\ container'[u].ip = "settled"
        /\ container'[u].owner = container[u].owner
        /\ container[u].ip = "discovering" /\ container[u].pc \in Alive
    <3>1. /\ container[u].pc \in Alive /\ container[u].ip = "discovering"
          /\ container' = [container EXCEPT ![u].ip = "settled"]
      BY <1>7 DEF PutAddress, NoAddress, IsAlive
    <3>2. QED
      BY <1>0, <3>1 DEF ContainerState
  <2>2. container[u].pc \in {"running", "serving", "stopping"} /\ ~Settled(u) /\ Settled(u)'
    BY <1>a, <2>1 DEF AddressesAreOfBridges, Settled, IsStopped, Alive, Listening
  <2>3. SettledLast /\ AddressesAreOfBridges' /\ PutsFollow
    BY <1>1, <2>1, <2>2
  <2>4. RowsFollow /\ OffersFollow
    <3>1. CASE PutAddress(u)
      BY <1>3, <2>1, <2>2, <3>1 DEF PutAddress
    <3>2. CASE NoAddress(u)
      BY <1>4, <3>2 DEF NoAddress
    <3>3. QED
      BY <1>7, <3>1, <3>2
  <2>5. QED
    BY <1>b, <2>3, <2>4 DEF StepRules
<1>8. CASE Serve(u)
  <2>1. /\ \A t \in Tasks \ {u} : container'[t] = container[t]
        /\ container'[u].pc = "serving" /\ container'[u].ip = container[u].ip
        /\ container[u].pc = "running"
    BY <1>0, <1>8 DEF Serve, ContainerState
  <2>2. SettledLast /\ AddressesAreOfBridges' /\ PutsFollow
    BY <1>1, <2>1 DEF Settled, IsStopped
  <2>3. QED
    BY <1>4, <1>8, <1>b, <2>2 DEF Serve, StepRules
<1>9. CASE GatewayExits(u)
  <2>1. CASE container[u].pc = "serving"
    <3>1. /\ \A t \in Tasks \ {u} : container'[t] = container[t]
          /\ container'[u].pc = "stopping" /\ container'[u].ip = container[u].ip
      BY <1>0, <1>9, <2>1 DEF GatewayExits, ContainerState
    <3>2. SettledLast /\ AddressesAreOfBridges' /\ PutsFollow
      BY <1>1, <2>1, <3>1 DEF Settled, IsStopped
    <3>3. QED
      BY <1>4, <1>9, <1>b, <3>2 DEF GatewayExits, StepRules
  <2>2. CASE container[u].pc # "serving"
    <3>1. container' = [container EXCEPT ![u] = Ended(container[u])]
      BY <1>9, <2>2 DEF GatewayExits
    <3>2. QED
      BY <1>2, <1>4, <1>9, <1>b, <3>1 DEF GatewayExits, StepRules
  <2>3. QED
    BY <2>1, <2>2
<1>10. CASE PutIdle(u)
  <2>1. IdleRow.task = NoTask
    BY DEF IdleRow, NoRow
  <2>2. RowsFollow /\ OffersFollow
    BY <1>0, <1>10, <2>1, RowsQuiet DEF PutIdle, PutTaskState
  <2>3. QED
    BY <1>2, <1>10, <1>b, <2>2 DEF PutIdle, StepRules
<1>11. CASE Crash(u)
  BY <1>2, <1>4, <1>11, <1>b DEF Crash, StepRules
<1>12. QED
  BY <1>5, <1>6, <1>7, <1>8, <1>9, <1>10, <1>11

\* A task is started for o.
LEMMA RunRules ==
  ASSUME FleetInv, ClaimInv, NEW t \in Tasks, NEW o \in Owners, RunTask(t, o)
  PROVE  /\ SettledLast /\ AddressesAreOfBridges'
         /\ container[t].pc = "unborn" /\ container'[t].pc = "boot"
         /\ \A x \in Tasks \ {t} : container'[x] = container[x]
<1>1. container \in [Tasks -> ContainerState]
  BY FleetInvParts DEF ContainerInv
<1>2. /\ container[t].pc = "unborn" /\ container'[t].pc = "boot" /\ container'[t].ip = "unknown"
      /\ \A x \in Tasks \ {t} : container'[x] = container[x]
  BY <1>1 DEF RunTask, Unborn
<1>3. ~Settled(t)
  BY <1>2, UnbornUnknown
<1>4. QED
  BY <1>2, <1>3 DEF SettledLast, Settled, IsStopped, AddressesAreOfBridges, ClaimInv, OffersAreSettled

LEMMA GatewayRules ==
  ASSUME FleetInv, ClaimInv, NEW m \in Msgs, GatewayRuns(m)
  PROVE  StepRules
<1>0. /\ RequestInv /\ req \in [Msgs -> Request]
      /\ taskState \in [Owners -> Row]
      /\ req[m].warm \in Row
      /\ UserOf[m] \in Users /\ Users \subseteq Owners /\ Prewarm \in Owners
      /\ prewarm' = prewarm
  BY FleetInvParts, RouterAssumption DEF RequestInv, TableInv, Request, Owners, GatewayRuns, prewarmVars
<1>1. ASSUME UNCHANGED container
      PROVE  SettledLast /\ AddressesAreOfBridges' /\ PutsFollow
  BY <1>0, <1>1, ContainersQuiet, PutsQuiet
<1>2. ASSUME UNCHANGED taskState
      PROVE  RowsFollow /\ OffersFollow
  BY <1>2, RowsQuiet
<1>3. ASSUME NEW o \in Owners, DeleteTaskState(o)
      PROVE  RowsFollow /\ OffersFollow
  BY <1>0, <1>3, RowsQuiet DEF DeleteTaskState, PutTaskState, NoRow
<1>4. ASSUME NEW pc \in PCs \ {"sendPrewarm", "claimDelete", "claimPut"}, Goto(m, pc)
      PROVE  ClaimsFollow
  <2>1. [req[m] EXCEPT !.pc = pc].pc = pc
    BY <1>0 DEF Request
  <2>2. QED
    BY <1>0, <1>4, <2>1, RequestsAreQuiet DEF Goto
<1>5. ASSUME NEW result, Finish(m, result)
      PROVE  ClaimsFollow
  <2>1. [NewRequest EXCEPT !.pc = "done", !.task = req[m].task, !.result = result].pc = "done"
    BY DEF NewRequest
  <2>2. QED
    BY <1>0, <1>5, <2>1, RequestsAreQuiet DEF Finish
<1>6. CASE ReadTask(m)
  <2> DEFINE r == GetTaskState(UserOf[m])
             pc == CASE Reachable(r) -> "send"
                     [] r = NoRow -> "readPrewarm"
                     [] OTHER -> "save"
             q == [req[m] EXCEPT !.row = r, !.pc = pc]
  <2>1. pc \notin {"sendPrewarm", "claimDelete", "claimPut"}
    OBVIOUS
  <2> HIDE DEF r, pc
  <2>2. req' = [req EXCEPT ![m] = q]
    <3>1. req' = [req EXCEPT ![m].row = r, ![m].pc = pc]
      BY <1>6, Zenon DEF ReadTask, r, pc
    <3>2. QED
      BY <1>0, <3>1
  <2>3. q.pc = pc
    BY <1>0 DEF Request
  <2>4. ClaimsFollow
    BY <1>0, <2>1, <2>2, <2>3, RequestsAreQuiet
  <2>5. QED
    BY <1>1, <1>2, <1>6, <2>4 DEF ReadTask, fleetVars, StepRules
<1>7. CASE ReadPrewarm(m)
  <2> DEFINE r == GetTaskState(Prewarm)
             pc == IF Reachable(r) THEN "sendPrewarm" ELSE "save"
             q == [req[m] EXCEPT !.warm = r, !.pc = pc]
  <2>1. \A t \in Tasks : Reachable(r) /\ r.task = t => Offered(t)
    BY DEF GetTaskState, Offered, Reachable, NoRow
  <2>2. pc \in {"sendPrewarm", "save"} /\ (pc = "sendPrewarm" => Reachable(r))
    OBVIOUS
  <2> HIDE DEF r, pc
  <2>3. req' = [req EXCEPT ![m] = q]
    BY <1>7, <1>0 DEF ReadPrewarm, r, pc
  <2>4. q.pc = pc /\ q.warm = r
    BY <1>0 DEF Request
  <2> HIDE DEF q
  <2>5. ClaimsFollow
    BY <1>0, <2>1, <2>2, <2>3, <2>4 DEF ClaimsFollow, Claims, Takes, At
  <2>6. QED
    BY <1>1, <1>2, <1>7, <2>5 DEF ReadPrewarm, fleetVars, StepRules
<1>8. CASE SendPrewarmOk(m)
  <2>1. /\ [req[m] EXCEPT !.pc = "claimDelete"].pc = "claimDelete"
        /\ [req[m] EXCEPT !.pc = "claimDelete"].warm = req[m].warm
    BY <1>0 DEF Request
  <2>2. ClaimsFollow
    BY <1>0, <1>8, <2>1, RequestsAreQuiet DEF SendPrewarmOk, Goto
  <2>3. QED
    BY <1>1, <1>2, <1>8, <2>2 DEF SendPrewarmOk, fleetVars, StepRules
<1>9. CASE ClaimDelete(m)
  <2>1. req' = [req EXCEPT ![m].pc = "claimPut"] /\ At(m, "claimDelete")
    BY <1>9 DEF ClaimDelete, Goto
  <2>2. taskState'[Prewarm].task = NoTask
    BY <1>0, <1>9 DEF ClaimDelete, DeleteTaskState, PutTaskState, NoRow
  <2>3. \A n \in Msgs : req'[n].warm = req[n].warm /\ (n # m => req'[n] = req[n])
    BY <1>0, <2>1 DEF Request
  <2>4. ClaimsFollow
    BY <2>1, <2>2, <2>3 DEF ClaimsFollow, Claims, Takes, At
  <2>5. QED
    BY <1>0, <1>1, <1>3, <1>9, <2>4 DEF ClaimDelete, StepRules
<1>10. CASE ClaimPut(m)
  <2> DEFINE r == ClaimedRow(req[m].warm)
  <2>1. r.task = req[m].warm.task
    BY <1>0 DEF ClaimedRow, Row
  <2>2. taskState' = [taskState EXCEPT ![UserOf[m]] = r] /\ At(m, "claimPut")
    BY <1>10 DEF ClaimPut, PutTaskState
  <2> HIDE DEF r
  <2>3. RowsFollow
    BY <1>0, <2>1, <2>2 DEF RowsFollow, Takes
  <2>4. OffersFollow
    BY <1>0, <2>2, TaskStateAssumption DEF OffersFollow, Offered
  <2>5. QED
    BY <1>1, <1>5, <1>10, <2>3, <2>4 DEF ClaimPut, StepRules
<1>11. CASE PutStarting(m)
  <2> DEFINE r == FreshRow("Starting", req[m].task)
  <2>1. r.task = req[m].task
    BY DEF FreshRow, NoRow
  <2>2. taskState' = [taskState EXCEPT ![UserOf[m]] = r] /\ container' = container
    BY <1>11 DEF PutStarting, PutTaskState
  <2> HIDE DEF r
  <2>3. \A t \in Tasks : req[m].task = t => container'[t].owner = UserOf[m]
    BY <1>0, <2>2, TaskStateAssumption DEF RequestInv, StartedFor
  <2>4. RowsFollow
    BY <1>0, <2>1, <2>2, <2>3 DEF RowsFollow
  <2>5. OffersFollow
    BY <1>0, <2>2, TaskStateAssumption DEF OffersFollow, Offered
  <2>6. QED
    BY <1>1, <1>5, <1>11, <2>4, <2>5 DEF PutStarting, StepRules
<1>12. CASE SendOk(m) \/ SendFails(m) \/ SendPrewarmFails(m) \/ ClaimFails(m) \/ RequestFails(m)
  <2>1. ClaimsFollow
    BY <1>4, <1>5, <1>12 DEF SendOk, SendFails, SendPrewarmFails, ClaimFails, RequestFails, PCs
  <2>2. QED
    BY <1>1, <1>2, <1>12, <2>1
       DEF SendOk, SendFails, SendPrewarmFails, ClaimFails, RequestFails, fleetVars, StepRules
<1>13. CASE Save(m)
  <2>1. ClaimsFollow
    BY <1>4, <1>5, <1>13 DEF Save, AfterSave, PCs
  <2>2. QED
    BY <1>1, <1>2, <1>13, <2>1 DEF Save, fleetVars, StepRules
<1>14. CASE DeleteStale(m)
  <2>1. ClaimsFollow
    BY <1>4, <1>14 DEF DeleteStale, PCs
  <2>2. QED
    BY <1>0, <1>1, <1>3, <1>14, <2>1 DEF DeleteStale, StepRules
<1>15. ASSUME NEW t \in Tasks, StartTask(m, t)
       PROVE  StepRules
  <2>1. /\ SettledLast /\ AddressesAreOfBridges'
        /\ container[t].pc = "unborn" /\ container'[t].pc = "boot"
        /\ \A x \in Tasks \ {t} : container'[x] = container[x]
    BY <1>0, <1>15, RunRules DEF StartTask
  <2>2. PutsFollow
    BY <1>0, <2>1, PutsQuiet
  <2> DEFINE q == [req[m] EXCEPT !.pc = "put", !.task = t]
  <2>3. req' = [req EXCEPT ![m] = q] /\ q.pc = "put"
    BY <1>0, <1>15 DEF StartTask, Request
  <2> HIDE DEF q
  <2>4. ClaimsFollow
    BY <1>0, <2>3, RequestsAreQuiet
  <2>5. QED
    BY <1>2, <1>15, <2>1, <2>2, <2>4 DEF StartTask, StepRules
<1>16. QED
  BY <1>6, <1>7, <1>8, <1>9, <1>10, <1>11, <1>12, <1>13, <1>14, <1>15 DEF GatewayRuns, RouterStep

LEMMA WatchdogRules ==
  ASSUME FleetInv, ClaimInv, WatchdogStep \/ WatchdogFails, UNCHANGED <<req, prewarmVars>>
  PROVE  StepRules
<1>0. /\ container \in [Tasks -> ContainerState]
      /\ taskState \in [Owners -> Row]
      /\ watch.at \in Owners
  BY FleetInvParts DEF ContainerInv, TableInv, WatchInv, Knows, Watch
<1>a. \/ StopInactive \/ \E t \in Tasks : StopOrphan(t)
      \/ DeleteTaskState(watch.at) /\ UNCHANGED container
      \/ UNCHANGED <<taskState, container>>
  <2>1. ASSUME NEW o \in Owners, PassOver(o) \/ FindGone(o) \/ FindInactive(o)
        PROVE  UNCHANGED <<taskState, container>>
    BY <2>1 DEF PassOver, FindGone, FindInactive, fleetVars
  <2>2. CASE Scan \/ ListOrphans \/ EndSweep \/ WatchdogFails
    <3>1. Scan => UNCHANGED fleetVars
      BY DEF Scan
    <3>2. ListOrphans => UNCHANGED fleetVars
      BY DEF ListOrphans
    <3>3. EndSweep => UNCHANGED fleetVars
      BY DEF EndSweep
    <3>4. WatchdogFails => UNCHANGED fleetVars
      BY DEF WatchdogFails
    <3>5. UNCHANGED fleetVars
      BY <2>2, <3>1, <3>2, <3>3, <3>4
    <3>6. QED
      BY <3>5 DEF fleetVars
  <2>3. CASE DeleteRow
    BY <2>3 DEF DeleteRow
  <2>4. QED
    BY <2>1, <2>2, <2>3 DEF WatchdogStep
<1>1. \A t \in Tasks : container'[t].pc = container[t].pc /\ container'[t].ip = container[t].ip
  <2>1. ASSUME NEW x, StopTask(x)
        PROVE  \A t \in Tasks : container'[t].pc = container[t].pc /\ container'[t].ip = container[t].ip
    <3>1. PICK b : container' = [container EXCEPT ![x].condemned = b]
      BY <1>0, <2>1 DEF StopTask
    <3>2. QED
      BY <1>0, <3>1 DEF ContainerState
  <2>2. CASE StopInactive \/ \E t \in Tasks : StopOrphan(t)
    BY <2>1, <2>2 DEF StopInactive, StopOrphan
  <2>3. CASE UNCHANGED container
    BY <2>3
  <2>4. QED
    BY <1>a, <2>2, <2>3
<1>2. UNCHANGED taskState \/ DeleteTaskState(watch.at)
  BY <1>a DEF StopInactive, StopOrphan
<1>3. RowsFollow /\ OffersFollow
  BY <1>0, <1>2, RowsQuiet DEF DeleteTaskState, PutTaskState, NoRow
<1>4. SettledLast /\ AddressesAreOfBridges' /\ PutsFollow
  BY <1>1, ContainersQuiet, PutsQuiet DEF prewarmVars
<1>5. QED
  BY <1>3, <1>4, RequestsQuiet DEF StepRules

LEMMA PrewarmRules ==
  ASSUME FleetInv, ClaimInv, PrewarmStep \/ PrewarmFails, UNCHANGED req
  PROVE  StepRules
<1>0. /\ taskState \in [Owners -> Row]
      /\ Prewarm \in Owners
      /\ prewarm \in PrewarmState /\ prewarm.at \in Owners
      /\ PrewarmIdle.pc = "idle"
  BY FleetInvParts DEF TableInv, PrewarmInv, PrewarmTypeOK, PrewarmState, PrewarmIdle, Owners
<1>1. ASSUME UNCHANGED container, prewarm'.pc # "put"
      PROVE  SettledLast /\ AddressesAreOfBridges' /\ PutsFollow
  BY <1>1, ContainersQuiet, PutsQuiet
<1>2. CASE PrewarmScan \/ PrewarmFails
  <2>1. prewarm'.pc # "put" /\ UNCHANGED fleetVars
    <3>1. CASE PrewarmScan
      <4> DEFINE active == {o \in Owners : IsActive(taskState[o])}
                 runs   == [PrewarmIdle EXCEPT !.pc = "run"]
                 looks(o) == [PrewarmIdle EXCEPT !.pc = "update", !.at = o]
      <4>1. /\ prewarm' = runs \/ \E o \in active : prewarm' = looks(o)
            /\ UNCHANGED fleetVars
        BY <3>1, Zenon DEF PrewarmScan
      <4>2. runs.pc = "run" /\ \A o : looks(o).pc = "update"
        BY DEF PrewarmIdle
      <4> HIDE DEF active, runs, looks
      <4>3. QED
        BY <4>1, <4>2
    <3>2. CASE PrewarmFails
      BY <1>0, <3>2 DEF PrewarmFails
    <3>3. QED
      BY <1>2, <3>1, <3>2
  <2>2. QED
    BY <1>1, <2>1, RowsQuiet, RequestsQuiet DEF fleetVars, StepRules
<1>3. CASE PrewarmUpdate
  <2> DEFINE old == taskState[prewarm.at]
             r == Protect(old)
  <2>1. taskState' = [taskState EXCEPT ![prewarm.at] = r]
    BY <1>3 DEF PrewarmUpdate, PutTaskState
  <2>2. r.task = NoTask \/ (r.task = old.task /\ (Reachable(r) => Reachable(old)))
    <3>1. old \in Row
      BY <1>0
    <3> HIDE DEF old
    <3>2. r \in {[NoRow EXCEPT !.status = "Partial"], [old EXCEPT !.idle = 0, !.warm = WarmFor], old}
      BY DEF Protect
    <3>3. [NoRow EXCEPT !.status = "Partial"].task = NoTask
      BY DEF NoRow
    <3>4. /\ [old EXCEPT !.idle = 0, !.warm = WarmFor].task = old.task
          /\ [old EXCEPT !.idle = 0, !.warm = WarmFor].status = old.status
          /\ [old EXCEPT !.idle = 0, !.warm = WarmFor].ip = old.ip
      BY <3>1 DEF Row
    <3>5. QED
      BY <3>2, <3>3, <3>4 DEF Reachable
  <2> HIDE DEF r
  <2>3. RowsFollow /\ OffersFollow
    BY <1>0, <2>1, <2>2, RowsQuiet
  <2>4. QED
    BY <1>0, <1>1, <1>3, <2>3, RequestsQuiet DEF PrewarmUpdate, StepRules
<1>4. ASSUME NEW t \in Tasks, PrewarmRun(t)
      PROVE  StepRules
  <2>1. /\ SettledLast /\ AddressesAreOfBridges'
        /\ container[t].pc = "unborn" /\ container'[t].pc = "boot"
    BY <1>0, <1>4, RunRules DEF PrewarmRun
  <2>2. prewarm'.task = t
    BY <1>0, <1>4 DEF PrewarmRun, PrewarmState
  <2>3. PutsFollow
    BY <2>1, <2>2 DEF PutsFollow, PutsPrewarmed
  <2>4. QED
    BY <1>4, <2>1, <2>3, RowsQuiet, RequestsQuiet DEF PrewarmRun, StepRules
<1>5. CASE PrewarmPut
  <2> DEFINE r == [FreshRow("Starting", prewarm.task) EXCEPT !.warm = WarmFor]
  <2>1. r.task = prewarm.task /\ r.status = "Starting"
    BY DEF FreshRow, NoRow
  <2>2. taskState' = [taskState EXCEPT ![Prewarm] = r]
    BY <1>5 DEF PrewarmPut, PutTaskState
  <2> HIDE DEF r
  <2>3. prewarm.pc = "put" /\ prewarm'.pc # "put" /\ UNCHANGED container
    BY <1>0, <1>5 DEF PrewarmPut
  <2>4. RowsFollow
    BY <1>0, <2>1, <2>2, <2>3 DEF RowsFollow, PutsPrewarmed
  <2>5. OffersFollow
    BY <1>0, <2>1, <2>2 DEF OffersFollow, Offered, Reachable
  <2>6. QED
    BY <1>1, <2>3, <2>4, <2>5, RequestsQuiet DEF StepRules
<1>6. QED
  BY <1>2, <1>3, <1>4, <1>5 DEF PrewarmStep

LEMMA TickRules ==
  ASSUME FleetInv, ClaimInv, Tick
  PROVE  StepRules
<1>0. /\ ContainerInv /\ TableInv
      /\ UNCHANGED <<req, prewarm>> /\ TimePasses
  BY FleetInvParts DEF Tick, prewarmVars
<1>1. \A t \in Tasks : container'[t].pc = container[t].pc /\ container'[t].ip = container[t].ip
  BY <1>0 DEF TimePasses, AgedContainer, ContainerInv, ContainerState
<1>2. \A o \in Owners : /\ taskState'[o].task = taskState[o].task
                        /\ taskState'[o].status = taskState[o].status
                        /\ taskState'[o].ip = taskState[o].ip
  <2>1. ASSUME NEW r \in Row
        PROVE  AgedRow(r).task = r.task /\ AgedRow(r).status = r.status /\ AgedRow(r).ip = r.ip
    <3> DEFINE warm == IF r.warm = 0 THEN 0 ELSE r.warm - 1
    <3>1. AgedRow(r) = IF IsActive(r)
                       THEN [r EXCEPT !.age = Older(r.age), !.idle = Older(r.idle), !.warm = warm]
                       ELSE r
      BY DEF AgedRow
    <3> HIDE DEF warm
    <3>2. QED
      BY <3>1 DEF Row
  <2>2. QED
    BY <1>0, <2>1 DEF TimePasses, TableInv
<1>3. QED
  BY <1>0, <1>1, <1>2, ContainersQuiet, RowsQuiet, RequestsQuiet, PutsQuiet DEF Reachable, StepRules

LEMMA ClaimsInit == ClaimInit => ClaimInv
<1> SUFFICES ASSUME ClaimInit
             PROVE  ClaimInv
  OBVIOUS
<1>1. FleetInv
  BY FleetInit DEF ClaimInit
<1>2. /\ \A t \in Tasks : container[t].pc = "unborn" /\ container[t].ip = "unknown" /\ t # NoTask
      /\ \A o \in Owners : taskState[o].task = NoTask
      /\ \A m \in Msgs : req[m].pc = "new"
      /\ prewarm.pc = "idle"
      /\ Prewarm \in Owners /\ Users \subseteq Owners
  BY TaskStateAssumption
     DEF ClaimInit, Init, TaskStateInit, RouterInit, PrewarmInit, Unborn, NoRow, NewRequest,
         PrewarmIdle, Owners
<1>3. OffersAreSettled /\ PutIsFirst /\ TakenOnce
  BY <1>2 DEF OffersAreSettled, PutIsFirst, TakenOnce, Taken, Claims, At
<1>4. QED
  BY <1>1, <1>3 DEF ClaimInv

LEMMA ClaimInvStep == ClaimInv /\ [ClaimNext]_claimVars => ClaimInv'
<1> SUFFICES ASSUME ClaimInv, [ClaimNext]_claimVars
             PROVE  ClaimInv'
  OBVIOUS
<1>0. FleetInv
  BY DEF ClaimInv
<1>1. FleetInv'
  BY <1>0, FleetStep DEF ClaimNext, claimVars
<1>2. CASE UNCHANGED claimVars
  <2>1. OffersAreSettled' /\ PutIsFirst' /\ TakenOnce'
    BY <1>2 DEF claimVars, vars, fleetVars, prewarmVars, ClaimInv, OffersAreSettled, PutIsFirst,
                TakenOnce, Taken, Claims, At, Settled, IsStopped, Reachable
  <2>2. QED
    BY <1>1, <2>1 DEF ClaimInv
<1>3. CASE ClaimNext
  <2>1. PrewarmInv'
    BY <1>1, FleetInvParts, PTL
  <2>2. ContainersLast /\ StepRules
    <3>1. ASSUME NEW m \in Msgs, GatewayRuns(m)
          PROVE  ContainersLast /\ StepRules
      BY <1>0, <3>1, GatewaySteps, GatewayRules
    <3>2. ASSUME NEW t \in Tasks,
                 BridgeBoots(t) \/ BridgePuts(t) \/ BridgeServes(t) \/ BridgeEnds(t)
          PROVE  ContainersLast /\ StepRules
      <4>1. /\ UNCHANGED <<req, prewarmVars>>
            /\ \/ Boot(t) /\ ~PutIsDue(t)
               \/ PutRunning(t) \/ PutAddress(t) \/ NoAddress(t) \/ Serve(t) \/ PutIdle(t)
               \/ GatewayExits(t) \/ Crash(t)
        BY <3>2 DEF BridgeBoots, BridgePuts, BridgeServes, BridgeEnds
      <4>2. BridgeStep(t)
        BY <4>1 DEF BridgeStep
      <4>3. QED
        BY <1>0, <4>1, <4>2, FleetInvParts, BridgesGetOn, BridgeRules
    <3>3. CASE WatchdogRuns \/ WatchdogEnds
      BY <1>0, <3>3, WatchdogSteps, WatchdogRules DEF WatchdogRuns, WatchdogEnds
    <3>4. CASE PrewarmRuns
      BY <1>0, <3>4, PrewarmSteps, PrewarmRules DEF PrewarmRuns
    <3>5. CASE Tick
      BY <1>0, <3>5, FleetInvParts, TableAges, TickRules DEF Tick
    <3>6. QED
      BY <1>3, <3>1, <3>2, <3>3, <3>4, <3>5 DEF ClaimNext, Next
  <2>3. QED
    BY <1>0, <1>1, <1>3, <2>1, <2>2, ClaimsStep DEF ClaimNext, ClaimInv
<1>4. QED
  BY <1>2, <1>3

\* ClaimInv is an invariant: what is claimed stays settled, and is offered no more.
THEOREM ClaimInvariance == ClaimSpec => []ClaimInv
BY ClaimsInit, ClaimInvStep, PTL DEF ClaimSpec

\* No user's row leads to a container of another, for any number of users and tasks: not
\* to one started for another, and to a prewarmed one that another has claimed only if
\* both had read its row before either deleted it.
THEOREM ContainersAreOwn == ClaimSpec => []OwnContainersOnly
<1>1. ClaimInv => OwnContainersOnly
  <2> SUFFICES ASSUME ClaimInv
               PROVE  OwnContainersOnly
    OBVIOUS
  <2>1. RowsNameOwnTasks
    BY DEF ClaimInv, FleetInv
  <2>2. ASSUME NEW t \in Tasks, Shared(t)
        PROVE  t \in doubled
    <3>1. PICK o \in Users, p \in Users : o # p /\ taskState[o].task = t /\ taskState[p].task = t
      BY <2>2 DEF Shared
    <3>2. container[t].owner = Prewarm
      BY <2>1, <3>1, TaskStateAssumption DEF RowsNameOwnTasks, NamesOwnTask, MayName, Owners
    <3>3. Taken(t, o) /\ Taken(t, p)
      BY <3>1, <3>2 DEF Taken
    <3>4. QED
      BY <3>1, <3>3 DEF ClaimInv, TakenOnce
  <2>3. QED
    BY <2>1, <2>2 DEF OwnContainersOnly, SharedWasClaimedTwice
<1>2. QED
  BY <1>1, ClaimInvariance, PTL
=============================================================================
