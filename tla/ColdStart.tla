------------------------------ MODULE ColdStart ------------------------------
(***************************************************************************)
(* From a user's message to its answer when no container is running: the   *)
(* gateway's requests, the containers they start, and the PendingMessages  *)
(* table between them.  Each container drains the table once, after its    *)
(* row says Running and before it serves.  The watchdog and the prewarm    *)
(* handler are in TaskFleet.                                               *)
(***************************************************************************)
EXTENDS FargateRouter, FargateContainer

CONSTANT Prewarmed   \* tasks that are prewarmed when the messages come

ASSUME PrewarmedAssumption == Prewarmed \subseteq Tasks
ASSUME TasksAssumption == IsFiniteSet(Tasks)

vars == <<fleetVars, req, pendingVars>>

PrewarmedContainer ==
  [Unborn(Prewarm) EXCEPT !.pc = "serving", !.ip = "settled"]

\* The prewarm row names one of the prewarmed containers, if there is any.
Init ==
  /\ RouterInit
  /\ container = [t \in Tasks |-> IF t \in Prewarmed THEN PrewarmedContainer ELSE Unborn(Prewarm)]
  /\ \E r \in (IF Prewarmed = {} THEN {NoRow}
               ELSE {[FreshRow("Running", t) EXCEPT !.ip = TRUE] : t \in Prewarmed}) :
       taskState = [o \in Owners |-> IF o = Prewarm THEN r ELSE NoRow]

-----------------------------------------------------------------------------

GatewayRuns(m) == RouterStep(m) \/ RequestFails(m)

\* A Lambda that started a task is over when the task is provisioned.
BridgeBoots(t) ==
  /\ Boot(t)
  /\ ~\E m \in Msgs : At(m, "put") /\ req[m].task = t
  /\ UNCHANGED <<req, pendingVars>>

BridgeRuns(t) ==
  /\ PutRunning(t) \/ PutAddress(t) \/ NoAddress(t) \/ PutIdle(t)
  /\ UNCHANGED <<req, pendingVars>>

BeginDrain(t) ==
  /\ container[t].pc = "running"
  /\ Queue!Query(t, container[t].owner)
  /\ UNCHANGED <<fleetVars, req>>

DrainOne(t) ==
  /\ container[t].pc = "running"
  /\ \E m \in Msgs : Queue!DrainStep(t, m)
  /\ UNCHANGED <<fleetVars, req>>

EndDrain(t) ==
  /\ Queue!EndDrain(t)
  /\ Serve(t)
  /\ UNCHANGED req

Draining(t) == drain[t].pc \in {"loop", "delete"}

BridgeEnds(t) ==
  /\ GatewayExits(t) \/ Crash(t)
  /\ IF Draining(t) THEN Queue!AbandonDrain(t) ELSE UNCHANGED pendingVars
  /\ UNCHANGED req

QueueAges(m) ==
  /\ Queue!Expire(m) \/ Queue!BackoffElapses(m)
  /\ UNCHANGED <<fleetVars, req>>

Next ==
  \/ \E m \in Msgs : GatewayRuns(m) \/ QueueAges(m)
  \/ \E t \in Tasks :
       \/ BridgeBoots(t)
       \/ BridgeRuns(t)
       \/ BeginDrain(t)
       \/ DrainOne(t)
       \/ EndDrain(t)
       \/ BridgeEnds(t)

Spec == Init /\ [][Next]_vars

\* OpenClaw is not up yet, or has a message to answer: neither has a timeout, and a
\* frame that is lost, or a socket that closes, lets the container wait for ever.
AwaitsOpenClaw(t) ==
  container[t].pc = "boot" \/ \E m \in Msgs : Queue!Eligible(t, m)

\* The other calls a container makes, of AWS, return.
FairSpec ==
  /\ Spec
  /\ \A t \in Tasks :
       /\ WF_vars(BridgeRuns(t))
       /\ WF_vars(~AwaitsOpenClaw(t) /\ (BeginDrain(t) \/ DrainOne(t) \/ EndDrain(t)))
  /\ \A m \in Msgs : WF_vars(GatewayRuns(m) /\ ~At(m, "new"))

-----------------------------------------------------------------------------

TypeOK == TaskStateTypeOK /\ RouterTypeOK

\* What ends the wait of a saved message: a container has processed it or tried
\* to, or its ttl has passed.
Attempted(m) == handled[m] # {} \/ failures[m] > 0 \/ m \in expired

\* The container a message has started finds the message: nothing it waits for,
\* and no other container, hides it from the one query of its drain.
StarterFindsMessage ==
  \A m \in Msgs, t \in Tasks :
    req[m].task = t /\ drain[t].pc # "idle" /\ ~IsStopped(t)
      => Attempted(m) \/ drain[t].seen[m].st # "absent"

\* A message that started a container is answered, or at least tried, unless the
\* container ends or waits for OpenClaw for ever: no interleaving with other requests,
\* whose rows overwrite the one it put, keeps the container from its message.
StarterIsServed ==
  \A m \in Msgs :
    req[m].task # NoTask ~>
      \/ Attempted(m)
      \/ \E t \in Tasks : req[m].task = t /\ (IsStopped(t) \/ []AwaitsOpenClaw(t))

\* No request starts a container, nor gives up on one it found, without having
\* put its message where a container will look for it.
UnansweredIsSaved ==
  \A m \in Msgs :
    req[m].task # NoTask \/ req[m].result \in {"queued", "started"}
      => Queue!Present(m) \/ Attempted(m)
=============================================================================
