---------------------------- MODULE PrewarmClaims ----------------------------
(***************************************************************************)
(* Whose a prewarmed container is.  A claim reads the prewarm row, sends   *)
(* the message, deletes the row and puts the user's, in four calls and     *)
(* without a condition.  What is added to TaskFleet is the memory of the   *)
(* containers that two users' requests have held at once.                  *)
(***************************************************************************)
EXTENDS TaskFleet

VARIABLE doubled   \* the containers that two users were about to claim at once

claimVars == <<vars, doubled>>

\* From the read of the prewarm row to the put of the user's.
Claims(m, t) == req[m].pc \in {"sendPrewarm", "claimDelete", "claimPut"} /\ req[m].warm.task = t

ClaimedTwice(t) == \E m, n \in Msgs : UserOf[m] # UserOf[n] /\ Claims(m, t) /\ Claims(n, t)

Remembers == doubled' = doubled \cup {t \in Tasks : ClaimedTwice(t)'}

ClaimInit == Init /\ doubled = {}

ClaimNext == Next /\ Remembers

ClaimSpec == ClaimInit /\ [][ClaimNext]_claimVars

-----------------------------------------------------------------------------

Shared(t) == \E o, p \in Users : o # p /\ taskState[o].task = t /\ taskState[p].task = t

\* The rows of two users name one container only if both had read the prewarm row before
\* either deleted it.
SharedWasClaimedTwice == \A t \in Tasks \ doubled : ~Shared(t)

\* No user's row leads to the container of another, whoever was overwritten by whom: not
\* to one started for another, and to one that another has claimed only if their claims
\* overlapped.  A container that has been claimed is never offered again, whatever row of
\* it comes late or is put again.
OwnContainersOnly == RowsNameOwnTasks /\ SharedWasClaimedTwice

\* A container that puts no row any more but an idle one.
Settled(t) == IsStopped(t) \/ container[t].ip = "settled"

\* A prewarmed container is a user's when his row names it or is about to.
Taken(t, o) ==
  /\ container[t].owner = Prewarm
  /\ \/ taskState[o].task = t
     \/ \E m \in Msgs : UserOf[m] = o /\ At(m, "claimPut") /\ req[m].warm.task = t

\* Only a container that is settled is offered or claimed.
OffersAreSettled ==
  /\ \A t \in Tasks : container[t].ip # "unknown" => container[t].pc \in {"running", "serving", "stopping"}
  /\ \A t \in Tasks : Reachable(taskState[Prewarm]) /\ taskState[Prewarm].task = t => Settled(t)
  /\ \A t \in Tasks, m \in Msgs : Claims(m, t) => Settled(t)

\* Nobody knows a container whose first row has still to be put.
PutIsFirst ==
  \A t \in Tasks : prewarm.pc = "put" /\ prewarm.task = t =>
    /\ container[t].pc \in {"boot", "stopped"}
    /\ \A o \in Owners : taskState[o].task # t
    /\ \A m \in Msgs : ~Claims(m, t)

\* What is taken is not offered, and claimed or taken by another only if it was claimed
\* by two at once.
TakenOnce ==
  \A t \in Tasks, o \in Users : Taken(t, o) =>
    /\ Settled(t)
    /\ taskState[Prewarm].task # t
    /\ \A m \in Msgs : Claims(m, t) /\ UserOf[m] # o => t \in doubled
    /\ \A p \in Users : Taken(t, p) /\ p # o => t \in doubled

\* The inductive invariant behind OwnContainersOnly.
ClaimInv == FleetInv /\ OffersAreSettled /\ PutIsFirst /\ TakenOnce
=============================================================================
