--------------------------- MODULE PendingMessages ---------------------------
(***************************************************************************)
(* The PendingMessages table and its only reader,                          *)
(* packages/container/src/pending-messages.ts.  The gateway saves a        *)
(* message that no container can take yet; every container start drains    *)
(* the table once, from a snapshot it queried: it processes the eligible   *)
(* items in key order, deletes what succeeded and marks what failed with   *)
(* either a retry time or a dead letter.  DynamoDB's TTL removes whole     *)
(* items on its own.                                                       *)
(*                                                                         *)
(* A message is a number: the order of numbers is the order of the sort    *)
(* keys MSG#<timestamp>#<uuid>.  A consumer is one container start.        *)
(***************************************************************************)
EXTENDS Naturals, FiniteSets

CONSTANTS
  Users,        \* owners of messages
  Msgs,         \* messages, as numbers in sort-key order
  UserOf,       \* the user (partition key) each message belongs to
  Consumers,    \* container starts, each of which drains at most once
  MaxRetries,   \* PENDING_MESSAGE_MAX_RETRIES
  MaxDraining   \* how many containers drain at the same time

ASSUME PendingAssumption ==
  /\ Msgs \subseteq Nat
  /\ UserOf \in [Msgs -> Users]
  /\ MaxRetries \in Nat \ {0}
  /\ MaxDraining \in Nat
  /\ IsFiniteSet(Consumers)

VARIABLES
  pending,   \* the table: one item for each message
  drain,     \* the loop of each consumer
  saved,     \* history: messages the gateway has put in the table
  handled,   \* history: the consumers that processed each message
  expired,   \* history: messages that DynamoDB's TTL removed
  failures   \* history: failed attempts on each message that were recorded

pendingVars == <<pending, drain, saved, handled, expired, failures>>

(***************************************************************************)
(* An item is "ready", "cooling" (nextAttemptAt is in the future) or       *)
(* "dead" (deadLetteredAt): the code sets one mark and removes the other.  *)
(* An Update of a key that is gone creates an item with neither the        *)
(* message nor a ttl: body is FALSE for it.  What may still be processed   *)
(* has a retry left.                                                       *)
(***************************************************************************)
Item ==
  {i \in [st: {"absent", "ready", "cooling", "dead"}, body: BOOLEAN, retry: 0..MaxRetries] :
     i.st \in {"ready", "cooling"} => i.retry < MaxRetries}

\* A consumer's loop: seen is what is left of its snapshot.
Drain == [pc: {"idle", "loop", "delete", "done"}, seen: [Msgs -> Item]]

Absent == [st |-> "absent", body |-> FALSE, retry |-> 0]

Present(m) == pending[m].st # "absent"

NothingSeen == [m \in Msgs |-> Absent]

Left(c) == {m \in Msgs : drain[c].seen[m].st # "absent"}

\* The item the loop is at: the first of those left in the snapshot.
Current(c, m) == m \in Left(c) /\ \A n \in Left(c) : m <= n

\* Mutant: the loop moves on without leaving the deletion behind.
NextItemStillDeleting(c, m) == drain' = [drain EXCEPT ![c].seen[m] = Absent]

\* The loop moves on to the next item.
NextItem(c, m) == drain' = [drain EXCEPT ![c].pc = "loop", ![c].seen[m] = Absent]

(***************************************************************************)
(* The gateway's savePendingMessage: a Put under a fresh sort key.         *)
(***************************************************************************)
SavePending(m) ==
  /\ m \notin saved
  /\ pending' = [pending EXCEPT ![m] = [st |-> "ready", body |-> TRUE, retry |-> 0]]
  /\ saved' = saved \cup {m}
  /\ UNCHANGED <<drain, handled, expired, failures>>

(***************************************************************************)
(* consumePendingMessages, cut at its awaits.                              *)
(***************************************************************************)
Query(c, u) ==
  /\ drain[c].pc = "idle"
  /\ drain' = [drain EXCEPT ![c] =
       [pc |-> "loop",
        seen |-> [m \in Msgs |-> IF UserOf[m] = u THEN pending[m] ELSE Absent]]]
  /\ UNCHANGED <<pending, saved, handled, expired, failures>>

\* A dead letter is passed over, and so is an item whose retry time has not come.
Skip(c, m) ==
  /\ drain[c].pc = "loop"
  /\ Current(c, m)
  /\ drain[c].seen[m].st \in {"dead", "cooling"}
  /\ NextItem(c, m)
  /\ UNCHANGED <<pending, saved, handled, expired, failures>>

\* What may be processed.  An item seen cooling may have become due meanwhile.
Eligible(c, m) ==
  /\ drain[c].pc = "loop"
  /\ Current(c, m)
  /\ drain[c].seen[m].st \in {"ready", "cooling"}

\* processMessage reads the message's text first, and throws if there is none.
ProcessOk(c, m) ==
  /\ Eligible(c, m)
  /\ drain[c].seen[m].body
  /\ handled' = [handled EXCEPT ![m] = @ \cup {c}]
  /\ drain' = [drain EXCEPT ![c].pc = "delete"]
  /\ UNCHANGED <<pending, saved, expired, failures>>

\* The retry count is the snapshot's plus one; the Update is unconditional.
RetryCount(c, m) == drain[c].seen[m].retry + 1

RecordFailure(c, m, mark) ==
  /\ Eligible(c, m)
  /\ pending' = [pending EXCEPT ![m] = [st |-> mark, body |-> @.body, retry |-> RetryCount(c, m)]]
  /\ failures' = [failures EXCEPT ![m] = @ + 1]
  /\ NextItem(c, m)
  /\ UNCHANGED <<saved, handled, expired>>

\* Mutants: an attempt too many, an attempt too few, a dead letter that is removed.
ProcessFailsLate(c, m) ==
  RecordFailure(c, m, IF RetryCount(c, m) > MaxRetries THEN "dead" ELSE "cooling")

ProcessFailsEarly(c, m) ==
  RecordFailure(c, m, IF RetryCount(c, m) >= MaxRetries - 1 THEN "dead" ELSE "cooling")

ProcessFailsDropsDead(c, m) ==
  RecordFailure(c, m, IF RetryCount(c, m) >= MaxRetries THEN "absent" ELSE "cooling")

ProcessFails(c, m) ==
  RecordFailure(c, m, IF RetryCount(c, m) >= MaxRetries THEN "dead" ELSE "cooling")

DeleteOk(c, m) ==
  /\ drain[c].pc = "delete"
  /\ Current(c, m)
  /\ pending' = [pending EXCEPT ![m] = Absent]
  /\ NextItem(c, m)
  /\ UNCHANGED <<saved, handled, expired, failures>>

\* A failed delete is only logged: "it may be retried".
DeleteFails(c, m) ==
  /\ drain[c].pc = "delete"
  /\ Current(c, m)
  /\ NextItem(c, m)
  /\ UNCHANGED <<pending, saved, handled, expired, failures>>

Drained(c) == drain[c].pc = "loop" /\ Left(c) = {}

EndDrain(c) ==
  /\ Drained(c)
  /\ drain' = [drain EXCEPT ![c].pc = "done"]
  /\ UNCHANGED <<pending, saved, handled, expired, failures>>

\* The container dies, or an Update throws and startContainer rejects.
AbandonDrain(c) ==
  /\ drain' = [drain EXCEPT ![c] = [pc |-> "done", seen |-> NothingSeen]]
  /\ UNCHANGED <<pending, saved, handled, expired, failures>>

(***************************************************************************)
(* Time: DynamoDB deletes an item whose ttl has passed, and a retry time   *)
(* arrives.  An item without a ttl is never deleted.                       *)
(***************************************************************************)
Expire(m) ==
  /\ Present(m) /\ pending[m].body
  /\ pending' = [pending EXCEPT ![m] = Absent]
  /\ expired' = expired \cup {m}
  /\ UNCHANGED <<drain, saved, handled, failures>>

BackoffElapses(m) ==
  /\ pending[m].st = "cooling"
  /\ pending' = [pending EXCEPT ![m].st = "ready"]
  /\ UNCHANGED <<drain, saved, handled, expired, failures>>

-----------------------------------------------------------------------------

Init ==
  /\ pending = NothingSeen
  /\ drain = [c \in Consumers |-> [pc |-> "idle", seen |-> NothingSeen]]
  /\ saved = {}
  /\ handled = [m \in Msgs |-> {}]
  /\ expired = {}
  /\ failures = [m \in Msgs |-> 0]

Draining == {c \in Consumers : drain[c].pc \in {"loop", "delete"}}

DrainStep(c, m) ==
  \/ Skip(c, m)
  \/ ProcessOk(c, m)
  \/ ProcessFails(c, m)
  \/ DeleteOk(c, m)
  \/ DeleteFails(c, m)

Next ==
  \/ \E m \in Msgs : SavePending(m) \/ Expire(m) \/ BackoffElapses(m)
  \/ \E c \in Consumers :
       \/ Cardinality(Draining) < MaxDraining /\ \E u \in Users : Query(c, u)
       \/ \E m \in Msgs : DrainStep(c, m)
       \/ EndDrain(c)
       \/ c \in Draining /\ AbandonDrain(c)

Spec == Init /\ [][Next]_pendingVars

-----------------------------------------------------------------------------

\* Every variable has its type.
TypeOK ==
  /\ pending \in [Msgs -> Item]
  /\ drain \in [Consumers -> Drain]
  /\ saved \subseteq Msgs
  /\ handled \in [Msgs -> SUBSET Consumers]
  /\ expired \subseteq Msgs
  /\ failures \in [Msgs -> Nat]

\* A saved message leaves the table only once some container has processed it
\* or its ttl has passed: no failure, crash, failed delete or concurrent drain
\* may lose one (the order of process and delete in consumePendingMessages).
NothingLost ==
  \A m \in saved : Present(m) \/ handled[m] # {} \/ m \in expired

\* The Update of a failed attempt may recreate an item that another container
\* deleted or that expired, without its text: such an item never stands for a
\* message that still had to be processed.
HollowItemsAreSpent ==
  \A m \in Msgs : Present(m) /\ ~pending[m].body => handled[m] # {} \/ m \in expired

\* What the table holds, and what a drain still has in its snapshot, was saved.
ItemsWereSaved ==
  \A m \in Msgs :
    /\ Present(m) => m \in saved
    /\ \A c \in Consumers : m \in Left(c) => m \in saved

\* A drain that is about to delete an item has processed it.
DeletesFollowProcessing ==
  \A c \in Consumers, m \in Msgs : drain[c].pc = "delete" /\ Current(c, m) => c \in handled[m]

\* A stored count never runs ahead of the failures there were, neither in the
\* table nor in a snapshot, and only a whole budget makes a dead letter.
CountsAreEarned ==
  \A m \in Msgs :
    /\ Present(m) => pending[m].retry <= failures[m]
    /\ pending[m].st = "dead" => pending[m].retry = MaxRetries
    /\ \A c \in Consumers : m \in Left(c) => drain[c].seen[m].retry <= failures[m]

\* The inductive invariant behind NothingLost, HollowItemsAreSpent and
\* GivenUpAfterBudget, for any number of concurrent drains.
QueueInv ==
  /\ TypeOK
  /\ NothingLost
  /\ HollowItemsAreSpent
  /\ ItemsWereSaved
  /\ DeletesFollowProcessing
  /\ CountsAreEarned

\* No message is given up before it has failed PENDING_MESSAGE_MAX_RETRIES times,
\* however the drains of several containers write over one another's counts, and
\* whatever item without a text an Update left behind (pending-messages.ts:75-87).
GivenUpAfterBudget ==
  \A m \in Msgs : pending[m].st = "dead" => failures[m] >= MaxRetries
=============================================================================
