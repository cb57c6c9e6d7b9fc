---------------------------- MODULE PendingRetries ----------------------------
(***************************************************************************)
(* How exact the retry budget of the pending messages is.  What is added   *)
(* to PendingMessages is the memory of the failures that were counted on   *)
(* top of a snapshot which another container's failure had overtaken.      *)
(***************************************************************************)
EXTENDS PendingMessages

VARIABLE overtaken   \* the messages with such a failure

retryVars == <<pendingVars, overtaken>>

\* The drain that has just recorded a failure did not know of another one.
CountsFromOldSnapshot(m) ==
  /\ failures'[m] # failures[m]
  /\ \E c \in Consumers : drain'[c] # drain[c] /\ drain[c].seen[m].retry # failures[m]

Remembers == overtaken' = overtaken \cup {m \in Msgs : CountsFromOldSnapshot(m)}

RetryInit == Init /\ overtaken = {}

RetryNext == Next /\ Remembers

RetrySpec == RetryInit /\ [][RetryNext]_retryVars

-----------------------------------------------------------------------------

\* The budget is exact for every message whose failures each knew of the one before,
\* through crashes, failed deletes, redeliveries and expiry (pending-messages.ts:75-87):
\* it fails at most PENDING_MESSAGE_MAX_RETRIES times, and while its item is there the
\* stored count is the number of failures.
RetryBudget ==
  \A m \in Msgs \ overtaken :
    /\ failures[m] <= MaxRetries
    /\ Present(m) => pending[m].retry = failures[m]

\* A message that was never saved failed never.
UnsavedNeverFailed ==
  \A m \in Msgs : m \notin saved => failures[m] = 0

\* The inductive invariant behind RetryBudget.
RetryInv == QueueInv /\ RetryBudget /\ UnsavedNeverFailed
=============================================================================
