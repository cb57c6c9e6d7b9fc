----------------------- MODULE PendingMessagesProofs -----------------------
(***************************************************************************)
(* For any number of messages, users and containers: with any number of    *)
(* concurrent drains no saved message is lost, and none is given up before *)
(* its budget is used; and the budget is exact as long as each failure     *)
(* knows of the one before.                                                *)
(***************************************************************************)
EXTENDS PendingRetries, FiniteSetTheorems, TLAPS

-----------------------------------------------------------------------------
(***************************************************************************)
(* Types.                                                                  *)
(***************************************************************************)

\* What the table and the snapshots hold are items.
LEMMA ItemTypes ==
  ASSUME TypeOK
  PROVE  /\ Absent \in Item
         /\ NothingSeen \in [Msgs -> Item]
         /\ \A m \in Msgs : pending[m] \in Item
         /\ \A c \in Consumers : drain[c] \in Drain
         /\ \A c \in Consumers, m \in Msgs : drain[c].seen[m] \in Item
<1>1. Absent \in Item
  BY PendingAssumption DEF Absent, Item
<1>2. QED
  BY <1>1 DEF TypeOK, Drain, NothingSeen

\* What moving on to the next item changes.
LEMMA NextItemEffect ==
  ASSUME TypeOK, NEW c \in Consumers, NEW m \in Msgs, NextItem(c, m)
  PROVE  /\ drain' \in [Consumers -> Drain]
         /\ drain'[c].pc = "loop"
         /\ drain'[c].seen[m] = Absent
         /\ \A n \in Msgs \ {m} : drain'[c].seen[n] = drain[c].seen[n]
         /\ \A d \in Consumers \ {c} : drain'[d] = drain[d]
BY ItemTypes DEF TypeOK, Drain, NextItem

\* A step of the queue, however many containers drain already.
AnyStep ==
  \/ \E m \in Msgs : SavePending(m) \/ Expire(m) \/ BackoffElapses(m)
  \/ \E c \in Consumers :
       \/ \E u \in Users : Query(c, u)
       \/ \E m \in Msgs : DrainStep(c, m)
       \/ EndDrain(c)
       \/ AbandonDrain(c)

LEMMA StepsAreSteps == Next => AnyStep
BY DEF Next, AnyStep

\* Every step leaves the types alone.
LEMMA TypingStep == TypeOK /\ [AnyStep]_pendingVars => TypeOK'
<1> SUFFICES ASSUME TypeOK, [AnyStep]_pendingVars
             PROVE  TypeOK'
  OBVIOUS
<1> USE ItemTypes
<1>1. ASSUME NEW m \in Msgs, SavePending(m)
      PROVE  TypeOK'
  <2>1. [st |-> "ready", body |-> TRUE, retry |-> 0] \in Item
    BY PendingAssumption DEF Item
  <2>2. QED
    BY <1>1, <2>1 DEF SavePending, TypeOK
<1>2. ASSUME NEW m \in Msgs, Expire(m)
      PROVE  TypeOK'
  BY <1>2 DEF Expire, TypeOK
<1>3. ASSUME NEW m \in Msgs, BackoffElapses(m)
      PROVE  TypeOK'
  <2>1. [pending[m] EXCEPT !.st = "ready"] \in Item
    BY <1>3 DEF BackoffElapses, Item
  <2>2. QED
    BY <1>3, <2>1 DEF BackoffElapses, TypeOK
<1>4. ASSUME NEW c \in Consumers, NEW u \in Users, Query(c, u)
      PROVE  TypeOK'
  <2>1. [pc |-> "loop",
         seen |-> [m \in Msgs |-> IF UserOf[m] = u THEN pending[m] ELSE Absent]] \in Drain
    BY DEF Drain
  <2>2. QED
    BY <1>4, <2>1 DEF Query, TypeOK
<1>5. ASSUME NEW c \in Consumers, NEW m \in Msgs, Skip(c, m) \/ DeleteFails(c, m)
      PROVE  TypeOK'
  BY <1>5, NextItemEffect DEF Skip, DeleteFails, TypeOK
<1>6. ASSUME NEW c \in Consumers, NEW m \in Msgs, ProcessOk(c, m)
      PROVE  TypeOK'
  <2>1. [drain[c] EXCEPT !.pc = "delete"] \in Drain
    BY DEF Drain
  <2>2. QED
    BY <1>6, <2>1 DEF ProcessOk, TypeOK
<1>7. ASSUME NEW c \in Consumers, NEW m \in Msgs, ProcessFails(c, m)
      PROVE  TypeOK'
  <2> DEFINE retry == RetryCount(c, m)
             mark == IF retry >= MaxRetries THEN "dead" ELSE "cooling"
  <2>1. retry \in Nat /\ retry <= MaxRetries
    BY <1>7, PendingAssumption DEF ProcessFails, RecordFailure, RetryCount, Eligible, Item
  <2>2. [st |-> mark, body |-> pending[m].body, retry |-> retry] \in Item
    BY <2>1, PendingAssumption DEF Item
  <2>3. pending' = [pending EXCEPT ![m] = [st |-> mark, body |-> pending[m].body, retry |-> retry]]
    BY <1>7 DEF ProcessFails, RecordFailure
  <2>4. pending' \in [Msgs -> Item]
    BY <2>2, <2>3 DEF TypeOK
  <2>5. failures' \in [Msgs -> Nat]
    BY <1>7 DEF ProcessFails, RecordFailure, TypeOK
  <2>6. QED
    BY <1>7, <2>4, <2>5, NextItemEffect DEF ProcessFails, RecordFailure, TypeOK
<1>8. ASSUME NEW c \in Consumers, NEW m \in Msgs, DeleteOk(c, m)
      PROVE  TypeOK'
  BY <1>8, NextItemEffect DEF DeleteOk, TypeOK
<1>9. ASSUME NEW c \in Consumers, EndDrain(c)
      PROVE  TypeOK'
  <2>1. [drain[c] EXCEPT !.pc = "done"] \in Drain
    BY DEF Drain
  <2>2. QED
    BY <1>9, <2>1 DEF EndDrain, TypeOK
<1>10. ASSUME NEW c \in Consumers, AbandonDrain(c)
       PROVE  TypeOK'
  BY <1>10 DEF AbandonDrain, TypeOK, Drain
<1>11. ASSUME UNCHANGED pendingVars
       PROVE  TypeOK'
  BY <1>11 DEF pendingVars, TypeOK
<1>12. QED
  BY <1>1, <1>2, <1>3, <1>4, <1>5, <1>6, <1>7, <1>8, <1>9, <1>10, <1>11 DEF AnyStep, DrainStep

\* The table starts empty and nobody drains.
LEMMA TypingInit == Init => TypeOK
<1>1. NothingSeen \in [Msgs -> Item]
  BY PendingAssumption DEF NothingSeen, Absent, Item
<1>2. QED
  BY <1>1 DEF Init, TypeOK, Drain

\* Every variable keeps its type.
THEOREM Typing == Spec => []TypeOK
BY TypingInit, TypingStep, StepsAreSteps, PTL DEF Spec

-----------------------------------------------------------------------------
(***************************************************************************)
(* Any number of concurrent drains.                                        *)
(***************************************************************************)

\* The loop is at one item.
LEMMA CurrentIsUnique ==
  ASSUME NEW c \in Consumers, NEW m \in Msgs, NEW n \in Msgs, Current(c, m), Current(c, n)
  PROVE  m = n
<1>1. m \in Left(c) /\ n \in Left(c) /\ m <= n /\ n <= m
  BY DEF Current
<1>2. m \in Nat /\ n \in Nat
  BY PendingAssumption
<1>3. QED
  BY <1>1, <1>2

\* Moving on to the next item leaves less in the snapshot and ends a deletion.
LEMMA NextItemKeepsInv ==
  ASSUME TypeOK, ItemsWereSaved, DeletesFollowProcessing,
         NEW c \in Consumers, NEW m \in Msgs, NextItem(c, m),
         saved' = saved, handled' = handled,
         \A n \in Msgs : Present(n)' => n \in saved
  PROVE  ItemsWereSaved' /\ DeletesFollowProcessing'
<1>1. /\ drain'[c].pc = "loop"
      /\ drain'[c].seen[m] = Absent
      /\ \A n \in Msgs \ {m} : drain'[c].seen[n] = drain[c].seen[n]
      /\ \A d \in Consumers \ {c} : drain'[d] = drain[d]
  BY NextItemEffect
<1>2. \A d \in Consumers : Left(d)' \subseteq Left(d)
  BY <1>1 DEF Left, Absent
<1>3. \A d \in Consumers \ {c} : Left(d)' = Left(d)
  BY <1>1 DEF Left
<1>4. ItemsWereSaved'
  BY <1>2 DEF ItemsWereSaved, Left
<1>5. DeletesFollowProcessing'
  BY <1>1, <1>3 DEF DeletesFollowProcessing, Current
<1>6. QED
  BY <1>4, <1>5

\* The counts are earned: a step adds at most one to a count, for one failure more.
LEMMA CountsStep ==
  ASSUME TypeOK, CountsAreEarned, [AnyStep]_pendingVars
  PROVE  CountsAreEarned'
<1> USE ItemTypes
<1>1. ASSUME NEW m \in Msgs, SavePending(m)
      PROVE  CountsAreEarned'
  <2>1. /\ pending'[m].st = "ready" /\ pending'[m].retry = 0
        /\ \A n \in Msgs \ {m} : pending'[n] = pending[n]
    BY <1>1 DEF SavePending, TypeOK
  <2>2. UNCHANGED <<failures, drain>> /\ failures[m] >= 0
    BY <1>1 DEF SavePending, TypeOK
  <2>3. QED
    BY <2>1, <2>2 DEF CountsAreEarned, Present, Left
<1>2. ASSUME NEW m \in Msgs, Expire(m)
      PROVE  CountsAreEarned'
  <2>1. /\ pending'[m] = Absent
        /\ \A n \in Msgs \ {m} : pending'[n] = pending[n]
    BY <1>2 DEF Expire, TypeOK
  <2>2. QED
    BY <1>2, <2>1 DEF Expire, CountsAreEarned, Present, Left, Absent
<1>3. ASSUME NEW m \in Msgs, BackoffElapses(m)
      PROVE  CountsAreEarned'
  <2>1. /\ pending'[m].st = "ready" /\ pending'[m].retry = pending[m].retry
        /\ \A n \in Msgs \ {m} : pending'[n] = pending[n]
    BY <1>3 DEF BackoffElapses, TypeOK, Item
  <2>2. QED
    BY <1>3, <2>1 DEF BackoffElapses, CountsAreEarned, Present, Left
<1>4. ASSUME NEW c \in Consumers, NEW u \in Users, Query(c, u)
      PROVE  CountsAreEarned'
  <2>1. /\ \A m \in Msgs : drain'[c].seen[m] \in {pending[m], Absent}
        /\ \A d \in Consumers \ {c} : drain'[d] = drain[d]
    BY <1>4 DEF Query, TypeOK
  <2>2. QED
    BY <1>4, <2>1 DEF Query, CountsAreEarned, Present, Left, Absent
<1>5. ASSUME NEW c \in Consumers, NEW m \in Msgs, Skip(c, m) \/ DeleteFails(c, m) \/ DeleteOk(c, m)
      PROVE  CountsAreEarned'
  <2>1. /\ \A n \in Msgs : pending'[n] \in {pending[n], Absent}
        /\ UNCHANGED failures /\ NextItem(c, m)
    BY <1>5 DEF Skip, DeleteFails, DeleteOk, TypeOK
  <2>2. \A d \in Consumers, n \in Msgs : drain'[d].seen[n] \in {drain[d].seen[n], Absent}
    BY <2>1, NextItemEffect
  <2>3. QED
    BY <2>1, <2>2 DEF CountsAreEarned, Present, Left, Absent
<1>6. ASSUME NEW c \in Consumers, NEW m \in Msgs, ProcessOk(c, m)
      PROVE  CountsAreEarned'
  <2>1. \A d \in Consumers : drain'[d].seen = drain[d].seen
    BY <1>6 DEF ProcessOk, TypeOK, Drain
  <2>2. QED
    BY <1>6, <2>1 DEF ProcessOk, CountsAreEarned, Present, Left
<1>7. ASSUME NEW c \in Consumers, NEW m \in Msgs, ProcessFails(c, m)
      PROVE  CountsAreEarned'
  <2> DEFINE retry == RetryCount(c, m)
             mark == IF retry >= MaxRetries THEN "dead" ELSE "cooling"
  <2>1. m \in Left(c) /\ NextItem(c, m)
    BY <1>7 DEF ProcessFails, RecordFailure, Eligible, Current
  <2>2. retry \in Nat /\ retry <= MaxRetries
    BY <1>7, PendingAssumption DEF ProcessFails, RecordFailure, RetryCount, Eligible, Item
  <2>3. /\ pending'[m].st = mark /\ pending'[m].retry = retry
        /\ \A n \in Msgs \ {m} : pending'[n] = pending[n]
    BY <1>7 DEF ProcessFails, RecordFailure, TypeOK
  <2>4. /\ failures'[m] = failures[m] + 1
        /\ \A n \in Msgs \ {m} : failures'[n] = failures[n]
        /\ failures[m] \in Nat
    BY <1>7 DEF ProcessFails, RecordFailure, TypeOK
  <2>5. drain[c].seen[m].retry <= failures[m]
    BY <2>1 DEF CountsAreEarned
  <2>6. retry <= failures'[m]
    BY <2>2, <2>4, <2>5 DEF RetryCount, Item
  <2>7. mark = "dead" => retry = MaxRetries
    BY <2>2, PendingAssumption
  <2>8. \A d \in Consumers, n \in Msgs : drain'[d].seen[n] \in {drain[d].seen[n], Absent}
    BY <2>1, NextItemEffect
  <2>9. \A n \in Msgs : failures[n] <= failures'[n] /\ failures[n] \in Nat /\ failures'[n] \in Nat
    BY <2>4 DEF TypeOK
  <2>10. \A d \in Consumers, n \in Msgs :
           n \in Left(d)' => n \in Left(d) /\ drain'[d].seen[n] = drain[d].seen[n]
    BY <2>8 DEF Left, Absent
  <2>11. \A d \in Consumers, n \in Msgs : n \in Left(d)' => drain'[d].seen[n].retry <= failures'[n]
    <3> SUFFICES ASSUME NEW d \in Consumers, NEW n \in Msgs, n \in Left(d)'
                 PROVE  drain'[d].seen[n].retry <= failures'[n]
      OBVIOUS
    <3>1. drain'[d].seen[n].retry <= failures[n] /\ drain[d].seen[n].retry \in Nat
      BY <2>10 DEF CountsAreEarned, Item
    <3>2. drain'[d].seen[n].retry \in Nat
      BY <2>10, <3>1
    <3>3. QED
      BY <2>9, <3>1, <3>2
  <2>12. QED
    BY <2>3, <2>4, <2>6, <2>7, <2>11 DEF CountsAreEarned, Present
<1>8. ASSUME NEW c \in Consumers, EndDrain(c) \/ AbandonDrain(c)
      PROVE  CountsAreEarned'
  <2>1. \A d \in Consumers, n \in Msgs : drain'[d].seen[n] \in {drain[d].seen[n], Absent}
    BY <1>8 DEF EndDrain, AbandonDrain, NothingSeen, TypeOK, Drain
  <2>2. QED
    BY <1>8, <2>1 DEF EndDrain, AbandonDrain, CountsAreEarned, Present, Left, Absent
<1>9. ASSUME UNCHANGED pendingVars
      PROVE  CountsAreEarned'
  BY <1>9 DEF pendingVars, CountsAreEarned, Present, Left
<1>10. QED
  BY <1>1, <1>2, <1>3, <1>4, <1>5, <1>6, <1>7, <1>8, <1>9 DEF AnyStep, DrainStep

\* QueueInv is inductive.
LEMMA QueueInvStep == QueueInv /\ [AnyStep]_pendingVars => QueueInv'
<1> SUFFICES ASSUME QueueInv, [AnyStep]_pendingVars
             PROVE  QueueInv'
  OBVIOUS
<1> DEFINE Safe == /\ NothingLost' /\ HollowItemsAreSpent'
                   /\ ItemsWereSaved' /\ DeletesFollowProcessing'
<1>1. TypeOK /\ TypeOK' /\ CountsAreEarned'
  BY TypingStep, CountsStep DEF QueueInv
<1> USE DEF QueueInv
<1>2. ASSUME NEW m \in Msgs, SavePending(m)
      PROVE  Safe
  <2>1. /\ pending'[m].st = "ready" /\ pending'[m].body = TRUE
        /\ \A n \in Msgs \ {m} : pending'[n] = pending[n]
    BY <1>1, <1>2 DEF SavePending, TypeOK
  <2>2. Present(m)' /\ pending'[m].body
    BY <2>1 DEF Present
  <2>3. NothingLost' /\ HollowItemsAreSpent'
    BY <1>2, <2>1, <2>2 DEF SavePending, NothingLost, HollowItemsAreSpent, Present
  <2>4. ItemsWereSaved'
    BY <1>2, <2>1 DEF SavePending, ItemsWereSaved, Present, Left
  <2>5. DeletesFollowProcessing'
    BY <1>2 DEF SavePending, DeletesFollowProcessing, Current, Left
  <2>6. QED
    BY <2>3, <2>4, <2>5
<1>3. ASSUME NEW m \in Msgs, Expire(m)
      PROVE  Safe
  <2>1. /\ pending'[m] = Absent
        /\ \A n \in Msgs \ {m} : pending'[n] = pending[n]
    BY <1>1, <1>3 DEF Expire, TypeOK
  <2>2. NothingLost' /\ HollowItemsAreSpent'
    BY <1>3, <2>1 DEF Expire, NothingLost, HollowItemsAreSpent, Present, Absent
  <2>3. ItemsWereSaved' /\ DeletesFollowProcessing'
    BY <1>3, <2>1 DEF Expire, ItemsWereSaved, DeletesFollowProcessing, Present, Absent,
                      Current, Left
  <2>4. QED
    BY <2>2, <2>3
<1>4. ASSUME NEW m \in Msgs, BackoffElapses(m)
      PROVE  Safe
  <2>1. \A n \in Msgs : /\ (pending'[n].st = "absent") <=> (pending[n].st = "absent")
                        /\ pending'[n].body = pending[n].body
    BY <1>1, <1>4 DEF BackoffElapses, TypeOK, Item
  <2>2. NothingLost' /\ HollowItemsAreSpent'
    BY <1>4, <2>1 DEF BackoffElapses, NothingLost, HollowItemsAreSpent, Present
  <2>3. ItemsWereSaved' /\ DeletesFollowProcessing'
    BY <1>4, <2>1 DEF BackoffElapses, ItemsWereSaved, DeletesFollowProcessing, Present,
                      Current, Left
  <2>4. QED
    BY <2>2, <2>3
<1>5. ASSUME NEW c \in Consumers, NEW u \in Users, Query(c, u)
      PROVE  Safe
  <2>1. /\ drain'[c].pc = "loop"
        /\ \A m \in Msgs : drain'[c].seen[m] \in {pending[m], Absent}
        /\ \A d \in Consumers \ {c} : drain'[d] = drain[d]
    BY <1>1, <1>5 DEF Query, TypeOK
  <2>2. ItemsWereSaved'
    BY <1>5, <2>1 DEF Query, ItemsWereSaved, Present, Left, Absent
  <2>3. DeletesFollowProcessing'
    BY <1>5, <2>1 DEF Query, DeletesFollowProcessing, Current, Left
  <2>4. QED
    BY <1>5, <2>2, <2>3 DEF Query, NothingLost, HollowItemsAreSpent, Present
<1>6. ASSUME NEW c \in Consumers, NEW m \in Msgs, Skip(c, m) \/ DeleteFails(c, m)
      PROVE  Safe
  <2>1. UNCHANGED <<pending, saved, handled, expired>> /\ NextItem(c, m)
    BY <1>6 DEF Skip, DeleteFails
  <2>2. \A n \in Msgs : Present(n)' => n \in saved
    BY <2>1 DEF ItemsWereSaved, Present
  <2>3. ItemsWereSaved' /\ DeletesFollowProcessing'
    BY <1>1, <2>1, <2>2, NextItemKeepsInv
  <2>4. QED
    BY <2>1, <2>3 DEF NothingLost, HollowItemsAreSpent, Present
<1>7. ASSUME NEW c \in Consumers, NEW m \in Msgs, ProcessOk(c, m)
      PROVE  Safe
  <2>1. /\ drain'[c].pc = "delete" /\ drain'[c].seen = drain[c].seen
        /\ \A d \in Consumers \ {c} : drain'[d] = drain[d]
    BY <1>1, <1>7 DEF ProcessOk, TypeOK, Drain
  <2>2. /\ handled'[m] = handled[m] \cup {c}
        /\ \A n \in Msgs \ {m} : handled'[n] = handled[n]
    BY <1>1, <1>7 DEF ProcessOk, TypeOK
  <2>3. \A d \in Consumers : Left(d)' = Left(d)
    BY <2>1 DEF Left
  <2>4. DeletesFollowProcessing'
    <3>1. ASSUME NEW d \in Consumers, NEW n \in Msgs, drain'[d].pc = "delete", Current(d, n)'
          PROVE  d \in handled'[n]
      <4>1. Current(d, n)
        BY <2>3, <3>1 DEF Current
      <4>2. CASE d = c
        <5>1. n = m
          BY <1>7, <4>1, <4>2, CurrentIsUnique DEF ProcessOk, Eligible
        <5>2. QED
          BY <2>2, <4>2, <5>1
      <4>3. CASE d # c
        BY <2>1, <2>2, <3>1, <4>1, <4>3 DEF DeletesFollowProcessing
      <4>4. QED
        BY <4>2, <4>3
    <3>2. QED
      BY <3>1 DEF DeletesFollowProcessing
  <2>5. QED
    BY <1>7, <2>2, <2>3, <2>4 DEF ProcessOk, NothingLost, HollowItemsAreSpent, ItemsWereSaved, Present
<1>8. ASSUME NEW c \in Consumers, NEW m \in Msgs, ProcessFails(c, m)
      PROVE  Safe
  <2>1. m \in Left(c) /\ m \in saved
    BY <1>8 DEF ProcessFails, RecordFailure, Eligible, Current, ItemsWereSaved
  <2>2. /\ Present(m)' /\ pending'[m].body = pending[m].body
        /\ \A n \in Msgs \ {m} : pending'[n] = pending[n]
    BY <1>1, <1>8 DEF ProcessFails, RecordFailure, Present, TypeOK
  <2>3. \A n \in Msgs : Present(n)' => n \in saved
    BY <2>1, <2>2 DEF ItemsWereSaved, Present
  <2>4. ItemsWereSaved' /\ DeletesFollowProcessing'
    BY <1>1, <1>8, <2>3, NextItemKeepsInv DEF ProcessFails, RecordFailure
  <2>5. NothingLost'
    BY <1>8, <2>2 DEF ProcessFails, RecordFailure, NothingLost, Present
  <2>6. HollowItemsAreSpent'
    BY <1>8, <2>1, <2>2 DEF ProcessFails, RecordFailure, NothingLost, HollowItemsAreSpent, Present
  <2>7. QED
    BY <2>4, <2>5, <2>6
<1>9. ASSUME NEW c \in Consumers, NEW m \in Msgs, DeleteOk(c, m)
      PROVE  Safe
  <2>1. handled[m] # {}
    BY <1>9 DEF DeleteOk, DeletesFollowProcessing
  <2>2. /\ pending'[m] = Absent
        /\ \A n \in Msgs \ {m} : pending'[n] = pending[n]
    BY <1>1, <1>9 DEF DeleteOk, TypeOK
  <2>3. \A n \in Msgs : Present(n)' => n \in saved
    BY <2>2 DEF ItemsWereSaved, Present, Absent
  <2>4. ItemsWereSaved' /\ DeletesFollowProcessing'
    BY <1>1, <1>9, <2>3, NextItemKeepsInv DEF DeleteOk
  <2>5. NothingLost' /\ HollowItemsAreSpent'
    BY <1>9, <2>1, <2>2 DEF DeleteOk, NothingLost, HollowItemsAreSpent, Present, Absent
  <2>6. QED
    BY <2>4, <2>5
<1>10. ASSUME NEW c \in Consumers, EndDrain(c) \/ AbandonDrain(c)
       PROVE  Safe
  <2>1. /\ drain'[c].pc = "done"
        /\ drain'[c].seen \in {drain[c].seen, NothingSeen}
        /\ \A d \in Consumers \ {c} : drain'[d] = drain[d]
    BY <1>1, <1>10 DEF EndDrain, AbandonDrain, TypeOK, Drain
  <2>2. \A d \in Consumers : Left(d)' \subseteq Left(d)
    BY <2>1 DEF Left, NothingSeen, Absent
  <2>3. ItemsWereSaved'
    BY <1>10, <2>2 DEF EndDrain, AbandonDrain, ItemsWereSaved, Present
  <2>4. DeletesFollowProcessing'
    BY <1>10, <2>1 DEF EndDrain, AbandonDrain, DeletesFollowProcessing, Current, Left
  <2>5. QED
    BY <1>10, <2>3, <2>4 DEF EndDrain, AbandonDrain, NothingLost, HollowItemsAreSpent, Present
<1>11. ASSUME UNCHANGED pendingVars
       PROVE  Safe
  BY <1>11 DEF pendingVars, NothingLost, HollowItemsAreSpent, ItemsWereSaved,
               DeletesFollowProcessing, Present, Current, Left
<1>12. Safe
  BY <1>2, <1>3, <1>4, <1>5, <1>6, <1>7, <1>8, <1>9, <1>10, <1>11 DEF AnyStep, DrainStep
<1>13. QED
  BY <1>1, <1>12

\* An empty table has lost nothing.
LEMMA QueueInit == Init => QueueInv
BY TypingInit DEF Init, QueueInv, NothingLost, HollowItemsAreSpent, ItemsWereSaved,
                  DeletesFollowProcessing, CountsAreEarned, Present, Left, NothingSeen, Absent

\* The inductive invariant holds in every reachable state.
THEOREM QueueInvariance == Spec => []QueueInv
BY QueueInit, QueueInvStep, StepsAreSteps, PTL DEF Spec

\* A saved message leaves the table only processed or expired.
THEOREM MessagesAreKept == Spec => []NothingLost
<1>1. QueueInv => NothingLost
  BY DEF QueueInv
<1>2. QED
  BY <1>1, QueueInvariance, PTL

\* An item without its text never stands for a message still to be processed.
THEOREM HollowItemsHarmless == Spec => []HollowItemsAreSpent
<1>1. QueueInv => HollowItemsAreSpent
  BY DEF QueueInv
<1>2. QED
  BY <1>1, QueueInvariance, PTL

\* However many containers drain at once and write over one another's counts,
\* no message becomes a dead letter before it has failed as often as its budget allows.
THEOREM BudgetsAreUsed == Spec => []GivenUpAfterBudget
<1>1. QueueInv => GivenUpAfterBudget
  <2> SUFFICES ASSUME QueueInv, NEW m \in Msgs, pending[m].st = "dead"
               PROVE  failures[m] >= MaxRetries
    BY DEF GivenUpAfterBudget
  <2>1. pending[m].retry <= failures[m] /\ pending[m].retry = MaxRetries
    BY DEF QueueInv, CountsAreEarned, Present
  <2>2. failures[m] \in Nat /\ MaxRetries \in Nat
    BY PendingAssumption DEF QueueInv, TypeOK
  <2>3. QED
    BY <2>1, <2>2
<1>2. QED
  BY <1>1, QueueInvariance, PTL

-----------------------------------------------------------------------------
(***************************************************************************)
(* The budget.                                                             *)
(***************************************************************************)

\* A step that records no failure, and puts no item but a fresh one, keeps the counts.
LEMMA OtherStepsKeepCounts ==
  ASSUME RetryInv, Remembers, UNCHANGED failures, saved \subseteq saved',
         \A m \in Msgs : \/ pending'[m] \in {pending[m], Absent}
                         \/ pending'[m].st # "absent" /\ Present(m) /\ pending'[m].retry = pending[m].retry
                         \/ m \notin saved /\ pending'[m].retry = 0
  PROVE  RetryBudget' /\ UnsavedNeverFailed'
<1>1. overtaken \subseteq overtaken'
  BY DEF Remembers
<1>2. UnsavedNeverFailed'
  BY DEF RetryInv, UnsavedNeverFailed
<1>3. ASSUME NEW m \in Msgs \ overtaken'
      PROVE  failures'[m] <= MaxRetries /\ (Present(m)' => pending'[m].retry = failures'[m])
  BY <1>1, <1>3 DEF RetryInv, RetryBudget, UnsavedNeverFailed, Present, Absent
<1>4. QED
  BY <1>2, <1>3 DEF RetryBudget

\* A failure counts on from the number its drain has seen.
LEMMA FailureKeepsCounts ==
  ASSUME RetryInv, Remembers, NEW c \in Consumers, NEW m \in Msgs, ProcessFails(c, m)
  PROVE  RetryBudget' /\ UnsavedNeverFailed'
<1> DEFINE retry == RetryCount(c, m)
           mark == IF retry >= MaxRetries THEN "dead" ELSE "cooling"
<1>1. TypeOK /\ m \in Left(c)
  BY DEF RetryInv, QueueInv, ProcessFails, RecordFailure, Eligible, Current
<1>2. retry \in Nat /\ retry <= MaxRetries
  BY <1>1, ItemTypes, PendingAssumption
  DEF ProcessFails, RecordFailure, RetryCount, Eligible, Item
<1>3. /\ pending'[m].retry = retry
      /\ \A n \in Msgs \ {m} : pending'[n] = pending[n]
  BY <1>1 DEF ProcessFails, RecordFailure, TypeOK
<1>4. /\ failures[m] \in Nat /\ failures'[m] = failures[m] + 1
      /\ \A n \in Msgs \ {m} : failures'[n] = failures[n]
  BY <1>1 DEF ProcessFails, RecordFailure, TypeOK
<1>5. drain'[c] # drain[c]
  BY <1>1, NextItemEffect DEF ProcessFails, RecordFailure, Left, Absent
<1>6. m \notin overtaken' => drain[c].seen[m].retry = failures[m]
  BY <1>4, <1>5 DEF Remembers, CountsFromOldSnapshot
<1>7. m \notin overtaken' => failures'[m] = retry
  BY <1>4, <1>6 DEF RetryCount
<1>8. RetryBudget'
  <2>1. overtaken \subseteq overtaken'
    BY DEF Remembers
  <2>2. QED
    BY <1>2, <1>3, <1>4, <1>7, <2>1 DEF RetryInv, RetryBudget, Present
<1>9. m \in saved /\ saved' = saved
  BY <1>1 DEF RetryInv, QueueInv, ItemsWereSaved, ProcessFails, RecordFailure
<1>10. UnsavedNeverFailed'
  BY <1>4, <1>9 DEF RetryInv, UnsavedNeverFailed
<1>11. QED
  BY <1>8, <1>10

\* RetryInv is inductive, for any number of concurrent drains.
LEMMA RetryInvStep == RetryInv /\ [RetryNext]_retryVars => RetryInv'
<1> SUFFICES ASSUME RetryInv, [RetryNext]_retryVars
             PROVE  RetryInv'
  OBVIOUS
<1>1. [Next]_pendingVars
  BY DEF RetryNext, retryVars
<1>2. QueueInv' /\ TypeOK
  BY <1>1, QueueInvStep, StepsAreSteps DEF RetryInv, QueueInv
<1>3. ASSUME NEW m \in Msgs, SavePending(m), Remembers
      PROVE  RetryBudget' /\ UnsavedNeverFailed'
  BY <1>2, <1>3, OtherStepsKeepCounts DEF SavePending, TypeOK
<1>4. ASSUME NEW m \in Msgs, Expire(m), Remembers
      PROVE  RetryBudget' /\ UnsavedNeverFailed'
  BY <1>2, <1>4, OtherStepsKeepCounts DEF Expire, TypeOK
<1>5. ASSUME NEW m \in Msgs, BackoffElapses(m), Remembers
      PROVE  RetryBudget' /\ UnsavedNeverFailed'
  <2>1. /\ pending'[m].st = "ready" /\ pending'[m].retry = pending[m].retry /\ Present(m)
        /\ \A n \in Msgs \ {m} : pending'[n] = pending[n]
    BY <1>2, <1>5 DEF BackoffElapses, TypeOK, Item, Present
  <2>2. QED
    BY <1>5, <2>1, OtherStepsKeepCounts DEF BackoffElapses
<1>6. ASSUME NEW c \in Consumers, NEW u \in Users, Query(c, u), Remembers
      PROVE  RetryBudget' /\ UnsavedNeverFailed'
  BY <1>6, OtherStepsKeepCounts DEF Query
<1>7. ASSUME NEW c \in Consumers, NEW m \in Msgs, DrainStep(c, m), Remembers
      PROVE  RetryBudget' /\ UnsavedNeverFailed'
  <2>1. CASE ProcessFails(c, m)
    BY <1>7, <2>1, FailureKeepsCounts
  <2>2. CASE DeleteOk(c, m)
    BY <1>2, <1>7, <2>2, OtherStepsKeepCounts DEF DeleteOk, TypeOK
  <2>3. CASE Skip(c, m) \/ ProcessOk(c, m) \/ DeleteFails(c, m)
    BY <1>7, <2>3, OtherStepsKeepCounts DEF Skip, ProcessOk, DeleteFails
  <2>4. QED
    BY <1>7, <2>1, <2>2, <2>3 DEF DrainStep
<1>8. ASSUME NEW c \in Consumers, EndDrain(c) \/ AbandonDrain(c), Remembers
      PROVE  RetryBudget' /\ UnsavedNeverFailed'
  BY <1>8, OtherStepsKeepCounts DEF EndDrain, AbandonDrain
<1>9. ASSUME UNCHANGED retryVars
      PROVE  RetryBudget' /\ UnsavedNeverFailed'
  BY <1>9 DEF retryVars, pendingVars, RetryInv, RetryBudget, UnsavedNeverFailed, Present
<1>10. RetryBudget' /\ UnsavedNeverFailed'
  BY <1>3, <1>4, <1>5, <1>6, <1>7, <1>8, <1>9 DEF RetryNext, Next
<1>11. QED
  BY <1>2, <1>10 DEF RetryInv

\* However many containers drain at once: a message is attempted more often than its
\* budget allows, or has another count than its failures, only if a drain counted on top
\* of a snapshot that another drain's failure had overtaken.
THEOREM RetriesAreBounded == RetrySpec => []RetryBudget
<1>1. RetryInit => RetryInv
  BY QueueInit, PendingAssumption
  DEF RetryInit, Init, RetryInv, RetryBudget, UnsavedNeverFailed, Present, NothingSeen, Absent
<1>2. RetryInv => RetryBudget
  BY DEF RetryInv
<1>3. QED
  BY <1>1, <1>2, RetryInvStep, PTL DEF RetrySpec
=============================================================================
