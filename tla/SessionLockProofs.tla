------------------------- MODULE SessionLockProofs -------------------------
(***************************************************************************)
(* For any number of users and executions, any timeout and any ttl at      *)
(* least as long: the lock excludes, and the session file behaves as the   *)
(* append-only transcript of SessionTranscript.                            *)
(***************************************************************************)
EXTENDS SessionLock, TLAPS

\* Moving an execution to another point of the handler keeps its type.
LEMMA GotoType ==
  ASSUME TypeOK, NEW e \in Execs, NEW pc \in {"new", "ended"} \cup Alive, Goto(e, pc)
  PROVE  exec' \in [Execs -> Exec]
BY DEF TypeOK, Exec, Goto

\* The rows the lock writes are rows.
LEMMA RowTypes == NoRow \in Row /\ IdleRow \in Row /\ \A e \in Execs : LockRow(e) \in Row
<1>1. LockTtl + 1 \in 0..LockTtl + 1
  BY LockAssumption
<1>2. QED
  BY <1>1 DEF NoRow, IdleRow, LockRow, Row

\* Every step leaves the types alone.
LEMMA TypingStep == TypeOK /\ [Next]_lockVars => TypeOK'
<1> SUFFICES ASSUME TypeOK, [Next]_lockVars
             PROVE  TypeOK'
  OBVIOUS
<1>a. \A e \in Execs : ExecUser[e] \in Users
  BY LockAssumption
<1> USE <1>a
<1>1. ASSUME NEW e \in Execs, LockStep(e) \/ Die(e) \/ FastReply(e) \/ UploadFails(e)
      PROVE  TypeOK'
  <2>1. \E pc \in {"new", "ended"} \cup Alive : Goto(e, pc)
    BY <1>1 DEF LockStep, Acquire, Busy, AcquireUnknowingly, Release, ReleaseFails,
                Die, FastReply, UploadFails, Alive, Working
  <2>2. exec' \in [Execs -> Exec]
    BY <2>1, GotoType
  <2>3. row' \in [Users -> Row]
    BY <1>1, RowTypes DEF TypeOK, LockStep, Acquire, Busy, AcquireUnknowingly, Release,
                          ReleaseFails, Die, FastReply, UploadFails
  <2>4. UNCHANGED <<s3, kept>>
    BY <1>1 DEF LockStep, Acquire, Busy, AcquireUnknowingly, Release, ReleaseFails,
                Die, FastReply, UploadFails
  <2>5. QED
    BY <2>2, <2>3, <2>4 DEF TypeOK
<1>2. ASSUME NEW e \in Execs, Invoke(e)
      PROVE  TypeOK'
  <2>1. LambdaTimeout \in 0..LambdaTimeout
    BY LockAssumption
  <2>2. exec[e] \in Exec
    BY DEF TypeOK
  <2>3. [exec[e] EXCEPT !.pc = "invoked", !.left = LambdaTimeout] \in Exec
    BY <2>1, <2>2 DEF Exec, Alive
  <2>4. QED
    BY <1>2, <2>3 DEF Invoke, TypeOK
<1>3. ASSUME NEW e \in Execs, Download(e)
      PROVE  TypeOK'
  <2>1. PICK file \in {s3[ExecUser[e]]} \cup (IF s3[ExecUser[e]] = {} THEN Leftovers(e) ELSE {}) :
               exec' = [exec EXCEPT ![e] = [@ EXCEPT !.pc = "loaded", !.local = file]]
    BY <1>3 DEF Download
  <2>2. file \in SUBSET Execs
    BY <2>1 DEF Leftovers, TypeOK, Exec
  <2>3. exec[e] \in Exec
    BY DEF TypeOK
  <2>4. [exec[e] EXCEPT !.pc = "loaded", !.local = file] \in Exec
    BY <2>2, <2>3 DEF Exec, Alive, Working
  <2>5. QED
    BY <1>3, <2>1, <2>4 DEF Download, TypeOK
<1>4. ASSUME NEW e \in Execs, RunAgent(e)
      PROVE  TypeOK'
  <2>1. PICK turn \in {{e}, {}} :
               exec' = [exec EXCEPT ![e] = [@ EXCEPT !.pc = "ran", !.local = exec[e].local \cup turn]]
    BY <1>4 DEF RunAgent
  <2>2. exec[e] \in Exec
    BY DEF TypeOK
  <2>3. exec[e].local \cup turn \in SUBSET Execs
    BY <2>1, <2>2 DEF Exec
  <2>4. [exec[e] EXCEPT !.pc = "ran", !.local = exec[e].local \cup turn] \in Exec
    BY <2>2, <2>3 DEF Exec, Alive, Working
  <2>5. QED
    BY <1>4, <2>1, <2>4 DEF RunAgent, TypeOK
<1>5. ASSUME NEW e \in Execs, Upload(e)
      PROVE  TypeOK'
  <2>1. exec' \in [Execs -> Exec]
    BY <1>5, GotoType DEF Upload, Alive, Working
  <2>2. exec[e].local \in SUBSET Execs
    BY DEF TypeOK, Exec
  <2>3. QED
    BY <1>5, <2>1, <2>2 DEF Upload, TypeOK
<1>6. ASSUME NEW u \in Users, TtlDelete(u)
      PROVE  TypeOK'
  BY <1>6, RowTypes DEF TtlDelete, TypeOK
<1>7. ASSUME Tick
      PROVE  TypeOK'
  <2>1. ASSUME NEW u \in Users
        PROVE  [row[u] EXCEPT !.left = Less(@)] \in Row
    <3>1. row[u] \in Row
      BY DEF TypeOK
    <3>2. ASSUME NEW n \in (0..LockTtl + 1) \cup {NoTtl}
          PROVE  Less(n) \in (0..LockTtl + 1) \cup {NoTtl}
      BY LockAssumption DEF Less
    <3>3. QED
      BY <3>1, <3>2 DEF Row
  <2>2. row' \in [Users -> Row]
    BY <1>7, <2>1 DEF Tick
  <2>3. ASSUME NEW e \in Execs, exec[e].pc \in Alive
        PROVE  [exec[e] EXCEPT !.left = @ - 1] \in Exec
    <3>1. exec[e] \in Exec /\ exec[e].left > 0
      BY <1>7, <2>3 DEF Tick, TypeOK
    <3>2. exec[e].left - 1 \in 0..LambdaTimeout
      BY <3>1, LockAssumption DEF Exec
    <3>3. QED
      BY <3>1, <3>2 DEF Exec
  <2>4. exec' \in [Execs -> Exec]
    BY <1>7, <2>3 DEF Tick, TypeOK
  <2>5. QED
    BY <1>7, <2>2, <2>4 DEF Tick, TypeOK
<1>8. ASSUME UNCHANGED lockVars
      PROVE  TypeOK'
  BY <1>8 DEF lockVars, TypeOK
<1>9. QED
  BY <1>1, <1>2, <1>3, <1>4, <1>5, <1>6, <1>7, <1>8 DEF Next, WorkStep

\* Nothing has been invoked and nothing stored.
LEMMA TypingInit == Init => TypeOK
BY RowTypes, LockAssumption DEF Init, TypeOK, Exec

\* Every variable keeps its type.
THEOREM Typing == Spec => []TypeOK
BY TypingInit, TypingStep, PTL DEF Spec

-----------------------------------------------------------------------------
(***************************************************************************)
(* The lock.                                                               *)
(***************************************************************************)

\* One row names one holder.
LEMMA RowExcludes == LockOutlivesHolder => MutualExclusion
BY DEF LockOutlivesHolder, MutualExclusion

\* What a Goto changes.
LEMMA GotoEffect ==
  ASSUME TypeOK, NEW e \in Execs, NEW pc, Goto(e, pc)
  PROVE  /\ exec'[e].pc = pc
         /\ exec'[e].left = exec[e].left /\ exec'[e].local = exec[e].local
         /\ \A f \in Execs \ {e} : exec'[f] = exec[f]
<1>1. exec[e] \in Exec
  BY DEF TypeOK
<1>2. QED
  BY <1>1 DEF Goto, TypeOK, Exec

\* An execution that takes the row finds nobody who relies on it.
LEMMA AcquireKeepsLock ==
  ASSUME LockInv, NEW e \in Execs, Acquire(e) \/ AcquireUnknowingly(e)
  PROVE  LockOutlivesHolder' /\ CopyIsComplete' /\ NoLostTurn'
<1>1. /\ ExecUser[e] \in Users
      /\ exec[e] \in Exec
      /\ exec[e].pc = "invoked"
      /\ row[ExecUser[e]].status # "Running"
      /\ row' = [row EXCEPT ![ExecUser[e]] = LockRow(e)]
      /\ Goto(e, "locked") \/ Goto(e, "ended")
      /\ s3' = s3 /\ kept' = kept
  BY LockAssumption DEF LockInv, TypeOK, Acquire, AcquireUnknowingly, LockIsFree
<1>2. \A f \in Execs : HasLock(f) => ExecUser[f] # ExecUser[e]
  BY <1>1 DEF LockInv, LockOutlivesHolder
<1>3. /\ exec'[e].pc \in {"locked", "ended"} /\ exec'[e].left = exec[e].left
      /\ \A f \in Execs \ {e} : exec'[f] = exec[f]
  BY <1>1, GotoEffect DEF LockInv
<1>4. \A f \in Execs : ExecUser[f] \in Users
  BY LockAssumption
<1>5. LockOutlivesHolder'
  <2>1. ASSUME NEW f \in Execs, HasLock(f)'
        PROVE  LET r == row'[ExecUser[f]]
               IN  r.status = "Running" /\ r.holder = f /\ r.left \in Nat /\ r.left > exec'[f].left
    <3>1. CASE f = e
      <4>1. row'[ExecUser[e]] = LockRow(e)
        BY <1>1 DEF LockInv, TypeOK
      <4>2. exec[e].left \in 0..LambdaTimeout
        BY <1>1 DEF Exec
      <4>3. LockTtl + 1 \in Nat /\ LockTtl + 1 > exec'[e].left
        BY <1>3, <4>2, LockAssumption
      <4>4. QED
        BY <3>1, <4>1, <4>3 DEF LockRow
    <3>2. CASE f # e
      <4>1. exec'[f] = exec[f] /\ HasLock(f)
        BY <1>3, <2>1, <3>2 DEF HasLock
      <4>2. row'[ExecUser[f]] = row[ExecUser[f]]
        BY <1>1, <1>2, <1>4, <4>1 DEF LockInv, TypeOK
      <4>3. QED
        BY <4>1, <4>2 DEF LockInv, LockOutlivesHolder
    <3>3. QED
      BY <3>1, <3>2
  <2>2. QED
    BY <2>1 DEF LockOutlivesHolder
<1>6. CopyIsComplete'
  BY <1>1, <1>3 DEF LockInv, CopyIsComplete
<1>7. NoLostTurn'
  BY <1>1 DEF LockInv, NoLostTurn
<1>8. QED
  BY <1>5, <1>6, <1>7

\* Nobody takes over a lock by replying, ending or dying.
LEMMA LeaveKeepsLock ==
  ASSUME LockInv, NEW e \in Execs, NEW pc \in {"replied", "ended"}, Goto(e, pc),
         pc = "replied" => HasLock(e), row' = row, s3' = s3, kept' = kept
  PROVE  LockOutlivesHolder' /\ CopyIsComplete' /\ NoLostTurn'
<1>1. /\ exec'[e].pc = pc /\ exec'[e].left = exec[e].left
      /\ \A f \in Execs \ {e} : exec'[f] = exec[f]
  BY GotoEffect DEF LockInv
<1>2. \A f \in Execs : HasLock(f)' => HasLock(f)
  BY <1>1 DEF HasLock, Working
<1>3. LockOutlivesHolder'
  BY <1>1, <1>2 DEF LockInv, LockOutlivesHolder
<1>4. CopyIsComplete'
  BY <1>1 DEF LockInv, CopyIsComplete
<1>5. QED
  BY <1>3, <1>4 DEF LockInv, NoLostTurn

\* A release deletes the row of the execution that wrote it, and of no other.
LEMMA ReleaseKeepsLock ==
  ASSUME LockInv, NEW e \in Execs, Release(e)
  PROVE  LockOutlivesHolder' /\ CopyIsComplete' /\ NoLostTurn'
<1>1. /\ exec'[e].pc = "ended"
      /\ \A f \in Execs \ {e} : exec'[f] = exec[f]
  BY GotoEffect DEF LockInv, Release, Alive
<1>2. LockOutlivesHolder'
  <2>1. ASSUME NEW f \in Execs, HasLock(f)'
        PROVE  row'[ExecUser[f]] = row[ExecUser[f]] /\ exec'[f] = exec[f] /\ HasLock(f)
    <3>1. f # e /\ exec'[f] = exec[f] /\ HasLock(f)
      BY <1>1, <2>1 DEF HasLock, Working
    <3>2. row[ExecUser[f]].holder = f /\ ExecUser[f] \in Users
      BY <3>1, LockAssumption DEF LockInv, LockOutlivesHolder
    <3>3. QED
      BY <3>1, <3>2 DEF Release, LockInv, TypeOK
  <2>2. QED
    BY <2>1 DEF LockInv, LockOutlivesHolder
<1>3. CopyIsComplete'
  BY <1>1 DEF LockInv, CopyIsComplete, Release
<1>4. QED
  BY <1>2, <1>3 DEF LockInv, NoLostTurn, Release

\* An execution downloads what S3 holds, or finds S3 empty.
LEMMA DownloadKeepsLock ==
  ASSUME LockInv, NEW e \in Execs, Download(e)
  PROVE  LockOutlivesHolder' /\ CopyIsComplete' /\ NoLostTurn'
<1>1. PICK file \in {s3[ExecUser[e]]} \cup (IF s3[ExecUser[e]] = {} THEN Leftovers(e) ELSE {}) :
             exec' = [exec EXCEPT ![e] = [@ EXCEPT !.pc = "loaded", !.local = file]]
  BY DEF Download
<1>2. s3[ExecUser[e]] \subseteq file
  BY <1>1
<1>3. /\ exec'[e].pc = "loaded" /\ exec'[e].local = file /\ exec'[e].left = exec[e].left
      /\ \A f \in Execs \ {e} : exec'[f] = exec[f]
  BY <1>1 DEF LockInv, TypeOK, Exec
<1>4. \A f \in Execs : HasLock(f)' => HasLock(f)
  BY <1>3 DEF HasLock, Working, Download
<1>5. LockOutlivesHolder'
  BY <1>3, <1>4 DEF LockInv, LockOutlivesHolder, Download
<1>6. CopyIsComplete'
  BY <1>2, <1>3 DEF LockInv, CopyIsComplete, Download
<1>7. QED
  BY <1>5, <1>6 DEF LockInv, NoLostTurn, Download

\* The agent only adds to its copy.
LEMMA RunAgentKeepsLock ==
  ASSUME LockInv, NEW e \in Execs, RunAgent(e)
  PROVE  LockOutlivesHolder' /\ CopyIsComplete' /\ NoLostTurn'
<1>1. PICK turn \in {{e}, {}} :
             exec' = [exec EXCEPT ![e] = [@ EXCEPT !.pc = "ran", !.local = exec[e].local \cup turn]]
  BY DEF RunAgent
<1>2. /\ exec'[e].pc = "ran" /\ exec[e].local \subseteq exec'[e].local
      /\ exec'[e].left = exec[e].left
      /\ \A f \in Execs \ {e} : exec'[f] = exec[f]
  BY <1>1 DEF LockInv, TypeOK, Exec
<1>3. \A f \in Execs : HasLock(f)' => HasLock(f)
  BY <1>2 DEF HasLock, Working, RunAgent
<1>4. LockOutlivesHolder'
  BY <1>2, <1>3 DEF LockInv, LockOutlivesHolder, RunAgent
<1>5. CopyIsComplete'
  BY <1>2 DEF LockInv, CopyIsComplete, RunAgent
<1>6. QED
  BY <1>4, <1>5 DEF LockInv, NoLostTurn, RunAgent

\* What an upload replaces, it contains; and no other copy is in use.
LEMMA UploadKeepsLock ==
  ASSUME LockInv, NEW e \in Execs, Upload(e)
  PROVE  LockOutlivesHolder' /\ CopyIsComplete' /\ NoLostTurn'
<1>1. /\ exec'[e].pc = "uploaded"
      /\ exec'[e].left = exec[e].left /\ exec'[e].local = exec[e].local
      /\ \A f \in Execs \ {e} : exec'[f] = exec[f]
  BY GotoEffect DEF LockInv, Upload
<1>2. HasLock(e) /\ s3[ExecUser[e]] \subseteq exec[e].local
  BY DEF Upload, HasLock, Working, LockInv, CopyIsComplete
<1>3. /\ s3'[ExecUser[e]] = exec[e].local
      /\ \A u \in Users \ {ExecUser[e]} : s3'[u] = s3[u]
  BY LockAssumption DEF Upload, LockInv, TypeOK
<1>4. \A f \in Execs : HasLock(f)' => HasLock(f)
  BY <1>1, <1>2 DEF HasLock
<1>5. LockOutlivesHolder'
  BY <1>1, <1>4 DEF LockInv, LockOutlivesHolder, Upload
<1>6. CopyIsComplete'
  <2>1. ASSUME NEW f \in Execs, f # e, exec'[f].pc \in {"loaded", "ran", "uploaded"}
        PROVE  s3'[ExecUser[f]] \subseteq exec'[f].local
    <3>1. exec'[f] = exec[f] /\ HasLock(f)
      BY <1>1, <2>1 DEF HasLock, Working
    <3>2. ExecUser[f] # ExecUser[e]
      BY <1>2, <2>1, <3>1, RowExcludes DEF LockInv, MutualExclusion
    <3>3. QED
      BY <1>3, <2>1, <3>1, <3>2, LockAssumption DEF LockInv, CopyIsComplete
  <2>2. QED
    BY <1>1, <1>3, <2>1 DEF CopyIsComplete
<1>7. NoLostTurn'
  BY <1>2, <1>3, LockAssumption DEF NoLostTurn, LockInv, Upload, TypeOK
<1>8. QED
  BY <1>5, <1>6, <1>7

\* DynamoDB deletes no row whose holder still works.
LEMMA TtlKeepsLock ==
  ASSUME LockInv, NEW u \in Users, TtlDelete(u)
  PROVE  LockOutlivesHolder' /\ CopyIsComplete' /\ NoLostTurn'
<1>1. ASSUME NEW f \in Execs, HasLock(f)
      PROVE  ExecUser[f] # u
  <2>1. exec[f].left \in 0..LambdaTimeout
    BY DEF LockInv, TypeOK, Exec
  <2>2. row[ExecUser[f]].left > exec[f].left
    BY <1>1 DEF LockInv, LockOutlivesHolder
  <2>3. QED
    BY <2>1, <2>2, LockAssumption DEF TtlDelete
<1>2. LockOutlivesHolder'
  BY <1>1, LockAssumption DEF LockInv, TypeOK, LockOutlivesHolder, HasLock, TtlDelete
<1>3. QED
  BY <1>2 DEF LockInv, CopyIsComplete, NoLostTurn, TtlDelete

\* Time brings the row's ttl no closer to its end than the holder to its own.
LEMMA TickKeepsLock ==
  ASSUME LockInv, Tick
  PROVE  LockOutlivesHolder' /\ CopyIsComplete' /\ NoLostTurn'
<1>1. \A f \in Execs : exec'[f].pc = exec[f].pc /\ exec'[f].local = exec[f].local
  BY DEF Tick, LockInv, TypeOK, Exec
<1>2. ASSUME NEW f \in Execs, HasLock(f)
      PROVE  LET r == row'[ExecUser[f]]
             IN  r.status = "Running" /\ r.holder = f /\ r.left \in Nat /\ r.left > exec'[f].left
  <2>1. /\ exec[f] \in Exec /\ exec[f].left > 0
        /\ exec'[f] = [exec[f] EXCEPT !.left = @ - 1]
    BY <1>2 DEF Tick, LockInv, TypeOK, HasLock, Alive
  <2>2. exec[f].left \in 0..LambdaTimeout /\ exec'[f].left = exec[f].left - 1
    BY <2>1 DEF Exec
  <2> DEFINE r == row[ExecUser[f]]
  <2>3. r \in Row /\ r.status = "Running" /\ r.holder = f /\ r.left \in Nat /\ r.left > exec[f].left
    BY <1>2, LockAssumption DEF LockInv, TypeOK, LockOutlivesHolder
  <2>4. row'[ExecUser[f]] = [r EXCEPT !.left = Less(@)]
    BY LockAssumption DEF Tick
  <2>5. Less(r.left) = r.left - 1 /\ r.left - 1 \in Nat /\ r.left - 1 > exec[f].left - 1
    BY <2>2, <2>3, LockAssumption DEF Less
  <2>6. QED
    BY <2>2, <2>3, <2>4, <2>5 DEF Row
<1>3. LockOutlivesHolder'
  BY <1>1, <1>2 DEF LockOutlivesHolder, HasLock
<1>4. CopyIsComplete'
  BY <1>1 DEF LockInv, CopyIsComplete, Tick
<1>5. QED
  BY <1>3, <1>4 DEF LockInv, NoLostTurn, Tick

\* LockInv is inductive.
LEMMA LockInvStep == LockInv /\ [Next]_lockVars => LockInv'
<1> SUFFICES ASSUME LockInv, [Next]_lockVars
             PROVE  LockInv'
  OBVIOUS
<1> DEFINE Unharmed == LockOutlivesHolder' /\ CopyIsComplete' /\ NoLostTurn'
<1>1. TypeOK'
  BY TypingStep DEF LockInv
<1>2. ASSUME NEW e \in Execs, LockStep(e)
      PROVE  Unharmed
  <2>1. CASE Acquire(e) \/ AcquireUnknowingly(e)
    BY <2>1, AcquireKeepsLock
  <2>2. CASE Busy(e) \/ ReleaseFails(e)
    BY <2>2, LeaveKeepsLock DEF Busy, ReleaseFails
  <2>3. CASE Release(e)
    BY <2>3, ReleaseKeepsLock
  <2>4. QED
    BY <1>2, <2>1, <2>2, <2>3 DEF LockStep
<1>3. ASSUME NEW e \in Execs, WorkStep(e)
      PROVE  Unharmed
  <2>1. CASE Invoke(e)
    <3>1. /\ exec'[e].pc = "invoked" /\ exec[e].pc = "new"
          /\ \A f \in Execs \ {e} : exec'[f] = exec[f]
      BY <2>1 DEF Invoke, LockInv, TypeOK, Exec
    <3>2. \A f \in Execs : HasLock(f)' => HasLock(f) /\ exec'[f] = exec[f]
      BY <3>1 DEF HasLock, Working
    <3>3. QED
      BY <2>1, <3>1, <3>2 DEF Invoke, LockInv, LockOutlivesHolder, CopyIsComplete, NoLostTurn
  <2>2. CASE FastReply(e) \/ UploadFails(e)
    BY <2>2, LeaveKeepsLock DEF FastReply, UploadFails, HasLock, Working
  <2>3. CASE Download(e)
    BY <2>3, DownloadKeepsLock
  <2>4. CASE RunAgent(e)
    BY <2>4, RunAgentKeepsLock
  <2>5. CASE Upload(e)
    BY <2>5, UploadKeepsLock
  <2>6. QED
    BY <1>3, <2>1, <2>2, <2>3, <2>4, <2>5 DEF WorkStep
<1>4. ASSUME NEW e \in Execs, Die(e)
      PROVE  Unharmed
  BY <1>4, LeaveKeepsLock DEF Die
<1>5. ASSUME NEW u \in Users, TtlDelete(u)
      PROVE  Unharmed
  BY <1>5, TtlKeepsLock
<1>6. ASSUME Tick
      PROVE  Unharmed
  BY <1>6, TickKeepsLock
<1>7. ASSUME UNCHANGED lockVars
      PROVE  Unharmed
  BY <1>7 DEF lockVars, LockInv, LockOutlivesHolder, CopyIsComplete, NoLostTurn, HasLock
<1>8. Unharmed
  BY <1>2, <1>3, <1>4, <1>5, <1>6, <1>7 DEF Next
<1>9. QED
  BY <1>1, <1>8 DEF LockInv

\* The inductive invariant holds in every reachable state.
THEOREM LockInvariance == Spec => []LockInv
<1>1. Init => LockInv
  BY TypingInit DEF Init, LockInv, LockOutlivesHolder, CopyIsComplete, NoLostTurn, HasLock, Working
<1>2. QED
  BY <1>1, LockInvStep, PTL DEF Spec

\* Two executions never work on one user's session at once.
THEOREM Exclusion == Spec => []MutualExclusion
<1>1. LockInv => MutualExclusion
  BY RowExcludes DEF LockInv
<1>2. QED
  BY <1>1, LockInvariance, PTL

\* No uploaded turn is ever missing from the session file.
THEOREM TurnsAreKept == Spec => []NoLostTurn
<1>1. LockInv => NoLostTurn
  BY DEF LockInv
<1>2. QED
  BY <1>1, LockInvariance, PTL

\* The lock and the session file implement the append-only transcript: an
\* upload appends, and every other step leaves the transcript alone.
THEOREM Refinement == Spec => TranscriptOnlyGrows
<1>1. Init => Transcript!Init
  BY DEF Init, Transcript!Init
<1>2. LockInv /\ [Next]_lockVars => [Transcript!Next]_s3
  <2> SUFFICES ASSUME LockInv, [Next]_lockVars, s3' # s3
               PROVE  Transcript!Next
    OBVIOUS
  <2>1. PICK e \in Execs : Upload(e)
    BY DEF Next, LockStep, WorkStep, Acquire, Busy, AcquireUnknowingly, Release, ReleaseFails,
           Invoke, FastReply, Download, RunAgent, UploadFails, Die, TtlDelete, Tick, lockVars
  <2>2. /\ ExecUser[e] \in Users
        /\ exec[e].local \in SUBSET Execs
        /\ s3[ExecUser[e]] \subseteq exec[e].local
    BY <2>1, LockAssumption DEF Upload, LockInv, TypeOK, Exec, CopyIsComplete
  <2>3. s3' = [s3 EXCEPT ![ExecUser[e]] = @ \cup exec[e].local]
    BY <2>1, <2>2 DEF Upload
  <2>4. QED
    BY <2>2, <2>3 DEF Transcript!Next, Transcript!Append
<1>3. QED
  BY <1>1, <1>2, LockInvariance, PTL DEF Spec, TranscriptOnlyGrows, Transcript!Spec
=============================================================================
