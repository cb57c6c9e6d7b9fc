---------------------------- MODULE SessionLock ----------------------------
(***************************************************************************)
(* One run of the Lambda agent per session at a time: the lock of          *)
(* packages/lambda-agent/src/session-lock.ts, a conditional Put on the     *)
(* user's row of the TaskState table, around the work of handler.ts, which *)
(* reads the whole session file from S3, appends a turn and writes the     *)
(* whole file back (session-sync.ts).  AGENT_RUNTIME is "lambda": the      *)
(* watchdog and the prewarm handler return at once, nobody else writes the *)
(* row.                                                                    *)
(*                                                                         *)
(* Time is what is left: of a lock row until DynamoDB may delete it, of an *)
(* execution until Lambda kills it.                                        *)
(***************************************************************************)
EXTENDS Naturals, FiniteSets

CONSTANTS
  Users,
  Execs,          \* executions of the agent function, which are also turns
  ExecUser,       \* the user of each execution
  LambdaTimeout,  \* the function's timeout, 15 minutes
  LockTtl,        \* the lock row's ttl, 900 seconds
  NoTtl,          \* a row that never expires
  Nobody

\* A second past its ttl an item may be deleted, not earlier: with equal limits
\* the lock outlives the execution, which started before it took the lock.
ASSUME LockAssumption ==
  /\ ExecUser \in [Execs -> Users]
  /\ LambdaTimeout \in Nat
  /\ LockTtl \in Nat
  /\ LockTtl >= LambdaTimeout
  /\ NoTtl \notin Nat
  /\ Nobody \notin Execs

VARIABLES
  row,   \* TaskState: the row of each user
  exec,  \* the executions
  s3,    \* the session file of each user: the turns it holds
  kept   \* history: turns that have been uploaded

lockVars == <<row, exec, s3, kept>>

Row == [status: {"Absent", "Idle", "Running"},
        holder: Execs \cup {Nobody},
        left: (0..LockTtl + 1) \cup {NoTtl}]

NoRow == [status |-> "Absent", holder |-> Nobody, left |-> NoTtl]

\* What a Fargate container leaves behind when it shuts down.
IdleRow == [NoRow EXCEPT !.status = "Idle"]

\* The points of the handler at which it holds the lock.
Working == {"locked", "loaded", "ran", "uploaded", "replied"}

Alive == Working \cup {"invoked"}

HasLock(e) == exec[e].pc \in Working

Exec == [pc: {"new", "ended"} \cup Alive,
         left: 0..LambdaTimeout,   \* until Lambda kills it
         local: SUBSET Execs]      \* the turns of its local session file

Goto(e, pc) == exec' = [exec EXCEPT ![e].pc = pc]

\* Mutants: a ttl no longer than the timeout, and none.
LockRowExpiresEarly(e) == [status |-> "Running", holder |-> e, left |-> LockTtl]

LockRowWithoutTtl(e) == [status |-> "Running", holder |-> e, left |-> NoTtl]

LockRow(e) == [status |-> "Running", holder |-> e, left |-> LockTtl + 1]

-----------------------------------------------------------------------------
(***************************************************************************)
(* SessionLock                                                             *)
(***************************************************************************)

\* Mutant: the Put has no condition.
LockIsAlwaysFree(u) == TRUE

\* attribute_not_exists(PK) OR status <> "Running"
LockIsFree(u) == row[u].status # "Running"

Acquire(e) ==
  /\ exec[e].pc = "invoked"
  /\ LockIsFree(ExecUser[e])
  /\ row' = [row EXCEPT ![ExecUser[e]] = LockRow(e)]
  /\ Goto(e, "locked")
  /\ UNCHANGED <<s3, kept>>

\* The condition failed: the caller is told that the session is busy.
Busy(e) ==
  /\ exec[e].pc = "invoked"
  /\ ~LockIsFree(ExecUser[e])
  /\ Goto(e, "ended")
  /\ UNCHANGED <<row, s3, kept>>

\* The Put was applied, its answer was lost, and the client's own retry failed
\* the condition: acquire returns false though the row names this execution.
AcquireUnknowingly(e) ==
  /\ exec[e].pc = "invoked"
  /\ LockIsFree(ExecUser[e])
  /\ row' = [row EXCEPT ![ExecUser[e]] = LockRow(e)]
  /\ Goto(e, "ended")
  /\ UNCHANGED <<s3, kept>>

\* Conditional Delete: only the row this execution wrote.
Release(e) ==
  /\ exec[e].pc \in {"uploaded", "replied"}
  /\ row' = [row EXCEPT ![ExecUser[e]] = IF @.holder = e THEN NoRow ELSE @]
  /\ Goto(e, "ended")
  /\ UNCHANGED <<s3, kept>>

\* Any error of the Delete is swallowed.
ReleaseFails(e) ==
  /\ exec[e].pc \in {"uploaded", "replied"}
  /\ Goto(e, "ended")
  /\ UNCHANGED <<row, s3, kept>>

-----------------------------------------------------------------------------
(***************************************************************************)
(* handler.ts and session-sync.ts                                          *)
(***************************************************************************)

Invoke(e) ==
  /\ exec[e].pc = "new"
  /\ exec' = [exec EXCEPT ![e] = [@ EXCEPT !.pc = "invoked", !.left = LambdaTimeout]]
  /\ UNCHANGED <<row, s3, kept>>

\* The replies that need no session file: self state, costs, images, blocked
\* tools, direct Bedrock chat.
FastReply(e) ==
  /\ exec[e].pc = "locked"
  /\ Goto(e, "replied")
  /\ UNCHANGED <<row, s3, kept>>

\* Files of this user in /tmp: a warm sandbox keeps what an earlier execution
\* left there, uploaded or not.
Leftovers(e) == {exec[f].local : f \in {g \in Execs : ExecUser[g] = ExecUser[e] /\ exec[g].pc = "ended"}}

\* Mutant: an error of the download is swallowed.
DownloadBestEffort(e) ==
  /\ exec[e].pc = "locked"
  /\ \E file \in {s3[ExecUser[e]], {}} :
       exec' = [exec EXCEPT ![e] = [@ EXCEPT !.pc = "loaded", !.local = file]]
  /\ UNCHANGED <<row, s3, kept>>

\* The local file is overwritten, unless S3 has no session file yet.
Download(e) ==
  /\ exec[e].pc = "locked"
  /\ \E file \in {s3[ExecUser[e]]} \cup (IF s3[ExecUser[e]] = {} THEN Leftovers(e) ELSE {}) :
       exec' = [exec EXCEPT ![e] = [@ EXCEPT !.pc = "loaded", !.local = file]]
  /\ UNCHANGED <<row, s3, kept>>

\* Mutant: the agent starts the file anew.
RunAgentRewrites(e) ==
  /\ exec[e].pc = "loaded"
  /\ exec' = [exec EXCEPT ![e] = [@ EXCEPT !.pc = "ran", !.local = {e}]]
  /\ UNCHANGED <<row, s3, kept>>

\* The agent appends its turn to the local file; if it throws it may not have.
RunAgent(e) ==
  /\ exec[e].pc = "loaded"
  /\ \E turn \in {{e}, {}} :
       exec' = [exec EXCEPT ![e] = [@ EXCEPT !.pc = "ran", !.local = exec[e].local \cup turn]]
  /\ UNCHANGED <<row, s3, kept>>

\* The whole file is written back; again if the push after it throws.
Upload(e) ==
  /\ exec[e].pc \in {"ran", "uploaded"}
  /\ s3' = [s3 EXCEPT ![ExecUser[e]] = exec[e].local]
  /\ kept' = kept \cup (exec[e].local \cap {e})
  /\ Goto(e, "uploaded")
  /\ UNCHANGED row

\* Both uploads fail: the handler throws, after releasing the lock.
UploadFails(e) ==
  /\ exec[e].pc = "ran"
  /\ Goto(e, "replied")
  /\ UNCHANGED <<row, s3, kept>>

\* The execution ends without a release: a throw before the try block (set-up,
\* download, a push of a fast reply), or the end of its sandbox.
Die(e) ==
  /\ exec[e].pc \in Alive
  /\ Goto(e, "ended")
  /\ UNCHANGED <<row, s3, kept>>

TimedOut(e) == exec[e].left = 0 /\ Die(e)

-----------------------------------------------------------------------------
(***************************************************************************)
(* Time                                                                    *)
(***************************************************************************)

TtlDelete(u) ==
  /\ row[u].left = 0
  /\ row' = [row EXCEPT ![u] = NoRow]
  /\ UNCHANGED <<exec, s3, kept>>

Less(n) == IF n = NoTtl \/ n = 0 THEN n ELSE n - 1

\* Lambda lets no execution live past its timeout.
Tick ==
  /\ \A e \in Execs : exec[e].pc \in Alive => exec[e].left > 0
  /\ \/ \E u \in Users : row[u].left \notin {0, NoTtl}
     \/ \E e \in Execs : exec[e].pc \in Alive
  /\ row' = [u \in Users |-> [row[u] EXCEPT !.left = Less(@)]]
  /\ exec' = [e \in Execs |->
       IF exec[e].pc \in Alive THEN [exec[e] EXCEPT !.left = @ - 1] ELSE exec[e]]
  /\ UNCHANGED <<s3, kept>>

Init ==
  /\ row \in [Users -> {NoRow, IdleRow}]
  /\ exec = [e \in Execs |-> [pc |-> "new", left |-> 0, local |-> {}]]
  /\ s3 = [u \in Users |-> {}]
  /\ kept = {}

LockStep(e) == Acquire(e) \/ Busy(e) \/ AcquireUnknowingly(e) \/ Release(e) \/ ReleaseFails(e)

WorkStep(e) == Invoke(e) \/ FastReply(e) \/ Download(e) \/ RunAgent(e) \/ Upload(e) \/ UploadFails(e)

Next ==
  \/ \E e \in Execs : LockStep(e) \/ WorkStep(e) \/ Die(e)
  \/ \E u \in Users : TtlDelete(u)
  \/ Tick

\* The clock runs, Lambda enforces its timeout, DynamoDB deletes expired items.
\* Nothing is assumed of the code itself.
Fairness ==
  /\ WF_lockVars(Tick)
  /\ \A e \in Execs : WF_lockVars(TimedOut(e))
  /\ \A u \in Users : WF_lockVars(TtlDelete(u))

Spec == Init /\ [][Next]_lockVars

FairSpec == Spec /\ Fairness

-----------------------------------------------------------------------------

\* Every variable has its type.
TypeOK ==
  /\ row \in [Users -> Row]
  /\ exec \in [Execs -> Exec]
  /\ s3 \in [Users -> SUBSET Execs]
  /\ kept \subseteq Execs

\* "Returns true if acquired, false if another execution holds it"
\* (session-lock.ts): two executions never work on one user's session at once,
\* through crashes, lost answers, failed releases and the ttl.
MutualExclusion ==
  \A e, f \in Execs : HasLock(e) /\ HasLock(f) /\ ExecUser[e] = ExecUser[f] => e = f

\* "15-min TTL lock prevents concurrent session corruption" (docs/progress.md):
\* a turn that was uploaded is never lost from the session file, though every
\* upload overwrites the whole file with what its execution downloaded.
NoLostTurn ==
  \A e \in kept : e \in s3[ExecUser[e]]

\* The lock is the row: while an execution works, the row names it and outlives it.
LockOutlivesHolder ==
  \A e \in Execs : HasLock(e) =>
    LET r == row[ExecUser[e]]
    IN  r.status = "Running" /\ r.holder = e /\ r.left \in Nat /\ r.left > exec[e].left

\* The local copy of an execution that holds the lock has everything S3 has.
CopyIsComplete ==
  \A e \in Execs : exec[e].pc \in {"loaded", "ran", "uploaded"} =>
    s3[ExecUser[e]] \subseteq exec[e].local

\* The inductive invariant.
LockInv == TypeOK /\ LockOutlivesHolder /\ CopyIsComplete /\ NoLostTurn

\* The session file is an append-only transcript.
Transcript == INSTANCE SessionTranscript WITH Turns <- Execs, transcript <- s3

TranscriptOnlyGrows == Transcript!Spec

\* No crash, timeout or lost answer locks a user out for good: whatever
\* execution holds the row, the row stops naming it.
LockEventuallyFreed ==
  \A u \in Users : \A e \in Execs : row[u].holder = e ~> row[u].holder # e
=============================================================================
