------------------------------- MODULE GmailTool -------------------------------
(***************************************************************************)
(* maybeHandleCustomGmailRequest of packages/container/src/gmail-tool.ts,   *)
(* cut at its awaits.  The turns of one user's conversation run in the      *)
(* processes of his runtimes (AgentCore, a Fargate task, its successor), and *)
(* in one process side by side when the bridge accepts them so.             *)
(*                                                                         *)
(* The advisor (a language model, or the rules of slm/mock-local.ts) may    *)
(* decide anything it is allowed to.  A search sees one mailbox.            *)
(***************************************************************************)
EXTENDS ToolContext, PaymentScan, FiniteSets

CONSTANTS
  Turns,
  Messages,     \* what the user says
  Decisions,    \* what the advisor may decide
  Mailboxes,
  MaxFailures,  \* bound: calls of the table that fail
  Uncertain

Signs ==
  {"capability", "cancel", "gmailConfirm", "generalConfirm", "short", "payment", "explicit",
   "sure", "followUp", "body", "attachment", "trip", "refine", "expanded", "deep", "sum",
   "coverage", "issuer", "lookup", "longLookup", "tripLookup", "reusable"}

Families == {"payment", "search", "body"}
Actions == {"start", "gmail", "continue", "refine", "rerun", "cancel", "chat", "capability",
            "clarify"}
Intents == {"none", "continue", "refine_topic", "refine_date", "issuer", "coverage", "open_body",
            "cancel"}
Sources == {"gmail", "general", "null"}

Goals == [signs: SUBSET Signs, period: Periods]
Decision == [action: Actions, family: Families, source: Sources, intent: Intents]

\* GMAIL_CONFIRM_PATTERN is anchored: it leaves no room for a period.
ASSUME MessagesAssumption ==
  /\ Messages \subseteq Goals
  /\ \A m \in Messages : Is(m, "gmailConfirm") => m.period = "any"
ASSUME DecisionsAssumption == Decisions \subseteq Decision
ASSUME MaxFailuresAssumption == MaxFailures \in Nat
\* Gmail gives every mail an id of its own.
ASSUME MailboxesAssumption ==
  \A box \in Mailboxes :
    /\ box \in Seq(Mails)
    /\ \A i, j \in DOMAIN box : box[i].id = box[j].id => i = j

VARIABLES
  mailbox,
  fastPath,   \* TOOL_DETERMINISTIC_PAYMENT_FAST_PATH
  turn,
  failures,   \* calls of the table that have failed
  latest,     \* the context that the last turn left, where that is certain
  owner       \* the process of that turn

vars == <<mailbox, fastPath, storeVars, turn, failures, latest, owner>>


NoMessage == [signs |-> {}, period |-> "any"]
NoDecision == [action |-> "none", family |-> "search", source |-> "null", intent |-> "none"]

Pcs == {"idle", "read", "got", "branch", "active", "advise", "advised", "payment", "store",
        "search", "hunt", "found", "refine", "issuer", "format", "readvise", "final", "done"}

Kinds == {"none", "capability", "cancelled", "prompt", "unavailable", "forward", "handoff", "body",
          "cached", "found", "unclear", "failed"}

Context ==
  [status: {"awaiting", "active"},   \* an active task has chosen Gmail
   family: Families,
   goal: Goals,
   records: Seq(Mails),
   mails: Seq(Mails),
   trip: BOOLEAN,
   refined: BOOLEAN,               \* refinedFromFollowUp
   limit: Nat,
   resends: 0..1,
   age: {Fresh, Stale}]

ASSUME ValuesAssumption ==
  /\ Context \cap {NoContext, Over, Uncertain} = {}
  /\ NoContext # Over /\ Uncertain \notin {NoContext, Over}

Answer(kind) == [kind |-> kind, records |-> <<>>, mails |-> <<>>, limit |-> 0, bodies |-> 0]

NoHunt == NewHunt("done", FALSE, 0)

IdleTurn ==
  [pc |-> "idle", next |-> "idle", process |-> CHOOSE p \in Processes : TRUE, message |-> NoMessage,
   ready |-> FALSE, reads |-> 0, context |-> NoContext, decision |-> NoDecision,
   family |-> "none", job |-> "search", goal |-> NoMessage, hunt |-> NoHunt, answer |-> Answer("none"),
   expected |-> Uncertain, alone |-> FALSE, sound |-> TRUE, wrote |-> FALSE]

Answers == [kind: Kinds, records: Seq(Mails), mails: Seq(Mails), limit: Nat, bodies: Nat]

Turn ==
  [pc: Pcs, next: Pcs, process: Processes, message: Messages \cup {NoMessage}, ready: BOOLEAN,
   reads: 0..3, context: Context \cup {NoContext, Over}, decision: Decisions \cup {NoDecision},
   family: Families \cup {"none"}, job: Families \cup {"topic"}, goal: Goals, hunt: Hunts,
   answer: Answers, expected: Context \cup {NoContext, Over, Uncertain},
   alone: BOOLEAN, sound: BOOLEAN, wrote: BOOLEAN]

At(t, pc) == turn[t].pc = pc
Active(t) == turn[t].pc # "idle"
Says(t, sign) == Is(turn[t].message, sign)
Message(t) == turn[t].message
Task(t) == turn[t].context
IsActive(c) == c # NoContext /\ c.status = "active"

Still == UNCHANGED <<mailbox, fastPath, failures, latest, owner>>

-----------------------------------------------------------------------------
(* What a step does besides: answer, or change the context.                     *)

Goto(t, pc) == turn' = [turn EXCEPT ![t].pc = pc] /\ UNCHANGED storeVars
Reply(t, answer) ==
  turn' = [turn EXCEPT ![t].pc = "done", ![t].answer = answer] /\ UNCHANGED storeVars
Say(t, kind) == Reply(t, Answer(kind))

\* setTaskContext: the memory now, the row in a step of its own.
SetAnd(t, c, next, job, goal, answer) ==
  /\ SetMemory(turn[t].process, c)
  /\ turn' = [turn EXCEPT ![t].pc = "store", ![t].context = c, ![t].next = next,
                          ![t].job = job, ![t].goal = goal, ![t].answer = answer]

Set(t, c, next) == SetAnd(t, c, next, turn[t].job, turn[t].goal, turn[t].answer)

\* clearTaskContext
ClearAnd(t, next, job, goal, answer) == SetAnd(t, NoContext, next, job, goal, answer)
Drop(t, kind) == ClearAnd(t, "done", turn[t].job, NoMessage, Answer(kind))

StartSearch(t, job, goal) ==
  /\ turn' = [turn EXCEPT ![t].pc = "search", ![t].job = job, ![t].goal = goal]
  /\ UNCHANGED storeVars

CallFails ==
  /\ failures < MaxFailures
  /\ failures' = failures + 1
  /\ UNCHANGED <<mailbox, fastPath, storeVars, latest, owner>>

\* The PutItem or DeleteItem, whose failure is logged and forgotten.
Store(t) ==
  /\ At(t, "store")
  /\ \/ /\ WriteRow(Task(t))
        /\ turn' = [turn EXCEPT ![t].pc = turn[t].next, ![t].wrote = TRUE]
        /\ Still
     \/ /\ CallFails
        /\ turn' = [turn EXCEPT ![t].pc = turn[t].next, ![t].wrote = TRUE, ![t].sound = FALSE]

-----------------------------------------------------------------------------
(* getTaskContext, three times: twice before the question of the source, once   *)
(* after it.  It asks the row only when the memory has nothing.                 *)

\* isGmailReady is asked by the bridge before.
Begin(t, p, m, ready) ==
  LET others == {u \in Turns : Active(u)}
  IN  /\ At(t, "idle")
      /\ turn' = [u \in Turns |->
           IF u = t
           THEN [IdleTurn EXCEPT
                  !.pc = "read", !.process = p, !.message = m, !.ready = ready,
                  !.alone = others = {},
                  !.expected = IF others = {} /\ (p = owner \/ memory[p] = NoContext)
                               THEN latest ELSE Uncertain]
           ELSE IF u \in others THEN [turn[u] EXCEPT !.alone = FALSE] ELSE turn[u]]
      /\ UNCHANGED storeVars
      /\ Still

AfterHit(t) == IF turn[t].reads < 2 THEN "branch" ELSE "active"
AfterMiss(t) == CASE turn[t].reads = 0 -> "read" [] turn[t].reads = 1 -> "branch" [] OTHER -> "active"

Hit(t) ==
  /\ At(t, "read")
  /\ memory[turn[t].process] # NoContext
  /\ turn' = [turn EXCEPT ![t].context = memory[turn[t].process], ![t].pc = AfterHit(t),
                          ![t].reads = 2, ![t].family = memory[turn[t].process].family]
  /\ UNCHANGED storeVars
  /\ Still

\* The GetItem, whose failure is as good as an empty row.
Get(t) ==
  /\ At(t, "read")
  /\ memory[turn[t].process] = NoContext
  /\ \/ /\ turn' = [turn EXCEPT ![t].pc = "got", ![t].context = row]
        /\ UNCHANGED storeVars
        /\ Still
     \/ /\ CallFails
        /\ turn' = [turn EXCEPT ![t].pc = "got", ![t].context = NoContext, ![t].sound = FALSE]

Got(t) ==
  LET c == Task(t)
  IN  /\ At(t, "got")
      /\ \/ /\ Valid(c)
            /\ Keep(turn[t].process, c)
            /\ turn' = [turn EXCEPT ![t].pc = AfterHit(t), ![t].reads = 2, ![t].family = c.family]
         \/ /\ c = Over         \* it is deleted
            /\ ClearMemory(turn[t].process)
            /\ turn' = [turn EXCEPT ![t].pc = "store", ![t].next = AfterMiss(t),
                                    ![t].context = NoContext, ![t].reads = @ + 1]
         \/ /\ c = NoContext
            /\ turn' = [turn EXCEPT ![t].pc = AfterMiss(t), ![t].reads = @ + 1]
            /\ UNCHANGED storeVars
      /\ Still

-----------------------------------------------------------------------------
(* The question whether Gmail can be read, and the answer to "Gmail or a general *)
(* answer?" (handleAwaitingSourceContext).                                      *)

Capability(t) ==
  /\ At(t, "branch")
  /\ Says(t, "capability")
  /\ \/ Task(t) # NoContext /\ Drop(t, "capability")
     \/ Task(t) = NoContext /\ Say(t, "capability")
  /\ Still

Prompt(t, c) ==
  SetAnd(t, [c EXCEPT !.age = Fresh], "done", turn[t].job, NoMessage, Answer("prompt"))

\* Mutant: the question is asked again and again.
MayAlwaysAsk(t, c) == Says(t, "short")

MayAskAgain(t, c) == Says(t, "short") /\ c.resends < 1

Awaiting(t) ==
  LET c == Task(t)
  IN  /\ At(t, "branch")
      /\ ~Says(t, "capability")
      /\ c # NoContext /\ c.status = "awaiting"
      /\ CASE Says(t, "cancel") -> Drop(t, "cancelled")
           [] ~Says(t, "cancel") /\ Says(t, "gmailConfirm") ->
                IF turn[t].ready THEN StartSearch(t, c.family, c.goal) ELSE Drop(t, "unavailable")
           [] ~Says(t, "cancel") /\ Says(t, "generalConfirm") -> Drop(t, "forward")
           [] OTHER ->
                IF MayAskAgain(t, c) THEN Prompt(t, [c EXCEPT !.resends = @ + 1])
                ELSE ClearAnd(t, "read", turn[t].job, NoMessage, turn[t].answer)
      /\ Still

NotAwaiting(t) ==
  /\ At(t, "branch")
  /\ ~Says(t, "capability")
  /\ Task(t) = NoContext \/ IsActive(Task(t))
  /\ Goto(t, "read")
  /\ Still

-----------------------------------------------------------------------------
(* Is the message a new question, or one about the answer of the last?          *)

Reusable(c, m) ==
  /\ IsActive(c) /\ c.family = "payment" /\ c.records # <<>> /\ c.age = Fresh
  /\ Is(m, "reusable") /\ ~Is(m, "expanded") /\ ~Is(m, "coverage") /\ ~Is(m, "refine")
  /\ ~c.trip
  /\ c.goal.period = m.period

\* shouldForceRestartActivePaymentLookup
MustRestart(c, m) ==
  /\ IsActive(c) /\ c.family = "payment"
  /\ Is(m, "payment")
  /\ m.signs \cap {"cancel", "body", "attachment", "coverage", "refine"} = {}
  /\ ~Reusable(c, m)
  /\ m.signs \cap {"tripLookup", "explicit", "lookup"} # {} \/ m.period # "any"

\* isFreshPaymentLookupRequest
IsFreshLookup(c, m, intent) ==
  /\ IsActive(c)
  /\ Is(m, "payment")
  /\ m.signs \cap {"cancel", "body", "attachment"} = {}
  /\ \/ Is(m, "tripLookup")
     \/ /\ intent \in {"none", "continue"}
        /\ \/ Is(m, "trip")
           \/ m.signs \cap {"followUp", "refine"} = {} /\ Is(m, "longLookup")

\* isClearlyUnrelated
Unrelated(m) == m.signs \cap {"payment", "explicit", "followUp", "body", "refine"} = {}

\* shouldPreferPaymentSummaryTask
PrefersPayment(c, m) ==
  /\ m.signs \cap {"body", "attachment"} = {}
  /\ \/ m.signs \cap {"payment", "followUp", "refine"} # {}
     \/ c # NoContext /\ (c.family = "payment" \/ c.records # <<>>
                            \/ c.goal.signs \cap {"payment", "refine"} # {})

\* restartPaymentTaskFromActiveContext
Restart(t) ==
  IF turn[t].ready THEN ClearAnd(t, "search", "payment", Message(t), turn[t].answer)
  ELSE Drop(t, "unavailable")

-----------------------------------------------------------------------------
(* With the context read the third time: an answer without the advisor, or his  *)
(* advice.                                                                      *)

StartsGmail(m) == m.signs \cap {"explicit", "payment", "body"} # {}

\* The fast path takes a new lookup out of the context's records, if it can.
OnFastPath(t) ==
  /\ fastPath /\ turn[t].ready /\ Says(t, "sure")
  /\ \/ /\ IsActive(Task(t)) /\ Task(t).family = "payment"
        /\ IsFreshLookup(Task(t), Message(t), "none")
     \/ Task(t) = NoContext /\ StartsGmail(Message(t))

Decide(t) ==
  LET c == Task(t)
      restarts == turn[t].ready /\ MustRestart(c, Message(t))
  IN  /\ At(t, "active")
      /\ \/ restarts /\ Restart(t)
         \/ /\ ~restarts /\ OnFastPath(t)
            /\ \/ /\ Reusable(c, Message(t))
                  /\ Set(t, Touched(c), "format")
               \/ c # NoContext /\ ~Reusable(c, Message(t)) /\ Restart(t)
               \/ c = NoContext /\ StartSearch(t, "payment", Message(t))
         \/ ~restarts /\ ~OnFastPath(t) /\ Goto(t, "advise")
      /\ Still

\* decideToolIntent: late, unsure or unusable advice is none.
Starts(d) == d.action \in {"start", "gmail"}
NeedsGmail(d) == d.source = "gmail" /\ (Starts(d) \/ d.action \in {"continue", "refine", "rerun"})

Advise(t) ==
  /\ At(t, "advise") \/ At(t, "readvise")
  /\ \E d \in {NoDecision} \cup {d \in Decisions : turn[t].ready \/ ~NeedsGmail(d)} :
       turn' = [turn EXCEPT ![t].decision = d,
                            ![t].pc = IF @ = "advise" THEN "advised" ELSE "final"]
  /\ UNCHANGED storeVars
  /\ Still

-----------------------------------------------------------------------------
(* handleActiveTaskContext                                                      *)

\* Whether the advisor has this payment task in mind.
Means(d) == d # NoDecision /\ d.family = "payment" /\ d.source # "general"

Upgrades(c, m, d) ==
  /\ IsActive(c) /\ c.family = "search"
  /\ (Means(d) /\ (Starts(d) \/ d.action \in {"continue", "refine", "rerun", "cancel"}))
       \/ PrefersPayment(c, m)

Cancels(m, d) == Is(m, "cancel") \/ d.action = "cancel" \/ d.intent = "cancel"

\* Whether it has an answer at all.
Handles(c, m, d) ==
  \/ Cancels(m, d)
  \/ Unrelated(m)
  \/ Upgrades(c, m, d)
  \/ IsActive(c) /\ c.family = "payment"

HandleActive(t, d) ==
  LET c == Task(t)
      m == Message(t)
  IN  /\ Handles(c, m, d)
      /\ IF Cancels(m, d) THEN Drop(t, "cancelled")
         ELSE IF Unrelated(m) THEN Drop(t, "handoff")
         ELSE IF Upgrades(c, m, d)
         THEN SetAnd(t, [c EXCEPT !.family = "payment", !.age = Fresh,
                                  !.records = IF @ = <<>> THEN Records(c.mails) ELSE @],
                     "payment", "search", NoMessage, turn[t].answer)
         ELSE Goto(t, "payment")

Advised(t) ==
  LET d == turn[t].decision
  IN  /\ At(t, "advised")
      /\ IF ~IsActive(Task(t)) THEN Goto(t, "final")
         ELSE IF d.action = "capability" THEN Say(t, "capability")
         ELSE IF d.action = "chat" THEN Drop(t, "handoff")
         ELSE IF \/ d.action = "start" /\ d.family = "payment" /\ d.source = "gmail"
                 \/ IsFreshLookup(Task(t), Message(t), d.intent) THEN Restart(t)
         ELSE \/ HandleActive(t, d)
              \/ /\ ~Handles(Task(t), Message(t), d)
                 /\ Goto(t, IF d = NoDecision THEN "readvise" ELSE "final")
      /\ Still

\* The goals of a search that is made again.
Wider(goal, m) ==
  LET joined == Joined(goal, m) IN [joined EXCEPT !.signs = @ \cup {"expanded", "coverage"}]
OfPeriod(m) == [m EXCEPT !.signs = @ \cup {"payment", "sum"}]
Again(goal, m) == IF Is(m, "expanded") THEN Joined(goal, m) ELSE goal

\* A follow-up of a payment task.  turn[t].family is what the task was before:
\* a search that has just become a payment task is not made again for a date.
\* Mutant: the follow-up's period is not looked at.
FollowUpOfAnyPeriod(t) ==
  LET c == Touched(Task(t))
      m == Message(t)
      d == turn[t].decision
      searches(goal) ==
        IF turn[t].ready THEN SetAnd(t, c, "search", "payment", goal, turn[t].answer)
        ELSE SetAnd(t, c, "done", "payment", NoMessage, Answer("unavailable"))
  IN  IF d.intent = "refine_date" THEN searches(OfPeriod(m)) ELSE Set(t, c, "format")

FollowUp(t) ==
  LET c == Touched(Task(t))
      m == Message(t)
      d == turn[t].decision
      coverage == d.intent = "coverage" \/ Is(m, "coverage")
      searches(goal) ==
        IF turn[t].ready THEN SetAnd(t, c, "search", "payment", goal, turn[t].answer)
        ELSE SetAnd(t, c, "done", "payment", NoMessage, Answer("unavailable"))
  IN  IF coverage /\ ~Is(m, "refine") /\ CoverageLimit(m, coverage) > c.limit
      THEN searches(Wider(c.goal, m))
      ELSE IF turn[t].family = "payment" /\ (d.intent = "refine_date" \/ m.period # "any")
      THEN searches(OfPeriod(m))
      ELSE IF Means(d) /\ (d.action = "rerun" \/ d.intent = "coverage")
      THEN IF c.trip THEN Set(t, c, "refine") ELSE searches(Again(c.goal, m))
      ELSE IF \/ d.intent = "refine_topic" \/ Is(m, "refine")
              \/ Means(d) /\ d.action = "refine" /\ Is(m, "trip")
      THEN Set(t, c, "refine")
      ELSE IF /\ d.intent = "issuer" \/ Is(m, "issuer")
              /\ turn[t].ready
              /\ \E i \in DOMAIN c.records : c.records[i].issuer # "header"
      THEN Set(t, c, "issuer")
      ELSE Set(t, c, "format")

Payment(t) ==
  /\ At(t, "payment")
  /\ IF turn[t].decision.intent = "open_body" \/ Says(t, "body") \/ Says(t, "attachment")
     THEN IF turn[t].ready
          THEN SetAnd(t, Touched(Task(t)), "search", "body", Message(t), turn[t].answer)
          ELSE Say(t, "unavailable")
     ELSE FollowUp(t)
  /\ Still

-----------------------------------------------------------------------------
(* What follows, with calls of Gmail.                                           *)

\* refreshAccessToken is refused, or a call throws.
GmailFails(t) ==
  /\ turn[t].pc \in {"search", "hunt", "refine", "issuer"}
  /\ \/ At(t, "issuer") /\ Goto(t, "format")
     \/ turn[t].pc \in {"search", "refine"} /\ Say(t, "unavailable")
     \/ Say(t, "failed")
  /\ Still

\* runGmailTask opens one mail, when the message selects one of the last list,
OpenBody(t) ==
  /\ At(t, "search")
  /\ Is(turn[t].goal, "body")
  /\ ~Is(turn[t].goal, "attachment")
  /\ \/ Say(t, "unclear")
     \/ LastMails(turn[t].process) # <<>> /\ Reply(t, [Answer("body") EXCEPT !.bodies = 1])
  /\ Still

NoAttachment(t) ==
  /\ At(t, "search")
  /\ Is(turn[t].goal, "attachment")
  /\ Say(t, "unclear")
  /\ Still

\* or searches: it starts a hunt,
Search(t) ==
  /\ At(t, "search")
  /\ turn[t].goal.signs \cap {"body", "attachment"} = {}
  /\ turn' = [turn EXCEPT ![t].pc = "hunt", ![t].hunt = StartHunt(turn[t].goal, turn[t].job)]
  /\ UNCHANGED storeVars
  /\ Still

\* makes the calls of one stage after the other,
Hunt(t) ==
  /\ At(t, "hunt")
  /\ \E h \in {Called(mailbox, turn[t].goal, turn[t].hunt)} :
     \E next \in {Onward(turn[t].goal, h)} :
       turn' = [turn EXCEPT ![t].hunt = next,
                            ![t].pc = IF next.stage = "done" THEN "found" ELSE "hunt"]
  /\ UNCHANGED storeVars
  /\ Still

\* and keeps the list and the task together.  (Of the list, the first mail stands
\* for the one that the user picks.)
Found(t) ==
  LET h == turn[t].hunt
      family == turn[t].job
      c == [status |-> "active", family |-> family, goal |-> turn[t].goal,
            records |-> h.records, mails |-> Kept(h), trip |-> h.trip,
            refined |-> FALSE, limit |-> h.limit, resends |-> 0, age |-> Fresh]
  IN  /\ At(t, "found")
      /\ family # "topic"
      /\ SetSearch(turn[t].process, AtMost(1, c.mails), c)
      /\ turn' = [turn EXCEPT
           ![t].pc = "store", ![t].next = "done", ![t].context = c, ![t].hunt = NoHunt,
           ![t].answer = [kind |-> IF family = "payment" /\ c.records = <<>> THEN "unclear"
                                   ELSE "found",
                          records |-> c.records, mails |-> c.mails, limit |-> c.limit,
                          bodies |-> h.bodies]]
      /\ Still

Cached(c, bodies) == [Answer("cached") EXCEPT !.records = c.records, !.bodies = bodies]

\* refineActivePaymentContextByTopic: among the records, then in their bodies,
Refine(t) ==
  LET c == Task(t)
      trip == c.trip \/ Is(c.goal, "trip") \/ Says(t, "trip")
      goal == Joined(c.goal, Message(t))
      here == OnTrip(c.records, trip)
      keeps(records, bodies) ==
        SetAnd(t, [c EXCEPT !.trip = trip, !.refined = TRUE, !.records = records, !.age = Fresh],
               "done", "payment", NoMessage, Cached([c EXCEPT !.records = records], bodies))
  IN  /\ At(t, "refine")
      /\ IF here # <<>> THEN keeps(here, 0)
         ELSE IF ~turn[t].ready THEN Say(t, "unavailable")
         ELSE \E opened \in {ReadForTrip(c.records)} :
                IF OnTrip(opened.records, trip) # <<>>
                THEN keeps(OnTrip(opened.records, trip), opened.bodies)
                ELSE /\ turn' = [turn EXCEPT
                           ![t].pc = "hunt", ![t].job = "topic", ![t].goal = goal,
                           ![t].hunt = [NewHunt("few", trip, FewCandidates(goal)) EXCEPT
                                          !.bodies = opened.bodies]]
                     /\ UNCHANGED storeVars
      /\ Still

\* then in a search, which leaves the last list as it is.
FoundTopic(t) ==
  LET h == turn[t].hunt
      c == [Task(t) EXCEPT !.trip = h.trip, !.refined = TRUE, !.records = h.records,
                           !.mails = h.mails, !.age = Fresh]
  IN  /\ At(t, "found")
      /\ turn[t].job = "topic"
      /\ IF h.records = <<>> THEN Reply(t, [Answer("unclear") EXCEPT !.bodies = h.bodies])
         ELSE SetAnd(t, c, "done", "topic", turn[t].goal, Cached(c, h.bodies))
      /\ Still

\* The card issuers that the headers do not show.
Issuers(t) ==
  LET opened == ReadForIssuer(Task(t).records)
      c == [Task(t) EXCEPT !.records = opened.records, !.age = Fresh]
  IN  /\ At(t, "issuer")
      /\ SetAnd(t, c, "format", "payment", NoMessage,
                [Answer("none") EXCEPT !.bodies = opened.bodies])
      /\ Still

\* formatPaymentFollowUp
Format(t) ==
  /\ At(t, "format")
  /\ IF Task(t).records = <<>> THEN Say(t, "unclear")
     ELSE Reply(t, Cached(Task(t), turn[t].answer.bodies))
  /\ Still

-----------------------------------------------------------------------------
(* No task, or one that has no answer to the message.                           *)

\* buildDeterministicDecision and the decision made of it.
OwnDecision(t) ==
  LET m == Message(t)
      family == IF Is(m, "payment") THEN "payment" ELSE "search"
  IN  IF IsActive(Task(t)) /\ ~Unrelated(m)
      THEN [action |-> "continue", family |-> family, source |-> "null", intent |-> "none"]
      ELSE IF StartsGmail(m)
      THEN [action |-> "start", family |-> family, source |-> "gmail", intent |-> "none"]
      ELSE [action |-> "chat", family |-> family, source |-> "null", intent |-> "none"]

Final(t) ==
  LET c == Task(t)
      m == Message(t)
      d == IF turn[t].decision = NoDecision THEN OwnDecision(t) ELSE turn[t].decision
      continues == d.action \in {"continue", "refine", "rerun", "cancel"}
      family == IF (Starts(d) \/ continues) /\ d.family = "search" /\ PrefersPayment(c, m)
                THEN "payment" ELSE d.family
      awaiting == [status |-> "awaiting", family |-> family, goal |-> m, records |-> <<>>,
                   mails |-> <<>>, trip |-> FALSE, refined |-> FALSE, limit |-> 0, resends |-> 0,
                   age |-> Fresh]
  IN  /\ At(t, "final")
      /\ \/ d.action = "capability" /\ Say(t, "capability")
         \/ continues /\ c # NoContext /\ HandleActive(t, turn[t].decision)
         \/ d.action = "clarify" /\ Prompt(t, awaiting)
         \/ /\ Starts(d) \/ (continues /\ c = NoContext /\ d.source = "gmail")
            /\ IF turn[t].ready THEN StartSearch(t, family, m) ELSE Say(t, "unavailable")
         \/ /\ \/ d.action = "chat"
               \/ continues /\ c = NoContext /\ d.source # "gmail"
               \/ continues /\ c # NoContext /\ ~Handles(c, m, turn[t].decision)
            /\ Say(t, "forward")
      /\ Still

-----------------------------------------------------------------------------
(* The end of a turn and what it leaves; the end of a process; time.            *)

End(t) ==
  /\ At(t, "done")
  /\ latest' = IF ~turn[t].wrote THEN latest
               ELSE IF turn[t].alone /\ turn[t].sound THEN memory[turn[t].process]
               ELSE Uncertain
  /\ owner' = IF turn[t].wrote THEN turn[t].process ELSE owner
  /\ turn' = [turn EXCEPT ![t] = IdleTurn]
  /\ UNCHANGED <<mailbox, fastPath, failures, storeVars>>

\* The process goes, with the turns in it.
ProcessEnds(p) ==
  LET lost == {t \in Turns : Active(t) /\ turn[t].process = p}
  IN  /\ Forget(p)
      /\ turn' = [t \in Turns |-> IF t \in lost THEN IdleTurn ELSE turn[t]]
      /\ latest' = IF lost = {} THEN latest ELSE Uncertain
      /\ UNCHANGED <<mailbox, fastPath, failures, owner>>

\* A turn is short beside the life of a context: time passes between turns.
Tick ==
  /\ \A t \in Turns : ~Active(t)
  /\ TimePasses
  /\ latest' = IF latest = Uncertain THEN latest ELSE Aged(latest, Over)
  /\ UNCHANGED <<mailbox, fastPath, failures, turn, owner>>

Init ==
  /\ mailbox \in Mailboxes
  /\ fastPath \in BOOLEAN
  /\ StoreInit
  /\ turn = [t \in Turns |-> IdleTurn]
  /\ failures = 0
  /\ latest = NoContext
  /\ owner \in Processes

Step(t) ==
  \/ \E p \in Processes, m \in Messages, ready \in BOOLEAN : Begin(t, p, m, ready)
  \/ Hit(t) \/ Get(t) \/ Got(t) \/ Store(t)
  \/ Capability(t) \/ Awaiting(t) \/ NotAwaiting(t)
  \/ Decide(t) \/ Advise(t) \/ Advised(t) \/ Payment(t) \/ Final(t)
  \/ GmailFails(t) \/ OpenBody(t) \/ NoAttachment(t)
  \/ Search(t) \/ Hunt(t) \/ Found(t) \/ Refine(t) \/ FoundTopic(t) \/ Issuers(t) \/ Format(t)
  \/ End(t)

Next ==
  \/ \E t \in Turns : Step(t)
  \/ \E p \in Processes : ProcessEnds(p)
  \/ Tick

Spec == Init /\ [][Next]_vars

-----------------------------------------------------------------------------
(* Properties.                                                                  *)

TypeOK ==
  /\ mailbox \in Mailboxes /\ fastPath \in BOOLEAN
  /\ memory \in [Processes -> Context \cup {NoContext}]
  /\ search \in [Processes -> [mails: Seq(Mails), age: {Fresh, Stale}]]
  /\ row \in Context \cup {NoContext, Over}
  /\ turn \in [Turns -> Turn]
  /\ failures \in 0..MaxFailures
  /\ latest \in Context \cup {NoContext, Over, Uncertain} /\ owner \in Processes

\* A message is taken for a follow-up of the task that the last turn left, and of
\* nothing when that turn ended the task or its time is over: also after a new
\* list, a cancellation or a hand-over in another process, and in a process that
\* starts with an empty memory.  It is not so next to another turn, after a call
\* of the table that failed, or in a process that remembers an older task.
FollowUpUsesLatest ==
  \A t \in Turns :
    LET expected == turn[t].expected
    IN  /\ turn[t].pc \in {"branch", "active"}
        /\ turn[t].alone /\ turn[t].sound
        /\ expected # Uncertain
        /\ ~turn[t].wrote \/ expected = Over
        => \/ Task(t) = expected
           \/ Task(t) = NoContext /\ expected = Over

\* An answer to a message that names a period counts payments of that period
\* only, when the message came to a payment task or to none: the records of the
\* task are not reused, and its goal does not come back in.  (A question for more
\* coverage is searched with both texts, whose periods compete.  A task that was
\* refined keeps the goal it had, whatever period it was refined by, and its
\* records may be reused for that.)
AnswerIsOfItsPeriod ==
  \A t \in Turns :
    /\ At(t, "done") /\ turn[t].answer.kind \in {"found", "cached"}
    /\ Message(t).period # "any"
    /\ turn[t].family \in {"payment", "none"}
    /\ ~Says(t, "coverage") /\ turn[t].decision.intent # "coverage"
    /\ Task(t) # NoContext => ~Task(t).refined
    => \A i \in DOMAIN turn[t].answer.records :
         turn[t].answer.records[i].period = Message(t).period

\* No total counts a mail twice, or more mails than the answer says were scanned.
CountsEachMailOnce ==
  \A t \in Turns :
    LET answer == turn[t].answer
    IN  At(t, "done") =>
          /\ Cardinality(Ids(answer.records)) = Len(answer.records)
          /\ answer.kind = "found" => Len(answer.mails) <= answer.limit

\* Bodies are read one by one when the user asks for it, and otherwise to answer about
\* payments.  "Card issuer refinement may inspect at most two candidate message bodies"
\* (docs/agentcore-runtime-operations.md:180): no answer without a trip reads more than
\* MAX_TOPIC_BODY_CHECKS, however the turn came to it, and a search reads none.
AboutTrip(t) ==
  \/ (turn[t].goal.signs \cup Message(t).signs) \cap {"trip", "refine"} # {}
  \/ turn[t].decision.intent = "refine_topic" \/ turn[t].job = "topic"
  \/ Task(t) # NoContext /\ Task(t).trip

FewBodies ==
  \A t \in Turns :
    LET answer == turn[t].answer
    IN  At(t, "done") /\ ~AboutTrip(t) =>
          CASE answer.kind = "body" -> answer.bodies = 1
            [] answer.kind = "cached" -> answer.bodies <= BodyChecks
            [] OTHER -> answer.bodies = 0
=============================================================================
