----------------------------- MODULE IdentityLink -----------------------------
(***************************************************************************)
(* packages/gateway/src/services/identity.ts with its callers: the /link    *)
(* command and the messages of telegram-webhook.ts, and the /link/* routes  *)
(* of api-handler.ts.  Each runs in a Lambda of its own, one call of        *)
(* DynamoDB at a time; a link is four writes that no transaction holds      *)
(* together.  The telegram-otp row of a user is written and deleted, but read *)
(* by nobody: the two calls are here, the row is not.  Of the containers    *)
(* only those of Telegram users are here, for which /link asks; a container *)
(* and the row that should lead to it come and go apart.                    *)
(***************************************************************************)
EXTENDS Naturals

CONSTANTS
  Users,       \* Cognito users
  Telegrams,   \* Telegram users
  Codes,       \* the codes that can be drawn
  Handlers,    \* Lambdas
  Runtimes,    \* what AGENT_RUNTIME may be
  MaxCodes,    \* bound: how many codes are generated
  None

\* The names of Telegram users have a prefix of their own.
ASSUME IdentityAssumption ==
  /\ Users \cap Telegrams = {}
  /\ None \notin Users \cup Telegrams \cup Codes
  /\ Runtimes \subseteq {"lambda", "fargate", "both"}
  /\ MaxCodes \in Nat

VARIABLES
  runtime,     \* AGENT_RUNTIME
  otpOwner,    \* otp-owner of each code: whose it is, and which code in turn it is
  forward,     \* linked-telegram of each user
  reverse,     \* linked-cognito of each Telegram user
  taskRows,    \* the Telegram users with a task row that is not Idle
  alive,       \* the Telegram users with a container
  handler,
  drawn,       \* how many codes there have been
  uses,        \* how often each of them has been accepted for a link
  redrawn,     \* those whose digits were drawn again while a /link had looked them up
  crossed,     \* Telegram users at whose link two handlers have mixed, or one has failed
  raced,       \* Telegram users with a message on its way while they were being linked
  unseen       \* Telegram users whose container had no row when a /link asked for it

rows == <<otpOwner, forward, reverse>>
fleet == <<taskRows, alive>>
ghosts == <<drawn, uses, redrawn, crossed, raced, unseen>>
vars == <<runtime, rows, fleet, handler, ghosts>>

Identities == Users \cup Telegrams
Owners == [user: Users, turn: Nat]

Pcs == {"idle", "put otp", "put owner", "look up", "ask task", "ask link", "consume",
        "put forward", "put reverse", "clean up", "read forward", "delete forward",
        "delete reverse", "resolve", "route", "delete task", "start task", "put task"}

Handler == [pc: Pcs, user: Users \cup {None}, telegram: Telegrams \cup {None},
            code: Codes \cup {None}, turn: Nat, target: Identities \cup {None}]

Idle == [pc |-> "idle", user |-> None, telegram |-> None, code |-> None, turn |-> 0,
         target |-> None]

At(h, pc) == handler[h].pc = pc
Goto(h, pc) == handler' = [handler EXCEPT ![h] = IF pc = "idle" THEN Idle ELSE [@ EXCEPT !.pc = pc]]
Begin(h, start) == At(h, "idle") /\ handler' = [handler EXCEPT ![h] = start]

-----------------------------------------------------------------------------
(* Which handlers are at the same link: from the last question on, the writes.  *)

Linking == {"consume", "put forward", "put reverse", "clean up", "delete forward",
            "delete reverse"}

Writers(telegram) == {g \in Handlers : handler[g].pc \in Linking /\ handler[g].telegram = telegram}

\* A handler begins to write.
Engage(h, telegram, pc) ==
  /\ handler' = [handler EXCEPT ![h].pc = pc, ![h].telegram = telegram]
  /\ crossed' = IF Writers(telegram) = {} THEN crossed ELSE crossed \cup {telegram}

\* The handlers that link the Telegram user, past the question for his container.
LinkersOf(telegram) ==
  {g \in Handlers : handler[g].telegram = telegram
                    /\ handler[g].pc \in {"ask link", "consume", "put forward", "put reverse"}}

\* The handlers of his messages, past the question whom he is linked with.
Sends(telegram) ==
  {g \in Handlers : handler[g].telegram = telegram
                    /\ handler[g].pc \in {"route", "delete task", "start task", "put task"}}

\* The handlers that have looked up a code and not yet deleted its row.
HoldersOf(code) ==
  {g \in Handlers : handler[g].code = code /\ handler[g].pc \in {"ask task", "ask link", "consume"}}

-----------------------------------------------------------------------------
(* generateOtp: any code may be drawn, one that is in use as well.              *)

GenerateOtp(h) ==
  /\ drawn < MaxCodes
  /\ drawn' = drawn + 1
  /\ \E u \in Users, c \in Codes :
       Begin(h, [Idle EXCEPT !.pc = "put otp", !.user = u, !.code = c, !.turn = drawn + 1])
  /\ UNCHANGED <<runtime, rows, fleet, uses, redrawn, crossed, raced, unseen>>

PutOtp(h) ==
  /\ At(h, "put otp")
  /\ Goto(h, "put owner")
  /\ UNCHANGED <<runtime, rows, fleet, ghosts>>

PutOwner(h) ==
  /\ At(h, "put owner")
  /\ otpOwner' = [otpOwner EXCEPT ![handler[h].code] =
                    [user |-> handler[h].user, turn |-> handler[h].turn]]
  /\ redrawn' = redrawn \cup {handler[g].turn : g \in HoldersOf(handler[h].code)}
  /\ Goto(h, "idle")
  /\ UNCHANGED <<runtime, forward, reverse, fleet, drawn, uses, crossed, raced, unseen>>

\* OTP_TTL_SEC.
OtpLapses ==
  /\ \E c \in Codes : otpOwner[c] # None /\ otpOwner' = [otpOwner EXCEPT ![c] = None]
  /\ UNCHANGED <<runtime, forward, reverse, fleet, handler, ghosts>>

-----------------------------------------------------------------------------
(* verifyOtpAndLink                                                             *)

Link(h) ==
  /\ \E t \in Telegrams, c \in Codes :
       Begin(h, [Idle EXCEPT !.pc = "look up", !.telegram = t, !.code = c])
  /\ UNCHANGED <<runtime, rows, fleet, ghosts>>

LookUp(h) ==
  LET owner == otpOwner[handler[h].code]
  IN  /\ At(h, "look up")
      /\ handler' = [handler EXCEPT ![h] =
           IF owner = None THEN Idle
           ELSE [@ EXCEPT !.user = owner.user, !.turn = owner.turn,
                          !.pc = IF runtime = "lambda" THEN "ask link" ELSE "ask task"]]
      /\ UNCHANGED <<runtime, rows, fleet, ghosts>>

\* What the question for a container does not find: one without a row, and one that a
\* message on its way is about to start.
Overlooks(telegram) ==
  /\ raced' = IF Sends(telegram) = {} THEN raced ELSE raced \cup {telegram}
  /\ unseen' = IF telegram \in alive \ taskRows THEN unseen \cup {telegram} ELSE unseen

\* Mutant: a container of the Telegram user is no reason to wait.
AskNoTask(h) ==
  /\ At(h, "ask task")
  /\ Goto(h, "ask link")
  /\ Overlooks(handler[h].telegram)
  /\ UNCHANGED <<runtime, rows, fleet, drawn, uses, redrawn, crossed>>

AskTask(h) ==
  LET t == handler[h].telegram
  IN  /\ At(h, "ask task")
      /\ IF t \in taskRows THEN Goto(h, "idle") /\ UNCHANGED <<raced, unseen>>
         ELSE Goto(h, "ask link") /\ Overlooks(t)
      /\ UNCHANGED <<runtime, rows, fleet, drawn, uses, redrawn, crossed>>

\* Mutant: a Telegram user who is linked is linked to another user.
AskNoLink(h) ==
  /\ At(h, "ask link")
  /\ Engage(h, handler[h].telegram, "consume")
  /\ UNCHANGED <<runtime, rows, fleet, drawn, uses, redrawn, raced, unseen>>

AskLink(h) ==
  LET t == handler[h].telegram
  IN  /\ At(h, "ask link")
      /\ IF reverse[t] \in {None, handler[h].user}
         THEN Engage(h, t, "consume")
         ELSE Goto(h, "idle") /\ UNCHANGED crossed
      /\ UNCHANGED <<runtime, rows, fleet, drawn, uses, redrawn, raced, unseen>>

\* The code that was looked up links.
LinksBy(h) == uses' = [uses EXCEPT ![handler[h].turn] = @ + 1]

\* Mutant: the code is deleted whether it is still there or not.
ConsumeAnyway(h) ==
  /\ At(h, "consume")
  /\ Goto(h, "put forward")
  /\ otpOwner' = [otpOwner EXCEPT ![handler[h].code] = None]
  /\ LinksBy(h)
  /\ UNCHANGED <<runtime, forward, reverse, fleet, drawn, redrawn, crossed, raced, unseen>>

\* The delete asks that a row exist, not that it be the one that was looked up: it may
\* take a later code of the same digits, and what links is the code that was looked up.
Consume(h) ==
  /\ At(h, "consume")
  /\ IF otpOwner[handler[h].code] = None THEN Goto(h, "idle") /\ UNCHANGED <<otpOwner, uses>>
     ELSE /\ Goto(h, "put forward")
          /\ otpOwner' = [otpOwner EXCEPT ![handler[h].code] = None]
          /\ LinksBy(h)
  /\ UNCHANGED <<runtime, forward, reverse, fleet, drawn, redrawn, crossed, raced, unseen>>

PutForward(h) ==
  /\ At(h, "put forward")
  /\ forward' = [forward EXCEPT ![handler[h].user] = handler[h].telegram]
  /\ Goto(h, "put reverse")
  /\ UNCHANGED <<runtime, otpOwner, reverse, fleet, ghosts>>

PutReverse(h) ==
  /\ At(h, "put reverse")
  /\ reverse' = [reverse EXCEPT ![handler[h].telegram] = handler[h].user]
  /\ Goto(h, "clean up")
  /\ UNCHANGED <<runtime, otpOwner, forward, fleet, ghosts>>

CleanUp(h) ==
  /\ At(h, "clean up")
  /\ Goto(h, "idle")
  /\ UNCHANGED <<runtime, rows, fleet, ghosts>>

-----------------------------------------------------------------------------
(* unlinkTelegram, from the Web only                                            *)

Unlink(h) ==
  /\ \E u \in Users : Begin(h, [Idle EXCEPT !.pc = "read forward", !.user = u])
  /\ UNCHANGED <<runtime, rows, fleet, ghosts>>

\* Mutant: a user who is not linked is unlinked.
ReadForwardOfNobody(h) ==
  /\ At(h, "read forward")
  /\ Engage(h, forward[handler[h].user], "delete forward")
  /\ UNCHANGED <<runtime, rows, fleet, drawn, uses, redrawn, raced, unseen>>

ReadForward(h) ==
  LET u == handler[h].user
  IN  /\ At(h, "read forward")
      /\ IF forward[u] = None THEN Goto(h, "idle") /\ UNCHANGED crossed
         ELSE Engage(h, forward[u], "delete forward")
      /\ UNCHANGED <<runtime, rows, fleet, drawn, uses, redrawn, raced, unseen>>

DeleteForward(h) ==
  /\ At(h, "delete forward")
  /\ forward' = [forward EXCEPT ![handler[h].user] = None]
  /\ Goto(h, "delete reverse")
  /\ UNCHANGED <<runtime, otpOwner, reverse, fleet, ghosts>>

DeleteReverse(h) ==
  /\ At(h, "delete reverse")
  /\ reverse' = [reverse EXCEPT ![handler[h].telegram] = None]
  /\ Goto(h, "idle")
  /\ UNCHANGED <<runtime, otpOwner, forward, fleet, ghosts>>

-----------------------------------------------------------------------------
(* A message of a Telegram user: resolveUserId, then routeMessage for whoever   *)
(* that is, which may start a container for him.                               *)

Message(h) ==
  /\ \E t \in Telegrams : Begin(h, [Idle EXCEPT !.pc = "resolve", !.telegram = t])
  /\ UNCHANGED <<runtime, rows, fleet, ghosts>>

Resolve(h) ==
  LET t == handler[h].telegram
  IN  /\ At(h, "resolve")
      /\ handler' = [handler EXCEPT ![h].pc = "route",
                                    ![h].target = IF reverse[t] = None THEN t ELSE reverse[t]]
      /\ raced' = IF LinkersOf(t) = {} THEN raced ELSE raced \cup {t}
      /\ UNCHANGED <<runtime, rows, fleet, drawn, uses, redrawn, crossed, unseen>>

\* The message is with a runtime that is up, or saved for one that comes.
Route(h) ==
  /\ At(h, "route")
  /\ Goto(h, "idle")
  /\ UNCHANGED <<runtime, rows, fleet, ghosts>>

\* routeFargate for a Telegram user who is not linked.  It found no row, and starts a
\* task (or takes the prewarmed one, to which the message is sent); or a Running row
\* whose container does not answer, and deletes that first.
OwnRoute(h, pc) ==
  /\ At(h, pc)
  /\ runtime # "lambda"
  /\ handler[h].target \in Telegrams

FindNoTask(h) ==
  /\ OwnRoute(h, "route")
  /\ handler[h].target \notin taskRows
  /\ Goto(h, "start task")
  /\ UNCHANGED <<runtime, rows, fleet, ghosts>>

FindStaleTask(h) ==
  /\ OwnRoute(h, "route")
  /\ handler[h].target \in taskRows
  /\ Goto(h, "delete task")
  /\ UNCHANGED <<runtime, rows, fleet, ghosts>>

DeleteTask(h) ==
  /\ OwnRoute(h, "delete task")
  /\ taskRows' = taskRows \ {handler[h].target}
  /\ Goto(h, "start task")
  /\ UNCHANGED <<runtime, rows, alive, ghosts>>

StartTask(h) ==
  /\ OwnRoute(h, "start task")
  /\ alive' = alive \cup {handler[h].target}
  /\ Goto(h, "put task")
  /\ UNCHANGED <<runtime, rows, taskRows, ghosts>>

PutTask(h) ==
  /\ OwnRoute(h, "put task")
  /\ taskRows' = taskRows \cup {handler[h].target}
  /\ Goto(h, "idle")
  /\ UNCHANGED <<runtime, rows, alive, ghosts>>

-----------------------------------------------------------------------------
(* The containers of Telegram users, and the watchdog.                          *)

\* A container that is up puts its own row, and once more when it knows its address.
ContainerPuts(t) ==
  /\ t \in alive
  /\ taskRows' = taskRows \cup {t}
  /\ UNCHANGED <<runtime, rows, alive, handler, ghosts>>

\* A container ends, and the row with it if it could still put Idle.  Another one of
\* the same user may live on.
ContainerEnds(t) ==
  /\ t \in alive
  /\ alive' \in {alive, alive \ {t}}
  /\ taskRows' \in {taskRows, taskRows \ {t}}
  /\ UNCHANGED <<runtime, rows, handler, ghosts>>

\* The watchdog deletes the row of a task that ECS does not show it, or when the
\* question for it fails, whether the task lives or not.
WatchdogDeletes(t) ==
  /\ t \in taskRows
  /\ taskRows' = taskRows \ {t}
  /\ UNCHANGED <<runtime, rows, alive, handler, ghosts>>

FleetStep == \E t \in Telegrams : ContainerPuts(t) \/ ContainerEnds(t) \/ WatchdogDeletes(t)

-----------------------------------------------------------------------------

\* A call throws: the handler ends where it is.  (Telegram sends the update again,
\* the Web shows an error.)
CallFails(h) ==
  /\ ~At(h, "idle")
  /\ Goto(h, "idle")
  /\ crossed' = IF handler[h].pc \in Linking THEN crossed \cup {handler[h].telegram} ELSE crossed
  /\ UNCHANGED <<runtime, rows, fleet, drawn, uses, redrawn, raced, unseen>>

Init ==
  /\ runtime \in Runtimes
  /\ otpOwner = [c \in Codes |-> None]
  /\ forward = [u \in Users |-> None]
  /\ reverse = [t \in Telegrams |-> None]
  /\ taskRows = {} /\ alive = {}
  /\ handler = [h \in Handlers |-> Idle]
  /\ drawn = 0
  /\ uses = [n \in 1..MaxCodes |-> 0]
  /\ redrawn = {}
  /\ crossed = {} /\ raced = {} /\ unseen = {}

Step(h) ==
  \/ GenerateOtp(h) \/ PutOtp(h) \/ PutOwner(h)
  \/ Link(h) \/ LookUp(h) \/ AskTask(h) \/ AskLink(h) \/ Consume(h)
  \/ PutForward(h) \/ PutReverse(h) \/ CleanUp(h)
  \/ Unlink(h) \/ ReadForward(h) \/ DeleteForward(h) \/ DeleteReverse(h)
  \/ Message(h) \/ Resolve(h) \/ Route(h)
  \/ FindNoTask(h) \/ FindStaleTask(h) \/ DeleteTask(h) \/ StartTask(h) \/ PutTask(h)
  \/ CallFails(h)

Next == (\E h \in Handlers : Step(h)) \/ OtpLapses \/ FleetStep

Spec == Init /\ [][Next]_vars

-----------------------------------------------------------------------------

TypeOK ==
  /\ runtime \in Runtimes
  /\ otpOwner \in [Codes -> Owners \cup {None}]
  /\ forward \in [Users -> Telegrams \cup {None}]
  /\ reverse \in [Telegrams -> Users \cup {None}]
  /\ taskRows \subseteq Telegrams /\ alive \subseteq Telegrams
  /\ handler \in [Handlers -> Handler]
  /\ drawn \in 0..MaxCodes
  /\ uses \in [1..MaxCodes -> Nat]
  /\ redrawn \subseteq 1..MaxCodes
  /\ crossed \subseteq Telegrams /\ raced \subseteq Telegrams /\ unseen \subseteq Telegrams

\* A code links one Telegram user, once: of two /link commands with one code, sent
\* by two people or sent twice by Telegram, one is refused however they interleave.
\* It may not be so only when the same digits are drawn again while a /link is between
\* its look-up and its delete.
CodeLinksOnce == \A n \in 1..MaxCodes \ redrawn : uses[n] <= 1

\* The account that the Web shows as linked is linked: its messages come to the user,
\* once the handlers at that link are through.  It is so when no two of them have
\* mixed and none has failed, whatever other accounts are linked and unlinked.
ShownLinkWorks ==
  \A u \in Users :
    LET t == forward[u]
    IN  t # None /\ t \notin crossed /\ Writers(t) = {} => reverse[t] = u

\* A Telegram user who is linked has a container of his own, which none of his messages
\* reaches any more, only if a message was on its way to start it when /link asked, or
\* it lived without a row then, because the row was late, lost or deleted.
NoContainerStranded ==
  \A t \in Telegrams \ (raced \cup unseen) : reverse[t] # None => t \notin alive
=============================================================================
