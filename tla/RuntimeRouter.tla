---------------------------- MODULE RuntimeRouter ----------------------------
(***************************************************************************)
(* routeMessage of packages/gateway/src/services/message.ts and the two    *)
(* handlers that call it (ws-message.ts, telegram-webhook.ts), cut at their *)
(* awaits, with the AgentCore runtime they invoke.  Requests of one user   *)
(* run concurrently, each in a Lambda of its own; they meet in the routing *)
(* context of their channel and in the user's task row.                    *)
(*                                                                         *)
(* routeFargate is one step here, with every result it can have; its calls *)
(* are in FargateRouter.                                                   *)
(***************************************************************************)
EXTENDS RouteClassifier, RoutingContext, FiniteSets

CONSTANTS
  Requests,
  Arrivals,   \* the messages that come, sets of signals, each on its channel
  Configs     \* deployments

ASSUME RequestsAssumption == IsFiniteSet(Requests)
ASSUME ArrivalsAssumption ==
  /\ Arrivals \subseteq Channels \X SUBSET Signals
  /\ \A a \in Arrivals : "image" \in a[2] => a[1] = "telegram"
ASSUME ContextAssumption == NoContext \notin Affinity
ASSUME ConfigsAssumption ==
  Configs \subseteq
    [agentRuntime: {"lambda", "fargate", "both"},
     toolProvider: Providers,
     assistant: {"lambda", "agentcore"},
     lambdaArn: BOOLEAN,
     agentCoreArn: BOOLEAN,
     callbackDelivery: BOOLEAN,   \* AGENTCORE_HTTP_DELIVERY_MODE is callback
     unified: BOOLEAN]            \* AGENTCORE_UNIFIED_ASSISTANT is not false

VARIABLES
  config,
  task,        \* the task row: "none", "Starting", "Running" with an address, or another
  handler,     \* the requests
  agentcore,   \* what AgentCore makes of the invocation of each
  owners,      \* the runtimes that have each message
  answered,    \* who has answered it: AgentCore with a callback, or the gateway
  faulted,     \* a call of the request has failed, or has timed out
  locked       \* the session of a channel has been locked to Fargate

routerVars == <<handler, agentcore, owners, answered, faulted>>
sessionVars == <<context, locked>>
vars == <<config, task, routerVars, sessionVars>>

Pcs == {"idle", "context", "clear", "goodbye", "refresh", "task", "create", "unsupported",
        "agentcore", "waiting", "reply", "handoff", "lambda", "lock", "fargate", "tell",
        "done", "failed"}

Tasks == {"none", "Starting", "Running", "Other"}

Handler ==
  [pc: Pcs,
   next: Pcs,                       \* where "clear" and "create" lead
   channel: Channels,
   msg: SUBSET Signals,
   row: Affinity \cup {NoContext},  \* the context it has read
   sawLock: BOOLEAN,                \* the session was locked when it read that
   task: Tasks,                     \* the task row it has read
   replay: BOOLEAN,                 \* the context keeps it on the tool runtime
   inTry: BOOLEAN]                  \* an error falls back to Fargate

NotStarted ==
  [pc |-> "idle", next |-> "idle", channel |-> CHOOSE c \in Channels : TRUE, msg |-> {},
   row |-> NoContext, sawLock |-> FALSE, task |-> "none", replay |-> FALSE, inTry |-> FALSE]

\* An invocation of AgentCore, from both sides.
Invocation ==
  [state: {"none", "sent", "running", "over"},
   followUp: BOOLEAN,   \* of a message that the context kept
   empty: BOOLEAN,
   callback: BOOLEAN,   \* it delivers its answer itself
   reply: {"none", "accepted", "content", "handoff", "error"}]

NoInvocation ==
  [state |-> "none", followUp |-> FALSE, empty |-> FALSE, callback |-> FALSE, reply |-> "none"]

At(r, pc) == handler[r].pc = pc

\* The locals of a request go with it.
Goto(r, pc) ==
  handler' = [handler EXCEPT ![r] = IF pc \in {"done", "failed"} THEN [NotStarted EXCEPT !.pc = pc]
                                    ELSE [@ EXCEPT !.pc = pc]]

Take(r, runtime) == owners' = [owners EXCEPT ![r] = @ \cup {runtime}]
Answer(r, runtime) == answered' = [answered EXCEPT ![r] = @ \cup {runtime}]
Fault(r) == faulted' = faulted \cup {r}
ChannelOf(r) == handler[r].channel

-----------------------------------------------------------------------------
(* Which runtime a message is for. *)

LambdaConfigured == config.lambdaArn
AgentCoreConfigured == config.agentCoreArn

\* shouldUseAgentCoreAssistantRuntime
AgentCoreIsAssistant ==
  /\ config.assistant = "agentcore"
  /\ config.agentRuntime = "both"
  /\ config.toolProvider = "agentcore"
  /\ AgentCoreConfigured

Smart == config.agentRuntime = "both" /\ LambdaConfigured
LambdaOnly == config.agentRuntime = "lambda" /\ LambdaConfigured

HasActiveFargateTask(t) == t \in {"Starting", "Running"}

\* resolveToolRuntimeRouteDecision and routeToolRuntime
ToolRuntime(provider, t) ==
  IF provider = "agentcore" /\ ~HasActiveFargateTask(t) THEN "agentcore" ELSE "fargate"

\* The first call of routeMessage once the context has no claim on the message.
Dispatch(m) ==
  IF "image" \in m THEN IF config.agentRuntime = "fargate" \/ ~LambdaConfigured
                        THEN "unsupported" ELSE "task"
  ELSE IF ~AgentCoreIsAssistant /\ LambdaOnly THEN "lambda"
  ELSE "task"

\* And, after getTaskState, what it does with a message that opens a session.
OpensSession(m) ==
  /\ "image" \notin m
  /\ AgentCoreIsAssistant \/ Smart => ClassifyRouteRuntimeClass(m) = "tool-enabled"

Target(m, t) ==
  IF "image" \in m THEN "lambda"
  ELSE IF AgentCoreIsAssistant THEN "agentcore"
  ELSE IF OpensSession(m) THEN ToolRuntime(config.toolProvider, t)
  ELSE "lambda"

-----------------------------------------------------------------------------
(* The handlers, up to routeMessage.  Photos come from Telegram only, and      *)
(* commands (/link) and media it cannot read never come this far.              *)

\* A request that is over, with all it has left behind, makes room for another.
Receive(r) ==
  /\ handler[r].pc \in {"idle", "done", "failed"}
  /\ agentcore[r].state \in {"none", "over"}
  /\ \E a \in Arrivals :
       handler' = [handler EXCEPT ![r] = [NotStarted EXCEPT !.pc = "context",
                                                            !.channel = a[1], !.msg = a[2]]]
  /\ agentcore' = [agentcore EXCEPT ![r] = NoInvocation]
  /\ owners' = [owners EXCEPT ![r] = {}]
  /\ answered' = [answered EXCEPT ![r] = {}]
  /\ faulted' = faulted \ {r}
  /\ UNCHANGED <<config, task, sessionVars>>

(* maybeHandleToolRuntimeAffinity *)

ReadContext(r) ==
  LET row == GetRoutingContext(ChannelOf(r))
      m == handler[r].msg
      leads == IF row = NoContext THEN <<Dispatch(m), "idle">>
               ELSE IF ~row.fresh \/ "image" \in m THEN <<"clear", Dispatch(m)>>
               ELSE IF "cancel" \in m THEN <<"clear", "goodbye">>
               ELSE IF ~ShouldKeepToolAffinity(m) THEN <<"clear", Dispatch(m)>>
               ELSE <<"refresh", "idle">>
  IN  /\ At(r, "context")
      /\ handler' = [handler EXCEPT ![r].pc = leads[1], ![r].next = leads[2],
                                    ![r].row = IF leads[1] = "refresh" THEN row ELSE NoContext,
                                    ![r].sawLock = leads[1] = "refresh" /\ locked[ChannelOf(r)]]
      /\ UNCHANGED <<config, task, agentcore, owners, answered, faulted, sessionVars>>

ClearContext(r) ==
  /\ At(r, "clear")
  /\ DeleteRoutingContext(ChannelOf(r))
  /\ locked' = [locked EXCEPT ![ChannelOf(r)] = FALSE]
  /\ Goto(r, handler[r].next)
  /\ UNCHANGED <<config, task, agentcore, owners, answered, faulted>>

\* sendClarification of a message the router answers itself.
Clarify(r) ==
  /\ At(r, "goodbye") \/ At(r, "unsupported")
  /\ Goto(r, "done")
  /\ Answer(r, "gateway")
  /\ UNCHANGED <<config, task, agentcore, owners, faulted, sessionVars>>

\* Mutant: the session is extended as one of the configured provider.
RefreshedAnew(row) == BuildAffinity(config.toolProvider, "none")

Refreshed(row) == BuildAffinity(ReplayProvider(row), row.fallback)

Put(r, row, lock) ==
  /\ PutRoutingContext(ChannelOf(r), row)
  /\ locked' = [locked EXCEPT ![ChannelOf(r)] = lock]

RefreshContext(r) ==
  /\ At(r, "refresh")
  /\ Put(r, Refreshed(handler[r].row), handler[r].sawLock)
  /\ handler' = [handler EXCEPT ![r].pc = "task", ![r].replay = TRUE]
  /\ UNCHANGED <<config, task, agentcore, owners, answered, faulted>>

(* routeMessage, and routeForcedRuntimeClass of a message the context keeps. *)

ReadTask(r) ==
  LET h == handler[r]
      to == IF h.replay THEN ToolRuntime(ReplayProvider(h.row), task) ELSE Target(h.msg, task)
      opens == ~h.replay /\ OpensSession(h.msg)
  IN  /\ At(r, "task")
      /\ handler' = [handler EXCEPT ![r].task = task,
                                    ![r].row = NoContext,
                                    ![r].pc = IF opens THEN "create" ELSE to,
                                    ![r].next = IF opens THEN to ELSE "idle"]
      /\ UNCHANGED <<config, task, agentcore, owners, answered, faulted, sessionVars>>

CreateContext(r) ==
  /\ At(r, "create")
  /\ Put(r, BuildAffinity(config.toolProvider, "none"), FALSE)
  /\ Goto(r, handler[r].next)
  /\ UNCHANGED <<config, task, agentcore, owners, answered, faulted>>

-----------------------------------------------------------------------------
(* routeAgentCore and the runtime behind it (bridge.ts, POST /invocations). *)

\* Mutant: every invocation carries the callback URL.
AlwaysCallbackUrl(r) == TRUE

\* stripRouteHint leaves nothing of a bare hint.  It is not called for a message that the
\* context keeps (replayMessage), nor where nothing classifies messages.
StrippedBare(r) ==
  "bare" \in handler[r].msg /\ ~handler[r].replay /\ (AgentCoreIsAssistant \/ Smart)

\* A follow-up is answered in the response, unless AgentCore is the assistant.
HasCallbackUrl(r) == handler[r].replay => AgentCoreIsAssistant

InvokeAgentCore(r) ==
  /\ At(r, "agentcore")
  /\ AgentCoreConfigured
  /\ handler' = [handler EXCEPT ![r].pc = "waiting", ![r].inTry = TRUE]
  /\ agentcore' = [agentcore EXCEPT ![r] =
                     [state |-> "sent", reply |-> "none",
                      followUp |-> handler[r].replay, empty |-> StrippedBare(r),
                      callback |-> config.callbackDelivery /\ HasCallbackUrl(r)]]
  /\ UNCHANGED <<config, task, owners, answered, faulted, sessionVars>>

\* A message of which nothing is left is refused.
AcceptInvocation(r) ==
  /\ agentcore[r].state = "sent"
  /\ IF agentcore[r].empty
     THEN /\ agentcore' = [agentcore EXCEPT ![r].state = "over", ![r].reply = "error"]
          /\ UNCHANGED owners
     ELSE /\ agentcore' = [agentcore EXCEPT ![r].state = "running",
                                            ![r].reply = IF agentcore[r].callback THEN "accepted"
                                                         ELSE "none"]
          /\ Take(r, "agentcore")
  /\ UNCHANGED <<config, task, handler, answered, faulted, sessionVars>>

\* With a callback: an answer or an error to the user.  Without: a response, which
\* the gateway may have given up on.  Only a split runtime hands a turn back.
FinishInvocation(r) ==
  /\ agentcore[r].state = "running"
  /\ IF agentcore[r].callback
     THEN /\ agentcore' = [agentcore EXCEPT ![r].state = "over"]
          /\ Answer(r, "agentcore")
          /\ UNCHANGED owners
     ELSE /\ \E reply \in {"content", "error"} \cup
                          (IF config.unified \/ ~agentcore[r].followUp THEN {} ELSE {"handoff"}) :
               /\ agentcore' = [agentcore EXCEPT ![r].state = "over", ![r].reply = reply]
               /\ owners' = IF reply = "handoff" THEN [owners EXCEPT ![r] = @ \ {"agentcore"}]
                            ELSE owners
          /\ UNCHANGED answered
  /\ UNCHANGED <<config, task, handler, faulted, sessionVars>>

\* Mutant: a reply without content is a failure.
TakeReplyStrictly(r) ==
  /\ At(r, "waiting")
  /\ agentcore[r].reply # "none"
  /\ Goto(r, CASE agentcore[r].reply = "content"  -> "reply"
               [] agentcore[r].reply = "handoff"  -> "handoff"
               [] OTHER -> "lock")
  /\ IF agentcore[r].reply = "error" THEN Fault(r) ELSE UNCHANGED faulted
  /\ UNCHANGED <<config, task, agentcore, owners, answered, sessionVars>>

\* Mutant: a turn that is handed back ends the session, and the request.
TakeHandoffOnly(r) ==
  /\ At(r, "handoff")
  /\ DeleteRoutingContext(ChannelOf(r))
  /\ locked' = [locked EXCEPT ![ChannelOf(r)] = FALSE]
  /\ Goto(r, "done")
  /\ UNCHANGED <<config, task, agentcore, owners, answered, faulted>>

TakeReply(r) ==
  /\ At(r, "waiting")
  /\ agentcore[r].reply # "none"
  /\ Goto(r, CASE agentcore[r].reply = "accepted" -> "done"
               [] agentcore[r].reply = "content"  -> "reply"
               [] agentcore[r].reply = "handoff"  -> "handoff"
               [] agentcore[r].reply = "error"    -> "lock")
  /\ IF agentcore[r].reply = "error" THEN Fault(r) ELSE UNCHANGED faulted
  /\ UNCHANGED <<config, task, agentcore, owners, answered, sessionVars>>

\* sendClarification(result.content)
Reply(r) ==
  /\ At(r, "reply")
  /\ Goto(r, "done")
  /\ Answer(r, "gateway")
  /\ UNCHANGED <<config, task, agentcore, owners, faulted, sessionVars>>

\* The runtime hands the turn back: the session ends, and the chat runtime has it.
TakeHandoff(r) ==
  /\ At(r, "handoff")
  /\ DeleteRoutingContext(ChannelOf(r))
  /\ locked' = [locked EXCEPT ![ChannelOf(r)] = FALSE]
  /\ Goto(r, "lambda")
  /\ UNCHANGED <<config, task, agentcore, owners, answered, faulted>>

\* lockToolRuntimeProvider: the session stays on Fargate until it ends.
LockProvider(r) ==
  /\ At(r, "lock")
  /\ Put(r, BuildAffinity("fargate", "fargate"), TRUE)
  /\ Goto(r, "fargate")
  /\ UNCHANGED <<config, task, agentcore, owners, answered, faulted>>

-----------------------------------------------------------------------------
(* The other runtimes. *)

InvokeLambda(r) ==
  /\ At(r, "lambda")
  /\ LambdaConfigured
  /\ Goto(r, "tell")
  /\ Take(r, "lambda")
  /\ UNCHANGED <<config, task, agentcore, answered, faulted, sessionVars>>

\* routeFargate, on the row the request has read: the bridge of a container (the
\* user's, or a prewarmed one) takes the message, or it is queued for one that
\* starts, or for a new one.  No bridge takes an empty message.
RouteFargate(r) ==
  LET t == handler[r].task
      bridge == t \in {"none", "Running"} /\ ~StrippedBare(r)
  IN  /\ At(r, "fargate")
      /\ \/ bridge /\ Goto(r, "done") /\ UNCHANGED task
         \/ /\ Goto(r, "tell")
            /\ task' = IF t \in {"none", "Running"} THEN "Starting" ELSE task
      /\ Take(r, "fargate")
      /\ UNCHANGED <<config, agentcore, answered, faulted, sessionVars>>

\* The handler tells the user to wait.
TellStatus(r) ==
  /\ At(r, "tell")
  /\ Goto(r, "done")
  /\ UNCHANGED <<config, task, agentcore, owners, answered, faulted, sessionVars>>

-----------------------------------------------------------------------------
(* Calls that fail, and answers that are late. *)

\* Where an exception at pc leads.  Telegram's sends throw nothing.
Catch(r, pc) ==
  CASE pc \in {"agentcore", "waiting", "reply", "handoff"} -> "lock"
    [] pc = "lambda" /\ handler[r].inTry -> "lock"
    [] pc = "lambda" /\ "image" \notin handler[r].msg /\ Smart -> "fargate"
    [] OTHER -> "failed"

Sends == {"goodbye", "unsupported", "reply", "tell"}

\* The callee may have done its part all the same.
CallFails(r) ==
  LET pc == handler[r].pc
  IN  /\ pc \in Pcs \ {"idle", "done", "failed"}
      /\ pc \in Sends => ChannelOf(r) = "web"
      /\ Goto(r, Catch(r, pc))
      /\ Fault(r)
      /\ \/ UNCHANGED owners
         \/ pc \in {"lambda", "fargate"} /\ Take(r, pc)
      /\ \/ UNCHANGED answered
         \/ pc = "reply" /\ Answer(r, "gateway")
      /\ UNCHANGED <<config, task, agentcore, sessionVars>>

-----------------------------------------------------------------------------

\* The user's container comes and goes.
TaskChanges ==
  /\ \/ task = "Starting" /\ task' \in {"Running", "Other", "none"}
     \/ task = "Running" /\ task' \in {"Other", "none"}
     \/ task = "Other" /\ task' \in {"Running", "none"}
  /\ UNCHANGED <<config, routerVars, sessionVars>>

SessionLapses(c) ==
  /\ Lapse(c) \/ TtlDelete(c)
  /\ locked' = [locked EXCEPT ![c] = @ /\ context'[c] # NoContext]
  /\ UNCHANGED <<config, task, routerVars>>

Init ==
  /\ config \in Configs
  /\ task = "none"
  /\ handler = [r \in Requests |-> NotStarted]
  /\ agentcore = [r \in Requests |-> NoInvocation]
  /\ owners = [r \in Requests |-> {}]
  /\ answered = [r \in Requests |-> {}]
  /\ faulted = {}
  /\ ContextInit
  /\ locked = [c \in Channels |-> FALSE]

GatewayStep(r) ==
  \/ ReadContext(r) \/ ClearContext(r) \/ Clarify(r) \/ RefreshContext(r)
  \/ ReadTask(r) \/ CreateContext(r)
  \/ InvokeAgentCore(r) \/ TakeReply(r) \/ Reply(r) \/ TakeHandoff(r) \/ LockProvider(r)
  \/ InvokeLambda(r) \/ RouteFargate(r) \/ TellStatus(r)
  \/ CallFails(r)

Next ==
  \/ \E r \in Requests : Receive(r) \/ GatewayStep(r) \/ AcceptInvocation(r) \/ FinishInvocation(r)
  \/ \E c \in Channels : SessionLapses(c)
  \/ TaskChanges

Spec == Init /\ [][Next]_vars

-----------------------------------------------------------------------------

TypeOK ==
  /\ config \in Configs
  /\ task \in Tasks
  /\ handler \in [Requests -> Handler]
  /\ agentcore \in [Requests -> Invocation]
  /\ owners \in [Requests -> SUBSET {"agentcore", "lambda", "fargate"}]
  /\ answered \in [Requests -> SUBSET {"agentcore", "gateway"}]
  /\ faulted \subseteq Requests
  /\ ContextTypeOK
  /\ locked \in [Channels -> BOOLEAN]

\* A message is worked on by two runtimes only when a call has failed or timed out:
\* no path of routeMessage hands it over twice, whatever the context and the task
\* row become while it waits.
OneRuntimePerMessage ==
  \A r \in Requests \ faulted : \A x, y \in owners[r] : x = y

\* A request that ends well leaves its message with a runtime, or answered.
HandledIsOwned ==
  \A r \in Requests : At(r, "done") => owners[r] # {} \/ answered[r] # {}

\* Once a failure has locked a session to Fargate, no message that the session
\* keeps goes to AgentCore, through any number of refreshes, until the session
\* ends or a request that knew nothing of the lock overwrites it.
LockIsHonoured ==
  \A r \in Requests : ~(At(r, "waiting") /\ handler[r].replay /\ handler[r].sawLock)

\* A follow-up has eight seconds and then goes to Fargate: unless AgentCore is the
\* assistant, AgentCore cannot answer it as well, however late.
FollowUpAnsweredOnce ==
  \A r \in Requests :
    agentcore[r].followUp /\ ~AgentCoreIsAssistant /\ "fargate" \in owners[r]
      => "agentcore" \notin answered[r]
=============================================================================
