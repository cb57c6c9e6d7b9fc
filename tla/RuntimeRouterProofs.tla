-------------------------- MODULE RuntimeRouterProofs --------------------------
(***************************************************************************)
(* For any number of requests, any messages and any deployment: who has a  *)
(* message, who may answer it, and what a locked session leads to.         *)
(***************************************************************************)
EXTENDS RuntimeRouter, TLAPS

\* Before a runtime is called.
Early == {"idle", "context", "clear", "goodbye", "refresh", "task", "create", "unsupported",
          "agentcore"}

\* So far nobody has the message, and nothing has failed.
Untouched(r) ==
  handler[r].pc \in Early =>
    r \notin faulted /\ owners[r] = {} /\ answered[r] = {} /\ agentcore[r].state = "none"

\* Where a request goes from here, and what it carries.
Course(r) ==
  /\ handler[r].pc = "clear" => handler[r].next \in {"unsupported", "task", "lambda", "goodbye"}
  /\ handler[r].pc = "create" => handler[r].next \in {"agentcore", "fargate", "lambda"}
  /\ handler[r].pc \in {"context", "clear", "refresh", "create"} => ~handler[r].replay
  /\ handler[r].pc = "refresh" => handler[r].row \in Affinity
  /\ handler[r].pc = "task" /\ handler[r].replay => handler[r].row \in Affinity

\* Who has the message of a request in which nothing has failed.
Sole(r) ==
  LET pc == handler[r].pc
      state == agentcore[r].state
  IN  r \notin faulted =>
        /\ pc \notin {"lock", "failed"}
        /\ pc = "waiting" =>
             /\ owners[r] \subseteq {"agentcore"}
             /\ agentcore[r].reply = "handoff" => owners[r] = {} /\ state = "over"
             /\ agentcore[r].reply = "content" => state = "over"
             /\ agentcore[r].reply = "accepted" => state \in {"running", "over"} /\ agentcore[r].callback
             /\ state = "sent" => agentcore[r].reply = "none"
        /\ pc \in {"handoff", "lambda", "fargate"} => owners[r] = {}
        /\ pc \in {"handoff", "lambda", "fargate", "reply", "tell"} => state \in {"none", "over"}
        /\ pc = "reply" => owners[r] \subseteq {"agentcore"}
        /\ pc = "tell" => \A x, y \in owners[r] : x = y
        /\ pc = "done" => /\ state # "sent"
                          /\ state = "running" => agentcore[r].callback
                          /\ \A x, y \in owners[r] : x = y

\* An invocation that AgentCore has accepted, and will answer with a callback.
Accepted(r) ==
  agentcore[r].callback /\ agentcore[r].state \in {"running", "over"} /\ "agentcore" \in owners[r]

Kept(r) == "lambda" \in owners[r] \/ "fargate" \in owners[r]

Handled(r) ==
  /\ agentcore[r].reply = "accepted" => Accepted(r)
  /\ handler[r].pc = "tell" => Kept(r)
  /\ handler[r].pc = "done" => answered[r] # {} \/ Kept(r) \/ Accepted(r)

\* Who may answer a follow-up.
Followed(r) ==
  /\ agentcore[r].followUp /\ agentcore[r].callback => AgentCoreIsAssistant
  /\ "agentcore" \in answered[r] => agentcore[r].callback

RequestInv(r) == Untouched(r) /\ Course(r) /\ Sole(r) /\ Handled(r) /\ Followed(r)

RoutingInv == TypeOK /\ \A r \in Requests : RequestInv(r)

\* What a locked session holds, and who has read it.
LockedRow(row) == row \in Affinity /\ row.fallback = "fargate"

LockCourse(r) ==
  handler[r].sawLock =>
    /\ handler[r].pc = "refresh" => LockedRow(handler[r].row)
    /\ handler[r].replay =>
         /\ handler[r].pc \notin {"create", "agentcore", "waiting"}
         /\ handler[r].pc = "task" => LockedRow(handler[r].row)

LockInv ==
  /\ RoutingInv
  /\ \A c \in Channels : locked[c] => LockedRow(context[c])
  /\ \A r \in Requests : LockCourse(r)

-----------------------------------------------------------------------------
(* Where steps lead *)

LEMMA NotStartedType == NotStarted \in Handler
<1>1. (CHOOSE c \in Channels : TRUE) \in Channels
  BY ChannelsAssumption
<1>2. QED
  BY <1>1 DEF NotStarted, Handler, Pcs, Tasks

LEMMA NoInvocationType == NoInvocation \in Invocation
BY DEF NoInvocation, Invocation

\* What moving a request on does to it, and to the others.
LEMMA GotoEffect ==
  ASSUME TypeOK, NEW r \in Requests, NEW pc \in Pcs, Goto(r, pc)
  PROVE  /\ handler' \in [Requests -> Handler]
         /\ \A q \in Requests : q # r => handler'[q] = handler[q]
         /\ handler'[r].pc = pc
         /\ pc \notin {"done", "failed"} =>
              /\ handler'[r].next = handler[r].next
              /\ handler'[r].channel = handler[r].channel
              /\ handler'[r].row = handler[r].row
              /\ handler'[r].sawLock = handler[r].sawLock
              /\ handler'[r].replay = handler[r].replay
         /\ pc \in {"done", "failed"} => ~handler'[r].replay
<1>1. handler[r] \in Handler /\ handler \in [Requests -> Handler]
  BY DEF TypeOK
<1>2. CASE pc \in {"done", "failed"}
  <2>1. handler' = [handler EXCEPT ![r] = [NotStarted EXCEPT !.pc = pc]]
    BY <1>2 DEF Goto
  <2>2. /\ [NotStarted EXCEPT !.pc = pc] \in Handler
        /\ [NotStarted EXCEPT !.pc = pc].pc = pc
        /\ [NotStarted EXCEPT !.pc = pc].replay = FALSE
    BY NotStartedType DEF Handler, NotStarted
  <2>3. QED
    BY <1>1, <1>2, <2>1, <2>2
<1>3. CASE pc \notin {"done", "failed"}
  <2>1. handler' = [handler EXCEPT ![r] = [handler[r] EXCEPT !.pc = pc]]
    BY <1>3 DEF Goto
  <2>2. /\ [handler[r] EXCEPT !.pc = pc] \in Handler
        /\ [handler[r] EXCEPT !.pc = pc].pc = pc
        /\ [handler[r] EXCEPT !.pc = pc].next = handler[r].next
        /\ [handler[r] EXCEPT !.pc = pc].channel = handler[r].channel
        /\ [handler[r] EXCEPT !.pc = pc].row = handler[r].row
        /\ [handler[r] EXCEPT !.pc = pc].sawLock = handler[r].sawLock
        /\ [handler[r] EXCEPT !.pc = pc].replay = handler[r].replay
    BY <1>1 DEF Handler
  <2>3. QED
    BY <1>1, <1>3, <2>1, <2>2
<1>4. QED
  BY <1>2, <1>3

LEMMA DispatchLeads == ASSUME NEW m PROVE Dispatch(m) \in {"unsupported", "task", "lambda"}
BY DEF Dispatch

LEMMA ToolRuntimeLeads ==
  ASSUME NEW provider, NEW t
  PROVE  /\ ToolRuntime(provider, t) \in {"agentcore", "fargate"}
         /\ provider = "fargate" => ToolRuntime(provider, t) = "fargate"
BY DEF ToolRuntime

LEMMA TargetLeads == ASSUME NEW m, NEW t PROVE Target(m, t) \in {"agentcore", "fargate", "lambda"}
BY ToolRuntimeLeads DEF Target

LEMMA ReadContextEffect ==
  ASSUME TypeOK, NEW r \in Requests, ReadContext(r)
  PROVE  LET h == handler'[r]
         IN  /\ handler' \in [Requests -> Handler]
             /\ \A q \in Requests : q # r => handler'[q] = handler[q]
             /\ h.pc \in {"unsupported", "task", "lambda", "clear", "refresh"}
             /\ h.pc = "clear" => h.next \in {"unsupported", "task", "lambda", "goodbye"}
             /\ h.pc = "refresh" => /\ h.row = context[ChannelOf(r)] /\ h.row \in Affinity
                                    /\ h.sawLock = locked[ChannelOf(r)]
             /\ h.pc # "refresh" => ~h.sawLock
             /\ h.replay = handler[r].replay
<1> DEFINE row == context[ChannelOf(r)]
           m == handler[r].msg
           dispatch == Dispatch(m)
<1>1. handler[r] \in Handler /\ handler \in [Requests -> Handler] /\ ChannelOf(r) \in Channels
  BY DEF TypeOK, Handler, ChannelOf
<1>2. row \in Affinity \cup {NoContext} /\ locked[ChannelOf(r)] \in BOOLEAN
  BY <1>1 DEF TypeOK, ContextTypeOK
<1>3. dispatch \in {"unsupported", "task", "lambda"}
  BY DispatchLeads
<1>4. PICK pc \in {"unsupported", "task", "lambda", "clear", "refresh"},
           next \in {"idle", "unsupported", "task", "lambda", "goodbye"},
           read \in Affinity \cup {NoContext}, saw \in BOOLEAN :
        /\ handler' = [handler EXCEPT ![r].pc = pc, ![r].next = next, ![r].row = read,
                                      ![r].sawLock = saw]
        /\ pc = "clear" => next # "idle"
        /\ pc = "refresh" => read = row /\ row # NoContext /\ saw = locked[ChannelOf(r)]
        /\ pc # "refresh" => saw = FALSE
  <2> HIDE DEF dispatch
  <2>1. CASE row = NoContext
    <3>1. handler' = [handler EXCEPT ![r].pc = dispatch, ![r].next = "idle", ![r].row = NoContext,
                                     ![r].sawLock = FALSE]
      BY <1>3, <2>1 DEF ReadContext, GetRoutingContext, dispatch
    <3>2. QED
      BY <1>3, <3>1
  <2>2. CASE row # NoContext /\ (~row.fresh \/ "image" \in m)
    <3>1. handler' = [handler EXCEPT ![r].pc = "clear", ![r].next = dispatch, ![r].row = NoContext,
                                     ![r].sawLock = FALSE]
      BY <2>2 DEF ReadContext, GetRoutingContext, dispatch
    <3>2. QED
      BY <1>3, <3>1
  <2>3. CASE row # NoContext /\ ~(~row.fresh \/ "image" \in m) /\ "cancel" \in m
    <3>1. handler' = [handler EXCEPT ![r].pc = "clear", ![r].next = "goodbye", ![r].row = NoContext,
                                     ![r].sawLock = FALSE]
      BY <2>3 DEF ReadContext, GetRoutingContext
    <3>2. QED
      BY <3>1
  <2>4. CASE /\ row # NoContext /\ ~(~row.fresh \/ "image" \in m) /\ "cancel" \notin m
             /\ ~ShouldKeepToolAffinity(m)
    <3>1. handler' = [handler EXCEPT ![r].pc = "clear", ![r].next = dispatch, ![r].row = NoContext,
                                     ![r].sawLock = FALSE]
      BY <2>4 DEF ReadContext, GetRoutingContext, dispatch
    <3>2. QED
      BY <1>3, <3>1
  <2>5. CASE /\ row # NoContext /\ ~(~row.fresh \/ "image" \in m) /\ "cancel" \notin m
             /\ ShouldKeepToolAffinity(m)
    <3>1. handler' = [handler EXCEPT ![r].pc = "refresh", ![r].next = "idle", ![r].row = row,
                                     ![r].sawLock = locked[ChannelOf(r)]]
      BY <2>5, <1>2 DEF ReadContext, GetRoutingContext
    <3>2. QED
      BY <1>2, <2>5, <3>1
  <2>6. QED
    BY <2>1, <2>2, <2>3, <2>4, <2>5
<1>5. handler'[r] = [handler[r] EXCEPT !.pc = pc, !.next = next, !.row = read, !.sawLock = saw]
  BY <1>1, <1>4
<1>6. /\ handler'[r].pc = pc /\ handler'[r].next = next /\ handler'[r].row = read
      /\ handler'[r].sawLock = saw /\ handler'[r].replay = handler[r].replay
  BY <1>1, <1>5 DEF Handler
<1>7. [handler[r] EXCEPT !.pc = pc, !.next = next, !.row = read, !.sawLock = saw] \in Handler
  <2>1. pc \in Pcs /\ next \in Pcs
    BY DEF Pcs
  <2>2. QED
    BY <1>1, <2>1 DEF Handler
<1>8. handler' \in [Requests -> Handler] /\ \A q \in Requests : q # r => handler'[q] = handler[q]
  BY <1>1, <1>4, <1>7
<1>9. QED
  BY <1>2, <1>4, <1>6, <1>8

LEMMA RefreshEffect ==
  ASSUME TypeOK, NEW r \in Requests, RefreshContext(r)
  PROVE  /\ handler' \in [Requests -> Handler]
         /\ \A q \in Requests : q # r => handler'[q] = handler[q]
         /\ handler'[r].pc = "task" /\ handler'[r].replay
         /\ handler'[r].row = handler[r].row /\ handler'[r].sawLock = handler[r].sawLock
<1>1. handler[r] \in Handler /\ handler \in [Requests -> Handler]
  BY DEF TypeOK
<1>2. handler'[r] = [handler[r] EXCEPT !.pc = "task", !.replay = TRUE]
  BY <1>1 DEF RefreshContext
<1>3. [handler[r] EXCEPT !.pc = "task", !.replay = TRUE] \in Handler
  BY <1>1 DEF Handler, Pcs
<1>4. /\ handler'[r].pc = "task" /\ handler'[r].replay
      /\ handler'[r].row = handler[r].row /\ handler'[r].sawLock = handler[r].sawLock
  BY <1>1, <1>2 DEF Handler
<1>5. QED
  BY <1>1, <1>3, <1>4 DEF RefreshContext

LEMMA ReadTaskEffect ==
  ASSUME TypeOK, NEW r \in Requests, ReadTask(r)
  PROVE  LET h == handler'[r]
         IN  /\ handler' \in [Requests -> Handler]
             /\ \A q \in Requests : q # r => handler'[q] = handler[q]
             /\ h.pc \in {"create", "agentcore", "fargate", "lambda"}
             /\ h.pc = "create" => ~h.replay /\ h.next \in {"agentcore", "fargate", "lambda"}
             /\ h.replay = handler[r].replay /\ h.sawLock = handler[r].sawLock
             /\ h.replay /\ ReplayProvider(handler[r].row) = "fargate" => h.pc = "fargate"
<1> DEFINE h == handler[r]
           to == IF h.replay THEN ToolRuntime(ReplayProvider(h.row), task) ELSE Target(h.msg, task)
           opens == ~h.replay /\ OpensSession(h.msg)
           pc == IF opens THEN "create" ELSE to
           next == IF opens THEN to ELSE "idle"
<1>1. handler[r] \in Handler /\ handler \in [Requests -> Handler] /\ task \in Tasks
  BY DEF TypeOK
<1>2. /\ to \in {"agentcore", "fargate", "lambda"}
      /\ h.replay /\ ReplayProvider(h.row) = "fargate" => to = "fargate"
  BY ToolRuntimeLeads, TargetLeads
<1>3. /\ pc \in {"create", "agentcore", "fargate", "lambda"}
      /\ next \in {"agentcore", "fargate", "lambda", "idle"}
      /\ pc = "create" => ~h.replay /\ next \in {"agentcore", "fargate", "lambda"}
      /\ h.replay /\ ReplayProvider(h.row) = "fargate" => pc = "fargate"
  <2> HIDE DEF to
  <2>1. QED
    BY <1>2
<1>4. handler' = [handler EXCEPT ![r].task = task, ![r].row = NoContext, ![r].pc = pc, ![r].next = next]
  BY DEF ReadTask
<1> HIDE DEF pc, next, to, opens
<1>5. handler'[r] = [h EXCEPT !.task = task, !.row = NoContext, !.pc = pc, !.next = next]
  BY <1>1, <1>4
<1>6. [h EXCEPT !.task = task, !.row = NoContext, !.pc = pc, !.next = next] \in Handler
  <2>1. pc \in Pcs /\ next \in Pcs
    BY <1>3 DEF Pcs
  <2>2. QED
    BY <1>1, <2>1 DEF Handler
<1>7. /\ handler'[r].pc = pc /\ handler'[r].next = next
      /\ handler'[r].replay = h.replay /\ handler'[r].sawLock = h.sawLock
  BY <1>1, <1>5 DEF Handler
<1>8. handler' \in [Requests -> Handler] /\ \A q \in Requests : q # r => handler'[q] = handler[q]
  BY <1>1, <1>4, <1>6
<1>9. QED
  BY <1>3, <1>7, <1>8

LEMMA ReceiveEffect ==
  ASSUME TypeOK, NEW r \in Requests, Receive(r)
  PROVE  /\ handler' \in [Requests -> Handler]
         /\ \A q \in Requests : q # r => handler'[q] = handler[q]
         /\ handler'[r].pc = "context" /\ ~handler'[r].replay /\ ~handler'[r].sawLock
<1>1. handler \in [Requests -> Handler]
  BY DEF TypeOK
<1>2. PICK c \in Channels, m \in SUBSET Signals :
        handler' = [handler EXCEPT ![r] = [NotStarted EXCEPT !.pc = "context", !.channel = c, !.msg = m]]
  <2>1. PICK a \in Arrivals :
          handler' = [handler EXCEPT ![r] = [NotStarted EXCEPT !.pc = "context",
                                                               !.channel = a[1], !.msg = a[2]]]
    BY DEF Receive
  <2>2. a[1] \in Channels /\ a[2] \in SUBSET Signals
    BY ArrivalsAssumption
  <2>3. QED
    BY <2>1, <2>2
<1>3. [NotStarted EXCEPT !.pc = "context", !.channel = c, !.msg = m] \in Handler
  BY NotStartedType DEF Handler, Pcs
<1>4. handler'[r] = [NotStarted EXCEPT !.pc = "context", !.channel = c, !.msg = m]
  BY <1>1, <1>2
<1>5. handler'[r].pc = "context" /\ ~handler'[r].replay /\ ~handler'[r].sawLock
  BY <1>4 DEF NotStarted
<1>6. QED
  BY <1>1, <1>2, <1>3, <1>5

LEMMA InvokeEffect ==
  ASSUME TypeOK, NEW r \in Requests, InvokeAgentCore(r)
  PROVE  /\ handler' \in [Requests -> Handler] /\ agentcore' \in [Requests -> Invocation]
         /\ \A q \in Requests : q # r => handler'[q] = handler[q] /\ agentcore'[q] = agentcore[q]
         /\ handler'[r].pc = "waiting"
         /\ handler'[r].replay = handler[r].replay /\ handler'[r].sawLock = handler[r].sawLock
         /\ agentcore'[r].state = "sent" /\ agentcore'[r].reply = "none"
         /\ agentcore'[r].followUp /\ agentcore'[r].callback => AgentCoreIsAssistant
<1>1. handler[r] \in Handler /\ handler \in [Requests -> Handler] /\ agentcore \in [Requests -> Invocation]
  BY DEF TypeOK
<1>2. handler'[r] = [handler[r] EXCEPT !.pc = "waiting", !.inTry = TRUE]
  BY <1>1 DEF InvokeAgentCore
<1>3. [handler[r] EXCEPT !.pc = "waiting", !.inTry = TRUE] \in Handler
  BY <1>1 DEF Handler, Pcs
<1>4. /\ handler'[r].pc = "waiting"
      /\ handler'[r].replay = handler[r].replay /\ handler'[r].sawLock = handler[r].sawLock
  BY <1>1, <1>2 DEF Handler
<1>5. config.callbackDelivery \in BOOLEAN /\ handler[r].replay \in BOOLEAN
  BY <1>1, ConfigsAssumption DEF TypeOK, Handler
<1>6. PICK empty \in BOOLEAN, callback \in BOOLEAN :
        /\ agentcore' = [agentcore EXCEPT ![r] = [state |-> "sent", reply |-> "none",
                           followUp |-> handler[r].replay, empty |-> empty, callback |-> callback]]
        /\ callback => HasCallbackUrl(r)
  <2>1. StrippedBare(r) \in BOOLEAN /\ (config.callbackDelivery /\ HasCallbackUrl(r)) \in BOOLEAN
    BY DEF StrippedBare
  <2>2. QED
    BY <2>1 DEF InvokeAgentCore
<1>7. [state |-> "sent", reply |-> "none", followUp |-> handler[r].replay, empty |-> empty,
       callback |-> callback] \in Invocation
  BY <1>5 DEF Invocation
<1>8. /\ agentcore'[r].state = "sent" /\ agentcore'[r].reply = "none"
      /\ agentcore'[r].followUp /\ agentcore'[r].callback => AgentCoreIsAssistant
  BY <1>1, <1>6 DEF HasCallbackUrl
<1>9. QED
  BY <1>1, <1>3, <1>4, <1>6, <1>7, <1>8 DEF InvokeAgentCore

LEMMA AcceptEffect ==
  ASSUME TypeOK, NEW r \in Requests, AcceptInvocation(r)
  PROVE  LET a == agentcore[r]
             b == agentcore'[r]
         IN  /\ agentcore' \in [Requests -> Invocation]
             /\ \A q \in Requests : q # r => agentcore'[q] = agentcore[q] /\ owners'[q] = owners[q]
             /\ owners' \in [Requests -> SUBSET {"agentcore", "lambda", "fargate"}]
             /\ owners[r] \subseteq owners'[r] /\ owners'[r] \subseteq owners[r] \cup {"agentcore"}
             /\ b.followUp = a.followUp /\ b.callback = a.callback
             /\ a.state = "sent" /\ b.state \in {"running", "over"}
             /\ b.reply = "error" \/ (~a.callback /\ b.reply = "none")
                \/ (a.callback /\ b.reply = "accepted" /\ "agentcore" \in owners'[r])
             /\ b.reply \in {"error", "none", "accepted"}
             /\ b.reply = "error" <=> b.state = "over"
<1>1. agentcore[r] \in Invocation /\ agentcore \in [Requests -> Invocation]
      /\ owners \in [Requests -> SUBSET {"agentcore", "lambda", "fargate"}]
  BY DEF TypeOK
<1>2. CASE agentcore[r].empty
  <2>1. agentcore'[r] = [agentcore[r] EXCEPT !.state = "over", !.reply = "error"] /\ owners' = owners
    BY <1>1, <1>2 DEF AcceptInvocation
  <2>2. [agentcore[r] EXCEPT !.state = "over", !.reply = "error"] \in Invocation
    BY <1>1 DEF Invocation
  <2>3. /\ agentcore'[r].state = "over" /\ agentcore'[r].reply = "error"
        /\ agentcore'[r].followUp = agentcore[r].followUp
        /\ agentcore'[r].callback = agentcore[r].callback
    BY <1>1, <2>1 DEF Invocation
  <2>4. QED
    BY <1>1, <1>2, <2>1, <2>2, <2>3 DEF AcceptInvocation
<1>3. CASE ~agentcore[r].empty
  <2> DEFINE reply == IF agentcore[r].callback THEN "accepted" ELSE "none"
  <2>1. agentcore' = [agentcore EXCEPT ![r].state = "running", ![r].reply = reply]
        /\ owners' = [owners EXCEPT ![r] = @ \cup {"agentcore"}] /\ agentcore[r].state = "sent"
    BY <1>3 DEF AcceptInvocation, Take
  <2>2. agentcore'[r] = [agentcore[r] EXCEPT !.state = "running", !.reply = reply]
    BY <1>1, <2>1
  <2>3. [agentcore[r] EXCEPT !.state = "running", !.reply = reply] \in Invocation
    BY <1>1 DEF Invocation
  <2>4. /\ agentcore'[r].state = "running" /\ agentcore'[r].reply = reply
        /\ agentcore'[r].followUp = agentcore[r].followUp
        /\ agentcore'[r].callback = agentcore[r].callback
    BY <1>1, <2>2 DEF Invocation
  <2>5. owners'[r] = owners[r] \cup {"agentcore"}
    BY <1>1, <2>1
  <2>6. QED
    BY <1>1, <2>1, <2>3, <2>4, <2>5
<1>4. QED
  BY <1>2, <1>3

LEMMA FinishEffect ==
  ASSUME TypeOK, NEW r \in Requests, FinishInvocation(r)
  PROVE  LET a == agentcore[r]
             b == agentcore'[r]
         IN  /\ agentcore' \in [Requests -> Invocation]
             /\ \A q \in Requests : q # r => /\ agentcore'[q] = agentcore[q] /\ owners'[q] = owners[q]
                                             /\ answered'[q] = answered[q]
             /\ owners' \in [Requests -> SUBSET {"agentcore", "lambda", "fargate"}]
             /\ answered' \in [Requests -> SUBSET {"agentcore", "gateway"}]
             /\ a.state = "running" /\ b.state = "over"
             /\ b.followUp = a.followUp /\ b.callback = a.callback
             /\ a.callback => /\ owners'[r] = owners[r] /\ b.reply = a.reply
                              /\ answered'[r] = answered[r] \cup {"agentcore"}
             /\ ~a.callback => /\ answered'[r] = answered[r]
                               /\ b.reply \in {"content", "error", "handoff"}
                               /\ owners'[r] = IF b.reply = "handoff" THEN owners[r] \ {"agentcore"}
                                               ELSE owners[r]
<1>1. agentcore[r] \in Invocation /\ agentcore \in [Requests -> Invocation]
      /\ owners \in [Requests -> SUBSET {"agentcore", "lambda", "fargate"}]
      /\ answered \in [Requests -> SUBSET {"agentcore", "gateway"}]
  BY DEF TypeOK
<1>2. CASE agentcore[r].callback
  <2>1. agentcore'[r] = [agentcore[r] EXCEPT !.state = "over"] /\ owners' = owners
        /\ answered' = [answered EXCEPT ![r] = @ \cup {"agentcore"}]
        /\ agentcore' = [agentcore EXCEPT ![r].state = "over"] /\ agentcore[r].state = "running"
    BY <1>1, <1>2 DEF FinishInvocation, Answer
  <2>2. [agentcore[r] EXCEPT !.state = "over"] \in Invocation
    BY <1>1 DEF Invocation
  <2>3. /\ agentcore'[r].state = "over" /\ agentcore'[r].reply = agentcore[r].reply
        /\ agentcore'[r].followUp = agentcore[r].followUp
        /\ agentcore'[r].callback = agentcore[r].callback
    BY <1>1, <2>1 DEF Invocation
  <2>4. answered'[r] = answered[r] \cup {"agentcore"}
    BY <1>1, <2>1
  <2>5. QED
    BY <1>1, <1>2, <2>1, <2>2, <2>3, <2>4
<1>3. CASE ~agentcore[r].callback
  <2>1. PICK reply \in {"content", "error", "handoff"} :
          /\ agentcore' = [agentcore EXCEPT ![r].state = "over", ![r].reply = reply]
          /\ owners' = IF reply = "handoff" THEN [owners EXCEPT ![r] = @ \ {"agentcore"}] ELSE owners
    BY <1>3 DEF FinishInvocation
  <2>2. agentcore'[r] = [agentcore[r] EXCEPT !.state = "over", !.reply = reply]
    BY <1>1, <2>1
  <2>3. [agentcore[r] EXCEPT !.state = "over", !.reply = reply] \in Invocation
    BY <1>1 DEF Invocation
  <2>4. /\ agentcore'[r].state = "over" /\ agentcore'[r].reply = reply
        /\ agentcore'[r].followUp = agentcore[r].followUp
        /\ agentcore'[r].callback = agentcore[r].callback
    BY <1>1, <2>2 DEF Invocation
  <2>5. owners'[r] = IF reply = "handoff" THEN owners[r] \ {"agentcore"} ELSE owners[r]
    BY <1>1, <2>1
  <2>6. answered' = answered /\ agentcore[r].state = "running"
    BY <1>3 DEF FinishInvocation
  <2>7. owners' \in [Requests -> SUBSET {"agentcore", "lambda", "fargate"}]
        /\ \A q \in Requests : q # r => owners'[q] = owners[q]
    BY <1>1, <2>1
  <2>8. agentcore' \in [Requests -> Invocation]
        /\ \A q \in Requests : q # r => agentcore'[q] = agentcore[q]
    BY <1>1, <2>1, <2>3
  <2>9. QED
    BY <1>1, <1>3, <2>4, <2>5, <2>6, <2>7, <2>8
<1>4. QED
  BY <1>2, <1>3

\* A step of one request leaves the others where they are.
LEMMA OthersStay ==
  ASSUME TypeOK, NEW r \in Requests,
         Receive(r) \/ GatewayStep(r) \/ AcceptInvocation(r) \/ FinishInvocation(r),
         NEW q \in Requests, q # r
  PROVE  /\ handler'[q] = handler[q] /\ agentcore'[q] = agentcore[q]
         /\ owners'[q] = owners[q] /\ answered'[q] = answered[q]
         /\ q \in faulted' <=> q \in faulted
         /\ config' = config
<1>1. CASE Receive(r)
  <2>1. handler'[q] = handler[q]
    BY <1>1, ReceiveEffect
  <2>2. /\ agentcore'[q] = agentcore[q] /\ owners'[q] = owners[q] /\ answered'[q] = answered[q]
        /\ q \in faulted' <=> q \in faulted
        /\ config' = config
    BY <1>1 DEF Receive, TypeOK
  <2>3. QED
    BY <2>1, <2>2
<1>2. CASE ReadContext(r)
  BY <1>2, ReadContextEffect, ZenonT(60) DEF ReadContext, sessionVars
<1>3. CASE \/ ClearContext(r) \/ Clarify(r) \/ CreateContext(r) \/ TakeReply(r) \/ Reply(r)
           \/ TakeHandoff(r) \/ LockProvider(r) \/ InvokeLambda(r) \/ RouteFargate(r) \/ TellStatus(r)
           \/ CallFails(r)
  <2>1. handler'[q] = handler[q]
    BY <1>3 DEF ClearContext, Clarify, CreateContext, TakeReply, Reply, TakeHandoff, LockProvider,
                InvokeLambda, RouteFargate, TellStatus, CallFails, Goto, TypeOK
  <2>2. agentcore' = agentcore /\ config' = config
    BY <1>3 DEF ClearContext, Clarify, CreateContext, TakeReply, Reply, TakeHandoff, LockProvider,
                InvokeLambda, RouteFargate, TellStatus, CallFails
  <2>3. owners'[q] = owners[q]
    BY <1>3 DEF ClearContext, Clarify, CreateContext, TakeReply, Reply, TakeHandoff, LockProvider,
                InvokeLambda, RouteFargate, TellStatus, CallFails, Take, TypeOK
  <2>4. answered'[q] = answered[q]
    BY <1>3 DEF ClearContext, Clarify, CreateContext, TakeReply, Reply, TakeHandoff, LockProvider,
                InvokeLambda, RouteFargate, TellStatus, CallFails, Answer, TypeOK
  <2>5. q \in faulted' <=> q \in faulted
    BY <1>3 DEF ClearContext, Clarify, CreateContext, TakeReply, Reply, TakeHandoff, LockProvider,
                InvokeLambda, RouteFargate, TellStatus, CallFails, Fault
  <2>6. QED
    BY <2>1, <2>2, <2>3, <2>4, <2>5
<1>4. CASE RefreshContext(r)
  BY <1>4, RefreshEffect DEF RefreshContext
<1>5. CASE ReadTask(r)
  BY <1>5, ReadTaskEffect DEF ReadTask
<1>6. CASE InvokeAgentCore(r)
  BY <1>6, InvokeEffect, ZenonT(60) DEF InvokeAgentCore
<1>7. CASE AcceptInvocation(r)
  <2>1. agentcore'[q] = agentcore[q] /\ owners'[q] = owners[q]
    BY <1>7, AcceptEffect
  <2>2. UNCHANGED <<config, handler, answered, faulted>>
    BY <1>7 DEF AcceptInvocation
  <2>3. QED
    BY <2>1, <2>2
<1>8. CASE FinishInvocation(r)
  <2>1. agentcore'[q] = agentcore[q] /\ owners'[q] = owners[q] /\ answered'[q] = answered[q]
    BY <1>8, FinishEffect, ZenonT(60)
  <2>2. UNCHANGED <<config, handler, faulted>>
    BY <1>8 DEF FinishInvocation
  <2>3. QED
    BY <2>1, <2>2
<1>9. QED
  BY <1>1, <1>2, <1>3, <1>4, <1>5, <1>6, <1>7, <1>8 DEF GatewayStep

\* Whoever is left alone keeps what holds of him.
LEMMA RequestFrame ==
  ASSUME NEW q \in Requests, RequestInv(q), handler'[q] = handler[q], agentcore'[q] = agentcore[q],
         owners'[q] = owners[q], answered'[q] = answered[q], q \in faulted' <=> q \in faulted,
         config' = config
  PROVE  RequestInv(q)'
BY DEF RequestInv, Untouched, Course, Sole, Handled, Followed, Accepted, Kept,
       AgentCoreIsAssistant, AgentCoreConfigured

-----------------------------------------------------------------------------
(* Who has a message *)

LEMMA RoutingInit == Init => RoutingInv
<1>1. SUFFICES ASSUME Init
               PROVE  RoutingInv
  OBVIOUS
<1>2. TypeOK
  BY <1>1, NotStartedType, NoInvocationType
     DEF Init, TypeOK, ContextInit, ContextTypeOK, Tasks
<1>3. ASSUME NEW r \in Requests
      PROVE  RequestInv(r)
  BY <1>1, <1>3 DEF Init, RequestInv, Untouched, Course, Sole, Handled, Followed, NotStarted,
                    NoInvocation
<1>4. QED
  BY <1>2, <1>3 DEF RoutingInv

\* A request and its message, once it is moved on and nothing fails.
LEMMA RequestMoves ==
  ASSUME TypeOK, NEW r \in Requests, RequestInv(r), NEW pc \in Pcs, Goto(r, pc),
         agentcore' = agentcore, config' = config, faulted' = faulted,
         owners[r] \subseteq owners'[r],
         "agentcore" \in answered'[r] => "agentcore" \in answered[r],
         pc \notin {"lock", "failed", "context", "clear", "refresh", "create", "waiting"},
         pc \in Early => /\ handler[r].pc \in Early /\ owners'[r] = {} /\ answered'[r] = {}
                         /\ pc = "task" => ~handler[r].replay,
         pc = "tell" => Kept(r)',
         pc = "done" => answered'[r] # {} \/ Kept(r)' \/ Accepted(r),
         r \notin faulted =>
           /\ pc \in {"handoff", "lambda", "fargate"} => owners'[r] = {}
           /\ pc \in {"handoff", "lambda", "fargate", "reply", "tell"} => agentcore[r].state \in {"none", "over"}
           /\ pc = "reply" => owners'[r] \subseteq {"agentcore"}
           /\ pc = "tell" => \A x, y \in owners'[r] : x = y
           /\ pc = "done" => /\ agentcore[r].state # "sent"
                             /\ agentcore[r].state = "running" => agentcore[r].callback
                             /\ \A x, y \in owners'[r] : x = y
  PROVE  RequestInv(r)'
<1>1. handler'[r].pc = pc /\ (pc \notin {"done", "failed"} => handler'[r].replay = handler[r].replay)
  BY GotoEffect
<1>2. agentcore'[r] = agentcore[r]
  OBVIOUS
<1>3. Untouched(r)'
  BY <1>1, <1>2 DEF Untouched, RequestInv
<1>4. Course(r)'
  BY <1>1 DEF Course, RequestInv, Early
<1>5. Sole(r)'
  BY <1>1, <1>2 DEF Sole
<1>6. Accepted(r) => Accepted(r)'
  BY <1>2 DEF Accepted
<1>7. Handled(r)'
  BY <1>1, <1>2, <1>6 DEF Handled, RequestInv
<1>8. Followed(r)'
  BY <1>2 DEF Followed, RequestInv, AgentCoreIsAssistant, AgentCoreConfigured
<1>9. QED
  BY <1>3, <1>4, <1>5, <1>7, <1>8 DEF RequestInv

\* And once something has failed.
LEMMA RequestFails ==
  ASSUME TypeOK, NEW r \in Requests, RequestInv(r), NEW pc \in {"lock", "fargate", "failed"}, Goto(r, pc),
         agentcore' = agentcore, config' = config, r \in faulted',
         owners[r] \subseteq owners'[r],
         "agentcore" \in answered'[r] => "agentcore" \in answered[r]
  PROVE  RequestInv(r)'
<1>1. handler'[r].pc = pc
  BY GotoEffect DEF Pcs
<1>2. agentcore'[r] = agentcore[r]
  OBVIOUS
<1>3. Untouched(r)' /\ Course(r)' /\ Sole(r)'
  BY <1>1 DEF Untouched, Course, Sole, Early
<1>4. Accepted(r) => Accepted(r)'
  BY <1>2 DEF Accepted
<1>5. Handled(r)'
  BY <1>1, <1>2, <1>4 DEF Handled, RequestInv
<1>6. Followed(r)'
  BY <1>2 DEF Followed, RequestInv, AgentCoreIsAssistant, AgentCoreConfigured
<1>7. QED
  BY <1>3, <1>5, <1>6 DEF RequestInv

LEMMA RequestStep ==
  ASSUME RoutingInv, NEW r \in Requests,
         Receive(r) \/ GatewayStep(r) \/ AcceptInvocation(r) \/ FinishInvocation(r)
  PROVE  RequestInv(r)'
<1>a. TypeOK /\ RequestInv(r)
  BY DEF RoutingInv
<1>b. owners \in [Requests -> SUBSET {"agentcore", "lambda", "fargate"}]
      /\ answered \in [Requests -> SUBSET {"agentcore", "gateway"}]
  BY <1>a DEF TypeOK
<1>c. Untouched(r) /\ Course(r) /\ Sole(r) /\ Handled(r) /\ Followed(r)
  BY <1>a DEF RequestInv
<1>1. CASE Receive(r)
  <2>1. handler'[r].pc = "context" /\ ~handler'[r].replay
    BY <1>a, <1>1, ReceiveEffect
  <2>2. agentcore'[r] = NoInvocation /\ owners'[r] = {} /\ answered'[r] = {} /\ r \notin faulted'
    BY <1>a, <1>1 DEF Receive, TypeOK
  <2>3. QED
    BY <2>1, <2>2 DEF RequestInv, Untouched, Course, Sole, Handled, Followed, NoInvocation
<1>2. CASE ReadContext(r)
  <2>1. UNCHANGED <<config, agentcore, owners, answered, faulted>> /\ handler[r].pc = "context"
    BY <1>2 DEF ReadContext, At
  <2>2. /\ handler'[r].pc \in {"unsupported", "task", "lambda", "clear", "refresh"}
        /\ handler'[r].pc = "clear" => handler'[r].next \in {"unsupported", "task", "lambda", "goodbye"}
        /\ handler'[r].pc = "refresh" => handler'[r].row \in Affinity
        /\ handler'[r].replay = handler[r].replay
    BY <1>a, <1>2, ReadContextEffect
  <2>3. ~handler[r].replay /\ owners[r] = {} /\ agentcore[r].state = "none" /\ r \notin faulted
    BY <1>c, <2>1 DEF Untouched, Course, Early
  <2>4. Course(r)' /\ Sole(r)'
    BY <2>1, <2>2, <2>3 DEF Course, Sole
  <2>5. Untouched(r)' /\ Handled(r)' /\ Followed(r)'
    BY <1>c, <2>1, <2>2 DEF Untouched, Early, Handled, Accepted, Followed, AgentCoreIsAssistant,
                            AgentCoreConfigured
  <2>6. QED
    BY <2>4, <2>5 DEF RequestInv
<1>3. CASE ClearContext(r) \/ CreateContext(r)
  <2> DEFINE pc == handler[r].next
  <2>1. Goto(r, pc) /\ UNCHANGED <<config, agentcore, owners, answered, faulted>>
        /\ handler[r].pc \in {"clear", "create"}
    BY <1>3 DEF ClearContext, CreateContext, At
  <2>2. pc \in {"unsupported", "task", "lambda", "goodbye", "agentcore", "fargate"} /\ ~handler[r].replay
    BY <1>c, <1>3 DEF Course, ClearContext, CreateContext, At
  <2>3. pc \in Pcs
    BY <2>2 DEF Pcs
  <2>4. owners[r] = {} /\ answered[r] = {} /\ agentcore[r].state = "none" /\ handler[r].pc \in Early
    BY <1>c, <2>1 DEF Untouched, Early
  <2>5. QED
    BY <1>a, <2>1, <2>2, <2>3, <2>4, RequestMoves
<1>4. CASE Clarify(r)
  <2>1. Goto(r, "done") /\ UNCHANGED <<config, agentcore, owners, faulted>>
        /\ answered'[r] = answered[r] \cup {"gateway"} /\ handler[r].pc \in Early
    BY <1>b, <1>4 DEF Clarify, Answer, At, Early
  <2>2. owners[r] = {} /\ answered[r] = {} /\ agentcore[r].state = "none"
    BY <1>c, <2>1 DEF Untouched
  <2>3. QED
    BY <1>a, <2>1, <2>2, RequestMoves DEF Pcs, Early
<1>5. CASE RefreshContext(r)
  <2>1. UNCHANGED <<config, agentcore, owners, answered, faulted>> /\ handler[r].pc = "refresh"
    BY <1>5 DEF RefreshContext, At
  <2>2. handler'[r].pc = "task" /\ handler'[r].replay /\ handler'[r].row = handler[r].row
    BY <1>a, <1>5, RefreshEffect
  <2>3. Course(r)' /\ Sole(r)'
    BY <1>c, <2>1, <2>2 DEF Course, Sole
  <2>4. Untouched(r)' /\ Handled(r)' /\ Followed(r)'
    BY <1>c, <2>1, <2>2 DEF Untouched, Early, Handled, Accepted, Followed, AgentCoreIsAssistant,
                            AgentCoreConfigured
  <2>5. QED
    BY <2>3, <2>4 DEF RequestInv
<1>6. CASE ReadTask(r)
  <2>1. UNCHANGED <<config, agentcore, owners, answered, faulted>> /\ handler[r].pc = "task"
    BY <1>6 DEF ReadTask, At
  <2>2. /\ handler'[r].pc \in {"create", "agentcore", "fargate", "lambda"}
        /\ handler'[r].pc = "create" =>
             ~handler'[r].replay /\ handler'[r].next \in {"agentcore", "fargate", "lambda"}
    BY <1>a, <1>6, ReadTaskEffect
  <2>3. owners[r] = {} /\ agentcore[r].state = "none" /\ r \notin faulted
    BY <1>c, <2>1 DEF Untouched, Early
  <2>4. Course(r)' /\ Sole(r)'
    BY <2>1, <2>2, <2>3 DEF Course, Sole
  <2>5. Untouched(r)' /\ Handled(r)' /\ Followed(r)'
    BY <1>c, <2>1, <2>2 DEF Untouched, Early, Handled, Accepted, Followed, AgentCoreIsAssistant,
                            AgentCoreConfigured
  <2>6. QED
    BY <2>4, <2>5 DEF RequestInv
<1>7. CASE InvokeAgentCore(r)
  <2>1. UNCHANGED <<config, owners, answered, faulted>> /\ handler[r].pc = "agentcore"
    BY <1>7 DEF InvokeAgentCore, At
  <2>2. /\ handler'[r].pc = "waiting"
        /\ agentcore'[r].state = "sent" /\ agentcore'[r].reply = "none"
        /\ agentcore'[r].followUp /\ agentcore'[r].callback => AgentCoreIsAssistant
    BY <1>a, <1>7, InvokeEffect
  <2>3. owners[r] = {} /\ answered[r] = {}
    BY <1>c, <2>1 DEF Untouched, Early
  <2>4. QED
    BY <2>1, <2>2, <2>3 DEF RequestInv, Untouched, Early, Course, Sole, Handled, Followed,
                            AgentCoreIsAssistant, AgentCoreConfigured
<1>8. CASE TakeReply(r)
  <2>1. UNCHANGED <<config, agentcore, owners, answered>> /\ handler[r].pc = "waiting"
        /\ agentcore[r].reply \in {"accepted", "content", "handoff", "error"}
    <3>1. agentcore[r] \in Invocation
      BY <1>a DEF TypeOK
    <3>2. QED
      BY <1>8, <3>1 DEF TakeReply, At, Invocation
  <2>2. CASE agentcore[r].reply = "error"
    <3>1. Goto(r, "lock") /\ r \in faulted'
      BY <1>8, <2>2 DEF TakeReply, Fault
    <3>2. QED
      BY <1>a, <2>1, <3>1, RequestFails
  <2>3. CASE agentcore[r].reply = "accepted"
    <3>1. Goto(r, "done") /\ faulted' = faulted
      BY <1>8, <2>3 DEF TakeReply
    <3>2. Accepted(r) /\ agentcore[r].state # "sent"
      BY <1>c, <2>3 DEF Handled, Accepted
    <3>3. r \notin faulted => \A x, y \in owners[r] : x = y
      BY <1>c, <2>1 DEF Sole
    <3>4. QED
      BY <1>a, <2>1, <3>1, <3>2, <3>3, RequestMoves DEF Pcs, Early, Accepted
  <2>4. CASE agentcore[r].reply = "content"
    <3>1. Goto(r, "reply") /\ faulted' = faulted
      BY <1>8, <2>4 DEF TakeReply
    <3>2. r \notin faulted => owners[r] \subseteq {"agentcore"} /\ agentcore[r].state = "over"
      BY <1>c, <2>1, <2>4 DEF Sole
    <3>3. QED
      BY <1>a, <2>1, <3>1, <3>2, RequestMoves DEF Pcs, Early
  <2>5. CASE agentcore[r].reply = "handoff"
    <3>1. Goto(r, "handoff") /\ faulted' = faulted
      BY <1>8, <2>5 DEF TakeReply
    <3>2. r \notin faulted => owners[r] = {} /\ agentcore[r].state = "over"
      BY <1>c, <2>1, <2>5 DEF Sole
    <3>3. QED
      BY <1>a, <2>1, <3>1, <3>2, RequestMoves DEF Pcs, Early
  <2>6. QED
    BY <2>1, <2>2, <2>3, <2>4, <2>5
<1>9. CASE Reply(r)
  <2>1. Goto(r, "done") /\ UNCHANGED <<config, agentcore, owners, faulted>>
        /\ answered'[r] = answered[r] \cup {"gateway"} /\ handler[r].pc = "reply"
    BY <1>b, <1>9 DEF Reply, Answer, At
  <2>2. r \notin faulted => owners[r] \subseteq {"agentcore"} /\ agentcore[r].state \in {"none", "over"}
    BY <1>c, <2>1 DEF Sole
  <2>3. QED
    BY <1>a, <2>1, <2>2, RequestMoves DEF Pcs, Early
<1>10. CASE TakeHandoff(r)
  <2>1. Goto(r, "lambda") /\ UNCHANGED <<config, agentcore, owners, answered, faulted>>
        /\ handler[r].pc = "handoff"
    BY <1>10 DEF TakeHandoff, At
  <2>2. r \notin faulted => owners[r] = {} /\ agentcore[r].state \in {"none", "over"}
    BY <1>c, <2>1 DEF Sole
  <2>3. QED
    BY <1>a, <2>1, <2>2, RequestMoves DEF Pcs, Early
<1>11. CASE LockProvider(r)
  <2>1. Goto(r, "fargate") /\ UNCHANGED <<config, agentcore, owners, answered, faulted>>
        /\ handler[r].pc = "lock"
    BY <1>11 DEF LockProvider, At
  <2>2. r \in faulted
    BY <1>c, <2>1 DEF Sole
  <2>3. QED
    BY <1>a, <2>1, <2>2, RequestFails
<1>12. CASE InvokeLambda(r) \/ RouteFargate(r)
  <2>1. PICK runtime \in {"lambda", "fargate"} :
          handler[r].pc = runtime /\ owners'[r] = owners[r] \cup {runtime}
    BY <1>b, <1>12 DEF InvokeLambda, RouteFargate, Take, At
  <2>2. UNCHANGED <<config, agentcore, answered, faulted>> /\ (Goto(r, "tell") \/ Goto(r, "done"))
    BY <1>12 DEF InvokeLambda, RouteFargate
  <2>3. r \notin faulted => owners[r] = {} /\ agentcore[r].state \in {"none", "over"}
    BY <1>c, <2>1 DEF Sole
  <2>4. Kept(r)'
    BY <2>1 DEF Kept
  <2>5. r \notin faulted => \A x, y \in owners'[r] : x = y
    BY <2>1, <2>3
  <2>6. CASE Goto(r, "tell")
    BY <1>a, <2>1, <2>2, <2>3, <2>4, <2>5, <2>6, RequestMoves DEF Pcs, Early
  <2>7. CASE Goto(r, "done")
    BY <1>a, <2>1, <2>2, <2>3, <2>4, <2>5, <2>7, RequestMoves DEF Pcs, Early
  <2>8. QED
    BY <2>2, <2>6, <2>7
<1>13. CASE TellStatus(r)
  <2>1. Goto(r, "done") /\ UNCHANGED <<config, agentcore, owners, answered, faulted>>
        /\ handler[r].pc = "tell"
    BY <1>13 DEF TellStatus, At
  <2>2. r \notin faulted => agentcore[r].state \in {"none", "over"} /\ \A x, y \in owners[r] : x = y
    BY <1>c, <2>1 DEF Sole
  <2>3. Kept(r)'
    BY <1>c, <2>1 DEF Handled, Kept
  <2>4. QED
    BY <1>a, <2>1, <2>2, <2>3, RequestMoves DEF Pcs, Early
<1>14. CASE CallFails(r)
  <2> DEFINE pc == Catch(r, handler[r].pc)
  <2>1. Goto(r, pc) /\ UNCHANGED <<config, agentcore>> /\ r \in faulted'
    BY <1>14 DEF CallFails, Fault
  <2>2. owners[r] \subseteq owners'[r] /\ ("agentcore" \in answered'[r] => "agentcore" \in answered[r])
    BY <1>b, <1>14 DEF CallFails, Take, Answer
  <2>3. pc \in {"lock", "fargate", "failed"}
    BY DEF Catch
  <2>4. QED
    BY <1>a, <2>1, <2>2, <2>3, RequestFails
<1>15. CASE AcceptInvocation(r)
  <2> DEFINE a == agentcore[r]
             b == agentcore'[r]
  <2>1. UNCHANGED <<config, handler, answered, faulted>>
    BY <1>15 DEF AcceptInvocation
  <2>2. /\ owners[r] \subseteq owners'[r] /\ owners'[r] \subseteq owners[r] \cup {"agentcore"}
        /\ b.followUp = a.followUp /\ b.callback = a.callback
        /\ a.state = "sent" /\ b.state \in {"running", "over"}
        /\ b.reply = "error" \/ (~a.callback /\ b.reply = "none")
           \/ (a.callback /\ b.reply = "accepted" /\ "agentcore" \in owners'[r])
        /\ b.reply \in {"error", "none", "accepted"}
    BY <1>a, <1>15, AcceptEffect
  <2> HIDE DEF a, b
  <2>3. Untouched(r)' /\ Course(r)'
    BY <1>c, <2>1, <2>2 DEF Untouched, Course, a, b
  <2>4. Sole(r)'
    BY <1>c, <2>1, <2>2 DEF Sole, Untouched, Early, a, b
  <2>5. Handled(r)' /\ Followed(r)'
    BY <1>c, <2>1, <2>2 DEF Handled, Accepted, Kept, Followed, AgentCoreIsAssistant,
                            AgentCoreConfigured, a, b
  <2>6. QED
    BY <2>3, <2>4, <2>5 DEF RequestInv
<1>16. CASE FinishInvocation(r)
  <2> DEFINE a == agentcore[r]
             b == agentcore'[r]
  <2>1. UNCHANGED <<config, handler, faulted>>
    BY <1>16 DEF FinishInvocation
  <2>2. /\ a.state = "running" /\ b.state = "over"
        /\ b.followUp = a.followUp /\ b.callback = a.callback
        /\ a.callback => /\ owners'[r] = owners[r] /\ b.reply = a.reply
                         /\ answered'[r] = answered[r] \cup {"agentcore"}
        /\ ~a.callback => /\ answered'[r] = answered[r]
                          /\ b.reply \in {"content", "error", "handoff"}
                          /\ owners'[r] = IF b.reply = "handoff" THEN owners[r] \ {"agentcore"}
                                          ELSE owners[r]
    BY <1>a, <1>16, FinishEffect
  <2> HIDE DEF a, b
  <2>3. Untouched(r)' /\ Course(r)'
    BY <1>c, <2>1, <2>2 DEF Untouched, Course, a, b
  <2>4. Sole(r)'
    BY <1>c, <2>1, <2>2 DEF Sole, Untouched, Early, a, b
  <2>5. Handled(r)' /\ Followed(r)'
    BY <1>c, <2>1, <2>2 DEF Handled, Accepted, Kept, Followed, AgentCoreIsAssistant,
                            AgentCoreConfigured, a, b
  <2>6. QED
    BY <2>3, <2>4, <2>5 DEF RequestInv
<1>17. QED
  BY <1>1, <1>2, <1>3, <1>4, <1>5, <1>6, <1>7, <1>8, <1>9, <1>10, <1>11, <1>12, <1>13, <1>14,
     <1>15, <1>16 DEF GatewayStep

LEMMA RowTypes ==
  ASSUME TypeOK
  PROVE  /\ \A r \in Requests : ChannelOf(r) \in Channels
         /\ \A provider \in Providers, fallback \in Providers \cup {"none"} :
              BuildAffinity(provider, fallback) \in Affinity
         /\ \A row \in Affinity : Refreshed(row) \in Affinity /\ Refreshed(row).fallback = row.fallback
         /\ config.toolProvider \in Providers
<1>1. \A r \in Requests : ChannelOf(r) \in Channels
  BY DEF TypeOK, Handler, ChannelOf
<1>2. \A provider \in Providers, fallback \in Providers \cup {"none"} :
        BuildAffinity(provider, fallback) \in Affinity
  BY DEF BuildAffinity, Affinity
<1>3. ASSUME NEW row \in Affinity
      PROVE  Refreshed(row) \in Affinity /\ Refreshed(row).fallback = row.fallback
  <2>1. row.fallback \in Providers \cup {"none"} /\ row.provider \in Providers
    BY DEF Affinity
  <2>2. ReplayProvider(row) \in Providers
    BY <2>1 DEF ReplayProvider
  <2>3. QED
    BY <1>2, <2>1, <2>2 DEF Refreshed, BuildAffinity
<1>4. config.toolProvider \in Providers
  BY ConfigsAssumption DEF TypeOK
<1>5. QED
  BY <1>1, <1>2, <1>3, <1>4

LEMMA TypeStep == RoutingInv /\ [Next]_vars => TypeOK'
<1> SUFFICES ASSUME RoutingInv, [Next]_vars
             PROVE  TypeOK'
  OBVIOUS
<1>a. TypeOK /\ \A r \in Requests : Course(r)
  BY DEF RoutingInv, RequestInv
<1>b. "fargate" \in Providers /\ "none" \in Providers \cup {"none"}
  BY DEF Providers
<1>1. ASSUME NEW r \in Requests, Receive(r)
      PROVE  TypeOK'
  <2>1. handler' \in [Requests -> Handler]
    BY <1>a, <1>1, ReceiveEffect
  <2>2. QED
    BY <1>a, <1>1, <2>1, NoInvocationType DEF Receive, sessionVars, TypeOK, ContextTypeOK
<1>2. ASSUME NEW r \in Requests, ReadContext(r) \/ ReadTask(r)
      PROVE  TypeOK'
  <2>1. handler' \in [Requests -> Handler]
    BY <1>a, <1>2, ReadContextEffect, ReadTaskEffect
  <2>2. QED
    BY <1>a, <1>2, <2>1 DEF ReadContext, ReadTask, sessionVars, TypeOK, ContextTypeOK
<1>3. ASSUME NEW r \in Requests, ClearContext(r) \/ TakeHandoff(r)
      PROVE  TypeOK'
  <2>1. PICK pc \in Pcs : Goto(r, pc)
    <3>1. CASE ClearContext(r)
      BY <1>a, <3>1 DEF ClearContext, At, Course, Pcs
    <3>2. CASE TakeHandoff(r)
      BY <3>2 DEF TakeHandoff, Pcs
    <3>3. QED
      BY <1>3, <3>1, <3>2
  <2>2. handler' \in [Requests -> Handler]
    BY <1>a, <2>1, GotoEffect
  <2>3. QED
    BY <1>a, <1>3, <2>2 DEF ClearContext, TakeHandoff, DeleteRoutingContext, TypeOK, ContextTypeOK
<1>4. ASSUME NEW r \in Requests, RefreshContext(r)
      PROVE  TypeOK'
  <2>1. handler' \in [Requests -> Handler]
    BY <1>a, <1>4, RefreshEffect
  <2>2. Refreshed(handler[r].row) \in Affinity /\ handler[r].sawLock \in BOOLEAN
    <3>1. handler[r].row \in Affinity /\ handler[r] \in Handler
      BY <1>a, <1>4 DEF RefreshContext, At, Course, TypeOK
    <3>2. QED
      BY <1>a, <3>1, RowTypes DEF Handler
  <2>3. QED
    BY <1>a, <1>4, <2>1, <2>2 DEF RefreshContext, Put, PutRoutingContext, TypeOK, ContextTypeOK
<1>5. ASSUME NEW r \in Requests, CreateContext(r) \/ LockProvider(r)
      PROVE  TypeOK'
  <2>1. PICK pc \in Pcs, row \in Affinity, lock \in BOOLEAN : Goto(r, pc) /\ Put(r, row, lock)
    <3>1. CASE CreateContext(r)
      <4>1. handler[r].next \in Pcs
        BY <1>a, <3>1 DEF CreateContext, At, Course, Pcs
      <4>2. BuildAffinity(config.toolProvider, "none") \in Affinity
        BY <1>a, <1>b, RowTypes
      <4>3. QED
        BY <3>1, <4>1, <4>2 DEF CreateContext
    <3>2. CASE LockProvider(r)
      <4>1. BuildAffinity("fargate", "fargate") \in Affinity /\ "fargate" \in Pcs
        BY <1>a, <1>b, RowTypes DEF Pcs
      <4>2. QED
        BY <3>2, <4>1 DEF LockProvider
    <3>3. QED
      BY <1>5, <3>1, <3>2
  <2>2. handler' \in [Requests -> Handler]
    BY <1>a, <2>1, GotoEffect
  <2>3. context' \in [Channels -> Affinity \cup {NoContext}] /\ locked' \in [Channels -> BOOLEAN]
    BY <1>a, <2>1 DEF Put, PutRoutingContext, TypeOK, ContextTypeOK
  <2>4. QED
    BY <1>a, <1>5, <2>2, <2>3 DEF CreateContext, LockProvider, TypeOK, ContextTypeOK
<1>6. ASSUME NEW r \in Requests,
             \/ Clarify(r) \/ TakeReply(r) \/ Reply(r) \/ InvokeLambda(r) \/ RouteFargate(r)
             \/ TellStatus(r) \/ CallFails(r)
      PROVE  TypeOK'
  <2>1. PICK pc \in Pcs : Goto(r, pc)
    <3>1. CASE Clarify(r) \/ Reply(r) \/ InvokeLambda(r) \/ RouteFargate(r) \/ TellStatus(r)
      BY <3>1 DEF Clarify, Reply, InvokeLambda, RouteFargate, TellStatus, Pcs
    <3>2. CASE TakeReply(r)
      <4>1. agentcore[r].reply \in {"accepted", "content", "handoff", "error"}
        BY <1>a, <3>2 DEF TakeReply, TypeOK, Invocation
      <4>2. QED
        BY <3>2, <4>1 DEF TakeReply, Pcs
    <3>3. CASE CallFails(r)
      <4>1. Catch(r, handler[r].pc) \in Pcs
        BY DEF Catch, Pcs
      <4>2. QED
        BY <3>3, <4>1 DEF CallFails
    <3>4. QED
      BY <1>6, <3>1, <3>2, <3>3
  <2>2. handler' \in [Requests -> Handler]
    BY <1>a, <2>1, GotoEffect
  <2>3. owners' \in [Requests -> SUBSET {"agentcore", "lambda", "fargate"}]
    BY <1>a, <1>6 DEF Clarify, TakeReply, Reply, InvokeLambda, RouteFargate, TellStatus, CallFails,
                      Take, TypeOK
  <2>4. answered' \in [Requests -> SUBSET {"agentcore", "gateway"}]
    BY <1>a, <1>6 DEF Clarify, TakeReply, Reply, InvokeLambda, RouteFargate, TellStatus, CallFails,
                      Answer, TypeOK
  <2>5. faulted' \subseteq Requests
    BY <1>a, <1>6 DEF Clarify, TakeReply, Reply, InvokeLambda, RouteFargate, TellStatus, CallFails,
                      Fault, TypeOK
  <2>6. task' \in Tasks
    BY <1>a, <1>6 DEF Clarify, TakeReply, Reply, InvokeLambda, RouteFargate, TellStatus, CallFails,
                      Tasks, TypeOK
  <2>7. UNCHANGED <<config, agentcore, context, locked>>
    BY <1>6 DEF Clarify, TakeReply, Reply, InvokeLambda, RouteFargate, TellStatus, CallFails,
                sessionVars
  <2>8. QED
    BY <1>a, <2>2, <2>3, <2>4, <2>5, <2>6, <2>7 DEF TypeOK, ContextTypeOK
<1>7. ASSUME NEW r \in Requests, InvokeAgentCore(r)
      PROVE  TypeOK'
  <2>1. handler' \in [Requests -> Handler] /\ agentcore' \in [Requests -> Invocation]
    BY <1>a, <1>7, InvokeEffect
  <2>2. QED
    BY <1>a, <1>7, <2>1 DEF InvokeAgentCore, sessionVars, TypeOK, ContextTypeOK
<1>8. ASSUME NEW r \in Requests, AcceptInvocation(r)
      PROVE  TypeOK'
  <2>1. agentcore' \in [Requests -> Invocation]
        /\ owners' \in [Requests -> SUBSET {"agentcore", "lambda", "fargate"}]
    BY <1>a, <1>8, AcceptEffect
  <2>2. QED
    BY <1>a, <1>8, <2>1 DEF AcceptInvocation, sessionVars, TypeOK, ContextTypeOK
<1>9. ASSUME NEW r \in Requests, FinishInvocation(r)
      PROVE  TypeOK'
  <2>1. agentcore' \in [Requests -> Invocation]
        /\ owners' \in [Requests -> SUBSET {"agentcore", "lambda", "fargate"}]
        /\ answered' \in [Requests -> SUBSET {"agentcore", "gateway"}]
    BY <1>a, <1>9, FinishEffect
  <2>2. QED
    BY <1>a, <1>9, <2>1 DEF FinishInvocation, sessionVars, TypeOK, ContextTypeOK
<1>10. ASSUME NEW c \in Channels, SessionLapses(c)
       PROVE  TypeOK'
  <2>1. context' \in [Channels -> Affinity \cup {NoContext}]
    <3>1. CASE Lapse(c)
      <4>1. context[c] \in Affinity
        BY <1>a, <3>1 DEF Lapse, TypeOK, ContextTypeOK
      <4>2. [context[c] EXCEPT !.fresh = FALSE] \in Affinity
        BY <4>1 DEF Affinity
      <4>3. QED
        BY <1>a, <3>1, <4>2 DEF Lapse, TypeOK, ContextTypeOK
    <3>2. CASE TtlDelete(c)
      BY <1>a, <3>2 DEF TtlDelete, TypeOK, ContextTypeOK
    <3>3. QED
      BY <1>10, <3>1, <3>2 DEF SessionLapses
  <2>2. PICK gone \in BOOLEAN : locked' = [locked EXCEPT ![c] = @ /\ gone]
    BY <1>10 DEF SessionLapses
  <2>3. locked' \in [Channels -> BOOLEAN]
    BY <1>a, <2>2 DEF TypeOK
  <2>4. QED
    BY <1>a, <1>10, <2>1, <2>3 DEF SessionLapses, routerVars, TypeOK, ContextTypeOK
<1>11. CASE TaskChanges \/ UNCHANGED vars
  BY <1>a, <1>11 DEF TaskChanges, Tasks, routerVars, sessionVars, vars, TypeOK, ContextTypeOK
<1>12. QED
  BY <1>1, <1>2, <1>3, <1>4, <1>5, <1>6, <1>7, <1>8, <1>9, <1>10, <1>11 DEF Next, GatewayStep

LEMMA RoutingStep == RoutingInv /\ [Next]_vars => RoutingInv'
<1> SUFFICES ASSUME RoutingInv, [Next]_vars
             PROVE  RoutingInv'
  OBVIOUS
<1>a. TypeOK /\ TypeOK'
  BY TypeStep DEF RoutingInv
<1>1. ASSUME NEW r \in Requests,
             Receive(r) \/ GatewayStep(r) \/ AcceptInvocation(r) \/ FinishInvocation(r)
      PROVE  RoutingInv'
  <2>1. RequestInv(r)'
    BY <1>1, RequestStep
  <2>2. ASSUME NEW q \in Requests, q # r
        PROVE  RequestInv(q)'
    BY <1>a, <1>1, <2>2, OthersStay, RequestFrame DEF RoutingInv
  <2>3. QED
    BY <1>a, <2>1, <2>2 DEF RoutingInv
<1>2. ASSUME \/ \E c \in Channels : SessionLapses(c)
             \/ TaskChanges
             \/ UNCHANGED vars
      PROVE  RoutingInv'
  <2>1. UNCHANGED <<config, handler, agentcore, owners, answered, faulted>>
    BY <1>2 DEF SessionLapses, TaskChanges, vars, routerVars
  <2>2. QED
    BY <1>a, <2>1, RequestFrame DEF RoutingInv
<1>3. QED
  BY <1>1, <1>2 DEF Next

\* The invariant of the router holds in every reachable state.
THEOREM RoutingInvariance == Spec => []RoutingInv
BY RoutingInit, RoutingStep, PTL DEF Spec

\* The rows and the requests keep their types.
THEOREM Typing == Spec => []TypeOK
<1>1. RoutingInv => TypeOK
  BY DEF RoutingInv
<1>2. QED
  BY <1>1, RoutingInvariance, PTL

\* routeMessage hands a message to one runtime: two work on it only when a call has
\* failed or has been given up.
THEOREM OneRuntime == Spec => []OneRuntimePerMessage
<1>1. RoutingInv => OneRuntimePerMessage
  <2>1. SUFFICES ASSUME RoutingInv, NEW r \in Requests \ faulted, NEW x \in owners[r], NEW y \in owners[r]
                 PROVE  x = y
    BY DEF OneRuntimePerMessage
  <2>2. /\ Untouched(r) /\ Sole(r) /\ handler[r].pc \in Pcs
    BY <2>1 DEF RoutingInv, RequestInv, TypeOK, Handler
  <2>3. handler[r].pc \in Early \cup {"handoff", "lambda", "fargate"} => owners[r] = {}
    BY <2>1, <2>2 DEF Untouched, Sole
  <2>4. handler[r].pc \in {"waiting", "reply"} => owners[r] \subseteq {"agentcore"}
    BY <2>1, <2>2 DEF Sole
  <2>5. handler[r].pc \in {"tell", "done"} => x = y
    BY <2>1, <2>2 DEF Sole
  <2>6. handler[r].pc \notin {"lock", "failed"}
    BY <2>1, <2>2 DEF Sole
  <2>7. QED
    BY <2>1, <2>2, <2>3, <2>4, <2>5, <2>6 DEF Early, Pcs
<1>2. QED
  BY <1>1, RoutingInvariance, PTL

\* Whatever fails on the way, a request that ends well has left its message with a
\* runtime, or answered it.
THEOREM NobodyIsIgnored == Spec => []HandledIsOwned
<1>1. RoutingInv => HandledIsOwned
  BY DEF RoutingInv, RequestInv, Handled, Accepted, Kept, HandledIsOwned, At
<1>2. QED
  BY <1>1, RoutingInvariance, PTL

\* A follow-up that has gone to Fargate is not answered by AgentCore as well.
THEOREM OneAnswer == Spec => []FollowUpAnsweredOnce
<1>1. RoutingInv => FollowUpAnsweredOnce
  BY DEF RoutingInv, RequestInv, Followed, FollowUpAnsweredOnce
<1>2. QED
  BY <1>1, RoutingInvariance, PTL

-----------------------------------------------------------------------------
(* What a locked session leads to *)

LEMMA LockStep == LockInv /\ [Next]_vars => LockInv'
<1> SUFFICES ASSUME LockInv, [Next]_vars
             PROVE  LockInv'
  OBVIOUS
<1>a. RoutingInv /\ RoutingInv' /\ TypeOK /\ \A r \in Requests : Course(r)
  BY RoutingStep DEF LockInv, RoutingInv, RequestInv
<1>b. context \in [Channels -> Affinity \cup {NoContext}] /\ locked \in [Channels -> BOOLEAN]
  BY <1>a DEF TypeOK, ContextTypeOK
<1>c. \A r \in Requests : ChannelOf(r) \in Channels
  BY <1>a, RowTypes
<1>d. ASSUME NEW r \in Requests,
             Receive(r) \/ GatewayStep(r) \/ AcceptInvocation(r) \/ FinishInvocation(r),
             LockCourse(r)'
      PROVE  \A q \in Requests : LockCourse(q)'
  <2>1. ASSUME NEW q \in Requests, q # r
        PROVE  LockCourse(q)'
    BY <1>a, <1>d, <2>1, OthersStay DEF LockInv, LockCourse
  <2>2. QED
    BY <1>d, <2>1
<1>1. ASSUME NEW r \in Requests, Receive(r)
      PROVE  LockInv'
  <2>1. LockCourse(r)'
    BY <1>a, <1>1, ReceiveEffect DEF LockCourse
  <2>2. UNCHANGED <<context, locked>>
    BY <1>1 DEF Receive, sessionVars
  <2>3. QED
    BY <1>a, <1>d, <1>1, <2>1, <2>2 DEF LockInv
<1>2. ASSUME NEW r \in Requests, ReadContext(r)
      PROVE  LockInv'
  <2>1. handler[r].pc = "context" /\ UNCHANGED <<context, locked>>
    BY <1>2 DEF ReadContext, At, sessionVars
  <2>2. LockCourse(r)'
    <3>1. ~handler[r].replay
      BY <1>a, <2>1 DEF Course
    <3>2. locked[ChannelOf(r)] => LockedRow(context[ChannelOf(r)])
      BY <1>c DEF LockInv
    <3>3. /\ handler'[r].pc = "refresh" => /\ handler'[r].row = context[ChannelOf(r)]
                                           /\ handler'[r].sawLock = locked[ChannelOf(r)]
          /\ handler'[r].pc # "refresh" => ~handler'[r].sawLock
          /\ handler'[r].replay = handler[r].replay
      BY <1>a, <1>2, ReadContextEffect
    <3>4. QED
      BY <3>1, <3>2, <3>3 DEF LockCourse, LockedRow
  <2>3. QED
    BY <1>a, <1>d, <1>2, <2>1, <2>2 DEF LockInv, GatewayStep
<1>3. ASSUME NEW r \in Requests, RefreshContext(r)
      PROVE  LockInv'
  <2>1. handler[r].pc = "refresh" /\ handler[r].row \in Affinity
    BY <1>a, <1>3 DEF RefreshContext, At, Course
  <2>2. handler[r].sawLock => LockedRow(handler[r].row)
    BY <2>1 DEF LockInv, LockCourse
  <2>3. LockCourse(r)'
    BY <1>a, <1>3, <2>2, RefreshEffect DEF LockCourse
  <2>4. handler[r].sawLock => LockedRow(Refreshed(handler[r].row))
    BY <1>a, <2>1, <2>2, RowTypes DEF LockedRow
  <2>5. \A c \in Channels : locked'[c] => LockedRow(context'[c])
    BY <1>b, <1>c, <1>3, <2>4 DEF RefreshContext, Put, PutRoutingContext, LockInv
  <2>6. QED
    BY <1>a, <1>d, <1>3, <2>3, <2>5 DEF LockInv, GatewayStep
<1>4. ASSUME NEW r \in Requests, ReadTask(r)
      PROVE  LockInv'
  <2>1. handler[r].pc = "task" /\ UNCHANGED <<context, locked>>
    BY <1>4 DEF ReadTask, At, sessionVars
  <2>2. handler[r].sawLock /\ handler[r].replay => ReplayProvider(handler[r].row) = "fargate"
    BY <2>1 DEF LockInv, LockCourse, LockedRow, ReplayProvider
  <2>3. LockCourse(r)'
    <3>1. /\ handler'[r].pc \in {"create", "agentcore", "fargate", "lambda"}
          /\ handler'[r].replay = handler[r].replay /\ handler'[r].sawLock = handler[r].sawLock
          /\ handler'[r].replay /\ ReplayProvider(handler[r].row) = "fargate" => handler'[r].pc = "fargate"
      BY <1>a, <1>4, ReadTaskEffect
    <3>2. QED
      BY <2>2, <3>1 DEF LockCourse
  <2>4. QED
    BY <1>a, <1>d, <1>4, <2>1, <2>3 DEF LockInv, GatewayStep
<1>5. ASSUME NEW r \in Requests, InvokeAgentCore(r)
      PROVE  LockInv'
  <2>1. handler[r].pc = "agentcore" /\ UNCHANGED <<context, locked>>
    BY <1>5 DEF InvokeAgentCore, At, sessionVars
  <2>2. LockCourse(r)'
    <3>1. ~(handler[r].sawLock /\ handler[r].replay)
      BY <2>1 DEF LockInv, LockCourse
    <3>2. handler'[r].pc = "waiting"
          /\ handler'[r].replay = handler[r].replay /\ handler'[r].sawLock = handler[r].sawLock
      BY <1>a, <1>5, InvokeEffect
    <3>3. QED
      BY <3>1, <3>2 DEF LockCourse
  <2>3. QED
    BY <1>a, <1>d, <1>5, <2>1, <2>2 DEF LockInv, GatewayStep
<1>6. ASSUME NEW r \in Requests, ClearContext(r) \/ CreateContext(r)
      PROVE  LockInv'
  <2> DEFINE pc == handler[r].next
  <2>1. Goto(r, pc) /\ handler[r].pc \in {"clear", "create"}
    BY <1>6 DEF ClearContext, CreateContext, At
  <2>2. pc \in {"unsupported", "task", "lambda", "goodbye", "agentcore", "fargate"} /\ ~handler[r].replay
    BY <1>a, <2>1 DEF Course
  <2>3. LockCourse(r)'
    <3>1. handler'[r].pc = pc /\ handler'[r].replay = handler[r].replay
      BY <1>a, <2>1, <2>2, GotoEffect DEF Pcs
    <3>2. QED
      BY <2>2, <3>1 DEF LockCourse
  <2>4. \A c \in Channels : locked'[c] => c # ChannelOf(r) /\ locked[c] /\ context'[c] = context[c]
    BY <1>b, <1>c, <1>6 DEF ClearContext, CreateContext, DeleteRoutingContext, Put, PutRoutingContext
  <2>5. QED
    BY <1>a, <1>d, <1>6, <2>3, <2>4 DEF LockInv, GatewayStep
<1>7. ASSUME NEW r \in Requests, TakeHandoff(r) \/ LockProvider(r)
      PROVE  LockInv'
  <2>1. PICK pc \in {"lambda", "fargate"} : Goto(r, pc)
    BY <1>7 DEF TakeHandoff, LockProvider
  <2>2. LockCourse(r)'
    BY <1>a, <2>1, GotoEffect DEF Pcs, LockCourse
  <2>3. LockedRow(BuildAffinity("fargate", "fargate"))
    BY DEF BuildAffinity, LockedRow, Affinity, Providers
  <2>4. \A c \in Channels : locked'[c] => LockedRow(context'[c])
    BY <1>b, <1>c, <1>7, <2>3 DEF TakeHandoff, LockProvider, DeleteRoutingContext, Put,
                                 PutRoutingContext, LockInv
  <2>5. QED
    BY <1>a, <1>d, <1>7, <2>2, <2>4 DEF LockInv, GatewayStep
<1>8. ASSUME NEW r \in Requests,
             \/ Clarify(r) \/ TakeReply(r) \/ Reply(r) \/ InvokeLambda(r) \/ RouteFargate(r)
             \/ TellStatus(r) \/ CallFails(r)
      PROVE  LockInv'
  <2>1. PICK pc \in {"done", "reply", "handoff", "lock", "tell", "fargate", "failed"} : Goto(r, pc)
    <3>1. CASE TakeReply(r)
      <4>1. agentcore[r].reply \in {"accepted", "content", "handoff", "error"}
        BY <1>a, <3>1 DEF TakeReply, TypeOK, Invocation
      <4>2. QED
        BY <3>1, <4>1 DEF TakeReply
    <3>2. CASE CallFails(r)
      <4>1. Catch(r, handler[r].pc) \in {"lock", "fargate", "failed"}
        BY DEF Catch
      <4>2. QED
        BY <3>2, <4>1 DEF CallFails
    <3>3. CASE Clarify(r) \/ Reply(r) \/ InvokeLambda(r) \/ RouteFargate(r) \/ TellStatus(r)
      BY <3>3 DEF Clarify, Reply, InvokeLambda, RouteFargate, TellStatus
    <3>4. QED
      BY <1>8, <3>1, <3>2, <3>3
  <2>2. LockCourse(r)'
    BY <1>a, <2>1, GotoEffect DEF Pcs, LockCourse
  <2>3. UNCHANGED <<context, locked>>
    BY <1>8 DEF Clarify, TakeReply, Reply, InvokeLambda, RouteFargate, TellStatus, CallFails,
                sessionVars
  <2>4. QED
    BY <1>a, <1>d, <1>8, <2>2, <2>3 DEF LockInv, GatewayStep
<1>9. ASSUME NEW r \in Requests, AcceptInvocation(r) \/ FinishInvocation(r)
      PROVE  LockInv'
  <2>1. UNCHANGED <<handler, context, locked>>
    BY <1>9 DEF AcceptInvocation, FinishInvocation, sessionVars
  <2>2. QED
    BY <1>a, <2>1 DEF LockInv, LockCourse
<1>10. ASSUME NEW c \in Channels, SessionLapses(c)
       PROVE  LockInv'
  <2>1. handler' = handler
    BY <1>10 DEF SessionLapses, routerVars
  <2>2. locked' = [locked EXCEPT ![c] = @ /\ context'[c] # NoContext]
    BY <1>10 DEF SessionLapses
  <2>3. \A d \in Channels : d # c => context'[d] = context[d] /\ locked'[d] = locked[d]
    BY <1>b, <1>10, <2>2 DEF SessionLapses, Lapse, TtlDelete
  <2>4. locked'[c] => locked[c] /\ context'[c] # NoContext
    BY <1>b, <2>2
  <2>5. locked'[c] => LockedRow(context'[c])
    <3>1. CASE Lapse(c)
      <4>1. context[c] \in Affinity /\ context'[c] = [context[c] EXCEPT !.fresh = FALSE]
        BY <1>b, <3>1 DEF Lapse
      <4>2. context'[c] \in Affinity /\ context'[c].fallback = context[c].fallback
        BY <4>1 DEF Affinity
      <4>3. QED
        BY <2>4, <4>2 DEF LockInv, LockedRow
    <3>2. CASE TtlDelete(c)
      BY <1>b, <2>4, <3>2 DEF TtlDelete
    <3>3. QED
      BY <1>10, <3>1, <3>2 DEF SessionLapses
  <2>6. QED
    BY <1>a, <2>1, <2>3, <2>5 DEF LockInv, LockCourse
<1>11. CASE TaskChanges \/ UNCHANGED vars
  <2>1. UNCHANGED <<handler, context, locked>>
    BY <1>11 DEF TaskChanges, vars, routerVars, sessionVars
  <2>2. QED
    BY <1>a, <2>1 DEF LockInv, LockCourse
<1>12. QED
  BY <1>1, <1>2, <1>3, <1>4, <1>5, <1>6, <1>7, <1>8, <1>9, <1>10, <1>11 DEF Next, GatewayStep

\* A session that a failure has locked to Fargate stays there, through any number of
\* refreshes, for every request that knows of the lock.
THEOREM LocksAreHonoured == Spec => []LockIsHonoured
<1>1. Init => LockInv
  <2>1. SUFFICES ASSUME Init
                 PROVE  LockInv
    OBVIOUS
  <2>2. \A c \in Channels : ~locked[c]
    BY <2>1 DEF Init
  <2>3. \A r \in Requests : ~handler[r].sawLock
    BY <2>1 DEF Init, NotStarted
  <2>4. QED
    BY <2>1, <2>2, <2>3, RoutingInit DEF LockInv, LockCourse
<1>2. LockInv => LockIsHonoured
  BY DEF LockInv, LockCourse, LockIsHonoured, At
<1>3. QED
  BY <1>1, <1>2, LockStep, PTL DEF Spec
=============================================================================
