------------------------------ MODULE BridgeTurn ------------------------------
(***************************************************************************)
(* The turns of a container: processAcceptedMessage of                     *)
(* packages/container/src/bridge.ts, which the bridge runs for each message *)
(* it accepts, side by side, and processMessage of startup.ts, which takes *)
(* the pending messages one after the other.  A turn reads the OpenClaw    *)
(* client's generator, or answers without it, and hands what it has to the *)
(* callback sender.                                                        *)
(*                                                                         *)
(* The lookups of the fast paths (cost, AWS, Gmail) are an answer or an    *)
(* exception here.                                                         *)
(***************************************************************************)
EXTENDS OpenClawClient, CallbackSender, FiniteSets

CONSTANTS
  Deployments,
  Arrivals      \* the ways a turn comes, each with its connection

ASSUME DeploymentsAssumption ==
  Deployments \subseteq
    [agentCore: BOOLEAN,      \* agentCoreMode of startup.ts
     unified: BOOLEAN,        \* AGENTCORE_UNIFIED_ASSISTANT is not false
     bedrock: BOOLEAN,        \* AI_PROVIDER is bedrock, AI_MODEL is set
     primary: BOOLEAN]        \* BEDROCK_CHAT_EXECUTOR is not openclaw-first

Vias == {"message", "invocation", "response", "pending"}

ASSUME BridgeArrivalsAssumption == Arrivals \subseteq Vias \X Connections
ASSUME TurnsAssumption == IsFiniteSet(Turns)
ASSUME ConnectionsAssumption == Connections # {}

VARIABLES
  deployment,
  turn,
  said,      \* fullResponse of each turn
  busy,      \* activeAgentCoreInvocations
  crossed    \* turns of a Telegram chat that were not alone in it

turnVars == <<turn, said, busy, crossed>>
vars == <<deployment, clientVars, senderVars, turnVars>>

Pcs == {"idle", "decide", "early", "earlyEnd", "tool", "openclaw", "stream", "weak", "primary",
        "canned", "end", "save", "rescue", "rescueEnd", "report", "finally", "over"}

Turn ==
  [pc: Pcs,
   connection: Connections,
   via: Vias,
   chatOnly: BOOLEAN,
   inherits: BOOLEAN,               \* when it came, a text was waiting in its chat
   stored: BOOLEAN,                 \* the pair of messages is in the table
   result: {"none", "done", "failed"}]

NewTurn ==
  [pc |-> "idle", connection |-> CHOOSE c \in Connections : TRUE, via |-> "message",
   chatOnly |-> FALSE, inherits |-> FALSE, stored |-> FALSE, result |-> "none"]

At(t, pc) == turn[t].pc = pc
Active(t) == turn[t].pc \notin {"idle", "over"}
Via(t) == turn[t].via
Goto(t, pc) == turn' = [turn EXCEPT ![t].pc = pc]
IsInvocation(t) == Via(t) \in {"invocation", "response"}

\* shouldUseDirectBedrockChatFallback.  A pending message has no such answer.
HasFallback(t) == turn[t].chatOnly /\ deployment.bedrock /\ Via(t) # "pending"

Finish(t, result) == turn' = [turn EXCEPT ![t].pc = "finally", ![t].result = result]

\* Mutant: a last frame that fails is forgotten.
ThrowUnlessAtTheEnd(t) ==
  CASE turn[t].pc \in {"early", "earlyEnd"} \/ Via(t) = "pending" -> Finish(t, "failed")
    [] At(t, "end") -> Goto(t, "save")
    [] OTHER -> Goto(t, IF HasFallback(t) /\ turn[t].pc \notin {"rescue", "rescueEnd"} THEN "rescue"
                        ELSE "report")

\* Where an exception leads.  The early answers are outside the try.
Throw(t) ==
  CASE turn[t].pc \in {"early", "earlyEnd"} \/ Via(t) = "pending" -> Finish(t, "failed")
    [] OTHER -> Goto(t, IF HasFallback(t) /\ turn[t].pc \notin {"rescue", "rescueEnd"} THEN "rescue"
                        ELSE "report")

-----------------------------------------------------------------------------
(* How a turn begins: POST /message, POST /invocations (which AgentCore calls   *)
(* with a callback URL, or for a response), or a pending message.              *)

Accept(t, via, c) ==
  /\ At(t, "idle")
  /\ via \in (IF deployment.agentCore THEN {"invocation", "response"} ELSE {"message", "pending"})
  /\ ~deployment.agentCore => link \in {"ready", "lost"}
  /\ via = "pending" => \A u \in Turns : Active(u) => Via(u) # "pending"
  /\ turn' = [turn EXCEPT ![t].pc = "decide", ![t].via = via, ![t].connection = c,
                          ![t].inherits = buffers[c] # <<>>]
  /\ busy' = IF via \in {"invocation", "response"} THEN busy + 1 ELSE busy
  /\ LET others == {u \in Turns : Active(u) /\ turn[u].connection = c}
     IN  crossed' = IF c \in Telegram /\ others # {} THEN crossed \cup others \cup {t} ELSE crossed
  /\ UNCHANGED <<deployment, clientVars, senderVars, said>>

\* Which of its ways the turn takes.
Decide(t) ==
  /\ At(t, "decide")
  /\ \/ /\ Via(t) # "pending"
        /\ Goto(t, "early")           \* self state, AWS cost, recent cost
     \/ Goto(t, "tool")              \* Gmail answers it
     \/ Throw(t)
     \/ /\ Via(t) = "response"
        /\ ~deployment.unified
        /\ Finish(t, "done")          \* the gateway is to hand it over
     \/ \E chatOnly \in BOOLEAN :
          /\ turn' = [turn EXCEPT
               ![t].chatOnly = chatOnly,
               ![t].pc = IF chatOnly /\ deployment.bedrock /\ deployment.primary /\ Via(t) # "pending"
                         THEN "primary" ELSE "openclaw"]
  /\ UNCHANGED <<deployment, clientVars, senderVars, said, busy, crossed>>

-----------------------------------------------------------------------------
(* Sends.  A turn that answers in its response sends nothing.                   *)

Send(t, of, text, pc) ==
  LET frame == Frame(of, text)
      c == turn[t].connection
  IN  IF Via(t) = "response" THEN Goto(t, pc) /\ UNCHANGED senderVars
      ELSE \/ SendWorks(c, t, frame) /\ Goto(t, pc)
           \/ SendThrows(c, t, frame) /\ Throw(t)

\* The last frame of a turn that has nothing to do after it.
SendLast(t) ==
  IF Via(t) = "response" THEN Finish(t, "done") /\ UNCHANGED senderVars
  ELSE LET frame == Frame("end", Nothing)
           c == turn[t].connection
       IN  \/ SendWorks(c, t, frame) /\ Finish(t, "done")
           \/ SendThrows(c, t, frame) /\ Throw(t)

Say(t, of, text) == said' = [said EXCEPT ![t] = Append(@, Frame(of, text))]

\* A whole answer in one piece: the call that makes it may throw instead.
SendAnswer(t, pc, of, next) ==
  /\ At(t, pc)
  /\ \/ Say(t, of, Nothing) /\ Send(t, of, Nothing, next)
     \/ of # "early" /\ Throw(t) /\ UNCHANGED <<senderVars, said>>
  /\ UNCHANGED <<deployment, clientVars, busy, crossed>>

EarlyAnswer(t) == SendAnswer(t, "early", "early", "earlyEnd")
ToolAnswer(t) == At(t, "tool") /\ SendAnswer(t, "tool", "tool", "end")
PrimaryAnswer(t) == SendAnswer(t, "primary", "direct", "canned")

EarlyEnd(t) ==
  /\ At(t, "earlyEnd")
  /\ SendLast(t)
  /\ UNCHANGED <<deployment, clientVars, said, busy, crossed>>

-----------------------------------------------------------------------------
(* The OpenClaw stream. *)

AskOpenClaw(t) ==
  /\ At(t, "openclaw")
  /\ IF Connected
     THEN RequestRun(t) /\ Goto(t, "stream")
     ELSE Throw(t) /\ UNCHANGED clientVars        \* still starting, or not connected
  /\ UNCHANGED <<deployment, senderVars, said, busy, crossed>>

\* One round of the for await: the chunk goes to the user before the next is read.
StreamChunk(t) ==
  /\ At(t, "stream")
  /\ HasChunk(chat[t])
  /\ LET chunk == NextChunk(chat[t])
     IN  /\ Say(t, "run", chunk)
         /\ Send(t, "run", chunk, "stream")
  /\ IF turn'[t].pc = "stream" THEN TakeChunk(t) ELSE Abandon(t)
  /\ UNCHANGED <<deployment, busy, crossed>>

StreamEnds(t) ==
  /\ At(t, "stream")
  /\ \/ /\ Drained(t, "final")
        /\ \/ HasFallback(t) /\ Goto(t, "weak")           \* the answer is short, or weak
           \/ Goto(t, "canned")
     \/ Drained(t, "failed") /\ Throw(t)
  /\ Abandon(t)
  /\ UNCHANGED <<deployment, senderVars, said, busy, crossed>>

\* A second answer after a weak one: whatever throws here is caught on the spot.
WeakAnswer(t) ==
  /\ At(t, "weak")
  /\ Goto(t, "canned")
  /\ LET frame == Frame("direct", Nothing)
     IN  \/ UNCHANGED <<senderVars, said>>
         \/ /\ Say(t, "direct", Nothing)
            /\ IF Via(t) = "response" THEN UNCHANGED senderVars
               ELSE SendWorks(turn[t].connection, t, frame) \/ SendThrows(turn[t].connection, t, frame)
  /\ UNCHANGED <<deployment, clientVars, busy, crossed>>

\* The answer to a question about find, when the model has not given it.
CannedAnswer(t) ==
  /\ At(t, "canned")
  /\ \/ Via(t) # "pending" /\ Say(t, "canned", Nothing) /\ Send(t, "canned", Nothing, "end")
     \/ Goto(t, "end") /\ UNCHANGED <<senderVars, said>>
  /\ UNCHANGED <<deployment, clientVars, busy, crossed>>

EndStream(t) ==
  /\ At(t, "end")
  /\ Send(t, "end", Nothing, "save")
  /\ UNCHANGED <<deployment, clientVars, said, busy, crossed>>

\* persistMessagePair: two Puts, whose failure is nobody's.
Save(t) ==
  /\ At(t, "save")
  /\ \E stored \in BOOLEAN :
       turn' = [turn EXCEPT ![t].pc = "finally", ![t].result = "done", ![t].stored = stored]
  /\ UNCHANGED <<deployment, clientVars, senderVars, said, busy, crossed>>

-----------------------------------------------------------------------------
(* The catch: a second answer when there is a model for it, else an error.      *)

Rescue(t) == SendAnswer(t, "rescue", "direct", "rescueEnd")

\* Mutant: the error follows the second answer as well.
RescueEndAndReport(t) ==
  /\ At(t, "rescueEnd")
  /\ Send(t, "end", Nothing, "report")
  /\ UNCHANGED <<deployment, clientVars, said, busy, crossed>>

RescueEnd(t) ==
  /\ At(t, "rescueEnd")
  /\ SendLast(t)
  /\ UNCHANGED <<deployment, clientVars, said, busy, crossed>>

Report(t) ==
  /\ At(t, "report")
  /\ Finish(t, "failed")
  /\ LET frame == Frame("error", Nothing)
     IN  IF Via(t) = "response" THEN UNCHANGED senderVars
         ELSE SendWorks(turn[t].connection, t, frame) \/ SendThrows(turn[t].connection, t, frame)
  /\ UNCHANGED <<deployment, clientVars, said, busy, crossed>>

\* Mutant: the counter is given back on the response path only.
FinallyUncounted(t) ==
  /\ At(t, "finally")
  /\ busy' = IF Via(t) = "response" /\ busy > 0 THEN busy - 1 ELSE busy
  /\ turn' = [turn EXCEPT ![t] = [NewTurn EXCEPT !.pc = "over"]]
  /\ said' = [said EXCEPT ![t] = <<>>]
  /\ crossed' = crossed \ {t}
  /\ Forget(t)
  /\ UNCHANGED <<deployment, clientVars>>

\* finishAgentCoreInvocation, however the turn ends; its locals go with it.
Finally(t) ==
  /\ At(t, "finally")
  /\ busy' = IF IsInvocation(t) /\ busy > 0 THEN busy - 1 ELSE busy
  /\ turn' = [turn EXCEPT ![t] = [NewTurn EXCEPT !.pc = "over"]]
  /\ said' = [said EXCEPT ![t] = <<>>]
  /\ crossed' = crossed \ {t}
  /\ Forget(t)
  /\ UNCHANGED <<deployment, clientVars>>

-----------------------------------------------------------------------------

Init ==
  /\ deployment \in Deployments
  /\ ClientInit
  /\ SenderInit(Turns)
  /\ turn = [t \in Turns |-> NewTurn]
  /\ said = [t \in Turns |-> <<>>]
  /\ busy = 0
  /\ crossed = {}

\* The steps of a turn, the generator's included.
TurnStep(t) ==
  \/ Decide(t) \/ EarlyAnswer(t) \/ EarlyEnd(t) \/ ToolAnswer(t) \/ PrimaryAnswer(t)
  \/ AskOpenClaw(t) \/ StreamChunk(t) \/ StreamEnds(t) \/ WeakAnswer(t) \/ CannedAnswer(t)
  \/ EndStream(t) \/ Save(t) \/ Rescue(t) \/ RescueEnd(t) \/ Report(t) \/ Finally(t)
  \/ (Activate(t) \/ Await(t)) /\ UNCHANGED <<deployment, senderVars, turnVars>>

ClientStep(t) ==
  FrameStep(t) /\ UNCHANGED <<deployment, senderVars, turnVars>>

Next ==
  \/ \E t \in Turns :
       \/ \E a \in Arrivals : Accept(t, a[1], a[2])
       \/ TurnStep(t)
       \/ ClientStep(t)
  \/ (ConnectionStep \/ GatewayDies) /\ UNCHANGED <<deployment, senderVars, turnVars>>

\* Calls return or throw in the end, and a run of the gateway ends.
Fairness == \A t \in Turns : WF_vars(TurnStep(t)) /\ WF_vars(ClientStep(t))

Spec == Init /\ [][Next]_vars /\ Fairness

-----------------------------------------------------------------------------

Sources == {"early", "tool", "run", "direct", "canned"}
Frames == [of: Sources \cup Closings, text: Chunk]
Texts == {f \in Frames : f.of \in Sources}

TypeOK ==
  /\ deployment \in Deployments
  /\ ClientTypeOK
  /\ SenderTypeOK(Turns, Frames)
  /\ turn \in [Turns -> Turn]
  /\ said \in [Turns -> Seq(Texts)]
  /\ busy \in 0..Cardinality(Turns)
  /\ crossed \subseteq Turns

\* How far the turn has read the text of its run.
ReadTo(t) == IF said[t] = <<>> THEN 0 ELSE said[t][Len(said[t])].text.to

\* Where frame i of a turn must go on: behind the one before it.
Behind(frames, i) == IF i = 1 THEN 0 ELSE frames[i - 1].text.to

\* Whatever frames were handled while the generator was elsewhere, the turn reads the
\* run's text in order and once: from its beginning, without a gap and without a
\* repetition.
TextInOrder ==
  \A t \in Turns : \A i \in DOMAIN said[t] :
    said[t][i].of = "run"
    => /\ said[t][i].text.from = Behind(said[t], i)
       /\ said[t][i].text.from < said[t][i].text.to
       /\ i > 1 => said[t][i - 1].of = "run"

\* The generator ends when it has yielded all that the run said, unless a frame came
\* before the client knew the run.
RunIsReadWhole ==
  \A t \in Turns :
    At(t, "stream") /\ Drained(t, "final") /\ t \notin missed => ReadTo(t) = run[t]

\* Where a turn's stream has been closed, among what its user has got.
Closed(t) == {i \in DOMAIN shown[t] : shown[t][i].of \in Closings}

\* No delivery of the turn failed.
Delivered(t) ==
  Via(t) # "response" /\ t \notin faulted /\ turn[t].connection \notin gone

\* Then a turn that ends well, and shared its Telegram chat with no other turn, has
\* shown the user just what it said: but only if nothing was waiting there before it.
AnswerIsWhole ==
  \A t \in Turns :
    At(t, "finally") /\ Delivered(t) /\ t \notin crossed /\ ~turn[t].inherits
      /\ turn[t].result = "done"
    => shown[t] = Append(said[t], Frame("end", Nothing))

\* Nobody else leaves anything: whatever fails on its way, a turn that had its chat for
\* itself leaves the buffer empty, unless it was a pending message that failed.
NothingIsLeft ==
  \A t \in Turns :
    At(t, "finally") /\ Via(t) # "response" /\ t \notin crossed
    => \/ buffers[turn[t].connection] = <<>>
       \/ Via(t) = "pending" /\ turn[t].result = "failed"

\* A turn closes its stream once, and shows nothing after that, in whatever company.
\* Only a pending message that failed is left open.
ClosedOnce ==
  \A t \in Turns :
    At(t, "finally") /\ Delivered(t)
    => \/ shown[t] # <<>> /\ Closed(t) = {Len(shown[t])}
       \/ Via(t) = "pending" /\ turn[t].result = "failed" /\ Closed(t) = {}

\* The history that later containers are given has no answer whose end the user was
\* not sent.
StoredWasSent ==
  \A t \in Turns :
    turn[t].stored /\ Via(t) # "response" /\ turn[t].connection \notin gone
    => \E i \in Closed(t) : shown[t][i].of = "end"

\* /ping says Busy while an invocation is under way and not a moment longer: AgentCore
\* ends sessions that are idle.
BusyWhileWorking ==
  busy = Cardinality({t \in Turns : Active(t) /\ IsInvocation(t)})

\* A turn ends, by itself, whatever fails: but not one whose run ended before the
\* client knew it, nor one whose gateway died.
TurnEnds ==
  \A t \in Turns : Active(t) ~> (~Active(t) \/ t \in missed \/ link = "lost")
=============================================================================
