--------------------------- MODULE BridgeTurnProofs ---------------------------
(***************************************************************************)
(* For any number of turns, in any deployment and on any connections: the  *)
(* count of invocations under way is exact, however a turn ends; the text  *)
(* of a run reaches the turn in order and whole; a turn whose deliveries   *)
(* work closes its stream once, and has shown all that it said and nothing *)
(* else if its chat was empty when it came and its own; a turn alone in    *)
(* its chat leaves nothing there; and what is stored was sent.             *)
(***************************************************************************)
EXTENDS BridgeTurn, FiniteSetTheorems, TLAPS

OnItsWay == Pcs \ {"idle", "over"}

Working == {t \in Turns : Active(t) /\ IsInvocation(t)}

CountInv ==
  /\ turn \in [Turns -> Turn]
  /\ busy = Cardinality(Working)

\* A turn that is under way goes on, and remains what it came as.
GoesOn(t) ==
  \E r \in Turn :
    /\ r.pc \in OnItsWay
    /\ r.via = Via(t) /\ r.connection = turn[t].connection
    /\ r.inherits = turn[t].inherits
    /\ turn' = [turn EXCEPT ![t] = r]

-----------------------------------------------------------------------------
(* Ways of going on *)

LEMMA Goes ==
  ASSUME CountInv, NEW t \in Turns, NEW pc \in OnItsWay, Goto(t, pc)
  PROVE  GoesOn(t)
<1>1. turn[t] \in Turn /\ pc \in Pcs
  BY DEF CountInv, OnItsWay
<1>2. [turn[t] EXCEPT !.pc = pc] \in Turn
  BY <1>1 DEF Turn
<1>3. /\ [turn[t] EXCEPT !.pc = pc].pc = pc
      /\ [turn[t] EXCEPT !.pc = pc].via = turn[t].via
      /\ [turn[t] EXCEPT !.pc = pc].connection = turn[t].connection
      /\ [turn[t] EXCEPT !.pc = pc].inherits = turn[t].inherits
  BY <1>1 DEF Turn
<1>4. turn' = [turn EXCEPT ![t] = [turn[t] EXCEPT !.pc = pc]]
  BY DEF Goto
<1>5. QED
  BY <1>2, <1>3, <1>4 DEF GoesOn, Via

LEMMA Finishes ==
  ASSUME CountInv, NEW t \in Turns, NEW result \in {"done", "failed"}, Finish(t, result)
  PROVE  GoesOn(t)
<1> DEFINE r == [turn[t] EXCEPT !.pc = "finally", !.result = result]
<1>1. turn[t] \in Turn
  BY DEF CountInv
<1>2. /\ r \in Turn /\ r.pc = "finally" /\ r.via = turn[t].via
      /\ r.connection = turn[t].connection /\ r.inherits = turn[t].inherits
  BY <1>1 DEF Turn, Pcs
<1>3. turn' = [turn EXCEPT ![t] = r]
  BY DEF Finish
<1>4. "finally" \in OnItsWay
  BY DEF OnItsWay, Pcs
<1> HIDE DEF r
<1>5. QED
  BY <1>2, <1>3, <1>4 DEF GoesOn, Via

LEMMA Throws ==
  ASSUME CountInv, NEW t \in Turns, Throw(t)
  PROVE  GoesOn(t)
<1>1. Finish(t, "failed") \/ Goto(t, "rescue") \/ Goto(t, "report")
  BY DEF Throw
<1>2. "rescue" \in OnItsWay /\ "report" \in OnItsWay
  BY DEF OnItsWay, Pcs
<1>3. QED
  BY <1>1, <1>2, Goes, Finishes

LEMMA Sends ==
  ASSUME CountInv, NEW t \in Turns, NEW of, NEW text, NEW pc \in OnItsWay, Send(t, of, text, pc)
  PROVE  GoesOn(t)
<1>1. Goto(t, pc) \/ Throw(t)
  BY DEF Send
<1>2. QED
  BY <1>1, Goes, Throws

LEMMA SendsLast ==
  ASSUME CountInv, NEW t \in Turns, SendLast(t)
  PROVE  GoesOn(t)
<1>1. Finish(t, "done") \/ Throw(t)
  BY DEF SendLast
<1>2. QED
  BY <1>1, Finishes, Throws

LEMMA Answers ==
  ASSUME CountInv, NEW t \in Turns, NEW pc, NEW of, NEW next \in OnItsWay,
         SendAnswer(t, pc, of, next)
  PROVE  GoesOn(t) /\ UNCHANGED busy
<1>1. Send(t, of, Nothing, next) \/ Throw(t)
  BY DEF SendAnswer
<1>2. QED
  BY <1>1, Sends, Throws DEF SendAnswer

-----------------------------------------------------------------------------
(* The steps of a turn between its acceptance and its end *)

LEMMA Decides ==
  ASSUME CountInv, NEW t \in Turns, Decide(t)
  PROVE  GoesOn(t) /\ UNCHANGED busy
<1>1. {"early", "tool", "primary", "openclaw"} \subseteq OnItsWay
  BY DEF OnItsWay, Pcs
<1>2. ASSUME NEW chatOnly \in BOOLEAN, NEW pc \in {"primary", "openclaw"},
             turn' = [turn EXCEPT ![t].chatOnly = chatOnly, ![t].pc = pc]
      PROVE  GoesOn(t)
  <2> DEFINE r == [turn[t] EXCEPT !.chatOnly = chatOnly, !.pc = pc]
  <2>1. turn[t] \in Turn
    BY DEF CountInv
  <2>2. /\ r \in Turn /\ r.pc = pc /\ r.via = turn[t].via
        /\ r.connection = turn[t].connection /\ r.inherits = turn[t].inherits
    BY <2>1 DEF Turn, Pcs
  <2>3. turn' = [turn EXCEPT ![t] = r]
    BY <1>2, <2>1 DEF CountInv, Turn
  <2> HIDE DEF r
  <2>4. QED
    BY <1>1, <2>2, <2>3 DEF GoesOn, Via
<1>3. \/ Goto(t, "early") \/ Goto(t, "tool") \/ Throw(t) \/ Finish(t, "done")
      \/ \E chatOnly \in BOOLEAN, pc \in {"primary", "openclaw"} :
           turn' = [turn EXCEPT ![t].chatOnly = chatOnly, ![t].pc = pc]
  BY DEF Decide
<1>4. QED
  BY <1>1, <1>2, <1>3, Goes, Throws, Finishes DEF Decide

LEMMA Streams ==
  ASSUME CountInv, NEW t \in Turns, AskOpenClaw(t) \/ StreamChunk(t) \/ StreamEnds(t)
  PROVE  GoesOn(t) /\ UNCHANGED busy
<1>1. {"stream", "weak", "canned"} \subseteq OnItsWay
  BY DEF OnItsWay, Pcs
<1>2. CASE AskOpenClaw(t)
  <2>1. Goto(t, "stream") \/ Throw(t)
    BY <1>2 DEF AskOpenClaw
  <2>2. QED
    BY <1>1, <1>2, <2>1, Goes, Throws DEF AskOpenClaw
<1>3. CASE StreamChunk(t)
  <2>1. Send(t, "run", NextChunk(chat[t]), "stream")
    BY <1>3 DEF StreamChunk
  <2>2. QED
    BY <1>1, <1>3, <2>1, Sends DEF StreamChunk
<1>4. CASE StreamEnds(t)
  <2>1. Goto(t, "weak") \/ Goto(t, "canned") \/ Throw(t)
    BY <1>4 DEF StreamEnds
  <2>2. QED
    BY <1>1, <1>4, <2>1, Goes, Throws DEF StreamEnds
<1>5. QED
  BY <1>2, <1>3, <1>4

LEMMA GivesAnswers ==
  ASSUME CountInv, NEW t \in Turns,
         EarlyAnswer(t) \/ ToolAnswer(t) \/ PrimaryAnswer(t) \/ Rescue(t)
  PROVE  GoesOn(t) /\ UNCHANGED busy
<1>1. {"earlyEnd", "end", "canned", "rescueEnd"} \subseteq OnItsWay
  BY DEF OnItsWay, Pcs
<1>2. QED
  BY <1>1, Answers DEF EarlyAnswer, ToolAnswer, PrimaryAnswer, Rescue

LEMMA GivesMore ==
  ASSUME CountInv, NEW t \in Turns, WeakAnswer(t) \/ CannedAnswer(t)
  PROVE  GoesOn(t) /\ UNCHANGED busy
<1>1. "canned" \in OnItsWay /\ "end" \in OnItsWay
  BY DEF OnItsWay, Pcs
<1>2. CASE WeakAnswer(t)
  BY <1>1, <1>2, Goes DEF WeakAnswer
<1>3. CASE CannedAnswer(t)
  <2>1. Send(t, "canned", Nothing, "end") \/ Goto(t, "end")
    BY <1>3 DEF CannedAnswer
  <2>2. QED
    BY <1>1, <1>3, <2>1, Goes, Sends DEF CannedAnswer
<1>4. QED
  BY <1>2, <1>3

LEMMA Closes ==
  ASSUME CountInv, NEW t \in Turns,
         EarlyEnd(t) \/ RescueEnd(t) \/ EndStream(t) \/ Save(t) \/ Report(t)
  PROVE  GoesOn(t) /\ UNCHANGED busy
<1>1. "save" \in OnItsWay /\ "finally" \in OnItsWay
  BY DEF OnItsWay, Pcs
<1>2. CASE EarlyEnd(t) \/ RescueEnd(t)
  BY <1>2, SendsLast DEF EarlyEnd, RescueEnd
<1>3. CASE EndStream(t)
  BY <1>1, <1>3, Sends DEF EndStream
<1>4. CASE Save(t)
  <2>1. PICK stored \in BOOLEAN :
          turn' = [turn EXCEPT ![t].pc = "finally", ![t].result = "done", ![t].stored = stored]
    BY <1>4 DEF Save
  <2> DEFINE r == [turn[t] EXCEPT !.pc = "finally", !.result = "done", !.stored = stored]
  <2>2. turn[t] \in Turn
    BY DEF CountInv
  <2>3. /\ r \in Turn /\ r.pc = "finally" /\ r.via = turn[t].via
        /\ r.connection = turn[t].connection /\ r.inherits = turn[t].inherits
    BY <2>2 DEF Turn, Pcs
  <2>4. turn' = [turn EXCEPT ![t] = r]
    BY <2>1, <2>2 DEF CountInv, Turn
  <2> HIDE DEF r
  <2>5. GoesOn(t)
    BY <1>1, <2>3, <2>4 DEF GoesOn, Via
  <2>6. QED
    BY <1>4, <2>5 DEF Save
<1>5. CASE Report(t)
  BY <1>5, Finishes DEF Report
<1>6. QED
  BY <1>2, <1>3, <1>4, <1>5

\* The steps of a turn under way, but for the last and for those of its generator.
MiddleStep(t) ==
  \/ Decide(t) \/ EarlyAnswer(t) \/ EarlyEnd(t) \/ ToolAnswer(t) \/ PrimaryAnswer(t)
  \/ AskOpenClaw(t) \/ StreamChunk(t) \/ StreamEnds(t) \/ WeakAnswer(t) \/ CannedAnswer(t)
  \/ EndStream(t) \/ Save(t) \/ Rescue(t) \/ RescueEnd(t) \/ Report(t)

LEMMA MiddleCounts ==
  ASSUME CountInv, NEW t \in Turns, MiddleStep(t)
  PROVE  Active(t) /\ GoesOn(t) /\ UNCHANGED busy
<1>1. Active(t)
  BY DEF MiddleStep, Decide, EarlyAnswer, EarlyEnd, ToolAnswer, PrimaryAnswer, SendAnswer,
         AskOpenClaw, StreamChunk, StreamEnds, WeakAnswer, CannedAnswer, EndStream,
         Save, Rescue, RescueEnd, Report, At, Active
<1>2. GoesOn(t) /\ UNCHANGED busy
  BY Decides, Streams, GivesAnswers, GivesMore, Closes DEF MiddleStep
<1>3. QED
  BY <1>1, <1>2

\* The steps of the system, as the invariants below see them.
LEMMA StepKinds ==
  ASSUME Next
  PROVE  \/ \E t \in Turns :
              \/ \E a \in Arrivals : Accept(t, a[1], a[2])
              \/ MiddleStep(t)
              \/ Finally(t)
              \/ (Activate(t) \/ Await(t)) /\ UNCHANGED <<deployment, senderVars, turnVars>>
              \/ FrameStep(t) /\ UNCHANGED <<deployment, senderVars, turnVars>>
         \/ (ConnectionStep \/ GatewayDies) /\ UNCHANGED <<deployment, senderVars, turnVars>>
BY DEF Next, TurnStep, ClientStep, MiddleStep

-----------------------------------------------------------------------------
(* The count *)

LEMMA WorkingIsFinite == IsFiniteSet(Working) /\ Cardinality(Working) \in Nat
<1>1. Working \subseteq Turns
  BY DEF Working
<1>2. QED
  BY <1>1, TurnsAssumption, FS_Subset, FS_CardinalityType

LEMMA CountGoesOn ==
  ASSUME CountInv, NEW t \in Turns, Active(t), GoesOn(t), UNCHANGED busy
  PROVE  CountInv'
<1>1. PICK r \in Turn : r.pc \in OnItsWay /\ r.via = Via(t) /\ turn' = [turn EXCEPT ![t] = r]
  BY DEF GoesOn
<1>2. turn' \in [Turns -> Turn]
  BY <1>1 DEF CountInv
<1>3. \A u \in Turns : (Active(u)' <=> Active(u)) /\ (IsInvocation(u)' <=> IsInvocation(u))
  BY <1>1 DEF CountInv, Active, IsInvocation, Via, OnItsWay
<1>4. Working' = Working
  BY <1>3 DEF Working
<1>5. QED
  BY <1>2, <1>4 DEF CountInv

LEMMA CountAccepts ==
  ASSUME CountInv, NEW t \in Turns, NEW a \in Arrivals, Accept(t, a[1], a[2])
  PROVE  CountInv'
<1> DEFINE via == a[1]
           r == [turn[t] EXCEPT !.pc = "decide", !.via = via, !.connection = a[2],
                            !.inherits = buffers[a[2]] # <<>>]
<1>1. via \in Vias /\ a[2] \in Connections
  BY BridgeArrivalsAssumption
<1>2. /\ turn[t] \in Turn /\ turn[t].pc = "idle"
      /\ turn' = [turn EXCEPT ![t].pc = "decide", ![t].via = via, ![t].connection = a[2],
                              ![t].inherits = buffers[a[2]] # <<>>]
      /\ busy' = IF via \in {"invocation", "response"} THEN busy + 1 ELSE busy
  BY DEF CountInv, Accept, At
<1>3. r \in Turn /\ r.pc = "decide" /\ r.via = via
  BY <1>1, <1>2 DEF Turn, Pcs
<1>4. turn' = [turn EXCEPT ![t] = r]
  BY <1>2 DEF CountInv, Turn
<1> HIDE DEF r, via
<1>5. turn' \in [Turns -> Turn]
  BY <1>3, <1>4 DEF CountInv
<1>6. t \notin Working
  BY <1>2 DEF Working, Active
<1>7. Working' = IF via \in {"invocation", "response"} THEN Working \cup {t} ELSE Working
  BY <1>2, <1>3, <1>4 DEF CountInv, Working, Active, IsInvocation, Via
<1>8. Cardinality(Working \cup {t}) = Cardinality(Working) + 1
  BY <1>6, WorkingIsFinite, FS_AddElement
<1>9. QED
  BY <1>2, <1>5, <1>7, <1>8 DEF CountInv

LEMMA CountEnds ==
  ASSUME CountInv, NEW t \in Turns, Finally(t)
  PROVE  CountInv'
<1> DEFINE r == [NewTurn EXCEPT !.pc = "over"]
<1>1. /\ turn[t].pc = "finally" /\ turn' = [turn EXCEPT ![t] = r]
      /\ busy' = IF IsInvocation(t) /\ busy > 0 THEN busy - 1 ELSE busy
  BY DEF Finally, At
<1>2. r \in Turn /\ r.pc = "over"
  BY ConnectionsAssumption DEF NewTurn, Turn, Pcs, Vias
<1> HIDE DEF r
<1>3. turn' \in [Turns -> Turn]
  BY <1>1, <1>2 DEF CountInv
<1>4. Working' = Working \ {t}
  BY <1>1, <1>2 DEF CountInv, Working, Active, IsInvocation, Via
<1>5. t \in Working <=> IsInvocation(t)
  BY <1>1 DEF Working, Active
<1>6. CASE IsInvocation(t)
  <2>1. Cardinality(Working \ {t}) = Cardinality(Working) - 1
    BY <1>5, <1>6, WorkingIsFinite, FS_RemoveElement
  <2>2. Cardinality(Working) # 0
    BY <1>5, <1>6, WorkingIsFinite, FS_EmptySet
  <2>3. QED
    BY <1>1, <1>3, <1>4, <1>6, <2>1, <2>2, WorkingIsFinite DEF CountInv
<1>7. CASE ~IsInvocation(t)
  <2>1. Working' = Working
    BY <1>4, <1>5, <1>7
  <2>2. QED
    BY <1>1, <1>3, <1>7, <2>1 DEF CountInv
<1>8. QED
  BY <1>6, <1>7

LEMMA CountRests ==
  ASSUME CountInv, UNCHANGED <<turn, busy>>
  PROVE  CountInv'
BY DEF CountInv, Working, Active, IsInvocation, Via

LEMMA CountStep == CountInv /\ [Next]_vars => CountInv'
<1> SUFFICES ASSUME CountInv, [Next]_vars
             PROVE  CountInv'
  OBVIOUS
<1>1. ASSUME NEW t \in Turns, NEW a \in Arrivals, Accept(t, a[1], a[2])
      PROVE  CountInv'
  BY <1>1, CountAccepts
<1>2. ASSUME NEW t \in Turns, MiddleStep(t)
      PROVE  CountInv'
  BY <1>2, MiddleCounts, CountGoesOn
<1>3. ASSUME NEW t \in Turns, Finally(t)
      PROVE  CountInv'
  BY <1>3, CountEnds
<1>4. CASE UNCHANGED turnVars \/ UNCHANGED vars
  BY <1>4, CountRests DEF turnVars, vars
<1>5. QED
  BY <1>1, <1>2, <1>3, <1>4, StepKinds

LEMMA CountInit == Init => CountInv
<1> SUFFICES ASSUME Init
             PROVE  CountInv
  OBVIOUS
<1>1. NewTurn \in Turn
  BY ConnectionsAssumption DEF NewTurn, Turn, Pcs, Vias
<1>2. Working = {}
  BY DEF Init, NewTurn, Working, Active
<1>3. QED
  BY <1>1, <1>2, FS_EmptySet DEF Init, CountInv

\* activeAgentCoreInvocations is the number of invocations under way, so that /ping
\* (bridge.ts) says HealthyBusy exactly while there is one: each of the ways a turn may
\* end leads through finishAgentCoreInvocation, once.
THEOREM BusyIsExact == Spec => []BusyWhileWorking
<1>1. CountInv => BusyWhileWorking
  BY DEF CountInv, BusyWhileWorking, Working
<1>2. QED
  BY <1>1, CountInit, CountStep, PTL DEF Spec

-----------------------------------------------------------------------------
(* What a send does: to the types *)

LEMMA FramesAre ==
  /\ Nothing \in Chunk
  /\ \A of \in Sources \cup Closings, text \in Chunk :
       Frame(of, text) \in Frames /\ Frame(of, text).of = of /\ Frame(of, text).text = text
  /\ \A of \in Sources, text \in Chunk : Frame(of, text) \in Texts
  /\ Texts = {f \in Frames : f.of \notin Closings}
<1>1. Nothing \in Chunk
  BY MaxTextAssumption DEF Nothing, Chunk
<1>2. \A of \in Sources \cup Closings, text \in Chunk :
        Frame(of, text) \in Frames /\ Frame(of, text).of = of /\ Frame(of, text).text = text
  BY DEF Frame, Frames
<1>3. \A of \in Sources, text \in Chunk : Frame(of, text) \in Texts
  BY <1>2 DEF Texts
<1>4. Texts = {f \in Frames : f.of \notin Closings}
  BY DEF Texts, Frames, Sources, Closings
<1>5. QED
  BY <1>1, <1>2, <1>3, <1>4

LEMMA TextsAreFrames == \A s \in Seq(Texts) : s \in Seq(Frames)
BY DEF Texts

SenderOK == SenderTypeOK(Turns, Frames)

Batches == [Turns -> Seq(Frames)]

LEMMA SenderShape ==
  ASSUME SenderOK
  PROVE  /\ shown \in Batches
         /\ buffers \in [Connections -> Seq(Texts)]
         /\ \A c \in Connections : buffers[c] \in Seq(Texts) /\ buffers[c] \in Seq(Frames)
<1>1. buffers \in [Connections -> Seq(Texts)] /\ shown \in [Turns -> Seq(Frames)]
  BY FramesAre DEF SenderOK, SenderTypeOK
<1>2. QED
  BY <1>1, TextsAreFrames DEF Batches

LEMMA Concats ==
  ASSUME NEW S, NEW s \in Seq(S), NEW x \in S
  PROVE  s \o <<>> = s /\ <<>> \o s = s /\ s \o <<x>> = Append(s, x)
OBVIOUS

\* What a closing frame posts ends with it.
LEMMA PostedShape ==
  ASSUME SenderOK, NEW c \in Connections, NEW frame \in Frames
  PROVE  /\ Posted(c, frame) \in Seq(Frames) /\ Posted(c, frame) # <<>>
         /\ Posted(c, frame)[Len(Posted(c, frame))] = frame
<1>1. buffers[c] \in Seq(Frames)
  BY SenderShape
<1>2. CASE frame.of = "error"
  BY <1>2 DEF Posted
<1>3. CASE frame.of # "error"
  <2> DEFINE s == Append(buffers[c], frame)
  <2>1. s \in Seq(Frames) /\ s # <<>> /\ s[Len(s)] = frame
    BY <1>1
  <2>2. Posted(c, frame) = s
    BY <1>3 DEF Posted
  <2> HIDE DEF s
  <2>3. QED
    BY <2>1, <2>2
<1>4. QED
  BY <1>2, <1>3

LEMMA ShowTypes ==
  ASSUME SenderOK, NEW t \in Turns, NEW frames \in Seq(Frames), Show(t, frames)
  PROVE  /\ shown' \in Batches
         /\ shown'[t] = shown[t] \o frames
         /\ \A u \in Turns \ {t} : shown'[u] = shown[u]
<1>1. shown \in Batches
  BY SenderShape
<1>2. shown[t] \o frames \in Seq(Frames)
  BY <1>1 DEF Batches
<1>3. QED
  BY <1>1, <1>2 DEF Show, Batches

\* Only the turn that sends has anything more to show, and only its chat changes.
LEMMA SendOthers ==
  ASSUME SenderOK, NEW c \in Connections, NEW t \in Turns, NEW frame \in Frames,
         SendWorks(c, t, frame) \/ SendThrows(c, t, frame)
  PROVE  /\ \A u \in Turns \ {t} : shown'[u] = shown[u]
         /\ \A d \in Connections \ {c} : buffers'[d] = buffers[d]
         /\ c \notin Telegram \/ c \in gone => buffers' = buffers
         /\ gone' \in {gone, gone \cup {c}} /\ (c \in Telegram => gone' = gone)
<1>1. buffers \in [Connections -> Seq(Texts)]
  BY SenderShape
<1>2. <<frame>> \in Seq(Frames)
  OBVIOUS
<1> DEFINE posted == Posted(c, frame)
<1>3. posted \in Seq(Frames) /\ posted \o posted \in Seq(Frames)
  BY PostedShape
<1>4. UNCHANGED shown \/ Show(t, <<frame>>) \/ Show(t, posted) \/ Show(t, posted \o posted)
  BY DEF SendWorks, SendThrows, WebWorks, WebThrows, Buffer, TelegramWorks, TelegramThrows, senderVars
<1> HIDE DEF posted
<1>5. \A u \in Turns \ {t} : shown'[u] = shown[u]
  BY <1>2, <1>3, <1>4, ShowTypes
<1>6. \/ buffers' = buffers
      \/ /\ c \in Telegram \ gone
         /\ \E s : buffers' = [buffers EXCEPT ![c] = s]
  BY DEF SendWorks, SendThrows, WebWorks, WebThrows, Buffer, TelegramWorks, TelegramThrows,
         Empty, senderVars
<1>7. \A d \in Connections \ {c} : buffers'[d] = buffers[d]
  BY <1>1, <1>6
<1>8. gone' \in {gone, gone \cup {c}} /\ (c \in Telegram => gone' = gone)
  BY DEF SendWorks, SendThrows, WebWorks, WebThrows, Buffer, TelegramWorks, TelegramThrows,
         senderVars
<1>9. QED
  BY <1>5, <1>6, <1>7, <1>8

LEMMA SendTypes ==
  ASSUME SenderOK, NEW c \in Connections, NEW t \in Turns, NEW frame \in Frames,
         SendWorks(c, t, frame) \/ SendThrows(c, t, frame)
  PROVE  SenderOK'
<1>1. /\ buffers \in [Connections -> Seq(Texts)] /\ shown \in Batches
      /\ gone \subseteq Connections
      /\ faulted \subseteq Turns
  BY SenderShape DEF SenderOK, SenderTypeOK
<1>2. shown' \in Batches
  <2>1. <<frame>> \in Seq(Frames)
    OBVIOUS
  <2> DEFINE posted == Posted(c, frame)
  <2>2. posted \in Seq(Frames) /\ posted \o posted \in Seq(Frames)
    BY PostedShape
  <2>3. UNCHANGED shown \/ Show(t, <<frame>>) \/ Show(t, posted) \/ Show(t, posted \o posted)
    BY DEF SendWorks, SendThrows, WebWorks, WebThrows, Buffer, TelegramWorks, TelegramThrows, senderVars
  <2> HIDE DEF posted
  <2>4. QED
    BY <1>1, <2>1, <2>2, <2>3, ShowTypes
<1>3. buffers' \in [Connections -> Seq(Texts)]
  <2>1. frame.of \notin Closings => Append(buffers[c], frame) \in Seq(Texts)
    BY <1>1, FramesAre
  <2>2. <<>> \in Seq(Texts)
    OBVIOUS
  <2>3. \/ buffers' = buffers
        \/ buffers' = [buffers EXCEPT ![c] = <<>>]
        \/ frame.of \notin Closings /\ buffers' = [buffers EXCEPT ![c] = Append(buffers[c], frame)]
    BY DEF SendWorks, SendThrows, WebWorks, WebThrows, Buffer, TelegramWorks, TelegramThrows,
           Empty, senderVars
  <2> DEFINE more == Append(buffers[c], frame)
  <2>4. \/ buffers' = buffers
        \/ \E s \in Seq(Texts) : buffers' = [buffers EXCEPT ![c] = s]
    BY <2>1, <2>2, <2>3
  <2>5. QED
    BY <1>1, <2>4
<1>4. gone' \subseteq Connections
  BY <1>1, SendOthers
<1>5. faulted' \in {faulted, faulted \cup {t}}
  BY DEF SendWorks, SendThrows, WebWorks, WebThrows, Buffer, TelegramWorks, TelegramThrows, senderVars
<1>6. QED
  BY <1>1, <1>2, <1>3, <1>4, <1>5, FramesAre DEF SenderOK, SenderTypeOK, Batches

-----------------------------------------------------------------------------
(* What a send does: to what the users have got *)

\* For its own turn, when nothing fails and the connection is there.
LEMMA SendOwn ==
  ASSUME SenderOK, NEW c \in Connections, NEW t \in Turns, NEW frame \in Frames,
         SendWorks(c, t, frame), t \notin faulted', c \notin gone'
  PROVE  /\ c \notin Telegram => shown'[t] = Append(shown[t], frame)
         /\ c \in Telegram /\ frame.of \notin Closings =>
              shown'[t] = shown[t] /\ buffers'[c] = Append(buffers[c], frame)
         /\ c \in Telegram /\ frame.of = "end" => shown'[t] = shown[t] \o Append(buffers[c], frame)
         /\ c \in Telegram /\ frame.of = "error" => shown'[t] = Append(shown[t], frame)
<1>1. /\ shown[t] \in Seq(Frames)
      /\ buffers \in [Connections -> Seq(Texts)]
      /\ <<frame>> \in Seq(Frames)
  BY SenderShape DEF Batches
<1>2. c \notin gone
  BY SendOthers
<1>3. shown[t] \o <<frame>> = Append(shown[t], frame)
  BY <1>1, Concats
<1>4. CASE c \notin Telegram /\ WebWorks(c, t, frame)
  <2>1. Show(t, <<frame>>)
    BY <1>4 DEF WebWorks
  <2>2. QED
    BY <1>1, <1>3, <1>4, <2>1, ShowTypes
<1>5. CASE c \in Telegram /\ frame.of \notin Closings /\ Buffer(c, frame)
  <2>1. shown' = shown /\ buffers'[c] = Append(buffers[c], frame)
    BY <1>1, <1>5 DEF Buffer
  <2>2. QED
    BY <1>5, <2>1 DEF Closings
<1>6. CASE c \in Telegram /\ frame.of \in Closings /\ TelegramWorks(c, t, frame)
  <2> DEFINE posted == Posted(c, frame)
  <2>1. posted \in Seq(Frames)
    BY PostedShape
  <2>2. Show(t, posted)
    BY <1>6 DEF TelegramWorks
  <2>3. posted = IF frame.of = "error" THEN <<frame>> ELSE Append(buffers[c], frame)
    BY DEF Posted
  <2> HIDE DEF posted
  <2>4. shown'[t] = shown[t] \o posted
    BY <2>1, <2>2, ShowTypes
  <2>5. QED
    BY <1>3, <1>6, <2>3, <2>4 DEF Closings
<1>7. QED
  BY <1>2, <1>4, <1>5, <1>6 DEF SendWorks

LEMMA SendFaults ==
  ASSUME NEW c \in Connections, NEW t \in Turns, NEW frame \in Frames, SendThrows(c, t, frame)
  PROVE  t \in faulted'
BY DEF SendThrows, WebThrows, TelegramThrows

\* Nothing is taken back, and a connection that is gone remains so.
LEMMA SendKeeps ==
  ASSUME SenderOK, NEW c \in Connections, NEW t \in Turns, NEW frame \in Frames,
         SendWorks(c, t, frame) \/ SendThrows(c, t, frame)
  PROVE  /\ gone \subseteq gone' /\ faulted \subseteq faulted'
         /\ \A u \in Turns : \E more \in Seq(Frames) : shown'[u] = shown[u] \o more
<1>1. shown \in Batches /\ <<>> \in Seq(Frames) /\ \A u \in Turns : shown[u] \o <<>> = shown[u]
  BY SenderShape, Concats DEF Batches
<1>2. gone \subseteq gone' /\ faulted \subseteq faulted'
  BY DEF SendWorks, SendThrows, WebWorks, WebThrows, Buffer, TelegramWorks, TelegramThrows, senderVars
<1> DEFINE posted == Posted(c, frame)
<1>3. <<frame>> \in Seq(Frames) /\ posted \in Seq(Frames) /\ posted \o posted \in Seq(Frames)
  BY PostedShape
<1>4. UNCHANGED shown \/ Show(t, <<frame>>) \/ Show(t, posted) \/ Show(t, posted \o posted)
  BY DEF SendWorks, SendThrows, WebWorks, WebThrows, Buffer, TelegramWorks, TelegramThrows, senderVars
<1> HIDE DEF posted
<1>5. ASSUME NEW frames \in Seq(Frames), Show(t, frames), NEW u \in Turns
      PROVE  \E more \in Seq(Frames) : shown'[u] = shown[u] \o more
  BY <1>1, <1>5, ShowTypes
<1>6. \A u \in Turns : \E more \in Seq(Frames) : shown'[u] = shown[u] \o more
  BY <1>1, <1>3, <1>4, <1>5
<1>7. QED
  BY <1>2, <1>6

\* A closing frame leaves nothing in the chat, also one that fails; no other frame fails.
LEMMA SendEmpties ==
  ASSUME SenderOK, NEW c \in Telegram \ gone, NEW t \in Turns, NEW frame \in Frames
  PROVE  /\ frame.of \in Closings /\ (SendWorks(c, t, frame) \/ SendThrows(c, t, frame))
              => buffers'[c] = <<>>
         /\ frame.of \notin Closings => ~SendThrows(c, t, frame)
<1>1. c \in Connections /\ buffers \in [Connections -> Seq(Texts)]
  BY SenderShape, TelegramAssumption
<1>2. QED
  BY <1>1 DEF SendWorks, SendThrows, TelegramWorks, TelegramThrows, Empty

\* A stream_end that is sent is there afterwards, whatever is sent with it.
LEMMA SendEnds ==
  ASSUME SenderOK, NEW c \in Connections, NEW t \in Turns, NEW frame \in Frames,
         SendWorks(c, t, frame), frame.of = "end", c \notin gone'
  PROVE  \E i \in DOMAIN shown'[t] : shown'[t][i] = frame
<1>1. shown[t] \in Seq(Frames) /\ c \notin gone /\ frame.of \in Closings
  BY SenderShape, SendOthers DEF Batches, Closings
<1> DEFINE posted == Posted(c, frame)
<1>2. posted \in Seq(Frames) /\ posted # <<>> /\ posted[Len(posted)] = frame
  BY PostedShape
<1>3. Show(t, <<frame>>) \/ Show(t, posted) \/ Show(t, posted \o posted)
  BY <1>1 DEF SendWorks, WebWorks, TelegramWorks
<1> HIDE DEF posted
<1>4. /\ <<frame>> \in Seq(Frames) /\ <<frame>> # <<>> /\ <<frame>>[Len(<<frame>>)] = frame
  OBVIOUS
<1>5. \E added \in Seq(Frames) : added # <<>> /\ added[Len(added)] = frame /\ Show(t, added)
  <2> DEFINE twice == posted \o posted
  <2>1. twice \in Seq(Frames) /\ twice # <<>> /\ twice[Len(twice)] = posted[Len(posted)]
    BY <1>2
  <2> HIDE DEF twice
  <2>2. Show(t, posted \o posted) => Show(t, twice)
    BY DEF twice
  <2>3. QED
    BY <1>2, <1>3, <1>4, <2>1, <2>2
<1>6. PICK added \in Seq(Frames) :
        added # <<>> /\ added[Len(added)] = frame /\ shown'[t] = shown[t] \o added
  BY <1>5, ShowTypes
<1> DEFINE old == shown[t]
           new == shown'[t]
           n == Len(old) + Len(added)
<1>7. old \in Seq(Frames) /\ new = old \o added
  BY <1>1, <1>6
<1> HIDE DEF old, new
<1>8. n \in DOMAIN new /\ new[n] = added[Len(added)]
  BY <1>6, <1>7
<1>9. QED
  BY <1>6, <1>8 DEF new

-----------------------------------------------------------------------------
AttemptsInv == link \in {"connecting", "waiting"} => attempts <= MaxAttempts

TypeInv ==
  /\ CountInv
  /\ deployment \in Deployments
  /\ ClientTypeOK
  /\ AttemptsInv
  /\ SenderOK
  /\ said \in [Turns -> Seq(Texts)]
  /\ crossed \subseteq Turns

\* What a step of a turn makes of the turn's text, and of what is delivered.
SaysOrNot(t) == UNCHANGED said \/ \E f \in Texts : said' = [said EXCEPT ![t] = Append(@, f)]

SendsOrNot(t) ==
  \/ UNCHANGED senderVars
  \/ \E f \in Frames : SendWorks(turn[t].connection, t, f) \/ SendThrows(turn[t].connection, t, f)

\* A step of the client for a turn.
Serves(t) ==
  /\ UNCHANGED <<link, attempts>>
  /\ \E c \in Chat : chat' = [chat EXCEPT ![t] = c]
  /\ UNCHANGED run \/ \E n \in 0..MaxText : run' = [run EXCEPT ![t] = n]
  /\ missed' \in {missed, missed \cup {t}, missed \ {t}}

LEMMA ChunkIsRead ==
  ASSUME TypeInv, NEW t \in Turns, HasChunk(chat[t])
  PROVE  /\ NextChunk(chat[t]) \in Chunk
         /\ WithoutChunk(chat[t]) \in Chat
<1>1. chat[t] \in Chat /\ Nothing \in Chunk
  BY FramesAre DEF TypeInv, ClientTypeOK
<1>2. chat[t].chunks \in Seq(Chunk) /\ chat[t].handed \in Chunk
  BY <1>1 DEF Chat
<1>3. chat[t].chunks # <<>> => Head(chat[t].chunks) \in Chunk /\ Tail(chat[t].chunks) \in Seq(Chunk)
  BY <1>2
<1>4. NextChunk(chat[t]) \in Chunk
  BY <1>2, <1>3 DEF NextChunk, HasChunk
<1>5. [chat[t] EXCEPT !.handed = Nothing] \in Chat
  BY <1>1 DEF Chat
<1>6. chat[t].chunks # <<>> => [chat[t] EXCEPT !.chunks = Tail(chat[t].chunks)] \in Chat
  BY <1>1, <1>3 DEF Chat
<1>7. WithoutChunk(chat[t]) =
        IF chat[t].handed # Nothing THEN [chat[t] EXCEPT !.handed = Nothing]
        ELSE [chat[t] EXCEPT !.chunks = Tail(chat[t].chunks)]
  BY DEF WithoutChunk
<1>8. QED
  BY <1>4, <1>5, <1>6, <1>7 DEF HasChunk

LEMMA StateServes ==
  ASSUME TypeInv, NEW t \in Turns,
         NEW state \in {"none", "requested", "answered", "active", "final", "failed"}
  PROVE  [chat[t] EXCEPT !.state = state] \in Chat
BY DEF TypeInv, ClientTypeOK, Chat

LEMMA NoChatServes == NoChat \in Chat
BY FramesAre, MaxTextAssumption DEF NoChat, Chat

LEMMA GeneratorServes ==
  ASSUME TypeInv, NEW t \in Turns,
         \/ RequestRun(t) \/ Activate(t) \/ Await(t) \/ Abandon(t)
         \/ HasChunk(chat[t]) /\ TakeChunk(t)
  PROVE  Serves(t)
<1>1. chat \in [Turns -> Chat] /\ chat[t] \in Chat
  BY DEF TypeInv, ClientTypeOK
<1>2. [chat[t] EXCEPT !.waiting = TRUE] \in Chat /\ 0 \in 0..MaxText
  <2>1. [chat[t] EXCEPT !.waiting = TRUE] \in Chat
    BY <1>1 DEF Chat
  <2>2. QED
    BY <2>1, MaxTextAssumption
<1>3. CASE RequestRun(t) \/ Activate(t)
  <2>1. \/ chat' = [chat EXCEPT ![t] = [chat[t] EXCEPT !.state = "requested"]]
        \/ chat' = [chat EXCEPT ![t] = [chat[t] EXCEPT !.state = "active"]]
    BY <1>3 DEF RequestRun, Activate
  <2>2. UNCHANGED <<link, attempts, run, missed>>
    BY <1>3 DEF RequestRun, Activate
  <2>3. /\ [chat[t] EXCEPT !.state = "requested"] \in Chat
        /\ [chat[t] EXCEPT !.state = "active"] \in Chat
    BY StateServes
  <2>4. \E c \in Chat : chat' = [chat EXCEPT ![t] = c]
    BY <2>1, <2>3
  <2>5. QED
    BY <2>2, <2>4 DEF Serves
<1>4. CASE Await(t)
  BY <1>2, <1>4 DEF Await, Serves
<1>5. CASE Abandon(t)
  BY <1>2, <1>5, NoChatServes DEF Abandon, Serves
<1>6. CASE HasChunk(chat[t]) /\ TakeChunk(t)
  BY <1>1, <1>6, ChunkIsRead DEF TakeChunk, Serves
<1>7. QED
  BY <1>3, <1>4, <1>5, <1>6

LEMMA TextServes ==
  ASSUME NEW c \in Chat, NEW n \in 0..MaxText
  PROVE  TakeText(c, n) \in Chat
<1> DEFINE delta == [from |-> c.seen, to |-> n]
           seen == [c EXCEPT !.seen = n]
<1>1. delta \in Chunk /\ seen \in Chat /\ seen.chunks \in Seq(Chunk)
  BY DEF Chat, Chunk
<1> HIDE DEF delta, seen
<1>2. Append(seen.chunks, delta) \in Seq(Chunk)
  BY <1>1
<1>3. /\ [seen EXCEPT !.waiting = FALSE, !.handed = delta] \in Chat
      /\ [seen EXCEPT !.chunks = Append(seen.chunks, delta)] \in Chat
  BY <1>1, <1>2 DEF Chat
<1>4. TakeText(c, n) \in {seen, [seen EXCEPT !.waiting = FALSE, !.handed = delta],
                          [seen EXCEPT !.chunks = Append(seen.chunks, delta)]}
  BY DEF TakeText, delta, seen
<1>5. QED
  BY <1>1, <1>3, <1>4

LEMMA FrameServes ==
  ASSUME TypeInv, NEW t \in Turns, FrameStep(t)
  PROVE  Serves(t)
<1>1. chat \in [Turns -> Chat] /\ chat[t] \in Chat /\ run[t] \in 0..MaxText
  BY DEF TypeInv, ClientTypeOK
<1>2. CASE RequestIsAnswered(t)
  BY <1>2, StateServes DEF RequestIsAnswered, Serves
<1>3. CASE TextFrame(t)
  <2>1. PICK n \in (run[t] + 1)..MaxText :
          /\ run' = [run EXCEPT ![t] = n]
          /\ \/ chat' = [chat EXCEPT ![t] = TakeText(chat[t], n)] /\ UNCHANGED missed
             \/ UNCHANGED chat /\ missed' = missed \cup {t}
    BY <1>3 DEF TextFrame
  <2>2. n \in 0..MaxText
    BY <1>1, MaxTextAssumption
  <2>3. TakeText(chat[t], n) \in Chat /\ chat = [chat EXCEPT ![t] = chat[t]]
    BY <1>1, <2>2, TextServes
  <2>4. QED
    BY <1>1, <1>3, <2>1, <2>2, <2>3 DEF TextFrame, Serves
<1>4. CASE EndFrame(t)
  <2>1. ASSUME NEW state \in {"final", "failed"}
        PROVE  [EndChat(chat[t], state) EXCEPT !.over = TRUE] \in Chat
    <3>1. EndChat(chat[t], state) \in Chat
      BY <1>1 DEF EndChat, Chat
    <3>2. QED
      BY <3>1 DEF Chat
  <2>2. [chat[t] EXCEPT !.over = TRUE] \in Chat
    BY <1>1 DEF Chat
  <2>3. QED
    BY <1>4, <2>1, <2>2 DEF EndFrame, Serves
<1>5. QED
  BY <1>2, <1>3, <1>4 DEF FrameStep

LEMMA ServesTypes ==
  ASSUME TypeInv, NEW t \in Turns, Serves(t)
  PROVE  ClientTypeOK' /\ AttemptsInv'
BY DEF TypeInv, ClientTypeOK, AttemptsInv, Serves

LEMMA ConnectionTypes ==
  ASSUME TypeInv, ConnectionStep \/ GatewayDies
  PROVE  ClientTypeOK' /\ AttemptsInv'
BY MaxAttemptsAssumption
   DEF TypeInv, ClientTypeOK, AttemptsInv, ConnectionStep, HelloOk, ConnectFails, Reconnect,
       GatewayDies

LEMMA SendShape ==
  ASSUME TypeInv, NEW t \in Turns, NEW of \in Sources \cup Closings, NEW text \in Chunk, NEW pc,
         Send(t, of, text, pc)
  PROVE  SendsOrNot(t)
BY FramesAre DEF Send, SendsOrNot

LEMMA SayShape ==
  ASSUME NEW t \in Turns, NEW of \in Sources, NEW text \in Chunk, Say(t, of, text)
  PROVE  SaysOrNot(t)
BY FramesAre DEF Say, SaysOrNot

LEMMA MiddleShape ==
  ASSUME TypeInv, NEW t \in Turns, MiddleStep(t)
  PROVE  /\ SaysOrNot(t) /\ SendsOrNot(t)
         /\ Serves(t) \/ UNCHANGED clientVars
         /\ UNCHANGED <<deployment, crossed>>
<1>1. /\ Sources \subseteq Sources \cup Closings
      /\ {"early", "tool", "direct", "canned", "run"} \subseteq Sources
      /\ "end" \in Closings /\ "error" \in Closings
      /\ Nothing \in Chunk
  BY FramesAre DEF Sources, Closings
<1>2. CASE Decide(t) \/ Save(t)
  BY <1>2 DEF Decide, Save, SaysOrNot, SendsOrNot
<1>3. ASSUME NEW pc, NEW of \in Sources, NEW next, SendAnswer(t, pc, of, next)
      PROVE  SaysOrNot(t) /\ SendsOrNot(t) /\ UNCHANGED <<deployment, clientVars, crossed>>
  <2>1. CASE Say(t, of, Nothing) /\ Send(t, of, Nothing, next)
    BY <1>1, <1>3, <2>1, SayShape, SendShape DEF SendAnswer
  <2>2. CASE UNCHANGED <<senderVars, said>>
    BY <1>3, <2>2 DEF SendAnswer, SaysOrNot, SendsOrNot
  <2>3. QED
    BY <1>3, <2>1, <2>2 DEF SendAnswer
<1>4. CASE EarlyAnswer(t) \/ ToolAnswer(t) \/ PrimaryAnswer(t) \/ Rescue(t)
  BY <1>1, <1>3, <1>4 DEF EarlyAnswer, ToolAnswer, PrimaryAnswer, Rescue
<1>5. CASE EarlyEnd(t) \/ RescueEnd(t)
  <2>1. SendsOrNot(t)
    BY <1>1, <1>5, FramesAre DEF EarlyEnd, RescueEnd, SendLast, SendsOrNot
  <2>2. QED
    BY <1>5, <2>1 DEF EarlyEnd, RescueEnd, SaysOrNot
<1>6. CASE AskOpenClaw(t)
  BY <1>6, GeneratorServes DEF AskOpenClaw, SaysOrNot, SendsOrNot
<1>7. CASE StreamChunk(t)
  <2>1. /\ HasChunk(chat[t])
        /\ Say(t, "run", NextChunk(chat[t])) /\ Send(t, "run", NextChunk(chat[t]), "stream")
        /\ TakeChunk(t) \/ Abandon(t)
        /\ UNCHANGED <<deployment, crossed>>
    BY <1>7 DEF StreamChunk
  <2>2. NextChunk(chat[t]) \in Chunk /\ Serves(t)
    BY <2>1, ChunkIsRead, GeneratorServes
  <2>3. QED
    BY <1>1, <2>1, <2>2, SayShape, SendShape
<1>8. CASE StreamEnds(t)
  BY <1>8, GeneratorServes DEF StreamEnds, SaysOrNot, SendsOrNot
<1>9. CASE WeakAnswer(t)
  <2>1. \/ UNCHANGED <<senderVars, said>>
        \/ /\ Say(t, "direct", Nothing)
           /\ \/ UNCHANGED senderVars
              \/ \E f \in {Frame("direct", Nothing)} :
                   SendWorks(turn[t].connection, t, f) \/ SendThrows(turn[t].connection, t, f)
    BY <1>9 DEF WeakAnswer
  <2>2. Frame("direct", Nothing) \in Frames
    BY <1>1, FramesAre
  <2>3. SaysOrNot(t) /\ SendsOrNot(t)
    BY <1>1, <2>1, <2>2, SayShape DEF SaysOrNot, SendsOrNot
  <2>4. QED
    BY <1>9, <2>3 DEF WeakAnswer
<1>10. CASE CannedAnswer(t)
  <2>1. CASE Say(t, "canned", Nothing) /\ Send(t, "canned", Nothing, "end")
    BY <1>1, <1>10, <2>1, SayShape, SendShape DEF CannedAnswer
  <2>2. CASE UNCHANGED <<senderVars, said>>
    BY <1>10, <2>2 DEF CannedAnswer, SaysOrNot, SendsOrNot
  <2>3. QED
    BY <1>10, <2>1, <2>2 DEF CannedAnswer
<1>11. CASE EndStream(t)
  BY <1>1, <1>11, SendShape DEF EndStream, SaysOrNot
<1>12. CASE Report(t)
  <2>1. Frame("error", Nothing) \in Frames
    BY <1>1, FramesAre
  <2>2. QED
    BY <1>12, <2>1 DEF Report, SaysOrNot, SendsOrNot
<1>13. QED
  BY <1>2, <1>4, <1>5, <1>6, <1>7, <1>8, <1>9, <1>10, <1>11, <1>12 DEF MiddleStep

LEMMA TypeStep == TypeInv /\ [Next]_vars => TypeInv'
<1> SUFFICES ASSUME TypeInv, [Next]_vars
             PROVE  TypeInv'
  OBVIOUS
<1> USE DEF TypeInv
<1>1. CountInv'
  BY CountStep
<1>2. ASSUME NEW t \in Turns, NEW a \in Arrivals, Accept(t, a[1], a[2])
      PROVE  TypeInv'
  BY <1>1, <1>2 DEF Accept, clientVars, senderVars, ClientTypeOK, AttemptsInv, SenderOK, SenderTypeOK
<1>3. ASSUME NEW t \in Turns, MiddleStep(t)
      PROVE  TypeInv'
  <2>1. said' \in [Turns -> Seq(Texts)]
    <3>1. ASSUME NEW f \in Texts
          PROVE  [said EXCEPT ![t] = Append(said[t], f)] \in [Turns -> Seq(Texts)]
      OBVIOUS
    <3>2. QED
      BY <1>3, <3>1, MiddleShape, ZenonT(60) DEF SaysOrNot
  <2>2. SenderOK'
    <3>1. turn[t].connection \in Connections
      BY DEF CountInv, Turn
    <3>2. CASE UNCHANGED senderVars
      BY <3>2 DEF senderVars, SenderOK, SenderTypeOK
    <3>3. QED
      BY <1>3, <3>1, <3>2, MiddleShape, SendTypes DEF SendsOrNot
  <2>3. ClientTypeOK' /\ AttemptsInv'
    <3>1. CASE UNCHANGED clientVars
      BY <3>1 DEF clientVars, ClientTypeOK, AttemptsInv
    <3>2. QED
      BY <1>3, <3>1, MiddleShape, ServesTypes
  <2>4. QED
    BY <1>1, <1>3, <2>1, <2>2, <2>3, MiddleShape
<1>4. ASSUME NEW t \in Turns, Finally(t)
      PROVE  TypeInv'
  <2>1. <<>> \in Seq(Frames) /\ <<>> \in Seq(Texts)
    OBVIOUS
  <2>2. SenderOK'
    BY <1>4, <2>1 DEF Finally, Forget, SenderOK, SenderTypeOK
  <2>3. said' \in [Turns -> Seq(Texts)]
    BY <1>4, <2>1 DEF Finally
  <2>4. QED
    BY <1>1, <1>4, <2>2, <2>3 DEF Finally, clientVars, ClientTypeOK, AttemptsInv
<1>5. ASSUME NEW t \in Turns,
             Activate(t) \/ Await(t) \/ FrameStep(t), UNCHANGED <<deployment, senderVars, turnVars>>
      PROVE  TypeInv'
  <2>1. ClientTypeOK' /\ AttemptsInv'
    BY <1>5, GeneratorServes, FrameServes, ServesTypes
  <2>2. QED
    BY <1>1, <1>5, <2>1 DEF turnVars, senderVars, SenderOK, SenderTypeOK
<1>6. CASE (ConnectionStep \/ GatewayDies) /\ UNCHANGED <<deployment, senderVars, turnVars>>
  BY <1>1, <1>6, ConnectionTypes DEF turnVars, senderVars, SenderOK, SenderTypeOK
<1>7. CASE UNCHANGED vars
  BY <1>1, <1>7
     DEF vars, turnVars, senderVars, clientVars, SenderOK, SenderTypeOK, ClientTypeOK, AttemptsInv
<1>8. QED
  BY <1>2, <1>3, <1>4, <1>5, <1>6, <1>7, StepKinds

LEMMA TypeInit == Init => TypeInv
<1> SUFFICES ASSUME Init
             PROVE  TypeInv
  OBVIOUS
<1>1. ClientTypeOK /\ AttemptsInv
  BY NoChatServes, MaxAttemptsAssumption, MaxTextAssumption
     DEF Init, ClientInit, ClientTypeOK, AttemptsInv
<1>2. SenderOK
  <2>1. gone \subseteq Connections
    BY TelegramAssumption DEF Init, SenderInit
  <2>2. QED
    BY <2>1 DEF Init, SenderInit, SenderOK, SenderTypeOK
<1>3. QED
  BY <1>1, <1>2, CountInit DEF Init, TypeInv

\* Every frame that is buffered, shown or remembered as said is of its kind, a chunk is a
\* stretch of the longest answer, and connectAttempts never passes the limit of
\* openclaw-client.ts by more than one.
THEOREM Typing == Spec => []TypeOK
<1>1. TypeInv => TypeOK
  <2> SUFFICES ASSUME TypeInv
               PROVE  TypeOK
    OBVIOUS
  <2>1. Working \subseteq Turns
    BY DEF Working
  <2>2. Cardinality(Working) <= Cardinality(Turns) /\ Cardinality(Turns) \in Nat
    BY <2>1, TurnsAssumption, FS_Subset, FS_CardinalityType
  <2>3. busy \in 0..Cardinality(Turns)
    BY <2>2, WorkingIsFinite DEF TypeInv, CountInv
  <2>4. QED
    BY <2>3 DEF TypeInv, CountInv, TypeOK, SenderOK
<1>2. QED
  BY <1>1, TypeInit, TypeStep, PTL DEF Spec

-----------------------------------------------------------------------------
(* The text of a run, on its way through the client *)

\* Up to where a chat's text has been handed to a generator that has read so far, and up
\* to where it is queued.
HandedTo(c, read) == IF c.handed = Nothing THEN read ELSE c.handed.to

QueuedTo(c, read) == IF c.chunks = <<>> THEN HandedTo(c, read) ELSE c.chunks[Len(c.chunks)].to

\* What has been read, what was handed over and what is queued join up.
Joins(c, read) ==
  /\ c.handed # Nothing => c.handed.from = read /\ c.handed.from < c.handed.to
  /\ \A i \in DOMAIN c.chunks :
       /\ c.chunks[i].from = IF i = 1 THEN HandedTo(c, read) ELSE c.chunks[i - 1].to
       /\ c.chunks[i].from < c.chunks[i].to
  /\ c.seen = QueuedTo(c, read)
  /\ c.waiting => ~HasChunk(c)

LEMMA JoinsAnew ==
  ASSUME NEW c \in Chat, NEW d \in Chat, NEW read \in Nat, Joins(c, read),
         d.chunks = c.chunks, d.handed = c.handed, d.seen = c.seen, d.waiting => ~HasChunk(d)
  PROVE  Joins(d, read)
BY DEF Joins, HandedTo, QueuedTo

LEMMA JoinsAtFirst ==
  ASSUME NEW state, NEW c, c = [NoChat EXCEPT !.state = state]
  PROVE  Joins(c, 0) /\ c.seen = 0
BY DEF NoChat, Joins, HandedTo, QueuedTo, HasChunk

LEMMA JoinsMore ==
  ASSUME NEW c \in Chat, NEW read \in Nat, Joins(c, read), NEW n \in 0..MaxText, n > c.seen
  PROVE  /\ Joins(TakeText(c, n), read)
         /\ TakeText(c, n).seen = n
<1> DEFINE delta == [from |-> c.seen, to |-> n]
           seen == [c EXCEPT !.seen = n]
           handed == [seen EXCEPT !.waiting = FALSE, !.handed = delta]
           queued == [seen EXCEPT !.chunks = Append(seen.chunks, delta)]
<1>1. /\ delta \in Chunk /\ delta.from = c.seen /\ delta.to = n
      /\ seen \in Chat /\ seen.chunks = c.chunks /\ seen.handed = c.handed
      /\ seen.seen = n /\ seen.waiting = c.waiting
      /\ c.seen \in Nat /\ c.chunks \in Seq(Chunk) /\ n \in Nat
  BY MaxTextAssumption DEF Chat, Chunk
<1>2. TakeText(c, n) = IF c.waiting THEN handed ELSE queued
  BY <1>1 DEF TakeText
<1>3. delta # Nothing
  BY <1>1 DEF Nothing
<1> HIDE DEF delta, seen
<1>4. CASE c.waiting
  <2>1. c.handed = Nothing /\ c.chunks = <<>>
    BY <1>4 DEF Joins, HasChunk
  <2>2. c.seen = read
    BY <2>1 DEF Joins, QueuedTo, HandedTo
  <2>3. handed.handed = delta /\ handed.chunks = <<>> /\ handed.waiting = FALSE /\ handed.seen = n
    BY <1>1, <2>1 DEF Chat
  <2> HIDE DEF handed
  <2>4. Joins(handed, read)
    BY <1>1, <1>3, <2>2, <2>3 DEF Joins, QueuedTo, HandedTo
  <2>5. QED
    BY <1>2, <1>4, <2>3, <2>4
<1>5. CASE ~c.waiting
  <2>1. /\ queued.handed = c.handed /\ queued.waiting = c.waiting /\ queued.seen = n
        /\ queued.chunks = Append(c.chunks, delta)
    BY <1>1 DEF Chat
  <2> HIDE DEF queued
  <2> DEFINE m == Len(c.chunks)
  <2>2. /\ m \in Nat /\ DOMAIN queued.chunks = 1..(m + 1)
        /\ queued.chunks[m + 1] = delta
        /\ \A i \in 1..m : queued.chunks[i] = c.chunks[i]
        /\ queued.chunks # <<>> /\ Len(queued.chunks) = m + 1
        /\ (c.chunks = <<>> <=> m = 0)
        /\ DOMAIN c.chunks = 1..m
    BY <1>1, <2>1
  <2>3. HandedTo(queued, read) = HandedTo(c, read)
    BY <2>1 DEF HandedTo
  <2>4. QueuedTo(queued, read) = n
    BY <1>1, <2>2 DEF QueuedTo
  <2>5. delta.from = IF m + 1 = 1 THEN HandedTo(c, read) ELSE queued.chunks[m].to
    BY <1>1, <2>2 DEF Joins, QueuedTo
  <2>6. ASSUME NEW i \in DOMAIN queued.chunks
        PROVE  /\ queued.chunks[i].from =
                    IF i = 1 THEN HandedTo(queued, read) ELSE queued.chunks[i - 1].to
               /\ queued.chunks[i].from < queued.chunks[i].to
    <3>1. CASE i = m + 1
      BY <1>1, <2>2, <2>3, <2>5, <3>1
    <3>2. CASE i \in 1..m
      <4>1. /\ c.chunks[i].from = IF i = 1 THEN HandedTo(c, read) ELSE c.chunks[i - 1].to
            /\ c.chunks[i].from < c.chunks[i].to
        BY <2>2, <3>2 DEF Joins
      <4>2. i # 1 => i - 1 \in 1..m
        BY <2>2, <3>2
      <4>3. /\ queued.chunks[i] = c.chunks[i]
            /\ i # 1 => queued.chunks[i - 1] = c.chunks[i - 1]
        BY <2>2, <3>2, <4>2
      <4>4. QED
        BY <2>3, <4>1, <4>3
    <3>3. QED
      BY <2>2, <3>1, <3>2
  <2>7. Joins(queued, read)
    BY <1>5, <2>1, <2>4, <2>6 DEF Joins
  <2>8. QED
    BY <1>2, <1>5, <2>1, <2>7
<1>6. QED
  BY <1>4, <1>5

\* The generator reads the text where it left off.
LEMMA JoinsOnReading ==
  ASSUME NEW c \in Chat, NEW read \in Nat, Joins(c, read), HasChunk(c)
  PROVE  /\ NextChunk(c).from = read /\ NextChunk(c).from < NextChunk(c).to
         /\ Joins(WithoutChunk(c), NextChunk(c).to)
         /\ WithoutChunk(c).seen = c.seen
<1>1. /\ c.chunks \in Seq(Chunk) /\ c.seen \in Nat /\ Nothing \in Chunk
  BY FramesAre, MaxTextAssumption DEF Chat
<1>2. CASE c.handed # Nothing
  <2> DEFINE d == [c EXCEPT !.handed = Nothing]
  <2>1. /\ d.handed = Nothing /\ d.chunks = c.chunks /\ d.seen = c.seen /\ d.waiting = c.waiting
    BY DEF Chat
  <2>2. NextChunk(c) = c.handed /\ WithoutChunk(c) = d
    BY <1>2 DEF NextChunk, WithoutChunk
  <2> HIDE DEF d
  <2>3. HandedTo(d, c.handed.to) = HandedTo(c, read)
    BY <1>2, <2>1 DEF HandedTo
  <2>4. Joins(d, c.handed.to)
    BY <1>2, <2>1, <2>3 DEF Joins, QueuedTo, HasChunk
  <2>5. QED
    BY <1>2, <2>1, <2>2, <2>4 DEF Joins
<1>3. CASE c.handed = Nothing
  <2> DEFINE d == [c EXCEPT !.chunks = Tail(c.chunks)]
             m == Len(c.chunks)
  <2>1. c.chunks # <<>>
    BY <1>3 DEF HasChunk
  <2>2. /\ d.handed = Nothing /\ d.chunks = Tail(c.chunks) /\ d.seen = c.seen
        /\ d.waiting = c.waiting
    BY <1>3 DEF Chat
  <2>3. NextChunk(c) = c.chunks[1] /\ WithoutChunk(c) = d
    BY <1>1, <1>3, <2>1 DEF NextChunk, WithoutChunk
  <2> HIDE DEF d
  <2>4. /\ m \in Nat /\ m >= 1 /\ DOMAIN c.chunks = 1..m
        /\ DOMAIN d.chunks = 1..(m - 1) /\ Len(d.chunks) = m - 1
        /\ \A i \in 1..(m - 1) : d.chunks[i] = c.chunks[i + 1]
        /\ (d.chunks = <<>> <=> m = 1)
    <3>1. m \in Nat /\ m >= 1 /\ DOMAIN c.chunks = 1..m
      BY <1>1, <2>1
    <3>2. d.chunks \in Seq(Chunk) /\ Len(d.chunks) = m - 1
      BY <1>1, <2>1, <2>2
    <3>3. \A i \in 1..(m - 1) : d.chunks[i] = c.chunks[i + 1]
      BY <1>1, <2>1, <2>2
    <3> HIDE DEF m
    <3>4. DOMAIN d.chunks = 1..(m - 1) /\ (d.chunks = <<>> <=> m = 1)
      BY <3>1, <3>2
    <3>5. QED
      BY <3>1, <3>2, <3>3, <3>4
  <2>5. HandedTo(c, read) = read /\ HandedTo(d, c.chunks[1].to) = c.chunks[1].to
    BY <1>3, <2>2 DEF HandedTo
  <2>6. c.chunks[1].from = read /\ c.chunks[1].from < c.chunks[1].to
    BY <2>4, <2>5 DEF Joins
  <2>7. QueuedTo(d, c.chunks[1].to) = c.chunks[m].to
    BY <2>4, <2>5 DEF QueuedTo
  <2>8. ASSUME NEW i \in DOMAIN d.chunks
        PROVE  /\ d.chunks[i].from =
                    IF i = 1 THEN HandedTo(d, c.chunks[1].to) ELSE d.chunks[i - 1].to
               /\ d.chunks[i].from < d.chunks[i].to
    <3>1. i \in 1..(m - 1) /\ i + 1 \in 1..m /\ i + 1 # 1 /\ (i + 1) - 1 = i
      BY <2>4
    <3>2. d.chunks[i].from = c.chunks[i].to /\ d.chunks[i].from < d.chunks[i].to
      BY <2>4, <3>1, ZenonT(60) DEF Joins
    <3>3. i # 1 => i - 1 \in 1..(m - 1) /\ (i - 1) + 1 = i
      BY <2>4, <3>1
    <3>4. QED
      BY <2>4, <2>5, <3>1, <3>2, <3>3
  <2>9. d.seen = c.chunks[m].to /\ ~d.waiting
    BY <2>1, <2>2 DEF Joins, QueuedTo, HasChunk
  <2>10. Joins(d, c.chunks[1].to)
    BY <2>2, <2>7, <2>8, <2>9 DEF Joins
  <2>11. QED
    BY <2>2, <2>3, <2>6, <2>10
<1>4. QED
  BY <1>2, <1>3

LEMMA JoinsAtTheEnd ==
  ASSUME NEW c \in Chat, NEW read \in Nat, Joins(c, read), ~HasChunk(c)
  PROVE  c.seen = read
BY DEF Joins, HasChunk, QueuedTo, HandedTo

-----------------------------------------------------------------------------
(* The text of a run, in what the turn has said *)

InOrder(frames) ==
  \A i \in DOMAIN frames :
    frames[i].of = "run"
    => /\ frames[i].text.from = Behind(frames, i)
       /\ frames[i].text.from < frames[i].text.to
       /\ i > 1 => frames[i - 1].of = "run"

AllOfTheRun(frames) == \A i \in DOMAIN frames : frames[i].of = "run"

EndOf(frames) == IF frames = <<>> THEN 0 ELSE frames[Len(frames)].text.to

\* The client has seen all of the run, unless a frame came too early.
Follows(t) == chat[t].seen <= run[t] /\ (t \notin missed => chat[t].seen = run[t])

StreamInv(t) ==
  IF At(t, "stream")
  THEN Joins(chat[t], EndOf(said[t])) /\ Follows(t) /\ AllOfTheRun(said[t])
  ELSE chat[t] = NoChat /\ run[t] = 0 /\ t \notin missed

BeforeTheRun == {"idle", "decide", "early", "tool", "primary", "openclaw"}

TextOf(t) ==
  /\ StreamInv(t)
  /\ InOrder(said[t])
  /\ turn[t].pc \in BeforeTheRun => said[t] = <<>>

TextInv == \A t \in Turns : TextOf(t)

LEMMA InOrderMore ==
  ASSUME NEW s \in Seq(Texts), NEW f \in Texts, InOrder(s),
         f.of = "run" => /\ f.text.from = EndOf(s) /\ f.text.from < f.text.to
                         /\ AllOfTheRun(s)
  PROVE  /\ InOrder(Append(s, f))
         /\ EndOf(Append(s, f)) = f.text.to
         /\ AllOfTheRun(s) /\ f.of = "run" => AllOfTheRun(Append(s, f))
<1> DEFINE m == Len(s)
           more == Append(s, f)
<1>1. /\ m \in Nat /\ DOMAIN s = 1..m /\ (s = <<>> <=> m = 0)
      /\ DOMAIN more = 1..(m + 1) /\ Len(more) = m + 1 /\ more # <<>>
      /\ more[m + 1] = f
      /\ \A i \in 1..m : more[i] = s[i]
  OBVIOUS
<1> HIDE DEF m, more
<1>2. EndOf(more) = f.text.to
  BY <1>1 DEF EndOf
<1>3. AllOfTheRun(s) /\ f.of = "run" => AllOfTheRun(more)
  BY <1>1 DEF AllOfTheRun
<1>4. ASSUME NEW i \in DOMAIN more, more[i].of = "run"
      PROVE  /\ more[i].text.from = Behind(more, i)
             /\ more[i].text.from < more[i].text.to
             /\ i > 1 => more[i - 1].of = "run"
  <2>1. i = m + 1 \/ i \in 1..m
    BY <1>1
  <2>2. CASE i = m + 1
    <3>1. m = Len(s)
      BY DEF m
    <3>2. Behind(more, i) = EndOf(s)
      BY <1>1, <2>2, <3>1 DEF Behind, EndOf
    <3>3. i > 1 => s[m].of = "run" /\ more[i - 1] = s[m]
      BY <1>1, <1>4, <2>2 DEF AllOfTheRun
    <3>4. QED
      BY <1>1, <1>4, <2>2, <3>2, <3>3
  <2>3. CASE i \in 1..m
    <3>1. more[i] = s[i] /\ (i > 1 => i - 1 \in 1..m /\ more[i - 1] = s[i - 1])
      BY <1>1, <2>3
    <3>2. i # 1 => i > 1
      BY <1>1, <2>3
    <3>3. Behind(more, i) = Behind(s, i)
      BY <3>1, <3>2 DEF Behind
    <3>4. /\ s[i].text.from = Behind(s, i) /\ s[i].text.from < s[i].text.to
          /\ i > 1 => s[i - 1].of = "run"
      BY <1>1, <1>4, <2>3, <3>1 DEF InOrder
    <3>5. QED
      BY <3>1, <3>3, <3>4
  <2>4. QED
    BY <2>1, <2>2, <2>3
<1>5. InOrder(more)
  BY <1>4 DEF InOrder
<1>6. QED
  BY <1>2, <1>3, <1>5 DEF more

LEMMA EndOfIs == ASSUME NEW s \in Seq(Texts) PROVE EndOf(s) \in 0..MaxText
<1>1. s # <<>> => s[Len(s)] \in Texts
  OBVIOUS
<1>2. QED
  BY <1>1, MaxTextAssumption DEF EndOf, Texts, Frames, Chunk

-----------------------------------------------------------------------------
(* Where a turn goes *)

LEMMA GoesTo ==
  ASSUME CountInv, NEW t \in Turns, NEW pc, Goto(t, pc)
  PROVE  /\ turn'[t].pc = pc
         /\ turn'[t].stored = turn[t].stored /\ turn'[t].result = turn[t].result
<1> DEFINE r == [turn[t] EXCEPT !.pc = pc]
<1>1. turn[t] \in Turn
  BY DEF CountInv
<1>2. r.pc = pc /\ r.stored = turn[t].stored /\ r.result = turn[t].result
  BY <1>1 DEF Turn
<1>3. turn' = [turn EXCEPT ![t] = r]
  BY DEF Goto
<1> HIDE DEF r
<1>4. QED
  BY <1>2, <1>3 DEF CountInv

LEMMA FinishesAs ==
  ASSUME CountInv, NEW t \in Turns, NEW result, Finish(t, result)
  PROVE  turn'[t].pc = "finally" /\ turn'[t].result = result /\ turn'[t].stored = turn[t].stored
<1> DEFINE r == [turn[t] EXCEPT !.pc = "finally", !.result = result]
<1>1. turn[t] \in Turn
  BY DEF CountInv
<1>2. r.pc = "finally" /\ r.stored = turn[t].stored /\ r.result = result
  BY <1>1 DEF Turn
<1>3. turn' = [turn EXCEPT ![t] = r]
  BY DEF Finish
<1> HIDE DEF r
<1>4. QED
  BY <1>2, <1>3 DEF CountInv

LEMMA ThrowsTo ==
  ASSUME CountInv, NEW t \in Turns, Throw(t)
  PROVE  /\ turn'[t].stored = turn[t].stored
         /\ \/ turn'[t].pc \in {"rescue", "report"}
            \/ /\ turn'[t].pc = "finally" /\ turn'[t].result = "failed"
               /\ turn[t].pc \in {"early", "earlyEnd"} \/ Via(t) = "pending"
<1>1. \/ /\ Finish(t, "failed")
         /\ turn[t].pc \in {"early", "earlyEnd"} \/ Via(t) = "pending"
      \/ Goto(t, "rescue") \/ Goto(t, "report")
  BY DEF Throw
<1>2. QED
  BY <1>1, GoesTo, FinishesAs

LEMMA DecidesOn ==
  ASSUME CountInv, NEW t \in Turns, Decide(t)
  PROVE  /\ turn'[t].stored = turn[t].stored
         /\ \/ turn'[t].pc \in {"early", "tool", "primary", "openclaw", "rescue", "report"}
            \/ /\ turn'[t].pc = "finally"
               /\ Via(t) = "response" \/ (turn'[t].result = "failed" /\ Via(t) = "pending")
<1>1. CASE \/ Goto(t, "early") \/ Goto(t, "tool") \/ Throw(t)
           \/ Via(t) = "response" /\ Finish(t, "done")
  <2>1. turn[t].pc = "decide"
    BY DEF Decide, At
  <2>2. QED
    BY <1>1, <2>1, GoesTo, ThrowsTo, FinishesAs
<1>2. ASSUME NEW chatOnly \in BOOLEAN, NEW pc \in {"primary", "openclaw"},
             turn' = [turn EXCEPT ![t].chatOnly = chatOnly, ![t].pc = pc]
      PROVE  turn'[t].pc \in {"primary", "openclaw"} /\ turn'[t].stored = turn[t].stored
  BY <1>2 DEF CountInv, Turn
<1>3. CASE \E chatOnly \in BOOLEAN, pc \in {"primary", "openclaw"} :
             turn' = [turn EXCEPT ![t].chatOnly = chatOnly, ![t].pc = pc]
  <2>1. turn'[t].pc \in {"primary", "openclaw"} /\ turn'[t].stored = turn[t].stored
    BY <1>2, <1>3
  <2>2. QED
    BY <2>1
<1>4. QED
  BY <1>1, <1>3 DEF Decide

LEMMA SavesTo ==
  ASSUME CountInv, NEW t \in Turns, Save(t)
  PROVE  turn'[t].pc = "finally" /\ turn'[t].result = "done"
<1>1. ASSUME NEW stored \in BOOLEAN,
        turn' = [turn EXCEPT ![t].pc = "finally", ![t].result = "done", ![t].stored = stored]
      PROVE  turn'[t].pc = "finally" /\ turn'[t].result = "done"
  BY <1>1 DEF CountInv, Turn
<1>2. QED
  BY <1>1 DEF Save

LEMMA SaysAs ==
  ASSUME TypeInv, NEW t \in Turns, NEW of, NEW text, Say(t, of, text)
  PROVE  said'[t] = Append(said[t], Frame(of, text))
BY DEF TypeInv, Say

\* What a step of turn t leaves alone of another one.
Elsewhere(t) ==
  \A u \in Turns \ {t} :
    /\ turn'[u] = turn[u] /\ said'[u] = said[u]
    /\ chat'[u] = chat[u] /\ run'[u] = run[u] /\ (u \in missed' <=> u \in missed)

LEMMA ServesElsewhere ==
  ASSUME TypeInv, NEW t \in Turns, Serves(t), NEW u \in Turns \ {t}
  PROVE  chat'[u] = chat[u] /\ run'[u] = run[u] /\ (u \in missed' <=> u \in missed)
BY DEF TypeInv, ClientTypeOK, Serves

LEMMA MiddleElsewhere ==
  ASSUME TypeInv, NEW t \in Turns, MiddleStep(t)
  PROVE  Elsewhere(t)
<1> SUFFICES ASSUME NEW u \in Turns \ {t}
             PROVE  /\ turn'[u] = turn[u] /\ said'[u] = said[u]
                    /\ chat'[u] = chat[u] /\ run'[u] = run[u] /\ (u \in missed' <=> u \in missed)
  BY DEF Elsewhere
<1>1. turn'[u] = turn[u]
  BY MiddleCounts DEF TypeInv, CountInv, GoesOn
<1>2. said'[u] = said[u]
  BY MiddleShape DEF TypeInv, SaysOrNot
<1>3. chat'[u] = chat[u] /\ run'[u] = run[u] /\ (u \in missed' <=> u \in missed)
  BY MiddleShape, ServesElsewhere DEF clientVars
<1>4. QED
  BY <1>1, <1>2, <1>3

LEMMA TextRests ==
  ASSUME NEW u \in Turns, TextOf(u),
         turn'[u].pc = turn[u].pc, said'[u] = said[u], chat'[u] = chat[u], run'[u] = run[u],
         u \in missed' <=> u \in missed
  PROVE  TextOf(u)'
BY DEF TextOf, StreamInv, At, Follows

LEMMA TextOfPlain ==
  ASSUME TypeInv, NEW t \in Turns, TextOf(t), UNCHANGED clientVars,
         turn[t].pc # "stream", turn'[t].pc # "stream",
         \/ said'[t] = said[t] /\ (turn'[t].pc \in BeforeTheRun => turn[t].pc \in BeforeTheRun)
         \/ /\ \E f \in Texts : f.of # "run" /\ said'[t] = Append(said[t], f)
            /\ turn'[t].pc \notin BeforeTheRun
  PROVE  TextOf(t)'
<1>1. StreamInv(t)'
  BY DEF TextOf, StreamInv, At, clientVars
<1>2. said[t] \in Seq(Texts)
  BY DEF TypeInv
<1>3. InOrder(said'[t])
  BY <1>2, InOrderMore DEF TextOf
<1>4. turn'[t].pc \in BeforeTheRun => said'[t] = <<>>
  BY DEF TextOf
<1>5. QED
  BY <1>1, <1>3, <1>4 DEF TextOf

LEMMA TextOfSendAnswer ==
  ASSUME TypeInv, NEW t \in Turns, TextOf(t), NEW pc, NEW of \in Sources, NEW next,
         SendAnswer(t, pc, of, next), pc # "stream", of # "run",
         next \notin BeforeTheRun, next # "stream"
  PROVE  TextOf(t)'
<1>1. turn[t].pc = pc /\ UNCHANGED clientVars /\ CountInv
  BY DEF SendAnswer, At, TypeInv
<1>2. turn'[t].pc \in {next, "rescue", "report", "finally"}
  BY <1>1, GoesTo, ThrowsTo DEF SendAnswer, Send
<1>3. \/ said'[t] = said[t]
      \/ \E f \in Texts : f.of # "run" /\ said'[t] = Append(said[t], f)
  BY SaysAs, FramesAre DEF SendAnswer
<1>4. QED
  BY <1>1, <1>2, <1>3, TextOfPlain DEF BeforeTheRun

LEMMA TextOfStreamChunk ==
  ASSUME TypeInv, NEW t \in Turns, TextOf(t), StreamChunk(t)
  PROVE  TextOf(t)'
<1> DEFINE chunk == NextChunk(chat[t])
           f == Frame("run", chunk)
<1>1. /\ turn[t].pc = "stream" /\ HasChunk(chat[t])
      /\ Say(t, "run", chunk) /\ Send(t, "run", chunk, "stream")
      /\ IF turn'[t].pc = "stream" THEN TakeChunk(t) ELSE Abandon(t)
  BY DEF StreamChunk, At
<1>2. /\ chat \in [Turns -> Chat] /\ chat[t] \in Chat /\ CountInv
      /\ run \in [Turns -> 0..MaxText]
      /\ said[t] \in Seq(Texts) /\ EndOf(said[t]) \in 0..MaxText
      /\ chunk \in Chunk /\ WithoutChunk(chat[t]) \in Chat
  BY <1>1, ChunkIsRead, EndOfIs DEF TypeInv, ClientTypeOK
<1>3. /\ Joins(chat[t], EndOf(said[t])) /\ Follows(t) /\ AllOfTheRun(said[t])
      /\ InOrder(said[t])
  BY <1>1 DEF TextOf, StreamInv, At
<1>4. /\ chunk.from = EndOf(said[t]) /\ chunk.from < chunk.to
      /\ Joins(WithoutChunk(chat[t]), chunk.to)
      /\ WithoutChunk(chat[t]).seen = chat[t].seen
  BY <1>1, <1>2, <1>3, JoinsOnReading
<1>5. f \in Texts /\ f.of = "run" /\ f.text = chunk /\ said'[t] = Append(said[t], f)
  BY <1>1, <1>2, FramesAre, SaysAs DEF Sources
<1> HIDE DEF chunk, f
<1>6. InOrder(said'[t]) /\ EndOf(said'[t]) = chunk.to /\ AllOfTheRun(said'[t])
  BY <1>2, <1>3, <1>4, <1>5, InOrderMore
<1>7. turn'[t].pc \in {"stream", "rescue", "report", "finally"}
  BY <1>1, <1>2, GoesTo, ThrowsTo DEF Send
<1>8. CASE turn'[t].pc = "stream"
  <2>1. chat'[t] = WithoutChunk(chat[t]) /\ run'[t] = run[t] /\ missed' = missed
    BY <1>1, <1>2, <1>8 DEF TakeChunk
  <2>2. Follows(t)'
    BY <1>3, <1>4, <2>1 DEF Follows
  <2>3. StreamInv(t)'
    BY <1>4, <1>6, <1>8, <2>1, <2>2 DEF StreamInv, At
  <2>4. QED
    BY <1>6, <1>8, <2>3 DEF TextOf, BeforeTheRun
<1>9. CASE turn'[t].pc # "stream"
  <2>1. chat'[t] = NoChat /\ run'[t] = 0 /\ t \notin missed'
    BY <1>1, <1>2, <1>9 DEF Abandon
  <2>2. QED
    BY <1>6, <1>7, <1>9, <2>1 DEF TextOf, StreamInv, At, BeforeTheRun
<1>10. QED
  BY <1>8, <1>9

LEMMA TextOfOpenClaw ==
  ASSUME TypeInv, NEW t \in Turns, TextOf(t), AskOpenClaw(t) \/ StreamEnds(t)
  PROVE  TextOf(t)'
<1>1. /\ chat \in [Turns -> Chat] /\ CountInv /\ run \in [Turns -> 0..MaxText]
  BY DEF TypeInv, ClientTypeOK
<1>2. CASE AskOpenClaw(t)
  <2>1. turn[t].pc = "openclaw" /\ said' = said
    BY <1>2 DEF AskOpenClaw, At
  <2>2. CASE RequestRun(t) /\ Goto(t, "stream")
    <3> DEFINE c == [NoChat EXCEPT !.state = "requested"]
    <3>1. chat[t] = NoChat /\ run[t] = 0 /\ t \notin missed /\ said[t] = <<>> /\ InOrder(said[t])
      BY <2>1 DEF TextOf, StreamInv, At, BeforeTheRun
    <3>2. chat'[t] = c /\ run' = run /\ missed' = missed
      BY <1>1, <2>2, <3>1 DEF RequestRun
    <3>3. Joins(c, 0) /\ c.seen = 0
      BY JoinsAtFirst
    <3> HIDE DEF c
    <3>4. turn'[t].pc = "stream"
      BY <1>1, <2>2, GoesTo
    <3>5. EndOf(said'[t]) = 0 /\ AllOfTheRun(said'[t]) /\ said'[t] = said[t]
      BY <2>1, <3>1 DEF EndOf, AllOfTheRun
    <3>6. QED
      BY <3>1, <3>2, <3>3, <3>4, <3>5 DEF TextOf, StreamInv, At, Follows, BeforeTheRun
  <2>3. CASE Throw(t) /\ UNCHANGED clientVars
    BY <1>1, <2>1, <2>3, ThrowsTo, TextOfPlain DEF BeforeTheRun
  <2>4. QED
    BY <1>2, <2>2, <2>3 DEF AskOpenClaw
<1>3. CASE StreamEnds(t)
  <2>1. Abandon(t) /\ said' = said /\ (Goto(t, "weak") \/ Goto(t, "canned") \/ Throw(t))
    BY <1>3 DEF StreamEnds
  <2>2. chat'[t] = NoChat /\ run'[t] = 0 /\ t \notin missed'
    BY <1>1, <2>1 DEF Abandon
  <2>3. turn'[t].pc \in {"weak", "canned", "rescue", "report", "finally"}
    BY <1>1, <2>1, GoesTo, ThrowsTo
  <2>4. QED
    BY <2>1, <2>2, <2>3 DEF TextOf, StreamInv, At, BeforeTheRun
<1>4. QED
  BY <1>2, <1>3

LEMMA TextOfMiddle ==
  ASSUME TypeInv, NEW t \in Turns, TextOf(t), MiddleStep(t)
  PROVE  TextOf(t)'
<1>1. CountInv /\ {"early", "tool", "direct", "canned"} \subseteq Sources
  BY DEF TypeInv, Sources
<1>2. CASE Decide(t)
  <2>1. turn[t].pc = "decide" /\ UNCHANGED clientVars /\ said' = said
    BY <1>2 DEF Decide, At
  <2>2. turn'[t].pc # "stream"
    BY <1>1, <1>2, DecidesOn
  <2>3. QED
    BY <2>1, <2>2, TextOfPlain DEF BeforeTheRun
<1>3. CASE EarlyAnswer(t) \/ ToolAnswer(t) \/ PrimaryAnswer(t) \/ Rescue(t)
  BY <1>1, <1>3, TextOfSendAnswer
     DEF EarlyAnswer, ToolAnswer, PrimaryAnswer, Rescue, BeforeTheRun
<1>4. CASE EarlyEnd(t) \/ RescueEnd(t)
  <2>1. /\ turn[t].pc \in {"earlyEnd", "rescueEnd"} /\ UNCHANGED clientVars /\ said' = said
        /\ Finish(t, "done") \/ Throw(t)
    BY <1>4 DEF EarlyEnd, RescueEnd, SendLast, At
  <2>2. QED
    BY <1>1, <2>1, ThrowsTo, FinishesAs, TextOfPlain DEF BeforeTheRun
<1>5. CASE WeakAnswer(t) \/ CannedAnswer(t)
  <2>1. /\ turn[t].pc \in {"weak", "canned"} /\ UNCHANGED clientVars
        /\ Goto(t, "canned") \/ Goto(t, "end") \/ Throw(t)
    BY <1>5 DEF WeakAnswer, CannedAnswer, Send, At
  <2>2. \/ said'[t] = said[t]
        \/ \E f \in Texts : f.of # "run" /\ said'[t] = Append(said[t], f)
    BY <1>1, <1>5, SaysAs, FramesAre DEF WeakAnswer, CannedAnswer
  <2>3. turn'[t].pc \in {"canned", "end", "rescue", "report", "finally"}
    BY <1>1, <2>1, GoesTo, ThrowsTo
  <2>4. QED
    BY <2>1, <2>2, <2>3, TextOfPlain DEF BeforeTheRun
<1>6. CASE EndStream(t) \/ Save(t) \/ Report(t)
  <2>1. turn[t].pc \in {"end", "save", "report"} /\ UNCHANGED clientVars /\ said' = said
    BY <1>6 DEF EndStream, Save, Report, At
  <2>2. turn'[t].pc \in {"save", "finally", "rescue", "report"}
    BY <1>1, <1>6, GoesTo, ThrowsTo, FinishesAs, SavesTo DEF EndStream, Send, Report
  <2>3. QED
    BY <2>1, <2>2, TextOfPlain DEF BeforeTheRun
<1>7. QED
  BY <1>2, <1>3, <1>4, <1>5, <1>6, TextOfStreamChunk, TextOfOpenClaw DEF MiddleStep

LEMMA TextOfGenerator ==
  ASSUME TypeInv, NEW t \in Turns, TextOf(t), Activate(t) \/ Await(t), UNCHANGED <<turn, said>>
  PROVE  TextOf(t)'
<1> DEFINE c == chat[t]
           d == IF Activate(t) THEN [c EXCEPT !.state = "active"] ELSE [c EXCEPT !.waiting = TRUE]
<1>1. /\ chat \in [Turns -> Chat] /\ c \in Chat /\ said[t] \in Seq(Texts)
      /\ EndOf(said[t]) \in Nat
  BY EndOfIs, MaxTextAssumption DEF TypeInv, ClientTypeOK
<1>2. chat'[t] = d /\ run' = run /\ missed' = missed
  BY <1>1 DEF Activate, Await
<1>3. At(t, "stream")
  BY DEF TextOf, StreamInv, Activate, Await, NoChat
<1>4. d \in Chat /\ d.chunks = c.chunks /\ d.handed = c.handed /\ d.seen = c.seen
  <2>1. CASE Activate(t)
    BY <1>1, <2>1 DEF Chat
  <2>2. CASE ~Activate(t)
    BY <1>1, <2>2 DEF Chat
  <2>3. QED
    BY <2>1, <2>2
<1>5. d.waiting => ~HasChunk(d)
  <2>1. CASE Activate(t)
    <3>1. d.waiting = c.waiting
      BY <1>1, <2>1 DEF Chat
    <3>2. QED
      BY <1>3, <1>4, <3>1 DEF TextOf, StreamInv, Joins, HasChunk
  <2>2. CASE ~Activate(t)
    <3>1. ~HasChunk(c)
      BY <2>2 DEF Await
    <3>2. QED
      BY <1>4, <3>1 DEF HasChunk
  <2>3. QED
    BY <2>1, <2>2
<1> HIDE DEF d
<1>6. Joins(d, EndOf(said[t]))
  BY <1>1, <1>3, <1>4, <1>5, JoinsAnew DEF TextOf, StreamInv
<1>7. QED
  BY <1>2, <1>3, <1>4, <1>6 DEF TextOf, StreamInv, Follows, At

LEMMA TextOfFrame ==
  ASSUME TypeInv, NEW t \in Turns, TextOf(t), FrameStep(t), UNCHANGED <<turn, said>>
  PROVE  TextOf(t)'
<1> DEFINE c == chat[t]
<1>1. /\ chat \in [Turns -> Chat] /\ c \in Chat /\ said[t] \in Seq(Texts)
      /\ EndOf(said[t]) \in Nat /\ c.seen \in Nat
      /\ run \in [Turns -> 0..MaxText] /\ run[t] \in Nat
  BY EndOfIs, MaxTextAssumption DEF TypeInv, ClientTypeOK, Chat
<1>2. At(t, "stream")
  BY DEF TextOf, StreamInv, FrameStep, RequestIsAnswered, TextFrame, EndFrame, RunIsOpen, NoChat
<1>3. Joins(c, EndOf(said[t])) /\ Follows(t)
  BY <1>2 DEF TextOf, StreamInv
<1>4. ASSUME NEW d \in Chat, Joins(d, EndOf(said[t])), chat' = [chat EXCEPT ![t] = d],
             d.seen <= run'[t], t \notin missed' => d.seen = run'[t]
      PROVE  TextOf(t)'
  BY <1>1, <1>2, <1>4 DEF TextOf, StreamInv, Follows, At
<1>5. ASSUME NEW d \in Chat, d.chunks = c.chunks, d.handed = c.handed, d.seen = c.seen,
             d.waiting => c.waiting
      PROVE  Joins(d, EndOf(said[t]))
  <2>1. d.waiting => ~HasChunk(d)
    BY <1>3, <1>5 DEF Joins, HasChunk
  <2>2. QED
    BY <1>1, <1>3, <1>5, <2>1, JoinsAnew
<1>6. CASE RequestIsAnswered(t)
  <2>1. PICK state \in {"answered", "failed"} :
          chat' = [chat EXCEPT ![t] = [chat[t] EXCEPT !.state = state]]
    BY <1>6 DEF RequestIsAnswered
  <2> DEFINE d == [chat[t] EXCEPT !.state = state]
  <2>2. /\ d \in Chat /\ d.chunks = c.chunks /\ d.handed = c.handed /\ d.seen = c.seen
        /\ d.waiting = c.waiting
    BY <1>1 DEF Chat
  <2> HIDE DEF d
  <2>3. Joins(d, EndOf(said[t]))
    BY <1>5, <2>2
  <2>4. run' = run /\ missed' = missed
    BY <1>6 DEF RequestIsAnswered
  <2>5. QED
    BY <1>3, <1>4, <2>1, <2>2, <2>3, <2>4 DEF d, Follows
<1>7. CASE TextFrame(t)
  <2>1. PICK n \in (run[t] + 1)..MaxText :
          /\ run' = [run EXCEPT ![t] = n]
          /\ \/ chat' = [chat EXCEPT ![t] = TakeText(chat[t], n)] /\ UNCHANGED missed
             \/ UNCHANGED chat /\ missed' = missed \cup {t}
    BY <1>7 DEF TextFrame
  <2>2. n \in 0..MaxText /\ n \in Nat /\ n > run[t] /\ run'[t] = n /\ n > c.seen
    BY <1>1, <1>3, <2>1, MaxTextAssumption DEF Follows
  <2>3. CASE chat' = [chat EXCEPT ![t] = TakeText(c, n)]
    <3>1. TakeText(c, n) \in Chat
      BY <1>1, <2>2, TextServes
    <3>2. Joins(TakeText(c, n), EndOf(said[t])) /\ TakeText(c, n).seen = n
      BY <1>1, <1>3, <2>2, JoinsMore
    <3> DEFINE d == TakeText(c, n)
    <3>3. d \in Chat /\ Joins(d, EndOf(said[t])) /\ chat' = [chat EXCEPT ![t] = d]
      BY <2>3, <3>1, <3>2
    <3>4. d.seen <= run'[t] /\ d.seen = run'[t]
      BY <2>2, <3>2
    <3> HIDE DEF d
    <3>5. QED
      BY <1>4, <3>3, <3>4
  <2>4. CASE UNCHANGED chat /\ missed' = missed \cup {t}
    <3>1. c.seen <= n
      BY <1>1, <2>2
    <3>2. QED
      BY <1>2, <1>3, <2>2, <2>4, <3>1 DEF TextOf, StreamInv, Follows, At
  <2>5. QED
    BY <2>1, <2>3, <2>4
<1>8. CASE EndFrame(t)
  <2>1. run' = run
    BY <1>8 DEF EndFrame
  <2>2. ASSUME NEW state \in {"final", "failed"}, UNCHANGED missed,
               chat' = [chat EXCEPT ![t] = [EndChat(chat[t], state) EXCEPT !.over = TRUE]]
        PROVE  TextOf(t)'
    <3> DEFINE e == EndChat(c, state)
               d == [e EXCEPT !.over = TRUE]
    <3>1. /\ e \in Chat /\ e.chunks = c.chunks /\ e.handed = c.handed /\ e.seen = c.seen
          /\ e.waiting = FALSE
      BY <1>1 DEF Chat, EndChat
    <3> HIDE DEF e
    <3>2. /\ d \in Chat /\ d.chunks = c.chunks /\ d.handed = c.handed /\ d.seen = c.seen
          /\ d.waiting = FALSE
      BY <3>1 DEF Chat
    <3> HIDE DEF d
    <3>3. Joins(d, EndOf(said[t]))
      BY <1>5, <3>2
    <3>4. chat' = [chat EXCEPT ![t] = d]
      BY <2>2 DEF d, e
    <3>5. d.seen <= run'[t] /\ (t \notin missed' => d.seen = run'[t])
      BY <1>3, <2>1, <2>2, <3>2 DEF Follows
    <3>6. QED
      BY <1>4, <3>2, <3>3, <3>4, <3>5
  <2>3. CASE chat' = [chat EXCEPT ![t].over = TRUE] /\ missed' = missed \cup {t}
    <3> DEFINE d == [c EXCEPT !.over = TRUE]
    <3>1. /\ d \in Chat /\ d.chunks = c.chunks /\ d.handed = c.handed /\ d.seen = c.seen
          /\ d.waiting = c.waiting
      BY <1>1 DEF Chat
    <3>2. chat' = [chat EXCEPT ![t] = d]
      BY <2>3
    <3> HIDE DEF d
    <3>3. Joins(d, EndOf(said[t]))
      BY <1>5, <3>1
    <3>4. QED
      BY <1>3, <1>4, <2>1, <2>3, <3>1, <3>2, <3>3 DEF Follows
  <2>4. QED
    BY <1>8, <2>2, <2>3 DEF EndFrame
<1>9. QED
  BY <1>6, <1>7, <1>8 DEF FrameStep

LEMMA TextStep == TypeInv /\ TextInv /\ [Next]_vars => TextInv'
<1> SUFFICES ASSUME TypeInv, TextInv, [Next]_vars, NEW u \in Turns
             PROVE  TextOf(u)'
  BY DEF TextInv
<1>1. TextOf(u) /\ turn \in [Turns -> Turn] /\ said \in [Turns -> Seq(Texts)]
  BY DEF TextInv, TypeInv, CountInv
<1>2. ASSUME NEW t \in Turns, NEW a \in Arrivals, Accept(t, a[1], a[2])
      PROVE  TextOf(u)'
  <2>1. said' = said /\ UNCHANGED clientVars
    BY <1>2 DEF Accept
  <2>2. CASE u = t
    <3>1. turn[t].pc = "idle"
      BY <1>2 DEF Accept, At
    <3>2. turn'[t].pc = "decide"
      BY <1>1, <1>2 DEF Accept, Turn
    <3>3. QED
      BY <1>1, <2>1, <2>2, <3>1, <3>2, TextOfPlain DEF BeforeTheRun
  <2>3. CASE u # t
    <3>1. turn'[u] = turn[u]
      BY <1>1, <1>2, <2>3 DEF Accept
    <3>2. QED
      BY <1>1, <2>1, <3>1, TextRests DEF clientVars
  <2>4. QED
    BY <2>2, <2>3
<1>3. ASSUME NEW t \in Turns, MiddleStep(t)
      PROVE  TextOf(u)'
  <2>1. CASE u = t
    BY <1>1, <1>3, <2>1, TextOfMiddle
  <2>2. CASE u # t
    BY <1>1, <1>3, <2>2, MiddleElsewhere, TextRests DEF Elsewhere
  <2>3. QED
    BY <2>1, <2>2
<1>4. ASSUME NEW t \in Turns, Finally(t)
      PROVE  TextOf(u)'
  <2>1. UNCHANGED clientVars /\ turn[t].pc = "finally"
    BY <1>4 DEF Finally, At
  <2>2. CASE u = t
    <3>1. said'[t] = <<>> /\ turn'[t].pc = "over"
      BY <1>1, <1>4 DEF Finally, NewTurn
    <3>2. InOrder(said'[t])
      BY <3>1 DEF InOrder
    <3>3. QED
      BY <1>1, <2>1, <2>2, <3>1, <3>2 DEF TextOf, StreamInv, At, clientVars
  <2>3. CASE u # t
    <3>1. turn'[u] = turn[u] /\ said'[u] = said[u]
      BY <1>1, <1>4, <2>3 DEF Finally
    <3>2. QED
      BY <1>1, <2>1, <3>1, TextRests DEF clientVars
  <2>4. QED
    BY <2>2, <2>3
<1>5. ASSUME NEW t \in Turns, Activate(t) \/ Await(t) \/ FrameStep(t), UNCHANGED turnVars
      PROVE  TextOf(u)'
  <2>1. CASE u = t
    BY <1>1, <1>5, <2>1, TextOfGenerator, TextOfFrame DEF turnVars
  <2>2. CASE u # t
    BY <1>1, <1>5, <2>2, GeneratorServes, FrameServes, ServesElsewhere, TextRests DEF turnVars
  <2>3. QED
    BY <2>1, <2>2
<1>6. CASE (ConnectionStep \/ GatewayDies) /\ UNCHANGED turnVars
  BY <1>1, <1>6, TextRests
     DEF ConnectionStep, HelloOk, ConnectFails, Reconnect, GatewayDies, turnVars
<1>7. CASE UNCHANGED vars
  BY <1>1, <1>7, TextRests DEF vars, turnVars, clientVars
<1>8. QED
  BY <1>2, <1>3, <1>4, <1>5, <1>6, <1>7, StepKinds

LEMMA TextInvariance == Spec => [](TypeInv /\ TextInv)
<1>1. Init => TextInv
  <2> SUFFICES ASSUME Init, NEW t \in Turns
               PROVE  TextOf(t)
    BY DEF TextInv
  <2>1. turn[t].pc = "idle" /\ said[t] = <<>> /\ chat[t] = NoChat /\ run[t] = 0 /\ missed = {}
    BY DEF Init, ClientInit, NewTurn
  <2>2. InOrder(<<>>)
    BY DEF InOrder
  <2>3. QED
    BY <2>1, <2>2 DEF TextOf, StreamInv, At
<1>2. QED
  BY <1>1, TypeInit, TypeStep, TextStep, PTL DEF Spec

\* The bridge reads the text of a run in order, without a gap or a repetition, for any
\* interleaving of the gateway's frames with the steps of the generator, however many runs
\* the client (openclaw-client.ts) serves at once: what it hands over, what it queues and
\* lastTextLength always join up.
THEOREM TextComesInOrder == Spec => []TextInOrder
<1>1. TextInv => TextInOrder
  BY DEF TextInv, TextOf, InOrder, TextInOrder
<1>2. QED
  BY <1>1, TextInvariance, PTL

\* A generator that ends well has yielded all that the gateway has sent, unless a frame
\* came before the run was in activeRuns.
THEOREM RunsAreReadWhole == Spec => []RunIsReadWhole
<1>1. TypeInv /\ TextInv => RunIsReadWhole
  <2> SUFFICES ASSUME TypeInv, TextInv, NEW t \in Turns,
                      At(t, "stream"), Drained(t, "final"), t \notin missed
               PROVE  ReadTo(t) = run[t]
    BY DEF RunIsReadWhole
  <2>1. /\ chat[t] \in Chat /\ said[t] \in Seq(Texts) /\ EndOf(said[t]) \in Nat
    BY EndOfIs, MaxTextAssumption DEF TypeInv, ClientTypeOK
  <2>2. Joins(chat[t], EndOf(said[t])) /\ Follows(t) /\ ~HasChunk(chat[t])
    BY DEF TextInv, TextOf, StreamInv, Drained
  <2>3. chat[t].seen = EndOf(said[t])
    BY <2>1, <2>2, JoinsAtTheEnd
  <2>4. QED
    BY <2>2, <2>3 DEF Follows, ReadTo, EndOf
<1>2. QED
  BY <1>1, TextInvariance, PTL

-----------------------------------------------------------------------------
(* What the users get *)

EndOfStream == Frame("end", Nothing)
ErrorFrame == Frame("error", Nothing)

\* Nothing waits but in a chat that is posted to.
QuietInv == \A c \in Connections : c \notin Telegram \/ c \in gone => buffers[c] = <<>>

\* Turns that are not alone in their chat are noted.
CrossedInv ==
  \A t, u \in Turns :
    /\ t # u /\ Active(t) /\ Active(u)
    /\ turn[t].connection = turn[u].connection /\ turn[t].connection \in Telegram
    => t \in crossed

\* A turn that finds its chat empty and has it for itself.
Lone(t) == t \notin crossed /\ ~turn[t].inherits

\* Nothing has been closed yet: what a lone turn said waits, or has been shown.
StillOpen(t) ==
  IF turn[t].connection \in Telegram
  THEN shown[t] = <<>> /\ buffers[turn[t].connection] = said[t]
  ELSE shown[t] = said[t]

OpenPcs == OnItsWay \ {"save", "finally"}

Open(t) == shown[t] \in Seq(Texts) /\ (Lone(t) => StillOpen(t))

ClosedBy(t, frame) == \E s \in Seq(Texts) : shown[t] = Append(s, frame)

Ended(t) ==
  /\ ClosedBy(t, EndOfStream)
  /\ Lone(t) => shown[t] = Append(said[t], EndOfStream)

Told(t) ==
  /\ turn[t].pc \in OpenPcs => Open(t)
  /\ At(t, "save") => Ended(t)
  /\ At(t, "finally") =>
       \/ turn[t].result = "done" /\ Ended(t)
       \/ turn[t].result = "failed" /\ ClosedBy(t, ErrorFrame)
       \/ turn[t].result = "failed" /\ Via(t) = "pending" /\ Open(t)

AnswerOf(t) ==
  /\ At(t, "idle") => shown[t] = <<>> /\ said[t] = <<>>
  /\ Active(t) /\ Delivered(t) => Told(t)

\* A turn that has closed its stream, or has tried to, has left nothing in its chat.
HasClosed(t) ==
  \/ At(t, "save")
  \/ At(t, "finally") /\ ~(Via(t) = "pending" /\ turn[t].result = "failed")

LeftOf(t) ==
  /\ HasClosed(t) /\ Via(t) # "response" /\ t \notin crossed
  /\ turn[t].connection \in Telegram \ gone
  => buffers[turn[t].connection] = <<>>

AnswerInv ==
  /\ QuietInv
  /\ CrossedInv
  /\ \A t \in Turns : AnswerOf(t) /\ LeftOf(t)

\* Of a middle step: the turn remains the same one, with the same connection.
LEMMA MiddleStays ==
  ASSUME TypeInv, NEW t \in Turns, MiddleStep(t)
  PROVE  /\ Active(t) /\ turn[t] \in Turn /\ turn[t].connection \in Connections
         /\ turn'[t] \in Turn /\ turn'[t].pc \in OnItsWay /\ Active(t)'
         /\ turn'[t].via = turn[t].via /\ turn'[t].connection = turn[t].connection
         /\ turn'[t].inherits = turn[t].inherits
         /\ \A u \in Turns \ {t} : turn'[u] = turn[u] /\ said'[u] = said[u]
<1>1. Active(t) /\ GoesOn(t) /\ turn \in [Turns -> Turn]
  BY MiddleCounts DEF TypeInv, CountInv
<1>2. PICK r \in Turn : /\ r.pc \in OnItsWay /\ r.via = Via(t)
                        /\ r.connection = turn[t].connection
                        /\ r.inherits = turn[t].inherits
                        /\ turn' = [turn EXCEPT ![t] = r]
  BY <1>1 DEF GoesOn
<1>3. turn'[t] = r
  BY <1>1, <1>2
<1>4. Active(t)'
  BY <1>2, <1>3 DEF Active, OnItsWay
<1>5. turn[t].connection \in Connections
  BY <1>1 DEF Turn
<1>6. QED
  BY <1>1, <1>2, <1>3, <1>4, <1>5, MiddleElsewhere DEF Elsewhere, Via

\* What its send, if it sends, does to the rest.
LEMMA MiddleSends ==
  ASSUME TypeInv, NEW t \in Turns, MiddleStep(t), NEW c, c = turn[t].connection
  PROVE  /\ \A u \in Turns \ {t} : shown'[u] = shown[u]
         /\ \A d \in Connections \ {c} : buffers'[d] = buffers[d]
         /\ c \notin Telegram \/ c \in gone => buffers' = buffers
         /\ gone' \in {gone, gone \cup {c}} /\ (c \in Telegram => gone' = gone)
         /\ gone \subseteq gone' /\ faulted \subseteq faulted'
<1>1. SenderOK /\ c \in Connections
  BY MiddleStays DEF TypeInv
<1>2. UNCHANGED senderVars \/ \E f \in Frames : SendWorks(c, t, f) \/ SendThrows(c, t, f)
  BY MiddleShape DEF SendsOrNot
<1>3. CASE UNCHANGED senderVars
  BY <1>3 DEF senderVars
<1>4. CASE \E f \in Frames : SendWorks(c, t, f) \/ SendThrows(c, t, f)
  BY <1>1, <1>4, SendOthers, SendKeeps
<1>5. QED
  BY <1>2, <1>3, <1>4

LEMMA QuietMiddle ==
  ASSUME TypeInv, QuietInv, NEW t \in Turns, MiddleStep(t)
  PROVE  QuietInv'
<1> DEFINE c == turn[t].connection
<1>1. /\ \A d \in Connections \ {c} : buffers'[d] = buffers[d]
      /\ c \notin Telegram \/ c \in gone => buffers' = buffers
      /\ gone' \in {gone, gone \cup {c}} /\ (c \in Telegram => gone' = gone)
  BY MiddleSends
<1> HIDE DEF c
<1>2. QED
  BY <1>1 DEF QuietInv

LEMMA CrossedMiddle ==
  ASSUME TypeInv, CrossedInv, NEW t \in Turns, MiddleStep(t)
  PROVE  CrossedInv'
<1>1. /\ \A u \in Turns : (Active(u)' <=> Active(u)) /\ turn'[u].connection = turn[u].connection
      /\ crossed' = crossed
  BY MiddleStays, MiddleShape DEF Active
<1>2. QED
  BY <1>1 DEF CrossedInv

\* A turn whose own state is left alone, and whose chat is, if it has it for itself.
LEMMA AnswerRests ==
  ASSUME NEW u \in Turns, AnswerOf(u), LeftOf(u),
         turn'[u] = turn[u], said'[u] = said[u], shown'[u] = shown[u],
         \/ ~Active(u) \/ u \in crossed'
         \/ buffers'[turn[u].connection] = buffers[turn[u].connection],
         gone \subseteq gone', u \in faulted => u \in faulted', u \in crossed => u \in crossed'
  PROVE  AnswerOf(u)' /\ LeftOf(u)'
<1>1. (At(u, "idle") => shown[u] = <<>> /\ said[u] = <<>>)'
  BY DEF AnswerOf, At
<1>2. ASSUME Active(u)', Delivered(u)'
      PROVE  Told(u)'
  <2>1. Active(u) /\ Delivered(u) /\ Told(u)
    BY <1>2 DEF Active, Delivered, Via, AnswerOf
  <2>2. Lone(u)' => Lone(u) /\ (StillOpen(u) => StillOpen(u)')
    BY <2>1 DEF Lone, StillOpen
  <2>3. (Open(u) => Open(u)') /\ (Ended(u) => Ended(u)')
        /\ (ClosedBy(u, ErrorFrame) => ClosedBy(u, ErrorFrame)')
    BY <2>2 DEF Open, Ended, ClosedBy, EndOfStream, ErrorFrame, Frame
  <2>4. QED
    BY <2>1, <2>3 DEF Told, At, Via
<1>3. LeftOf(u)'
  BY DEF LeftOf, HasClosed, At, Via, Active
<1>4. QED
  BY <1>1, <1>2, <1>3 DEF AnswerOf

\* The others' answers: whoever shares a turn's chat crosses it.
LEMMA AnswerOthers ==
  ASSUME TypeInv, CrossedInv, NEW t \in Turns, MiddleStep(t),
         NEW u \in Turns \ {t}, AnswerOf(u), LeftOf(u)
  PROVE  AnswerOf(u)' /\ LeftOf(u)'
<1> DEFINE c == turn[t].connection
           d == turn[u].connection
<1>1. Active(t) /\ turn[u] \in Turn /\ d \in Connections
  BY MiddleStays DEF TypeInv, CountInv, Turn
<1>2. turn'[u] = turn[u] /\ said'[u] = said[u] /\ crossed' = crossed
  BY MiddleStays, MiddleShape
<1>3. /\ shown'[u] = shown[u] /\ gone \subseteq gone' /\ faulted \subseteq faulted'
      /\ d # c => buffers'[d] = buffers[d]
      /\ c \notin Telegram => buffers' = buffers
  BY <1>1, MiddleSends
<1>4. ~Active(u) \/ u \in crossed' \/ buffers'[d] = buffers[d]
  BY <1>1, <1>2, <1>3 DEF CrossedInv
<1>5. QED
  BY <1>2, <1>3, <1>4, AnswerRests

-----------------------------------------------------------------------------
(* A turn's own answer *)

\* A step in which nothing is sent, or in which a text is said that is sent.
LEMMA TellsNothing ==
  ASSUME TypeInv, NEW t \in Turns, MiddleStep(t), Open(t), UNCHANGED senderVars, said'[t] = said[t]
  PROVE  Open(t)'
<1>1. turn'[t].connection = turn[t].connection /\ (Lone(t)' => Lone(t))
  BY MiddleStays, MiddleShape DEF Lone
<1>2. QED
  BY <1>1 DEF Open, StillOpen, senderVars

LEMMA TellsMore ==
  ASSUME TypeInv, NEW t \in Turns, MiddleStep(t), Open(t),
         NEW f \in Texts, said'[t] = Append(said[t], f),
         SendWorks(turn[t].connection, t, f), t \notin faulted', turn[t].connection \notin gone'
  PROVE  Open(t)'
<1> DEFINE c == turn[t].connection
<1>1. /\ SenderOK /\ f \in Frames /\ f.of \notin Closings /\ c \in Connections
      /\ turn'[t].connection = c /\ (Lone(t)' => Lone(t))
  BY FramesAre, MiddleStays, MiddleShape DEF TypeInv, Lone
<1>2. CASE c \in Telegram
  <2>1. shown'[t] = shown[t] /\ buffers'[c] = Append(buffers[c], f)
    BY <1>1, <1>2, SendOwn
  <2>2. QED
    BY <1>1, <1>2, <2>1 DEF Open, StillOpen
<1>3. CASE c \notin Telegram
  <2>1. shown'[t] = Append(shown[t], f) /\ shown[t] \in Seq(Texts)
    BY <1>1, <1>3, SendOwn DEF Open
  <2>2. shown'[t] \in Seq(Texts)
    BY <2>1
  <2>3. Lone(t)' => StillOpen(t)'
    BY <1>1, <1>3, <2>1 DEF Open, StillOpen
  <2>4. QED
    BY <2>2, <2>3 DEF Open
<1>4. QED
  BY <1>2, <1>3

LEMMA AppendsLast ==
  ASSUME NEW S, NEW r \in Seq(S), NEW s \in Seq(S), NEW x \in S
  PROVE  r \o Append(s, x) = Append(r \o s, x)
OBVIOUS

\* The end, or the error.
LEMMA TellsTheEnd ==
  ASSUME TypeInv, NEW t \in Turns, MiddleStep(t), Open(t), said'[t] = said[t],
         SendWorks(turn[t].connection, t, EndOfStream),
         t \notin faulted', turn[t].connection \notin gone'
  PROVE  Ended(t)'
<1> DEFINE c == turn[t].connection
<1>1. /\ SenderOK /\ EndOfStream \in Frames /\ EndOfStream.of = "end" /\ c \in Connections
      /\ Lone(t)' => Lone(t)
      /\ said[t] \in Seq(Texts) /\ shown[t] \in Seq(Texts) /\ buffers[c] \in Seq(Texts)
      /\ EndOfStream' = EndOfStream
  BY FramesAre, MiddleStays, MiddleShape, SenderShape
     DEF TypeInv, EndOfStream, Closings, Lone, Open
<1>2. CASE c \in Telegram
  <2> DEFINE all == shown[t] \o buffers[c]
  <2>1. shown'[t] = shown[t] \o Append(buffers[c], EndOfStream)
    BY <1>1, <1>2, SendOwn
  <2>2. all \in Seq(Texts)
    BY <1>1
  <2>3. shown[t] \o Append(buffers[c], EndOfStream) = Append(all, EndOfStream)
    <3>1. shown[t] \in Seq(Frames) /\ buffers[c] \in Seq(Frames) /\ EndOfStream \in Frames
      BY <1>1, TextsAreFrames
    <3>2. ASSUME NEW r \in Seq(Frames), NEW s \in Seq(Frames), NEW x \in Frames
          PROVE  r \o Append(s, x) = Append(r \o s, x)
      BY AppendsLast
    <3> DEFINE r == shown[t]
               s == buffers[c]
    <3>3. r \in Seq(Frames) /\ s \in Seq(Frames)
      BY <3>1
    <3> HIDE DEF r, s
    <3>4. r \o Append(s, EndOfStream) = Append(r \o s, EndOfStream)
      BY <3>1, <3>2, <3>3
    <3>5. QED
      BY <3>4 DEF r, s
  <2>4. Lone(t) => all = said[t]
    <3>1. <<>> \o said[t] = said[t]
      BY <1>1
    <3>2. QED
      BY <1>2, <3>1 DEF Open, StillOpen
  <2> HIDE DEF all
  <2>5. QED
    BY <1>1, <2>1, <2>2, <2>3, <2>4 DEF Ended, ClosedBy
<1>3. CASE c \notin Telegram
  <2>1. shown'[t] = Append(shown[t], EndOfStream)
    BY <1>1, <1>3, SendOwn
  <2>2. QED
    BY <1>1, <1>3, <2>1 DEF Open, StillOpen, Ended, ClosedBy
<1>4. QED
  BY <1>2, <1>3

LEMMA TellsTheError ==
  ASSUME TypeInv, NEW t \in Turns, Open(t),
         turn[t].connection \in Connections,
         SendWorks(turn[t].connection, t, ErrorFrame),
         t \notin faulted', turn[t].connection \notin gone'
  PROVE  ClosedBy(t, ErrorFrame)'
<1>1. SenderOK /\ ErrorFrame \in Frames /\ ErrorFrame.of = "error"
  BY FramesAre DEF TypeInv, ErrorFrame, Closings
<1>2. shown'[t] = Append(shown[t], ErrorFrame)
  BY <1>1, SendOwn
<1>3. ErrorFrame' = ErrorFrame
  BY DEF ErrorFrame
<1>4. QED
  BY <1>2, <1>3 DEF Open, ClosedBy

\* An exception before anything is closed.
LEMMA TellsThrow ==
  ASSUME TypeInv, NEW t \in Turns, MiddleStep(t), Open(t), UNCHANGED senderVars,
         said'[t] = said[t], Throw(t), turn[t].pc \notin {"early", "earlyEnd"}
  PROVE  Told(t)'
<1>1. Open(t)' /\ turn'[t].via = turn[t].via
  BY TellsNothing, MiddleStays
<1>2. \/ turn'[t].pc \in {"rescue", "report"}
      \/ turn'[t].pc = "finally" /\ turn'[t].result = "failed" /\ turn'[t].via = "pending"
  BY <1>1, ThrowsTo DEF TypeInv, Via
<1>3. QED
  BY <1>1, <1>2 DEF Told, At, Via

\* What holds of a turn that takes a step and whose deliveries have still not failed.
LEMMA DeliveredMeans ==
  ASSUME TypeInv, NEW t \in Turns, AnswerOf(t), MiddleStep(t), Delivered(t)'
  PROVE  /\ turn[t].connection \in Connections
         /\ Via(t) # "response" /\ turn'[t].via = turn[t].via
         /\ t \notin faulted' /\ turn[t].connection \notin gone'
         /\ Told(t)
<1>1. /\ turn[t].connection \in Connections /\ turn'[t].connection = turn[t].connection
      /\ turn'[t].via = turn[t].via /\ Active(t)
      /\ gone \subseteq gone' /\ faulted \subseteq faulted'
  BY MiddleStays, MiddleSends
<1>2. Delivered(t)
  BY <1>1 DEF Delivered, Via
<1>3. QED
  BY <1>1, <1>2 DEF AnswerOf, Delivered, Via

LEMMA OpenPcsAre ==
  OpenPcs = {"decide", "early", "earlyEnd", "tool", "openclaw", "stream", "weak", "primary",
             "canned", "end", "rescue", "rescueEnd", "report"}
BY DEF OpenPcs, OnItsWay, Pcs

\* A text that is said and sent.
LEMMA TellsSend ==
  ASSUME TypeInv, NEW t \in Turns, AnswerOf(t), MiddleStep(t), Delivered(t)',
         turn[t].pc \in OpenPcs, NEW of \in Sources, NEW text \in Chunk, NEW pc \in OpenPcs,
         Say(t, of, text), Send(t, of, text, pc)
  PROVE  Told(t)'
<1> DEFINE f == Frame(of, text)
<1>1. f \in Texts /\ f \in Frames /\ said'[t] = Append(said[t], f)
  BY FramesAre, SaysAs
<1>2. Open(t) /\ TypeInv /\ CountInv /\ SenderOK
  BY DeliveredMeans DEF Told, TypeInv
<1>3. SendWorks(turn[t].connection, t, f) /\ Goto(t, pc)
  BY <1>1, <1>2, DeliveredMeans, SendFaults DEF Send
<1> HIDE DEF f
<1>4. Open(t)'
  BY <1>1, <1>2, <1>3, DeliveredMeans, TellsMore
<1>5. turn'[t].pc = pc
  BY <1>2, <1>3, GoesTo
<1>6. QED
  BY <1>4, <1>5, OpenPcsAre DEF Told, At

LEMMA TellsSendAnswer ==
  ASSUME TypeInv, NEW t \in Turns, AnswerOf(t), MiddleStep(t), Delivered(t)',
         NEW pc \in OpenPcs, NEW of \in Sources, NEW next \in OpenPcs,
         SendAnswer(t, pc, of, next), of # "early" => pc \notin {"early", "earlyEnd"}
  PROVE  Told(t)'
<1>1. turn[t].pc = pc /\ Nothing \in Chunk
  BY FramesAre DEF SendAnswer, At
<1>2. CASE Say(t, of, Nothing) /\ Send(t, of, Nothing, next)
  BY <1>1, <1>2, TellsSend
<1>3. CASE of # "early" /\ Throw(t) /\ UNCHANGED <<senderVars, said>>
  <2>1. Open(t)
    BY <1>1, DeliveredMeans DEF Told
  <2>2. QED
    BY <1>1, <1>3, <2>1, TellsThrow
<1>4. QED
  BY <1>2, <1>3 DEF SendAnswer

\* The last frame of a turn that stores nothing.
LEMMA TellsLast ==
  ASSUME TypeInv, NEW t \in Turns, AnswerOf(t), MiddleStep(t), Delivered(t)',
         turn[t].pc \in OpenPcs, SendLast(t), said' = said
  PROVE  Told(t)'
<1>1. EndOfStream \in Frames /\ EndOfStream = Frame("end", Nothing)
  BY FramesAre DEF EndOfStream, Closings
<1>2. Open(t) /\ CountInv /\ SenderOK
  BY DeliveredMeans DEF Told, TypeInv
<1>3. SendWorks(turn[t].connection, t, EndOfStream) /\ Finish(t, "done")
  BY <1>1, <1>2, DeliveredMeans, SendFaults DEF SendLast
<1>4. Ended(t)'
  BY <1>2, <1>3, DeliveredMeans, TellsTheEnd
<1>5. turn'[t].pc = "finally" /\ turn'[t].result = "done"
  BY <1>2, <1>3, FinishesAs
<1>6. QED
  BY <1>4, <1>5, OpenPcsAre DEF Told, At

LEMMA TellsOwn ==
  ASSUME TypeInv, NEW t \in Turns, AnswerOf(t), MiddleStep(t), Delivered(t)'
  PROVE  Told(t)'
<1>1. /\ CountInv /\ SenderOK /\ {"early", "tool", "direct", "canned", "run"} \subseteq Sources
      /\ Nothing \in Chunk
      /\ Frame("direct", Nothing) \in Texts /\ Frame("direct", Nothing) \in Frames
      /\ EndOfStream \in Frames /\ ErrorFrame \in Frames
  BY FramesAre DEF TypeInv, Sources, Closings, EndOfStream, ErrorFrame
<1>2. /\ turn[t].connection \in Connections
      /\ Via(t) # "response" /\ turn'[t].via = turn[t].via
      /\ t \notin faulted' /\ turn[t].connection \notin gone'
      /\ Told(t)
  BY DeliveredMeans
<1>3. turn[t].pc \in OpenPcs => Open(t)
  BY <1>2 DEF Told
<1>4. ASSUME Open(t)', turn'[t].pc \in OpenPcs
      PROVE  Told(t)'
  BY <1>4, OpenPcsAre DEF Told, At
<1>5. CASE Decide(t)
  <2>1. turn[t].pc = "decide" /\ UNCHANGED senderVars /\ said' = said
    BY <1>5 DEF Decide, At
  <2>2. Open(t)'
    BY <1>2, <1>3, <2>1, OpenPcsAre, TellsNothing
  <2>3. \/ turn'[t].pc \in {"early", "tool", "primary", "openclaw", "rescue", "report"}
        \/ turn'[t].pc = "finally" /\ turn'[t].result = "failed" /\ turn'[t].via = "pending"
    BY <1>1, <1>2, <1>5, DecidesOn DEF Via
  <2>4. QED
    BY <2>2, <2>3, OpenPcsAre DEF Told, At, Via
<1>6. CASE EarlyAnswer(t) \/ ToolAnswer(t) \/ PrimaryAnswer(t) \/ Rescue(t)
  <2>1. \E pc \in OpenPcs, of \in Sources, next \in OpenPcs :
          SendAnswer(t, pc, of, next) /\ (of # "early" => pc \notin {"early", "earlyEnd"})
    BY <1>1, <1>6, OpenPcsAre DEF EarlyAnswer, ToolAnswer, PrimaryAnswer, Rescue
  <2>2. QED
    BY <2>1, TellsSendAnswer
<1>7. CASE EarlyEnd(t) \/ RescueEnd(t)
  BY <1>7, OpenPcsAre, TellsLast DEF EarlyEnd, RescueEnd, At
<1>8. CASE AskOpenClaw(t) \/ StreamEnds(t)
  <2>1. /\ turn[t].pc \in {"openclaw", "stream"} /\ UNCHANGED senderVars /\ said' = said
        /\ \/ Goto(t, "stream") \/ Goto(t, "weak") \/ Goto(t, "canned")
           \/ Throw(t)
    BY <1>8 DEF AskOpenClaw, StreamEnds, At
  <2>2. Open(t) /\ Open(t)'
    BY <1>2, <1>3, <2>1, OpenPcsAre, TellsNothing
  <2>3. CASE Throw(t)
    BY <1>2, <2>1, <2>2, <2>3, TellsThrow
  <2>4. CASE Goto(t, "stream") \/ Goto(t, "weak") \/ Goto(t, "canned")
    BY <1>1, <1>4, <2>2, <2>4, GoesTo, OpenPcsAre
  <2>5. QED
    BY <2>1, <2>3, <2>4
<1>9. CASE StreamChunk(t)
  <2>1. /\ turn[t].pc = "stream" /\ HasChunk(chat[t])
        /\ Say(t, "run", NextChunk(chat[t])) /\ Send(t, "run", NextChunk(chat[t]), "stream")
    BY <1>9 DEF StreamChunk, At
  <2>2. NextChunk(chat[t]) \in Chunk
    BY <2>1, ChunkIsRead
  <2>3. QED
    BY <1>1, <2>1, <2>2, OpenPcsAre, TellsSend
<1>10. CASE WeakAnswer(t)
  <2>1. /\ turn[t].pc = "weak" /\ Goto(t, "canned")
        /\ \/ UNCHANGED <<senderVars, said>>
           \/ /\ Say(t, "direct", Nothing)
              /\ \/ SendWorks(turn[t].connection, t, Frame("direct", Nothing))
                 \/ SendThrows(turn[t].connection, t, Frame("direct", Nothing))
    BY <1>2, <1>10 DEF WeakAnswer, At
  <2>2. turn'[t].pc = "canned" /\ Open(t)
    BY <1>1, <1>3, <2>1, GoesTo, OpenPcsAre
  <2>3. Open(t)'
    <3>1. CASE UNCHANGED <<senderVars, said>>
      BY <1>2, <2>2, <3>1, TellsNothing
    <3>2. CASE Say(t, "direct", Nothing) /\ SendWorks(turn[t].connection, t, Frame("direct", Nothing))
      BY <1>1, <1>2, <2>2, <3>2, SaysAs, TellsMore
    <3>3. ~SendThrows(turn[t].connection, t, Frame("direct", Nothing))
      BY <1>1, <1>2, SendFaults
    <3>4. QED
      BY <2>1, <3>1, <3>2, <3>3
  <2>4. QED
    BY <1>4, <2>2, <2>3, OpenPcsAre
<1>11. CASE CannedAnswer(t)
  <2>1. turn[t].pc = "canned" /\ Open(t)
    BY <1>3, <1>11, OpenPcsAre DEF CannedAnswer, At
  <2>2. CASE Say(t, "canned", Nothing) /\ Send(t, "canned", Nothing, "end")
    BY <1>1, <2>1, <2>2, OpenPcsAre, TellsSend
  <2>3. CASE Goto(t, "end") /\ UNCHANGED <<senderVars, said>>
    <3>1. Open(t)'
      BY <1>2, <2>1, <2>3, TellsNothing
    <3>2. QED
      BY <1>1, <1>4, <2>3, <3>1, GoesTo, OpenPcsAre
  <2>4. QED
    BY <1>11, <2>2, <2>3 DEF CannedAnswer
<1>12. CASE EndStream(t)
  <2>1. turn[t].pc = "end" /\ said' = said /\ Send(t, "end", Nothing, "save")
    BY <1>12 DEF EndStream, At
  <2>2. SendWorks(turn[t].connection, t, EndOfStream) /\ Goto(t, "save")
    BY <1>1, <1>2, <2>1, SendFaults DEF Send, EndOfStream
  <2>3. Ended(t)'
    BY <1>2, <1>3, <2>1, <2>2, OpenPcsAre, TellsTheEnd
  <2>4. turn'[t].pc = "save"
    BY <1>1, <2>2, GoesTo
  <2>5. QED
    BY <2>3, <2>4, OpenPcsAre DEF Told, At
<1>13. CASE Save(t)
  <2>1. turn[t].pc = "save" /\ UNCHANGED <<senderVars, said>>
    BY <1>13 DEF Save, At
  <2>2. Ended(t)
    BY <1>2, <2>1 DEF Told, At
  <2>3. Ended(t)'
    BY <2>1, <2>2, MiddleStays, MiddleShape DEF Ended, ClosedBy, Lone, senderVars, EndOfStream
  <2>4. QED
    BY <1>1, <1>13, <2>3, SavesTo, OpenPcsAre DEF Told, At
<1>14. CASE Report(t)
  <2>1. /\ turn[t].pc = "report" /\ Finish(t, "failed") /\ said' = said
        /\ \/ SendWorks(turn[t].connection, t, ErrorFrame)
           \/ SendThrows(turn[t].connection, t, ErrorFrame)
    BY <1>2, <1>14 DEF Report, At, ErrorFrame
  <2>2. SendWorks(turn[t].connection, t, ErrorFrame)
    BY <1>1, <1>2, <2>1, SendFaults
  <2>3. ClosedBy(t, ErrorFrame)'
    BY <1>2, <1>3, <2>1, <2>2, OpenPcsAre, TellsTheError
  <2>4. turn'[t].pc = "finally" /\ turn'[t].result = "failed"
    BY <1>1, <2>1, FinishesAs
  <2>5. QED
    BY <2>3, <2>4, OpenPcsAre DEF Told, At
<1>15. QED
  BY <1>5, <1>6, <1>7, <1>8, <1>9, <1>10, <1>11, <1>12, <1>13, <1>14 DEF MiddleStep

-----------------------------------------------------------------------------
(* What a turn leaves in its chat *)

\* The steps that may lead to the storing or to the end, and those that do not.
LEMMA EndsBy ==
  ASSUME TypeInv, NEW t \in Turns, MiddleStep(t)
  PROVE  \/ Save(t) \/ EndStream(t) \/ EarlyEnd(t) \/ RescueEnd(t) \/ Report(t) \/ EarlyAnswer(t)
         \/ ~HasClosed(t)' \/ Via(t) = "response"
<1>1. CountInv /\ turn'[t].via = turn[t].via
  BY MiddleStays DEF TypeInv
<1>2. ASSUME turn'[t].pc \notin {"save", "finally"}
      PROVE  ~HasClosed(t)'
  BY <1>2 DEF HasClosed, At
<1>3. ASSUME Throw(t), turn[t].pc \notin {"early", "earlyEnd"}
      PROVE  ~HasClosed(t)'
  <2>1. \/ turn'[t].pc \in {"rescue", "report"}
        \/ turn'[t].pc = "finally" /\ turn'[t].result = "failed" /\ turn'[t].via = "pending"
    BY <1>1, <1>3, ThrowsTo DEF Via
  <2>2. QED
    BY <2>1 DEF HasClosed, At, Via
<1>4. ASSUME NEW pc \in OpenPcs, Goto(t, pc)
      PROVE  ~HasClosed(t)'
  BY <1>1, <1>2, <1>4, GoesTo, OpenPcsAre
<1>5. ASSUME NEW of, NEW text, NEW pc \in OpenPcs, Send(t, of, text, pc),
             turn[t].pc \notin {"early", "earlyEnd"}
      PROVE  ~HasClosed(t)'
  BY <1>3, <1>4, <1>5 DEF Send
<1>6. ASSUME NEW pc, pc \notin {"early", "earlyEnd"}, NEW of, NEW next \in OpenPcs,
             SendAnswer(t, pc, of, next)
      PROVE  ~HasClosed(t)'
  BY <1>3, <1>5, <1>6 DEF SendAnswer, At
<1>7. CASE Decide(t)
  <2>1. \/ turn'[t].pc \in {"early", "tool", "primary", "openclaw", "rescue", "report"}
        \/ /\ turn'[t].pc = "finally"
           /\ Via(t) = "response" \/ (turn'[t].result = "failed" /\ Via(t) = "pending")
    BY <1>1, <1>7, DecidesOn
  <2>2. QED
    BY <1>1, <2>1 DEF HasClosed, At, Via
<1>8. CASE ToolAnswer(t) \/ PrimaryAnswer(t) \/ Rescue(t)
  BY <1>6, <1>8, OpenPcsAre DEF ToolAnswer, PrimaryAnswer, Rescue
<1>9. CASE AskOpenClaw(t) \/ StreamEnds(t) \/ WeakAnswer(t)
  <2>1. /\ turn[t].pc \notin {"early", "earlyEnd"}
        /\ Goto(t, "stream") \/ Goto(t, "weak") \/ Goto(t, "canned") \/ Throw(t)
    BY <1>9 DEF AskOpenClaw, StreamEnds, WeakAnswer, At
  <2>2. QED
    BY <1>3, <1>4, <2>1, OpenPcsAre
<1>10. CASE StreamChunk(t)
  BY <1>5, <1>10, OpenPcsAre DEF StreamChunk, At
<1>11. CASE CannedAnswer(t)
  BY <1>4, <1>5, <1>11, OpenPcsAre DEF CannedAnswer, At
<1>12. QED
  BY <1>7, <1>8, <1>9, <1>10, <1>11 DEF MiddleStep

LEMMA LeftOwn ==
  ASSUME TypeInv, NEW t \in Turns, LeftOf(t), MiddleStep(t)
  PROVE  LeftOf(t)'
<1> DEFINE c == turn[t].connection
<1>1. /\ c \in Connections /\ turn'[t].connection = c /\ turn'[t].via = turn[t].via
      /\ crossed' = crossed /\ SenderOK /\ CountInv
      /\ c \in Telegram => gone' = gone
  BY MiddleStays, MiddleShape, MiddleSends DEF TypeInv
<1> SUFFICES ASSUME HasClosed(t)', Via(t) # "response", t \notin crossed, c \in Telegram \ gone
             PROVE  buffers'[c] = <<>>
  BY <1>1 DEF LeftOf, Via
<1>2. ASSUME NEW f \in Frames, f.of \in Closings, SendWorks(c, t, f) \/ SendThrows(c, t, f)
      PROVE  buffers'[c] = <<>>
  BY <1>1, <1>2, SendEmpties
<1>3. /\ EndOfStream \in Frames /\ EndOfStream.of \in Closings
      /\ ErrorFrame \in Frames /\ ErrorFrame.of \in Closings
      /\ Frame("early", Nothing) \in Frames /\ Frame("early", Nothing).of \notin Closings
  BY FramesAre DEF EndOfStream, ErrorFrame, Closings, Sources
<1>4. CASE Save(t)
  <2>1. turn[t].pc = "save" /\ UNCHANGED senderVars
    BY <1>4 DEF Save, At
  <2>2. buffers[c] = <<>>
    BY <2>1 DEF LeftOf, HasClosed, At, Via
  <2>3. QED
    BY <2>1, <2>2 DEF senderVars
<1>5. CASE EndStream(t)
  BY <1>2, <1>3, <1>5 DEF EndStream, Send, EndOfStream
<1>6. CASE EarlyEnd(t) \/ RescueEnd(t)
  BY <1>2, <1>3, <1>6 DEF EarlyEnd, RescueEnd, SendLast, EndOfStream
<1>7. CASE Report(t)
  BY <1>2, <1>3, <1>7 DEF Report, ErrorFrame
<1>8. CASE EarlyAnswer(t)
  <2>1. Send(t, "early", Nothing, "earlyEnd")
    BY <1>8 DEF EarlyAnswer, SendAnswer
  <2>2. ~SendThrows(c, t, Frame("early", Nothing))
    BY <1>1, <1>3, SendEmpties
  <2>3. Goto(t, "earlyEnd")
    BY <2>1, <2>2 DEF Send
  <2>4. turn'[t].pc = "earlyEnd"
    BY <1>1, <2>3, GoesTo
  <2>5. QED
    BY <2>4 DEF HasClosed, At
<1>9. QED
  BY <1>4, <1>5, <1>6, <1>7, <1>8, EndsBy

-----------------------------------------------------------------------------
(* The answers, step by step *)

LEMMA AnswerMiddle ==
  ASSUME TypeInv, AnswerInv, NEW t \in Turns, MiddleStep(t)
  PROVE  AnswerInv'
<1>1. QuietInv' /\ CrossedInv'
  BY QuietMiddle, CrossedMiddle DEF AnswerInv
<1>2. ASSUME NEW u \in Turns
      PROVE  AnswerOf(u)' /\ LeftOf(u)'
  <2>1. CASE u = t
    <3>1. ~At(t, "idle")'
      BY MiddleStays DEF At, OnItsWay
    <3>2. Delivered(t)' => Told(t)'
      BY TellsOwn DEF AnswerInv
    <3>3. LeftOf(t)'
      BY LeftOwn DEF AnswerInv
    <3>4. QED
      BY <2>1, <3>1, <3>2, <3>3 DEF AnswerOf
  <2>2. CASE u # t
    BY <2>2, AnswerOthers DEF AnswerInv
  <2>3. QED
    BY <2>1, <2>2
<1>3. QED
  BY <1>1, <1>2 DEF AnswerInv

LEMMA AnswerAccepted ==
  ASSUME TypeInv, AnswerInv, NEW t \in Turns, NEW a \in Arrivals, Accept(t, a[1], a[2])
  PROVE  AnswerInv'
<1> DEFINE c == a[2]
           others == {u \in Turns : Active(u) /\ turn[u].connection = c}
<1>1. /\ turn[t].pc = "idle" /\ turn \in [Turns -> Turn] /\ c \in Connections
      /\ UNCHANGED <<senderVars, said>>
      /\ crossed' = IF c \in Telegram /\ others # {} THEN crossed \cup others \cup {t} ELSE crossed
  BY BridgeArrivalsAssumption DEF TypeInv, CountInv, Accept, At
<1>2. /\ turn'[t].pc = "decide" /\ turn'[t].connection = c
      /\ turn'[t].inherits = (buffers[c] # <<>>)
  BY <1>1 DEF Accept, Turn
<1>3. \A u \in Turns \ {t} : turn'[u] = turn[u]
  BY <1>1 DEF Accept
<1>4. Active(t)' /\ ~Active(t)
  BY <1>1, <1>2 DEF Active
<1>5. QuietInv'
  BY <1>1 DEF AnswerInv, QuietInv, senderVars
<1>6. CrossedInv'
  <2> SUFFICES ASSUME NEW u \in Turns, NEW v \in Turns, u # v, Active(u)', Active(v)',
                      turn'[u].connection = turn'[v].connection, turn'[u].connection \in Telegram
               PROVE  u \in crossed'
    BY DEF CrossedInv
  <2>1. CASE u # t /\ v # t
    BY <1>1, <1>3, <2>1 DEF AnswerInv, CrossedInv, Active
  <2>2. CASE u = t
    <3>1. v \in others
      BY <1>2, <1>3, <2>2 DEF Active
    <3>2. QED
      BY <1>1, <1>2, <2>2, <3>1
  <2>3. CASE v = t
    <3>1. u \in others
      BY <1>2, <1>3, <2>3 DEF Active
    <3>2. QED
      BY <1>1, <1>2, <2>3, <3>1
  <2>4. QED
    BY <2>1, <2>2, <2>3
<1>7. ASSUME NEW u \in Turns
      PROVE  AnswerOf(u)' /\ LeftOf(u)'
  <2>1. CASE u = t
    <3>1. shown[t] = <<>> /\ said[t] = <<>> /\ <<>> \in Seq(Texts)
      BY <1>1 DEF AnswerInv, AnswerOf, At
    <3>2. Lone(t)' => StillOpen(t)'
      BY <1>1, <1>2, <3>1 DEF StillOpen, Lone, senderVars
    <3>3. Open(t)'
      BY <1>1, <3>1, <3>2 DEF Open, senderVars
    <3>4. QED
      BY <1>2, <2>1, <3>3 DEF AnswerOf, Told, At, LeftOf, HasClosed
  <2>2. CASE u # t
    BY <1>1, <1>3, <2>2, AnswerRests DEF AnswerInv, senderVars
  <2>3. QED
    BY <2>1, <2>2
<1>8. QED
  BY <1>5, <1>6, <1>7 DEF AnswerInv

LEMMA AnswerForgotten ==
  ASSUME TypeInv, AnswerInv, NEW t \in Turns, Finally(t)
  PROVE  AnswerInv'
<1>1. /\ turn \in [Turns -> Turn] /\ shown \in Batches /\ said \in [Turns -> Seq(Texts)]
      /\ buffers' = buffers /\ gone' = gone /\ faulted' = faulted \ {t} /\ crossed' = crossed \ {t}
      /\ shown' = [shown EXCEPT ![t] = <<>>]
  BY SenderShape DEF TypeInv, CountInv, Finally, Forget
<1>2. turn'[t].pc = "over"
  BY <1>1 DEF Finally, NewTurn
<1>3. \A u \in Turns \ {t} :
        turn'[u] = turn[u] /\ said'[u] = said[u] /\ shown'[u] = shown[u]
  BY <1>1 DEF Finally, Batches
<1>4. QuietInv'
  BY <1>1 DEF AnswerInv, QuietInv
<1>5. CrossedInv'
  <2> SUFFICES ASSUME NEW u \in Turns, NEW v \in Turns, u # v, Active(u)', Active(v)',
                      turn'[u].connection = turn'[v].connection, turn'[u].connection \in Telegram
               PROVE  u \in crossed'
    BY DEF CrossedInv
  <2>1. u # t /\ v # t
    BY <1>2 DEF Active
  <2>2. QED
    BY <1>1, <1>3, <2>1 DEF AnswerInv, CrossedInv, Active
<1>6. ASSUME NEW u \in Turns
      PROVE  AnswerOf(u)' /\ LeftOf(u)'
  <2>1. CASE u = t
    BY <1>2, <2>1 DEF AnswerOf, At, Active, LeftOf, HasClosed
  <2>2. CASE u # t
    BY <1>1, <1>3, <2>2, AnswerRests DEF AnswerInv
  <2>3. QED
    BY <2>1, <2>2
<1>7. QED
  BY <1>4, <1>5, <1>6 DEF AnswerInv

LEMMA AnswerUntouched ==
  ASSUME AnswerInv, UNCHANGED <<senderVars, turnVars>>
  PROVE  AnswerInv'
<1>1. \A u \in Turns : AnswerOf(u)' /\ LeftOf(u)'
  BY AnswerRests DEF AnswerInv, senderVars, turnVars
<1>2. QuietInv' /\ CrossedInv'
  BY DEF AnswerInv, QuietInv, CrossedInv, Active, senderVars, turnVars
<1>3. QED
  BY <1>1, <1>2 DEF AnswerInv

LEMMA AnswerStep == TypeInv /\ AnswerInv /\ [Next]_vars => AnswerInv'
<1> SUFFICES ASSUME TypeInv, AnswerInv, [Next]_vars
             PROVE  AnswerInv'
  OBVIOUS
<1>1. CASE UNCHANGED <<senderVars, turnVars>>
  BY <1>1, AnswerUntouched
<1>2. CASE UNCHANGED vars
  BY <1>2, AnswerUntouched DEF vars
<1>3. QED
  BY <1>1, <1>2, StepKinds, AnswerMiddle, AnswerAccepted, AnswerForgotten

LEMMA AnswerInvariance == Spec => [](TypeInv /\ AnswerInv)
<1>1. Init => AnswerInv
  <2> SUFFICES ASSUME Init
               PROVE  AnswerInv
    OBVIOUS
  <2>1. \A t \in Turns : turn[t].pc = "idle" /\ said[t] = <<>> /\ shown[t] = <<>>
    BY DEF Init, SenderInit, NewTurn
  <2>2. \A c \in Connections : buffers[c] = <<>>
    BY DEF Init, SenderInit
  <2>3. QED
    BY <2>1, <2>2
       DEF AnswerInv, QuietInv, CrossedInv, AnswerOf, LeftOf, HasClosed, Active, At
<1>2. QED
  BY <1>1, TypeInit, TypeStep, AnswerStep, PTL DEF Spec

\* A turn that ends well has shown its user what it said, all of it, in that order and
\* once, and then the end of the stream: for any number of turns that share the client and
\* the sender, whose chats have one buffer each (callback-sender.ts), when its deliveries
\* worked, no other turn was in its chat and nothing was waiting there when it came.
THEOREM AnswersAreWhole == Spec => []AnswerIsWhole
<1>1. AnswerInv => AnswerIsWhole
  <2> SUFFICES ASSUME AnswerInv, NEW t \in Turns,
                      At(t, "finally"), Delivered(t), Lone(t), turn[t].result = "done"
               PROVE  shown[t] = Append(said[t], Frame("end", Nothing))
    BY DEF AnswerIsWhole, Lone
  <2>1. Told(t)
    BY DEF AnswerInv, AnswerOf, Active, At
  <2>2. QED
    BY <2>1 DEF Told, Ended, EndOfStream
<1>2. QED
  BY <1>1, AnswerInvariance, PTL

\* And what may be waiting there was left by a pending message that failed (startup.ts), or
\* by turns that were there together: a turn that had its chat for itself empties the
\* buffer, whichever of its sends failed and whichever way it ended.
THEOREM NothingIsLeftOver == Spec => []NothingIsLeft
<1>1. TypeInv /\ AnswerInv => NothingIsLeft
  <2> SUFFICES ASSUME TypeInv, AnswerInv, NEW t \in Turns,
                      At(t, "finally"), Via(t) # "response", t \notin crossed,
                      ~(Via(t) = "pending" /\ turn[t].result = "failed")
               PROVE  buffers[turn[t].connection] = <<>>
    BY DEF NothingIsLeft
  <2>1. turn[t].connection \in Connections /\ HasClosed(t)
    BY DEF TypeInv, CountInv, Turn, HasClosed
  <2>2. QED
    BY <2>1 DEF AnswerInv, QuietInv, LeftOf
<1>2. QED
  BY <1>1, AnswerInvariance, PTL

\* Of a sequence of texts, and of one that a closing frame follows.
LEMMA ClosedNowhere ==
  ASSUME NEW t \in Turns, shown[t] \in Seq(Texts)
  PROVE  Closed(t) = {}
BY FramesAre DEF Closed

LEMMA ClosedAtTheEnd ==
  ASSUME NEW t \in Turns, NEW s \in Seq(Texts), NEW f \in Frames, f.of \in Closings,
         shown[t] = Append(s, f)
  PROVE  shown[t] # <<>> /\ Closed(t) = {Len(shown[t])}
<1> DEFINE m == Len(s)
           now == shown[t]
<1>1. m \in Nat /\ DOMAIN now = 1..(m + 1) /\ Len(now) = m + 1
  OBVIOUS
<1>2. now # <<>> /\ now[m + 1] = f
  OBVIOUS
<1>3. \A i \in 1..m : now[i] = s[i] /\ s[i] \in Texts
  OBVIOUS
<1> HIDE DEF m
<1>4. \A i \in 1..m : now[i].of \notin Closings
  BY <1>3, FramesAre
<1>5. QED
  BY <1>1, <1>2, <1>4 DEF Closed

\* It closes its user's stream once, with the end or with the error, and shows nothing
\* after that, whoever else posts to its chat; only a pending message (startup.ts) that
\* fails leaves it open.
THEOREM StreamsCloseOnce == Spec => []ClosedOnce
<1>1. AnswerInv => ClosedOnce
  <2> SUFFICES ASSUME AnswerInv, NEW t \in Turns, At(t, "finally"), Delivered(t)
               PROVE  \/ shown[t] # <<>> /\ Closed(t) = {Len(shown[t])}
                      \/ Via(t) = "pending" /\ turn[t].result = "failed" /\ Closed(t) = {}
    BY DEF ClosedOnce
  <2>1. /\ EndOfStream \in Frames /\ EndOfStream.of \in Closings
        /\ ErrorFrame \in Frames /\ ErrorFrame.of \in Closings
    BY FramesAre DEF EndOfStream, ErrorFrame, Closings
  <2>2. Told(t)
    BY DEF AnswerInv, AnswerOf, Active, At
  <2>3. \/ ClosedBy(t, EndOfStream) \/ ClosedBy(t, ErrorFrame)
        \/ Via(t) = "pending" /\ turn[t].result = "failed" /\ Open(t)
    BY <2>2 DEF Told, Ended
  <2>4. CASE ClosedBy(t, EndOfStream) \/ ClosedBy(t, ErrorFrame)
    BY <2>1, <2>4, ClosedAtTheEnd DEF ClosedBy
  <2>5. CASE Open(t)
    <3>1. Closed(t) = {}
      BY <2>5, ClosedNowhere DEF Open
    <3>2. QED
      BY <2>3, <2>4, <3>1
  <2>6. QED
    BY <2>3, <2>4, <2>5
<1>2. QED
  BY <1>1, AnswerInvariance, PTL

-----------------------------------------------------------------------------
(* What is stored *)

EndIsShown(t) == \E i \in Closed(t) : shown[t][i].of = "end"

\* A turn stores its messages after it has sent the end of its stream.
StoredOf(t) ==
  /\ At(t, "idle") => ~turn[t].stored
  /\ (At(t, "save") \/ turn[t].stored) /\ Via(t) # "response" /\ turn[t].connection \notin gone
     => EndIsShown(t)

StoredInv == \A t \in Turns : StoredOf(t)

LEMMA EndRemains ==
  ASSUME SenderOK, NEW t \in Turns, NEW more \in Seq(Frames), shown'[t] = shown[t] \o more,
         EndIsShown(t)
  PROVE  EndIsShown(t)'
<1> DEFINE old == shown[t]
           new == shown'[t]
<1>1. old \in Seq(Frames) /\ new = old \o more
  BY SenderShape DEF Batches
<1>2. PICK i \in DOMAIN old : old[i].of = "end"
  BY DEF EndIsShown, Closed
<1> HIDE DEF old, new
<1>3. i \in DOMAIN new /\ new[i] = old[i]
  BY <1>1, <1>2
<1>4. QED
  BY <1>2, <1>3 DEF EndIsShown, Closed, Closings, new

\* Only the end of the stream leads to the storing, and only the storing stores.
LEMMA OnlySaveStores ==
  ASSUME TypeInv, NEW t \in Turns, MiddleStep(t)
  PROVE  \/ Save(t)
         \/ EndStream(t) /\ turn'[t].stored = turn[t].stored
         \/ turn'[t].pc # "save" /\ turn'[t].stored = turn[t].stored
<1>1. CountInv
  BY DEF TypeInv
<1>2. ASSUME NEW of, NEW text, NEW pc, pc # "save", Send(t, of, text, pc)
      PROVE  turn'[t].pc # "save" /\ turn'[t].stored = turn[t].stored
  BY <1>1, <1>2, GoesTo, ThrowsTo DEF Send
<1>3. ASSUME NEW pc, NEW of, NEW next, next # "save", SendAnswer(t, pc, of, next)
      PROVE  turn'[t].pc # "save" /\ turn'[t].stored = turn[t].stored
  BY <1>1, <1>2, <1>3, ThrowsTo DEF SendAnswer
<1>4. CASE Decide(t)
  BY <1>1, <1>4, DecidesOn
<1>5. CASE EarlyAnswer(t) \/ ToolAnswer(t) \/ PrimaryAnswer(t) \/ Rescue(t)
  BY <1>3, <1>5 DEF EarlyAnswer, ToolAnswer, PrimaryAnswer, Rescue
<1>6. CASE EarlyEnd(t) \/ RescueEnd(t)
  BY <1>1, <1>6, FinishesAs, ThrowsTo DEF EarlyEnd, RescueEnd, SendLast
<1>7. CASE AskOpenClaw(t) \/ StreamEnds(t) \/ WeakAnswer(t)
  <2>1. \/ Goto(t, "stream") \/ Goto(t, "weak") \/ Goto(t, "canned") \/ Throw(t)
    BY <1>7 DEF AskOpenClaw, StreamEnds, WeakAnswer
  <2>2. QED
    BY <1>1, <2>1, GoesTo, ThrowsTo
<1>8. CASE StreamChunk(t)
  BY <1>2, <1>8 DEF StreamChunk
<1>9. CASE CannedAnswer(t)
  BY <1>1, <1>2, <1>9, GoesTo DEF CannedAnswer
<1>10. CASE EndStream(t)
  BY <1>1, <1>10, GoesTo, ThrowsTo DEF EndStream, Send
<1>11. CASE Report(t)
  BY <1>1, <1>11, FinishesAs DEF Report
<1>12. QED
  BY <1>4, <1>5, <1>6, <1>7, <1>8, <1>9, <1>10, <1>11 DEF MiddleStep

LEMMA StoredRests ==
  ASSUME TypeInv, NEW u \in Turns, StoredOf(u), turn'[u] = turn[u], gone \subseteq gone',
         \E more \in Seq(Frames) : shown'[u] = shown[u] \o more
  PROVE  StoredOf(u)'
BY EndRemains DEF StoredOf, At, Via, TypeInv

LEMMA StoredMiddle ==
  ASSUME TypeInv, StoredInv, NEW t \in Turns, MiddleStep(t)
  PROVE  StoredInv'
<1>1. /\ SenderOK /\ CountInv /\ turn[t].connection \in Connections
      /\ turn'[t].connection = turn[t].connection /\ turn'[t].via = turn[t].via
      /\ turn'[t].pc \in OnItsWay /\ Active(t)
      /\ \A u \in Turns \ {t} : turn'[u] = turn[u]
  BY MiddleStays DEF TypeInv
<1>2. /\ gone \subseteq gone'
      /\ \A u \in Turns : \E more \in Seq(Frames) : shown'[u] = shown[u] \o more
  <2>1. CASE UNCHANGED senderVars
    <3>1. <<>> \in Seq(Frames) /\ \A u \in Turns : shown[u] \o <<>> = shown[u]
      BY <1>1, SenderShape, Concats DEF Batches
    <3>2. QED
      BY <2>1, <3>1 DEF senderVars
  <2>2. QED
    BY <1>1, <2>1, MiddleShape, SendKeeps DEF SendsOrNot
<1>3. ASSUME EndIsShown(t)
      PROVE  EndIsShown(t)'
  BY <1>1, <1>2, <1>3, EndRemains
<1>4. ASSUME turn[t].pc = "save" \/ turn[t].stored, Via(t) # "response",
             turn[t].connection \notin gone'
      PROVE  EndIsShown(t)'
  BY <1>2, <1>3, <1>4 DEF StoredInv, StoredOf, At
<1>5. ASSUME EndStream(t), turn'[t].pc = "save", Via(t) # "response",
             turn[t].connection \notin gone'
      PROVE  EndIsShown(t)'
  <2> DEFINE f == Frame("end", Nothing)
  <2>1. f \in Frames /\ f.of = "end"
    BY FramesAre DEF Closings
  <2>2. SendWorks(turn[t].connection, t, f)
    BY <1>1, <1>5, ThrowsTo DEF EndStream, Send
  <2> HIDE DEF f
  <2>3. \E i \in DOMAIN shown'[t] : shown'[t][i] = f
    BY <1>1, <1>5, <2>1, <2>2, SendEnds
  <2>4. QED
    BY <2>1, <2>3 DEF EndIsShown, Closed, Closings
<1>6. StoredOf(t)'
  <2>1. turn'[t].pc # "idle"
    BY <1>1 DEF OnItsWay
  <2>2. CASE Save(t)
    <3>1. turn[t].pc = "save"
      BY <2>2 DEF Save, At
    <3>2. QED
      BY <1>1, <1>4, <2>1, <3>1 DEF StoredOf, At, Via
  <2>3. CASE EndStream(t) /\ turn'[t].stored = turn[t].stored
    BY <1>1, <1>4, <1>5, <2>1, <2>3 DEF StoredOf, At, Via
  <2>4. CASE turn'[t].pc # "save" /\ turn'[t].stored = turn[t].stored
    BY <1>1, <1>4, <2>1, <2>4 DEF StoredOf, At, Via
  <2>5. QED
    BY <2>2, <2>3, <2>4, OnlySaveStores
<1>7. ASSUME NEW u \in Turns \ {t}
      PROVE  StoredOf(u)'
  BY <1>1, <1>2, StoredRests DEF StoredInv
<1>8. QED
  BY <1>6, <1>7 DEF StoredInv

LEMMA StoredStep == TypeInv /\ StoredInv /\ [Next]_vars => StoredInv'
<1> SUFFICES ASSUME TypeInv, StoredInv, [Next]_vars
             PROVE  StoredInv'
  OBVIOUS
<1>1. /\ turn \in [Turns -> Turn] /\ shown \in Batches
      /\ <<>> \in Seq(Frames) /\ \A u \in Turns : shown[u] \o <<>> = shown[u]
  BY SenderShape, Concats DEF TypeInv, CountInv, Batches
<1>2. ASSUME NEW t \in Turns, NEW a \in Arrivals, Accept(t, a[1], a[2])
      PROVE  StoredInv'
  <2>1. turn[t].pc = "idle" /\ UNCHANGED senderVars
    BY <1>2 DEF Accept, At
  <2>2. turn'[t].pc = "decide" /\ turn'[t].stored = turn[t].stored /\ ~turn[t].stored
    BY <1>1, <1>2, <2>1 DEF Accept, Turn, StoredInv, StoredOf, At
  <2>3. \A u \in Turns \ {t} : StoredOf(u)'
    BY <1>1, <1>2, <2>1, StoredRests DEF Accept, senderVars, StoredInv
  <2>4. QED
    BY <2>2, <2>3 DEF StoredInv, StoredOf, At
<1>3. ASSUME NEW t \in Turns, Finally(t)
      PROVE  StoredInv'
  <2>1. turn'[t].pc = "over" /\ turn'[t].stored = FALSE
    BY <1>1, <1>3 DEF Finally, NewTurn
  <2>2. \A u \in Turns \ {t} : turn'[u] = turn[u] /\ shown'[u] = shown[u] \o <<>>
    BY <1>1, <1>3 DEF Finally, Forget, Batches
  <2>3. gone \subseteq gone'
    BY <1>3 DEF Finally, Forget
  <2>4. \A u \in Turns \ {t} : StoredOf(u)'
    BY <1>1, <2>2, <2>3, StoredRests DEF StoredInv
  <2>5. QED
    BY <2>1, <2>4 DEF StoredInv, StoredOf, At
<1>4. CASE UNCHANGED <<senderVars, turnVars>>
  BY <1>1, <1>4, StoredRests DEF senderVars, turnVars, StoredInv
<1>5. CASE UNCHANGED vars
  BY <1>1, <1>5, StoredRests DEF vars, senderVars, turnVars, StoredInv
<1>6. QED
  BY <1>2, <1>3, <1>4, <1>5, StepKinds, StoredMiddle

\* The pair of messages that persistMessagePair (bridge.ts) writes for later containers has
\* an answer whose end was sent to the user, whatever else failed on the way, unless the
\* connection had turned out to be closed.
THEOREM StoredAnswersWereSent == Spec => []StoredWasSent
<1>1. Init => StoredInv
  <2> SUFFICES ASSUME Init, NEW t \in Turns
               PROVE  StoredOf(t)
    BY DEF StoredInv
  <2>1. turn[t].pc = "idle" /\ turn[t].stored = FALSE
    BY DEF Init, NewTurn
  <2>2. QED
    BY <2>1 DEF StoredOf, At
<1>2. StoredInv => StoredWasSent
  BY DEF StoredInv, StoredOf, EndIsShown, StoredWasSent
<1>3. QED
  BY <1>1, <1>2, TypeInit, TypeStep, StoredStep, PTL DEF Spec
=============================================================================
