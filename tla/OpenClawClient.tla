---------------------------- MODULE OpenClawClient ----------------------------
(***************************************************************************)
(* packages/container/src/openclaw-client.ts: the WebSocket client of the  *)
(* OpenClaw gateway in the container.  The socket calls the client's       *)
(* handler once for each frame; the generator of a chat, which the bridge  *)
(* drains, resumes some time after the frame that woke it.  The gateway    *)
(* itself is external: it accepts a chat or refuses it, sends its text,    *)
(* each time all of it so far, and ends it, in that order.  A frame exists *)
(* from the moment the client handles it.                                  *)
(***************************************************************************)
EXTENDS Integers, Sequences

CONSTANTS
  Turns,
  MaxText,        \* the longest answer, in tokens
  MaxAttempts     \* 60 in the code

ASSUME MaxTextAssumption == MaxText \in Nat
ASSUME MaxAttemptsAssumption == MaxAttempts \in Nat

VARIABLES
  link,       \* the client's connection to the gateway
  attempts,   \* connectAttempts
  chat,       \* the PendingChat of each turn
  run,        \* the length of the text that the gateway has sent for each
  missed      \* turns with a frame that came before the chat was in activeRuns

clientVars == <<link, attempts, chat, run, missed>>

\* A stretch of the text that extractTextContent finds in the frames of a run: the
\* tokens after the first "from", up to "to".
Chunk == [from: 0..MaxText, to: 0..MaxText]

Nothing == [from |-> 0, to |-> 0]

Chat ==
  [state: {"none", "requested", "answered", "active", "final", "failed"},
   chunks: Seq(Chunk),        \* deltas the generator has not asked for
   waiting: BOOLEAN,          \* chunkResolve is set
   handed: Chunk,             \* the delta it was resolved with
   seen: 0..MaxText,          \* lastTextLength
   over: BOOLEAN]             \* the gateway has ended the run

NoChat == [state |-> "none", chunks |-> <<>>, waiting |-> FALSE, handed |-> Nothing, seen |-> 0,
           over |-> FALSE]

\* What the gateway still has to say about the chat comes while the client is connected.
RunIsOpen(t) == link = "ready" /\ chat[t].state \in {"answered", "active"} /\ ~chat[t].over

-----------------------------------------------------------------------------
(* connect, and scheduleReconnect of a failure that is retried. *)

HelloOk ==
  /\ link = "connecting"
  /\ link' = "ready"
  /\ attempts' = 0
  /\ UNCHANGED <<chat, run, missed>>

ConnectFails ==
  /\ link = "connecting"
  /\ \/ /\ attempts' = attempts + 1
        /\ link' = IF attempts' > MaxAttempts THEN "refused" ELSE "waiting"
     \/ link' = "refused" /\ UNCHANGED attempts      \* a failure not worth a retry
  /\ UNCHANGED <<chat, run, missed>>

Reconnect ==
  /\ link = "waiting"
  /\ link' = "connecting"
  /\ UNCHANGED <<attempts, chat, run, missed>>

\* A close after the handshake is ignored: the chats under way are told nothing.
GatewayDies ==
  /\ link = "ready"
  /\ link' = "lost"
  /\ UNCHANGED <<attempts, chat, run, missed>>

-----------------------------------------------------------------------------
(* The handler of a frame.  It drops the frames of a run it does not know.      *)

RequestIsAnswered(t) ==
  /\ link = "ready"
  /\ chat[t].state = "requested"
  /\ \/ chat' = [chat EXCEPT ![t].state = "answered"]
     \/ chat' = [chat EXCEPT ![t].state = "failed"]      \* an error, or no runId
  /\ UNCHANGED <<link, attempts, run, missed>>

\* Mutant: the length of the text seen is not kept.
TakeTextFromTheStart(c, n) ==
  IF c.waiting THEN [c EXCEPT !.waiting = FALSE, !.handed = [from |-> 0, to |-> n]]
  ELSE [c EXCEPT !.chunks = Append(@, [from |-> 0, to |-> n])]

\* What is new in the text goes to the generator that waits, or to the queue.
TakeText(c, n) ==
  LET delta == [from |-> c.seen, to |-> n]
      seen == [c EXCEPT !.seen = n]
  IN  IF n <= c.seen THEN seen
      ELSE IF c.waiting THEN [seen EXCEPT !.waiting = FALSE, !.handed = delta]
      ELSE [seen EXCEPT !.chunks = Append(@, delta)]

TextFrame(t) ==
  /\ RunIsOpen(t)
  /\ \E n \in (run[t] + 1)..MaxText :
       /\ run' = [run EXCEPT ![t] = n]
       /\ IF chat[t].state = "active"
          THEN chat' = [chat EXCEPT ![t] = TakeText(@, n)] /\ UNCHANGED missed
          ELSE UNCHANGED chat /\ missed' = missed \cup {t}
  /\ UNCHANGED <<link, attempts>>

\* Mutant: an error of the run does not wake the generator.
EndChatIfFinal(c, state) ==
  IF state = "final" THEN [c EXCEPT !.state = state, !.waiting = FALSE] ELSE c

EndChat(c, state) == [c EXCEPT !.state = state, !.waiting = FALSE]

EndFrame(t) ==
  /\ RunIsOpen(t)
  /\ IF chat[t].state = "active"
     THEN /\ \E state \in {"final", "failed"} :
               chat' = [chat EXCEPT ![t] = [EndChat(@, state) EXCEPT !.over = TRUE]]
          /\ UNCHANGED missed
     ELSE /\ chat' = [chat EXCEPT ![t].over = TRUE]
          /\ missed' = missed \cup {t}
  /\ UNCHANGED <<link, attempts, run>>

-----------------------------------------------------------------------------
(* sendMessage, the generator of turn t.  The bridge calls these. *)

Connected == link = "ready"

RequestRun(t) ==
  /\ chat' = [chat EXCEPT ![t].state = "requested"]
  /\ UNCHANGED <<link, attempts, run, missed>>

\* The continuation of the response: the run is in activeRuns from here on.
Activate(t) ==
  /\ chat[t].state = "answered"
  /\ chat' = [chat EXCEPT ![t].state = "active"]
  /\ UNCHANGED <<link, attempts, run, missed>>

\* Mutant: the generator looks at the end before it looks at the queue.
HasChunkBeforeTheEnd(c) == c.handed # Nothing \/ (c.chunks # <<>> /\ c.state = "active")

HasChunk(c) == c.handed # Nothing \/ c.chunks # <<>>

NextChunk(c) == IF c.handed # Nothing THEN c.handed ELSE Head(c.chunks)

WithoutChunk(c) ==
  IF c.handed # Nothing THEN [c EXCEPT !.handed = Nothing] ELSE [c EXCEPT !.chunks = Tail(@)]

TakeChunk(t) ==
  /\ chat' = [chat EXCEPT ![t] = WithoutChunk(@)]
  /\ UNCHANGED <<link, attempts, run, missed>>

\* The generator has nothing to yield and waits for the next delta, or the end.
Await(t) ==
  /\ chat[t].state = "active"
  /\ ~chat[t].waiting
  /\ ~HasChunk(chat[t])
  /\ chat' = [chat EXCEPT ![t].waiting = TRUE]
  /\ UNCHANGED <<link, attempts, run, missed>>

Drained(t, state) == chat[t].state = state /\ ~HasChunk(chat[t])

\* The generator is left: nothing that comes for its run matters any more.
Abandon(t) ==
  /\ chat' = [chat EXCEPT ![t] = NoChat]
  /\ run' = [run EXCEPT ![t] = 0]
  /\ missed' = missed \ {t}
  /\ UNCHANGED <<link, attempts>>

ClientTypeOK ==
  /\ link \in {"connecting", "waiting", "ready", "refused", "lost"}
  /\ attempts \in 0..(MaxAttempts + 1)
  /\ chat \in [Turns -> Chat]
  /\ run \in [Turns -> 0..MaxText]
  /\ missed \subseteq Turns

ClientInit ==
  /\ link = "connecting"
  /\ attempts = 0
  /\ chat = [t \in Turns |-> NoChat]
  /\ run = [t \in Turns |-> 0]
  /\ missed = {}

ConnectionStep == HelloOk \/ ConnectFails \/ Reconnect

FrameStep(t) == RequestIsAnswered(t) \/ TextFrame(t) \/ EndFrame(t)
=============================================================================
