---------------------------- MODULE CallbackSender ----------------------------
(***************************************************************************)
(* packages/container/src/callback-sender.ts.  A web connection gets every *)
(* frame in a call of its own.  A Telegram chat gets nothing until the end *)
(* of the stream: the chunks wait in a buffer, which belongs to the        *)
(* connection and not to the turn, and are then posted as one text.        *)
(*                                                                         *)
(* A frame is a text of some turn, or closes one.  What is posted counts   *)
(* as shown by the turn that posts it, whoever said it.                    *)
(***************************************************************************)
EXTENDS Integers, Sequences

CONSTANTS
  Connections,
  Telegram      \* those that are Telegram chats

ASSUME TelegramAssumption == Telegram \subseteq Connections

VARIABLES
  buffers,    \* telegramBuffers: what waits in each chat
  shown,      \* what each turn has got to its user
  gone,       \* web connections that are closed, and chats nothing can be posted to
  faulted     \* turns with a delivery that has failed, or may be repeated

senderVars == <<buffers, shown, gone, faulted>>

Closings == {"end", "error"}

\* A frame: a text that a source says, or stream_end, or error.
Frame(of, text) == [of |-> of, text |-> text]

Show(t, frames) == shown' = [shown EXCEPT ![t] = @ \o frames]

\* PostToConnection.  A closed connection is no error.
WebWorks(c, t, frame) ==
  /\ \/ Show(t, <<frame>>) /\ UNCHANGED gone
     \/ gone' = gone \cup {c} /\ UNCHANGED shown
  /\ UNCHANGED <<buffers, faulted>>

WebThrows(c, t, frame) ==
  /\ Show(t, <<frame>>) \/ UNCHANGED shown       \* it may have arrived all the same
  /\ faulted' = faulted \cup {t}
  /\ UNCHANGED <<buffers, gone>>

\* Mutant: a chunk takes the place of the one before it.
BufferLatest(c, frame) ==
  /\ buffers' = [buffers EXCEPT ![c] = <<frame>>]
  /\ UNCHANGED <<shown, gone, faulted>>

\* handleTelegram: a chunk waits.
Buffer(c, frame) ==
  /\ buffers' = [buffers EXCEPT ![c] = Append(@, frame)]
  /\ UNCHANGED <<shown, gone, faulted>>

\* Mutant: an error leaves the buffer alone.
EmptyAtEnd(c, frame) ==
  buffers' = IF frame.of = "end" THEN [buffers EXCEPT ![c] = <<>>] ELSE buffers

\* A closing frame empties the buffer; an error drops what was in it.
Empty(c, frame) == buffers' = [buffers EXCEPT ![c] = <<>>]

Posted(c, frame) == IF frame.of = "error" THEN <<frame>> ELSE Append(buffers[c], frame)

\* sendTelegramMessage: parts of 4096 characters, each tried again when the network
\* fails, which repeats a part that had arrived.
TelegramWorks(c, t, frame) ==
  /\ Empty(c, frame)
  /\ \/ Show(t, Posted(c, frame)) /\ UNCHANGED faulted
     \/ Show(t, Posted(c, frame) \o Posted(c, frame)) /\ faulted' = faulted \cup {t}
  /\ UNCHANGED gone

TelegramThrows(c, t, frame) ==
  /\ Empty(c, frame)
  /\ UNCHANGED shown \/ Show(t, Posted(c, frame))     \* or some parts of it
  /\ faulted' = faulted \cup {t}
  /\ UNCHANGED gone

\* send: it returns, or it throws.
SendWorks(c, t, frame) ==
  \/ c \in gone /\ UNCHANGED senderVars
  \/ c \notin gone \cup Telegram /\ WebWorks(c, t, frame)
  \/ c \in Telegram \ gone /\ frame.of \notin Closings /\ Buffer(c, frame)
  \/ c \in Telegram \ gone /\ frame.of \in Closings /\ TelegramWorks(c, t, frame)

SendThrows(c, t, frame) ==
  \/ c \notin gone \cup Telegram /\ WebThrows(c, t, frame)
  \/ c \in Telegram \ gone /\ frame.of \in Closings /\ TelegramThrows(c, t, frame)

\* A turn is over.
Forget(t) ==
  /\ shown' = [shown EXCEPT ![t] = <<>>]
  /\ faulted' = faulted \ {t}
  /\ UNCHANGED <<buffers, gone>>

SenderTypeOK(turns, frames) ==
  /\ buffers \in [Connections -> Seq({f \in frames : f.of \notin Closings})]
  /\ shown \in [turns -> Seq(frames)]
  /\ gone \subseteq Connections
  /\ faulted \subseteq turns

\* Without a bot token and without a relay every send to a chat is dropped.
SenderInit(turns) ==
  /\ buffers = [c \in Connections |-> <<>>]
  /\ shown = [t \in turns |-> <<>>]
  /\ gone \in {{}, Telegram}
  /\ faulted = {}
=============================================================================
