-------------------------- MODULE IdentityLinkProofs --------------------------
(***************************************************************************)
(* For any number of users, Telegram accounts, codes and Lambdas: a code    *)
(* links once unless its digits are drawn again meanwhile, an account shown *)
(* as linked is linked, and a link leaves a container behind only if it was *)
(* about to start or had no row.                                            *)
(***************************************************************************)
EXTENDS IdentityLink, TLAPS

LEMMA IdleType == Idle \in Handler
BY DEF Idle, Handler, Pcs

\* Moving a handler to another point keeps its type.
LEMMA GotoType ==
  ASSUME TypeOK, NEW h \in Handlers, NEW pc \in Pcs, Goto(h, pc)
  PROVE  handler' \in [Handlers -> Handler]
<1>1. handler[h] \in Handler
  BY DEF TypeOK
<1>2. [handler[h] EXCEPT !.pc = pc] \in Handler
  BY <1>1 DEF Handler
<1>3. QED
  BY <1>2, IdleType DEF TypeOK, Goto

\* So does taking up a link or an unlink.
LEMMA EngageType ==
  ASSUME TypeOK, NEW h \in Handlers, NEW t \in Telegrams, NEW pc \in Pcs, Engage(h, t, pc)
  PROVE  handler' \in [Handlers -> Handler] /\ crossed' \subseteq Telegrams
<1>1. handler[h] \in Handler
  BY DEF TypeOK
<1>2. [handler[h] EXCEPT !.pc = pc, !.telegram = t] \in Handler
  BY <1>1 DEF Handler
<1>3. QED
  BY <1>2 DEF TypeOK, Engage

Sending == {"route", "delete task", "start task", "put task"}

\* Who a handler works for, at each point.
Bound(h) ==
  /\ handler[h].pc \in {"put otp", "put owner"} => handler[h].user \in Users /\ handler[h].code \in Codes
  /\ handler[h].pc \in {"look up", "ask task", "ask link", "consume", "put forward", "put reverse",
                        "clean up", "delete forward", "delete reverse", "resolve"} \cup Sending
       => handler[h].telegram \in Telegrams
  /\ handler[h].pc \in {"look up", "ask task", "ask link", "consume"} => handler[h].code \in Codes
  /\ handler[h].pc \in {"ask task", "ask link", "consume", "put forward", "put reverse",
                        "read forward", "delete forward"} => handler[h].user \in Users
  /\ handler[h].pc \in Sending => handler[h].target \in {handler[h].telegram} \cup Users
  /\ handler[h].pc \in {"put otp", "put owner", "ask task", "ask link", "consume"}
       => handler[h].turn \in 1..drawn

Typed ==
  /\ TypeOK
  /\ \A c \in Codes : otpOwner[c] # None => otpOwner[c].turn \in 1..drawn
  /\ \A h \in Handlers : Bound(h)

(* How often each code has been accepted. *)

Drawing(h) == handler[h].pc \in {"put otp", "put owner"}
Holding(h) == handler[h].pc \in {"ask task", "ask link", "consume"}

\* A code in the table, or on its way there, has been accepted from nobody.
FreshCodes ==
  /\ \A c \in Codes : otpOwner[c] # None => uses[otpOwner[c].turn] = 0
  /\ \A h \in Handlers : Drawing(h) => uses[handler[h].turn] = 0
  /\ \A n \in 1..MaxCodes : n > drawn => uses[n] = 0

\* No two of them are the same in turn, nor is one on its way there looked up already.
DistinctCodes ==
  /\ \A c, d \in Codes :
       otpOwner[c] # None /\ otpOwner[d] # None /\ otpOwner[c].turn = otpOwner[d].turn => c = d
  /\ \A g, h \in Handlers :
       Drawing(g) /\ Drawing(h) /\ handler[g].turn = handler[h].turn => g = h
  /\ \A c \in Codes, h \in Handlers :
       otpOwner[c] # None /\ Drawing(h) => otpOwner[c].turn # handler[h].turn
  /\ \A g, h \in Handlers : Drawing(g) /\ Holding(h) => handler[g].turn # handler[h].turn

\* A code that was looked up is in the table under its digits or not at all; and only
\* if it was drawn again does its row hold another.
HeldCodes ==
  \A h \in Handlers : Holding(h) =>
    /\ \A c \in Codes :
         otpOwner[c] # None /\ otpOwner[c].turn = handler[h].turn => c = handler[h].code
    /\ \/ handler[h].turn \in redrawn
       \/ otpOwner[handler[h].code] = None
       \/ otpOwner[handler[h].code].turn = handler[h].turn

CodeInv == Typed /\ FreshCodes /\ DistinctCodes /\ HeldCodes /\ CodeLinksOnce

(* The two rows of a link. *)

\* What the one handler at the link of t has brought about so far.
WriterInv(h, t) ==
  LET u == handler[h].user
      pc == handler[h].pc
      shows(v) == forward[v] = t
  IN  /\ pc \in {"consume", "put forward"} =>
           reverse[t] \in {None, u} /\ \A v \in Users : shows(v) => reverse[t] = v
      /\ pc \in {"put reverse", "clean up", "delete forward"} => \A v \in Users : shows(v) => v = u
      /\ pc = "clean up" => reverse[t] = u
      /\ pc = "delete reverse" => \A v \in Users : ~shows(v)

AloneInv(t) ==
  /\ \A g, h \in Writers(t) : g = h
  /\ \A h \in Writers(t) : WriterInv(h, t)
  /\ Writers(t) = {} => \A v \in Users : forward[v] = t => reverse[t] = v

LinkInv == Typed /\ \A t \in Telegrams \ crossed : AloneInv(t)

(* The containers of those who are linked. *)

\* Past the question, nobody on his way to a runtime goes to the Telegram user's own.
ContainerInv ==
  /\ Typed
  /\ runtime = "lambda" => alive = {}
  /\ runtime # "lambda" =>
       \A t \in Telegrams \ (raced \cup unseen) :
         reverse[t] # None \/ LinkersOf(t) # {}
           => /\ t \notin alive
              /\ \A h \in Sends(t) : handler[h].target # t

\* The steps of a message on its way to a task of its own.
OwnStep(h) ==
  FindNoTask(h) \/ FindStaleTask(h) \/ DeleteTask(h) \/ StartTask(h) \/ PutTask(h)

-----------------------------------------------------------------------------
(* Types *)

\* Where they lead.
LEMMA OwnStepGoes ==
  ASSUME NEW h \in Handlers, OwnStep(h)
  PROVE  /\ UNCHANGED <<runtime, rows, ghosts>>
         /\ runtime # "lambda"
         /\ handler[h].target \in Telegrams
         /\ \/ At(h, "route") /\ Goto(h, "start task") /\ UNCHANGED fleet
            \/ At(h, "route") /\ Goto(h, "delete task") /\ UNCHANGED fleet
            \/ /\ At(h, "delete task") /\ Goto(h, "start task")
               /\ taskRows' = taskRows \ {handler[h].target} /\ UNCHANGED alive
            \/ /\ At(h, "start task") /\ Goto(h, "put task")
               /\ alive' = alive \cup {handler[h].target} /\ UNCHANGED taskRows
            \/ /\ At(h, "put task") /\ Goto(h, "idle")
               /\ taskRows' = taskRows \cup {handler[h].target} /\ UNCHANGED alive
BY DEF OwnStep, OwnRoute, FindNoTask, FindStaleTask, DeleteTask, StartTask, PutTask

\* A step of one handler leaves the others where they are.
LEMMA OthersStay ==
  ASSUME Typed, NEW h \in Handlers, Step(h), NEW g \in Handlers, g # h
  PROVE  handler'[g] = handler[g]
BY DEF Typed, TypeOK, Step, GenerateOtp, PutOtp, PutOwner, Link, LookUp, AskTask, AskLink,
       Consume, PutForward, PutReverse, CleanUp, Unlink, ReadForward, DeleteForward,
       DeleteReverse, Message, Resolve, Route, FindNoTask, FindStaleTask, DeleteTask, StartTask,
       PutTask, CallFails, Begin, Goto, Engage

\* A handler that begins.
LEMMA BeginTypes ==
  ASSUME Typed, NEW h \in Handlers, GenerateOtp(h) \/ Link(h) \/ Unlink(h) \/ Message(h)
  PROVE  Typed'
<1>1. drawn \in Nat /\ MaxCodes \in Nat
  BY IdentityAssumption DEF Typed, TypeOK
<1>2. ASSUME NEW g \in Handlers, g # h
      PROVE  handler'[g] = handler[g]
  BY <1>2, OthersStay DEF Step
<1>3. CASE GenerateOtp(h)
  <2>1. PICK u \in Users, c \in Codes, n \in Nat :
          /\ Begin(h, [Idle EXCEPT !.pc = "put otp", !.user = u, !.code = c, !.turn = n])
          /\ n = drawn + 1
    <3>1. drawn + 1 \in Nat
      BY <1>1
    <3>2. QED
      BY <1>3, <3>1 DEF GenerateOtp
  <2>2. [Idle EXCEPT !.pc = "put otp", !.user = u, !.code = c, !.turn = n] \in Handler
    BY IdleType DEF Handler, Pcs
  <2>3. handler' \in [Handlers -> Handler]
    BY <2>1, <2>2 DEF Begin, Typed, TypeOK
  <2>4. drawn' = n /\ n \in 0..MaxCodes /\ n \in 1..n /\ \A i \in 1..drawn : i \in 1..n
    <3>1. drawn' = drawn + 1 /\ drawn < MaxCodes
      BY <1>3 DEF GenerateOtp
    <3>2. QED
      BY <1>1, <2>1, <3>1
  <2>5. TypeOK'
    BY <1>3, <2>3, <2>4 DEF GenerateOtp, Typed, TypeOK, rows, fleet
  <2>6. Bound(h)'
    BY <2>1, <2>4 DEF Begin, Bound, Sending, Idle, Typed, TypeOK
  <2>7. ASSUME NEW g \in Handlers, g # h
        PROVE  Bound(g)'
    BY <1>2, <2>4, <2>7 DEF Typed, Bound
  <2>8. \A x \in Codes : otpOwner'[x] # None => otpOwner'[x].turn \in 1..drawn'
    BY <1>3, <2>4 DEF GenerateOtp, rows, Typed
  <2>9. QED
    BY <2>5, <2>6, <2>7, <2>8 DEF Typed
<1>4. CASE Link(h)
  <2>1. PICK t \in Telegrams, c \in Codes :
          Begin(h, [Idle EXCEPT !.pc = "look up", !.telegram = t, !.code = c])
    BY <1>4 DEF Link
  <2>2. [Idle EXCEPT !.pc = "look up", !.telegram = t, !.code = c] \in Handler
    BY IdleType DEF Handler, Pcs
  <2>3. handler' \in [Handlers -> Handler]
    BY <2>1, <2>2 DEF Begin, Typed, TypeOK
  <2>4. TypeOK'
    BY <1>4, <2>3 DEF Link, Typed, TypeOK, rows, fleet, ghosts
  <2>5. Bound(h)'
    BY <2>1 DEF Begin, Bound, Sending, Idle, Typed, TypeOK
  <2>6. QED
    BY <1>2, <1>4, <2>4, <2>5 DEF Link, Typed, Bound, rows, ghosts
<1>5. CASE Unlink(h)
  <2>1. PICK u \in Users : Begin(h, [Idle EXCEPT !.pc = "read forward", !.user = u])
    BY <1>5 DEF Unlink
  <2>2. [Idle EXCEPT !.pc = "read forward", !.user = u] \in Handler
    BY IdleType DEF Handler, Pcs
  <2>3. handler' \in [Handlers -> Handler]
    BY <2>1, <2>2 DEF Begin, Typed, TypeOK
  <2>4. TypeOK'
    BY <1>5, <2>3 DEF Unlink, Typed, TypeOK, rows, fleet, ghosts
  <2>5. Bound(h)'
    BY <2>1 DEF Begin, Bound, Sending, Idle, Typed, TypeOK
  <2>6. QED
    BY <1>2, <1>5, <2>4, <2>5 DEF Unlink, Typed, Bound, rows, ghosts
<1>6. CASE Message(h)
  <2>1. PICK t \in Telegrams : Begin(h, [Idle EXCEPT !.pc = "resolve", !.telegram = t])
    BY <1>6 DEF Message
  <2>2. [Idle EXCEPT !.pc = "resolve", !.telegram = t] \in Handler
    BY IdleType DEF Handler, Pcs
  <2>3. handler' \in [Handlers -> Handler]
    BY <2>1, <2>2 DEF Begin, Typed, TypeOK
  <2>4. TypeOK'
    BY <1>6, <2>3 DEF Message, Typed, TypeOK, rows, fleet, ghosts
  <2>5. Bound(h)'
    BY <2>1 DEF Begin, Bound, Sending, Idle, Typed, TypeOK
  <2>6. QED
    BY <1>2, <1>6, <2>4, <2>5 DEF Message, Typed, Bound, rows, ghosts
<1>7. QED
  BY <1>3, <1>4, <1>5, <1>6

\* A handler that only moves on, or ends, has what it had.
LEMMA MoveKeepsBound ==
  ASSUME Typed, NEW h \in Handlers, NEW pc \in Pcs, Goto(h, pc), drawn' = drawn,
         pc = "idle" \/
         \E from \in Pcs : At(h, from) /\
           <<from, pc>> \in {<<"put otp", "put owner">>, <<"ask task", "ask link">>,
                             <<"consume", "put forward">>, <<"put forward", "put reverse">>,
                             <<"put reverse", "clean up">>, <<"delete forward", "delete reverse">>,
                             <<"route", "start task">>, <<"route", "delete task">>,
                             <<"delete task", "start task">>, <<"start task", "put task">>}
  PROVE  handler' \in [Handlers -> Handler] /\ \A g \in Handlers : Bound(g)'
<1>1. handler' \in [Handlers -> Handler]
  BY GotoType DEF Typed
<1>2. ASSUME NEW g \in Handlers, g # h
      PROVE  Bound(g)'
  BY <1>2 DEF Typed, TypeOK, Bound, Goto
<1>3. Bound(h)'
  <2>1. handler[h] \in Handler /\ Bound(h)
    BY DEF Typed, TypeOK
  <2>2. CASE pc = "idle"
    BY <2>2 DEF Goto, Bound, Idle, Sending, Typed, TypeOK
  <2>3. CASE pc # "idle"
    <3>1. handler'[h] = [handler[h] EXCEPT !.pc = pc]
      BY <2>3 DEF Goto, Typed, TypeOK
    <3>2. QED
      BY <2>1, <2>3, <3>1 DEF Bound, At, Sending, Handler
  <2>4. QED
    BY <2>2, <2>3
<1>4. QED
  BY <1>1, <1>2, <1>3

\* Every step leaves the types alone.
LEMMA TypingStep == Typed /\ [Next]_vars => Typed'
<1> SUFFICES ASSUME Typed, [Next]_vars
             PROVE  Typed'
  OBVIOUS
<1>a. \A h \in Handlers : handler[h] \in Handler /\ Bound(h)
  BY DEF Typed, TypeOK
<1>1. ASSUME NEW h \in Handlers, GenerateOtp(h) \/ Link(h) \/ Unlink(h) \/ Message(h)
      PROVE  Typed'
  BY <1>1, BeginTypes
<1>2. ASSUME NEW h \in Handlers, PutOtp(h) \/ CleanUp(h)
      PROVE  Typed'
  BY <1>2, MoveKeepsBound DEF PutOtp, CleanUp, Pcs, At, rows, fleet, ghosts, Typed, TypeOK
<1>3. ASSUME NEW h \in Handlers, PutOwner(h)
      PROVE  Typed'
  <2> DEFINE c == handler[h].code
             owner == [user |-> handler[h].user, turn |-> handler[h].turn]
  <2>1. handler' \in [Handlers -> Handler] /\ \A g \in Handlers : Bound(g)'
    BY <1>3, MoveKeepsBound DEF PutOwner, Pcs
  <2>2. owner \in Owners /\ c \in Codes /\ owner.turn \in 1..drawn
    BY <1>a, <1>3 DEF PutOwner, At, Bound, Handler, Owners
  <2>3. otpOwner' = [otpOwner EXCEPT ![c] = owner]
    BY <1>3 DEF PutOwner
  <2>4. /\ otpOwner' \in [Codes -> Owners \cup {None}]
        /\ \A d \in Codes : otpOwner'[d] # None => otpOwner'[d].turn \in 1..drawn
    BY <2>2, <2>3 DEF Typed, TypeOK
  <2>5. redrawn' \subseteq 1..MaxCodes
    <3>1. redrawn' = redrawn \cup {handler[g].turn : g \in HoldersOf(c)}
      BY <1>3 DEF PutOwner
    <3>2. \A g \in HoldersOf(c) : handler[g].turn \in 1..drawn
      BY <1>a DEF HoldersOf, Bound
    <3>3. 1..drawn \subseteq 1..MaxCodes
      BY IdentityAssumption DEF Typed, TypeOK
    <3>4. QED
      BY <3>1, <3>2, <3>3 DEF Typed, TypeOK
  <2>6. QED
    BY <1>3, <2>1, <2>4, <2>5 DEF PutOwner, fleet, Typed, TypeOK
<1>4. ASSUME NEW h \in Handlers, LookUp(h)
      PROVE  Typed'
  <2>1. handler[h].pc = "look up" /\ handler[h].code \in Codes /\ handler[h].telegram \in Telegrams
    BY <1>a, <1>4 DEF LookUp, At, Bound
  <2>2. ASSUME NEW g \in Handlers, g # h
        PROVE  Bound(g)'
    BY <1>4, <2>2 DEF LookUp, rows, ghosts, Typed, TypeOK, Bound
  <2>3. CASE otpOwner[handler[h].code] = None
    <3>1. handler' = [handler EXCEPT ![h] = Idle]
      BY <1>4, <2>3 DEF LookUp
    <3>2. Bound(h)'
      BY <3>1 DEF Bound, Idle, Sending, Typed, TypeOK
    <3>3. handler' \in [Handlers -> Handler]
      BY <3>1, IdleType DEF Typed, TypeOK
    <3>4. TypeOK'
      BY <1>4, <3>3 DEF LookUp, rows, fleet, ghosts, Typed, TypeOK
    <3>5. QED
      BY <1>4, <2>2, <3>2, <3>4 DEF LookUp, rows, ghosts, Typed
  <2>4. CASE otpOwner[handler[h].code] # None
    <3>1. PICK owner \in Owners, pc \in {"ask task", "ask link"} :
            /\ handler' = [handler EXCEPT ![h] = [@ EXCEPT !.user = owner.user, !.turn = owner.turn,
                                                           !.pc = pc]]
            /\ owner.turn \in 1..drawn
      <4>1. otpOwner[handler[h].code] \in Owners
        BY <2>1, <2>4 DEF Typed, TypeOK
      <4>2. QED
        BY <1>4, <2>1, <2>4, <4>1 DEF LookUp, Typed
    <3>2. owner.user \in Users /\ owner.turn \in Nat /\ pc \in Pcs
      BY DEF Owners, Pcs
    <3>3. [handler[h] EXCEPT !.user = owner.user, !.turn = owner.turn, !.pc = pc] \in Handler
      BY <1>a, <3>2 DEF Handler
    <3>4. handler' \in [Handlers -> Handler]
      BY <3>1, <3>3 DEF Typed, TypeOK
    <3>5. Bound(h)'
      <4>1. handler'[h] = [handler[h] EXCEPT !.user = owner.user, !.turn = owner.turn, !.pc = pc]
        BY <3>1 DEF Typed, TypeOK
      <4>2. /\ handler'[h].pc = pc /\ handler'[h].user = owner.user /\ handler'[h].turn = owner.turn
            /\ handler'[h].telegram = handler[h].telegram /\ handler'[h].code = handler[h].code
        BY <1>a, <4>1 DEF Handler
      <4>3. drawn' = drawn
        BY <1>4 DEF LookUp, ghosts
      <4>4. QED
        BY <2>1, <3>1, <3>2, <4>2, <4>3 DEF Bound, Sending
    <3>6. QED
      BY <1>4, <2>2, <3>4, <3>5 DEF LookUp, rows, fleet, ghosts, Typed, TypeOK
  <2>5. QED
    BY <2>3, <2>4
<1>5. ASSUME NEW h \in Handlers, AskTask(h)
      PROVE  Typed'
  <2>1. Goto(h, "idle") \/ Goto(h, "ask link")
    BY <1>5 DEF AskTask
  <2>2. handler' \in [Handlers -> Handler] /\ \A g \in Handlers : Bound(g)'
    BY <1>5, <2>1, MoveKeepsBound DEF AskTask, Pcs
  <2>3. raced' \subseteq Telegrams /\ unseen' \subseteq Telegrams
    <3>1. handler[h].telegram \in Telegrams
      BY <1>a, <1>5 DEF AskTask, At, Bound
    <3>2. /\ raced' = raced \/ raced' = raced \cup {handler[h].telegram}
          /\ unseen' = unseen \/ unseen' = unseen \cup {handler[h].telegram}
      BY <1>5 DEF AskTask, Overlooks
    <3>3. QED
      BY <3>1, <3>2 DEF Typed, TypeOK
  <2>4. QED
    BY <1>5, <2>2, <2>3 DEF AskTask, rows, fleet, Typed, TypeOK
<1>6. ASSUME NEW h \in Handlers, AskLink(h) \/ ReadForward(h)
      PROVE  Typed'
  <2>1. UNCHANGED <<runtime, rows, fleet, drawn, uses, redrawn, raced, unseen>>
    BY <1>6 DEF AskLink, ReadForward
  <2>2. CASE Goto(h, "idle") /\ UNCHANGED crossed
    BY <2>1, <2>2, MoveKeepsBound DEF Pcs, rows, fleet, Typed, TypeOK
  <2>3. CASE ~(Goto(h, "idle") /\ UNCHANGED crossed)
    <3>1. PICK t \in Telegrams, pc \in {"consume", "delete forward"} :
            /\ Engage(h, t, pc)
            /\ pc = "consume" => t = handler[h].telegram /\ handler[h].pc = "ask link"
            /\ pc = "delete forward" => handler[h].pc = "read forward"
      <4>1. CASE AskLink(h)
        BY <1>a, <2>3, <4>1 DEF AskLink, At, Bound
      <4>2. CASE ReadForward(h)
        <5>1. handler[h].user \in Users
          BY <1>a, <4>2 DEF ReadForward, At, Bound
        <5>2. forward[handler[h].user] \in Telegrams
          BY <2>3, <4>2, <5>1 DEF ReadForward, Typed, TypeOK
        <5>3. QED
          BY <2>3, <4>2, <5>2 DEF ReadForward, At
      <4>3. QED
        BY <1>6, <4>1, <4>2
    <3>2. handler' \in [Handlers -> Handler] /\ crossed' \subseteq Telegrams
      BY <3>1, EngageType DEF Pcs, Typed
    <3>3. ASSUME NEW g \in Handlers, g # h
          PROVE  Bound(g)'
      BY <2>1, <3>1, <3>3 DEF Engage, Typed, TypeOK, Bound
    <3>4. Bound(h)'
      <4>1. handler'[h] = [handler[h] EXCEPT !.pc = pc, !.telegram = t]
        BY <3>1 DEF Engage, Typed, TypeOK
      <4>2. QED
        <5>1. handler'[h].pc = pc /\ handler'[h].telegram = t
          BY <1>a, <4>1 DEF Handler
        <5>2. handler'[h].user = handler[h].user /\ handler'[h].code = handler[h].code
          BY <1>a, <4>1 DEF Handler
        <5>3. handler[h].user \in Users
          BY <1>a, <3>1 DEF Bound
        <5>4. pc = "consume" => handler[h].code \in Codes /\ handler'[h].turn \in 1..drawn
          BY <1>a, <3>1, <4>1 DEF Bound, Handler
        <5>5. QED
          BY <2>1, <3>1, <5>1, <5>2, <5>3, <5>4 DEF Bound, Sending
    <3>5. QED
      BY <2>1, <3>2, <3>3, <3>4 DEF rows, fleet, Typed, TypeOK
  <2>4. QED
    BY <2>2, <2>3
<1>7. ASSUME NEW h \in Handlers, Consume(h)
      PROVE  Typed'
  <2> DEFINE n == handler[h].turn
  <2>1. handler' \in [Handlers -> Handler] /\ \A g \in Handlers : Bound(g)'
    BY <1>7, MoveKeepsBound DEF Consume, Pcs
  <2>2. \A c \in Codes : otpOwner'[c] \in {otpOwner[c], None}
    BY <1>7 DEF Consume, Typed, TypeOK
  <2>3. otpOwner' \in [Codes -> Owners \cup {None}]
    BY <1>7 DEF Consume, Typed, TypeOK
  <2>4. uses' \in [1..MaxCodes -> Nat]
    <3>1. n \in 1..MaxCodes
      <4>1. n \in 1..drawn
        BY <1>a, <1>7 DEF Consume, At, Bound
      <4>2. QED
        BY <4>1, IdentityAssumption DEF Typed, TypeOK
    <3>2. uses[n] + 1 \in Nat
      BY <3>1 DEF Typed, TypeOK
    <3>3. QED
      BY <1>7, <3>2 DEF Consume, LinksBy, Typed, TypeOK
  <2>5. QED
    BY <1>7, <2>1, <2>2, <2>3, <2>4 DEF Consume, fleet, Typed, TypeOK
<1>8. ASSUME NEW h \in Handlers, PutForward(h) \/ PutReverse(h)
      PROVE  Typed'
  <2>1. handler[h].user \in Users /\ handler[h].telegram \in Telegrams
    BY <1>a, <1>8 DEF PutForward, PutReverse, At, Bound
  <2>2. handler' \in [Handlers -> Handler] /\ \A g \in Handlers : Bound(g)'
    BY <1>8, MoveKeepsBound DEF PutForward, PutReverse, Pcs, ghosts
  <2>3. QED
    BY <1>8, <2>1, <2>2 DEF PutForward, PutReverse, fleet, ghosts, Typed, TypeOK
<1>9. ASSUME NEW h \in Handlers, DeleteForward(h) \/ DeleteReverse(h)
      PROVE  Typed'
  <2>1. handler' \in [Handlers -> Handler] /\ \A g \in Handlers : Bound(g)'
    BY <1>9, MoveKeepsBound DEF DeleteForward, DeleteReverse, Pcs, ghosts
  <2>2. QED
    BY <1>9, <2>1 DEF DeleteForward, DeleteReverse, fleet, ghosts, Typed, TypeOK
<1>10. ASSUME NEW h \in Handlers, Resolve(h)
      PROVE  Typed'
  <2>1. PICK target \in {handler[h].telegram} \cup Users :
          handler' = [handler EXCEPT ![h].pc = "route", ![h].target = target]
    <3>1. handler[h].telegram \in Telegrams
      BY <1>a, <1>10 DEF Resolve, At, Bound
    <3>2. QED
      BY <1>10, <3>1 DEF Resolve, Typed, TypeOK
  <2>2. handler[h].telegram \in Telegrams
    BY <1>a, <1>10 DEF Resolve, At, Bound
  <2>3. [handler[h] EXCEPT !.pc = "route", !.target = target] \in Handler
    BY <1>a, <2>1, <2>2 DEF Handler, Pcs, Identities
  <2>4. handler' \in [Handlers -> Handler]
    BY <2>1, <2>3 DEF Typed, TypeOK
  <2>5. Bound(h)'
    <3>1. handler'[h] = [handler[h] EXCEPT !.pc = "route", !.target = target]
      BY <2>1 DEF Typed, TypeOK
    <3>2. /\ handler'[h].pc = "route" /\ handler'[h].target = target
          /\ handler'[h].telegram = handler[h].telegram
      BY <1>a, <3>1 DEF Handler
    <3>3. QED
      BY <2>1, <2>2, <3>2 DEF Bound, Sending
  <2>6. ASSUME NEW g \in Handlers, g # h
        PROVE  Bound(g)'
    BY <1>10, <2>1, <2>6 DEF Resolve, Typed, TypeOK, Bound
  <2>7. QED
    BY <1>10, <2>2, <2>4, <2>5, <2>6 DEF Resolve, rows, fleet, Typed, TypeOK
<1>11. ASSUME NEW h \in Handlers, Route(h)
       PROVE  Typed'
  <2>1. handler' \in [Handlers -> Handler] /\ \A g \in Handlers : Bound(g)'
    BY <1>11, MoveKeepsBound DEF Route, Pcs, ghosts
  <2>2. QED
    BY <1>11, <2>1 DEF Route, rows, fleet, ghosts, Typed, TypeOK
<1>12. ASSUME NEW h \in Handlers, OwnStep(h)
       PROVE  Typed'
  <2>1. UNCHANGED <<runtime, rows, ghosts>> /\ handler[h].target \in Telegrams
    BY <1>12, OwnStepGoes
  <2>2. \/ At(h, "route") /\ Goto(h, "start task")
        \/ At(h, "route") /\ Goto(h, "delete task")
        \/ At(h, "delete task") /\ Goto(h, "start task")
        \/ At(h, "start task") /\ Goto(h, "put task")
        \/ Goto(h, "idle")
    BY <1>12, OwnStepGoes
  <2>3. handler' \in [Handlers -> Handler] /\ \A g \in Handlers : Bound(g)'
    BY <2>1, <2>2, MoveKeepsBound DEF Pcs, ghosts
  <2>4. taskRows' \subseteq Telegrams /\ alive' \subseteq Telegrams
    BY <1>12, <2>1, OwnStepGoes DEF fleet, Typed, TypeOK
  <2>5. QED
    BY <2>1, <2>3, <2>4 DEF rows, ghosts, Typed, TypeOK
<1>13. ASSUME NEW h \in Handlers, CallFails(h)
      PROVE  Typed'
  <2>1. handler' \in [Handlers -> Handler] /\ \A g \in Handlers : Bound(g)'
    BY <1>13, MoveKeepsBound DEF CallFails, Pcs
  <2>2. crossed' \subseteq Telegrams
    BY <1>a, <1>13 DEF CallFails, Linking, Bound, Typed, TypeOK
  <2>3. QED
    BY <1>13, <2>1, <2>2 DEF CallFails, rows, fleet, Typed, TypeOK
<1>14. ASSUME OtpLapses \/ FleetStep \/ UNCHANGED vars
       PROVE  Typed'
  <2>1. TypeOK'
    BY <1>14 DEF OtpLapses, FleetStep, ContainerPuts, ContainerEnds, WatchdogDeletes, vars, rows,
                 fleet, ghosts, Typed, TypeOK
  <2>2. UNCHANGED <<handler, drawn>> /\ \A c \in Codes : otpOwner'[c] \in {otpOwner[c], None}
    BY <1>14 DEF OtpLapses, FleetStep, ContainerPuts, ContainerEnds, WatchdogDeletes, vars, rows,
                 ghosts, Typed, TypeOK
  <2>3. QED
    BY <2>1, <2>2 DEF Typed, Bound
<1>15. QED
  BY <1>1, <1>2, <1>3, <1>4, <1>5, <1>6, <1>7, <1>8, <1>9, <1>10, <1>11, <1>12, <1>13, <1>14
     DEF Next, Step, OwnStep

\* Where such a step leads.
LEMMA GotoEffect ==
  ASSUME Typed, NEW h \in Handlers, NEW pc, Goto(h, pc)
  PROVE  /\ handler'[h].pc = pc
         /\ pc # "idle" => /\ handler'[h].telegram = handler[h].telegram
                           /\ handler'[h].user = handler[h].user
                           /\ handler'[h].turn = handler[h].turn
                           /\ handler'[h].target = handler[h].target
                           /\ handler'[h].code = handler[h].code
<1>1. handler[h] \in Handler /\ handler \in [Handlers -> Handler]
  BY DEF Typed, TypeOK
<1>2. CASE pc = "idle"
  BY <1>1, <1>2 DEF Goto, Idle
<1>3. CASE pc # "idle"
  <2>1. handler'[h] = [handler[h] EXCEPT !.pc = pc]
    BY <1>1, <1>3 DEF Goto
  <2>2. QED
    BY <1>1, <1>3, <2>1 DEF Handler
<1>4. QED
  BY <1>2, <1>3

LEMMA BeginEffect ==
  ASSUME Typed, NEW h \in Handlers, GenerateOtp(h) \/ Link(h) \/ Unlink(h) \/ Message(h)
  PROVE  handler'[h].pc \in {"put otp", "look up", "read forward", "resolve"}
<1>1. handler \in [Handlers -> Handler]
  BY DEF Typed, TypeOK
<1>2. ASSUME NEW start, Begin(h, start)
      PROVE  handler'[h] = start
  BY <1>1, <1>2 DEF Begin
<1>3. CASE GenerateOtp(h)
  <2>1. PICK u \in Users, c \in Codes :
          Begin(h, [Idle EXCEPT !.pc = "put otp", !.user = u, !.code = c, !.turn = drawn + 1])
    BY <1>3 DEF GenerateOtp
  <2>2. handler'[h] = [Idle EXCEPT !.pc = "put otp", !.user = u, !.code = c, !.turn = drawn + 1]
    BY <1>2, <2>1
  <2>3. QED
    BY <2>2 DEF Idle
<1>4. CASE Link(h)
  <2>1. PICK t \in Telegrams, c \in Codes :
          Begin(h, [Idle EXCEPT !.pc = "look up", !.telegram = t, !.code = c])
    BY <1>4 DEF Link
  <2>2. handler'[h] = [Idle EXCEPT !.pc = "look up", !.telegram = t, !.code = c]
    BY <1>2, <2>1
  <2>3. QED
    BY <2>2 DEF Idle
<1>5. CASE Unlink(h)
  <2>1. PICK u \in Users : Begin(h, [Idle EXCEPT !.pc = "read forward", !.user = u])
    BY <1>5 DEF Unlink
  <2>2. handler'[h] = [Idle EXCEPT !.pc = "read forward", !.user = u]
    BY <1>2, <2>1
  <2>3. QED
    BY <2>2 DEF Idle
<1>6. CASE Message(h)
  <2>1. PICK t \in Telegrams : Begin(h, [Idle EXCEPT !.pc = "resolve", !.telegram = t])
    BY <1>6 DEF Message
  <2>2. handler'[h] = [Idle EXCEPT !.pc = "resolve", !.telegram = t]
    BY <1>2, <2>1
  <2>3. QED
    BY <2>2 DEF Idle
<1>7. QED
  BY <1>3, <1>4, <1>5, <1>6

LEMMA EngageEffect ==
  ASSUME Typed, NEW h \in Handlers, NEW t, NEW pc, Engage(h, t, pc)
  PROVE  /\ handler'[h].pc = pc /\ handler'[h].telegram = t
         /\ handler'[h].user = handler[h].user /\ handler'[h].code = handler[h].code
         /\ handler'[h].turn = handler[h].turn
<1>1. handler[h] \in Handler /\ handler \in [Handlers -> Handler]
  BY DEF Typed, TypeOK
<1>2. handler'[h] = [handler[h] EXCEPT !.pc = pc, !.telegram = t]
  BY <1>1 DEF Engage
<1>3. QED
  BY <1>1, <1>2 DEF Handler

LEMMA TypingInit == Init => Typed
<1>1. SUFFICES ASSUME Init
               PROVE  Typed
  OBVIOUS
<1>2. TypeOK
  BY <1>1, IdleType, IdentityAssumption DEF Init, TypeOK
<1>3. \A h \in Handlers : Bound(h)
  BY <1>1 DEF Init, Bound, Idle, Sending
<1>4. QED
  BY <1>1, <1>2, <1>3 DEF Init, Typed

\* The types of the rows and of the handlers.
THEOREM Typing == Spec => []TypeOK
<1>1. Typed => TypeOK
  BY DEF Typed
<1>2. QED
  BY <1>1, TypingInit, TypingStep, PTL DEF Spec

-----------------------------------------------------------------------------
(* Containers *)

AtLink == {"ask link", "consume", "put forward", "put reverse"}

\* A step that brings nobody past the question, starts no container and sends no
\* message on its way disturbs nothing.
LEMMA ContainerFrame ==
  ASSUME ContainerInv, Typed', runtime' = runtime, runtime # "lambda",
         alive' \subseteq alive, raced \subseteq raced', unseen \subseteq unseen',
         NEW h \in Handlers,
         \A g \in Handlers : g # h => handler'[g] = handler[g],
         handler'[h].pc \in Sending => handler[h].pc \in Sending
                                       /\ handler'[h].telegram = handler[h].telegram
                                       /\ handler'[h].target = handler[h].target,
         handler'[h].pc \in AtLink => handler[h].pc \in AtLink
                                      /\ handler'[h].telegram = handler[h].telegram,
         \A t \in Telegrams : reverse'[t] # None => reverse[t] # None \/ LinkersOf(t) # {}
  PROVE  ContainerInv'
<1>1. ASSUME NEW t \in Telegrams
      PROVE  /\ LinkersOf(t)' \subseteq LinkersOf(t)
             /\ \A g \in Sends(t)' : g \in Sends(t) /\ handler'[g].target = handler[g].target
  BY DEF LinkersOf, Sends, Sending, AtLink
<1>2. ASSUME NEW t \in Telegrams \ (raced' \cup unseen'), reverse'[t] # None \/ LinkersOf(t)' # {}
      PROVE  t \notin alive' /\ \A g \in Sends(t)' : handler'[g].target # t
  <2>1. t \in Telegrams \ (raced \cup unseen)
    BY <1>2
  <2>2. reverse[t] # None \/ LinkersOf(t) # {}
    BY <1>1, <1>2
  <2>3. t \notin alive /\ \A g \in Sends(t) : handler[g].target # t
    BY <2>1, <2>2 DEF ContainerInv
  <2>4. QED
    BY <1>1, <2>3
<1>3. QED
  BY <1>2 DEF ContainerInv

LEMMA ContainerStep == ContainerInv /\ [Next]_vars => ContainerInv'
<1> SUFFICES ASSUME ContainerInv, [Next]_vars
             PROVE  ContainerInv'
  OBVIOUS
<1>a. Typed /\ Typed'
  BY TypingStep DEF ContainerInv
<1>b. \A h \in Handlers : handler[h] \in Handler /\ Bound(h)
  BY <1>a DEF Typed, TypeOK
<1>c. runtime' = runtime
  BY DEF Next, Step, GenerateOtp, PutOtp, PutOwner, Link, LookUp, AskTask, AskLink, Consume,
         PutForward, PutReverse, CleanUp, Unlink, ReadForward, DeleteForward, DeleteReverse,
         Message, Resolve, Route, FindNoTask, FindStaleTask, DeleteTask, StartTask, PutTask, OwnRoute,
         CallFails, OtpLapses, FleetStep, ContainerPuts, ContainerEnds, WatchdogDeletes, vars
<1>d. ASSUME NEW h \in Handlers, Step(h), NEW g \in Handlers, g # h
      PROVE  handler'[g] = handler[g]
  BY <1>a, <1>d, OthersStay
<1>1. CASE runtime = "lambda"
  <2>1. alive' \subseteq alive
    BY <1>1 DEF Next, Step, GenerateOtp, PutOtp, PutOwner, Link, LookUp, AskTask, AskLink,
                Consume, PutForward, PutReverse, CleanUp, Unlink, ReadForward, DeleteForward,
                DeleteReverse, Message, Resolve, Route, FindNoTask, FindStaleTask, DeleteTask,
                StartTask, PutTask, OwnRoute, CallFails, OtpLapses, FleetStep, ContainerPuts,
                ContainerEnds, WatchdogDeletes, vars, fleet
  <2>2. QED
    BY <1>a, <1>c, <1>1, <2>1 DEF ContainerInv
<1>2. CASE runtime # "lambda"
  <2>1. ASSUME NEW h \in Handlers, GenerateOtp(h) \/ Link(h) \/ Unlink(h) \/ Message(h)
        PROVE  ContainerInv'
    <3>1. handler'[h].pc \in {"put otp", "look up", "read forward", "resolve"}
      BY <1>a, <2>1, BeginEffect
    <3>2. UNCHANGED <<alive, raced, unseen, reverse>>
      BY <2>1 DEF GenerateOtp, Link, Unlink, Message, rows, fleet, ghosts
    <3>3. QED
      BY <1>a, <1>c, <1>d, <1>2, <2>1, <3>1, <3>2, ContainerFrame DEF Step, AtLink, Sending
  <2>2. ASSUME NEW h \in Handlers, PutOtp(h) \/ PutOwner(h) \/ CleanUp(h) \/ DeleteForward(h) \/ CallFails(h)
        PROVE  ContainerInv'
    <3>1. handler'[h].pc \in {"idle", "put owner", "delete reverse"}
      BY <1>a, <2>2, GotoEffect DEF PutOtp, PutOwner, CleanUp, DeleteForward, CallFails
    <3>2. UNCHANGED <<alive, raced, unseen, reverse>>
      BY <2>2 DEF PutOtp, PutOwner, CleanUp, DeleteForward, CallFails, rows, fleet, ghosts
    <3>3. QED
      BY <1>a, <1>c, <1>d, <1>2, <2>2, <3>1, <3>2, ContainerFrame DEF Step, AtLink, Sending
  <2>3. ASSUME NEW h \in Handlers, LookUp(h)
        PROVE  ContainerInv'
    <3>1. handler'[h].pc \in {"idle", "ask task"}
      BY <1>a, <1>b, <1>2, <2>3 DEF LookUp, Idle, Typed, TypeOK, Handler
    <3>2. UNCHANGED <<alive, raced, unseen, reverse>>
      BY <2>3 DEF LookUp, rows, fleet, ghosts
    <3>3. QED
      BY <1>a, <1>c, <1>d, <1>2, <2>3, <3>1, <3>2, ContainerFrame DEF Step, AtLink, Sending
  <2>4. ASSUME NEW h \in Handlers, AskTask(h)
        PROVE  ContainerInv'
    <3>1. UNCHANGED <<alive, reverse>> /\ raced \subseteq raced' /\ unseen \subseteq unseen'
      BY <2>4 DEF AskTask, Overlooks, rows, fleet
    <3>2. CASE Goto(h, "idle")
      <4>1. handler'[h].pc = "idle"
        BY <1>a, <3>2, GotoEffect
      <4>2. QED
        BY <1>a, <1>c, <1>d, <1>2, <2>4, <3>1, <4>1, ContainerFrame DEF Step, AtLink, Sending
    <3>3. CASE ~Goto(h, "idle")
      <4> DEFINE t == handler[h].telegram
      <4>1. t \in Telegrams /\ handler[h].pc = "ask task"
        BY <1>b, <2>4 DEF AskTask, At, Bound
      <4>2. /\ Goto(h, "ask link")
            /\ Sends(t) # {} => t \in raced'
            /\ t \in alive => t \in unseen'
        BY <2>4, <3>3 DEF AskTask, Overlooks
      <4>3. handler' = [handler EXCEPT ![h].pc = "ask link"]
        BY <4>2 DEF Goto
      <4>4. ASSUME NEW s \in Telegrams
            PROVE  Sends(s)' = Sends(s) /\ \A g \in Sends(s) : handler'[g].target = handler[g].target
        BY <1>a, <1>b, <4>1, <4>3 DEF Sends, Typed, TypeOK, Handler
      <4>5. ASSUME NEW s \in Telegrams, s # t
            PROVE  LinkersOf(s)' = LinkersOf(s)
        BY <1>a, <1>b, <4>1, <4>3, <4>5 DEF LinkersOf, Typed, TypeOK, Handler
      <4>6. ASSUME NEW s \in Telegrams \ (raced' \cup unseen'),
                   reverse'[s] # None \/ LinkersOf(s)' # {}
            PROVE  s \notin alive' /\ \A g \in Sends(s)' : handler'[g].target # s
        <5>1. CASE s = t
          BY <3>1, <4>2, <4>4, <4>6, <5>1
        <5>2. CASE s # t
          BY <1>2, <3>1, <4>4, <4>5, <4>6, <5>2 DEF ContainerInv
        <5>3. QED
          BY <5>1, <5>2
      <4>7. QED
        BY <1>a, <1>c, <1>2, <4>6 DEF ContainerInv
    <3>4. QED
      BY <3>2, <3>3
  <2>5. ASSUME NEW h \in Handlers, AskLink(h) \/ ReadForward(h)
        PROVE  ContainerInv'
    <3>1. UNCHANGED <<alive, raced, unseen, reverse>>
      BY <2>5 DEF AskLink, ReadForward, rows, fleet
    <3>2. \/ handler'[h].pc \in {"idle", "delete forward"}
          \/ /\ handler'[h].pc = "consume" /\ handler'[h].telegram = handler[h].telegram
             /\ handler[h].pc = "ask link"
      <4>1. CASE AskLink(h)
        <5>1. /\ handler[h].pc = "ask link"
              /\ Goto(h, "idle") \/ Engage(h, handler[h].telegram, "consume")
          BY <4>1 DEF AskLink, At
        <5>2. CASE Goto(h, "idle")
          BY <5>2, <1>a DEF Goto, Idle, Typed, TypeOK
        <5>3. CASE Engage(h, handler[h].telegram, "consume")
          <6>1. handler'[h] = [handler[h] EXCEPT !.pc = "consume", !.telegram = handler[h].telegram]
            BY <1>a, <5>3 DEF Engage, Typed, TypeOK
          <6>2. QED
            BY <1>b, <5>1, <6>1 DEF Handler
        <5>4. QED
          BY <5>1, <5>2, <5>3
      <4>2. CASE ReadForward(h)
        <5>1. Goto(h, "idle") \/ Engage(h, forward[handler[h].user], "delete forward")
          BY <4>2 DEF ReadForward
        <5>2. CASE Goto(h, "idle")
          BY <5>2, <1>a DEF Goto, Idle, Typed, TypeOK
        <5>3. CASE Engage(h, forward[handler[h].user], "delete forward")
          <6>1. handler'[h] = [handler[h] EXCEPT !.pc = "delete forward",
                                                 !.telegram = forward[handler[h].user]]
            BY <1>a, <5>3 DEF Engage, Typed, TypeOK
          <6>2. QED
            BY <1>b, <6>1 DEF Handler
        <5>4. QED
          BY <5>1, <5>2, <5>3
      <4>3. QED
        BY <2>5, <4>1, <4>2
    <3>3. QED
      BY <1>a, <1>c, <1>d, <1>2, <2>5, <3>1, <3>2, ContainerFrame DEF Step, AtLink, Sending
  <2>6. ASSUME NEW h \in Handlers, Consume(h) \/ PutForward(h)
        PROVE  ContainerInv'
    <3>1. UNCHANGED <<alive, raced, unseen, reverse>>
      BY <2>6 DEF Consume, PutForward, fleet, ghosts
    <3>2. handler[h].pc \in AtLink
      BY <2>6 DEF Consume, PutForward, At, AtLink
    <3>3. /\ handler'[h].pc \in {"idle", "put forward", "put reverse"}
          /\ handler'[h].pc # "idle" => handler'[h].telegram = handler[h].telegram
      BY <1>a, <2>6, GotoEffect DEF Consume, PutForward
    <3>4. QED
      BY <1>a, <1>c, <1>d, <1>2, <2>6, <3>1, <3>2, <3>3, ContainerFrame DEF Step, AtLink, Sending
  <2>7. ASSUME NEW h \in Handlers, PutReverse(h) \/ DeleteReverse(h)
        PROVE  ContainerInv'
    <3>1. UNCHANGED <<alive, raced, unseen>>
      BY <2>7 DEF PutReverse, DeleteReverse, fleet, ghosts
    <3>2. handler'[h].pc \in {"idle", "clean up"}
      BY <1>a, <2>7, GotoEffect DEF PutReverse, DeleteReverse
    <3>3. ASSUME NEW t \in Telegrams, reverse'[t] # None
          PROVE  reverse[t] # None \/ LinkersOf(t) # {}
      <4>1. CASE PutReverse(h)
        <5>1. CASE t = handler[h].telegram
          BY <4>1, <5>1 DEF PutReverse, At, LinkersOf
        <5>2. CASE t # handler[h].telegram
          BY <1>a, <3>3, <4>1, <5>2 DEF PutReverse, Typed, TypeOK
        <5>3. QED
          BY <5>1, <5>2
      <4>2. CASE DeleteReverse(h)
        BY <1>a, <3>3, <4>2 DEF DeleteReverse, Typed, TypeOK
      <4>3. QED
        BY <2>7, <4>1, <4>2
    <3>4. QED
      BY <1>a, <1>c, <1>d, <1>2, <2>7, <3>1, <3>2, <3>3, ContainerFrame DEF Step, AtLink, Sending
  <2>8. ASSUME NEW h \in Handlers, Resolve(h)
        PROVE  ContainerInv'
    <3> DEFINE t == handler[h].telegram
    <3>1. t \in Telegrams /\ handler[h].pc = "resolve"
      BY <1>b, <2>8 DEF Resolve, At, Bound
    <3>2. /\ UNCHANGED <<alive, reverse, unseen>> /\ raced \subseteq raced'
          /\ LinkersOf(t) # {} => t \in raced'
      BY <2>8 DEF Resolve, rows, fleet
    <3>3. PICK target : /\ handler' = [handler EXCEPT ![h].pc = "route", ![h].target = target]
                        /\ target = t <=> reverse[t] = None
      <4>1. reverse[t] \in Users \cup {None}
        BY <1>a, <3>1 DEF Typed, TypeOK
      <4>2. reverse[t] # t
        BY <3>1, <4>1, IdentityAssumption
      <4>3. QED
        BY <2>8, <4>2 DEF Resolve
    <3>4. ASSUME NEW s \in Telegrams
          PROVE  LinkersOf(s)' = LinkersOf(s)
      BY <1>a, <1>b, <3>1, <3>3, ZenonT(60) DEF LinkersOf, Typed, TypeOK, Handler
    <3>5. ASSUME NEW s \in Telegrams, NEW g \in Sends(s)', g # h \/ s # t
          PROVE  g \in Sends(s) /\ handler'[g].target = handler[g].target
      BY <1>a, <1>b, <3>1, <3>3, <3>5 DEF Sends, Typed, TypeOK, Handler
    <3>6. handler'[h].target = target
      BY <1>a, <1>b, <3>3 DEF Typed, TypeOK, Handler
    <3>7. ASSUME NEW s \in Telegrams \ (raced' \cup unseen'),
                 reverse'[s] # None \/ LinkersOf(s)' # {}
          PROVE  s \notin alive' /\ \A g \in Sends(s)' : handler'[g].target # s
      <4>1. s \notin alive /\ \A g \in Sends(s) : handler[g].target # s
        BY <1>2, <3>2, <3>4, <3>7 DEF ContainerInv
      <4>2. ASSUME NEW g \in Sends(s)'
            PROVE  handler'[g].target # s
        <5>1. CASE g = h /\ s = t
          BY <3>2, <3>3, <3>4, <3>6, <3>7, <5>1
        <5>2. CASE g # h \/ s # t
          BY <3>5, <4>1, <4>2, <5>2
        <5>3. QED
          BY <5>1, <5>2
      <4>3. QED
        BY <3>2, <4>1, <4>2
    <3>8. QED
      BY <1>a, <1>c, <1>2, <3>7 DEF ContainerInv
  <2>9. ASSUME NEW h \in Handlers, Route(h)
        PROVE  ContainerInv'
    <3>1. handler'[h].pc = "idle" /\ UNCHANGED <<alive, raced, unseen, reverse>>
      BY <1>a, <2>9, GotoEffect DEF Route, rows, fleet, ghosts
    <3>2. QED
      BY <1>a, <1>c, <1>d, <1>2, <2>9, <3>1, ContainerFrame DEF Step, AtLink, Sending
  <2>10. ASSUME NEW h \in Handlers, OwnStep(h)
         PROVE  ContainerInv'
    <3> DEFINE t == handler[h].telegram
    <3>1. /\ UNCHANGED <<reverse, raced, unseen>> /\ Step(h)
          /\ handler[h].target \in Telegrams
      BY <2>10, OwnStepGoes DEF rows, ghosts, OwnStep, Step
    <3>2. handler[h].pc \in Sending
      BY <2>10, OwnStepGoes DEF At, Sending
    <3>3. t \in Telegrams /\ handler[h].target = t
      BY <1>b, <3>1, <3>2, IdentityAssumption DEF Bound
    <3>4. PICK pc \in {"start task", "delete task", "put task", "idle"} : Goto(h, pc)
      BY <2>10, OwnStepGoes
    <3>5. /\ handler'[h].pc = pc
          /\ pc # "idle" => handler'[h].telegram = t /\ handler'[h].target = handler[h].target
      BY <1>a, <3>4, GotoEffect
    <3>6. alive' \subseteq alive \cup {t}
      BY <2>10, <3>3, OwnStepGoes DEF fleet
    <3>7. ASSUME NEW s \in Telegrams
          PROVE  /\ LinkersOf(s)' \subseteq LinkersOf(s)
                 /\ \A g \in Sends(s)' : g \in Sends(s) /\ handler'[g].target = handler[g].target
      BY <1>d, <3>1, <3>2, <3>5 DEF LinkersOf, Sends, Sending
    <3>8. ASSUME NEW s \in Telegrams \ (raced' \cup unseen'),
                 reverse'[s] # None \/ LinkersOf(s)' # {}
          PROVE  s \notin alive' /\ \A g \in Sends(s)' : handler'[g].target # s
      <4>1. s \notin alive /\ \A g \in Sends(s) : handler[g].target # s
        BY <1>2, <3>1, <3>7, <3>8 DEF ContainerInv
      <4>2. s # t
        BY <3>2, <3>3, <4>1 DEF Sends, Sending
      <4>3. QED
        BY <3>6, <3>7, <4>1, <4>2
    <3>9. QED
      BY <1>a, <1>c, <1>2, <3>8 DEF ContainerInv
  <2>11. ASSUME OtpLapses \/ FleetStep \/ UNCHANGED vars
         PROVE  ContainerInv'
    <3>1. UNCHANGED <<handler, reverse, raced, unseen>> /\ alive' \subseteq alive
      BY <2>11 DEF OtpLapses, FleetStep, ContainerPuts, ContainerEnds, WatchdogDeletes, vars, rows,
                   fleet, ghosts
    <3>2. QED
      BY <1>a, <1>c, <1>2, <3>1 DEF ContainerInv, LinkersOf, Sends
  <2>12. QED
    BY <2>1, <2>2, <2>3, <2>4, <2>5, <2>6, <2>7, <2>8, <2>9, <2>10, <2>11 DEF Next, Step, OwnStep
<1>3. QED
  BY <1>1, <1>2

LEMMA ContainerInit == Init => ContainerInv
<1>1. SUFFICES ASSUME Init
               PROVE  ContainerInv
  OBVIOUS
<1>2. \A t \in Telegrams : LinkersOf(t) = {} /\ Sends(t) = {}
  BY <1>1 DEF Init, Idle, LinkersOf, Sends
<1>3. \A t \in Telegrams : reverse[t] = None
  BY <1>1 DEF Init
<1>4. QED
  BY <1>1, <1>2, <1>3, TypingInit DEF Init, ContainerInv

\* A Telegram user who is linked has a container of his own only if a message was on
\* its way to start it when /link asked, or it had no row then: whatever the watchdog
\* deletes, a container puts late or a failed Put leaves out, no other way leads there,
\* because whoever resolves him later comes to the user he is linked with.
THEOREM NobodyIsStranded == Spec => []NoContainerStranded
<1>1. ContainerInv => NoContainerStranded
  BY DEF ContainerInv, NoContainerStranded
<1>2. QED
  BY <1>1, ContainerInit, ContainerStep, PTL DEF Spec

-----------------------------------------------------------------------------
(* Codes *)

\* A step that writes no code and lets none link disturbs nothing.
LEMMA CodeFrame ==
  ASSUME CodeInv, Typed', uses' = uses, drawn' = drawn, redrawn' = redrawn,
         \A c \in Codes : otpOwner'[c] \in {None, otpOwner[c]},
         \A g \in Handlers : Drawing(g)' => Drawing(g) /\ handler'[g].turn = handler[g].turn,
         \A g \in Handlers : Holding(g)' =>
           /\ Holding(g) /\ handler'[g].turn = handler[g].turn /\ handler'[g].code = handler[g].code
  PROVE  CodeInv'
<1>1. FreshCodes'
  BY DEF CodeInv, FreshCodes
<1>2. DistinctCodes'
  BY DEF CodeInv, DistinctCodes
<1>3. \A g \in Handlers : Holding(g) => handler[g].code \in Codes
  BY DEF CodeInv, Typed, Bound, Holding
<1>4. HeldCodes'
  BY <1>3 DEF CodeInv, HeldCodes
<1>5. QED
  BY <1>1, <1>2, <1>4 DEF CodeInv, CodeLinksOnce

LEMMA CodeInit == Init => CodeInv
<1>1. SUFFICES ASSUME Init
               PROVE  CodeInv
  OBVIOUS
<1>2. \A h \in Handlers : ~Drawing(h) /\ ~Holding(h)
  BY <1>1 DEF Init, Idle, Drawing, Holding
<1>3. (\A c \in Codes : otpOwner[c] = None) /\ \A n \in 1..MaxCodes : uses[n] = 0
  BY <1>1 DEF Init
<1>4. QED
  BY <1>2, <1>3, TypingInit, <1>1 DEF CodeInv, FreshCodes, DistinctCodes, HeldCodes, CodeLinksOnce

LEMMA CodeStep == CodeInv /\ [Next]_vars => CodeInv'
<1> SUFFICES ASSUME CodeInv, [Next]_vars
             PROVE  CodeInv'
  OBVIOUS
<1>a. Typed /\ Typed'
  BY TypingStep DEF CodeInv
<1>b. \A h \in Handlers : handler[h] \in Handler /\ Bound(h)
  BY <1>a DEF Typed, TypeOK
<1>c. ASSUME NEW h \in Handlers, Step(h), NEW g \in Handlers, g # h
      PROVE  handler'[g] = handler[g]
  BY <1>a, <1>c, OthersStay
<1>d. MaxCodes \in Nat /\ drawn \in 0..MaxCodes /\ drawn \in Nat
  BY <1>a, IdentityAssumption DEF Typed, TypeOK
<1>e. ASSUME NEW h \in Handlers, Step(h), ~Drawing(h)', ~Holding(h)'
      PROVE  /\ \A g \in Handlers : Drawing(g)' => Drawing(g) /\ handler'[g].turn = handler[g].turn
             /\ \A g \in Handlers : Holding(g)' =>
                  /\ Holding(g) /\ handler'[g].turn = handler[g].turn
                  /\ handler'[g].code = handler[g].code
  BY <1>c, <1>e DEF Drawing, Holding
<1>1. ASSUME NEW h \in Handlers, GenerateOtp(h)
      PROVE  CodeInv'
  <2>1. drawn' = drawn + 1 /\ drawn < MaxCodes /\ UNCHANGED <<otpOwner, uses, redrawn>>
    BY <1>1 DEF GenerateOtp, rows
  <2>2. Drawing(h)' /\ ~Holding(h)' /\ handler'[h].turn = drawn'
    <3>1. PICK u \in Users, c \in Codes :
            Begin(h, [Idle EXCEPT !.pc = "put otp", !.user = u, !.code = c, !.turn = drawn'])
      BY <1>1 DEF GenerateOtp
    <3>2. handler'[h] = [Idle EXCEPT !.pc = "put otp", !.user = u, !.code = c, !.turn = drawn']
      BY <1>a, <3>1 DEF Begin, Typed, TypeOK
    <3>3. QED
      BY <3>2 DEF Drawing, Holding, Idle
  <2>3. drawn' \in 1..MaxCodes /\ drawn' \notin 1..drawn /\ (\A n \in 1..drawn : n \in 1..drawn')
        /\ uses[drawn'] = 0 /\ \A n \in 1..MaxCodes : n > drawn' => n > drawn
    <3>1. drawn' \in 1..MaxCodes /\ drawn' > drawn
      BY <1>d, <2>1
    <3>2. uses[drawn'] = 0
      BY <3>1 DEF CodeInv, FreshCodes
    <3>3. QED
      BY <1>d, <2>1, <3>1, <3>2
  <2>4. \A g \in Handlers : g # h => handler'[g] = handler[g]
    BY <1>1, <1>c DEF Step
  <2>5. FreshCodes'
    BY <2>1, <2>2, <2>3, <2>4 DEF CodeInv, FreshCodes, Drawing
  <2>6. \A g \in Handlers : Drawing(g) \/ Holding(g) => handler[g].turn \in 1..drawn
    BY <1>b DEF Drawing, Holding, Bound
  <2>7. \A c \in Codes : otpOwner[c] # None => otpOwner[c].turn \in 1..drawn
    BY DEF CodeInv, Typed
  <2>8. DistinctCodes'
    <3>1. \A g, i \in Handlers :
            Drawing(g)' /\ Drawing(i)' /\ handler'[g].turn = handler'[i].turn => g = i
      BY <2>2, <2>3, <2>4, <2>6 DEF CodeInv, DistinctCodes, Drawing
    <3>2. \A c \in Codes, g \in Handlers :
            otpOwner[c] # None /\ Drawing(g)' => otpOwner[c].turn # handler'[g].turn
      BY <2>2, <2>3, <2>4, <2>7 DEF CodeInv, DistinctCodes, Drawing
    <3>3. \A g, i \in Handlers : Drawing(g)' /\ Holding(i)' => handler'[g].turn # handler'[i].turn
      BY <2>2, <2>3, <2>4, <2>6 DEF CodeInv, DistinctCodes, Drawing, Holding
    <3>4. QED
      BY <2>1, <3>1, <3>2, <3>3 DEF CodeInv, DistinctCodes
  <2>9. HeldCodes'
    <3>1. \A g \in Handlers : Holding(g)' => Holding(g) /\ handler'[g] = handler[g]
      BY <2>2, <2>4 DEF Holding
    <3>2. QED
      BY <2>1, <3>1 DEF CodeInv, HeldCodes
  <2>10. QED
    BY <1>a, <2>1, <2>5, <2>8, <2>9 DEF CodeInv, CodeLinksOnce
<1>2. ASSUME NEW h \in Handlers, PutOwner(h)
      PROVE  CodeInv'
  <2> DEFINE code == handler[h].code
             turn == handler[h].turn
  <2>1. Drawing(h) /\ code \in Codes /\ turn \in 1..drawn
    BY <1>b, <1>2 DEF PutOwner, At, Drawing, Bound
  <2>2. /\ uses' = uses /\ drawn' = drawn /\ redrawn \subseteq redrawn'
        /\ \A g \in HoldersOf(code) : handler[g].turn \in redrawn'
    BY <1>2 DEF PutOwner
  <2>3. otpOwner'[code].turn = turn /\ \A c \in Codes : c # code => otpOwner'[c] = otpOwner[c]
    BY <1>a, <1>2, <2>1 DEF PutOwner, Typed, TypeOK
  <2>4. ~Drawing(h)' /\ ~Holding(h)'
    <3>1. handler'[h].pc = "idle"
      BY <1>a, <1>2, GotoEffect DEF PutOwner
    <3>2. QED
      BY <3>1 DEF Drawing, Holding
  <2>5. /\ \A g \in Handlers : Drawing(g)' =>
             Drawing(g) /\ g # h /\ handler'[g].turn = handler[g].turn
        /\ \A g \in Handlers : Holding(g)' =>
             Holding(g) /\ handler'[g].turn = handler[g].turn /\ handler'[g].code = handler[g].code
    BY <1>2, <1>c, <2>4 DEF Step, Drawing, Holding
  <2>6. FreshCodes'
    BY <2>1, <2>2, <2>3, <2>5 DEF CodeInv, FreshCodes
  <2>7. \A c \in Codes : otpOwner[c] # None => otpOwner[c].turn # turn
    BY <2>1 DEF CodeInv, DistinctCodes
  <2>8. \A g \in Handlers : Drawing(g)' => handler'[g].turn # turn
    BY <2>1, <2>5 DEF CodeInv, DistinctCodes
  <2>9. DistinctCodes'
    BY <2>3, <2>5, <2>7, <2>8 DEF CodeInv, DistinctCodes
  <2>10. ASSUME NEW g \in Handlers, Holding(g)'
         PROVE  /\ \A c \in Codes :
                     otpOwner'[c] # None /\ otpOwner'[c].turn = handler'[g].turn
                       => c = handler'[g].code
                /\ \/ handler'[g].turn \in redrawn'
                   \/ otpOwner'[handler'[g].code] = None
                   \/ otpOwner'[handler'[g].code].turn = handler'[g].turn
    <3>1. /\ Holding(g) /\ handler'[g].turn = handler[g].turn /\ handler'[g].code = handler[g].code
          /\ handler[g].turn # turn /\ handler[g].code \in Codes
      BY <1>b, <2>1, <2>5, <2>10 DEF CodeInv, DistinctCodes, Holding, Bound
    <3>2. handler[g].code = code => handler[g].turn \in redrawn'
      BY <2>2, <3>1 DEF HoldersOf, Holding
    <3>3. QED
      BY <2>2, <2>3, <3>1, <3>2 DEF CodeInv, HeldCodes
  <2>11. HeldCodes'
    BY <2>10 DEF HeldCodes
  <2>12. QED
    BY <1>a, <2>2, <2>6, <2>9, <2>11 DEF CodeInv, CodeLinksOnce
<1>3. ASSUME NEW h \in Handlers, LookUp(h)
      PROVE  CodeInv'
  <2> DEFINE code == handler[h].code
             owner == otpOwner[code]
             pc == IF runtime = "lambda" THEN "ask link" ELSE "ask task"
  <2>1. UNCHANGED <<otpOwner, uses, drawn, redrawn>> /\ code \in Codes
    BY <1>b, <1>3 DEF LookUp, At, Bound, rows, ghosts
  <2>2. CASE owner = None
    <3>1. handler'[h].pc = "idle"
      BY <1>a, <1>3, <2>2 DEF LookUp, Idle, Typed, TypeOK
    <3>2. ~Drawing(h)' /\ ~Holding(h)'
      BY <3>1 DEF Drawing, Holding
    <3>3. QED
      BY <1>3, <1>a, <1>e, <2>1, <3>2, CodeFrame DEF Step
  <2>3. CASE owner # None
    <3>1. handler'[h] = [handler[h] EXCEPT !.user = owner.user, !.turn = owner.turn, !.pc = pc]
      BY <1>a, <1>3, <2>3 DEF LookUp, Typed, TypeOK
    <3>2. handler'[h].pc = pc /\ handler'[h].turn = owner.turn /\ handler'[h].code = code
      BY <1>b, <3>1 DEF Handler
    <3>3. ~Drawing(h)'
      BY <3>2 DEF Drawing
    <3>4. \A g \in Handlers : g # h => handler'[g] = handler[g]
      BY <1>3, <1>c DEF Step
    <3>5. \A g \in Handlers : Drawing(g)' => Drawing(g) /\ handler'[g].turn = handler[g].turn
      BY <3>3, <3>4 DEF Drawing
    <3>6. FreshCodes'
      BY <2>1, <3>5 DEF CodeInv, FreshCodes
    <3>7. \A g, i \in Handlers : Drawing(g)' /\ Holding(i)' => handler'[g].turn # handler'[i].turn
      <4>1. \A g \in Handlers : Drawing(g) => handler[g].turn # owner.turn
        BY <2>1, <2>3 DEF CodeInv, DistinctCodes
      <4>2. \A i \in Handlers : i # h => (Holding(i)' => Holding(i)) /\ handler'[i] = handler[i]
        BY <3>4 DEF Holding
      <4>3. ASSUME NEW g \in Handlers, NEW i \in Handlers, Drawing(g)', Holding(i)'
            PROVE  handler'[g].turn # handler'[i].turn
        <5>1. Drawing(g) /\ handler'[g].turn = handler[g].turn
          BY <3>5, <4>3
        <5>2. CASE i = h
          BY <3>2, <4>1, <5>1, <5>2
        <5>3. CASE i # h
          BY <4>2, <4>3, <5>1, <5>3 DEF CodeInv, DistinctCodes
        <5>4. QED
          BY <5>2, <5>3
      <4>4. QED
        BY <4>3
    <3>8. DistinctCodes'
      BY <2>1, <3>5, <3>7 DEF CodeInv, DistinctCodes
    <3>9. \A c \in Codes : otpOwner[c] # None /\ otpOwner[c].turn = owner.turn => c = code
      BY <2>1, <2>3 DEF CodeInv, DistinctCodes
    <3>10. HeldCodes'
      <4>1. \A i \in Handlers : i # h => (Holding(i)' => Holding(i)) /\ handler'[i] = handler[i]
        BY <3>4 DEF Holding
      <4>2. ASSUME NEW i \in Handlers, Holding(i)'
            PROVE  /\ \A c \in Codes : otpOwner[c] # None /\ otpOwner[c].turn = handler'[i].turn
                                      => c = handler'[i].code
                   /\ \/ handler'[i].turn \in redrawn
                      \/ otpOwner[handler'[i].code] = None
                      \/ otpOwner[handler'[i].code].turn = handler'[i].turn
        <5>1. CASE i = h
          BY <3>2, <3>9, <5>1
        <5>2. CASE i # h
          BY <4>1, <4>2, <5>2 DEF CodeInv, HeldCodes
        <5>3. QED
          BY <5>1, <5>2
      <4>3. QED
        BY <2>1, <4>2 DEF HeldCodes
    <3>11. QED
      BY <1>a, <2>1, <3>6, <3>8, <3>10 DEF CodeInv, CodeLinksOnce
  <2>4. QED
    BY <2>2, <2>3
<1>4. ASSUME NEW h \in Handlers, Consume(h)
      PROVE  CodeInv'
  <2> DEFINE code == handler[h].code
             turn == handler[h].turn
  <2>1. /\ code \in Codes /\ turn \in 1..drawn /\ turn \in 1..MaxCodes
        /\ Holding(h) /\ UNCHANGED <<drawn, redrawn>>
    <3>1. code \in Codes /\ turn \in 1..drawn /\ Holding(h) /\ UNCHANGED <<drawn, redrawn>>
      BY <1>b, <1>4 DEF Consume, At, Bound, Holding
    <3>2. QED
      BY <1>d, <3>1
  <2>2. ~Drawing(h)' /\ ~Holding(h)'
    <3>1. handler'[h].pc \in {"idle", "put forward"}
      BY <1>a, <1>4, GotoEffect DEF Consume
    <3>2. QED
      BY <3>1 DEF Drawing, Holding
  <2>3. /\ \A g \in Handlers : Drawing(g)' => Drawing(g) /\ handler'[g].turn = handler[g].turn
        /\ \A g \in Handlers : Holding(g)' =>
             Holding(g) /\ handler'[g].turn = handler[g].turn /\ handler'[g].code = handler[g].code
    BY <1>4, <1>e, <2>2 DEF Step
  <2>4. CASE otpOwner[code] = None
    <3>1. UNCHANGED <<otpOwner, uses>>
      BY <1>4, <2>4 DEF Consume
    <3>2. QED
      BY <1>a, <2>1, <2>3, <3>1, CodeFrame
  <2>5. CASE otpOwner[code] # None
    <3>1. otpOwner' = [otpOwner EXCEPT ![code] = None] /\ uses' = [uses EXCEPT ![turn] = @ + 1]
      BY <1>4, <2>5 DEF Consume, LinksBy
    <3>2. otpOwner'[code] = None /\ \A c \in Codes : c # code => otpOwner'[c] = otpOwner[c]
      BY <1>a, <2>1, <3>1 DEF Typed, TypeOK
    <3>3. uses'[turn] = uses[turn] + 1 /\ \A n \in 1..MaxCodes : n # turn => uses'[n] = uses[n]
      BY <1>a, <2>1, <3>1 DEF Typed, TypeOK
    <3>4. \A c \in Codes : otpOwner'[c] # None => otpOwner[c] = otpOwner'[c] /\ otpOwner'[c].turn # turn
      BY <2>1, <3>2 DEF CodeInv, HeldCodes
    <3>5. turn \notin redrawn => uses[turn] = 0
      BY <2>1, <2>5 DEF CodeInv, HeldCodes, FreshCodes
    <3>6. \A g \in Handlers : Drawing(g) => handler[g].turn # turn /\ handler[g].turn \in 1..MaxCodes
      <4>1. \A g \in Handlers : Drawing(g) => handler[g].turn # turn /\ handler[g].turn \in 1..drawn
        BY <1>b, <2>1 DEF CodeInv, DistinctCodes, Drawing, Bound
      <4>2. QED
        BY <1>d, <4>1
    <3>7. \A c \in Codes : otpOwner[c] # None => otpOwner[c].turn \in 1..MaxCodes
      <4>1. \A c \in Codes : otpOwner[c] # None => otpOwner[c].turn \in 1..drawn
        BY DEF CodeInv, Typed
      <4>2. QED
        BY <1>d, <4>1
    <3>8. FreshCodes'
      <4>1. \A n \in 1..MaxCodes : n > drawn => n # turn
        BY <1>d, <2>1
      <4>2. QED
        BY <2>1, <2>3, <3>3, <3>4, <3>6, <3>7, <4>1 DEF CodeInv, FreshCodes
    <3>9. DistinctCodes'
      BY <2>3, <3>4 DEF CodeInv, DistinctCodes
    <3>10. HeldCodes'
      <4>1. \A g \in Handlers : Holding(g) => handler[g].code \in Codes
        BY <1>b DEF Holding, Bound
      <4>2. QED
        BY <2>1, <2>3, <3>2, <3>4, <4>1 DEF CodeInv, HeldCodes
    <3>11. CodeLinksOnce'
      BY <2>1, <3>3, <3>5 DEF CodeInv, CodeLinksOnce
    <3>12. QED
      BY <1>a, <3>8, <3>9, <3>10, <3>11 DEF CodeInv
  <2>6. QED
    BY <2>4, <2>5
<1>5. ASSUME OtpLapses \/ FleetStep \/ UNCHANGED vars
      PROVE  CodeInv'
  <2>1. UNCHANGED <<handler, uses, drawn, redrawn>>
    BY <1>5 DEF OtpLapses, FleetStep, ContainerPuts, ContainerEnds, WatchdogDeletes, vars, ghosts
  <2>2. \A c \in Codes : otpOwner'[c] \in {None, otpOwner[c]}
    BY <1>5, <1>a DEF OtpLapses, FleetStep, ContainerPuts, ContainerEnds, WatchdogDeletes, vars, rows,
                      Typed, TypeOK
  <2>3. QED
    BY <1>a, <2>1, <2>2, CodeFrame DEF Drawing, Holding
<1>6. ASSUME NEW h \in Handlers, PutOtp(h) \/ AskTask(h) \/ AskLink(h)
      PROVE  CodeInv'
  <2>1. UNCHANGED <<otpOwner, uses, drawn, redrawn>>
    BY <1>6 DEF PutOtp, AskTask, AskLink, rows, ghosts
  <2>2. \/ Goto(h, "put owner") /\ Drawing(h)
        \/ Goto(h, "ask link") /\ Holding(h)
        \/ Engage(h, handler[h].telegram, "consume") /\ Holding(h)
        \/ Goto(h, "idle")
    BY <1>6 DEF PutOtp, AskTask, AskLink, At, Drawing, Holding
  <2>3. /\ Drawing(h)' => Drawing(h) /\ handler'[h].turn = handler[h].turn
        /\ Holding(h)' => Holding(h) /\ handler'[h].turn = handler[h].turn
                          /\ handler'[h].code = handler[h].code
    <3>1. CASE Goto(h, "put owner") /\ Drawing(h)
      BY <1>a, <3>1, GotoEffect DEF Drawing, Holding
    <3>2. CASE Goto(h, "ask link") /\ Holding(h)
      <4>1. handler'[h].pc = "ask link" /\ handler'[h].turn = handler[h].turn
            /\ handler'[h].code = handler[h].code
        <5> DEFINE pc == "ask link"
        <5>1. Typed /\ Goto(h, pc) /\ pc # "idle"
          BY <1>a, <3>2
        <5> HIDE DEF pc
        <5>2. handler'[h].pc = pc /\ handler'[h].turn = handler[h].turn
              /\ handler'[h].code = handler[h].code
          BY <5>1, GotoEffect
        <5>3. QED
          BY <5>2 DEF pc
      <4>2. QED
        BY <3>2, <4>1 DEF Drawing
    <3>3. CASE Engage(h, handler[h].telegram, "consume") /\ Holding(h)
      <4>1. handler'[h].pc = "consume" /\ handler'[h].turn = handler[h].turn
            /\ handler'[h].code = handler[h].code
        BY <1>a, <3>3, EngageEffect
      <4>2. QED
        BY <3>3, <4>1 DEF Drawing
    <3>4. CASE Goto(h, "idle")
      BY <1>a, <3>4, GotoEffect DEF Drawing, Holding
    <3>5. QED
      BY <2>2, <3>1, <3>2, <3>3, <3>4
  <2>4. /\ \A g \in Handlers : Drawing(g)' => Drawing(g) /\ handler'[g].turn = handler[g].turn
        /\ \A g \in Handlers : Holding(g)' =>
             Holding(g) /\ handler'[g].turn = handler[g].turn /\ handler'[g].code = handler[g].code
    BY <1>6, <1>c, <2>3 DEF Step, Drawing, Holding
  <2>5. QED
    BY <1>a, <2>1, <2>4, CodeFrame
<1>7. ASSUME NEW h \in Handlers,
             \/ Link(h) \/ PutForward(h) \/ PutReverse(h) \/ CleanUp(h) \/ Unlink(h)
             \/ ReadForward(h) \/ DeleteForward(h) \/ DeleteReverse(h)
             \/ Message(h) \/ Resolve(h) \/ Route(h) \/ OwnStep(h) \/ CallFails(h)
      PROVE  CodeInv'
  <2>1. ~Drawing(h)' /\ ~Holding(h)'
    <3>1. CASE \/ PutForward(h) \/ PutReverse(h) \/ CleanUp(h) \/ DeleteForward(h)
               \/ DeleteReverse(h) \/ Route(h) \/ CallFails(h) \/ OwnStep(h)
      <4>1. PICK pc \in {"idle", "put reverse", "clean up", "delete reverse", "delete task",
                         "start task", "put task"} : Goto(h, pc)
        <5>1. CASE OwnStep(h)
          BY <5>1, OwnStepGoes
        <5>2. QED
          BY <3>1, <5>1 DEF PutForward, PutReverse, CleanUp, DeleteForward, DeleteReverse, Route, CallFails
      <4>2. QED
        BY <1>a, <4>1, GotoEffect DEF Drawing, Holding
    <3>2. CASE Link(h) \/ Unlink(h) \/ Message(h)
      <4>1. handler'[h].pc # "put otp"
        BY <1>a, <3>2 DEF Link, Unlink, Message, Begin, Idle, Typed, TypeOK
      <4>2. QED
        BY <1>a, <3>2, <4>1, BeginEffect DEF Drawing, Holding
    <3>3. CASE ReadForward(h)
      <4>1. CASE Goto(h, "idle")
        <5>1. handler'[h].pc = "idle"
          BY <1>a, <4>1, GotoEffect
        <5>2. QED
          BY <5>1 DEF Drawing, Holding
      <4>2. CASE Engage(h, forward[handler[h].user], "delete forward")
        <5>1. handler'[h].pc = "delete forward"
          BY <1>a, <4>2, EngageEffect
        <5>2. QED
          BY <5>1 DEF Drawing, Holding
      <4>3. QED
        BY <3>3, <4>1, <4>2 DEF ReadForward
    <3>4. CASE Resolve(h)
      <4>1. PICK target : handler'[h] = [handler[h] EXCEPT !.pc = "route", !.target = target]
        BY <1>a, <3>4 DEF Resolve, Typed, TypeOK
      <4>2. QED
        BY <1>b, <4>1 DEF Drawing, Holding, Handler
    <3>5. QED
      BY <1>7, <3>1, <3>2, <3>3, <3>4
  <2>2. UNCHANGED <<otpOwner, uses, drawn, redrawn>>
    <3>1. CASE OwnStep(h)
      BY <3>1, OwnStepGoes DEF rows, ghosts
    <3>2. QED
      BY <1>7, <3>1 DEF Link, PutForward, PutReverse, CleanUp, Unlink, ReadForward, DeleteForward,
                        DeleteReverse, Message, Resolve, Route, CallFails, rows, ghosts
  <2>3. QED
    BY <1>7, <1>a, <1>e, <2>1, <2>2, CodeFrame DEF Step, OwnStep
<1>8. QED
  BY <1>1, <1>2, <1>3, <1>4, <1>5, <1>6, <1>7 DEF Next, Step, OwnStep

\* A code links once, however many handlers are given it at once, unless its digits were
\* drawn again while one of them had looked it up: the conditional delete decides between
\* them, and no code is handed out twice.
THEOREM CodesLinkOnce == Spec => []CodeLinksOnce
<1>1. CodeInv => CodeLinksOnce
  BY DEF CodeInv
<1>2. QED
  BY <1>1, CodeInit, CodeStep, PTL DEF Spec

-----------------------------------------------------------------------------
(* Links *)

\* At most more of what was shown of t is gone.
LEMMA LinkFrame ==
  ASSUME NEW t \in Telegrams, AloneInv(t), reverse'[t] = reverse[t],
         \A v \in Users : forward'[v] = t => forward[v] = t,
         Writers(t)' = Writers(t), \A g \in Writers(t) : handler'[g] = handler[g]
  PROVE  AloneInv(t)'
<1>1. ASSUME NEW g \in Writers(t)'
      PROVE  WriterInv(g, t)'
  <2>1. WriterInv(g, t) /\ handler'[g] = handler[g]
    BY DEF AloneInv
  <2>2. QED
    BY <2>1 DEF WriterInv
<1>2. QED
  BY <1>1 DEF AloneInv

\* A handler at a link moves on, or is through.
LEMMA WriterMoves ==
  ASSUME Typed, NEW h \in Handlers, NEW pc \in Linking \cup {"idle"},
         handler[h].pc \in Linking, Goto(h, pc),
         NEW t \in Telegrams
  PROVE  /\ t # handler[h].telegram =>
              Writers(t)' = Writers(t) /\ \A g \in Writers(t) : handler'[g] = handler[g]
         /\ t = handler[h].telegram =>
              /\ h \in Writers(t)
              /\ Writers(t)' = IF pc = "idle" THEN Writers(t) \ {h} ELSE Writers(t)
         /\ handler'[h].pc = pc
         /\ pc # "idle" => handler'[h].user = handler[h].user
<1>1. handler[h] \in Handler /\ handler \in [Handlers -> Handler]
  BY DEF Typed, TypeOK
<1>2. \A g \in Handlers : g # h => handler'[g] = handler[g]
  BY <1>1 DEF Goto
<1>3. "idle" \notin Linking
  BY DEF Linking
<1>4. CASE pc = "idle"
  <2>1. handler'[h].pc = "idle"
    BY <1>1, <1>4 DEF Goto, Idle
  <2>2. QED
    BY <1>2, <1>3, <1>4, <2>1 DEF Writers
<1>5. CASE pc # "idle"
  <2>1. handler'[h] = [handler[h] EXCEPT !.pc = pc]
    BY <1>1, <1>5 DEF Goto
  <2>2. handler'[h].pc = pc /\ handler'[h].telegram = handler[h].telegram
        /\ handler'[h].user = handler[h].user
    BY <1>1, <2>1 DEF Handler
  <2>3. QED
    BY <1>2, <1>5, <2>2 DEF Writers
<1>6. QED
  BY <1>4, <1>5

\* One that is at no link, and goes to none.
LEMMA BystanderMoves ==
  ASSUME Typed, NEW h \in Handlers, handler[h].pc \notin Linking, handler'[h].pc \notin Linking,
         \A g \in Handlers : g # h => handler'[g] = handler[g],
         NEW t \in Telegrams
  PROVE  Writers(t)' = Writers(t) /\ \A g \in Writers(t) : handler'[g] = handler[g]
BY DEF Writers

\* One that takes up a link at which nobody is.
LEMMA EngageAlone ==
  ASSUME Typed, NEW h \in Handlers, NEW t \in Telegrams, NEW pc \in Linking,
         handler[h].pc \notin Linking, Engage(h, t, pc)
  PROVE  /\ t \notin crossed' => Writers(t) = {} /\ Writers(t)' = {h}
         /\ handler'[h].pc = pc /\ handler'[h].user = handler[h].user
         /\ \A s \in Telegrams : s # t =>
              Writers(s)' = Writers(s) /\ \A g \in Writers(s) : handler'[g] = handler[g]
<1>1. handler[h] \in Handler /\ handler \in [Handlers -> Handler]
  BY DEF Typed, TypeOK
<1>2. handler'[h] = [handler[h] EXCEPT !.pc = pc, !.telegram = t]
  BY <1>1 DEF Engage
<1>3. handler'[h].pc = pc /\ handler'[h].user = handler[h].user /\ handler'[h].telegram = t
  BY <1>1, <1>2 DEF Handler
<1>4. \A g \in Handlers : g # h => handler'[g] = handler[g]
  BY <1>1 DEF Engage
<1>5. t \notin crossed' => Writers(t) = {}
  BY DEF Engage
<1>6. Writers(t)' = Writers(t) \cup {h}
  BY <1>3, <1>4 DEF Writers
<1>7. QED
  BY <1>3, <1>4, <1>5, <1>6 DEF Writers

LEMMA LinkInit == Init => LinkInv
<1>1. SUFFICES ASSUME Init
               PROVE  LinkInv
  OBVIOUS
<1>2. \A t \in Telegrams : Writers(t) = {}
  BY <1>1 DEF Init, Idle, Writers, Linking
<1>3. \A v \in Users : forward[v] \notin Telegrams
  BY <1>1, IdentityAssumption DEF Init
<1>4. QED
  BY <1>2, <1>3, TypingInit, <1>1 DEF LinkInv, AloneInv

LEMMA LinkStep == LinkInv /\ [Next]_vars => LinkInv'
<1> SUFFICES ASSUME LinkInv, [Next]_vars
             PROVE  LinkInv'
  OBVIOUS
<1>a. Typed /\ Typed'
  BY TypingStep DEF LinkInv
<1>b. \A h \in Handlers : handler[h] \in Handler /\ Bound(h)
  BY <1>a DEF Typed, TypeOK
<1>c. ASSUME NEW h \in Handlers, Step(h), NEW g \in Handlers, g # h
      PROVE  handler'[g] = handler[g]
  BY <1>a, <1>c, OthersStay
<1>d. SUFFICES ASSUME NEW t \in Telegrams, t \notin crossed'
               PROVE  AloneInv(t)'
  BY <1>a DEF LinkInv
<1>e. None \notin Users /\ None \notin Telegrams
  BY IdentityAssumption
<1>f. crossed \subseteq crossed'
  BY DEF Next, Step, GenerateOtp, PutOtp, PutOwner, Link, LookUp, AskTask, AskLink, Consume,
         PutForward, PutReverse, CleanUp, Unlink, ReadForward, DeleteForward, DeleteReverse,
         Message, Resolve, Route, FindNoTask, FindStaleTask, DeleteTask, StartTask, PutTask,
         CallFails, OtpLapses, FleetStep, ContainerPuts, ContainerEnds, WatchdogDeletes, Engage,
         vars, ghosts
<1>g. AloneInv(t)
  BY <1>d, <1>f DEF LinkInv
<1>1. ASSUME NEW h \in Handlers,
             \/ GenerateOtp(h) \/ PutOtp(h) \/ PutOwner(h) \/ Link(h) \/ LookUp(h) \/ AskTask(h)
             \/ Unlink(h) \/ Message(h) \/ Resolve(h) \/ Route(h) \/ OwnStep(h)
      PROVE  AloneInv(t)'
  <2>a. OwnStep(h) => /\ UNCHANGED rows /\ handler[h].pc \notin Linking
                      /\ \E pc \in {"start task", "delete task", "put task", "idle"} : Goto(h, pc)
    BY OwnStepGoes DEF At, Linking
  <2>1. UNCHANGED <<forward, reverse>>
    BY <1>1, <2>a DEF GenerateOtp, PutOtp, PutOwner, Link, LookUp, AskTask, Unlink, Message, Resolve, Route,
                rows
  <2>2. handler[h].pc \notin Linking
    BY <1>1, <2>a DEF GenerateOtp, PutOtp, PutOwner, Link, LookUp, AskTask, Unlink, Message, Resolve, Route,
                Begin, At, Linking
  <2>3. handler'[h].pc \notin Linking
    <3>1. CASE PutOtp(h) \/ PutOwner(h) \/ AskTask(h) \/ Route(h) \/ OwnStep(h)
      <4>1. PICK pc \in {"put owner", "idle", "ask link", "start task", "delete task", "put task"} :
              Goto(h, pc)
        BY <2>a, <3>1 DEF PutOtp, PutOwner, AskTask, Route
      <4>2. QED
        BY <1>a, <4>1, GotoEffect DEF Linking
    <3>2. CASE GenerateOtp(h) \/ Link(h) \/ Unlink(h) \/ Message(h)
      <4>1. handler'[h].pc \in {"put otp", "look up", "read forward", "resolve"}
        BY <1>a, <3>2, BeginEffect
      <4>2. QED
        BY <4>1 DEF Linking
    <3>3. CASE LookUp(h)
      <4> DEFINE owner == otpOwner[handler[h].code]
                 pc == IF runtime = "lambda" THEN "ask link" ELSE "ask task"
      <4>1. CASE owner = None
        BY <1>a, <3>3, <4>1 DEF LookUp, Idle, Linking, Typed, TypeOK
      <4>2. CASE owner # None
        <5>1. handler'[h] = [handler[h] EXCEPT !.user = owner.user, !.turn = owner.turn, !.pc = pc]
          BY <1>a, <3>3, <4>2 DEF LookUp, Typed, TypeOK
        <5>2. handler'[h].pc = pc
          BY <1>b, <5>1 DEF Handler
        <5>3. QED
          BY <5>2 DEF Linking
      <4>3. QED
        BY <4>1, <4>2
    <3>4. CASE Resolve(h)
      <4>1. PICK target : handler'[h] = [handler[h] EXCEPT !.pc = "route", !.target = target]
        BY <1>a, <3>4 DEF Resolve, Typed, TypeOK
      <4>2. QED
        BY <1>b, <4>1 DEF Linking, Handler
    <3>5. QED
      BY <1>1, <3>1, <3>2, <3>3, <3>4
  <2>4. Writers(t)' = Writers(t) /\ \A g \in Writers(t) : handler'[g] = handler[g]
    <3>1. Step(h)
      BY <1>1 DEF Step, OwnStep
    <3>2. QED
      BY <1>a, <1>c, <2>2, <2>3, <3>1, BystanderMoves
  <2>5. QED
    BY <1>g, <2>1, <2>4, LinkFrame
<1>2. ASSUME NEW h \in Handlers, AskLink(h) \/ ReadForward(h)
      PROVE  AloneInv(t)'
  <2>1. UNCHANGED <<forward, reverse>> /\ handler[h].pc \notin Linking
    BY <1>2 DEF AskLink, ReadForward, rows, At, Linking
  <2>2. CASE Goto(h, "idle")
    <3>1. handler'[h].pc \notin Linking
      BY <1>a, <2>2 DEF Goto, Idle, Linking, Typed, TypeOK
    <3>2. Writers(t)' = Writers(t) /\ \A g \in Writers(t) : handler'[g] = handler[g]
      BY <1>2, <1>a, <1>c, <2>1, <3>1, BystanderMoves DEF Step
    <3>3. QED
      BY <1>g, <2>1, <3>2, LinkFrame
  <2>3. CASE AskLink(h) /\ ~Goto(h, "idle")
    <3> DEFINE s == handler[h].telegram
               u == handler[h].user
    <3>1. s \in Telegrams /\ "consume" \in Linking
      BY <1>b, <2>3 DEF AskLink, At, Bound, Linking
    <3>2. Engage(h, s, "consume") /\ reverse[s] \in {None, u}
      BY <2>3 DEF AskLink
    <3>3. CASE s # t
      <4>1. Writers(t)' = Writers(t) /\ \A g \in Writers(t) : handler'[g] = handler[g]
        BY <1>a, <2>1, <3>1, <3>2, <3>3, EngageAlone
      <4>2. QED
        BY <1>g, <2>1, <4>1, LinkFrame
    <3>4. CASE s = t
      <4>1. /\ Writers(t) = {} /\ Writers(t)' = {h}
            /\ handler'[h].pc = "consume" /\ handler'[h].user = u
        BY <1>a, <1>d, <2>1, <3>1, <3>2, <3>4, EngageAlone
      <4>2. \A v \in Users : forward[v] = t => reverse[t] = v
        BY <1>g, <4>1 DEF AloneInv
      <4>3. WriterInv(h, t)'
        BY <2>1, <3>2, <3>4, <4>1, <4>2 DEF WriterInv
      <4>4. QED
        BY <4>1, <4>3 DEF AloneInv
    <3>5. QED
      BY <3>3, <3>4
  <2>4. CASE ReadForward(h) /\ ~Goto(h, "idle")
    <3> DEFINE u == handler[h].user
               s == forward[u]
    <3>1. u \in Users /\ "delete forward" \in Linking
      BY <1>b, <2>4 DEF ReadForward, At, Bound, Linking
    <3>2. Engage(h, s, "delete forward") /\ s \in Telegrams
      BY <1>a, <2>4, <3>1 DEF ReadForward, Typed, TypeOK
    <3>3. CASE s # t
      <4>1. Writers(t)' = Writers(t) /\ \A g \in Writers(t) : handler'[g] = handler[g]
        BY <1>a, <2>1, <3>1, <3>2, <3>3, EngageAlone, ZenonT(60)
      <4>2. QED
        BY <1>g, <2>1, <4>1, LinkFrame
    <3>4. CASE s = t
      <4>1. /\ Writers(t) = {} /\ Writers(t)' = {h}
            /\ handler'[h].pc = "delete forward" /\ handler'[h].user = u
        BY <1>a, <1>d, <2>1, <3>1, <3>2, <3>4, EngageAlone
      <4>2. \A v \in Users : forward[v] = t => v = u
        BY <1>g, <3>1, <3>4, <4>1 DEF AloneInv
      <4>3. WriterInv(h, t)'
        BY <2>1, <4>1, <4>2 DEF WriterInv
      <4>4. QED
        BY <4>1, <4>3 DEF AloneInv
    <3>5. QED
      BY <3>3, <3>4
  <2>5. QED
    BY <1>2, <2>2, <2>3, <2>4
<1>3. ASSUME NEW h \in Handlers,
             \/ Consume(h) \/ PutForward(h) \/ PutReverse(h) \/ CleanUp(h) \/ DeleteForward(h)
             \/ DeleteReverse(h)
      PROVE  AloneInv(t)'
  <2> DEFINE s == handler[h].telegram
             u == handler[h].user
  <2>1. PICK pc \in Linking \cup {"idle"} :
          /\ Goto(h, pc)
          /\ pc = "put forward" => Consume(h)
          /\ pc = "put reverse" => PutForward(h)
          /\ pc = "clean up" => PutReverse(h)
          /\ pc = "delete reverse" => DeleteForward(h)
          /\ pc \notin {"consume", "delete forward"}
    <3>0. Linking \cup {"idle"} = {"consume", "put forward", "put reverse", "clean up",
                                 "delete forward", "delete reverse", "idle"}
      BY DEF Linking
    <3> USE <3>0
    <3>1. CASE \/ Consume(h) /\ Goto(h, "idle")
               \/ CleanUp(h) \/ DeleteReverse(h)
      <4>1. Goto(h, "idle") /\ "idle" \in Linking \cup {"idle"}
        BY <3>1 DEF CleanUp, DeleteReverse
      <4>2. WITNESS "idle" \in Linking \cup {"idle"}
      <4>3. QED
        BY <4>1
    <3>2. CASE Consume(h) /\ Goto(h, "put forward")
      <4>1. Goto(h, "put forward") /\ "put forward" \in Linking \cup {"idle"}
        BY <3>2
      <4>2. WITNESS "put forward" \in Linking \cup {"idle"}
      <4>3. QED
        BY <3>2, <4>1
    <3>3. CASE PutForward(h)
      <4>1. Goto(h, "put reverse") /\ "put reverse" \in Linking \cup {"idle"}
        BY <3>3 DEF PutForward
      <4>2. WITNESS "put reverse" \in Linking \cup {"idle"}
      <4>3. QED
        BY <3>3, <4>1
    <3>4. CASE PutReverse(h)
      <4>1. Goto(h, "clean up") /\ "clean up" \in Linking \cup {"idle"}
        BY <3>4 DEF PutReverse
      <4>2. WITNESS "clean up" \in Linking \cup {"idle"}
      <4>3. QED
        BY <3>4, <4>1
    <3>5. CASE DeleteForward(h)
      <4>1. Goto(h, "delete reverse") /\ "delete reverse" \in Linking \cup {"idle"}
        BY <3>5 DEF DeleteForward
      <4>2. WITNESS "delete reverse" \in Linking \cup {"idle"}
      <4>3. QED
        BY <3>5, <4>1
    <3>6. Consume(h) => Goto(h, "idle") \/ Goto(h, "put forward")
      BY DEF Consume
    <3>7. QED
      BY <1>3, <3>1, <3>2, <3>3, <3>4, <3>5, <3>6
  <2>2. handler[h].pc \in Linking /\ s \in Telegrams
    BY <1>b, <1>3 DEF Consume, PutForward, PutReverse, CleanUp, DeleteForward, DeleteReverse, At,
                      Linking, Bound
  <2>3. CASE s # t
    <3>1. Writers(t)' = Writers(t) /\ \A g \in Writers(t) : handler'[g] = handler[g]
      BY <1>a, <2>1, <2>2, <2>3, WriterMoves
    <3>2. reverse'[t] = reverse[t]
      BY <1>a, <1>3, <2>3 DEF Consume, PutForward, PutReverse, CleanUp, DeleteForward, DeleteReverse,
                              rows, Typed, TypeOK
    <3>3. \A v \in Users : forward'[v] = t => forward[v] = t
      BY <1>a, <1>e, <1>3, <2>3 DEF Consume, PutForward, PutReverse, CleanUp, DeleteForward,
                                    DeleteReverse, rows, Typed, TypeOK
    <3>4. QED
      BY <1>g, <3>1, <3>2, <3>3, LinkFrame
  <2>4. CASE s = t
    <3>1. /\ h \in Writers(t)
          /\ Writers(t)' = IF pc = "idle" THEN Writers(t) \ {h} ELSE Writers(t)
          /\ handler'[h].pc = pc
          /\ pc # "idle" => handler'[h].user = u
      BY <1>a, <2>1, <2>2, <2>4, WriterMoves, ZenonT(60)
    <3>2. Writers(t) = {h} /\ WriterInv(h, t)
      BY <1>g, <3>1 DEF AloneInv
    <3>3. CASE pc = "idle"
      <4>1. Writers(t)' = {}
        BY <3>1, <3>2, <3>3
      <4>2. \A v \in Users : forward'[v] = t => reverse'[t] = v
        <5>1. CASE Consume(h)
          BY <3>2, <5>1 DEF Consume, At, WriterInv
        <5>2. CASE CleanUp(h)
          BY <3>2, <5>2 DEF CleanUp, At, WriterInv, rows
        <5>3. CASE DeleteReverse(h)
          BY <3>2, <5>3 DEF DeleteReverse, At, WriterInv
        <5>4. CASE PutForward(h) \/ PutReverse(h) \/ DeleteForward(h)
          <6>1. PICK next \in {"put reverse", "clean up", "delete reverse"} : Goto(h, next)
            BY <5>4 DEF PutForward, PutReverse, DeleteForward
          <6>2. QED
            BY <1>a, <3>1, <3>3, <6>1, GotoEffect
        <5>5. QED
          BY <1>3, <5>1, <5>2, <5>3, <5>4
      <4>3. QED
        BY <4>1, <4>2 DEF AloneInv
    <3>4. CASE pc # "idle"
      <4>1. WriterInv(h, t)'
        <5>1. CASE pc = "put forward"
          BY <2>1, <3>1, <3>2, <5>1 DEF Consume, At, WriterInv
        <5>2. CASE pc = "put reverse"
          <6>1. At(h, "put forward") /\ reverse' = reverse
                /\ forward' = [forward EXCEPT ![u] = t]
            BY <2>1, <2>4, <5>2 DEF PutForward
          <6>2. \A v \in Users : forward[v] = t => v = u
            BY <1>e, <3>2, <6>1 DEF At, WriterInv
          <6>3. \A v \in Users : forward'[v] = t => v = u
            BY <1>a, <6>1, <6>2 DEF Typed, TypeOK
          <6>4. QED
            BY <3>1, <5>2, <6>3 DEF WriterInv
        <5>3. CASE pc = "clean up"
          <6>1. At(h, "put reverse") /\ forward' = forward /\ reverse'[t] = u
            BY <1>a, <2>1, <2>4, <5>3 DEF PutReverse, Typed, TypeOK
          <6>2. QED
            BY <3>1, <3>2, <5>3, <6>1 DEF WriterInv, At
        <5>4. CASE pc = "delete reverse"
          <6>1. At(h, "delete forward") /\ forward' = [forward EXCEPT ![u] = None]
            BY <2>1, <5>4 DEF DeleteForward
          <6>2. \A v \in Users : forward[v] = t => v = u
            BY <3>2, <6>1 DEF At, WriterInv
          <6>3. \A v \in Users : forward'[v] # t
            BY <1>a, <1>e, <6>1, <6>2 DEF Typed, TypeOK
          <6>4. QED
            BY <3>1, <5>4, <6>3 DEF WriterInv
        <5>5. QED
          BY <2>1, <3>4, <5>1, <5>2, <5>3, <5>4 DEF Linking
      <4>2. Writers(t)' = {h}
        BY <3>1, <3>2, <3>4
      <4>3. QED
        BY <4>1, <4>2 DEF AloneInv
    <3>5. QED
      BY <3>3, <3>4
  <2>5. QED
    BY <2>3, <2>4
<1>4. ASSUME NEW h \in Handlers, CallFails(h)
      PROVE  AloneInv(t)'
  <2>1. UNCHANGED <<forward, reverse>> /\ Goto(h, "idle")
    BY <1>4 DEF CallFails, rows
  <2>2. CASE handler[h].pc \notin Linking
    <3>1. handler'[h].pc \notin Linking
      BY <1>a, <2>1 DEF Goto, Idle, Linking, Typed, TypeOK
    <3>2. Writers(t)' = Writers(t) /\ \A g \in Writers(t) : handler'[g] = handler[g]
      BY <1>4, <1>a, <1>c, <2>2, <3>1, BystanderMoves DEF Step
    <3>3. QED
      BY <1>g, <2>1, <3>2, LinkFrame
  <2>3. CASE handler[h].pc \in Linking
    <3>1. handler[h].telegram # t
      BY <1>d, <1>4, <2>3 DEF CallFails
    <3>2. Writers(t)' = Writers(t) /\ \A g \in Writers(t) : handler'[g] = handler[g]
      BY <1>a, <2>1, <2>3, <3>1, WriterMoves
    <3>3. QED
      BY <1>g, <2>1, <3>2, LinkFrame
  <2>4. QED
    BY <2>2, <2>3
<1>5. ASSUME OtpLapses \/ FleetStep \/ UNCHANGED vars
      PROVE  AloneInv(t)'
  <2>1. UNCHANGED <<handler, forward, reverse>>
    BY <1>5 DEF OtpLapses, FleetStep, ContainerPuts, ContainerEnds, WatchdogDeletes, vars, rows
  <2>2. QED
    BY <1>g, <2>1, LinkFrame DEF Writers
<1>6. QED
  BY <1>1, <1>2, <1>3, <1>4, <1>5 DEF Next, Step, OwnStep

\* The account that the Web shows as linked is linked, unless two handlers have mixed
\* at its link or one has failed there.  The order of the writes carries it: forward
\* before reverse on the way in, forward first on the way out, and whoever links reads
\* the reverse row before he writes.
THEOREM LinksWork == Spec => []ShownLinkWorks
<1>1. LinkInv => ShownLinkWorks
  <2>1. SUFFICES ASSUME LinkInv, NEW u \in Users, forward[u] # None, forward[u] \notin crossed,
                        Writers(forward[u]) = {}
                 PROVE  reverse[forward[u]] = u
    BY DEF ShownLinkWorks
  <2>2. forward[u] \in Telegrams
    BY <2>1 DEF LinkInv, Typed, TypeOK
  <2>3. AloneInv(forward[u])
    BY <2>1, <2>2 DEF LinkInv
  <2>4. QED
    BY <2>1, <2>3 DEF AloneInv
<1>2. QED
  BY <1>1, LinkInit, LinkStep, PTL DEF Spec
=============================================================================
