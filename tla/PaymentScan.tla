------------------------------ MODULE PaymentScan ------------------------------
(***************************************************************************)
(* How packages/container/src/gmail-tool.ts looks for payments in a mailbox: *)
(* one query or two, wider when the first is too narrow, bodies only when   *)
(* headers do not tell.  All of it is a function of the mailbox, which is a *)
(* sequence of mails, newest first; the mails of others than payments that  *)
(* no query finds are left out.                                             *)
(*                                                                         *)
(* A mail is of one period, is found by the precise query or only by the    *)
(* broad one, has an amount or not, and shows its trip and its card issuer  *)
(* in the header, in the body only, or nowhere.  There is one trip.         *)
(***************************************************************************)
EXTENDS Integers, Sequences, SequencesExt, FiniteSets

CONSTANTS
  Budget,          \* maxMessages of the e-mail budget
  DefaultScan,     \* paymentScanMessages, DEFAULT_PAYMENT_SCAN_MESSAGES
  MaxScan,         \* MAX_PAYMENT_SCAN_MESSAGES
  ExtendedScan,    \* EXTENDED_PAYMENT_SCAN_MESSAGES
  TopicScan,       \* DEFAULT_TOPIC_CANDIDATE_MESSAGES
  WideTopicScan,   \* EXPANDED_TOPIC_CANDIDATE_MESSAGES
  BodyChecks,      \* MAX_TOPIC_BODY_CHECKS
  WideBudget,      \* the budget from which a short summary is searched again,
  FewRecords       \* and how few records make it short

ASSUME LimitsAssumption ==
  /\ {Budget, DefaultScan, MaxScan, ExtendedScan, TopicScan, WideTopicScan, BodyChecks}
       \subseteq Nat \ {0}
  /\ {WideBudget, FewRecords} \subseteq Nat
  /\ DefaultScan <= MaxScan /\ MaxScan <= ExtendedScan /\ TopicScan <= WideTopicScan

Periods == {"any", "week", "month"}
Shown == {"header", "body", "nowhere"}

Mails == [id: Nat, period: Periods \ {"any"}, precise: BOOLEAN, paid: BOOLEAN,
          trip: Shown, issuer: Shown]

AtMost(n, s) == SubSeq(s, 1, IF Len(s) < n THEN Len(s) ELSE n)

\* What a sequence has at some of its positions, in its order.  (It is SelectSeq
\* without its recursion, so that it can be reasoned about.)
Nth(places, n) == CHOOSE i \in places : Cardinality({j \in places : j <= i}) = n
Picked(s, places) == [n \in 1..Cardinality(places) |-> s[Nth(places, n)]]

Larger(a, b) == IF a > b THEN a ELSE b
Smaller(a, b) == IF a < b THEN a ELSE b

-----------------------------------------------------------------------------
(* Messages, as the patterns see them: what they match, and the period they    *)
(* name.  A goal may be two messages, one after the other.                      *)

Is(m, sign) == sign \in m.signs

\* isBroadPaymentSummaryRequest
Broad(m) == m.period # "any" /\ Is(m, "sum")

\* buildDateRange of two texts at once: this week is looked for first.
BothPeriods(a, b) ==
  IF "week" \in {a, b} THEN "week" ELSE IF "month" \in {a, b} THEN "month" ELSE "any"

Joined(m, n) == [signs |-> m.signs \cup n.signs, period |-> BothPeriods(m.period, n.period)]

-----------------------------------------------------------------------------
(* One list call, and two.                                                      *)

\* buildPaymentSearchQuery
Query(m, precise, trip) == [period |-> m.period, precise |-> precise, trip |-> trip]

Matches(mail, q) ==
  /\ q.period \in {"any", mail.period}
  /\ q.precise => mail.precise
  /\ q.trip => mail.trip # "nowhere"

Matching(box, q) == Picked(box, {i \in DOMAIN box : Matches(box[i], q)})

\* buildPaymentRecord
Records(mails) == Picked(mails, {i \in DOMAIN mails : mails[i].paid})

Result(mails, estimate) == [mails |-> mails, records |-> Records(mails), estimate |-> estimate]

\* fetchPaymentMessages
Fetch(box, q, max) == Result(AtMost(max, Matching(box, q)), Len(Matching(box, q)))

\* Mutant: a mail that both queries find is there twice.
AcrossTwice(box, q, wider, max) ==
  LET first == AtMost(max, Matching(box, q))
      second == AtMost(max - Len(first), Matching(box, wider))
  IN  Result(first \o second, Larger(Len(Matching(box, q)), Len(Matching(box, wider))))

\* fetchPaymentMessagesAcrossQueries.  The second call asks for what is missing,
\* and gets mails again that the first one had.
Across(box, q, wider, max) ==
  LET first == AtMost(max, Matching(box, q))
      second == AtMost(max - Len(first), Matching(box, wider))
      new == Picked(second, {i \in DOMAIN second : second[i] \notin Range(first)})
  IN  IF Len(first) = max THEN Result(first, Len(Matching(box, q)))
      ELSE Result(first \o new, Larger(Len(Matching(box, q)), Len(Matching(box, wider))))

-----------------------------------------------------------------------------
(* Bodies.  A mail whose body was read shows what is in it.                     *)

Read(mail) ==
  [mail EXCEPT !.trip = IF @ = "body" THEN "header" ELSE @,
               !.issuer = IF @ = "body" THEN "header" ELSE @]

Ids(mails) == {mails[i].id : i \in DOMAIN mails}

\* Mutant: every doubtful mail is opened.
OpenAll(records, doubtful) ==
  [records |-> [i \in DOMAIN records |->
                  IF records[i] \in Range(doubtful) THEN Read(records[i]) ELSE records[i]],
   bodies |-> Len(doubtful)]

Open(records, doubtful) ==
  LET opened == AtMost(BodyChecks, doubtful)
  IN  [records |-> [i \in DOMAIN records |->
                      IF records[i] \in Range(opened) THEN Read(records[i]) ELSE records[i]],
       bodies |-> Len(opened)]

\* scoreTravelRecord, filterRecordsByTopic
OnTrip(records, trip) ==
  Picked(records, {i \in DOMAIN records : trip => records[i].trip = "header"})
OffTrip(records) == Picked(records, {i \in DOMAIN records : records[i].trip # "header"})

\* refineRecordsWithBodyChecks, refineUnknownIssuersWithBodyChecks
ReadForTrip(records) == Open(records, OffTrip(records))
NoIssuer(records) == Picked(records, {i \in DOMAIN records : records[i].issuer # "header"})
ReadForIssuer(records) ==
  LET opened == Open(records, NoIssuer(records))
  IN  [opened EXCEPT !.records =
         [i \in DOMAIN records |-> [records[i] EXCEPT !.issuer = opened.records[i].issuer]]]

-----------------------------------------------------------------------------
(* The search of runGmailTask.                                                  *)

\* resolvePaymentScanLimit
ScanLimit(m) ==
  CASE Is(m, "deep") -> ExtendedScan
    [] ~Is(m, "deep") /\ (Is(m, "expanded") \/ Broad(m)) -> MaxScan
    [] OTHER -> Smaller(Larger(Budget, DefaultScan), MaxScan)

\* resolvePaymentCoverageScanLimit
CoverageLimit(m, coverage) ==
  IF Is(m, "deep") THEN ExtendedScan ELSE IF coverage THEN MaxScan ELSE ScanLimit(m)

FewCandidates(m) == Larger(IF Is(m, "expanded") THEN MaxScan ELSE Budget, TopicScan)
ManyCandidates(m) == Larger(FewCandidates(m), WideTopicScan)

Stages == {"headers", "expanded", "precise", "short", "cut", "none", "few", "many", "wide", "done"}

Hunts == [stage: Stages, trip: BOOLEAN, mails: Seq(Mails), records: Seq(Mails),
          estimate: Nat, limit: Nat,
          bodies: Nat]       \* how many were read, those read before among them

NewHunt(stage, trip, limit) ==
  [stage |-> stage, trip |-> trip, mails |-> <<>>, records |-> <<>>, estimate |-> 0,
   limit |-> limit, bodies |-> 0]

StartHunt(m, family) ==
  CASE family # "payment" -> NewHunt("headers", FALSE, Budget)
    [] family = "payment" /\ Is(m, "trip") -> NewHunt("few", TRUE, FewCandidates(m))
    [] family = "payment" /\ ~Is(m, "trip") /\ Is(m, "expanded") ->
         NewHunt("expanded", FALSE, ScanLimit(m))
    [] OTHER -> NewHunt("precise", FALSE, ScanLimit(m))

With(h, found) ==
  [h EXCEPT !.mails = found.mails, !.records = found.records, !.estimate = found.estimate]

\* A search of the broad query is taken if it has more.
IfMore(h, found, more) == IF more THEN With(h, found) ELSE h

\* One search of searchTopicAwarePaymentCandidates, of a trip or of no topic at
\* all: bodies are read when no header shows the trip.
WithTrip(h, found) ==
  IF OnTrip(found.records, h.trip) # <<>>
  THEN [With(h, found) EXCEPT !.records = OnTrip(found.records, h.trip)]
  ELSE LET opened == ReadForTrip(found.records)
       IN  [With(h, found) EXCEPT !.records = OnTrip(opened.records, h.trip),
                                  !.bodies = h.bodies + opened.bodies]

\* The calls of a stage.
Precise(m) == Query(m, TRUE, FALSE)
BroadQuery(m) == Query(m, FALSE, FALSE)
Called(box, m, h) ==
  CASE h.stage = "headers" -> With(h, Fetch(box, BroadQuery(m), h.limit))
    [] h.stage = "precise" -> With(h, Fetch(box, Precise(m), h.limit))
    [] h.stage \in {"expanded", "cut"} -> With(h, Across(box, Precise(m), BroadQuery(m), h.limit))
    [] h.stage \in {"few", "many"} -> WithTrip(h, Fetch(box, Query(m, TRUE, h.trip), h.limit))
    [] h.stage = "wide" -> WithTrip(h, Fetch(box, Precise(m), h.limit))
    [] h.stage \in {"short", "none"} ->
         LET found == Fetch(box, BroadQuery(m), ScanLimit(m))
         IN  IfMore(h, found, \/ Len(found.mails) > Len(h.mails)
                              \/ Len(found.records) > Len(h.records))

\* A summary that came out short is searched again with the broad query;
TooShort(m, h) ==
  /\ Broad(m) /\ Budget >= WideBudget
  /\ h.limit >= DefaultScan /\ Len(h.records) < FewRecords

\* a scan that may have been cut short is made wider (shouldAutoExpandPaymentScan);
MoreThere(h) == h.estimate > Len(h.mails) \/ Len(h.mails) >= h.limit
MayBeCut(h) == h.limit < MaxScan /\ MoreThere(h)

\* and the candidates of a trip are made more, when they were cut short.
MayHaveMore(h) == h.records # <<>> /\ h.limit < WideTopicScan /\ MoreThere(h)

OrNone(h) == [h EXCEPT !.stage = IF h.records = <<>> THEN "none" ELSE "done"]
OrCut(h) == IF MayBeCut(h) THEN [h EXCEPT !.stage = "cut", !.limit = MaxScan] ELSE OrNone(h)

\* The stage that follows the calls.
Onward(m, h) ==
  CASE h.stage = "precise" -> IF TooShort(m, h) THEN [h EXCEPT !.stage = "short"] ELSE OrCut(h)
    [] h.stage = "short" -> OrCut(h)
    [] h.stage = "cut" -> OrNone(h)
    [] h.stage = "few" /\ MayHaveMore(h) ->
         [h EXCEPT !.stage = "many", !.limit = ManyCandidates(m)]
    [] \/ h.stage = "few" /\ ~MayHaveMore(h) /\ h.trip /\ h.records = <<>>
       \/ h.stage = "many" /\ h.trip /\ h.records = <<>> ->
         [h EXCEPT !.stage = "wide", !.limit = ManyCandidates(m)]
    [] OTHER -> [h EXCEPT !.stage = "done"]

\* What a search for the task leaves: of a trip, only the mails of its payments.
Kept(h) ==
  IF h.trip THEN Picked(h.mails, {i \in DOMAIN h.mails : h.mails[i].id \in Ids(h.records)})
  ELSE h.mails
=============================================================================
