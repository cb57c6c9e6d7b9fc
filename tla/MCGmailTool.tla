----------------------------- MODULE MCGmailTool -----------------------------
(* A small instance of GmailTool: messages of the tests, with the patterns that *)
(* they match.                                                                  *)
EXTENDS GmailTool, TLC

CONSTANTS p1, p2, t1, t2

Saying(period, signs) == [signs |-> signs \cup {"short"}, period |-> period]

MCMessages ==
  {\* payments of this week, please
   Saying("week", {"payment", "sum", "sure", "lookup", "longLookup"}),
   \* how much was it last month?
   Saying("month", {"payment", "followUp", "sum", "sure", "longLookup"}),
   \* the list of my card payments
   Saying("any", {"payment", "sure", "lookup", "longLookup", "reusable"}),
   \* by issuer
   Saying("any", {"followUp", "issuer", "reusable"}),
   \* there must be more
   Saying("any", {"followUp", "coverage", "reusable"}),
   \* only what belongs to Japan
   Saying("any", {"trip", "refine", "reusable"}),
   \* open the first
   Saying("any", {"body", "reusable"}),
   \* stop
   Saying("any", {"cancel", "reusable"}),
   \* "gmail"
   Saying("any", {"gmailConfirm", "explicit"}),
   \* can you read my mails?  a general answer, then.  its attachment
   Saying("any", {"capability", "reusable"}),
   Saying("any", {"attachment", "reusable"})}

Advice(action, family, source, intent) ==
  [action |-> action, family |-> family, source |-> source, intent |-> intent]

MCDecisions ==
  {Advice("chat", "search", "general", "none"),
   Advice("capability", "search", "null", "none"),
   Advice("clarify", "payment", "null", "none"),
   Advice("rerun", "payment", "gmail", "none"),
   Advice("start", "payment", "gmail", "none"),
   Advice("gmail", "payment", "gmail", "none"),
   Advice("refine", "payment", "gmail", "refine_date")}

Mail(id, period, precise, paid, trip, issuer) ==
  [id |-> id, period |-> period, precise |-> precise, paid |-> paid, trip |-> trip, issuer |-> issuer]

MCMailboxes ==
  {<<Mail(1, "week", TRUE, TRUE, "nowhere", "body"),
     Mail(2, "month", FALSE, FALSE, "body", "nowhere"),
     Mail(3, "week", FALSE, TRUE, "body", "header"),
     Mail(4, "month", TRUE, TRUE, "header", "nowhere")>>}
=============================================================================
