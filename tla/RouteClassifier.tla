--------------------------- MODULE RouteClassifier ---------------------------
(***************************************************************************)
(* packages/gateway/src/services/route-classifier.ts and the affinity      *)
(* patterns of message.ts.  A message is the set of the patterns it        *)
(* matches; the regular expressions themselves are left out.               *)
(***************************************************************************)

Signals ==
  {"hint", "bare",              \* starts with /heavy or /fargate; has nothing after it
   "howTo", "target", "explicitTarget", "action", "billing",
   "sensitive", "temporal", "personal", "lookup",
   "cancel", "handoff", "topicSwitch", "followUp", "generalChat",
   "image"}                     \* a photo came with it

Matches(m, signals) == m \cap signals # {}

\* A how-to question about files, pages or messages is not about private ones.
HasPrivateDataTarget(m) ==
  /\ "target" \in m
  /\ "howTo" \in m => "explicitTarget" \in m

HasAmbiguousPersonalLookup(m) ==
  "lookup" \in m /\ Matches(m, {"sensitive", "billing", "temporal", "personal"})

ClassifyRouteRuntimeClass(m) ==
  LET tool == \/ "hint" \in m
              \/ /\ "howTo" \notin m
                 /\ \/ HasPrivateDataTarget(m) /\ "action" \in m
                    \/ {"billing", "sensitive"} \subseteq m
                    \/ HasAmbiguousPersonalLookup(m)
  IN  IF tool THEN "tool-enabled" ELSE "chat-only"

\* Does a message that comes while a tool session is open belong to it?
ShouldKeepToolAffinity(m) ==
  /\ ~Matches(m, {"handoff", "topicSwitch"})
  /\ \/ ClassifyRouteRuntimeClass(m) = "tool-enabled"
     \/ "followUp" \in m
     \/ "generalChat" \notin m
=============================================================================
