---------------------------- MODULE RoutingContext ----------------------------
(***************************************************************************)
(* packages/gateway/src/services/routing-context.ts: the Settings rows     *)
(* active-tool:<channel> of one user, which keep a tool session on the     *)
(* runtime that serves it.  A row is put and deleted blindly, never under  *)
(* a condition, by requests that read it some calls before.                *)
(***************************************************************************)
CONSTANTS Channels, NoContext

\* There is a channel: "web" and "telegram".
ASSUME ChannelsAssumption == Channels # {}

Providers == {"agentcore", "fargate"}

VARIABLE context   \* the row of each channel

\* What buildToolRuntimeAffinityState writes and the router reads again.
Affinity ==
  [provider: Providers,
   fallback: Providers \cup {"none"},   \* fallbackProvider, once the session is locked
   fresh: BOOLEAN]                      \* expiresAt has not passed

GetRoutingContext(c) == context[c]

PutRoutingContext(c, row) == context' = [context EXCEPT ![c] = row]

DeleteRoutingContext(c) == context' = [context EXCEPT ![c] = NoContext]

BuildAffinity(provider, fallback) ==
  [provider |-> provider, fallback |-> fallback, fresh |-> TRUE]

\* Mutant: only a locked session has a provider.
ReplayFallback(row) == row.fallback

ReplayProvider(row) == IF row.fallback # "none" THEN row.fallback ELSE row.provider

\* Thirty minutes without a message.
Lapse(c) ==
  /\ context[c] # NoContext
  /\ context[c].fresh
  /\ context' = [context EXCEPT ![c].fresh = FALSE]

\* The ttl of a lapsed row: DynamoDB deletes it, sooner or later.
TtlDelete(c) ==
  /\ context[c] # NoContext
  /\ ~context[c].fresh
  /\ context' = [context EXCEPT ![c] = NoContext]

ContextTypeOK == context \in [Channels -> Affinity \cup {NoContext}]

ContextInit == context = [c \in Channels |-> NoContext]
=============================================================================
