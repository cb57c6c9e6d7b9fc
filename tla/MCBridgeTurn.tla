----------------------------- MODULE MCBridgeTurn -----------------------------
(* Small instances of BridgeTurn. *)
EXTENDS BridgeTurn, TLC

CONSTANTS t1, t2, web, chat1

\* Whatever is for the general questions goes to the primary model at once.
MCPrimaryFirst ==
  {[agentCore |-> TRUE, unified |-> FALSE, bedrock |-> TRUE, primary |-> TRUE],
   [agentCore |-> FALSE, unified |-> TRUE, bedrock |-> TRUE, primary |-> TRUE]}

MCAnyDeployment == [agentCore: BOOLEAN, unified: BOOLEAN, bedrock: BOOLEAN, primary: BOOLEAN]

\* Two turns meet in a Telegram chat; those of web connections never do.
MCSharedChat ==
  {<<"message", chat1>>, <<"pending", chat1>>, <<"invocation", chat1>>, <<"response", web>>}

MCAnyArrival == Vias \X Connections

TurnSymmetry == Permutations(Turns)
=============================================================================
