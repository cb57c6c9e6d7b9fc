--------------------------- MODULE MCRuntimeRouter ---------------------------
(* A small instance of RuntimeRouter. *)
EXTENDS RuntimeRouter, TLC

CONSTANTS r1, r2, r3

MCArrivals ==
  {<<"web", {"target", "action"}>>,    \* "read my mail"
   <<"web", {"generalChat"}>>,         \* "explain recursion"
   <<"web", {"cancel"}>>,
   <<"web", {"hint", "bare"}>>,        \* "/heavy"
   <<"telegram", {"image"}>>}

Deployment(runtime, tool, assistant, callback, unified) ==
  [agentRuntime |-> runtime, toolProvider |-> tool, assistant |-> assistant,
   lambdaArn |-> runtime # "fargate", agentCoreArn |-> tool = "agentcore",
   callbackDelivery |-> callback, unified |-> unified]

MCConfigs ==
  {Deployment("both", "agentcore", "agentcore", TRUE, TRUE),
   Deployment("both", "agentcore", "lambda", TRUE, FALSE),
   Deployment("fargate", "fargate", "lambda", FALSE, TRUE),
   Deployment("lambda", "fargate", "lambda", FALSE, TRUE)}

RequestSymmetry == Permutations(Requests)
=============================================================================
