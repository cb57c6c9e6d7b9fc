------------------------------ MODULE ToolContext ------------------------------
(***************************************************************************)
(* Where packages/container/src/gmail-tool.ts keeps the Gmail task of one   *)
(* user between two messages: in the memory of the process, and, with       *)
(* TOOL_CONTEXT_STORE set, in a row of the Settings table that the          *)
(* processes (AgentCore, Fargate, the next container) share.  The last list *)
(* of mails is in memory only.                                              *)
(*                                                                         *)
(* Time is an age: a context is Fresh within the time its records may be    *)
(* reused, Stale after it, and gone after DEFAULT_CONTEXT_TTL_MS: memory    *)
(* drops it when it is next looked at, the row keeps a context that is Over. *)
(***************************************************************************)
EXTENDS Integers, Sequences

CONSTANTS Processes, NoContext, Over

Fresh == 0
Stale == 1

VARIABLES
  memory,   \* taskContextByUser of each process
  search,   \* lastSearchContextByUser of each process
  row       \* the item of the Settings table

storeVars == <<memory, search, row>>

Valid(c) == c \notin {NoContext, Over}
Touched(c) == [c EXCEPT !.age = Fresh]

NoSearch == [mails |-> <<>>, age |-> Stale]

StoreInit ==
  /\ memory = [p \in Processes |-> NoContext]
  /\ search = [p \in Processes |-> NoSearch]
  /\ row = NoContext

\* loadTaskContextFromStore, when the Get has come back with c.
Keep(p, c) == memory' = [memory EXCEPT ![p] = c] /\ UNCHANGED <<search, row>>

\* setTaskContext and clearTaskContext: memory at once, then the call.
SetMemory(p, c) == memory' = [memory EXCEPT ![p] = c] /\ UNCHANGED <<search, row>>
ClearMemory(p) == SetMemory(p, NoContext)

\* Mutant: the row stays when its context is cleared.
WriteOverOnly(c) == row' = (IF c = NoContext THEN row ELSE c) /\ UNCHANGED <<memory, search>>

WriteRow(c) == row' = c /\ UNCHANGED <<memory, search>>

\* setSearchContext, and the context of the task that goes with it.
SetSearch(p, mails, c) ==
  /\ search' = [search EXCEPT ![p] = [mails |-> mails, age |-> Fresh]]
  /\ memory' = [memory EXCEPT ![p] = c]
  /\ UNCHANGED row

\* getSearchContext
LastMails(p) == search[p].mails

\* A process ends and its successor starts with nothing.
Forget(p) ==
  /\ memory' = [memory EXCEPT ![p] = NoContext]
  /\ search' = [search EXCEPT ![p] = NoSearch]
  /\ UNCHANGED row

Aged(c, over) ==
  CASE Valid(c) /\ c.age = Fresh -> [c EXCEPT !.age = Stale]
    [] Valid(c) /\ c.age = Stale -> over
    [] OTHER -> c

TimePasses ==
  /\ memory' = [p \in Processes |-> Aged(memory[p], NoContext)]
  /\ search' = [p \in Processes |-> Aged(search[p], NoSearch)]
  /\ row' = Aged(row, Over)
=============================================================================
