---------------------------- MODULE ToolCallLedger ----------------------------
(***************************************************************************)
(* What the bridge promises about tool calls, without queues, sessions'    *)
(* lifetimes, timers or HTTP requests: a call the Agent issues belongs to  *)
(* one session, is told to a client at most once, is answered at most once *)
(* and only after the client was told, and ends exactly once, returned to  *)
(* the Agent only if it was answered.                                      *)
(***************************************************************************)
CONSTANTS Calls, Sessions, None

VARIABLES
  stage,   \* none, issued, announced, answered, returned, failed
  owner    \* the session a call belongs to, None before it is issued

ledger == <<stage, owner>>

Stages == {"none", "issued", "announced", "answered", "returned", "failed"}
Open == {"issued", "announced", "answered"}

Init ==
  /\ stage = [c \in Calls |-> "none"]
  /\ owner = [c \in Calls |-> None]

Move(S, to) == stage' = [c \in Calls |-> IF c \in S THEN to ELSE stage[c]]

Issue(c, s) ==
  /\ stage[c] = "none"
  /\ Move({c}, "issued")
  /\ owner' = [owner EXCEPT ![c] = s]

Announce(S) ==
  /\ \A c \in S : stage[c] = "issued"
  /\ Move(S, "announced")
  /\ UNCHANGED owner

\* One client request answers calls of one session.
Answer(S, s) ==
  /\ \A c \in S : stage[c] = "announced" /\ owner[c] = s
  /\ Move(S, "answered")
  /\ UNCHANGED owner

Return(c) ==
  /\ stage[c] = "answered"
  /\ Move({c}, "returned")
  /\ UNCHANGED owner

Fail(c) ==
  /\ stage[c] \in Open
  /\ Move({c}, "failed")
  /\ UNCHANGED owner

Next ==
  \/ \E c \in Calls :
       \/ \E s \in Sessions : Issue(c, s)
       \/ Return(c)
       \/ Fail(c)
  \/ \E S \in SUBSET Calls :
       \/ Announce(S)
       \/ \E s \in Sessions : Answer(S, s)

Spec == Init /\ [][Next]_ledger
===============================================================================
