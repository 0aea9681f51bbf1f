--------------------------- MODULE ResponsesBridge ---------------------------
(***************************************************************************)
(* The stateful bridge of core/responses_bridge.py between a Tabbit Agent  *)
(* task and a tool-calling client, with the two HTTP adapters that drive   *)
(* it (routes/responses_api.py and routes/chat_agent_bridge.py).           *)
(*                                                                         *)
(* One process, one asyncio event loop: everything between two awaits that *)
(* suspend is one step.  Four kinds of task interleave:                    *)
(*   - a runner per session (_run_agent), fed by the upstream Agent;       *)
(*   - a relay call per tool call (relay_call), an MCP request that stays  *)
(*     open until its future is resolved or its timer fires;               *)
(*   - a client request (create_response, handle) that starts a session or *)
(*     submits tool outputs and then reads one turn;                       *)
(*   - close_session, run by whichever request expires or abandons a       *)
(*     session, and by the lifespan task at shutdown.                      *)
(*                                                                         *)
(* Identifiers (uuid4 in the code) are numbered in the order they are      *)
(* drawn.  That keeps the one fact about them the code relies on: a dict   *)
(* iterates in insertion order, and timers started earlier fire earlier.   *)
(***************************************************************************)
EXTENDS Naturals, Sequences, FiniteSets

CONSTANTS
  MaxSessions,   \* bound: sessions ever started
  MaxCalls,      \* bound: relay calls ever accepted
  MaxOutputs,    \* bound: tool outputs in one client request
  MaxAttempts,   \* MAX_NATIVE_ROUTE_ATTEMPTS: 2 in the code
  Requests,      \* client requests that can be in progress at once
  Routes         \* the adapters clients use

ASSUME BoundsAssumption ==
  /\ MaxSessions \in Nat
  /\ MaxCalls \in Nat
  /\ MaxOutputs \in Nat
  /\ MaxAttempts \in Nat \ {0}
  /\ Routes \subseteq {"responses", "chat"}

Sessions == 1 .. MaxSessions
Calls == 1 .. MaxCalls
\* Every start and every accepted continuation names a response, and an
\* accepted continuation answers at least one call: the bound is never met.
Responses == 1 .. (MaxSessions + MaxCalls)
None == 0

\* A queued turn: one relay call, or one of the three ways a runner ends.
EndKinds == {"message", "agent_error", "native_error"}
CallTurn(c) == [kind |-> "function_call", call |-> c]
EndTurn(k) == [kind |-> k, call |-> None]
Turns == {CallTurn(c) : c \in Calls} \cup {EndTurn(k) : k \in EndKinds}
IsEnd(turn) == turn.kind # "function_call"

VARIABLES
  \* ResponsesBridge
  sessions,         \* keys of _sessions
  callSession,      \* _call_sessions: call -> session, None when absent
  responseSession,  \* _response_sessions: response -> session, None when absent
  \* BridgeSession, per session
  runner,           \* the task: none, booting, running, cancelling, done
  attempt,          \* _run_agent's loop variable
  native,           \* native_tools is not empty in this attempt; gone with the task
  dispatchCount,    \* dispatch_count
  dispatchBefore,   \* dispatch_count_before of this attempt
  outcomes,         \* the asyncio.Queue of turns
  pending,          \* keys of pending_calls
  responseIds,      \* response_ids
  idle,             \* open sessions whose touched_at is older than the TTL
  \* relay_call, per call
  relay,            \* unused, waiting, expired, returned, failed, timedout
  result,           \* the future: unset, output, error
  callOwner,        \* the session relay_call holds, None before
  \* client requests
  pc,               \* idle, opened, first, window (reading); expiring,
                    \* abandoning, stopping (closing sessions, then go on to
                    \* insert one, re-raise, or end the process)
  at,               \* the session a request reads from or is closing
  batch,            \* calls collected by next_turn
  todo,             \* sessions a closing loop has still to close
  serving,          \* FALSE once the lifespan task is closing everything
  nextSession,
  nextResponse,
  \* what is outside the process
  announced,        \* calls whose turn reached a client
  reports           \* token health reports made for a session

indexVars == <<sessions, callSession, responseSession, responseIds>>
agentVars == <<runner, attempt, native, dispatchCount, dispatchBefore>>
callVars == <<relay, result, callOwner, pending>>
requestVars == <<pc, at, batch, todo>>
idVars == <<serving, nextSession, nextResponse>>
clientVars == <<announced, reports>>
vars == <<indexVars, agentVars, outcomes, idle, callVars, requestVars, idVars,
          clientVars>>

Init ==
  /\ sessions = {}
  /\ callSession = [c \in Calls |-> None]
  /\ responseSession = [r \in Responses |-> None]
  /\ runner = [s \in Sessions |-> "none"]
  /\ attempt = [s \in Sessions |-> 1]
  /\ native = [s \in Sessions |-> FALSE]
  /\ dispatchCount = [s \in Sessions |-> 0]
  /\ dispatchBefore = [s \in Sessions |-> 0]
  /\ outcomes = [s \in Sessions |-> <<>>]
  /\ pending = [s \in Sessions |-> {}]
  /\ responseIds = [s \in Sessions |-> {}]
  /\ idle = {}
  /\ relay = [c \in Calls |-> "unused"]
  /\ result = [c \in Calls |-> "unset"]
  /\ callOwner = [c \in Calls |-> None]
  /\ pc = [h \in Requests |-> "idle"]
  /\ at = [h \in Requests |-> None]
  /\ batch = [h \in Requests |-> {}]
  /\ todo = [h \in Requests |-> {}]
  /\ serving = TRUE
  /\ nextSession = 1
  /\ nextResponse = 1
  /\ announced = {}
  /\ reports = [s \in Sessions |-> 0]

-----------------------------------------------------------------------------
(* Helpers shared by the actions.                                          *)

\* session.closed: set by the runner's finally clause, in the step in which
\* the task ends, and by close_session only after the task has ended.
Closed(s) == runner[s] = "done"

\* session.touched_at = time.time()
Touch(s) == idle' = idle \ {s}

\* Mutated form: the turn is queued inside a tuple.
PutNested(s, turn) == outcomes' = [outcomes EXCEPT ![s] = Append(@, <<turn>>)]

Put(s, turn) == outcomes' = [outcomes EXCEPT ![s] = Append(@, turn)]

\* Mutated form: nobody fails the futures of a session that goes away.
ResolveOutputsOnly(C, value) ==
  result' = [c \in Calls |-> IF c \in C /\ value = "output" THEN value ELSE result[c]]

\* _fail_pending_calls and close_session: resolve what is still unresolved.
Resolve(C, value) ==
  result' = [c \in Calls |-> IF c \in C /\ result[c] = "unset" THEN value
                                                                ELSE result[c]]

PendingIn(S) == UNION {pending[s] : s \in S}

Reading(h) == pc[h] \in {"opened", "first", "window"}
Closing(h) == pc[h] \in {"expiring", "abandoning", "stopping"}

Leave(h) ==
  /\ pc' = [pc EXCEPT ![h] = "idle"]
  /\ at' = [at EXCEPT ![h] = None]

-----------------------------------------------------------------------------
(* Closing sessions.                                                       *)

\* The synchronous half of close_session for every session of D, up to the
\* await of a cancelled runner, together with the insertion of the sessions N
\* (none, or the new one) and their first response ids R.
Retire(D, N, R) ==
  /\ sessions' = (sessions \ D) \cup N
  /\ runner' = [s \in Sessions |->
                  IF s \in N THEN "booting"
                  ELSE IF s \in D /\ ~Closed(s) THEN "cancelling" ELSE runner[s]]
  /\ idle' = idle \ D
  /\ pending' = [s \in Sessions |-> IF s \in D THEN {} ELSE pending[s]]
  /\ callSession' = [c \in Calls |-> IF c \in PendingIn(D) THEN None
                                                           ELSE callSession[c]]
  /\ Resolve(PendingIn(D), "error")
  /\ responseIds' = [s \in Sessions |-> IF s \in N THEN R ELSE responseIds[s]]
  /\ responseSession' =
       [r \in Responses |->
          IF r \in R THEN nextSession
          ELSE IF \E s \in D : r \in responseIds[s] THEN None
          ELSE responseSession[r]]

\* The response a Responses request binds in the step that hands it a session.
NewResponse(route) == IF route = "responses" THEN {nextResponse} ELSE {}

\* Request h starts to read from s: a StreamingResponse is handed over before
\* next_turn is called, a plain request calls it at once.
BeginReading(h, s) ==
  /\ \E p \in {"opened", "first"} : pc' = [pc EXCEPT ![h] = p]
  /\ at' = [at EXCEPT ![h] = s]

\* start() past cleanup_expired, having closed D in this step.
Insert(h, D) ==
  \E route \in Routes :
    /\ nextSession \in Sessions /\ nextResponse \in Responses
    /\ Retire(D, {nextSession}, NewResponse(route))
    /\ BeginReading(h, nextSession)
    /\ nextSession' = nextSession + 1
    /\ nextResponse' = nextResponse + Cardinality(NewResponse(route))
    /\ todo' = [todo EXCEPT ![h] = {}]

\* close_session for each session of T in turn.  A session whose runner has
\* ended is closed without suspending; the first one with a live runner makes
\* the loop wait, with the rest of its (already computed) list to come.
CloseInTurn(h, T, loop) ==
  LET live == {s \in T : ~Closed(s)} IN
  \/ \E s \in live :
       /\ \A t \in live : s <= t
       /\ Retire({t \in T : t <= s}, {}, {})
       /\ pc' = [pc EXCEPT ![h] = loop]
       /\ at' = [at EXCEPT ![h] = s]
       /\ todo' = [todo EXCEPT ![h] = {t \in T : t > s}]
       /\ UNCHANGED <<nextSession, nextResponse>>
  \/ /\ live = {} /\ loop = "expiring"
     /\ Insert(h, T)
  \/ /\ live = {} /\ loop # "expiring"
     /\ Retire(T, {}, {})
     /\ Leave(h)
     /\ todo' = [todo EXCEPT ![h] = {}]
     /\ UNCHANGED <<nextSession, nextResponse>>

\* A request without tool outputs: start(), whose cleanup_expired comes first.
Start(h) ==
  /\ serving
  /\ pc[h] = "idle"
  /\ nextSession + Cardinality({g \in Requests : pc[g] = "expiring"}) <= MaxSessions
  /\ CloseInTurn(h, idle, "expiring")
  /\ UNCHANGED <<attempt, native, dispatchCount, dispatchBefore, outcomes,
                 relay, callOwner, batch, serving, clientVars>>

\* The runner that close_session was waiting for has ended.
CloseContinues(h) ==
  /\ Closing(h)
  /\ Closed(at[h])
  /\ CloseInTurn(h, todo[h], pc[h])
  /\ UNCHANGED <<attempt, native, dispatchCount, dispatchBefore, outcomes,
                 relay, callOwner, batch, serving, clientVars>>

\* The client of a reading request goes away.  Inside next_turn the request is
\* cancelled and closes its session; before next_turn is reached the stream
\* generator is dropped where it stands and nothing is closed.
ClientGone(h) ==
  /\ Reading(h)
  /\ batch' = [batch EXCEPT ![h] = {}]
  /\ \/ /\ pc[h] = "opened"
        /\ Leave(h)
        /\ UNCHANGED <<indexVars, runner, pending, result, idle, todo,
                       nextSession, nextResponse>>
     \/ /\ pc[h] \in {"first", "window"}
        /\ CloseInTurn(h, {at[h]}, "abandoning")
  /\ UNCHANGED <<attempt, native, dispatchCount, dispatchBefore, outcomes,
                 relay, callOwner, serving, announced, reports>>

\* close_all(), once the server has drained its requests; h stands for the
\* lifespan task.
Shutdown(h) ==
  /\ serving
  /\ \A g \in Requests : pc[g] = "idle"
  /\ \A c \in Calls : relay[c] \notin {"waiting", "expired"}
  /\ serving' = FALSE
  /\ CloseInTurn(h, sessions, "stopping")
  /\ UNCHANGED <<attempt, native, dispatchCount, dispatchBefore, outcomes,
                 relay, callOwner, batch, clientVars>>

\* The session TTL passes without touched_at being written.
TtlElapses(s) ==
  /\ s \in sessions \ idle
  /\ idle' = idle \cup {s}
  /\ UNCHANGED <<indexVars, agentVars, outcomes, callVars, requestVars, idVars,
                 clientVars>>

-----------------------------------------------------------------------------
(* The runner: _run_agent.                                                 *)

\* create_chat_session and bootstrap_task have returned.
AgentBoots(s) ==
  /\ runner[s] = "booting"
  /\ runner' = [runner EXCEPT ![s] = "running"]
  /\ UNCHANGED <<indexVars, attempt, native, dispatchCount, dispatchBefore,
                 outcomes, idle, callVars, requestVars, idVars, clientVars>>

\* An event that does not end the task; it may name an upstream-native tool.
AgentEvent(s) ==
  /\ runner[s] = "running"
  /\ Touch(s)
  /\ \E seen \in BOOLEAN : native' = [native EXCEPT ![s] = @ \/ seen]
  /\ UNCHANGED <<indexVars, runner, attempt, dispatchCount, dispatchBefore,
                 outcomes, callVars, requestVars, idVars, clientVars>>

\* The finally clause of the task, and the end of its locals.
RunnerEnds(s) ==
  /\ runner' = [runner EXCEPT ![s] = "done"]
  /\ native' = [native EXCEPT ![s] = FALSE]
  /\ Touch(s)

\* An error, audit_failure or task_limit event, or an exception at any await:
\* one error turn, every unresolved future of the session failed, task over.
AgentFails(s) ==
  /\ runner[s] \in {"booting", "running"}
  /\ Put(s, EndTurn("agent_error"))
  /\ Resolve(pending[s], "error")
  /\ RunnerEnds(s)
  /\ UNCHANGED <<indexVars, attempt, dispatchCount, dispatchBefore, relay,
                 callOwner, pending, requestVars, idVars, clientVars>>

\* Mutated form: a dispatched call does not excuse a native tool.
NativeRouteDespiteDispatch(s, claims) == native[s] \/ claims

\* should_retry_native_route: nothing was dispatched in this attempt, and a
\* native tool ran or the text claims a cloud artifact.
NativeRoute(s, claims) ==
  /\ ~(dispatchCount[s] > dispatchBefore[s])
  /\ native[s] \/ claims

\* task_completed with an acceptable route.
AgentCompletes(s) ==
  /\ runner[s] = "running"
  /\ \E claims \in BOOLEAN : ~NativeRoute(s, claims)
  /\ Put(s, EndTurn("message"))
  /\ RunnerEnds(s)
  /\ UNCHANGED <<indexVars, attempt, dispatchCount, dispatchBefore, callVars,
                 requestVars, idVars, clientVars>>

\* task_completed through a native route only: discard it and try once more.
AgentRetries(s) ==
  /\ runner[s] = "running"
  /\ attempt[s] < MaxAttempts
  /\ \E claims \in BOOLEAN : NativeRoute(s, claims)
  /\ Touch(s)
  /\ attempt' = [attempt EXCEPT ![s] = @ + 1]
  /\ native' = [native EXCEPT ![s] = FALSE]
  /\ dispatchBefore' = [dispatchBefore EXCEPT ![s] = dispatchCount[s]]
  /\ runner' = [runner EXCEPT ![s] = "booting"]
  /\ UNCHANGED <<indexVars, dispatchCount, outcomes, callVars, requestVars, idVars,
                 clientVars>>

\* The same in the last attempt: an error turn; pending futures are left alone.
AgentRejected(s) ==
  /\ runner[s] = "running"
  /\ attempt[s] = MaxAttempts
  /\ \E claims \in BOOLEAN : NativeRoute(s, claims)
  /\ Put(s, EndTurn("native_error"))
  /\ RunnerEnds(s)
  /\ UNCHANGED <<indexVars, attempt, dispatchCount, dispatchBefore, callVars,
                 requestVars, idVars, clientVars>>

\* Mutated form: the attempt loop swallows the cancellation and goes on.
RunnerIgnoresCancel(s) ==
  /\ runner[s] = "cancelling"
  /\ runner' = [runner EXCEPT ![s] = "running"]
  /\ UNCHANGED <<indexVars, attempt, native, dispatchCount, dispatchBefore,
                 outcomes, idle, callVars, requestVars, idVars, clientVars>>

\* The cancelled task ends: no turn is queued.
RunnerCancelled(s) ==
  /\ runner[s] = "cancelling"
  /\ RunnerEnds(s)
  /\ UNCHANGED <<indexVars, attempt, dispatchCount, dispatchBefore, outcomes,
                 callVars, requestVars, idVars, clientVars>>

-----------------------------------------------------------------------------
(* The relay: relay_call, one MCP request per call.                        *)

\* The next call_id to be drawn.
Fresh(c) == relay[c] = "unused" /\ \A d \in Calls : d < c => relay[d] # "unused"

\* Mutated form: a session whose task has ended still takes calls.
RelayableAfterEnd(s) == s \in sessions

\* relay_call's check of the session.
Relayable(s) == s \in sessions /\ ~Closed(s)

\* The agent calls an allowed tool with well-formed arguments; any other
\* request is answered with an error and changes nothing.
RelayCall(c, s) ==
  /\ serving
  /\ Fresh(c)
  /\ Relayable(s)
  /\ dispatchCount' = [dispatchCount EXCEPT ![s] = @ + 1]
  /\ pending' = [pending EXCEPT ![s] = @ \cup {c}]
  /\ Touch(s)
  /\ callSession' = [callSession EXCEPT ![c] = s]
  /\ callOwner' = [callOwner EXCEPT ![c] = s]
  /\ relay' = [relay EXCEPT ![c] = "waiting"]
  /\ Put(s, CallTurn(c))
  /\ UNCHANGED <<sessions, responseSession, responseIds, runner, attempt, native,
                 dispatchBefore, result, requestVars, idVars, clientVars>>

\* Mutated form: the relay waits without a timeout.
TimerNever(c) == FALSE

\* The timer of wait_for is running and no earlier one is.
TimerDue(c) ==
  /\ relay[c] = "waiting"
  /\ result[c] = "unset"
  /\ \A d \in Calls : d < c => ~(relay[d] = "waiting" /\ result[d] = "unset")

\* The timer of wait_for fires before the future is resolved.  All relay calls
\* wait equally long, so the timers fire in the order they were started.
TimerFires(c) ==
  /\ TimerDue(c)
  /\ relay' = [relay EXCEPT ![c] = "expired"]
  /\ UNCHANGED <<indexVars, agentVars, outcomes, idle, result, callOwner, pending,
                 requestVars, idVars, clientVars>>

\* Mutated form: a failed future is handed to the Agent as a result.
RelayAnswerUnchecked(c) == IF relay[c] = "expired" THEN "timedout" ELSE "returned"

\* What relay_call answers when it runs again.  A timer that has fired wins,
\* whatever the future holds by then.
RelayAnswer(c) ==
  IF relay[c] = "expired" THEN "timedout"
  ELSE IF result[c] = "output" THEN "returned" ELSE "failed"

\* Mutated form: the finally clause leaves the entry of _call_sessions.
ForgetPendingOnly(c) ==
  /\ pending' = [pending EXCEPT ![callOwner[c]] = @ \ {c}]
  /\ UNCHANGED callSession
  /\ Touch(callOwner[c])

\* The finally clause of relay_call.
Forget(c) ==
  /\ pending' = [pending EXCEPT ![callOwner[c]] = @ \ {c}]
  /\ callSession' = [callSession EXCEPT ![c] = None]
  /\ Touch(callOwner[c])

RelayResumes(c) ==
  /\ \/ relay[c] = "expired"
     \/ relay[c] = "waiting" /\ result[c] # "unset"
  /\ relay' = [relay EXCEPT ![c] = RelayAnswer(c)]
  /\ Forget(c)
  /\ UNCHANGED <<sessions, responseSession, responseIds, agentVars, outcomes,
                 result, callOwner, requestVars, idVars, clientVars>>

\* The MCP client goes away and its request is cancelled.
RelayAborted(c) ==
  /\ relay[c] \in {"waiting", "expired"}
  /\ relay' = [relay EXCEPT ![c] = "failed"]
  /\ Forget(c)
  /\ UNCHANGED <<sessions, responseSession, responseIds, agentVars, outcomes,
                 result, callOwner, requestVars, idVars, clientVars>>

-----------------------------------------------------------------------------
(* Continuations: tool outputs submitted by a client.                      *)

\* The call ids a client can send: of calls it was told about.
Outputs == UNION {[1 .. n -> announced] : n \in 1 .. MaxOutputs}

Named(outs) == {outs[i] : i \in DOMAIN outs}

\* The sessions that _call_sessions has for the given calls.
Candidates(outs) == {callSession[c] : c \in Named(outs)} \ {None}

\* session_for_continuation: by previous_response_id, else by the calls if
\* they agree on one session.
ContinuedSession(r, outs) ==
  IF r # None /\ responseSession[r] # None THEN {responseSession[r]}
  ELSE IF Cardinality(Candidates(outs)) = 1 THEN Candidates(outs) ELSE {}

\* Mutated form: submit_outputs does not ask for every pending call.
MissingIgnored(s, outs) == pending[s] \cap Named(outs) \cap {None}

\* submit_outputs.  The outputs are applied in order until one of them names a
\* call that is not pending or already resolved.
Missing(s, outs) == pending[s] \ Named(outs)

Applies(s, outs, i) ==
  /\ outs[i] \in pending[s]
  /\ result[outs[i]] = "unset"
  /\ \A j \in 1 .. (i - 1) : outs[j] # outs[i]

Applied(s, outs) ==
  {outs[i] : i \in {k \in DOMAIN outs : \A j \in 1 .. k : Applies(s, outs, j)}}

Accepted(s, outs) ==
  /\ Missing(s, outs) = {}
  /\ \A i \in DOMAIN outs : Applies(s, outs, i)

\* submit_outputs succeeds and the request goes on to read the next turn.
Submit(h, s, outs, R) ==
  /\ Accepted(s, outs)
  /\ Resolve(Named(outs), "output")
  /\ Touch(s)
  /\ responseIds' = [responseIds EXCEPT ![s] = @ \cup R]
  /\ responseSession' = [r \in Responses |-> IF r \in R THEN s
                                                        ELSE responseSession[r]]
  /\ nextResponse' = nextResponse + Cardinality(R)
  /\ BeginReading(h, s)
  /\ UNCHANGED <<sessions, callSession, agentVars, outcomes, relay, callOwner,
                 pending, batch, todo, serving, nextSession, clientVars>>

\* submit_outputs raises after the first outputs took effect; the request is
\* answered with 400.  (When none took effect nothing changes.)
SubmitFailsPartway(s, outs) ==
  /\ Missing(s, outs) = {}
  /\ ~Accepted(s, outs)
  /\ Applied(s, outs) # {}
  /\ Resolve(Applied(s, outs), "output")
  /\ UNCHANGED <<indexVars, agentVars, outcomes, idle, relay, callOwner, pending,
                 requestVars, idVars, clientVars>>

\* POST /v1/responses with function_call_output items.
ContinueResponse(h, r, outs) ==
  /\ serving /\ "responses" \in Routes
  /\ pc[h] = "idle"
  /\ \E s \in ContinuedSession(r, outs) \cap sessions :
       \/ nextResponse \in Responses /\ Submit(h, s, outs, {nextResponse})
       \/ SubmitFailsPartway(s, outs)

\* POST /v1/chat/completions with role=tool messages: the session is found by
\* the calls alone, and outputs of calls no longer pending are left out.
ContinueChat(h, outs) ==
  /\ serving /\ "chat" \in Routes
  /\ pc[h] = "idle"
  /\ Cardinality(Candidates(outs)) = 1
  /\ \E s \in Candidates(outs) \cap sessions :
       LET live == SelectSeq(outs, LAMBDA c : c \in pending[s]) IN
       /\ live \in Outputs   \* some are left
       /\ \/ Submit(h, s, live, {})
          \/ SubmitFailsPartway(s, live)

-----------------------------------------------------------------------------
(* Reading a turn: next_turn and what the adapters do with it.             *)

\* The streaming response has sent response.created and calls next_turn.
StreamReads(h) ==
  /\ pc[h] = "opened"
  /\ pc' = [pc EXCEPT ![h] = "first"]
  /\ UNCHANGED <<indexVars, agentVars, outcomes, idle, callVars, at, batch, todo,
                 idVars, clientVars>>

\* Mutated form: the turn stays in the queue.
Peek(s) == s \in Sessions /\ UNCHANGED outcomes

Take(s) == outcomes' = [outcomes EXCEPT ![s] = Tail(@)]

\* Mutated form: an end that arrives within the window is swallowed.
SwallowEnd(s) == Take(s)

\* The queued turn is taken out and put back at the end.
PutBack(s) == outcomes' = [outcomes EXCEPT ![s] = Append(Tail(@), Head(@))]

\* The request is answered; the answer may be lost on its way to the client,
\* and then announced stays as it is.  A relay call whose timer has fired
\* resumes within the next rounds of the loop: before an answer that is sent
\* now can reach a client.
Answer(h, calls) ==
  /\ \A c \in Calls : relay[c] # "expired"
  /\ Leave(h)
  /\ batch' = [batch EXCEPT ![h] = {}]
  /\ announced' \in {announced, announced \cup calls}

\* The first turn is an end: it is returned and the token's health reported.
TakeEnd(h) ==
  /\ pc[h] = "first"
  /\ outcomes[at[h]] # <<>>
  /\ IsEnd(Head(outcomes[at[h]]))
  /\ Take(at[h])
  /\ reports' = [reports EXCEPT ![at[h]] = @ + 1]
  /\ Leave(h)
  /\ UNCHANGED <<indexVars, agentVars, idle, callVars, batch, todo, idVars,
                 announced>>

\* A call, the first or one that arrived within the batch window: it joins the
\* batch and the window starts again.
TakeCall(h) ==
  /\ pc[h] \in {"first", "window"}
  /\ outcomes[at[h]] # <<>>
  /\ ~IsEnd(Head(outcomes[at[h]]))
  /\ Take(at[h])
  /\ batch' = [batch EXCEPT ![h] = @ \cup {Head(outcomes[at[h]]).call}]
  /\ pc' = [pc EXCEPT ![h] = "window"]
  /\ UNCHANGED <<indexVars, agentVars, idle, callVars, at, todo, idVars,
                 clientVars>>

\* An end arrives within the window: it goes back to the end of the queue and
\* the calls are returned.
PutBackEnd(h) ==
  /\ pc[h] = "window"
  /\ outcomes[at[h]] # <<>>
  /\ IsEnd(Head(outcomes[at[h]]))
  /\ PutBack(at[h])
  /\ Answer(h, batch[h])
  /\ UNCHANGED <<indexVars, agentVars, idle, callVars, todo, idVars,
                 reports>>

\* The window passes and the queue is still empty.
WindowCloses(h) ==
  /\ pc[h] = "window"
  /\ outcomes[at[h]] = <<>>
  /\ Answer(h, batch[h])
  /\ UNCHANGED <<indexVars, agentVars, outcomes, idle, callVars, todo,
                 idVars, reports>>

-----------------------------------------------------------------------------

SessionStep(s) ==
  \/ AgentBoots(s) \/ AgentEvent(s) \/ AgentFails(s) \/ AgentCompletes(s)
  \/ AgentRetries(s) \/ AgentRejected(s) \/ RunnerCancelled(s) \/ TtlElapses(s)
  \/ \E c \in Calls : RelayCall(c, s)

CallStep(c) == TimerFires(c) \/ RelayResumes(c) \/ RelayAborted(c)

RequestStep(h) ==
  \/ Start(h) \/ CloseContinues(h) \/ ClientGone(h) \/ Shutdown(h)
  \/ StreamReads(h) \/ TakeEnd(h) \/ TakeCall(h) \/ PutBackEnd(h)
  \/ WindowCloses(h)
  \/ \E outs \in Outputs :
       \/ ContinueChat(h, outs)
       \/ \E r \in 0 .. nextResponse - 1 : ContinueResponse(h, r, outs)

Next ==
  \/ \E s \in Sessions : SessionStep(s)
  \/ \E c \in Calls : CallStep(c)
  \/ \E h \in Requests : RequestStep(h)

Spec == Init /\ [][Next]_vars

\* The event loop runs what is ready and fires what is due.  Nothing is
\* assumed of the Agent or of the clients.
Fairness ==
  /\ \A s \in Sessions : WF_vars(RunnerCancelled(s))
  /\ \A c \in Calls : WF_vars(TimerFires(c)) /\ WF_vars(RelayResumes(c))
  /\ \A h \in Requests :
       /\ WF_vars(CloseContinues(h))
       /\ WF_vars(StreamReads(h))
       /\ WF_vars(TakeEnd(h))
       /\ WF_vars(TakeCall(h))
       /\ WF_vars(PutBackEnd(h) \/ WindowCloses(h))

FairSpec == Spec /\ Fairness

-----------------------------------------------------------------------------
(* Properties.                                                             *)

TypeOK ==
  /\ sessions \subseteq Sessions
  /\ callSession \in [Calls -> Sessions \cup {None}]
  /\ responseSession \in [Responses -> Sessions \cup {None}]
  /\ runner \in [Sessions -> {"none", "booting", "running", "cancelling", "done"}]
  /\ attempt \in [Sessions -> 1 .. MaxAttempts]
  /\ native \in [Sessions -> BOOLEAN]
  /\ dispatchCount \in [Sessions -> Nat]
  /\ dispatchBefore \in [Sessions -> Nat]
  /\ outcomes \in [Sessions -> Seq(Turns)]
  /\ pending \in [Sessions -> SUBSET Calls]
  /\ responseIds \in [Sessions -> SUBSET Responses]
  /\ idle \subseteq sessions
  /\ relay \in [Calls -> {"unused", "waiting", "expired", "returned", "failed",
                          "timedout"}]
  /\ result \in [Calls -> {"unset", "output", "error"}]
  /\ callOwner \in [Calls -> Sessions \cup {None}]
  /\ pc \in [Requests -> {"idle", "opened", "first", "window", "expiring",
                         "abandoning", "stopping"}]
  /\ at \in [Requests -> Sessions \cup {None}]
  /\ \A h \in Requests : pc[h] # "idle" => at[h] \in Sessions
  /\ batch \in [Requests -> SUBSET Calls]
  /\ todo \in [Requests -> SUBSET Sessions]
  /\ serving \in BOOLEAN
  /\ nextSession \in Nat \ {0}
  /\ nextResponse \in Nat \ {0}
  /\ announced \subseteq Calls
  /\ reports \in [Sessions -> Nat]

\* The three indexes agree: a call is found by _call_sessions exactly while it
\* is in pending_calls of its own, still registered, session; a response id is
\* found exactly while its session is registered.
IndexesAgree ==
  /\ \A s \in Sessions, c \in Calls :
       /\ callSession[c] = s <=> c \in pending[s]
       /\ c \in pending[s] => s \in sessions /\ callOwner[c] = s
  /\ \A s \in Sessions, r \in Responses :
       responseSession[r] = s <=> s \in sessions /\ r \in responseIds[s]

\* A relay request whose future is unresolved can still be answered: its call
\* is pending in a registered session.  (Otherwise the Agent's MCP request
\* could only run into its timeout.)
UnresolvedCallIsPending ==
  \A c \in Calls :
    relay[c] = "waiting" /\ result[c] = "unset" =>
      callOwner[c] \in sessions /\ c \in pending[callOwner[c]]

\* A runner's end is the last turn of its session: nothing is queued behind
\* it, and it exists only once the runner has ended.
EndIsLast ==
  \A s \in Sessions : \A i \in DOMAIN outcomes[s] :
    IsEnd(outcomes[s][i]) => i = Len(outcomes[s]) /\ Closed(s)

\* A registered session whose runner has ended by itself either still has
\* its one end turn queued or has reported the token's health for it, once.
EndReportedOnce ==
  \A s \in sessions : Closed(s) =>
    LET queued == {i \in DOMAIN outcomes[s] : IsEnd(outcomes[s][i])} IN
    Cardinality(queued) + reports[s] = 1

\* No runner outlives its session: a task that still talks to the Agent belongs
\* to a registered session, and a cancelled one is awaited by whoever closes it.
NoRunnerLeaks ==
  \A s \in Sessions :
    /\ runner[s] \in {"booting", "running"} => s \in sessions
    /\ runner[s] = "cancelling" => \E h \in Requests : Closing(h) /\ at[h] = s

\* The native-route error is only given when no call of the session was ever
\* dispatched, so no relay call is left waiting by it.
NativeErrorMeansNoDispatch ==
  \A s \in Sessions : \A i \in DOMAIN outcomes[s] :
    outcomes[s][i].kind = "native_error" => dispatchCount[s] = 0 /\ pending[s] = {}

\* An Agent error leaves no future of the session unresolved.
AgentErrorFailsCalls ==
  \A s \in Sessions : \A i \in DOMAIN outcomes[s] :
    outcomes[s][i].kind = "agent_error" =>
      \A c \in pending[s] : result[c] # "unset"

\* No call is handed out twice: it is queued at most once, or held by one
\* reader, or known to a client.
QueuedCalls(s) ==
  {i \in DOMAIN outcomes[s] : ~IsEnd(outcomes[s][i])}

CallHandedOutOnce ==
  \A c \in Calls :
    LET queued == {p \in Sessions \X (1 .. MaxCalls) :
                     p[2] \in QueuedCalls(p[1]) /\ outcomes[p[1]][p[2]].call = c}
        held == {h \in Requests : c \in batch[h]}
        known == {c} \cap announced
    IN Cardinality(queued) + Cardinality(held) + Cardinality(known) <= 1

\* At most one request reads a session's turns, so no two requests split the
\* turns of one session.
OneReader ==
  \A g, h \in Requests : Reading(g) /\ Reading(h) /\ at[g] = at[h] => g = h

\* While a request reads a session, every call of it a client was told about
\* has been answered or has ended: a continuation never races its predecessor.
ReaderHasAllAnswers ==
  \A h \in Requests : Reading(h) =>
    \A c \in pending[at[h]] \cap announced : result[c] # "unset"

\* The tool calls of the bridge implement the ledger.
stage == [c \in Calls |->
            CASE relay[c] = "unused" -> "none"
              [] relay[c] = "returned" -> "returned"
              [] relay[c] \in {"failed", "timedout"} -> "failed"
              [] OTHER -> IF result[c] = "output" THEN "answered"
                          ELSE IF c \in announced THEN "announced" ELSE "issued"]

Ledger == INSTANCE ToolCallLedger WITH owner <- callOwner
ImplementsLedger == Ledger!Spec

\* Every relay request is answered: by a result, an error or its timer.
RelayCallsEnd ==
  \A c \in Calls : relay[c] \in {"waiting", "expired"} ~>
                     relay[c] \notin {"waiting", "expired"}

\* close_session, cleanup_expired and close_all terminate.
ClosingEnds == \A h \in Requests : Closing(h) ~> ~Closing(h)

\* A request that reads a session whose runner has ended by itself is answered.
EndReleasesReader ==
  \A h \in Requests :
    Reading(h) /\ at[h] \in sessions /\ Closed(at[h]) ~> ~Reading(h)

-----------------------------------------------------------------------------
(* What the documentation promises and the code does not keep.             *)

Unanswered(s) == {c \in pending[s] \cap announced : result[c] = "unset"}
NobodyReads(s) == \A h \in Requests : ~(Reading(h) /\ at[h] = s)

\* The client "receives the pending call, executes it locally, and submits"
\* (module docstring): when a client is to answer the calls it knows, no other
\* call of the session is pending behind an unread turn.
NoCallStranded ==
  \A s \in sessions : Unanswered(s) # {} /\ NobodyReads(s) =>
    \A i \in QueuedCalls(s) : outcomes[s][i].call \notin pending[s]

\* "Accept a later function_call_output and deliver it to the pending relay
\* invocation" (design, Phase 2): an accepted output is not lost to the timer.
AcceptedOutputDelivered ==
  \A c \in Calls : relay[c] = "timedout" => result[c] # "output"
=============================================================================
