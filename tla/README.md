# Formal model of Tabb2

Tabb2 is a single-process asyncio service (FastAPI) that offers the OpenAI
Chat Completions, OpenAI Responses and Claude Messages APIs on top of Tabbit
accounts. These modules model its stateful core, TLC checks them on small
instances, and TLAPS proves theorems about them for every value of the constants.

## 1. Inventory

| Part | State it keeps | Operations | What is hard about it |
|---|---|---|---|
| `core/responses_bridge.py` | sessions, id indexes, turn queue, pending futures, runner task, retry counters | `start`, `_run_agent`, `relay_call`, `next_turn`, `submit_outputs`, `bind_response`, `cleanup_expired`, `close_session`, `close_all` | four kinds of task share the state across awaits; timers race answers; closing races everything |
| `routes/responses_api.py`, `routes/chat_agent_bridge.py` | none of their own | start or continue a session, read a turn, answer, report | a client may leave at any await; answers get lost |
| `core/token_manager.py` | rotation index, cooldowns, cached clients; tokens in the config | `get_next`, `report_success`, `report_error`, cookie refresh, `remove_client`, status | requests hold a token for minutes while others report on it and the admin changes it |
| `routes/admin_api.py` | settings | token list/add/update/delete/test, settings, diagnosis, proxied features | mutates what requests in flight use |
| `routes/openai_compat.py`, `routes/claude_api.py` | bearer client cache | chat and message requests, SSE writers | stream protocol, fallback attempt, reporting |
| `core/model_registry.py` | model list, expiry, snapshot file | refresh, retry, resolve | overlapping refreshes, fallback order |
| `core/config.py` | `config.json` | load, migrate, save | a crash while saving |
| `core/claude_compat.py` | parser and writer state | `ToolifyParser`, `ClaudeSSEWriter` | every split of the text into chunks |
| `core/tabbit_client.py`, `core/tabbit_agent.py` | httpx client, cookies, clock offset | `send_message`, `bootstrap_task`, `run_task` | protocol fallback, no retry after the first chunk |
| `tabbit2api.py` | rate-limit windows | middleware, lifespan | window boundaries |
| `core/tool_policy.py`, `core/tool_events.py`, `core/log_store.py`, `core/auth.py` | small or none | pure decisions, a bounded log, hashing | little |

How the parts meet. A chat or Responses request asks the token pool for an account
(`get_client_and_token`), starts a bridge session (or talks to upstream directly), and
reports the outcome to the pool. The upstream Agent calls back over
`POST /mcp/relay`: each such HTTP request stays open in `relay_call` until a
*later* client request delivers the tool output. So one tool call spans at
least three HTTP requests and two tasks, tied together by futures, a queue and
three dictionaries.

What makes each part correct:

- **Bridge**: every relay request is answered; a call is shown to a client once, is
  answered once and only after it was shown; the indexes agree with the sessions;
  no task outlives its session; a session's end is its last turn and is
  reported once; nobody closing a session waits for ever.
- **Token pool**: the credential a cached client sends is the configured one;
  nothing is remembered of a deleted account; a status that keeps an account
  away names its way back; the rotation spreads the load; what must survive a restart does.
- **Registry**: no failure discards a usable list or changes what a known model is
  resolved to; a list from disk is known as one; a list counts as ready only within the
  TTL of its fetch or the grace window of a refresh that failed (each failure grants a new
  one, so that an old list stays ready for as long as upstream is down and is asked);
  every refresh, and with the first one the start of the service, ends.
- **Configuration**: whatever the process dies of, a service that comes up has the
  settings that were acknowledged, keeps its admin's session and lets the admin in.
- **Stream writers and parser**: blocks are started before deltas and stopped once, the
  pieces of a call's arguments join without gap or overlap, nothing follows the end of a
  message, and the stop reason tells whether a call was sent.
- **Requests to upstream**: asked once, visible from one attempt only, reported
  and logged alike.
- **Content**: within the gateway's limit, with the user's task in it.
- **Rate limiter**: nobody is served more than the limit within a window, and nobody below
  it is refused.

`PROJECT.json` lists the hazards of each part at their lines, with the property that
would catch each or the reason why none does.

## 2. Modules

| Module | Models |
|---|---|
| `ResponsesBridge` | the bridge and the two adapters that drive it |
| `ToolCallLedger` | the abstract promise about tool calls that the bridge implements |
| `MCResponsesBridge` | symmetry for TLC |
| `ResponsesBridgeProofs` | theorems about `ResponsesBridge`: types, indexes and runners; queues and ends; readers, calls and the ledger |
| `TokenPool` | the token manager, the admin's token operations, requests that hold a token |
| `MCTokenPool` | symmetry for TLC |
| `TokenPoolProofs` | theorems about `TokenPool` |
| `Excerpts` | what is selected from a list by a condition on its elements |
| `ToolProtocol` | `ToolifyParser`: triggers, calls, thoughts, loose recovery, residue |
| `SSEWriters` | `ClaudeSSEWriter` and `OpenAISSEWriter` |
| `ChatStream` | a chat request from the tool policy to its log entry; composes the two above with upstream |
| `MCChatStream` | the texts of the instance |
| `SequenceLemmas` | induction up to a number, recursive functions, selections; used by the proofs below |
| `ChatStreamProofs` | theorems about `ChatStream`, lemmas about the parser and the writers |
| `StreamArgumentsProofs`, `StreamBlocksProofs` | the pieces of arguments and the blocks of its wire. Each extends the one before it |
| `ModelRegistry` | the model list, its refreshes, the snapshot, `resolve_model` |
| `ConfigStore` | `config.json`, the start of the process, login, settings and password |
| `Gatekeeper` | the middleware: body limit and rate limits |
| `ContentBudget` | what is put in `content` and in `references`, on the chat routes and for the Agent |
| `ContentBudgetProofs` | theorems about `ContentBudget` |
| `Services`, `MCServices` | the registry, the configuration, the gate and the content together, and their instance |
| `ServicesProofs` | theorems about the registry, the configuration and the gate, and about all four together |

### ResponsesBridge

One step is what the event loop runs between two awaits that really suspend.
(`Queue.put` on an unbounded queue does not suspend, so `relay_call` up to its
`wait_for` is one step.)

| Code | Model |
|---|---|
| `_sessions`, `_call_sessions`, `_response_sessions` | `sessions`, `callSession`, `responseSession` |
| `BridgeSession.runner`, `closed` | `runner`; `Closed(s)` is derived, because both places that set `closed` do so when the task has ended |
| `outcomes`, `pending_calls`, `response_ids` | same, `pending` holds the keys |
| `touched_at` | `idle`: the open sessions whose TTL has passed since |
| `PendingRelayCall.result` and the waiting MCP request | `result[c]`, `relay[c]` |
| `_run_agent`'s locals | `attempt`, `native`, `dispatchBefore` |
| an HTTP request inside `start`, `next_turn`, `close_session` | `pc`, `at`, `batch`, `todo` |

- `start` = `Start`, and `CloseContinues` when `cleanup_expired` had to wait for a
  runner. A closing loop keeps the list it computed first (`todo`), like the code.
- `_run_agent` = `AgentBoots`, `AgentEvent`, `AgentFails`, `AgentCompletes`,
  `AgentRetries`, `AgentRejected`, `RunnerCancelled`.
- `relay_call` = `RelayCall`, then `TimerFires` / `RelayResumes` / `RelayAborted`.
  The timer and the resumption are two steps: asyncio lets other callbacks run
  between them, and the output accepted there is the finding of `bridge_lost`.
- `session_for_continuation`, `submit_outputs`, `bind_response` =
  `ContinueResponse`; `resume_session` = `ContinueChat`. A submit that raises
  half-way is `SubmitFailsPartway`: the outputs before the bad one stay applied.
- `next_turn` = `TakeEnd`, `TakeCall`, `PutBackEnd`, `WindowCloses`; a streaming
  response is `opened` until its generator calls `next_turn` (`StreamReads`).
- `close_all` = `Shutdown`, which starts only after the server drained its requests.
- `ClientGone` and the choice in `Answer` are the unreliable client: it may leave at any
  await, and an answer may be lost.

Abstracted: texts, tool names, prompts, argument parsing and catalogue
budgets. Requests that are answered with an error before they change anything are left out.
A client can send only call ids it was told about (`Outputs`); it may repeat them, mix
sessions and name any earlier response.

### ToolCallLedger

A call goes none -> issued -> announced -> answered -> returned, may fail
while open, and belongs to one session. `ImplementsLedger` refines each
step of the bridge to a ledger step or a stutter: a call is not answered before a
client knew it, not answered or announced twice, not returned without an answer, and one
client request never answers calls of two sessions.

### TokenPool

Every method of `TokenManager` runs without suspending (`get_next` takes a lock but awaits
nothing inside), so each is one action. What interleaves is the
time between taking a token and reporting on it. `save` is taken as atomic, so `entry`
is both the config in memory and the file; `Restart` keeps it and loses
`cooldowns`, `clients` and `last`. Times are kept as time left (`Tick`),
which needs no clock bound. A client object is what it sends (`sends`) and
what its cookie jar holds (`jar`): `_sync_cached_client_value` changes the first
only, and a request may hold an object that is no longer the cached one.
The rotation is said with positions: `AvailableAt` are those of the accounts that
`_get_available_tokens` returns, and `get_next` serves the first one after the last account,
if that one is among them, and the first of all otherwise.
Abstracted: both halves of a token value are one credential, and statistics,
names and error texts are left out.

### ToolProtocol, SSEWriters, ChatStream

Text is a sequence of lexemes: `x` (plain), `t1 t2` (the trigger, cut in two), the
openings of calls (`a`, `b`; `bad` lacks a required field, `alias` has it under another
name, `unnamed` has no name), `close`, `think`, `/think`, `fence`, `json`. `feed_char`
is `Feed`, one lexeme at a time, so that a chunk boundary may fall anywhere in a trigger
or a call. The parser is a record of the fields of the class, the writers of theirs;
what they yield is appended to `wire`, which is what the properties speak of. The loops of
the code (`Read` over a text, `Forwarded` over the events of the parser, `Kept` and
`Joined` over what is left at the end) are recursive functions of a position, so that
lemmas about one step carry over to any number of steps.

| Code | Model |
|---|---|
| `ToolifyParser.buffer`, `capture_buffer`, `thinking_buffer`, `events` | `parser` |
| `next_block_index`, the `*_block_open` flags, `pending_text`, `suppressed_text`, open tool blocks | `writer` |
| `message_chunk`, `message_tool_call_delta`, `message_tool_calls` | `Chunk`, `Delta` / `EmptyObject`, `Listed` |
| `_releasable_arguments_delta` and `pending_args` | `Releasable`, `sent` |
| the first attempt, the fallback attempt | `Ends` / `Reopens` |
| `send_message`'s downgrade from v2 to v1 | `Downgrades`, before any event only |
| the first line of a stream, before or behind which the `try` begins | `AnswerBegins`, `LeavesEarly` |
| `except` and `finally` of the handlers | `Fails`, `Reported`, `ClientGone` |
| `decide_tool_mode` and its callers | `ToolMode`, `Mode`, for the kinds of tools a request has |

A call's arguments are the interval `0 .. Full`; a piece is sent `from` one point
`to` another, so that gaps and overlaps are visible. Assumed of upstream: the deltas of
a call do not go back, and none follows its listing. The listing may come after any
deltas, and spell the arguments otherwise (`Respelled`); the code then sends nothing more.

The handlers derive the status they log from the text of the exception (`str(e)`), so
`Fails(worded)` reports an error to the pool in either case and logs it as one only if it
has a text. A stream that is dropped before the answer begins is logged by the OpenAI
route if its generator had come to its first line, and never by the Claude route, whose
first line is outside the `try`: `LeavesEarly`.

### Services

Registry, configuration, gate and content share no state. `Services` runs them as a sum: each
behaviour moves one of them, chosen at the start, so that one run checks all four
without the product of their states.

- `ModelRegistry`: `refresh` and `refresh_with_retry` suspend only while upstream is
  asked and while they sleep. `call[c]` is where caller `c` is (`Boot` is the start of the
  process), with the attempts it has left and the answer on its way back. Upstream may
  send any list at any time. A failed refresh without a list in memory reads the snapshot,
  which may be unreadable then (`LoadSnapshot(readable)`). `past` is a history variable:
  the list upstream last sent to this process, and how long ago the last fetch and the
  last failure were. Aliases are the models themselves. `refresh` without `force` is not
  used by the service.
- `ConfigStore`: `set_val` and `_save` are two steps, truncation and write; a handler that
  sets several fields keeps them in `todo`, and `Killed` may fall between any two steps. The
  handlers do not yield, so nothing else comes in between. The first start makes the file
  (`Made`) and then prints the password (`Printed`); later starts load and save
  (`Started`). `expected` is a history variable: what was printed or acknowledged
  last, and what requests that were cut short asked for since.
- `Gatekeeper`: a list of times is kept as how many of them are how many ticks old
  (`Ages`), older than the window being one age. `admitted` keeps the same requests as a
  reference that forgets them as soon as they leave the window, while the code filters
  only when a request comes; `WindowExact` compares the verdicts of both.
- `ContentBudget`: a part of the content is its kind, its size and whether it
  carries instructions. The sizes of the instance are the real constants scaled down,
  with the separators, margins and reserves between them. `TruncateMiddle` and
  `HardCut` cut parts at the character. Selections (`Kept`) and sums (`Sum`, `Fitting`)
  are recursive functions of a position, like the loops they stand for.

## 3. Runs

| Run | Instance | Shows |
|---|---|---|
| `bridge_batch` | 1 session, 3 calls, 2 attempts, 2 outputs per request, 2 requests, both routes | type invariant, the safety of calls, turns, readers and reports, and the refinement of the ledger |
| `bridge_sessions` | 2 sessions, 1 call, 1 attempt, 2 requests, fair | the indexes, no leaked runner, one health report per end; relay calls end, ends release readers |
| `bridge_closing` | 3 sessions, no calls, 1 attempt, 2 requests, fair | every closing loop ends |
| `token_pool` | 1 account, 2 credentials, 2 requests in flight | client, status and deadlines under late reports, refreshes, tests and admin changes |
| `stream` | 4 events per request, 2 native calls (one with required fields), 8 texts, every route | blocks, arguments, stop reasons, one attempt, one answer, one log entry |
| `services` | 2 models, 2 callers, 1 restart; 3 starts, 2 passwords, 2 values; 2 hosts, limits 1 and 2; 4 parts of 3 sizes | the four services |
| `bridge_stranded`, `bridge_lost`, `token_restart`, `token_order`, `content_lost`, `task_referenced` | minimal | the six disagreements with the documentation below |

Why the bounds are enough. Three calls are the fewest for which one batch, one
partly applied continuation and one late call exist together; two requests are the
fewest for which two can race on a session, and a third only repeats one
of the roles (reader, closer, continuer). Two sessions let one close while
another starts; one attempt of the Agent is enough there, because another one changes
neither the indexes nor who closes a session, and `bridge_batch` has both. For closing
three sessions are needed: a third one is started while two have expired, so that the
first is awaited and the list with the second one goes stale, as it does if that one is
closed by somebody else or is closed and awaited by two requests at once; a shutdown then
closes several. Calls play no part in that: a closing loop waits for runners only. One
account suffices for everything that is said of an account, because no action on one
token reads another. That the rotation advances is not checked by a run but proved for
any number of accounts (`RotationAdvances`); what it does not keep takes the three of
`token_order`. Two retry levels (`ErrorCap`, `MaxQuota`) reach the cap of the backoff. `MaxSessions`,
`MaxCalls`, `MaxOutputs`, `MaxAttempts` (2 in the code), `Tokens`, `RetryAfters` and `ErrorCap` are the only bounds.
`CHECK_DEADLOCK FALSE` is set because a bounded run ends when its sessions and ids
are used up, and after a shutdown.

`stream`: four events are the fewest for text, two deltas of a call and its
listing, or for two calls whose deltas interleave; a parser buffer of two lexemes holds the
trigger. `Strict`, `Respelled` and `NamedEach` make the two native calls differ in
all that the code asks of a call. `services`: two callers are the fewest for overlapping
refreshes, with the start as a third party; `Ttl = 2` and `Grace = 1` tell a fresh list
from a stale one; three starts allow for a first start that is killed before it prints
the password, or a kill and a start that is killed, and a start that succeeds; a window of 3 with a limit of 1 and one of 2 with a limit of 2 have their boundary
in reach; four parts are tools or a system prompt with the three messages that recent,
pinned and old need. `MaxEvents`, `MaxBuffer`, `MaxRestarts`, `MaxStarts`, `MaxBody`,
`MaxMessages` and the constants of the configurations are the only bounds.

Fairness (`services`) is weak fairness of every refresh that has begun: the HTTP client has
connect, read, write and pool timeouts, so an attempt ends whether or not upstream
answers, and a sleep ends. Nothing is assumed of callers, of the clock or of upstream's
answers.

Fairness (`bridge_sessions`, `bridge_closing`) is weak fairness of what the event loop does by itself: a
cancelled task ends, a due timer fires, a resolved future resumes its
task, and a request reads what is queued. Nothing is assumed of the Agent or of
clients; so a reader of a session whose Agent is silent may wait for ever, as it does in
the code. `RunnerCancelled` is fair because `_run_agent` catches `Exception` only, which
a cancellation is not.

## 4. What the code does not keep

- `bridge_stranded`: a parallel call relayed after the 50 ms window is demanded
  by `submit_outputs` though no client was told about it; every continuation is refused
  until the relay timeout.
- `bridge_lost`: an output accepted after the relay timer fired and before its task ran
  again is lost, although the client gets a normal answer.
- `token_restart`: `report_error` without a cooldown clears the
  deadline in the config and not the one in memory, so a restart forgets it.
- `token_order`: the rotation restarts at the first account when the one
  served last is not available any more.
- `content_lost`: a single long message to the OpenAI route is cut to `[Assistant]:` alone and
  no reference carries it, against README.md:260. `ContextComplete` fails in the same way
  wherever `build_content_with_refs` falls back to `compress_content`; among what is lost
  there is the task itself, if the tools fill the content, which the comments
  (`claude_compat.py:541-544`, 564, 587) want kept by all means.
- `task_referenced`: the latest message of the user must not be left to the references
  (comment, `claude_compat.py:441-443`). The code asks only whether anything at all was
  kept, and an older message with instructions that was pinned counts.

Exceptions the properties name, because the code has them. The first is in no document;
of the others it is said which:

- `ClaudeBlocks`, `ThoughtLeftOpen`: the apology for suppressed text is emitted before the
  open thinking block is stopped. It takes the next index, which is then stopped
  twice, and the thinking block never is (`claude_compat.py:1318`).
- `LockedOutHalfWayOnly`: two kills lock the admin out, and the property says that nothing
  else does. Between the two saves of a password change (`SplitChange`) a bcrypt hash has
  the salt of the old one, and no password fits. And the first start saves the hash of
  the random password before it prints the password (`NeverPrinted`); killed in between,
  the next start finds the file and prints nothing, although README.md:140 says that the
  first start prints it.
- `TaskInContent`, of a chat request: the task is lost if the tools leave no room
  (`ToolsFill`), if it does not fit and a message with instructions is pinned in its place
  (`Displaced`, the case of `task_referenced`), or if it is the single message of
  `content_lost` (`Swallowed`). All three are against the comments or the README, see
  above; the property shows that there is no fourth. A mark of a cut with no text before
  it does not count as the task. For the Agent there is no exception, and what is checked
  is that the content ends with the task.
- `Only503WhenNothing`: a list that upstream sends and that has no names replaces the one in
  memory and makes `GET /v1/models` refuse until its TTL, with upstream up and a
  snapshot on disk, against the docstring of the route (`openai_compat.py:1146-1148`). A
  snapshot that cannot be read counts as none.
- `LoggedAsReported`: an error whose exception has no text is reported to the pool and
  logged as a success; no document speaks of it.
- `ArgumentsWhole`, `CutBlock`, `CutShort`: a call ends incomplete if its listing does not
  continue what was sent of it. In both routes that is a call that the listing spells
  otherwise after some of its deltas were passed on (`PartSent`). In the Claude stream it
  is no call with required fields, whose deltas are held back. In the OpenAI route also
  one whose first delta was an empty object, and one whose later deltas do not name the
  tool and are ignored (`_parse_tool_delta_event`), so that its first delta is all that
  was sent. `TOOL_USE_REPORT.md:368` says that the proxy then keeps what was sent and does not
  correct it. In the instance of `stream` one of the two native calls is named in every
  delta and the other is not.

Also visible in the models and forbidden by no property: a negative
`max_entries` is saved and stops the next start; an older answer of upstream that arrives late
replaces a newer list; a refresh that fails shortens the lifetime of a list
that a concurrent one has just fetched; a client that leaves is logged as a success
(before the first line of a Claude stream not at all) and its token hears nothing; an unterminated `<invoke` at the end of the stream is
dropped. `build_content_with_refs` compresses its result once more if it is too long
(`claude_compat.py:452`), which never happens (`KeptPartFits`). Seen in the code and not modelled: `LogStore.resize` keeps the oldest
entries, and two native listings of one call each both get index 0.

## 5. Proofs

Eight modules hold the theorems. All are proved from the named assumptions on the
constants alone, so for any number of sessions, calls, requests, accounts, texts and
events. An invariant below that no run checks by itself is the part that makes the others
inductive; the proof of a step has one case per action, or per group of actions
that move the same state, and the effect of an operation on a queue, an index or a writer is
a lemma of its own.

### The bridge

`ResponsesBridgeProofs`, from `BoundsAssumption`:

- `TypeCorrect`: `Spec => []TypeOK`.
- `IndexesAlwaysAgree` and `UnresolvedCallsStayPending`. Neither is inductive: closing a
  session fails the futures of what `pending` lists, so that an unresolved call must
  be listed, and a call may be listed only under the session `callOwner` names and
  the index points at. `IndexInv` joins both with `IdsFresh` (ids not drawn yet occur
  nowhere), which is what lets `RelayCall` and `Insert` add an id without a collision.
- `RunnersNeverLeak`: inductive together with the types, because a request is put at
  the session whose runner it cancels in the same step, and leaves it only when that
  runner has ended.

`Retire`, the common part of every closing loop, has its own lemma per invariant.

For queues and ends it adds `Lifetimes`: a session that is not inserted yet has an empty
queue and no runner, a registered one is not being cancelled, and no request is at
or about to close a session that does not exist.

- `EndsAreLast`: with `Lifetimes`, because a turn is queued only by a
  runner that is alive (`NothingAfterTheRunner`), and none is alive behind an end.
- `EndsAreReportedOnce`: `EndAccounted` says the number of reports as a function of the queue
  (one if the runner has ended and the end is not queued), which survives that readers
  put the end back; the count of the property follows by `AccountedIsReportedOnce`.
- `NativeErrorsMeanNoDispatch`: with `NoDispatchBefore`. The proof shows that
  `dispatch_count_before` is 0 in every attempt, because no attempt that dispatched a call is ever
  retried.
- `AgentErrorsFailCalls`: the error is queued in the step that fails the futures, and no call
  is accepted behind it (`EndIsLast`).

For readers and calls:

- `OneReaderAtATime` and `ReadersHaveAllAnswers` need each other (`ReaderInv`): a request
  continues a session only by answering a call that the last reader announced, and while
  somebody reads there is none left to answer. That takes where a call is: queued in the session that
  accepted it, or held by a request within its batch window.
- `CallsAreHandedOutOnce`: `PlaceInv` says that the places of a call exclude each other;
  the sum of the property is at most 1 by `PlacedOnce`.
- `BridgeImplementsLedger`: `FutureInv` (an output is accepted only for a call its
  client knows, only a call in progress is pending) and one lemma per kind of step: issue,
  announce, answer, end, or stutter.

### The token pool

`TokenPoolProofs`, from `DurationsAssumption`, `FiniteAssumption` and `CapAssumption`:
`PoolTyped`, `ClientsAreCurrent`, `DeletedTokensLeaveNothing`, `StatusesNameTheirWayBack`,
and the action property `RotationAdvances`. `PoolInv` joins them with

- `PoolInjective` and `UnusedApart`: an account is listed once and its id is not drawn
  again. Without the first, deleting an account would leave it in the pool;
- `OwnClients`: no two accounts share a client object. Without it a
  cookie refresh of one could change what the client of another sends;
- `StatusesFit`: `StatusMatchesDeadline` with the deadline in memory and the one on disk apart,
  because actions change one without the other.

`ObjectToSpare` shows by counting that a free object always exists, so `PoolTyped` also says that
the bound `Objects` excludes nothing. `RotationAdvances` rests on `Least`
(a set of naturals that is not empty has a least element), which is what "the first available
account after the last" means.

### Registry, configuration, gate, and the four together

`ServicesProofs`, of the registry, from `RegistryAssumption`: `RegistryTyped`, `TrustAlwaysRunsOut`,
`RefusedWithReason` and `KnownModelsAreKept`. `RegistryInv` joins the types
and `TrustRunsOut` with `CallsInOrder`: only a list of models is ever on its way back,
and who sleeps has an attempt left. Without it a returning answer could put `NoList` in
the cache. `KnownModelsAreKept` adds that a model of the cached list is resolved to itself
(`KnownResolves`), a fact about `resolve_model` that needs no induction.

Of the configuration, from `ConfigAssumption`: `ConfigTyped`, `SettingsSurvive`, `SessionsSurvive`
and `LockedOutOnlyHalfWay`, from one invariant, `StoreInv`.
It says what a start would
read, or has read, is sound (`AllSound`): its setting and password are expected ones, an
unsalted hash is bcrypt's, and its secret signed the admin's session. That needs to know how
file, process and memory belong together (`Phases`: memory and disk agree unless a save
is under way), where a change of several fields stands (`Changes`: the salt is cleared
only once the hash is bcrypt's), and that nobody has a session before the password
was printed. None of the last three is inductive alone, because a
kill takes the process to a state they say nothing of.

Of the gate, from `GatekeeperAssumption`, and of the composition:

- `WindowsSlideExactly`: `PrunedIsAdmitted` says that pruning a list, whenever it happens, leaves what was
  admitted within the window. It is inductive because pruning commutes with the passing
  of time and with appending (`PruningCommutes`), so that it does not matter
  that the middleware prunes only when a request comes.
- `GateTyped`: among the types, no handler is given more of a body than `MaxBody`.
- Every behaviour of `Services` is one of each part by itself (the lemma `PartsRunAsAlone`,
  by the definition of the sum). Hence `ServicesTyped` and `ServicesKeepPromises`: what is proved of the registry, the
  configuration, the gate and the content holds of the specification that the run
  `services` checks. Every safety property of that run is a conjunct of one of the two.

### The content of a request

`ContentBudgetProofs`, from `BudgetAssumption`: `ContentTyped`, `RequestsFit` and `TaskIsSent`,
from `ContentInv`. `ContentInv` joins the two properties with `HistoryInOrder` (messages are
numbered as they were said, after at most one description of the tools) and `SentOfHistory`
(what was sent is made of them). The invariant is shallow, because every request is built
anew from the conversation; the work is in what the functions compute, for any sizes
and any number of messages:

- Sums: the sum of joined, reversed and cut sequences (`SumConcat`, `SumReverse`,
  `FirstOfFits`). The front of a text has at most the length asked for, and the end that
  `truncate_middle` keeps holds the end of the last message (`EndFits`, `TruncateFits`).
- `compress_content` (`CompressFits`, `CompressKeepsTask`): it fits, by the hard cut at
  the latest; and if the tools leave room, what is locked leaves room for the hint, so that
  the hard cut is not needed and the task stays.
- `build_content_with_refs`: what is pinned and what is recent fit the budget together
  (`RecentFits`, `PinnedFits`), so that the kept parts fit as they are (`KeptPartFits`). The
  task is among them, or a message with instructions took its place, or it is compressed
  like the others (`RefsBuilt`, `BuildBuilt`).
- `build_agent_relay_payload`: whatever is taken from the prompt for the catalogue, its end
  is seen (`RelayFits`, `VisibleFits`, `AgentBuilt`). Hence no exception on that route.

The assumption holds of the code's constants. What matters of it: the reserve has room for the
hint, the mark of a cut and what joins them (200 characters for 25) and is less than
the whole; what a part is reckoned to add is no less than what joins it; the longest
rules of relaying leave the Agent room for the least of a prompt.

### The chat stream

`ChatStreamProofs`, from `StreamAssumption`, `NativesAssumption` and `MaxBufferAssumption`:
`StreamTyped`, `MessagesAnsweredOnce`, `LogsMatchReports`, `EndsStreams`, `AttemptsApart` and
`StopReasonsTrue`, from the inductive invariant `StreamInv`:

- `RequestInv`, `CountInv`, `OutcomeInv`: the request, what upstream delivered, and what was
  logged and reported, which is nothing before the request is over. `answers` is 1 if and only if an event came, which is why a downgrade,
  possible before any event only, asks nothing twice.
- `ParserInv`: the parser is one of `Parsers(tools, thinks)`, those whose buffers hold lexemes and that
  capture only if tools were offered.
- `WriterInv`: while the answer goes on, the writer is one of `OpenWriters(api, x)`: what it has sent are
  lines of one attempt, none of them an end, and its flags say what it has sent.
  Afterwards the answer is `Proper`: broken off, or ended by a reason and a
  terminal line.

Each operation of the parser and of the writers has a lemma that it stays within these sets
(`FeedFits`, `ClaudeDeltaFits`, `OpenAICallFits`, ...). What a loop does follows from a
lemma about its recursive function: if one step keeps a property, so do all (`ReadStays`,
`KeptStays`, `ForwardedStays`), where the steps may lead through a sequence of sets (`ForwardedThrough`).
These lemmas take sets, not operators, and are proved from the least position where the property
would fail (`UpTo`, in `SequenceLemmas`).

`StopReasonTrue` is the reason for the argument `x`. The Claude writer notes that a tool is called
when the first delta comes, even if it brings no arguments yet and no block is started for it:
the flag is ahead of the stream. `GoesOn` allows that only while a call is on its way, that is, had deltas
and is not listed yet (`OnItsWay`); an answer ends well only after every such call was listed,
and the flag is true then. An answer that fails before that may say `tool_use` with no call, and
the property excepts it.

`StreamArgumentsProofs` adds `ArgumentsInv`, for `ArgumentsAreInOrder` and `ArgumentsAreWhole`. Neither
property is inductive: that the next piece starts where the last one ended depends on
what the writer believes it has sent. So the invariant says of every block, or call,
that its pieces are in order and reach what the writer has counted (`ClaudeArguments`,
`OpenAIArguments`: `Reached` against `streamed`), and of every native call how that count
stands to what upstream has sent (`ClaudeSent`, `OpenAISent`): a call with required
fields has all or nothing of its arguments, a listed one all of them unless it was
spelled otherwise after a part was sent. Wholeness at the end then
follows from the guard that an answer ends well only after every call was listed. An
error, a client that leaves or a second attempt leaves `PiecesRight`.

`StreamBlocksProofs` adds `BlocksInv`, for `BlocksAreClosed`: `Settled` says that, between two
events, the blocks open on the wire are those the writer takes for open, of the same kinds and
below its next index, and that each line so far was right when it was written. Text and thoughts close one another
before a call starts, and a tool's block may be stopped by its listing only
(`writer.stopped \subseteq listed`): without that a late delta could go to a closed block.
How an answer ends, with suppressed text or without, is a lemma per order of the
closing lines; the one in which a thought stays open is `ThoughtLeftOpen`.

### Only model-checked

- The liveness properties `RelayCallsEnd`, `ClosingEnds`, `EndReleasesReader` and `RefreshEnds`
  need fairness and ENABLED, which the prover does not handle.
- The six runs that expect a violation show a counterexample, and there is nothing to prove.

Every other property of the runs is stated by a theorem.

## 6. Not modelled, and what comes next

Not modelled: `core/tabbit_agent.py`'s key exchange and signing and the SSE line parsers
(cryptography and library formats; its `run_task` keeps no state beyond its connection: it yields
events up to a terminal one and pings in between, which is what the bridge's model takes from
it); the proxied upstream features, diagnosis and log
queries of the admin API (they read, or pass a call on); the TTL cache of bearer clients
(one dictionary, read and written in one step); `NativeToolAggregator` (fields of the log);
usage figures; prompts' wording; the admin page and the scripts.

Next:

1. The TTL cache of bearer clients, whose entries may expire while a request holds a client.
2. `LogStore`: the bounded log, `resize` and queries that page through it while it grows.
3. The SSE line parsers of the two clients, over every split of a line into chunks.
