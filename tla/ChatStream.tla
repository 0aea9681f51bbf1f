----------------------------- MODULE ChatStream -----------------------------
(***************************************************************************)
(* One request of the chat routes: routes/openai_compat.py and             *)
(* routes/claude_api.py, streaming or not, over TabbitClient.send_message. *)
(*                                                                         *)
(* Upstream, the client and the choice of the request are the environment. *)
(* Each event of the upstream stream is one step of the handler, which     *)
(* forwards what comes of it before it reads the next.                     *)
(*                                                                         *)
(* Of upstream it is assumed that the first delta of a call names its      *)
(* tool, that the deltas of a call come in order and before its listing,   *)
(* that a call that had deltas is listed before the answer finishes, and   *)
(* that what is listed without a required field had no deltas.             *)
(***************************************************************************)
EXTENDS SSEWriters

CONSTANTS
  Texts,     \* bound: what the model writes, one text per event
  MaxEvents  \* bound: events of one upstream answer

ASSUME StreamAssumption == Texts \subseteq Seq(Lexemes) /\ MaxEvents \in Nat

VARIABLES
  request,   \* api, tools offered, thinking enabled, token from the pool
  phase,     \* new, opening, starting, streaming, reopening, ending, done
  version,   \* _chat_completion_api_version of the client
  yielded,   \* the current upstream call delivered an event
  answers,   \* upstream calls of this attempt that delivered an event
  parser,
  writer,    \* the writer, or the collector of an answer that is not streamed
  sent,      \* native call -> arguments sent in deltas, Unsent before the first
  junk,      \* native calls whose deltas began with an empty object
  listed,    \* native calls listed
  left,      \* events upstream may still send
  reports,   \* outcomes reported to the token pool
  logs       \* statuses of the log entries

upstreamVars == <<sent, junk, listed, left>>
outcomeVars == <<reports, logs>>
vars == <<request, phase, version, yielded, answers, parser, writer, upstreamVars, outcomeVars>>

Apis == {"claude", "claude_json", "openai", "openai_json"}
Streaming == request.api \in {"claude", "openai"}
Unsent == -1
NewCollector == [text |-> FALSE, calls |-> <<>>, wire |-> <<>>]
NewAnswer(api) ==
  CASE api = "claude" -> NewClaude
    [] api = "openai" -> NewOpenAI
    [] OTHER -> NewCollector

Init ==
  /\ request = [api |-> "claude", tools |-> FALSE, thinks |-> FALSE, pooled |-> FALSE]
  /\ phase = "new"
  /\ version \in {"v1", "v2"}
  /\ yielded = FALSE
  /\ answers = 0
  /\ parser = NewParser
  /\ writer = NewCollector
  /\ sent = [c \in Natives |-> Unsent]
  /\ junk = {}
  /\ listed = {}
  /\ left = MaxEvents
  /\ reports = <<>>
  /\ logs = <<>>

-----------------------------------------------------------------------------
(* The request.                                                            *)

\* decide_tool_mode, for the kinds of tools the client has: whether they are
\* offered to the model.
ToolMode(kinds, required, enabled, certified) ==
  CASE "local" \notin kinds -> "none"
    [] "local" \in kinds /\ enabled /\ certified -> "offer"
    [] OTHER -> IF required THEN "reject" ELSE "none"

\* _select_openai_tools: the kinds of the tools that tool_choice leaves.
ToolChoices == {"auto", "required", "none", "native", "local", "other"}
Selected(kinds, choice) ==
  CASE choice \in {"auto", "required"} -> kinds
    [] choice = "none" -> {}
    [] OTHER -> kinds \cap {choice}

\* What the route makes of the tools: a Claude request requires its tools, an
\* OpenAI request may say so.
OpenAIMode(kinds, choice, enabled, certified) ==
  IF choice \in {"native", "local", "other"} /\ choice \notin kinds
  THEN "reject"
  ELSE ToolMode(Selected(kinds, choice), choice \notin {"auto", "none"}, enabled, certified)

Mode(api, kinds, choice, enabled, certified) ==
  IF api \in {"claude", "claude_json"}
  THEN ToolMode(kinds, kinds # {}, enabled, certified)
  ELSE OpenAIMode(kinds, choice, enabled, certified)

\* The request gets a client, or is refused before anything is asked of upstream.
Begin(api, pooled, thinks, mode) ==
  /\ phase = "new"
  /\ thinks => api = "claude"
  /\ request' = [api |-> api, tools |-> mode = "offer", thinks |-> thinks, pooled |-> pooled]
  /\ phase' = IF mode = "reject" THEN "done" ELSE "opening"
  /\ UNCHANGED <<version, yielded, answers, parser, writer, upstreamVars, outcomeVars>>

\* An outcome is reported for a token of the pool only.
Report(r) == reports' = IF request.pooled THEN Append(reports, r) ELSE reports
Log(s) == logs' = Append(logs, s)

SessionOpens ==
  /\ phase = "opening"
  /\ phase' = "starting"
  /\ UNCHANGED <<request, version, yielded, answers, parser, writer, upstreamVars, outcomeVars>>

SessionFails ==
  /\ phase = "opening"
  /\ phase' = "done"
  /\ Report("error")
  /\ Log("error")
  /\ UNCHANGED <<request, version, yielded, answers, parser, writer, upstreamVars>>

\* The first line of a stream is taken, and the message goes upstream.
AnswerBegins ==
  /\ phase = "starting"
  /\ phase' = "streaming"
  /\ writer' = NewAnswer(request.api)
  /\ UNCHANGED <<request, version, yielded, answers, parser, upstreamVars, outcomeVars>>

\* The client leaves before that: the Claude route logs nothing, the OpenAI route
\* does once it has come to that line.
LeavesEarly(logged) ==
  /\ phase = "starting"
  /\ Streaming
  /\ logged => request.api = "openai"
  /\ phase' = "done"
  /\ IF logged THEN Log("success") ELSE UNCHANGED logs
  /\ UNCHANGED <<request, version, yielded, answers, parser, writer, upstreamVars, reports>>

-----------------------------------------------------------------------------
(* Events of the upstream answer.                                          *)

\* _filter_tool_events: calls with a required field missing are dropped; the
\* OpenAI route first looks for the field under another name.
Repaired(e) == IF e.type = "tool_call" /\ e.call = "alias" THEN [e EXCEPT !.call = "a"] ELSE e
IsValid(e) == e.type # "tool_call" \/ e.call \notin {"bad", "alias"}

\* The collector of a non-streamed answer.
Collect(w, e) ==
  CASE e.type = "text" -> [w EXCEPT !.text = TRUE]
    [] e.type = "tool_call" -> [w EXCEPT !.calls = Append(@, e.call)]
    [] OTHER -> w

\* One event of the parser or of a listing, if it passes the filter.
Handled(w, event) ==
  LET e == IF request.api = "claude" THEN event ELSE Repaired(event) IN
  CASE ~IsValid(e) -> w
    [] IsValid(e) /\ request.api = "claude" -> ClaudeEvent(w, e)
    [] IsValid(e) /\ request.api = "openai" -> OpenAIEvent(w, e)
    [] OTHER -> Collect(w, e)

\* What handling the events adds to the answer.
Forwarded(w, events) ==
  LET after[n \in 0 .. Len(events)] ==
        IF n = 0 THEN w ELSE Handled(after[n - 1], events[n])
  IN after[Len(events)]

\* An event arrives: the first one of a call rules out the other protocol version.
Arrives ==
  /\ phase = "streaming"
  /\ left > 0
  /\ left' = left - 1
  /\ yielded' = TRUE
  /\ answers' = IF yielded THEN answers ELSE answers + 1
  /\ UNCHANGED <<request, phase, version, outcomeVars>>

\* message_chunk.  Without a protocol only the Claude stream uses the parser.
Parses == request.api = "claude" \/ (request.tools /\ request.api # "claude_json")

Chunk(text) ==
  /\ Arrives
  /\ LET p == Read(parser, text, request.tools, request.thinks) IN
       IF Parses
       THEN /\ parser' = Consumed(p)
            /\ writer' = Forwarded(writer, p.events)
       ELSE /\ writer' = Forwarded(writer, <<Text(text)>>)
            /\ UNCHANGED parser
  /\ UNCHANGED <<sent, junk, listed>>

\* Mutated: deltas are passed on as they come.
EagerlyReleasable(c, to) == TRUE

\* _releasable_arguments_delta: the deltas of a call with required fields are held
\* until together they are an object that has them.
Releasable(c, to) == c \notin Strict \/ (to = Full /\ to > sent[c] /\ c \notin junk)

Names(c) == c \in NamedEach \/ sent[c] = Unsent

\* message_tool_call_delta: the arguments of call c are sent up to `to`.  The OpenAI
\* route ignores a delta that does not name the tool.
Delta(c, to) ==
  /\ Arrives
  /\ request.tools
  /\ c \notin listed
  /\ to >= sent[c]
  /\ sent' = [sent EXCEPT ![c] = to]
  /\ writer' =
       CASE request.api = "claude" /\ Releasable(c, to) -> ClaudeDelta(writer, c, to)
         [] request.api = "openai" /\ Names(c) -> OpenAIDelta(writer, c, to)
         [] OTHER -> writer
  /\ UNCHANGED <<parser, junk, listed>>

\* The same with an empty object for the arguments of a call that needs some.
EmptyObject(c) ==
  /\ Arrives
  /\ request.tools
  /\ c \in Strict \ (listed \cup junk)
  /\ sent[c] <= 0
  /\ sent' = [sent EXCEPT ![c] = 0]
  /\ junk' = junk \cup {c}
  /\ writer' = IF request.api = "openai" /\ Names(c)
                THEN OpenAIJunk(writer, c) ELSE writer
  /\ UNCHANGED <<parser, listed>>

\* message_tool_calls, one event for the calls cs; those of broken lack a required
\* field; without any the event is about a tool of upstream's own.  Text before
\* the calls is passed on first, without ending the answer.
Native(c, broken) ==
  [type |-> "tool_call", call |-> IF c \in broken THEN "bad" ELSE Asks(c), id |-> c]

Listed(cs, broken) ==
  /\ Arrives
  /\ request.tools \/ cs = <<>>
  /\ \A c \in Range(cs) : c \notin listed
  /\ \A c \in broken : sent[c] = Unsent
  /\ listed' = listed \cup Range(cs)
  /\ LET calls == [i \in DOMAIN cs |-> Native(cs[i], broken)] IN
       IF request.api = "claude_json"
       THEN UNCHANGED <<parser, writer>>
       ELSE /\ parser' = Consumed(FlushText(parser))
            /\ writer' = Forwarded(writer, FlushText(parser).events \o calls)
  /\ UNCHANGED <<sent, junk>>

-----------------------------------------------------------------------------
(* The end of the upstream answer.                                         *)

\* Deltas never stay without their listing in an answer that finishes.
AllListed == \A c \in Natives : sent[c] # Unsent => c \in listed

\* What is left in the parser; but for the Claude stream without the mark of its
\* end, which comes last.
Rest == LET e == Finish(parser, request.thinks).events IN
        IF request.api = "claude" THEN e ELSE Front(e)

\* A tool request whose answer is empty is tried once more with another model.
Retries == request.api = "openai" /\ request.tools /\ writer.attempt = 1
             /\ ~HasOutput(Forwarded(writer, Rest))

\* The answer ends; other tells whether the fallback model is another one.
Ends(other) ==
  /\ phase = "streaming"
  /\ AllListed
  /\ LET last == IF Parses \/ request.api = "openai" THEN Forwarded(writer, Rest) ELSE writer IN
       IF Retries /\ other
       THEN /\ writer' = [last EXCEPT !.attempt = 2]
            /\ phase' = "reopening"
       ELSE /\ writer' = IF request.api = "openai" THEN Send(OpenAIFinish(last), <<Done>>) ELSE last
            /\ phase' = "ending"
  /\ parser' = NewParser
  /\ UNCHANGED <<request, version, yielded, answers, upstreamVars, outcomeVars>>

\* The session of the second attempt.
Reopens ==
  /\ phase = "reopening"
  /\ phase' = "streaming"
  /\ yielded' = FALSE
  /\ answers' = 0
  /\ sent' = [c \in Natives |-> Unsent]
  /\ junk' = {}
  /\ listed' = {}
  /\ UNCHANGED <<request, version, parser, writer, left, outcomeVars>>

\* The outcome of an answer that was delivered.
Reported ==
  /\ phase = "ending"
  /\ phase' = "done"
  /\ Report("success")
  /\ Log("success")
  /\ UNCHANGED <<request, version, yielded, answers, parser, writer, upstreamVars>>

\* Mutated send_message: the message is sent again whatever was delivered.
DowngradesAnytime ==
  /\ phase = "streaming"
  /\ version = "v2"
  /\ version' = "v1"
  /\ yielded' = FALSE
  /\ UNCHANGED <<request, phase, answers, parser, writer, upstreamVars, outcomeVars>>

\* send_message: v2 is not there; the same message goes to v1, for good.
Downgrades ==
  /\ phase = "streaming"
  /\ version = "v2"
  /\ ~yielded
  /\ version' = "v1"
  /\ yielded' = FALSE
  /\ UNCHANGED <<request, phase, answers, parser, writer, upstreamVars, outcomeVars>>

\* Mutated: the failure of an answer that had begun is logged only.
FailsUntold(worded) ==
  /\ phase \in {"streaming", "reopening"}
  /\ phase' = "done"
  /\ writer' = IF request.api = "claude" THEN Forwarded(writer, Rest) ELSE writer
  /\ parser' = NewParser
  /\ IF yielded THEN UNCHANGED reports ELSE Report("error")
  /\ Log(IF worded THEN "error" ELSE "success")
  /\ UNCHANGED <<request, version, yielded, answers, upstreamVars>>

\* Upstream fails otherwise, before or between its events.  The Claude stream is
\* closed like one that ended.  The log knows an error by its text: one without
\* (a time-out has none) is logged as a success.
Fails(worded) ==
  /\ phase \in {"streaming", "reopening"}
  /\ phase' = "done"
  /\ writer' = IF request.api = "claude" THEN Forwarded(writer, Rest) ELSE writer
  /\ parser' = NewParser
  /\ Report("error")
  /\ Log(IF worded THEN "error" ELSE "success")
  /\ UNCHANGED <<request, version, yielded, answers, upstreamVars>>

\* The client leaves: the stream is dropped at its next line.
ClientGone ==
  /\ phase \in {"streaming", "reopening", "ending"}
  /\ Streaming
  /\ phase' = "done"
  /\ Log("success")
  /\ UNCHANGED <<request, version, yielded, answers, parser, writer, upstreamVars, reports>>

-----------------------------------------------------------------------------

Requested ==
  \E api \in Apis, pooled, thinks, enabled, certified \in BOOLEAN,
     kinds \in SUBSET {"native", "local"}, choice \in ToolChoices :
    Begin(api, pooled, thinks, Mode(api, kinds, choice, enabled, certified))

Listings == {<<>>} \cup {<<c>> : c \in Natives} \cup {<<c, d>> : c, d \in Natives}

UpstreamEvent ==
  \/ \E text \in Texts : Chunk(text)
  \/ \E c \in Natives : EmptyObject(c) \/ \E to \in 0 .. Full : Delta(c, to)
  \/ \E cs \in Listings, broken \in SUBSET Strict :
       IsInjective(cs) /\ broken \subseteq Range(cs) /\ Listed(cs, broken)

Next ==
  \/ Requested \/ SessionOpens \/ SessionFails \/ AnswerBegins
  \/ \E logged \in BOOLEAN : LeavesEarly(logged)
  \/ UpstreamEvent
  \/ \E other \in BOOLEAN : Ends(other)
  \/ Reopens \/ Reported \/ Downgrades
  \/ \E worded \in BOOLEAN : Fails(worded)
  \/ ClientGone

Spec == Init /\ [][Next]_vars

-----------------------------------------------------------------------------
(* Properties.                                                             *)

Wire == writer.wire
Is(i, type) == Wire[i].type = type
Before(i) == 1 .. i - 1

TypeOK ==
  /\ request \in [api : Apis, tools : BOOLEAN, thinks : BOOLEAN, pooled : BOOLEAN]
  /\ phase \in {"new", "opening", "starting", "streaming", "reopening", "ending", "done"}
  /\ version \in {"v1", "v2"}
  /\ yielded \in BOOLEAN
  /\ answers \in 0 .. MaxEvents
  /\ Range(parser.buffer \o parser.capture \o parser.thought) \subseteq Lexemes
  /\ parser.events = <<>>
  /\ (parser.capture # <<>> => parser.capturing) /\ (parser.capturing => request.tools)
  /\ sent \in [Natives -> Unsent .. Full]
  /\ junk \subseteq Strict /\ listed \subseteq Natives
  /\ left \in 0 .. MaxEvents
  /\ Range(reports) \subseteq {"success", "error"} /\ Range(logs) \subseteq {"success", "error"}

\* The Claude stream protocol, whatever order text, thoughts, deltas and listings
\* come in: indexes are handed out in order, a delta or a stop concerns a block of
\* its kind that is open, and no block is open when the message ends.
OpenBlock(i, b, kind) ==
  \E s \in Before(i) :
    /\ Is(s, "start") /\ Wire[s].index = b /\ Wire[s].kind = kind
    /\ \A t \in s .. i - 1 : ~(Is(t, "stop") /\ Wire[t].index = b)

NeverStops(s) ==
  \A t \in DOMAIN Wire : Is(t, "stop") => Wire[t].index # Wire[s].index
ThoughtLeftOpen ==
  /\ writer.finished /\ writer.suppressed /\ ~writer.hasToolCall
  /\ \E s \in DOMAIN Wire : Is(s, "start") /\ Wire[s].kind = "thinking" /\ NeverStops(s)

ClaudeBlocks ==
  request.api = "claude" /\ Wire # <<>> /\ ~ThoughtLeftOpen =>
    \A i \in DOMAIN Wire :
      /\ Is(i, "start") =>
           Wire[i].index = Cardinality({s \in Before(i) : Is(s, "start")})
      /\ Is(i, "delta") \/ Is(i, "stop") => OpenBlock(i, Wire[i].index, Wire[i].kind)
      /\ Is(i, "message_delta") =>
           \A s \in Before(i) :
             Is(s, "start") => ~OpenBlock(i, Wire[s].index, Wire[s].kind)

\* Nothing follows the end of a message: "a tool_use block after message_stop is
\* not executed" (flush_text).
Terminal == {"message_stop", "done"}
NothingAfterEnd ==
  \A i \in DOMAIN Wire : Wire[i].type \in Terminal => i = Len(Wire)

\* The pieces of the arguments that one tool block, or one native call, was sent.
IsPiece(i) == Wire[i].type \in {"tool", "delta"} /\ "from" \in DOMAIN Wire[i]
Same(i, j) ==
  IsPiece(i) /\ IsPiece(j) /\
  IF request.api = "claude" THEN Wire[i].index = Wire[j].index
  ELSE Wire[i].id = Wire[j].id /\ Wire[i].id \in Natives

\* A listing that follows deltas adds the rest of the arguments only: no part is
\* sent twice and none is left out in between.
ArgumentsInOrder ==
  \A i \in DOMAIN Wire : IsPiece(i) =>
    LET earlier == {j \in Before(i) : Same(i, j)} IN
    Wire[i].from = IF earlier = {} THEN 0 ELSE Wire[CHOOSE j \in earlier : \A n \in earlier : n <= j].to

\* In an answer that ended well every call has its arguments whole.  Cut short is the
\* call whose listing does not continue what was sent of it, which both routes leave
\* as it is ("input_json.startswith(already)"): one that json.dumps spells otherwise
\* and that upstream sent a part of; in the OpenAI route also one whose deltas began
\* with an empty object that was passed on, or whose later deltas were ignored as they
\* do not name the tool.  And a call with required fields never has a block without
\* them in the Claude stream, which executes a block once it stops
\* (_releasable_arguments_delta).
Whole(i) == \E j \in DOMAIN Wire : (i = j \/ Same(i, j)) /\ Wire[j].to = Full
StrictBlock(b) == \E c \in Strict : writer.block[c] = b
PartSent == {c \in Respelled : sent[c] \in 1 .. Full - 1}
CutBlock(b) == \E c \in PartSent \ Strict : writer.block[c] = b
CutShort == writer.junk \cup (Respelled \ NamedEach) \cup PartSent

ArgumentsWhole ==
  \A i \in DOMAIN Wire : IsPiece(i) =>
    CASE request.api = "claude" ->
           StrictBlock(Wire[i].index) \/ (phase = "ending" /\ ~CutBlock(Wire[i].index)) => Whole(i)
      [] request.api = "openai" ->
           phase = "ending" /\ Wire[i].id \notin CutShort => Whole(i)

\* The reason a message stops with tells the truth: it asks for tool results if
\* and only if a call was sent.  (A stream that failed may be wrong about it.)
Reason(i) == Is(i, "message_delta") \/ Is(i, "finish")
StopReasonTrue ==
  phase = "ending" =>
    \A i \in DOMAIN Wire : Reason(i) =>
      (Wire[i].reason \in {"tool_use", "tool_calls"} <=>
         \E j \in Before(i) : IsPiece(j))

\* Output of the first attempt is never followed by that of the fallback model.
OneAttemptVisible ==
  \A i, j \in DOMAIN Wire :
    {Wire[i].type, Wire[j].type} \subseteq {"content", "tool"} => Wire[i].attempt = Wire[j].attempt

\* A message is not sent again once upstream began to answer it: of the calls of
\* one attempt at most one delivered anything.
AnsweredOnce == answers <= 1

\* A request is logged once at most, when it is over, and not logged is only one that
\* had no line and no event of upstream.  The token hears of each error that is logged
\* (of one logged as a success too, when it has no text), is told of a success only
\* when that is logged, and is told something of every answer that is not streamed.
LoggedAsReported ==
  /\ phase # "done" => logs = <<>> /\ reports = <<>>
  /\ Len(logs) <= 1 /\ Len(reports) <= Len(logs)
  /\ phase = "done" /\ (Wire # <<>> \/ answers > 0) => logs # <<>>
  /\ reports = <<"success">> => logs = <<"success">>
  /\ request.pooled /\ logs = <<"error">> => reports = <<"error">>
  /\ request.pooled /\ ~Streaming /\ logs # <<>> => reports # <<>>

=============================================================================
