--------------------------- MODULE ContentBudget ---------------------------
(***************************************************************************)
(* How a conversation is fitted into what upstream's gateway accepts:      *)
(* map_claude_to_content, build_content_with_refs and compress_content of  *)
(* core/claude_compat.py, _build_content of routes/openai_compat.py, and   *)
(* build_agent_relay_payload of core/responses_bridge.py.                  *)
(*                                                                         *)
(* A text is what it is made of: a sequence of parts, each with a size.  A *)
(* part that was cut keeps its id and the size of its front.  Ids are      *)
(* positions in the conversation; the hint "[Assistant]:" has id 0.        *)
(***************************************************************************)
EXTENDS Integers, SequencesExt, Excerpts

CONSTANTS
  MaxLen,      \* MAX_CONTENT_LEN
  Sep, Pad,    \* what joins parts, and what a part is reckoned to add to its size
  Hint,        \* size of "[Assistant]:"
  Mark,        \* size of the mark of a cut
  Reserve, Margin, \* room kept for them; what the hard cut takes off
  LargeTools,  \* from this size on a tool description is compressed
  Protocol,    \* size of the rules of calling in it
  Names,       \* size of a tool description -> of the names and summaries in it
  AgentLimit,  \* AGENT_CONTENT_LIMIT, and what of it a prompt gets if there are tools:
  PromptReserve, \* AGENT_PROMPT_RESERVE
  Notice, Marker, \* sizes of AGENT_CONTEXT_REFERENCE_NOTICE, of truncate_middle's mark
  Floor,       \* the least that is tried for a visible prompt and a tool catalogue
  Headers,     \* sizes of the rules of relaying; a second attempt has longer ones
  Sizes,       \* bound: sizes of messages and system prompts
  MaxMessages  \* bound

ASSUME BudgetAssumption ==
  /\ {Sep, Pad, Hint, Mark, Protocol} \subseteq Nat \ {0} /\ Sep <= Pad
  /\ MaxLen \in Nat /\ {Reserve, Margin, LargeTools} \subseteq Nat
  /\ Hint + Mark + 2 * Sep <= Reserve /\ Reserve < MaxLen
  /\ Hint + Sep <= Margin /\ Margin <= MaxLen
  /\ {AgentLimit, PromptReserve, Notice, Marker, Floor} \subseteq Nat \ {0}
  /\ PromptReserve <= AgentLimit /\ AgentLimit <= MaxLen
  /\ Notice + Marker + Floor <= PromptReserve
  /\ \A h \in Headers : h \in Nat \ {0} /\ h + Floor + Marker < AgentLimit
  /\ Sizes \cup DOMAIN Names \subseteq Nat \ {0}
  /\ \A size \in DOMAIN Names : Names[size] \in Nat /\ Names[size] <= size
  /\ MaxMessages \in Nat

VARIABLES
  history,   \* the system prompts and messages of the client
  route,     \* of the last request: "none", "chat" or "agent"
  content,   \* what was sent for it
  references

contentVars == <<history, route, content, references>>

Smaller(a, b) == IF a <= b THEN a ELSE b
Larger(a, b) == IF a >= b THEN a ELSE b
NonNegative(n) == Larger(n, 0)

Part(id, kind, size, critical) == [id |-> id, kind |-> kind, size |-> size, critical |-> critical]
TheHint == Part(0, "hint", Hint, FALSE)

Of(parts, kinds) == Kept(parts, {i \in DOMAIN parts : parts[i].kind \in kinds})
Without(parts, kinds) == Kept(parts, {i \in DOMAIN parts : parts[i].kind \notin kinds})

\* The sizes of parts together, and extra for each of them.
Sum(parts, extra) ==
  LET sum[n \in 0 .. Len(parts)] ==
        IF n = 0 THEN 0 ELSE sum[n - 1] + parts[n].size + extra
  IN sum[Len(parts)]

\* The size of parts joined by blank lines, and of all of them as reckoned in advance.
Length(parts) == NonNegative(Sum(parts, Sep) - Sep)
Reckoned(parts) == Sum(parts, Pad)

\* The first n characters of parts joined with sep.
FirstOf(parts, n, sep) ==
  LET before(i) == Sum(SubSeq(parts, 1, i - 1), sep)
      fronts == [i \in DOMAIN parts |->
                  [parts[i] EXCEPT !.size = Smaller(@, NonNegative(n - before(i)))]]
  IN Kept(fronts, {i \in DOMAIN fronts : fronts[i].size > 0})

-----------------------------------------------------------------------------
(* compress_content                                                        *)

Compressed(tools) ==
  IF tools.size > LargeTools THEN [tools EXCEPT !.size = Names[@] + Protocol] ELSE tools

\* What of the other messages is taken, from the newest to the oldest, by what fits.
Take(s, p) ==
  IF s.room > 0 /\ p.size + Pad <= s.room
  THEN [room |-> s.room - p.size - Pad, kept |-> <<p>> \o s.kept] ELSE s

Fitting(parts, room) ==
  LET fitting[n \in 0 .. Len(parts)] ==
        IF n = 0 THEN [room |-> room, kept |-> <<>>]
        ELSE Take(fitting[n - 1], parts[Len(parts) - n + 1])
  IN fitting[Len(parts)].kept

\* The front of the task if it does not fit whole, and the mark of the cut.  With no
\* room at all Python's slice counts from the end.
CutTask(task, room) ==
  [task EXCEPT !.kind = "cut",
               !.size = (IF room >= 0 THEN Smaller(@, room) ELSE NonNegative(@ + room)) + Mark]

\* Mutated: the result is taken to fit.
Uncut(parts) == parts

HardCut(parts) ==
  IF Length(parts) <= MaxLen THEN parts ELSE Append(FirstOf(parts, MaxLen - Margin, Sep), TheHint)

CompressContent(parts) ==
  LET whole == Of(parts, {"tools"})
      tools == [i \in DOMAIN whole |-> Compressed(whole[i])]
      room == MaxLen - Length(tools) - Reserve
      others == Without(parts, {"tools", "hint"})
      users == {i \in DOMAIN others : others[i].kind = "user"}
      at == Max(users)
      task == others[at]
      fits == task.size + Pad <= room
      locked == CASE users = {} -> Fitting(others, room)
                  [] users # {} /\ fits ->
                       Append(Fitting(Kept(others, DOMAIN others \ {at}), room - task.size - Pad), task)
                  [] users # {} /\ ~fits -> <<CutTask(task, room)>>
  IN HardCut(tools \o locked \o <<TheHint>>)

-----------------------------------------------------------------------------
(* build_content_with_refs                                                 *)

\* The tool description goes through compress_content by itself, which leaves a hint
\* at its end, unless that would lose the rules of calling.  What is left is not
\* recognised as a tool description again.
CompressedSystem(p) ==
  IF p.kind # "tools" \/ p.size <= LargeTools \/ Names[p.size] >= MaxLen - Margin THEN p
  ELSE [p EXCEPT !.kind = "system", !.size = Length(CompressContent(<<p>>))]

\* Mutated: the messages are taken from the oldest.
Oldest(messages, budget) ==
  LET first(n) == SubSeq(messages, 1, n)
      fits == {n \in 0 .. Len(messages) : n = 0 \/ Reckoned(first(n)) <= budget}
  IN first(Max(fits))

\* The longest end of the messages that fits.
Recent(messages, budget) ==
  LET end(n) == SubSeq(messages, Len(messages) - n + 1, Len(messages))
      fits == {n \in 0 .. Len(messages) : n = 0 \/ Reckoned(end(n)) <= budget}
  IN end(Max(fits))

\* The first of the older messages with instructions, as many as fit; each is put
\* in front of what is kept.
Pinned(critical, budget) ==
  LET first(n) == SubSeq(critical, 1, n)
      fits == {n \in 0 .. Len(critical) : n = 0 \/ Reckoned(first(n)) <= budget}
  IN Reverse(first(Max(fits)))

SystemOf(parts) ==
  LET all == Of(parts, {"system", "tools"}) IN [i \in DOMAIN all |-> CompressedSystem(all[i])]

\* What the system prompts and tools leave for messages.
RefsBudget(parts) == MaxLen - Sum(SystemOf(parts), Sep) - Hint - Pad - Reserve

BuildContentWithRefs(parts) ==
  LET system == SystemOf(parts)
      messages == Of(parts, {"user", "assistant"})
      budget == RefsBudget(parts)
      recent == Recent(messages, budget)
      older == SubSeq(messages, 1, Len(messages) - Len(recent))
      critical == {i \in DOMAIN older : older[i].critical}
      pinned == Pinned(Kept(older, critical), budget - Reckoned(recent))
      old == Kept(older, DOMAIN older \ critical)
      kept == system \o pinned \o recent \o <<TheHint>>
  IN IF old = <<>> \/ pinned \o recent = <<>>
     THEN [content |-> CompressContent(parts), references |-> <<>>]
     ELSE [content |-> IF Length(kept) > MaxLen THEN CompressContent(kept) ELSE kept,
           references |-> old]

\* map_claude_to_content, and _build_content for more than a single message.
Whole(parts) == Append(parts, TheHint)

Build(parts) ==
  LET whole == Whole(parts) IN
  IF Length(whole) > MaxLen THEN BuildContentWithRefs(whole)
  ELSE [content |-> whole, references |-> <<>>]

\* _build_content for a single message and nothing else: it has no label, so that
\* compress_content finds no user in it.
BuildSingle(message) ==
  LET bare == [message EXCEPT !.kind = "text"] IN
  IF message.size > MaxLen THEN [content |-> CompressContent(<<bare>>), references |-> <<>>]
  ELSE [content |-> <<bare>>, references |-> <<>>]

-----------------------------------------------------------------------------
(* The Agent: build_agent_relay_payload.  Here a part includes the blank line *)
(* that joins it to the next.                                              *)

Weight(parts) == Sum(parts, 0)

\* truncate_middle
TruncateMiddle(parts, limit) ==
  LET end(n) == Reverse(FirstOf(Reverse(parts), n, 0))
      head == (limit - Marker) \div 3
  IN CASE limit <= 0 -> <<>>
       [] limit > 0 /\ Weight(parts) <= limit -> parts
       [] limit \in 1 .. Marker /\ Weight(parts) > limit -> end(limit)
       [] OTHER -> FirstOf(parts, head, 0) \o <<Part(0, "mark", Marker, FALSE)>>
                     \o end(limit - Marker - head)

\* fit_tool_catalog: whole, the names only, or the names that fit.
Catalogue(size, budget) ==
  IF size <= budget THEN size ELSE Smaller(Names[size], budget)

\* build_relay_prompt
RelayPrompt(prompt, tools, header) ==
  LET size == header + Catalogue(tools.size, Larger(Floor, AgentLimit - header - Weight(prompt)))
      excess == NonNegative(size + Weight(prompt) - AgentLimit)
  IN FirstOf(<<Part(tools.id, "tools", size, FALSE)>> \o TruncateMiddle(prompt, Weight(prompt) - excess),
           AgentLimit, 0)

AgentPayload(parts, header) ==
  LET tools == Of(parts, {"tools"})
      limit == IF tools = <<>> THEN AgentLimit ELSE PromptReserve
      others == Without(parts, {"tools"})
      prompt == [i \in DOMAIN others |-> [others[i] EXCEPT !.size = @ + Sep]]
      short == <<Part(0, "notice", Notice, FALSE)>>
                 \o TruncateMiddle(prompt, Larger(Floor, limit - Notice))
      fits == Weight(prompt) <= limit
      visible == IF fits THEN prompt ELSE short
  IN [content |-> IF tools = <<>> THEN visible ELSE RelayPrompt(visible, tools[1], header),
      references |-> IF fits THEN <<>> ELSE others]

-----------------------------------------------------------------------------
(* A conversation.                                                         *)

Said(kind, size, critical) == Append(history, Part(Len(history) + 1, kind, size, critical))

ContentInit ==
  /\ history = <<>>
  /\ route = "none"
  /\ content = <<>>
  /\ references = <<>>

\* The client's system prompt or tools, before its messages.
Offers(kind, size) ==
  /\ Len(history) < MaxMessages
  /\ \A i \in DOMAIN history : history[i].kind \notin {"user", "assistant", kind}
  /\ history' = Said(kind, size, FALSE)
  /\ UNCHANGED <<route, content, references>>

Sends(on, built) ==
  /\ route' = on
  /\ content' = built.content
  /\ references' = built.references

\* A request with a new message of the user, or a tool's result.
Asks(size, critical) ==
  /\ Len(history) < MaxMessages
  /\ history' = Said("user", size, critical)
  /\ Sends("chat", Build(history'))

AsksOnlyThat(size) ==
  /\ history = <<>> /\ MaxMessages > 0
  /\ history' = Said("user", size, FALSE)
  /\ Sends("chat", BuildSingle(history'[1]))

AsksAgent(size, header) ==
  /\ Len(history) < MaxMessages
  /\ history' = Said("user", size, FALSE)
  /\ Sends("agent", AgentPayload(history', header))

Answers(size, critical) ==
  /\ Len(history) < MaxMessages
  /\ history # <<>> /\ Last(history).kind = "user"
  /\ history' = Said("assistant", size, critical)
  /\ UNCHANGED <<route, content, references>>

ContentNext ==
  \/ \E size \in DOMAIN Names : Offers("tools", size)
  \/ \E size \in Sizes :
       \/ Offers("system", size) \/ AsksOnlyThat(size)
       \/ \E critical \in BOOLEAN : Asks(size, critical) \/ Answers(size, critical)
       \/ \E header \in Headers : AsksAgent(size, header)

ContentSpec == ContentInit /\ [][ContentNext]_contentVars

-----------------------------------------------------------------------------
(* Properties.                                                             *)

ContentTypeOK ==
  /\ Len(history) <= MaxMessages
  /\ \A i \in DOMAIN history :
       history[i].id = i /\ history[i].kind \in {"system", "tools", "user", "assistant"}
  /\ route \in {"none", "chat", "agent"}
  /\ \A i \in DOMAIN content : content[i].id \in 0 .. Len(history) /\ content[i].size > 0
  /\ \A i \in DOMAIN references : references[i] \in Range(history)

\* What is sent passes the gateway, whatever was compressed, pinned or cut
\* (build_content_with_refs, compress_content, build_relay_prompt).
WithinGateway ==
  CASE route = "none" -> TRUE
    [] route = "chat" -> Length(content) <= MaxLen
    [] route = "agent" -> Weight(content) <= AgentLimit

InContent(id) == \E i \in DOMAIN content : content[i].id = id
\* Some of the text of a message, not only the mark of its cut.
TextIn(id, parts) ==
  \E i \in DOMAIN parts :
    parts[i].id = id /\ parts[i].size > (IF parts[i].kind = "cut" THEN Mark ELSE 0)
WholeIn(id, parts) ==
  \E i \in DOMAIN parts : parts[i].id = id /\ parts[i].size >= history[id].size

Requested == history # <<>> /\ Last(history).kind = "user"
Task == Len(history)

\* How a chat request loses the task, each against what the code says of itself: the
\* tools leave no room for it (against core/claude_compat.py:564 and 587); it does not
\* fit beside them, but an older message with instructions does, so that content is not
\* empty and the task goes where the older messages go (TaskNotOnlyReferenced); or it is
\* a single message of the OpenAI route that is too long (ContextComplete).
ToolsFill ==
  /\ references = <<>>
  /\ \E i \in DOMAIN history :
       history[i].kind = "tools" /\ Compressed(history[i]).size + Reserve >= MaxLen
Displaced == references # <<>> /\ history[Task].size + Pad > RefsBudget(Whole(history))
Swallowed == Task = 1 /\ history[1].size > MaxLen /\ content = <<TheHint>>

\* The latest message of the user is in the content, at least a part of it, whatever
\* went before: in a chat request unless it is lost in one of these three ways, and in
\* an Agent's always, where it is the last of the content, so that the middle that was
\* cut lies before its end (build_content_with_refs, compress_content, truncate_middle).
TaskInContent ==
  Requested =>
    \/ /\ route = "chat"
       /\ TextIn(Task, content) \/ ToolsFill \/ Displaced \/ Swallowed
    \/ /\ route = "agent"
       /\ TextIn(Task, content) /\ Last(content).id = Task

\* core/claude_compat.py:441-443: the latest message of the user, usually the result of
\* a tool, has to stay in the content; also if the tools use up the budget, a request
\* may not degrade to "answer from the references".
TaskNotOnlyReferenced ==
  Requested /\ route = "chat" /\ references # <<>> => TextIn(Task, content)

\* README.md:260: a request that is too long keeps the content within the limit and
\* carries the complete context in references (build_content_with_refs).
ContextComplete ==
  Requested => \A id \in DOMAIN history :
    history[id].kind = "tools" \/ WholeIn(id, content) \/ WholeIn(id, references)
=============================================================================
