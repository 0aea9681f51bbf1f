---------------------------- MODULE ToolProtocol ----------------------------
(***************************************************************************)
(* The text protocol by which a model calls the client's tools:            *)
(* ToolifyParser of core/claude_compat.py, its recovery of malformed calls *)
(* and the cleaning of what is left of the protocol in visible text.       *)
(*                                                                         *)
(* The parser reads one character at a time.  Text is modelled as a        *)
(* sequence of lexemes, each on a line of its own:                         *)
(*   x             plain text                                              *)
(*   t1, t2        the two halves of the trigger signal                    *)
(*   think, /think the tags around a thought                               *)
(*   a, b, ...     <invoke name=...> with its parameters (Calls)           *)
(*   unnamed       <invoke with no name that can be read                   *)
(*   close         </invoke>                                               *)
(*   fence, json   call "a" as a code block, as a bare JSON object         *)
(* The halves of the trigger are apart because a native tool event can     *)
(* come between them.                                                      *)
(***************************************************************************)
EXTENDS Integers, SequencesExt, Excerpts

CONSTANT MaxBuffer  \* length at which text without a protocol is passed on

ASSUME MaxBufferAssumption == MaxBuffer \in Nat \ {0}

\* "a" calls a tool with required fields, "bad" the same with one missing, "alias"
\* with one under another name (_ARG_ALIASES), "b" a tool with no required field.
Calls == {"a", "b", "bad", "alias"}
Opens == Calls \cup {"unnamed"}
Lexemes == Opens \cup {"x", "t1", "t2", "think", "/think", "close", "fence", "json"}

Text(s) == [type |-> "text", text |-> s]
Thought(s) == [type |-> "thinking", text |-> s]
ToolCall(c) == [type |-> "tool_call", call |-> c, id |-> "none"]
End == [type |-> "end"]

NewParser ==
  [buffer |-> <<>>, capture |-> <<>>, capturing |-> FALSE,
   thinking |-> FALSE, thought |-> <<>>, events |-> <<>>]

\* An event with the given text, if there is any.
IfAny(s, event) == IF s = <<>> THEN <<>> ELSE <<event>>
Emit(p, events) == [p EXCEPT !.events = @ \o events]

EndsWith(s, l) == s # <<>> /\ Last(s) = l

-----------------------------------------------------------------------------
(* Reading.                                                                *)

\* _parse_invoke_xml on the lines of s: the first name that can be read, "none"
\* if there is none.
InvokeIn(s) ==
  IF \E i \in DOMAIN s : s[i] \in Calls
  THEN s[CHOOSE i \in DOMAIN s : s[i] \in Calls /\ \A j \in 1 .. i - 1 : s[j] \notin Calls]
  ELSE "none"

\* _try_emit_invokes, when the capture ends with </invoke>.  It is tried at every
\* character, so nothing follows the tag yet; a call that reads keeps capturing.
TryEmitInvokes(p) ==
  LET s == p.capture
      start == CHOOSE i \in DOMAIN s : s[i] \in Opens /\ \A j \in 1 .. i - 1 : s[j] \notin Opens
      before == SubSeq(s, 1, start - 1)
      call == InvokeIn(SubSeq(s, start, Len(s)))
      events == IfAny(before, Text(before))
                  \o IF call = "none" THEN <<Text(s)>> ELSE <<ToolCall(call)>>
  IN IF ~EndsWith(s, "close") \/ \A i \in DOMAIN s : s[i] \notin Opens
     THEN p
     ELSE Emit([p EXCEPT !.capture = <<>>, !.capturing = (call # "none")], events)

\* A thought ends: the text is passed on without its closing tag.
EndThought(p) ==
  Emit([p EXCEPT !.thought = <<>>, !.thinking = FALSE],
       IfAny(Front(p.thought), Thought(Front(p.thought))))

BeginThought(p) ==
  Emit([p EXCEPT !.buffer = <<>>, !.thinking = TRUE, !.thought = <<>>],
       IfAny(p.buffer, Text(p.buffer)))

\* _handle_char_without_trigger
FeedPlain(p, l, thinks) ==
  LET thought == [p EXCEPT !.thought = Append(@, l)]
      longer == [p EXCEPT !.buffer = Append(@, l)]
  IN CASE thinks /\ p.thinking /\ l = "/think" -> EndThought(thought)
       [] thinks /\ p.thinking /\ l # "/think" -> thought
       [] thinks /\ ~p.thinking /\ l = "think" -> BeginThought(p)
       [] OTHER -> IF Len(longer.buffer) < MaxBuffer THEN longer
                   ELSE Emit([p EXCEPT !.buffer = <<>>], <<Text(longer.buffer)>>)

\* Text outside a capture: a whole trigger starts one.
FeedBuffer(p, l) ==
  LET before == Front(p.buffer) IN
  IF l = "t2" /\ EndsWith(p.buffer, "t1")
  THEN Emit([p EXCEPT !.buffer = <<>>, !.capturing = TRUE, !.capture = <<>>],
            IfAny(before, Text(before)))
  ELSE [p EXCEPT !.buffer = Append(@, l)]

\* feed_char, for the characters of one lexeme.  With the protocol on, a thought
\* is closed by what follows its closing tag.
Feed(p, l, trigger, thinks) ==
  LET q == IF thinks /\ p.thinking /\ EndsWith(p.thought, "/think") THEN EndThought(p) ELSE p IN
  CASE ~trigger -> FeedPlain(p, l, thinks)
    [] trigger /\ q.thinking -> [q EXCEPT !.thought = Append(@, l)]
    [] trigger /\ ~q.thinking /\ q.capturing ->
         TryEmitInvokes([q EXCEPT !.capture = Append(@, l)])
    [] trigger /\ ~q.thinking /\ ~q.capturing ->
         IF thinks /\ l = "think" THEN BeginThought(q) ELSE FeedBuffer(q, l)

Read(p, text, trigger, thinks) ==
  LET read[n \in 0 .. Len(text)] ==
        IF n = 0 THEN p ELSE Feed(read[n - 1], text[n], trigger, thinks)
  IN read[Len(text)]

\* Mutated flush_text: done by finish, with the mark of the end.
FlushByFinish(p) == Emit([p EXCEPT !.buffer = <<>>], IfAny(p.buffer, Text(p.buffer)) \o <<End>>)

\* flush_text
FlushText(p) == Emit([p EXCEPT !.buffer = <<>>], IfAny(p.buffer, Text(p.buffer)))

\* Mutated consume_events: the events are handed out and kept.
NotConsumed(p) == p

\* consume_events
Consumed(p) == [p EXCEPT !.events = <<>>]

-----------------------------------------------------------------------------
(* The end of the text.                                                    *)

IsText(e) == e.type = "text"
Joined(events) ==
  LET joined[n \in 0 .. Len(events)] ==
        IF n = 0 THEN <<>>
        ELSE joined[n - 1] \o (IF IsText(events[n]) THEN events[n].text ELSE <<>>)
  IN joined[Len(events)]

\* The named opening tag, if any, that the closing tag at position k completes.
Completed(s, k) ==
  LET since == CHOOSE i \in 0 .. k - 1 :
                 /\ i = 0 \/ s[i] = "close"
                 /\ \A j \in i + 1 .. k - 1 : s[j] # "close"
  IN InvokeIn(SubSeq(s, since + 1, k))

\* The positions of l in s, in order.
At(s, l) == Kept([i \in DOMAIN s |-> i], {i \in DOMAIN s : s[i] = l})

\* _loose_recover_calls: calls without a trigger, or else in code blocks, or else
\* as bare objects.
LooseRecoverCalls(s) ==
  LET closes == At(s, "close")
      invokes == [i \in DOMAIN closes |-> Completed(s, closes[i])]
      named == Kept(invokes, {i \in DOMAIN invokes : invokes[i] # "none"})
      As(l) == [i \in DOMAIN At(s, l) |-> "a"]
  IN CASE named # <<>> -> named
       [] named = <<>> /\ As("fence") # <<>> -> As("fence")
       [] OTHER -> As("json")

\* _loose_is_clean_text
IsCleanText(s) == \A i \in DOMAIN s : s[i] \notin Opens \cup {"close", "fence", "json"}

\* finish.  Events of earlier characters are consumed by then: the recovery sees
\* what is still in the parser.
Finish(p, thinks) ==
  LET captured == \A i \in DOMAIN p.capture : p.capture[i] \notin Opens
      rest == IfAny(p.buffer, Text(p.buffer))
                \o (IF thinks /\ p.thinking THEN IfAny(p.thought, Thought(p.thought)) ELSE <<>>)
                \o (IF captured THEN IfAny(p.capture, Text(p.capture)) ELSE <<>>)
      calls == LooseRecoverCalls(Joined(rest))
      clean == Kept(rest, {i \in DOMAIN rest : ~IsText(rest[i]) \/ IsCleanText(rest[i].text)})
  IN [NewParser EXCEPT !.events =
        (IF calls = <<>> THEN rest ELSE clean \o [i \in DOMAIN calls |-> ToolCall(calls[i])])
          \o <<End>>]

-----------------------------------------------------------------------------
(* What a client sees of a text.                                           *)

\* Position i lies between an opening tag and the closing tag that follows it.
InInvoke(s, i) ==
  \E j \in 1 .. i, k \in i .. Len(s) :
    s[j] \in Opens /\ s[k] = "close" /\ \A n \in j .. k - 1 : s[n] # "close"

IsTrigger(s, i) ==
  \/ s[i] = "t1" /\ i < Len(s) /\ s[i + 1] = "t2"
  \/ s[i] = "t2" /\ i > 1 /\ s[i - 1] = "t1"

\* _clean_tool_protocol_residue: whole invocations, closing tags, whole triggers
\* and lines that name an aliased tool go.
Residue(s) ==
  Kept(s, {i \in DOMAIN s : /\ s[i] \notin Calls \cup {"close", "json"}
                            /\ ~InInvoke(s, i)
                            /\ ~IsTrigger(s, i)})
=============================================================================
