----------------------------- MODULE SSEWriters -----------------------------
(***************************************************************************)
(* The two stream writers: ClaudeSSEWriter of core/claude_compat.py and    *)
(* OpenAISSEWriter of routes/openai_compat.py.  A writer is a record, each *)
(* method an operator from writer to writer; what it sends is appended to  *)
(* the field wire.                                                         *)
(*                                                                         *)
(* A native call streams its arguments in pieces: how much of them a party *)
(* has is a number up to Full, and a piece is a pair of such numbers.      *)
(***************************************************************************)
EXTENDS ToolProtocol, FiniteSets

CONSTANTS
  Natives,    \* ids of the native calls of one answer
  Strict,     \* those that call the tool with required fields ("a"), the rest "b"
  Respelled,  \* those whose arguments json.dumps spells otherwise than upstream
  NamedEach   \* those whose every delta names the tool, not only the first

ASSUME NativesAssumption ==
  /\ IsFiniteSet(Natives) /\ "none" \notin Natives
  /\ Strict \subseteq Natives /\ Respelled \subseteq Natives /\ NamedEach \subseteq Natives

Full == 2
Asks(c) == IF c \in Strict THEN "a" ELSE "b"

Send(w, lines) == [w EXCEPT !.wire = @ \o lines]

-----------------------------------------------------------------------------
(* ClaudeSSEWriter.                                                        *)

Line(type, i, kind) == [type |-> type, index |-> i, kind |-> kind]
Piece(i, from, to) == [type |-> "delta", index |-> i, kind |-> "tool", from |-> from, to |-> to]
StopReason(r) == [type |-> "message_delta", reason |-> r]
MessageStop == [type |-> "message_stop"]

NoBlock == -1

NewClaude ==
  [next |-> 0, textOpen |-> FALSE, thinkingOpen |-> FALSE, finished |-> FALSE,
   hasToolCall |-> FALSE, seen |-> {}, block |-> [c \in Natives |-> NoBlock],
   streamed |-> [c \in Natives |-> 0], stopped |-> {}, pending |-> FALSE,
   suppressed |-> FALSE, wire |-> <<[type |-> "message_start"]>>]

\* _flush_text_block, _end_thinking_block: the open block is the newest one.
EndText(w) ==
  IF w.textOpen
  THEN Send([w EXCEPT !.textOpen = FALSE], <<Line("stop", w.next - 1, "text")>>) ELSE w
\* Mutated _end_thinking_block: the block is still taken for open.
EndThinkingAgain(w) ==
  IF w.thinkingOpen THEN Send(w, <<Line("stop", w.next - 1, "thinking")>>) ELSE w

EndThinking(w) ==
  IF w.thinkingOpen
  THEN Send([w EXCEPT !.thinkingOpen = FALSE], <<Line("stop", w.next - 1, "thinking")>>) ELSE w

\* _emit_text_now
EmitText(w) ==
  IF w.textOpen
  THEN Send(w, <<Line("delta", w.next - 1, "text")>>)
  ELSE Send([w EXCEPT !.textOpen = TRUE, !.next = @ + 1],
            <<Line("start", w.next, "text"), Line("delta", w.next, "text")>>)

\* _emit_thinking
EmitThinking(w) ==
  IF w.thinkingOpen
  THEN Send(w, <<Line("delta", w.next - 1, "thinking")>>)
  ELSE Send([w EXCEPT !.thinkingOpen = TRUE, !.next = @ + 1],
            <<Line("start", w.next, "thinking"), Line("delta", w.next, "thinking")>>)

\* _queue_text: text is held back until the turn is known to call no tool.
QueueText(w, s) ==
  IF Residue(s) = <<>> THEN [w EXCEPT !.suppressed = TRUE]
  ELSE [w EXCEPT !.pending = @ \/ ~w.hasToolCall]

\* _flush_pending_text
FlushPending(w) ==
  LET empty == [w EXCEPT !.pending = FALSE] IN
  IF w.pending /\ ~w.hasToolCall THEN EmitText(empty) ELSE empty

\* Mutated: the call is not remembered.
CallsNothing(w) == [w EXCEPT !.pending = FALSE]

CallsTool(w) == [w EXCEPT !.hasToolCall = TRUE, !.pending = FALSE]

StartTool(w) == Send([w EXCEPT !.next = @ + 1], <<Line("start", w.next, "tool")>>)

\* Mutated emit_tool_call_delta: tool_call_inputs does not grow.
ClaudeDeltaForgotten(w, c, to) ==
  LET called == CallsTool(w)
      opened == IF w.block[c] # NoBlock THEN called
                ELSE [StartTool(EndThinking(EndText(called))) EXCEPT !.block[c] = w.next]
  IN IF to = w.streamed[c] THEN called
     ELSE Send(opened, <<Piece(opened.block[c], w.streamed[c], to)>>)

\* emit_tool_call_delta: the arguments of native call c are known up to `to`.
ClaudeDelta(w, c, to) ==
  LET called == CallsTool(w)
      opened == IF w.block[c] # NoBlock THEN called
                ELSE [StartTool(EndThinking(EndText(called))) EXCEPT !.block[c] = w.next]
  IN IF to = w.streamed[c] THEN called
     ELSE Send([opened EXCEPT !.streamed[c] = to],
               <<Piece(opened.block[c], w.streamed[c], to)>>)

\* _stop_tool_call_block
StopTool(w, c) ==
  IF c \in w.stopped \/ w.block[c] = NoBlock THEN w
  ELSE Send([w EXCEPT !.stopped = @ \cup {c}], <<Line("stop", w.block[c], "tool")>>)

\* What of the arguments of a listed call was not streamed: nothing if the listing
\* does not continue what was.
Remaining(w, c) == IF c \in Respelled THEN w.streamed[c] ELSE Full

\* A call in one piece, in a block of its own; a turn never starts with one.
WholeCall(w) ==
  LET first == IF w.next = 0 /\ ~w.textOpen THEN EmitText(w) ELSE w
      fresh == StartTool(EndText(first))
  IN Send(fresh, <<Piece(fresh.next - 1, 0, Full), Line("stop", fresh.next - 1, "tool")>>)

\* _emit_tool_call
ClaudeCall(w, call, c) ==
  CASE c \in Natives /\ w.block[c] # NoBlock ->
         StopTool(ClaudeDelta(w, c, Remaining(w, c)), c)
    [] c \notin Natives \/ w.block[c] = NoBlock ->
         IF call \in w.seen THEN w ELSE WholeCall([w EXCEPT !.seen = @ \cup {call}])

\* _finish
StopTools(w) ==
  LET open == {c \in Natives \ w.stopped : w.block[c] # NoBlock}
      order == SetToSeq(open)
  IN Send([w EXCEPT !.stopped = @ \cup open],
          [i \in DOMAIN order |-> Line("stop", w.block[order[i]], "tool")])

ClaudeFinish(w) ==
  LET nothing == ~w.hasToolCall /\ ~w.pending /\ w.suppressed
      last == FlushPending([w EXCEPT !.finished = TRUE, !.pending = @ \/ nothing])
  IN IF w.finished THEN w
     ELSE Send(StopTools(EndThinking(EndText(last))),
               <<StopReason(IF w.hasToolCall THEN "tool_use" ELSE "end_turn"), MessageStop>>)

\* handle_events, for one event.
ClaudeEvent(w, e) ==
  CASE e.type = "text" -> QueueText(EndThinking(w), e.text)
    [] e.type = "thinking" -> EmitThinking(EndText(FlushPending(w)))
    [] e.type = "tool_call" -> ClaudeCall(EndThinking(EndText(CallsTool(w))), e.call, e.id)
    [] e.type = "end" -> ClaudeFinish(w)

-----------------------------------------------------------------------------
(* OpenAISSEWriter.  The attempt a line belongs to is kept with the line.  *)

Content(w) == [type |-> "content", attempt |-> w.attempt]
ToolLine(w, id, from, to) ==
  [type |-> "tool", attempt |-> w.attempt, id |-> id, from |-> from, to |-> to]
FinishReason(r) == [type |-> "finish", reason |-> r]
Done == [type |-> "done"]

NewOpenAI ==
  [hasToolCall |-> FALSE, finished |-> FALSE, attempt |-> 1, seen |-> {},
   started |-> {}, junk |-> {}, streamed |-> [c \in Natives |-> 0], suppressed |-> FALSE,
   emitted |-> FALSE, wire |-> <<[type |-> "role"]>>]

\* _queue_text, _content_delta: here text is sent as it comes.
OpenAIText(w, s) ==
  CASE Residue(s) = <<>> -> [w EXCEPT !.suppressed = TRUE]
    [] Residue(s) # <<>> /\ w.hasToolCall -> w
    [] OTHER -> Send([w EXCEPT !.emitted = TRUE], <<Content(w)>>)

Started(w, c) == [w EXCEPT !.hasToolCall = TRUE, !.started = @ \cup {c}]

\* emit_tool_call_delta: the first delta of a call is sent even if it is empty.
OpenAIDelta(w, c, to) ==
  IF c \in w.started /\ to = w.streamed[c] THEN Started(w, c)
  ELSE Send([Started(w, c) EXCEPT !.streamed[c] = to],
            <<ToolLine(w, c, w.streamed[c], to)>>)

\* The same for a delta that holds an empty object instead of arguments.
OpenAIJunk(w, c) ==
  Send([Started(w, c) EXCEPT !.junk = @ \cup {c}], <<ToolLine(w, c, 0, 0)>>)

\* emit_tool_call_final, for a listed call, or for one read from text (id "none").
OpenAICall(w, call, c) ==
  LET text == c = "none"
      mismatch == c \in w.junk \/ (c \in Respelled /\ w.streamed[c] > 0)
  IN CASE ~text /\ c \in w.started ->
            IF mismatch \/ w.streamed[c] = Full THEN w ELSE OpenAIDelta(w, c, Full)
       [] call \in w.seen /\ (text \/ c \notin w.started) -> w
       [] OTHER -> Send([w EXCEPT !.seen = @ \cup {call}], <<ToolLine(w, c, 0, Full)>>)

\* finish
OpenAIFinish(w) ==
  LET apology == ~w.hasToolCall /\ w.suppressed IN
  IF w.finished THEN w
  ELSE Send([w EXCEPT !.finished = TRUE, !.emitted = @ \/ apology],
            (IF apology THEN <<Content(w)>> ELSE <<>>)
              \o <<FinishReason(IF w.hasToolCall THEN "tool_calls" ELSE "stop")>>)

\* handle_events, for one event.
OpenAIEvent(w, e) ==
  CASE e.type = "text" -> OpenAIText(w, e.text)
    [] e.type = "tool_call" ->
         OpenAICall([w EXCEPT !.hasToolCall = TRUE], e.call, e.id)
    [] e.type = "end" -> OpenAIFinish(w)

\* Mutated has_pending_or_emitted_output: only text counts.
HasText(w) == w.emitted \/ w.suppressed

\* has_pending_or_emitted_output
HasOutput(w) == w.hasToolCall \/ w.emitted \/ w.suppressed
=============================================================================
