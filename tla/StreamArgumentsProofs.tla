------------------------ MODULE StreamArgumentsProofs ------------------------
(***************************************************************************)
(* How the arguments of calls travel in the streams of ChatStream, for any *)
(* texts, native calls and number of events: the pieces a block or a call  *)
(* is sent follow each other, and in an answer that ended well they are    *)
(* whole.                                                                  *)
(***************************************************************************)
EXTENDS ChatStreamProofs

-----------------------------------------------------------------------------
(* Pieces on a wire.                                                       *)

\* What a piece is a piece of: a call in the OpenAI stream, a block in the other.
Subject(line) == IF line.type = "tool" THEN line.id ELSE line.index

Carries(wire, k, b) == "from" \in DOMAIN wire[k] /\ Subject(wire[k]) = b
Silent(wire, b) == \A k \in DOMAIN wire : ~Carries(wire, k, b)

\* The newest piece of b among those before position n.
NewestOf(wire, k, n, b) ==
  Carries(wire, k, b) /\ \A j \in 1 .. n - 1 : Carries(wire, j, b) => j <= k

\* The pieces of b before position n go up to `to`.
UpToHere(wire, n, b, to) ==
  \/ to = 0 /\ \A k \in 1 .. n - 1 : ~Carries(wire, k, b)
  \/ \E k \in 1 .. n - 1 : NewestOf(wire, k, n, b) /\ wire[k].to = to

Reached(wire, b, to) == UpToHere(wire, Len(wire) + 1, b, to)
InOrder(wire, b) ==
  \A i \in DOMAIN wire : Carries(wire, i, b) => UpToHere(wire, i, b, wire[i].from)

\* v is what was sent as u, with the given lines after it.
Continues(v, u, lines, b) ==
  /\ Len(u) \in Nat /\ Len(lines) \in Nat /\ Len(v) = Len(u) + Len(lines)
  /\ DOMAIN u = 1 .. Len(u) /\ DOMAIN lines = 1 .. Len(lines) /\ DOMAIN v = 1 .. Len(v)
  /\ \A k \in 1 .. Len(u) : v[k] = u[k] /\ (Carries(v, k, b) <=> Carries(u, k, b))
  /\ \A j \in 1 .. Len(lines) : /\ v[Len(u) + j] = lines[j]
                                /\ Carries(v, Len(u) + j, b) <=> Carries(lines, j, b)
  /\ \A k \in 1 .. Len(v) :
       k \in 1 .. Len(u) \/ (k - Len(u) \in 1 .. Len(lines) /\ k = Len(u) + (k - Len(u)))

LEMMA Continued ==
  ASSUME NEW T, NEW u \in Seq(T), NEW lines \in Seq(T), NEW b
  PROVE  Continues(u \o lines, u, lines, b)
  <1> DEFINE v == u \o lines
  <1>1. /\ Len(u) \in Nat /\ Len(lines) \in Nat /\ Len(v) = Len(u) + Len(lines)
        /\ DOMAIN u = 1 .. Len(u) /\ DOMAIN lines = 1 .. Len(lines) /\ DOMAIN v = 1 .. Len(v)
    OBVIOUS
  <1>2. \A k \in 1 .. Len(u) : v[k] = u[k]
    OBVIOUS
  <1>3. \A j \in 1 .. Len(lines) : v[Len(u) + j] = lines[j]
    OBVIOUS
  <1>4. \A k \in 1 .. Len(v) :
          k \in 1 .. Len(u) \/ (k - Len(u) \in 1 .. Len(lines) /\ k = Len(u) + (k - Len(u)))
    BY <1>1
  <1> HIDE DEF v
  <1>5. \A k \in 1 .. Len(u) : Carries(v, k, b) <=> Carries(u, k, b)
    BY <1>2 DEF Carries
  <1>6. \A j \in 1 .. Len(lines) : Carries(v, Len(u) + j, b) <=> Carries(lines, j, b)
    BY <1>3 DEF Carries
  <1>7. Continues(v, u, lines, b)
    BY <1>1, <1>2, <1>3, <1>4, <1>5, <1>6 DEF Continues
  <1> QED BY <1>7 DEF v

\* What was sent before stays as it was.
LEMMA PastStays ==
  ASSUME NEW T, NEW u \in Seq(T), NEW lines \in Seq(T), NEW b, NEW n \in 1 .. Len(u) + 1, NEW to
  PROVE  UpToHere(u \o lines, n, b, to) <=> UpToHere(u, n, b, to)
  <1> DEFINE v == u \o lines
  <1>1. Continues(v, u, lines, b)
    BY Continued, Zenon
  <1> HIDE DEF v
  <1>2. \A k \in 1 .. n - 1 : v[k] = u[k] /\ (Carries(v, k, b) <=> Carries(u, k, b))
    BY <1>1 DEF Continues
  <1>3. \A k \in 1 .. n - 1 : NewestOf(v, k, n, b) <=> NewestOf(u, k, n, b)
    BY <1>2 DEF NewestOf
  <1> QED BY <1>2, <1>3 DEF UpToHere, v

\* Lines that are not about b change nothing for b.
LEMMA SilenceKeeps ==
  ASSUME NEW T, NEW u \in Seq(T), NEW lines \in Seq(T), NEW b, Silent(lines, b)
  PROVE  /\ Silent(u, b) => Silent(u \o lines, b)
         /\ \A to : Reached(u, b, to) => Reached(u \o lines, b, to)
         /\ InOrder(u, b) => InOrder(u \o lines, b)
  <1> DEFINE v == u \o lines
  <1>1. Continues(v, u, lines, b)
    BY Continued, Zenon
  <1>2. \A n \in 1 .. Len(u) + 1 : \A to : UpToHere(v, n, b, to) <=> UpToHere(u, n, b, to)
    BY PastStays
  <1> HIDE DEF v
  <1>3. ASSUME NEW k \in 1 .. Len(v), Carries(v, k, b) PROVE k \in 1 .. Len(u)
    <2>1. \A j \in 1 .. Len(lines) : ~Carries(lines, j, b)
      BY <1>1 DEF Continues, Silent
    <2> QED BY <1>1, <1>3, <2>1 DEF Continues
  <1>4. Silent(u, b) => Silent(v, b)
    BY <1>1, <1>3 DEF Continues, Silent
  <1>5. ASSUME NEW to, Reached(u, b, to) PROVE Reached(v, b, to)
    <2>1. \A k \in 1 .. Len(u) + 1 - 1 : k \in 1 .. Len(v) + 1 - 1
      BY <1>1 DEF Continues
    <2>2. \A k \in 1 .. Len(v) + 1 - 1 : Carries(v, k, b) => k \in 1 .. Len(u) + 1 - 1
      BY <1>1, <1>3 DEF Continues
    <2>3. UpToHere(v, Len(u) + 1, b, to)
      BY <1>1, <1>2, <1>5 DEF Continues, Reached
    <2> QED BY <2>1, <2>2, <2>3 DEF Reached, UpToHere, NewestOf
  <1>6. InOrder(u, b) => InOrder(v, b)
    BY <1>1, <1>2, <1>3 DEF Continues, InOrder
  <1> QED BY <1>4, <1>5, <1>6 DEF v

\* A piece that begins where the others end.
LEMMA PieceKeeps ==
  ASSUME NEW T, NEW u \in Seq(T), NEW lines \in Seq(T), NEW b,
         NEW j \in DOMAIN lines, Carries(lines, j, b),
         \A i \in DOMAIN lines : Carries(lines, i, b) => i = j,
         Reached(u, b, lines[j].from)
  PROVE  /\ Reached(u \o lines, b, lines[j].to)
         /\ InOrder(u, b) => InOrder(u \o lines, b)
  <1> DEFINE v == u \o lines
             k == Len(u) + j
  <1>1. Continues(v, u, lines, b)
    BY Continued, Zenon
  <1>2. \A n \in 1 .. Len(u) + 1 : \A to : UpToHere(v, n, b, to) <=> UpToHere(u, n, b, to)
    BY PastStays
  <1>3. k \in 1 .. Len(v) /\ v[k] = lines[j] /\ Carries(v, k, b) /\ k > Len(u)
    BY <1>1 DEF Continues
  <1> HIDE DEF v
  <1>4. ASSUME NEW i \in 1 .. Len(v), Carries(v, i, b) PROVE i \in 1 .. Len(u) \/ i = k
    <2>1. CASE i \in 1 .. Len(u)
      BY <2>1
    <2>2. CASE i - Len(u) \in 1 .. Len(lines) /\ i = Len(u) + (i - Len(u))
      <3>1. Carries(lines, i - Len(u), b)
        BY <1>1, <1>4, <2>2 DEF Continues
      <3> QED BY <1>1, <2>2, <3>1 DEF Continues
    <2> QED BY <1>1, <2>1, <2>2 DEF Continues
  <1> HIDE DEF k
  <1>5. Reached(v, b, lines[j].to)
    <2>1. k \in 1 .. Len(v) + 1 - 1 /\ v[k].to = lines[j].to
      BY <1>1, <1>3 DEF Continues
    <2>2. \A i \in 1 .. Len(v) + 1 - 1 : Carries(v, i, b) => i <= k
      BY <1>1, <1>3, <1>4 DEF Continues
    <2> QED BY <1>3, <2>1, <2>2 DEF Reached, UpToHere, NewestOf
  <1>6. ASSUME InOrder(u, b) PROVE InOrder(v, b)
    <2>1. ASSUME NEW i \in 1 .. Len(v), Carries(v, i, b) PROVE UpToHere(v, i, b, v[i].from)
      <3>1. CASE i \in 1 .. Len(u)
        BY <1>1, <1>2, <1>6, <2>1, <3>1 DEF Continues, InOrder
      <3>2. CASE i = k
        <4>1. UpToHere(v, Len(u) + 1, b, v[k].from)
          BY <1>1, <1>2, <1>3 DEF Continues, Reached
        <4>2. \A n \in 1 .. Len(u) + 1 - 1 : n \in 1 .. k - 1
          BY <1>1, <1>3 DEF Continues
        <4>3. \A n \in 1 .. k - 1 : Carries(v, n, b) => n \in 1 .. Len(u) + 1 - 1
          BY <1>1, <1>3, <1>4 DEF Continues
        <4> QED BY <3>2, <4>1, <4>2, <4>3 DEF UpToHere, NewestOf
      <3> QED BY <1>4, <2>1, <3>1, <3>2
    <2> QED BY <1>1, <2>1 DEF Continues, InOrder
  <1> QED BY <1>5, <1>6 DEF v

-----------------------------------------------------------------------------
(* The Claude stream: operations that send no piece.                       *)

\* Between two wires the pieces of b stay as they are.
Stays(u, v, b) ==
  /\ Silent(u, b) => Silent(v, b)
  /\ \A to : Reached(u, b, to) => Reached(v, b, to)
  /\ InOrder(u, b) => InOrder(v, b)

\* What is sent after u has no piece: v is u with more lines.
Hushed(u, v) ==
  /\ \A b : Stays(u, v, b)
  /\ \A k \in DOMAIN v : "from" \in DOMAIN v[k] => k \in DOMAIN u /\ v[k] = u[k]

Quietly(w, v) ==
  /\ v \in ClaudeWriters
  /\ v.block = w.block /\ v.streamed = w.streamed /\ v.next >= w.next
  /\ Hushed(w.wire, v.wire)

LEMMA HushedSame == \A u : Hushed(u, u)
  BY DEF Hushed, Stays

LEMMA HushedOn ==
  ASSUME NEW u, NEW v, NEW x, Hushed(u, v), Hushed(v, x)
  PROVE  Hushed(u, x)
  <1>1. ASSUME NEW b PROVE Stays(u, x, b)
    <2>1. Stays(u, v, b) /\ Stays(v, x, b)
      BY Zenon DEF Hushed
    <2> QED BY <2>1 DEF Stays
  <1>2. \A k \in DOMAIN x : "from" \in DOMAIN x[k] => k \in DOMAIN u /\ x[k] = u[k]
    BY DEF Hushed
  <1> QED BY <1>1, <1>2 DEF Hushed

LEMMA HushedLines ==
  ASSUME NEW T, NEW u \in Seq(T), NEW lines \in Seq(T), \A i \in DOMAIN lines : "from" \notin DOMAIN lines[i]
  PROVE  Hushed(u, u \o lines)
  <1>1. ASSUME NEW b PROVE Stays(u, u \o lines, b)
    <2>1. Silent(lines, b)
      BY DEF Silent, Carries
    <2> QED BY <2>1, SilenceKeeps DEF Stays
  <1>2. Continues(u \o lines, u, lines, 0)
    BY Continued, Zenon
  <1> DEFINE v == u \o lines
  <1> HIDE DEF v
  <1>3. Continues(v, u, lines, 0)
    BY <1>2 DEF v
  <1>4. ASSUME NEW k \in DOMAIN v, "from" \in DOMAIN v[k] PROVE k \in DOMAIN u /\ v[k] = u[k]
    <2>1. CASE k \in 1 .. Len(u)
      BY <1>3, <2>1 DEF Continues
    <2>2. CASE k - Len(u) \in 1 .. Len(lines) /\ k = Len(u) + (k - Len(u))
      <3>1. v[k] = lines[k - Len(u)] /\ k - Len(u) \in DOMAIN lines
        BY <1>3, <2>2 DEF Continues
      <3> QED BY <1>4, <3>1
    <2> QED BY <1>3, <2>1, <2>2 DEF Continues
  <1> QED BY <1>1, <1>4 DEF Hushed, v

LEMMA QuietlyOn ==
  ASSUME NEW w \in ClaudeWriters, NEW v, NEW x, Quietly(w, v), Quietly(v, x)
  PROVE  Quietly(w, x)
  <1>1. w.next \in Int /\ v.next \in Int /\ x.next \in Int /\ x.next >= v.next /\ v.next >= w.next
    BY DEF Quietly, ClaudeWriters
  <1>2. x.next >= w.next
    BY <1>1
  <1>3. Hushed(w.wire, x.wire)
    BY HushedOn DEF Quietly
  <1> QED BY <1>2, <1>3 DEF Quietly

\* v is w but for fields that are not about pieces.
LEMMA QuietlySame ==
  ASSUME NEW w \in ClaudeWriters, NEW v \in ClaudeWriters, v.block = w.block,
         v.streamed = w.streamed, v.next >= w.next, v.wire = w.wire
  PROVE  Quietly(w, v)
  BY HushedSame DEF Quietly

LEMMA SendQuietly ==
  ASSUME NEW w \in ClaudeWriters, NEW v \in ClaudeWriters, v.block = w.block,
         v.streamed = w.streamed, v.next >= w.next, v.wire = w.wire,
         NEW lines \in Seq(Quiet)
  PROVE  Quietly(w, Send(v, lines)) /\ Send(v, lines).next = v.next
  <1>1. lines \in Seq(Speech) /\ \A i \in DOMAIN lines : "from" \notin DOMAIN lines[i]
    BY QuietLines DEF Called
  <1>2. Send(v, lines) \in ClaudeWriters /\ Send(v, lines) = [v EXCEPT !.wire = v.wire \o lines]
    BY <1>1, SendFits
  <1>3. /\ Send(v, lines).block = v.block /\ Send(v, lines).streamed = v.streamed
        /\ Send(v, lines).next = v.next /\ Send(v, lines).wire = w.wire \o lines
    BY <1>2 DEF ClaudeWriters
  <1>4. w.wire \in Seq(Speech)
    BY DEF ClaudeWriters
  <1>5. Hushed(w.wire, w.wire \o lines)
    BY <1>1, <1>4, HushedLines
  <1> QED BY <1>2, <1>3, <1>5 DEF Quietly

LEMMA EndTextQuiet ==
  ASSUME NEW w \in ClaudeWriters
  PROVE  Quietly(w, EndText(w)) /\ EndText(w).next = w.next
  <1> DEFINE v == [w EXCEPT !.textOpen = FALSE]
             lines == <<Line("stop", w.next - 1, "text")>>
  <1>1. w.next \in Int /\ w.next - 1 \in Int
    BY NextFits
  <1>2. /\ v \in ClaudeWriters /\ v.block = w.block /\ v.streamed = w.streamed
        /\ v.next = w.next /\ v.wire = w.wire
    BY DEF ClaudeWriters
  <1>3. lines \in Seq(Quiet)
    BY <1>1, LinesFit
  <1>4. Quietly(w, w) /\ EndText(w) = IF w.textOpen THEN Send(v, lines) ELSE w
    BY <1>1, QuietlySame DEF EndText
  <1> HIDE DEF v, lines
  <1>5. Quietly(w, Send(v, lines)) /\ Send(v, lines).next = w.next
    BY <1>1, <1>2, <1>3, SendQuietly
  <1> QED BY <1>4, <1>5

LEMMA EndThinkingQuiet ==
  ASSUME NEW w \in ClaudeWriters
  PROVE  Quietly(w, EndThinking(w)) /\ EndThinking(w).next = w.next
  <1> DEFINE v == [w EXCEPT !.thinkingOpen = FALSE]
             lines == <<Line("stop", w.next - 1, "thinking")>>
  <1>1. w.next \in Int /\ w.next - 1 \in Int
    BY NextFits
  <1>2. /\ v \in ClaudeWriters /\ v.block = w.block /\ v.streamed = w.streamed
        /\ v.next = w.next /\ v.wire = w.wire
    BY DEF ClaudeWriters
  <1>3. lines \in Seq(Quiet)
    BY <1>1, LinesFit
  <1>4. Quietly(w, w) /\ EndThinking(w) = IF w.thinkingOpen THEN Send(v, lines) ELSE w
    BY <1>1, QuietlySame DEF EndThinking
  <1> HIDE DEF v, lines
  <1>5. Quietly(w, Send(v, lines)) /\ Send(v, lines).next = w.next
    BY <1>1, <1>2, <1>3, SendQuietly
  <1> QED BY <1>4, <1>5

LEMMA EmitTextQuiet ==
  ASSUME NEW w \in ClaudeWriters
  PROVE  Quietly(w, EmitText(w))
  <1> DEFINE v == [w EXCEPT !.textOpen = TRUE, !.next = w.next + 1]
             lines == <<Line("start", w.next, "text"), Line("delta", w.next, "text")>>
             more == <<Line("delta", w.next - 1, "text")>>
  <1>1. w.next \in Nat /\ w.next + 1 \in Nat /\ w.next - 1 \in Int /\ w.next \in Int
    BY DEF ClaudeWriters
  <1>2. /\ v \in ClaudeWriters /\ v.block = w.block /\ v.streamed = w.streamed
        /\ v.next >= w.next /\ v.wire = w.wire
    <2>1. v \in ClaudeWriters
      BY <1>1 DEF ClaudeWriters
    <2>2. v.next = w.next + 1 /\ v.block = w.block /\ v.streamed = w.streamed /\ v.wire = w.wire
      BY DEF ClaudeWriters
    <2> QED BY <1>1, <2>1, <2>2
  <1>3. lines \in Seq(Quiet) /\ more \in Seq(Quiet)
    BY <1>1, LinesFit
  <1>4. EmitText(w) = IF w.textOpen THEN Send(w, more) ELSE Send(v, lines)
    BY DEF EmitText
  <1> HIDE DEF v, lines, more
  <1>5. Quietly(w, Send(v, lines)) /\ Quietly(w, Send(w, more))
    BY <1>1, <1>2, <1>3, SendQuietly
  <1> QED BY <1>4, <1>5

LEMMA EmitThinkingQuiet ==
  ASSUME NEW w \in ClaudeWriters
  PROVE  Quietly(w, EmitThinking(w))
  <1> DEFINE v == [w EXCEPT !.thinkingOpen = TRUE, !.next = w.next + 1]
             lines == <<Line("start", w.next, "thinking"), Line("delta", w.next, "thinking")>>
             more == <<Line("delta", w.next - 1, "thinking")>>
  <1>1. w.next \in Nat /\ w.next + 1 \in Nat /\ w.next - 1 \in Int /\ w.next \in Int
    BY DEF ClaudeWriters
  <1>2. /\ v \in ClaudeWriters /\ v.block = w.block /\ v.streamed = w.streamed
        /\ v.next >= w.next /\ v.wire = w.wire
    <2>1. v \in ClaudeWriters
      BY <1>1 DEF ClaudeWriters
    <2>2. v.next = w.next + 1 /\ v.block = w.block /\ v.streamed = w.streamed /\ v.wire = w.wire
      BY DEF ClaudeWriters
    <2> QED BY <1>1, <2>1, <2>2
  <1>3. lines \in Seq(Quiet) /\ more \in Seq(Quiet)
    BY <1>1, LinesFit
  <1>4. EmitThinking(w) = IF w.thinkingOpen THEN Send(w, more) ELSE Send(v, lines)
    BY DEF EmitThinking
  <1> HIDE DEF v, lines, more
  <1>5. Quietly(w, Send(v, lines)) /\ Quietly(w, Send(w, more))
    BY <1>1, <1>2, <1>3, SendQuietly
  <1> QED BY <1>4, <1>5

LEMMA QueueTextQuiet ==
  ASSUME NEW w \in ClaudeWriters, NEW s
  PROVE  Quietly(w, QueueText(w, s))
  <1> DEFINE v == QueueText(w, s)
  <1>1. /\ v \in ClaudeWriters /\ v.block = w.block /\ v.streamed = w.streamed
        /\ v.next = w.next /\ v.wire = w.wire /\ w.next \in Int
    <2>1. v \in ClaudeWriters
      BY DEF QueueText, ClaudeWriters
    <2>3. w.next \in Int
      BY NextFits
    <2>2. v.next = w.next /\ v.block = w.block /\ v.streamed = w.streamed /\ v.wire = w.wire
      BY DEF QueueText, ClaudeWriters
    <2> HIDE DEF v
    <2> QED BY <2>1, <2>2, <2>3
  <1> HIDE DEF v
  <1>2. Quietly(w, v)
    BY <1>1, QuietlySame
  <1> QED BY <1>2 DEF v

LEMMA CallsToolQuiet ==
  ASSUME NEW w \in ClaudeWriters
  PROVE  Quietly(w, CallsTool(w)) /\ CallsTool(w).next = w.next
  <1> DEFINE v == CallsTool(w)
  <1>1. /\ v \in ClaudeWriters /\ v.block = w.block /\ v.streamed = w.streamed
        /\ v.next = w.next /\ v.wire = w.wire /\ w.next \in Int
    <2>1. v \in ClaudeWriters
      BY DEF CallsTool, ClaudeWriters
    <2>3. w.next \in Int
      BY NextFits
    <2>2. v.next = w.next /\ v.block = w.block /\ v.streamed = w.streamed /\ v.wire = w.wire
      BY DEF CallsTool, ClaudeWriters
    <2> HIDE DEF v
    <2> QED BY <2>1, <2>2, <2>3
  <1> HIDE DEF v
  <1>2. Quietly(w, v)
    BY <1>1, QuietlySame
  <1> QED BY <1>1, <1>2 DEF v

LEMMA FlushPendingQuiet ==
  ASSUME NEW w \in ClaudeWriters
  PROVE  Quietly(w, FlushPending(w))
  <1> DEFINE v == [w EXCEPT !.pending = FALSE]
  <1>1. /\ v \in ClaudeWriters /\ v.block = w.block /\ v.streamed = w.streamed
        /\ v.next = w.next /\ v.wire = w.wire /\ w.next \in Int
    <2>1. v \in ClaudeWriters
      BY DEF ClaudeWriters
    <2>3. w.next \in Int
      BY NextFits
    <2>2. v.next = w.next /\ v.block = w.block /\ v.streamed = w.streamed /\ v.wire = w.wire
      BY DEF ClaudeWriters
    <2> HIDE DEF v
    <2> QED BY <2>1, <2>2, <2>3
  <1>2. FlushPending(w) = IF w.pending /\ ~w.hasToolCall THEN EmitText(v) ELSE v
    BY DEF FlushPending
  <1> HIDE DEF v
  <1>3. Quietly(w, v) /\ Quietly(v, EmitText(v))
    BY <1>1, QuietlySame, EmitTextQuiet
  <1>4. Quietly(w, EmitText(v))
    BY <1>3, QuietlyOn
  <1> QED BY <1>2, <1>3, <1>4

LEMMA StartToolQuiet ==
  ASSUME NEW w \in ClaudeWriters
  PROVE  Quietly(w, StartTool(w)) /\ StartTool(w).next = w.next + 1
  <1> DEFINE v == [w EXCEPT !.next = w.next + 1]
             lines == <<Line("start", w.next, "tool")>>
  <1>1. w.next \in Nat /\ w.next + 1 \in Nat /\ w.next \in Int
    BY DEF ClaudeWriters
  <1>2. /\ v \in ClaudeWriters /\ v.block = w.block /\ v.streamed = w.streamed
        /\ v.next = w.next + 1 /\ v.wire = w.wire
    BY <1>1 DEF ClaudeWriters
  <1>3. lines \in Seq(Quiet)
    BY <1>1, LinesFit
  <1>4. StartTool(w) = Send(v, lines)
    BY DEF StartTool
  <1> HIDE DEF v, lines
  <1>5. Quietly(w, Send(v, lines)) /\ Send(v, lines).next = w.next + 1
    BY <1>1, <1>2, <1>3, SendQuietly
  <1> QED BY <1>4, <1>5

LEMMA StopToolQuiet ==
  ASSUME NEW w \in ClaudeWriters, NEW c \in Natives
  PROVE  Quietly(w, StopTool(w, c))
  <1> DEFINE v == [w EXCEPT !.stopped = w.stopped \cup {c}]
             lines == <<Line("stop", w.block[c], "tool")>>
  <1>1. w.next \in Int /\ w.block[c] \in Int
    BY DEF ClaudeWriters
  <1>2. /\ v \in ClaudeWriters /\ v.block = w.block /\ v.streamed = w.streamed
        /\ v.next = w.next /\ v.wire = w.wire
    BY DEF ClaudeWriters
  <1>3. lines \in Seq(Quiet)
    BY <1>1, LinesFit
  <1>4. Quietly(w, w) /\ StopTool(w, c) = IF c \in w.stopped \/ w.block[c] = NoBlock THEN w ELSE Send(v, lines)
    BY <1>1, QuietlySame DEF StopTool
  <1> HIDE DEF v, lines
  <1>5. Quietly(w, Send(v, lines))
    BY <1>1, <1>2, <1>3, SendQuietly
  <1> QED BY <1>4, <1>5

-----------------------------------------------------------------------------
(* The Claude stream: operations that send a piece.                        *)

\* Between two wires the pieces of b grow up to `to`, those of other blocks stay.
Grows(u, v, b, to) ==
  /\ Reached(v, b, to) /\ (InOrder(u, b) => InOrder(v, b))
  /\ \A a : a # b => Stays(u, v, a)

LEMMA PieceGrows ==
  ASSUME NEW u \in Seq(Speech), NEW b \in Int, NEW from \in 0 .. Full, NEW to \in 0 .. Full,
         Reached(u, b, from),
         NEW lines \in {<<Piece(b, from, to)>>, <<Piece(b, from, to), Line("stop", b, "tool")>>}
  PROVE  Grows(u, u \o lines, b, to) /\ lines \in Seq(Speech)
  <1> DEFINE p == Piece(b, from, to)
             q == Line("stop", b, "tool")
  <1>1. /\ p.from = from /\ p.to = to /\ "from" \in DOMAIN p /\ Subject(p) = b
        /\ p \in Speech /\ q \in Speech /\ "from" \notin DOMAIN q
    BY LinesFit, PiecesCall DEF Piece, Subject, Speech
  <1>2. lines = <<p>> \/ lines = <<p, q>>
    OBVIOUS
  <1> HIDE DEF p, q
  <1>3. /\ lines \in Seq(Speech) /\ 1 \in DOMAIN lines /\ lines[1] = p
        /\ \A i \in DOMAIN lines : i = 1 \/ lines[i] = q
    <2>1. CASE lines = <<p>>
      BY <1>1, <2>1
    <2>2. CASE lines = <<p, q>>
      BY <1>1, <2>2
    <2> QED BY <1>2, <2>1, <2>2
  <1>4. /\ Carries(lines, 1, b) /\ \A a : \A i \in DOMAIN lines : Carries(lines, i, a) => i = 1 /\ a = b
    BY <1>1, <1>3 DEF Carries
  <1>5. Reached(u \o lines, b, to) /\ (InOrder(u, b) => InOrder(u \o lines, b))
    <2>1. Reached(u, b, lines[1].from) /\ lines[1].to = to
      BY <1>1, <1>3
    <2>2. \A i \in DOMAIN lines : Carries(lines, i, b) => i = 1
      BY <1>4
    <2>3. 1 \in DOMAIN lines /\ Carries(lines, 1, b)
      BY <1>3, <1>4
    <2>4. Reached(u \o lines, b, lines[1].to) /\ (InOrder(u, b) => InOrder(u \o lines, b))
      BY <1>3, <2>1, <2>2, <2>3, PieceKeeps
    <2> QED BY <2>1, <2>4
  <1>6. ASSUME NEW a, a # b
        PROVE  Stays(u, u \o lines, a)
    <2>1. Silent(lines, a)
      BY <1>4, <1>6 DEF Silent
    <2> QED BY <1>3, <2>1, SilenceKeeps DEF Stays
  <1>7. Grows(u, u \o lines, b, to)
    BY <1>5, <1>6 DEF Grows, Stays
  <1> QED BY <1>3, <1>7

\* What holds of every block: its pieces follow each other; it has been opened if it
\* has any; and unless they are those of a native call they are whole.
Assigned(w, b) == \E c \in Natives : w.block[c] = b
BlockArguments(w, b) ==
  /\ InOrder(w.wire, b)
  /\ ~Silent(w.wire, b) => b \in 0 .. w.next - 1
  /\ Silent(w.wire, b) \/ Reached(w.wire, b, Full) \/ Assigned(w, b)

\* What holds of every native call: the writer knows what was sent of it.
CallArguments(w, c) ==
  /\ w.block[c] = NoBlock <=> w.streamed[c] = 0
  /\ w.block[c] # NoBlock =>
       w.block[c] \in 0 .. w.next - 1 /\ Reached(w.wire, w.block[c], w.streamed[c])

BlocksApart(w) == \A c, d \in Natives : w.block[c] = w.block[d] /\ w.block[c] # NoBlock => c = d

ClaudeArguments ==
  {w \in ClaudeWriters :
     /\ \A b \in Int : BlockArguments(w, b)
     /\ \A c \in Natives : CallArguments(w, c)
     /\ BlocksApart(w)}

LEMMA QuietlyKeeps ==
  ASSUME NEW w \in ClaudeArguments, NEW v, Quietly(w, v)
  PROVE  v \in ClaudeArguments
  <1>1. /\ v \in ClaudeWriters /\ v.block = w.block /\ v.streamed = w.streamed /\ v.next >= w.next
        /\ Hushed(w.wire, v.wire)
    BY DEF Quietly
  <1>2. w.next \in Int /\ v.next \in Int /\ \A b \in 0 .. w.next - 1 : b \in 0 .. v.next - 1
    <2>1. w.next \in Int /\ v.next \in Int /\ v.next >= w.next
      BY <1>1, NextFits DEF ClaudeArguments
    <2> QED BY <2>1
  <1>3. \A b : Stays(w.wire, v.wire, b)
    BY <1>1, Zenon DEF Hushed
  <1>4. ASSUME NEW b \in Int PROVE BlockArguments(v, b)
    <2>1. BlockArguments(w, b)
      BY DEF ClaudeArguments
    <2>2. Assigned(w, b) <=> Assigned(v, b)
      BY <1>1 DEF Assigned
    <2> QED BY <1>1, <1>2, <1>3, <2>1, <2>2 DEF BlockArguments, Stays
  <1>5. ASSUME NEW c \in Natives PROVE CallArguments(v, c)
    <2>1. CallArguments(w, c) /\ w.block[c] \in Int
      BY DEF ClaudeArguments, ClaudeWriters
    <2> QED BY <1>1, <1>2, <1>3, <2>1 DEF CallArguments, Stays
  <1>6. BlocksApart(v)
    BY <1>1 DEF ClaudeArguments, BlocksApart
  <1> QED BY <1>1, <1>4, <1>5, <1>6 DEF ClaudeArguments

\* v has sent one piece more than u, of native call c in its own block or a new one.
GivesPiece(u, v, c, b, from, to) ==
  /\ b \in 0 .. u.next - 1 /\ from \in 0 .. Full /\ to \in 1 .. Full
  /\ \/ u.block[c] = b /\ from = u.streamed[c]
     \/ u.block[c] = NoBlock /\ from = 0 /\ Silent(u.wire, b) /\ ~Assigned(u, b)
  /\ v.next = u.next /\ v.wire = u.wire \o <<Piece(b, from, to)>>
  /\ v.block = [u.block EXCEPT ![c] = b] /\ v.streamed = [u.streamed EXCEPT ![c] = to]

LEMMA PieceArguments ==
  ASSUME NEW u \in ClaudeArguments, NEW c \in Natives, NEW v \in ClaudeWriters,
         NEW b, NEW from, NEW to, GivesPiece(u, v, c, b, from, to)
  PROVE  v \in ClaudeArguments
  <1> USE DEF GivesPiece
  <1>1. u \in ClaudeWriters /\ u.wire \in Seq(Speech) /\ u.next \in Int /\ b \in Int /\ b # NoBlock
    <2>1. u \in ClaudeWriters
      BY DEF ClaudeArguments
    <2>2. u.next \in Int
      BY <2>1, NextFits
    <2>3. u.wire \in Seq(Speech)
      BY <2>1 DEF ClaudeWriters
    <2>4. b \in Int /\ b # NoBlock
      BY <2>2 DEF NoBlock
    <2> QED BY <2>1, <2>2, <2>3, <2>4
  <1>2. CallArguments(u, c) /\ BlocksApart(u)
    BY DEF ClaudeArguments
  <1>3. Reached(u.wire, b, from)
    <2>1. CASE u.block[c] = b /\ from = u.streamed[c]
      BY <1>1, <1>2, <2>1 DEF CallArguments
    <2>2. CASE from = 0 /\ Silent(u.wire, b)
      BY <1>1, <2>2 DEF Reached, UpToHere, Silent
    <2> QED BY <2>1, <2>2
  <1>4. to \in 0 .. Full /\ to # 0
    BY DEF Full
  <1>5. Grows(u.wire, v.wire, b, to)
    <2> DEFINE lines == <<Piece(b, from, to)>>
    <2>1. lines \in {<<Piece(b, from, to)>>, <<Piece(b, from, to), Line("stop", b, "tool")>>}
      OBVIOUS
    <2> HIDE DEF lines
    <2>2. Grows(u.wire, u.wire \o lines, b, to)
      BY <1>1, <1>3, <1>4, <2>1, PieceGrows
    <2> QED BY <2>2 DEF lines
  <1>6. /\ v.block[c] = b /\ v.streamed[c] = to
        /\ \A d \in Natives \ {c} : v.block[d] = u.block[d] /\ v.streamed[d] = u.streamed[d]
    <2>1. u.block \in [Natives -> Int] /\ u.streamed \in [Natives -> 0 .. Full]
      BY <1>1 DEF ClaudeWriters
    <2> QED BY <2>1
  <1>7. \A d \in Natives \ {c} : u.block[d] # b
    BY <1>1, <1>2 DEF BlocksApart, Assigned
  <1>8. ASSUME NEW a \in Int PROVE BlockArguments(v, a)
    <2>1. BlockArguments(u, a)
      BY DEF ClaudeArguments
    <2>2. CASE a = b
      BY <1>5, <1>6, <2>1, <2>2 DEF BlockArguments, Grows, Stays, Assigned
    <2>3. CASE a # b /\ a = NoBlock
      <3>1. Silent(u.wire, a)
        BY <1>1, <2>1, <2>3 DEF BlockArguments, NoBlock
      <3> QED BY <1>5, <2>1, <2>3, <3>1 DEF BlockArguments, Grows, Stays
    <2>4. CASE a # b /\ a # NoBlock
      <3>1. Assigned(u, a) => Assigned(v, a)
        <4>1. ASSUME NEW d \in Natives, u.block[d] = a PROVE v.block[d] = a
          <5>1. d # c
            BY <2>4, <4>1
          <5> QED BY <1>6, <4>1, <5>1
        <4> QED BY <4>1 DEF Assigned
      <3> QED BY <1>1, <1>5, <2>1, <2>4, <3>1 DEF BlockArguments, Grows, Stays
    <2> QED BY <2>2, <2>3, <2>4
  <1>9. ASSUME NEW d \in Natives PROVE CallArguments(v, d)
    <2>1. CASE d = c
      BY <1>1, <1>4, <1>5, <1>6, <2>1 DEF CallArguments, Grows, Stays
    <2>2. CASE d # c
      <3>1. CallArguments(u, d) /\ u.block[d] \in Int
        BY <1>1 DEF ClaudeArguments, ClaudeWriters
      <3> QED BY <1>5, <1>6, <1>7, <2>2, <3>1 DEF CallArguments, Grows, Stays
    <2> QED BY <2>1, <2>2
  <1>10. BlocksApart(v)
    BY <1>2, <1>6, <1>7 DEF BlocksApart
  <1> QED BY <1>8, <1>9, <1>10 DEF ClaudeArguments

\* The block of a call that begins has had no piece.
LEMMA OpenedQuiet ==
  ASSUME NEW w \in ClaudeWriters
  PROVE  LET v == StartTool(EndThinking(EndText(w))) IN Quietly(w, v) /\ v.next = w.next + 1
  <1> DEFINE t == EndText(w)
             u == EndThinking(t)
             v == StartTool(u)
  <1>1. Quietly(w, t) /\ t.next = w.next
    BY EndTextQuiet
  <1> HIDE DEF t
  <1>2. Quietly(t, u) /\ u.next = t.next
    BY <1>1, EndThinkingQuiet DEF Quietly
  <1> HIDE DEF u
  <1>3. Quietly(u, v) /\ v.next = u.next + 1
    BY <1>2, StartToolQuiet DEF Quietly
  <1> HIDE DEF v
  <1>4. Quietly(w, u)
    BY <1>1, <1>2, QuietlyOn
  <1>5. Quietly(w, v) /\ v.next = w.next + 1
    BY <1>1, <1>2, <1>3, <1>4, QuietlyOn
  <1> QED BY <1>5 DEF t, u, v

LEMMA FreshBlock ==
  ASSUME NEW w \in ClaudeArguments, NEW v, Quietly(w, v)
  PROVE  Silent(v.wire, w.next) /\ ~Assigned(v, w.next)
  <1>1. w.next \in Int /\ w.next # NoBlock /\ w.next \notin 0 .. w.next - 1
    <2>1. w.next \in Nat
      BY DEF ClaudeArguments, ClaudeWriters
    <2> QED BY <2>1 DEF NoBlock
  <1>2. Silent(w.wire, w.next)
    BY <1>1 DEF ClaudeArguments, BlockArguments
  <1>3. \A c \in Natives : w.block[c] # w.next
    BY <1>1 DEF ClaudeArguments, CallArguments
  <1> QED BY <1>1, <1>2, <1>3 DEF Quietly, Hushed, Stays, Assigned

\* The last piece that emit_tool_call_delta sends goes up to what it was given.
LEMMA DeltaArguments ==
  ASSUME NEW w \in ClaudeArguments, NEW c \in Natives, NEW to \in 0 .. Full, to >= w.streamed[c]
  PROVE  LET v == ClaudeDelta(w, c, to) IN
         v \in ClaudeArguments /\ v.streamed = [w.streamed EXCEPT ![c] = to]
  <1> DEFINE called == CallsTool(w)
             begun == StartTool(EndThinking(EndText(called)))
             opened == IF w.block[c] # NoBlock THEN called ELSE [begun EXCEPT !.block[c] = w.next]
             grown == [opened EXCEPT !.streamed[c] = to]
             u == IF w.block[c] # NoBlock THEN called ELSE begun
             b == opened.block[c]
             from == w.streamed[c]
             lines == <<Piece(opened.block[c], w.streamed[c], to)>>
             v == ClaudeDelta(w, c, to)
  <1>1. w \in ClaudeWriters /\ from \in 0 .. Full
    BY DEF ClaudeArguments, ClaudeWriters
  <1>2. Quietly(w, called) /\ called.next = w.next
    BY <1>1, CallsToolQuiet
  <1>3. called \in ClaudeArguments
    BY <1>2, QuietlyKeeps
  <1> HIDE DEF called
  <1>4. Quietly(called, begun) /\ begun.next = called.next + 1
    BY <1>2, OpenedQuiet DEF Quietly
  <1> HIDE DEF begun
  <1>5. Quietly(w, begun) /\ begun \in ClaudeArguments
    BY <1>1, <1>2, <1>3, <1>4, QuietlyOn, QuietlyKeeps
  <1>6. CASE to = from
    <2>1. v = called /\ called.streamed = w.streamed
      BY <1>2, <1>6 DEF ClaudeDelta, called, Quietly
    <2>2. w.streamed = [w.streamed EXCEPT ![c] = to]
      BY <1>1, <1>6 DEF ClaudeWriters
    <2> QED BY <1>3, <2>1, <2>2
  <1>7. CASE to # from
    <2>1. to \in 1 .. Full
      BY <1>1, <1>7 DEF Full
    <2>2. u \in ClaudeArguments /\ u \in ClaudeWriters /\ u.block = w.block /\ u.streamed = w.streamed
      BY <1>2, <1>3, <1>5 DEF ClaudeArguments, Quietly
    <2>3. /\ b \in 0 .. u.next - 1
          /\ \/ u.block[c] = b /\ from = u.streamed[c]
             \/ u.block[c] = NoBlock /\ from = 0 /\ Silent(u.wire, b) /\ ~Assigned(u, b)
          /\ opened \in ClaudeWriters /\ opened.next = u.next /\ opened.wire = u.wire
          /\ opened.streamed = u.streamed /\ opened.block = [u.block EXCEPT ![c] = b]
      <3>1. CASE w.block[c] # NoBlock
        <4>1. opened = called /\ u = called /\ b = w.block[c]
          BY <1>2, <3>1 DEF Quietly
        <4>2. CallArguments(w, c)
          BY DEF ClaudeArguments
        <4>3. b \in 0 .. u.next - 1
          BY <1>2, <3>1, <4>1, <4>2 DEF CallArguments
        <4> HIDE DEF opened, u, b
        <4>4. u.block = [u.block EXCEPT ![c] = b]
          BY <2>2, <4>1 DEF ClaudeWriters
        <4> QED BY <2>2, <4>1, <4>3, <4>4
      <3>2. CASE w.block[c] = NoBlock
        <4>1. opened = [begun EXCEPT !.block[c] = w.next] /\ u = begun
          BY <3>2
        <4>2. begun.block \in [Natives -> Int] /\ w.next \in Nat /\ w.next \in Int
          BY <1>1, <2>2, <4>1 DEF ClaudeWriters
        <4>3. [begun EXCEPT !.block[c] = w.next] \in ClaudeWriters
          BY <2>2, <4>1, <4>2 DEF ClaudeWriters
        <4>4. LET z == [begun EXCEPT !.block[c] = w.next] IN
              /\ z.next = begun.next /\ z.wire = begun.wire /\ z.streamed = begun.streamed
              /\ z.block = [begun.block EXCEPT ![c] = w.next]
          BY <2>2, <4>1 DEF ClaudeWriters
        <4>5. b = w.next
          BY <4>1, <4>2, <4>4
        <4>6. w.streamed[c] = 0
          BY <3>2 DEF ClaudeArguments, CallArguments
        <4>7. Silent(begun.wire, w.next) /\ ~Assigned(begun, w.next)
          BY <1>5, FreshBlock
        <4>8. b \in 0 .. u.next - 1
          BY <1>2, <1>4, <4>1, <4>2, <4>5
        <4> HIDE DEF opened, u, b
        <4> QED BY <2>2, <3>2, <4>1, <4>3, <4>4, <4>5, <4>6, <4>7, <4>8
      <3> QED BY <3>1, <3>2
    <2>4. v = Send(grown, lines)
      BY <1>7 DEF ClaudeDelta, called, begun
    <2> HIDE DEF opened, u, v
    <2>5. grown \in ClaudeWriters
      BY <2>3 DEF ClaudeWriters
    <2>6. /\ grown.next = u.next /\ grown.wire = u.wire /\ grown.block = [u.block EXCEPT ![c] = b]
          /\ grown.streamed = [u.streamed EXCEPT ![c] = to]
      BY <2>3 DEF ClaudeWriters
    <2> HIDE DEF grown
    <2>7. lines = <<Piece(b, from, to)>> /\ lines \in Seq(Speech)
      <3>1. b \in Int
        BY <2>2, <2>3, NextFits
      <3>2. Piece(b, from, to) \in Speech
        BY <1>1, <3>1, LinesFit DEF Speech
      <3> QED BY <3>2
    <2> HIDE DEF lines, b, from
    <2>8. v \in ClaudeWriters /\ v = [grown EXCEPT !.wire = grown.wire \o lines]
      BY <2>4, <2>5, <2>7, SendFits
    <2>9. /\ v.next = u.next /\ v.wire = u.wire \o <<Piece(b, from, to)>>
          /\ v.block = [u.block EXCEPT ![c] = b] /\ v.streamed = [u.streamed EXCEPT ![c] = to]
      BY <2>5, <2>6, <2>7, <2>8 DEF ClaudeWriters
    <2>10. v \in ClaudeArguments
      <3>1. GivesPiece(u, v, c, b, from, to)
        BY <1>1, <2>1, <2>3, <2>9 DEF GivesPiece
      <3> QED BY <2>2, <2>8, <3>1, PieceArguments
    <2> QED BY <2>2, <2>9, <2>10 DEF v
  <1> QED BY <1>6, <1>7

\* A call in one piece, in a block that has had none.
LEMMA WholeArguments ==
  ASSUME NEW u \in ClaudeArguments, NEW b \in 0 .. u.next - 1, Silent(u.wire, b), ~Assigned(u, b)
  PROVE  LET v == Send(u, <<Piece(b, 0, Full), Line("stop", b, "tool")>>) IN
         v \in ClaudeArguments /\ v.block = u.block /\ v.streamed = u.streamed
  <1> DEFINE lines == <<Piece(b, 0, Full), Line("stop", b, "tool")>>
             v == Send(u, lines)
  <1>1. u \in ClaudeWriters /\ u.wire \in Seq(Speech) /\ u.next \in Int /\ b \in Int
    <2>1. u \in ClaudeWriters
      BY DEF ClaudeArguments
    <2>2. u.next \in Int /\ u.wire \in Seq(Speech)
      BY <2>1, NextFits DEF ClaudeWriters
    <2> QED BY <2>1, <2>2
  <1>2. Reached(u.wire, b, 0) /\ 0 \in 0 .. Full /\ Full \in 0 .. Full
    BY <1>1 DEF Reached, UpToHere, Silent, Full
  <1>3. lines \in {<<Piece(b, 0, Full)>>, <<Piece(b, 0, Full), Line("stop", b, "tool")>>}
    OBVIOUS
  <1> HIDE DEF lines
  <1>4. Grows(u.wire, u.wire \o lines, b, Full) /\ lines \in Seq(Speech)
    BY <1>1, <1>2, <1>3, PieceGrows
  <1>5. v \in ClaudeWriters /\ v = [u EXCEPT !.wire = u.wire \o lines]
    BY <1>1, <1>4, SendFits
  <1> HIDE DEF v
  <1>6. v.next = u.next /\ v.block = u.block /\ v.streamed = u.streamed /\ v.wire = u.wire \o lines
    BY <1>1, <1>5 DEF ClaudeWriters
  <1>7. ASSUME NEW a \in Int PROVE BlockArguments(v, a)
    <2>1. BlockArguments(u, a)
      BY DEF ClaudeArguments
    <2>2. Assigned(u, a) <=> Assigned(v, a)
      BY <1>6 DEF Assigned
    <2> QED BY <1>4, <1>6, <2>1, <2>2 DEF BlockArguments, Grows, Stays
  <1>8. ASSUME NEW c \in Natives PROVE CallArguments(v, c)
    <2>1. CallArguments(u, c) /\ u.block[c] \in Int /\ u.block[c] # b
      BY <1>1 DEF ClaudeArguments, ClaudeWriters, Assigned
    <2> QED BY <1>4, <1>6, <2>1 DEF CallArguments, Grows, Stays
  <1>9. BlocksApart(v)
    BY <1>6 DEF ClaudeArguments, BlocksApart
  <1>10. v \in ClaudeArguments
    BY <1>5, <1>7, <1>8, <1>9 DEF ClaudeArguments
  <1> QED BY <1>6, <1>10 DEF v, lines

LEMMA WholeCallArguments ==
  ASSUME NEW w \in ClaudeArguments
  PROVE  LET v == WholeCall(w) IN
         v \in ClaudeArguments /\ v.block = w.block /\ v.streamed = w.streamed
  <1> DEFINE first == IF w.next = 0 /\ ~w.textOpen THEN EmitText(w) ELSE w
             ended == EndText(first)
             fresh == StartTool(ended)
             b == fresh.next - 1
             v == WholeCall(w)
  <1>1. w \in ClaudeWriters /\ Quietly(w, w)
    BY QuietlySame, NextFits DEF ClaudeArguments
  <1>2. Quietly(w, first)
    BY <1>1, EmitTextQuiet
  <1> HIDE DEF first
  <1>3. Quietly(first, ended)
    BY <1>2, EndTextQuiet DEF Quietly
  <1> HIDE DEF ended
  <1>4. Quietly(w, ended) /\ ended \in ClaudeArguments /\ ended \in ClaudeWriters
    BY <1>1, <1>2, <1>3, QuietlyOn, QuietlyKeeps DEF Quietly
  <1>5. Quietly(ended, fresh) /\ fresh.next = ended.next + 1
    BY <1>4, StartToolQuiet
  <1>6. v = Send(fresh, <<Piece(b, 0, Full), Line("stop", b, "tool")>>)
    BY DEF WholeCall, first, ended
  <1> HIDE DEF fresh, v
  <1>7. fresh \in ClaudeArguments /\ fresh.block = w.block /\ fresh.streamed = w.streamed
    BY <1>4, <1>5, QuietlyKeeps DEF Quietly
  <1>8. b = ended.next /\ b \in 0 .. fresh.next - 1
    <2>1. ended.next \in Nat
      BY <1>4 DEF ClaudeWriters
    <2> QED BY <1>5, <2>1
  <1>9. Silent(fresh.wire, ended.next) /\ ~Assigned(fresh, ended.next)
    BY <1>4, <1>5, FreshBlock
  <1> HIDE DEF b
  <1>10. v \in ClaudeArguments /\ v.block = fresh.block /\ v.streamed = fresh.streamed
    BY <1>6, <1>7, <1>8, <1>9, WholeArguments
  <1> QED BY <1>7, <1>10 DEF v

\* What a listed call, or one read from text, makes of what was streamed.
Completes(w, v, c) ==
  v.streamed =
    IF c \notin Natives \/ w.streamed[c] = 0 \/ c \in Respelled THEN w.streamed
    ELSE [w.streamed EXCEPT ![c] = Full]

LEMMA CallArgumentsKept ==
  ASSUME NEW w \in ClaudeArguments, NEW call \in Calls, NEW c \in Natives \cup {"none"}
  PROVE  LET v == ClaudeCall(w, call, c) IN v \in ClaudeArguments /\ Completes(w, v, c)
  <1> DEFINE v == ClaudeCall(w, call, c)
  <1>1. w \in ClaudeWriters
    BY DEF ClaudeArguments
  <1>2. \A d \in Natives : w.block[d] = NoBlock <=> w.streamed[d] = 0
    BY DEF ClaudeArguments, CallArguments
  <1>3. CASE c \in Natives /\ w.block[c] # NoBlock
    <2> DEFINE to == Remaining(w, c)
               u == ClaudeDelta(w, c, to)
    <2>1. /\ w.streamed \in [Natives -> 0 .. Full] /\ w.streamed[c] \in 0 .. Full
          /\ to \in 0 .. Full /\ to >= w.streamed[c]
          /\ to = IF c \in Respelled THEN w.streamed[c] ELSE Full
      BY <1>1, <1>3 DEF Remaining, ClaudeWriters, Full
    <2> HIDE DEF to
    <2>2. u \in ClaudeArguments /\ u.streamed = [w.streamed EXCEPT ![c] = to]
      BY <1>3, <2>1, DeltaArguments
    <2> HIDE DEF u
    <2>3. Quietly(u, StopTool(u, c))
      BY <1>3, <2>2, StopToolQuiet DEF ClaudeArguments
    <2>4. v = StopTool(u, c)
      BY <1>3 DEF ClaudeCall, u, to
    <2>5. v \in ClaudeArguments /\ v.streamed = u.streamed
      BY <2>2, <2>3, <2>4, QuietlyKeeps DEF Quietly
    <2>6. w.streamed = [w.streamed EXCEPT ![c] = w.streamed[c]] /\ w.streamed[c] # 0
      BY <1>2, <1>3, <2>1
    <2> QED BY <1>3, <2>1, <2>2, <2>5, <2>6 DEF Completes
  <1>4. CASE c \notin Natives \/ w.block[c] = NoBlock
    <2> DEFINE u == [w EXCEPT !.seen = w.seen \cup {call}]
    <2>1. v = IF call \in w.seen THEN w ELSE WholeCall(u)
      BY <1>4 DEF ClaudeCall
    <2>2. Quietly(w, u)
      <3>1. u \in ClaudeWriters
        BY <1>1 DEF ClaudeWriters
      <3>2. u.next = w.next /\ u.block = w.block /\ u.streamed = w.streamed /\ u.wire = w.wire
        BY <1>1 DEF ClaudeWriters
      <3>3. w.next \in Int
        BY <1>1, NextFits
      <3> HIDE DEF u
      <3> QED BY <1>1, <3>1, <3>2, <3>3, QuietlySame
    <2> HIDE DEF u
    <2>3. u \in ClaudeArguments /\ u.streamed = w.streamed
      BY <2>2, QuietlyKeeps DEF Quietly
    <2>4. WholeCall(u) \in ClaudeArguments /\ WholeCall(u).streamed = u.streamed
      BY <2>3, WholeCallArguments
    <2>5. v \in ClaudeArguments /\ v.streamed = w.streamed
      BY <2>1, <2>3, <2>4
    <2> QED BY <1>2, <1>4, <2>5 DEF Completes
  <1> QED BY <1>3, <1>4

LEMMA EventArguments ==
  ASSUME NEW w \in ClaudeArguments, NEW e \in Events(TRUE)
  PROVE  LET v == ClaudeEvent(w, e) IN
         /\ v \in ClaudeArguments
         /\ e.type = "tool_call" => Completes(w, v, e.id)
         /\ e.type # "tool_call" => v.streamed = w.streamed
  <1>1. w \in ClaudeWriters
    BY DEF ClaudeArguments
  <1>2. CASE e.type = "text"
    <2> DEFINE u == EndThinking(w)
               v == QueueText(u, e.text)
    <2>1. Quietly(w, u)
      BY <1>1, EndThinkingQuiet
    <2> HIDE DEF u
    <2>2. Quietly(u, v)
      BY <2>1, QueueTextQuiet DEF Quietly
    <2>3. ClaudeEvent(w, e) = v
      BY <1>2 DEF ClaudeEvent, u
    <2> HIDE DEF v
    <2>4. Quietly(w, v)
      BY <1>1, <2>1, <2>2, QuietlyOn
    <2> QED BY <1>2, <2>3, <2>4, QuietlyKeeps DEF Quietly
  <1>3. CASE e.type = "thinking"
    <2> DEFINE u == FlushPending(w)
               t == EndText(u)
               v == EmitThinking(t)
    <2>1. Quietly(w, u)
      BY <1>1, FlushPendingQuiet
    <2> HIDE DEF u
    <2>2. Quietly(u, t)
      BY <2>1, EndTextQuiet DEF Quietly
    <2> HIDE DEF t
    <2>3. Quietly(t, v)
      BY <2>2, EmitThinkingQuiet DEF Quietly
    <2>4. ClaudeEvent(w, e) = v
      BY <1>3 DEF ClaudeEvent, u, t
    <2> HIDE DEF v
    <2>5. Quietly(w, t)
      BY <1>1, <2>1, <2>2, QuietlyOn
    <2>6. Quietly(w, v)
      BY <1>1, <2>3, <2>5, QuietlyOn
    <2> QED BY <1>3, <2>4, <2>6, QuietlyKeeps DEF Quietly
  <1>4. CASE e.type = "tool_call"
    <2> DEFINE t == CallsTool(w)
               u == EndText(t)
               x == EndThinking(u)
               v == ClaudeCall(x, e.call, e.id)
    <2>1. Quietly(w, t)
      BY <1>1, CallsToolQuiet
    <2> HIDE DEF t
    <2>2. Quietly(t, u)
      BY <2>1, EndTextQuiet DEF Quietly
    <2> HIDE DEF u
    <2>3. Quietly(u, x)
      BY <2>2, EndThinkingQuiet DEF Quietly
    <2> HIDE DEF x
    <2>4. Quietly(w, u)
      BY <1>1, <2>1, <2>2, QuietlyOn
    <2>5. Quietly(w, x)
      BY <1>1, <2>3, <2>4, QuietlyOn
    <2>6. x \in ClaudeArguments /\ x.streamed = w.streamed
      BY <2>5, QuietlyKeeps DEF Quietly
    <2>7. e.call \in Calls /\ e.id \in Natives \cup {"none"}
      BY <1>4 DEF Events, Utterances
    <2>8. v \in ClaudeArguments /\ Completes(x, v, e.id)
      BY <2>6, <2>7, CallArgumentsKept
    <2>9. ClaudeEvent(w, e) = v
      BY <1>4 DEF ClaudeEvent, t, u, x
    <2> HIDE DEF v
    <2>10. Completes(w, v, e.id)
      BY <2>6, <2>8 DEF Completes
    <2> QED BY <1>4, <2>8, <2>9, <2>10
  <1>5. e.type \in {"text", "thinking", "tool_call"}
    BY DEF Events, Utterances
  <1> QED BY <1>2, <1>3, <1>4, <1>5

LEMMA StopToolsQuiet ==
  ASSUME NEW w \in ClaudeWriters
  PROVE  Quietly(w, StopTools(w))
  <1> DEFINE open == {c \in Natives \ w.stopped : w.block[c] # NoBlock}
             order == SetToSeq(open)
             v == [w EXCEPT !.stopped = w.stopped \cup open]
             lines == [i \in DOMAIN order |-> Line("stop", w.block[order[i]], "tool")]
  <1>1. order \in Seq(open)
    <2>1. IsFiniteSet(open)
      BY NativesAssumption, FS_Subset
    <2> HIDE DEF open
    <2> QED BY <2>1, SetToSeqFits
  <1>2. v \in ClaudeWriters
    BY DEF ClaudeWriters
  <1>3. v.next = w.next /\ v.block = w.block /\ v.streamed = w.streamed /\ v.wire = w.wire
    BY DEF ClaudeWriters
  <1> HIDE DEF order
  <1>4. lines \in Seq(Quiet)
    <2>1. \A i \in 1 .. Len(order) : w.block[order[i]] \in Int
      BY <1>1 DEF ClaudeWriters
    <2>2. \A i \in 1 .. Len(order) : Line("stop", w.block[order[i]], "tool") \in Quiet
      BY <2>1, LinesFit
    <2> HIDE DEF open
    <2> QED BY <1>1, <2>2
  <1>5. StopTools(w) = Send(v, lines)
    BY DEF StopTools, order
  <1> HIDE DEF v, lines
  <1>6. w.next \in Int
    BY NextFits
  <1>7. Quietly(w, Send(v, lines))
    BY <1>2, <1>3, <1>4, <1>6, SendQuietly
  <1> QED BY <1>5, <1>7

\* The end of the message adds no piece.
LEMMA FinishHushed ==
  ASSUME NEW w \in ClaudeWriters
  PROVE  LET v == ClaudeFinish(w) IN
         v.block = w.block /\ v.streamed = w.streamed /\ Hushed(w.wire, v.wire)
  <1> DEFINE nothing == ~w.hasToolCall /\ ~w.pending /\ w.suppressed
             base == [w EXCEPT !.finished = TRUE, !.pending = w.pending \/ nothing]
             last == FlushPending(base)
             t == EndText(last)
             u == EndThinking(t)
             z == StopTools(u)
             r == IF w.hasToolCall THEN "tool_use" ELSE "end_turn"
             lines == <<StopReason(r), MessageStop>>
             v == ClaudeFinish(w)
  <1>1. CASE w.finished
    BY <1>1, HushedSame DEF ClaudeFinish
  <1>2. CASE ~w.finished
    <2>1. Quietly(w, base)
      <3>1. base \in ClaudeWriters
        BY DEF ClaudeWriters
      <3>2. base.next = w.next /\ base.block = w.block /\ base.streamed = w.streamed /\ base.wire = w.wire
        BY DEF ClaudeWriters
      <3>3. w.next \in Int
        BY NextFits
      <3> HIDE DEF base
      <3> QED BY <3>1, <3>2, <3>3, QuietlySame
    <2> HIDE DEF base
    <2>2. Quietly(base, last)
      BY <2>1, FlushPendingQuiet DEF Quietly
    <2> HIDE DEF last
    <2>3. Quietly(last, t)
      BY <2>2, EndTextQuiet DEF Quietly
    <2> HIDE DEF t
    <2>4. Quietly(t, u)
      BY <2>3, EndThinkingQuiet DEF Quietly
    <2> HIDE DEF u
    <2>5. Quietly(u, z)
      BY <2>4, StopToolsQuiet DEF Quietly
    <2>6. v = Send(z, lines)
      BY <1>2 DEF ClaudeFinish, base, last, t, u
    <2> HIDE DEF z
    <2>7. Quietly(w, last)
      BY <2>1, <2>2, QuietlyOn
    <2>8. Quietly(w, t)
      BY <2>3, <2>7, QuietlyOn
    <2>9. Quietly(w, u)
      BY <2>4, <2>8, QuietlyOn
    <2>10. Quietly(w, z)
      BY <2>5, <2>9, QuietlyOn
    <2>11. z \in ClaudeWriters /\ v = [z EXCEPT !.wire = z.wire \o lines]
      BY <2>6, <2>10 DEF Quietly, Send
    <2>12. /\ "from" \notin DOMAIN StopReason(r) /\ "from" \notin DOMAIN MessageStop
           /\ StopReason(r) \in {StopReason(r), MessageStop} /\ MessageStop \in {StopReason(r), MessageStop}
      BY DEF StopReason, MessageStop
    <2>13. lines \in Seq({StopReason(r), MessageStop})
      BY <2>12
    <2> DEFINE T == Speech \cup {StopReason(r), MessageStop}
    <2>14. z.wire \in Seq(T) /\ lines \in Seq(T)
      BY <2>11, <2>13 DEF ClaudeWriters
    <2>15. \A i \in DOMAIN lines : "from" \notin DOMAIN lines[i]
      BY <2>12
    <2> HIDE DEF lines, v, T
    <2>16. v.block = z.block /\ v.streamed = z.streamed /\ v.wire = z.wire \o lines
      BY <2>11 DEF ClaudeWriters
    <2>17. Hushed(z.wire, z.wire \o lines)
      BY <2>14, <2>15, HushedLines
    <2>18. Hushed(w.wire, v.wire) /\ v.block = w.block /\ v.streamed = w.streamed
      BY <2>10, <2>16, <2>17, HushedOn DEF Quietly
    <2> QED BY <2>18 DEF v
  <1> QED BY <1>1, <1>2

-----------------------------------------------------------------------------
(* The OpenAI stream before its end.                                       *)

\* A call that is read from text comes in one piece.
TextCallsWhole(wire) ==
  \A k \in DOMAIN wire : Carries(wire, k, "none") => wire[k].from = 0 /\ wire[k].to = Full

\* What holds of every native call: its pieces follow each other, and the writer
\* knows what was sent of it unless it came in one piece.
ChunkArguments(w, c) ==
  /\ InOrder(w.wire, c)
  /\ IF c \in w.started THEN Reached(w.wire, c, w.streamed[c])
     ELSE w.streamed[c] = 0 /\ (Silent(w.wire, c) \/ Reached(w.wire, c, Full))

OpenAIArguments ==
  {w \in OpenAIWriters :
     /\ TextCallsWhole(w.wire)
     /\ \A c \in Natives : ChunkArguments(w, c)}

\* v sends no piece and knows of the native calls what w does.
Softly(w, v) ==
  /\ v \in OpenAIWriters
  /\ v.started = w.started /\ v.junk = w.junk /\ v.streamed = w.streamed
  /\ Hushed(w.wire, v.wire)

LEMMA TextCallsStay ==
  ASSUME NEW u, NEW v, Hushed(u, v), TextCallsWhole(u)
  PROVE  TextCallsWhole(v)
  BY DEF Hushed, TextCallsWhole, Carries

LEMMA SoftlyKeeps ==
  ASSUME NEW w \in OpenAIArguments, NEW v, Softly(w, v)
  PROVE  v \in OpenAIArguments
  <1>1. v \in OpenAIWriters /\ TextCallsWhole(v.wire)
    BY TextCallsStay DEF Softly, OpenAIArguments
  <1>2. ASSUME NEW c \in Natives PROVE ChunkArguments(v, c)
    <2>1. ChunkArguments(w, c)
      BY DEF OpenAIArguments
    <2>2. Stays(w.wire, v.wire, c)
      BY Zenon DEF Softly, Hushed
    <2> QED BY <2>1, <2>2 DEF ChunkArguments, Softly, Stays
  <1> QED BY <1>1, <1>2 DEF OpenAIArguments

LEMMA SoftlySame ==
  ASSUME NEW w, NEW v \in OpenAIWriters, v.started = w.started, v.junk = w.junk,
         v.streamed = w.streamed, v.wire = w.wire
  PROVE  Softly(w, v)
  BY HushedSame DEF Softly

\* A line that is no piece.
LEMMA ContentSoftly ==
  ASSUME NEW w \in OpenAIWriters, NEW v \in OpenAIWriters, v.started = w.started, v.junk = w.junk,
         v.streamed = w.streamed, v.wire = w.wire, NEW l \in Contents
  PROVE  Softly(w, Send(v, <<l>>))
  <1> DEFINE u == Send(v, <<l>>)
             lines == <<l>>
  <1>1. w.wire \in Seq(Chunks) /\ l \in Chunks /\ "from" \notin DOMAIN l
    <2>1. l.type = "content"
      BY DEF Contents
    <2> QED BY <2>1, ChunkTypes DEF OpenAIWriters, Chunks
  <1>2. lines \in Seq(Chunks) /\ \A i \in DOMAIN lines : "from" \notin DOMAIN lines[i]
    BY <1>1
  <1>3. u = [v EXCEPT !.wire = w.wire \o lines]
    BY DEF Send
  <1> HIDE DEF lines
  <1>4. w.wire \o lines \in Seq(Chunks) /\ Hushed(w.wire, w.wire \o lines)
    BY <1>1, <1>2, HushedLines
  <1>5. u \in OpenAIWriters
    BY <1>3, <1>4 DEF OpenAIWriters
  <1>6. u.started = v.started /\ u.junk = v.junk /\ u.streamed = v.streamed /\ u.wire = w.wire \o lines
    BY <1>3 DEF OpenAIWriters
  <1> HIDE DEF u
  <1>7. Softly(w, u)
    BY <1>4, <1>5, <1>6 DEF Softly
  <1> QED BY <1>7 DEF u

LEMMA TextSoftly ==
  ASSUME NEW w \in OpenAIWriters, NEW s
  PROVE  Softly(w, OpenAIText(w, s))
  <1>1. CASE Residue(s) = <<>>
    <2> DEFINE v == [w EXCEPT !.suppressed = TRUE]
    <2>1. v \in OpenAIWriters
      BY DEF OpenAIWriters
    <2>2. v.started = w.started /\ v.junk = w.junk /\ v.streamed = w.streamed /\ v.wire = w.wire
      BY DEF OpenAIWriters
    <2> HIDE DEF v
    <2>3. Softly(w, v)
      BY <2>1, <2>2, SoftlySame
    <2> QED BY <1>1, <2>3 DEF OpenAIText, v
  <1>2. CASE Residue(s) # <<>> /\ w.hasToolCall
    <2>1. Softly(w, w)
      BY SoftlySame
    <2> QED BY <1>2, <2>1 DEF OpenAIText
  <1>3. CASE Residue(s) # <<>> /\ ~w.hasToolCall
    <2> DEFINE v == [w EXCEPT !.emitted = TRUE]
    <2>1. v \in OpenAIWriters
      BY DEF OpenAIWriters
    <2>2. v.started = w.started /\ v.junk = w.junk /\ v.streamed = w.streamed /\ v.wire = w.wire
      BY DEF OpenAIWriters
    <2>3. Content(w) \in Contents
      BY DEF Content, Contents, OpenAIWriters
    <2>4. OpenAIText(w, s) = Send(v, <<Content(w)>>)
      BY <1>3 DEF OpenAIText
    <2> HIDE DEF v
    <2>5. Softly(w, Send(v, <<Content(w)>>))
      BY <2>1, <2>2, <2>3, ContentSoftly
    <2> QED BY <2>4, <2>5
  <1> QED BY <1>1, <1>2, <1>3

\* A line with a piece of call c: what becomes of a writer that sends it.
LEMMA ToolLineGrows ==
  ASSUME NEW wire \in Seq(Chunks), NEW w \in OpenAIWriters, NEW c \in Natives \cup {"none"},
         NEW from \in 0 .. Full, NEW to \in 0 .. Full,
         TextCallsWhole(wire),
         IF c = "none" THEN from = 0 /\ to = Full ELSE Reached(wire, c, from)
  PROVE  LET v == wire \o <<ToolLine(w, c, from, to)>> IN
         /\ v \in Seq(Chunks) /\ TextCallsWhole(v)
         /\ IF c = "none" THEN \A a \in Natives : Stays(wire, v, a) ELSE Grows(wire, v, c, to)
  <1> DEFINE l == ToolLine(w, c, from, to)
             lines == <<l>>
             v == wire \o lines
  <1>1. /\ l \in Chunks /\ l.from = from /\ l.to = to /\ l.id = c /\ l.type = "tool"
        /\ "from" \in DOMAIN l /\ Subject(l) = c
    <2>1. l \in ToolLines /\ l.type = "tool"
      BY ToolLineFits
    <2>2. l.from = from /\ l.to = to /\ l.id = c
      BY DEF ToolLine
    <2> HIDE DEF l
    <2> QED BY <2>1, <2>2, ChunkTypes DEF Chunks, Subject
  <1> HIDE DEF l
  <1>2. /\ lines \in Seq(Chunks) /\ DOMAIN lines = {1} /\ lines[1] = l /\ v \in Seq(Chunks)
    BY <1>1
  <1>3. Continues(v, wire, lines, "none")
    BY <1>2, Continued, Zenon
  <1> HIDE DEF lines, v
  <1>4. \A a : \A i \in DOMAIN lines : Carries(lines, i, a) <=> a = c
    BY <1>1, <1>2 DEF Carries
  <1>5. ASSUME NEW a, a # c PROVE Stays(wire, v, a)
    <2>1. Silent(lines, a)
      BY <1>4, <1>5 DEF Silent
    <2> QED BY <1>2, <2>1, SilenceKeeps DEF Stays, v
  <1>6. ASSUME c # "none" PROVE Grows(wire, v, c, to)
    <2>1. Reached(wire, c, lines[1].from) /\ lines[1].to = to
      BY <1>1, <1>2, <1>6
    <2>2. 1 \in DOMAIN lines /\ Carries(lines, 1, c) /\ \A i \in DOMAIN lines : Carries(lines, i, c) => i = 1
      BY <1>2, <1>4
    <2>3. Reached(wire \o lines, c, lines[1].to) /\ (InOrder(wire, c) => InOrder(wire \o lines, c))
      BY <1>2, <2>1, <2>2, PieceKeeps
    <2> QED BY <1>5, <2>1, <2>3 DEF Grows, v
  <1>7. TextCallsWhole(v)
    <2>1. ASSUME NEW k \in DOMAIN v, Carries(v, k, "none") PROVE v[k].from = 0 /\ v[k].to = Full
      <3>1. CASE k \in 1 .. Len(wire)
        BY <1>3, <2>1, <3>1 DEF Continues, TextCallsWhole
      <3>2. CASE k - Len(wire) \in 1 .. Len(lines) /\ k = Len(wire) + (k - Len(wire))
        <4>1. /\ k - Len(wire) \in DOMAIN lines /\ v[k] = lines[k - Len(wire)]
              /\ Carries(lines, k - Len(wire), "none")
          BY <1>3, <2>1, <3>2 DEF Continues
        <4>2. c = "none" /\ v[k] = l
          BY <1>2, <1>4, <4>1
        <4> QED BY <1>1, <4>2
      <3> QED BY <1>3, <2>1, <3>1, <3>2 DEF Continues
    <2> QED BY <2>1 DEF TextCallsWhole
  <1> QED BY <1>2, <1>5, <1>6, <1>7, NativesAssumption DEF v, lines, l

\* Of the calls other than c nothing more is sent.
OthersStay(w, v, c) ==
  \A a \in Natives \ {c} :
    v.streamed[a] = w.streamed[a] /\ (Silent(w.wire, a) => Silent(v.wire, a))

\* g is w with what it will know of call c once a piece up to `to` is sent.
Expects(w, g, c, to) ==
  /\ g \in OpenAIWriters /\ g.wire = w.wire
  /\ \/ g.started = w.started \cup {c} /\ g.streamed = [w.streamed EXCEPT ![c] = to]
     \/ c \notin w.started /\ g.started = w.started /\ g.streamed = w.streamed /\ to = Full

LEMMA ChunkArgumentsKept ==
  ASSUME NEW w \in OpenAIArguments, NEW b \in OpenAIWriters, NEW g, NEW c \in Natives,
         NEW from \in 0 .. Full, NEW to \in 0 .. Full,
         Reached(w.wire, c, from), Expects(w, g, c, to)
  PROVE  LET v == Send(g, <<ToolLine(b, c, from, to)>>) IN
         /\ v \in OpenAIArguments /\ OthersStay(w, v, c)
         /\ v.started = g.started /\ v.junk = g.junk /\ v.streamed = g.streamed
  <1> DEFINE lines == <<ToolLine(b, c, from, to)>>
             v == Send(g, lines)
             wire == w.wire \o lines
  <1>1. /\ g \in OpenAIWriters /\ g.wire = w.wire /\ w \in OpenAIWriters
        /\ w.wire \in Seq(Chunks) /\ TextCallsWhole(w.wire) /\ c # "none"
    BY NativesAssumption DEF Expects, OpenAIArguments, OpenAIWriters
  <1>2. wire \in Seq(Chunks) /\ TextCallsWhole(wire) /\ Grows(w.wire, wire, c, to)
    BY <1>1, ToolLineGrows
  <1>3. v = [g EXCEPT !.wire = wire]
    BY <1>1 DEF Send
  <1> HIDE DEF lines, wire
  <1>4. v \in OpenAIWriters
    BY <1>1, <1>2, <1>3 DEF OpenAIWriters
  <1>5. v.started = g.started /\ v.junk = g.junk /\ v.streamed = g.streamed /\ v.wire = wire
    BY <1>1, <1>3 DEF OpenAIWriters
  <1> HIDE DEF v
  <1>6. w.streamed \in [Natives -> 0 .. Full]
    BY <1>1 DEF OpenAIWriters
  <1>7. \A a \in Natives \ {c} : /\ v.streamed[a] = w.streamed[a] /\ (a \in v.started <=> a \in w.started)
                                 /\ Stays(w.wire, v.wire, a)
    <2>1. \A a \in Natives \ {c} : v.streamed[a] = w.streamed[a] /\ (a \in v.started <=> a \in w.started)
      BY <1>5, <1>6 DEF Expects
    <2>2. \A a \in Natives \ {c} : Stays(w.wire, v.wire, a)
      BY <1>2, <1>5, Zenon DEF Grows
    <2> QED BY <2>1, <2>2
  <1>8. OthersStay(w, v, c)
    BY <1>7 DEF OthersStay, Stays
  <1>9. ASSUME NEW a \in Natives PROVE ChunkArguments(v, a)
    <2>1. ChunkArguments(w, a)
      BY DEF OpenAIArguments
    <2>2. CASE a # c
      BY <1>7, <2>1, <2>2 DEF ChunkArguments, Stays
    <2>3. CASE a = c
      <3>1. Reached(v.wire, c, to) /\ InOrder(v.wire, c)
        BY <1>2, <1>5, <2>1, <2>3 DEF Grows, ChunkArguments
      <3>2. CASE g.started = w.started \cup {c} /\ g.streamed = [w.streamed EXCEPT ![c] = to]
        BY <1>5, <1>6, <2>3, <3>1, <3>2 DEF ChunkArguments
      <3>3. CASE c \notin w.started /\ g.started = w.started /\ g.streamed = w.streamed /\ to = Full
        BY <1>5, <2>1, <2>3, <3>1, <3>3 DEF ChunkArguments
      <3> QED BY <3>2, <3>3 DEF Expects
    <2> QED BY <2>2, <2>3
  <1>10. v \in OpenAIArguments
    BY <1>2, <1>4, <1>5, <1>9 DEF OpenAIArguments
  <1> QED BY <1>5, <1>8, <1>10 DEF v, lines

\* A call that was not begun has nothing to continue.
LEMMA FirstPiece ==
  ASSUME NEW w \in OpenAIArguments, NEW c \in Natives, c \in w.started \/ Silent(w.wire, c)
  PROVE  Reached(w.wire, c, w.streamed[c]) /\ w.streamed[c] \in 0 .. Full
  <1>1. ChunkArguments(w, c) /\ w \in OpenAIWriters
    BY DEF OpenAIArguments
  <1>2. w.streamed[c] \in 0 .. Full /\ w.wire \in Seq(Chunks)
    BY <1>1 DEF OpenAIWriters
  <1>3. CASE c \in w.started
    BY <1>1, <1>2, <1>3 DEF ChunkArguments
  <1>4. CASE c \notin w.started
    <2>1. w.streamed[c] = 0 /\ Silent(w.wire, c)
      BY <1>1, <1>4 DEF ChunkArguments
    <2>2. Reached(w.wire, c, 0)
      BY <1>2, <2>1 DEF Reached, UpToHere, Silent
    <2> QED BY <1>2, <2>1, <2>2
  <1> QED BY <1>3, <1>4

LEMMA OpenAIDeltaArguments ==
  ASSUME NEW w \in OpenAIArguments, NEW c \in Natives, NEW to \in 0 .. Full,
         c \in w.started \/ Silent(w.wire, c)
  PROVE  LET v == OpenAIDelta(w, c, to) IN
         /\ v \in OpenAIArguments /\ OthersStay(w, v, c)
         /\ v.started = w.started \cup {c} /\ v.junk = w.junk
         /\ v.streamed = [w.streamed EXCEPT ![c] = to]
  <1> DEFINE s == Started(w, c)
             g == [s EXCEPT !.streamed[c] = to]
             v == OpenAIDelta(w, c, to)
             l == ToolLine(w, c, w.streamed[c], to)
  <1>1. w \in OpenAIWriters /\ w.streamed \in [Natives -> 0 .. Full]
    BY DEF OpenAIArguments, OpenAIWriters
  <1>2. s \in OpenAIWriters /\ s.wire = w.wire /\ s.streamed = w.streamed /\ s.junk = w.junk
    BY <1>1, StartedFits
  <1>3. s.started = w.started \cup {c}
    BY <1>1 DEF Started, OpenAIWriters
  <1>4. v = IF c \in w.started /\ to = w.streamed[c] THEN s ELSE Send(g, <<l>>)
    BY DEF OpenAIDelta
  <1> HIDE DEF s, v
  <1>5. CASE c \in w.started /\ to = w.streamed[c]
    <2>1. Softly(w, s)
      <3>1. s.started = w.started
        BY <1>3, <1>5
      <3> QED BY <1>2, <3>1, SoftlySame
    <2>2. v \in OpenAIArguments /\ v = s
      BY <1>4, <1>5, <2>1, SoftlyKeeps
    <2>3. OthersStay(w, s, c) /\ w.streamed = [w.streamed EXCEPT ![c] = to]
      BY <1>1, <1>2, <1>5 DEF OthersStay
    <2> QED BY <1>2, <1>3, <2>2, <2>3 DEF v
  <1>6. CASE ~(c \in w.started /\ to = w.streamed[c])
    <2>1. Reached(w.wire, c, w.streamed[c]) /\ w.streamed[c] \in 0 .. Full
      BY FirstPiece
    <2>2. g \in OpenAIWriters
      BY <1>2 DEF OpenAIWriters
    <2>3. /\ g.wire = w.wire /\ g.started = w.started \cup {c} /\ g.junk = w.junk
          /\ g.streamed = [w.streamed EXCEPT ![c] = to]
      BY <1>2, <1>3 DEF OpenAIWriters
    <2> HIDE DEF g
    <2>4. Expects(w, g, c, to)
      BY <2>2, <2>3 DEF Expects
    <2>5. LET x == Send(g, <<l>>) IN
          /\ x \in OpenAIArguments /\ OthersStay(w, x, c)
          /\ x.started = g.started /\ x.junk = g.junk /\ x.streamed = g.streamed
      BY <1>1, <2>1, <2>4, ChunkArgumentsKept
    <2>6. v = Send(g, <<l>>)
      BY <1>4, <1>6
    <2> QED BY <2>3, <2>5, <2>6 DEF v
  <1> QED BY <1>5, <1>6

\* An empty object, for a call of which nothing was sent.
LEMMA OpenAIJunkArguments ==
  ASSUME NEW w \in OpenAIArguments, NEW c \in Natives,
         c \in w.started \/ Silent(w.wire, c), w.streamed[c] = 0
  PROVE  LET v == OpenAIJunk(w, c) IN
         /\ v \in OpenAIArguments /\ OthersStay(w, v, c)
         /\ v.started = w.started \cup {c} /\ v.junk = w.junk \cup {c}
         /\ v.streamed = w.streamed
  <1> DEFINE s == Started(w, c)
             g == [s EXCEPT !.junk = s.junk \cup {c}]
             v == OpenAIJunk(w, c)
             l == ToolLine(w, c, 0, 0)
  <1>1. w \in OpenAIWriters /\ w.streamed \in [Natives -> 0 .. Full]
    BY DEF OpenAIArguments, OpenAIWriters
  <1>2. s \in OpenAIWriters /\ s.wire = w.wire /\ s.streamed = w.streamed /\ s.junk = w.junk
    BY <1>1, StartedFits
  <1>3. s.started = w.started \cup {c}
    BY <1>1 DEF Started, OpenAIWriters
  <1>4. v = Send(g, <<l>>)
    BY DEF OpenAIJunk
  <1> HIDE DEF s, v
  <1>5. g \in OpenAIWriters
    BY <1>2 DEF OpenAIWriters
  <1>6. /\ g.wire = w.wire /\ g.started = w.started \cup {c} /\ g.junk = w.junk \cup {c}
        /\ g.streamed = w.streamed
    BY <1>2, <1>3 DEF OpenAIWriters
  <1> HIDE DEF g
  <1>7. w.streamed = [w.streamed EXCEPT ![c] = 0] /\ 0 \in 0 .. Full
    BY <1>1 DEF Full
  <1>8. Expects(w, g, c, 0)
    BY <1>5, <1>6, <1>7 DEF Expects
  <1>9. Reached(w.wire, c, 0)
    BY FirstPiece
  <1>10. LET x == Send(g, <<l>>) IN
         /\ x \in OpenAIArguments /\ OthersStay(w, x, c)
         /\ x.started = g.started /\ x.junk = g.junk /\ x.streamed = g.streamed
    BY <1>1, <1>7, <1>8, <1>9, ChunkArgumentsKept
  <1> QED BY <1>4, <1>6, <1>10 DEF v

\* v is w after call c, listed or read from text: what was begun is completed, unless
\* the listing does not continue it.
Answered(w, v, c) ==
  /\ v \in OpenAIArguments /\ OthersStay(w, v, c)
  /\ v.started = w.started /\ v.junk = w.junk
  /\ c \in w.started =>
       \/ v.streamed[c] = Full \/ c \in w.junk
       \/ c \in Respelled /\ w.streamed[c] > 0 /\ v.streamed[c] = w.streamed[c]

LEMMA SoftlyAnswers ==
  ASSUME NEW w \in OpenAIArguments, NEW v, Softly(w, v), NEW c,
         c \in w.started =>
           w.streamed[c] = Full \/ c \in w.junk \/ (c \in Respelled /\ w.streamed[c] > 0)
  PROVE  Answered(w, v, c)
  <1>1. v \in OpenAIArguments
    BY SoftlyKeeps
  <1>2. ASSUME NEW a \in Natives PROVE Stays(w.wire, v.wire, a)
    BY Zenon DEF Softly, Hushed
  <1>3. OthersStay(w, v, c)
    BY <1>2 DEF OthersStay, Softly, Stays
  <1>4. v.started = w.started /\ v.junk = w.junk /\ v.streamed = w.streamed
    BY DEF Softly
  <1> QED BY <1>1, <1>3, <1>4 DEF Answered

\* A call that is sent in one piece, as none of it was before.
LEMMA WholeAnswers ==
  ASSUME NEW w \in OpenAIArguments, NEW b \in OpenAIWriters, NEW g \in OpenAIWriters,
         NEW c \in Natives \cup {"none"}, c \in Natives => Silent(w.wire, c) /\ c \notin w.started,
         g.wire = w.wire, g.started = w.started, g.junk = w.junk, g.streamed = w.streamed
  PROVE  Answered(w, Send(g, <<ToolLine(b, c, 0, Full)>>), c)
  <1> DEFINE lines == <<ToolLine(b, c, 0, Full)>>
             v == Send(g, lines)
  <1>1. w \in OpenAIWriters /\ w.wire \in Seq(Chunks) /\ TextCallsWhole(w.wire)
        /\ w.streamed \in [Natives -> 0 .. Full] /\ w.started \subseteq Natives
    BY DEF OpenAIArguments, OpenAIWriters
  <1>2. 0 \in 0 .. Full /\ Full \in 0 .. Full
    BY DEF Full
  <1>3. CASE c \in Natives
    <2>1. Reached(w.wire, c, 0)
      BY <1>1, <1>3 DEF Reached, UpToHere, Silent
    <2>2. Expects(w, g, c, Full)
      BY <1>3 DEF Expects
    <2>3. LET x == Send(g, <<ToolLine(b, c, 0, Full)>>) IN
          /\ x \in OpenAIArguments /\ OthersStay(w, x, c)
          /\ x.started = g.started /\ x.junk = g.junk /\ x.streamed = g.streamed
      BY <1>2, <1>3, <2>1, <2>2, ChunkArgumentsKept
    <2> QED BY <1>3, <2>3 DEF Answered
  <1>4. CASE c = "none"
    <2> DEFINE wire == w.wire \o lines
    <2>1. wire \in Seq(Chunks) /\ TextCallsWhole(wire) /\ \A a \in Natives : Stays(w.wire, wire, a)
      BY <1>1, <1>2, <1>4, ToolLineGrows
    <2>2. v = [g EXCEPT !.wire = wire]
      BY DEF Send
    <2> HIDE DEF wire, lines
    <2>3. v \in OpenAIWriters
      BY <2>1, <2>2 DEF OpenAIWriters
    <2>4. v.started = w.started /\ v.junk = w.junk /\ v.streamed = w.streamed /\ v.wire = wire
      BY <2>2 DEF OpenAIWriters
    <2> HIDE DEF v
    <2>5. ASSUME NEW a \in Natives PROVE ChunkArguments(v, a)
      <3>1. ChunkArguments(w, a) /\ Stays(w.wire, wire, a)
        BY <2>1 DEF OpenAIArguments
      <3> QED BY <2>4, <3>1 DEF ChunkArguments, Stays
    <2>6. v \in OpenAIArguments
      BY <2>1, <2>3, <2>4, <2>5 DEF OpenAIArguments
    <2>7. OthersStay(w, v, c)
      BY <2>1, <2>4 DEF OthersStay, Stays
    <2>8. c \notin w.started
      BY <1>1, <1>4, NativesAssumption
    <2>9. Answered(w, v, c)
      BY <2>4, <2>6, <2>7, <2>8 DEF Answered
    <2> QED BY <2>9 DEF v, lines
  <1> QED BY <1>3, <1>4

LEMMA OpenAICallArguments ==
  ASSUME NEW w \in OpenAIArguments, NEW call \in Calls, NEW c \in Natives \cup {"none"},
         c \in Natives => c \in w.started \/ Silent(w.wire, c)
  PROVE  Answered(w, OpenAICall([w EXCEPT !.hasToolCall = TRUE], call, c), c)
  <1> DEFINE b == [w EXCEPT !.hasToolCall = TRUE]
             mismatch == c \in b.junk \/ (c \in Respelled /\ b.streamed[c] > 0)
             g == [b EXCEPT !.seen = b.seen \cup {call}]
  <1> SUFFICES Answered(w, OpenAICall(b, call, c), c)
    OBVIOUS
  <1>1. w \in OpenAIWriters /\ w.started \subseteq Natives
    BY DEF OpenAIArguments, OpenAIWriters
  <1>2. b \in OpenAIWriters
    BY <1>1 DEF OpenAIWriters
  <1>3. b.started = w.started /\ b.junk = w.junk /\ b.streamed = w.streamed /\ b.wire = w.wire
    BY <1>1 DEF OpenAIWriters
  <1>4. OpenAICall(b, call, c) =
          CASE c # "none" /\ c \in b.started ->
                 IF mismatch \/ b.streamed[c] = Full THEN b ELSE OpenAIDelta(b, c, Full)
            [] call \in b.seen /\ (c = "none" \/ c \notin b.started) -> b
            [] OTHER -> Send(g, <<ToolLine(b, c, 0, Full)>>)
    BY DEF OpenAICall
  <1>5. g \in OpenAIWriters
    <2> HIDE DEF b
    <2> QED BY <1>2 DEF OpenAIWriters
  <1>6. g.started = w.started /\ g.junk = w.junk /\ g.streamed = w.streamed /\ g.wire = w.wire
    <2> HIDE DEF b
    <2> QED BY <1>2, <1>3 DEF OpenAIWriters
  <1> HIDE DEF b, g
  <1>7. Softly(w, b)
    BY <1>2, <1>3, SoftlySame
  <1>8. CASE c # "none" /\ c \in b.started
    <2>1. c \in Natives /\ c \in w.started
      BY <1>3, <1>8
    <2>2. CASE mismatch \/ b.streamed[c] = Full
      <3>1. OpenAICall(b, call, c) = b
        BY <1>4, <1>8, <2>2
      <3> QED BY <1>3, <1>7, <2>2, <3>1, SoftlyAnswers
    <2>3. CASE ~(mismatch \/ b.streamed[c] = Full)
      <3> DEFINE v == OpenAIDelta(b, c, Full)
      <3>1. OpenAICall(b, call, c) = v
        BY <1>4, <1>8, <2>3
      <3>2. b \in OpenAIArguments /\ Full \in 0 .. Full
        BY <1>7, SoftlyKeeps DEF Full
      <3>3. /\ v \in OpenAIArguments /\ OthersStay(b, v, c)
            /\ v.started = b.started \cup {c} /\ v.junk = b.junk
            /\ v.streamed = [b.streamed EXCEPT ![c] = Full]
        BY <1>8, <2>1, <3>2, OpenAIDeltaArguments
      <3> HIDE DEF v
      <3>4. v.started = w.started /\ v.junk = w.junk /\ v.streamed[c] = Full
        BY <1>2, <1>3, <2>1, <3>3 DEF OpenAIWriters
      <3>5. OthersStay(w, v, c)
        BY <1>3, <3>3 DEF OthersStay
      <3> QED BY <3>1, <3>3, <3>4, <3>5 DEF Answered
    <2> HIDE DEF mismatch
    <2> QED BY <2>2, <2>3
  <1>9. CASE ~(c # "none" /\ c \in b.started)
    <2>1. c \notin w.started
      BY <1>1, <1>3, <1>9, NativesAssumption
    <2>2. CASE call \in b.seen
      <3>1. OpenAICall(b, call, c) = b
        <4> HIDE DEF mismatch
        <4> QED BY <1>4, <1>9, <2>2
      <3> QED BY <1>7, <2>1, <3>1, SoftlyAnswers
    <2>3. CASE call \notin b.seen
      <3>1. OpenAICall(b, call, c) = Send(g, <<ToolLine(b, c, 0, Full)>>)
        <4> HIDE DEF mismatch
        <4> QED BY <1>4, <1>9, <2>3
      <3>2. Answered(w, Send(g, <<ToolLine(b, c, 0, Full)>>), c)
        BY <1>2, <1>5, <1>6, <2>1, WholeAnswers
      <3> QED BY <3>1, <3>2
    <2> QED BY <2>2, <2>3
  <1> QED BY <1>8, <1>9

LEMMA OpenAIEventArguments ==
  ASSUME NEW w \in OpenAIArguments, NEW e \in Events(FALSE),
         e.type = "tool_call" /\ e.id \in Natives => e.id \in w.started \/ Silent(w.wire, e.id)
  PROVE  /\ e.type = "text" => Softly(w, OpenAIEvent(w, e))
         /\ e.type = "tool_call" => Answered(w, OpenAIEvent(w, e), e.id)
  <1>1. w \in OpenAIWriters
    BY DEF OpenAIArguments
  <1>2. CASE e.type = "text"
    BY <1>1, <1>2, TextSoftly DEF OpenAIEvent
  <1>3. CASE e.type = "tool_call"
    <2>1. e.call \in Calls /\ e.id \in Natives \cup {"none"}
      BY <1>3 DEF Events, Utterances
    <2>2. OpenAIEvent(w, e) = OpenAICall([w EXCEPT !.hasToolCall = TRUE], e.call, e.id)
      BY <1>3 DEF OpenAIEvent
    <2> QED BY <1>3, <2>1, <2>2, OpenAICallArguments
  <1>4. e.type \in {"text", "tool_call"}
    BY DEF Events, Utterances
  <1> QED BY <1>2, <1>3, <1>4

\* The end of the answer adds no piece.
LEMMA OpenAIFinishHushed ==
  ASSUME NEW w \in OpenAIWriters
  PROVE  LET v == Send(OpenAIFinish(w), <<Done>>) IN
         /\ v.started = w.started /\ v.junk = w.junk /\ v.streamed = w.streamed
         /\ Hushed(w.wire, v.wire)
  <1> DEFINE r == IF w.hasToolCall THEN "tool_calls" ELSE "stop"
             T == Chunks \cup {FinishReason(r), Done}
             apology == ~w.hasToolCall /\ w.suppressed
             more == (IF apology THEN <<Content(w)>> ELSE <<>>) \o <<FinishReason(r)>>
             u == [w EXCEPT !.finished = TRUE, !.emitted = w.emitted \/ apology]
             f == OpenAIFinish(w)
             v == Send(f, <<Done>>)
             Known == [hasToolCall : BOOLEAN, finished : BOOLEAN, attempt : {1, 2}, seen : SUBSET Calls,
                       started : SUBSET Natives, junk : SUBSET Natives, streamed : [Natives -> 0 .. Full],
                       suppressed : BOOLEAN, emitted : BOOLEAN, wire : Seq(T)]
  <1>1. /\ "from" \notin DOMAIN FinishReason(r) /\ "from" \notin DOMAIN Done
        /\ "from" \notin DOMAIN Content(w)
    BY DEF FinishReason, Done, Content
  <1>2. Content(w) \in T /\ FinishReason(r) \in T /\ Done \in T
    BY DEF Content, Contents, Chunks, OpenAIWriters
  <1>3. w.wire \in Seq(T)
    BY DEF OpenAIWriters
  <1> HIDE DEF T
  <1>4. <<Done>> \in Seq(T) /\ \A i \in DOMAIN <<Done>> : "from" \notin DOMAIN (<<Done>>)[i]
    BY <1>1, <1>2
  <1>5. more \in Seq(T) /\ \A i \in DOMAIN more : "from" \notin DOMAIN more[i]
    <2> DEFINE M == {l \in T : "from" \notin DOMAIN l}
               first == IF apology THEN <<Content(w)>> ELSE <<>>
    <2>1. Content(w) \in M /\ FinishReason(r) \in M
      BY <1>1, <1>2
    <2>2. \A l \in M : l \in T /\ "from" \notin DOMAIN l
      OBVIOUS
    <2> HIDE DEF M, r
    <2>3. first \in Seq(M) /\ <<FinishReason(r)>> \in Seq(M)
      BY <2>1
    <2>4. more = first \o <<FinishReason(r)>>
      OBVIOUS
    <2> HIDE DEF first, more
    <2>5. more \in Seq(M)
      BY <2>3, <2>4
    <2> QED BY <2>2, <2>5
  <1> HIDE DEF more
  <1>6. w.wire \o more \in Seq(T) /\ Hushed(w.wire, w.wire \o more)
    BY <1>3, <1>5, HushedLines
  <1>7. /\ f \in Known /\ f.started = w.started /\ f.junk = w.junk /\ f.streamed = w.streamed
        /\ Hushed(w.wire, f.wire)
    <2>1. CASE w.finished
      <3>1. f = w
        BY <2>1 DEF OpenAIFinish
      <3>2. w \in Known
        BY <1>3 DEF OpenAIWriters
      <3> QED BY <3>1, <3>2, HushedSame
    <2>2. CASE ~w.finished
      <3>1. u \in Known /\ u.wire = w.wire
        BY <1>3 DEF OpenAIWriters
      <3>2. u.started = w.started /\ u.junk = w.junk /\ u.streamed = w.streamed
        BY DEF OpenAIWriters
      <3>3. f = Send(u, more)
        BY <2>2 DEF OpenAIFinish, more
      <3> HIDE DEF u
      <3>4. f = [u EXCEPT !.wire = w.wire \o more]
        BY <3>1, <3>3 DEF Send
      <3>5. f \in Known
        BY <1>6, <3>1, <3>4
      <3>6. f.started = u.started /\ f.junk = u.junk /\ f.streamed = u.streamed /\ f.wire = w.wire \o more
        BY <3>1, <3>4
      <3> QED BY <1>6, <3>2, <3>5, <3>6
    <2> QED BY <2>1, <2>2
  <1> HIDE DEF f
  <1>8. v = [f EXCEPT !.wire = f.wire \o <<Done>>] /\ f.wire \in Seq(T)
    BY <1>7 DEF Send
  <1>9. v.started = f.started /\ v.junk = f.junk /\ v.streamed = f.streamed /\ v.wire = f.wire \o <<Done>>
    BY <1>7, <1>8
  <1>10. Hushed(f.wire, f.wire \o <<Done>>)
    BY <1>4, <1>8, HushedLines
  <1> HIDE DEF v
  <1>11. Hushed(w.wire, v.wire)
    BY <1>7, <1>9, <1>10, HushedOn
  <1> QED BY <1>7, <1>9, <1>11 DEF v, f

-----------------------------------------------------------------------------
(* A listing.                                                              *)

\* Events and then the calls of a listing are handled through sets of answers, one
\* for each set of calls that were listed.
LEMMA ListingThrough ==
  ASSUME NEW w, NEW Q, w \in Q[{}], NEW T, NEW events \in Seq(T),
         NEW cs \in Seq(Natives), IsInjective(cs), NEW broken,
         \A D \in SUBSET Natives : \A v \in Q[D] : \A e \in T : Handled(v, e) \in Q[D],
         \A D \in SUBSET Natives : \A v \in Q[D] : \A c \in Range(cs) \ D :
           Handled(v, Native(c, broken)) \in Q[D \cup {c}]
  PROVE  Forwarded(w, events \o [i \in DOMAIN cs |-> Native(cs[i], broken)]) \in Q[Range(cs)]
  <1> DEFINE calls == [i \in DOMAIN cs |-> Native(cs[i], broken)]
             all == events \o calls
             K == Len(events)
             N == Len(cs)
             Seen(n) == {cs[i] : i \in {j \in 1 .. N : K + j <= n}}
             R == [n \in 0 .. Len(all) |-> Q[Seen(n)]]
  <1>1. /\ K \in Nat /\ N \in Nat /\ DOMAIN cs = 1 .. N /\ Len(all) = K + N
        /\ \A n \in 1 .. K : all[n] \in T
        /\ \A i \in 1 .. N : all[K + i] = Native(cs[i], broken) /\ cs[i] \in Natives
    <2>1. calls \in Seq({Native(cs[i], broken) : i \in DOMAIN cs}) /\ Len(calls) = Len(cs)
      OBVIOUS
    <2> DEFINE U == {Native(cs[i], broken) : i \in DOMAIN cs} \cup T
    <2>2. calls \in Seq(U) /\ events \in Seq(U)
      OBVIOUS
    <2>3. \A i \in DOMAIN cs : calls[i] = Native(cs[i], broken) /\ cs[i] \in Natives
      OBVIOUS
    <2>4. K \in Nat /\ N \in Nat /\ DOMAIN cs = 1 .. N /\ \A n \in 1 .. K : events[n] \in T
      OBVIOUS
    <2> HIDE DEF calls, U
    <2>5. Len(all) = K + Len(calls)
      BY <2>2
    <2>6. \A n \in 1 .. K : all[n] = events[n]
      BY <2>2
    <2>7. \A i \in 1 .. Len(calls) : all[K + i] = calls[i]
      BY <2>2
    <2> HIDE DEF all, K
    <2> QED BY <2>1, <2>3, <2>4, <2>5, <2>6, <2>7
  <1>2. \A n \in 0 .. Len(all) : R[n] = Q[Seen(n)]
    OBVIOUS
  <1>3. \A n : Seen(n) \in SUBSET Natives
    BY <1>1
  <1>4. Seen(0) = {} /\ Seen(Len(all)) = Range(cs)
    <2>1. {j \in 1 .. N : K + j <= 0} = {}
      BY <1>1
    <2>2. {j \in 1 .. N : K + j <= Len(all)} = DOMAIN cs
      BY <1>1
    <2> HIDE DEF all, K
    <2> QED BY <2>1, <2>2 DEF Range
  <1>5. \A n \in 1 .. K : Seen(n) = Seen(n - 1)
    <2>1. \A n \in 1 .. K : {j \in 1 .. N : K + j <= n} = {j \in 1 .. N : K + j <= n - 1}
      BY <1>1
    <2> HIDE DEF K, N
    <2> QED BY <2>1
  <1>6. ASSUME NEW i \in 1 .. N
        PROVE  /\ Seen(K + i) = Seen(K + i - 1) \cup {cs[i]}
               /\ cs[i] \in Range(cs) \ Seen(K + i - 1)
    <2>1. {j \in 1 .. N : K + j <= K + i} = {j \in 1 .. N : K + j <= K + i - 1} \cup {i}
      BY <1>1
    <2>2. \A j \in {k \in 1 .. N : K + k <= K + i - 1} : j \in DOMAIN cs /\ j # i
      BY <1>1
    <2>3. cs[i] \in Range(cs) /\ i \in DOMAIN cs
      BY <1>1 DEF Range
    <2> HIDE DEF K, N
    <2>4. cs[i] \notin Seen(K + i - 1)
      BY <2>2, <2>3 DEF IsInjective
    <2> QED BY <2>1, <2>3, <2>4
  <1> HIDE DEF Seen, R, all, K, N
  <1>7. ASSUME NEW n \in 1 .. Len(all), NEW v \in R[n - 1] PROVE Handled(v, all[n]) \in R[n]
    <2>1. n \in 0 .. Len(all) /\ n - 1 \in 0 .. Len(all)
      BY <1>1
    <2>2. v \in Q[Seen(n - 1)] /\ R[n] = Q[Seen(n)]
      BY <1>2, <1>7, <2>1
    <2>3. CASE n \in 1 .. K
      BY <1>1, <1>3, <1>5, <2>2, <2>3
    <2>4. CASE n - K \in 1 .. N /\ n = K + (n - K)
      <3> DEFINE i == n - K
                 c == cs[i]
      <3>1. all[n] = Native(c, broken)
        BY <1>1, <2>4
      <3>2. Seen(n) = Seen(n - 1) \cup {c} /\ c \in Range(cs) \ Seen(n - 1)
        <4>1. i \in 1 .. N /\ n = K + i /\ n - 1 = K + i - 1
          BY <1>1, <2>4
        <4> HIDE DEF i
        <4> QED BY <1>6, <4>1
      <3> HIDE DEF i, c
      <3> QED BY <1>3, <2>2, <3>1, <3>2
    <2> QED BY <1>1, <2>3, <2>4
  <1>8. w \in R[0] /\ R[Len(all)] = Q[Range(cs)] /\ Len(all) \in Nat
    <2>1. 0 \in 0 .. Len(all) /\ Len(all) \in 0 .. Len(all) /\ Len(all) \in Nat
      BY <1>1
    <2> QED BY <1>2, <1>4, <2>1
  <1>9. Forwarded(w, all) \in R[Len(all)]
    BY <1>7, <1>8, ForwardedThrough
  <1> QED BY <1>8, <1>9 DEF all

\* An answer that comes of w when the calls D have been listed.
ClaudeAfter(w, D) ==
  {v \in ClaudeArguments :
     \A a \in Natives :
       IF a \in D
       THEN v.streamed[a] \in {0, Full} \/ (a \in Respelled /\ v.streamed[a] = w.streamed[a])
       ELSE v.streamed[a] = w.streamed[a]}

OpenAIAfter(w, D) ==
  {v \in OpenAIArguments :
     /\ v.started = w.started /\ v.junk = w.junk
     /\ \A a \in Natives \ D :
          v.streamed[a] = w.streamed[a] /\ (Silent(w.wire, a) => Silent(v.wire, a))
     /\ \A a \in D \cap w.started :
          \/ v.streamed[a] = Full \/ a \in w.junk
          \/ a \in Respelled /\ w.streamed[a] > 0 /\ v.streamed[a] = w.streamed[a]}

\* A listed call as an event.
LEMMA NativeEvent ==
  ASSUME NEW c \in Natives, NEW broken, NEW thinks \in BOOLEAN
  PROVE  LET e == Native(c, broken) IN
         /\ e \in Events(thinks) /\ e.type = "tool_call" /\ e.id = c
         /\ Repaired(e) = e /\ (IsValid(e) <=> c \notin broken)
  BY DEF Native, Events, Calls, Asks, Repaired, IsValid

\* What a parser emits is no native call.
LEMMA UtteranceEvent ==
  ASSUME NEW thinks \in BOOLEAN, NEW e \in Utterances(thinks)
  PROVE  /\ e \in Events(thinks) /\ e \in Events(TRUE)
         /\ Repaired(e) \in Events(thinks)
         /\ Repaired(e).type = e.type
         /\ e.type = "tool_call" => e.id = "none" /\ Repaired(e).id = "none"
  <1>1. e \in Events(thinks) /\ e \in Events(TRUE) /\ Repaired(e) \in Events(thinks)
    BY EventsWiden, RepairedFits DEF Events
  <1>2. e.type = "tool_call" => e \in [type : {"tool_call"}, call : Calls, id : {"none"}]
    BY DEF Utterances
  <1> QED BY <1>1, <1>2 DEF Repaired

LEMMA ClaudeSpeaks ==
  ASSUME request.api = "claude", NEW w, NEW D, NEW v \in ClaudeAfter(w, D), NEW e \in Utterances(TRUE)
  PROVE  Handled(v, e) \in ClaudeAfter(w, D)
  <1>1. v \in ClaudeArguments /\ e \in Events(TRUE)
    BY UtteranceEvent DEF ClaudeAfter
  <1>2. Handled(v, e) = IF IsValid(e) THEN ClaudeEvent(v, e) ELSE v
    BY DEF Handled
  <1>3. ClaudeEvent(v, e) \in ClaudeArguments /\ ClaudeEvent(v, e).streamed = v.streamed
    <2> DEFINE x == ClaudeEvent(v, e)
    <2>1. /\ x \in ClaudeArguments
          /\ e.type = "tool_call" => Completes(v, x, e.id)
          /\ e.type # "tool_call" => x.streamed = v.streamed
      BY <1>1, EventArguments
    <2> HIDE DEF x
    <2>2. e.type = "tool_call" => e.id \notin Natives
      BY UtteranceEvent, NativesAssumption
    <2>3. x.streamed = v.streamed
      BY <2>1, <2>2 DEF Completes
    <2> QED BY <2>1, <2>3 DEF x
  <1> QED BY <1>2, <1>3 DEF ClaudeAfter

LEMMA ClaudeLists ==
  ASSUME request.api = "claude", NEW w, NEW D, NEW v \in ClaudeAfter(w, D), NEW broken,
         NEW c \in Natives \ D, c \in broken => w.streamed[c] \in {0, Full}
  PROVE  Handled(v, Native(c, broken)) \in ClaudeAfter(w, D \cup {c})
  <1> DEFINE e == Native(c, broken)
             x == Handled(v, e)
  <1>1. e \in Events(TRUE) /\ e.type = "tool_call" /\ e.id = c /\ (IsValid(e) <=> c \notin broken)
    BY NativeEvent
  <1>2. /\ v \in ClaudeArguments /\ v.streamed \in [Natives -> 0 .. Full]
        /\ \A a \in Natives :
             IF a \in D
             THEN v.streamed[a] \in {0, Full} \/ (a \in Respelled /\ v.streamed[a] = w.streamed[a])
             ELSE v.streamed[a] = w.streamed[a]
    BY DEF ClaudeAfter, ClaudeArguments, ClaudeWriters
  <1>3. x = IF IsValid(e) THEN ClaudeEvent(v, e) ELSE v
    BY DEF Handled
  <1> HIDE DEF e, x
  <1>4. CASE c \in broken
    BY <1>1, <1>2, <1>3, <1>4 DEF ClaudeAfter, x, e
  <1>5. CASE c \notin broken
    <2>1. x \in ClaudeArguments /\ Completes(v, x, c)
      BY <1>1, <1>2, <1>3, <1>5, EventArguments
    <2>2. \A a \in Natives \ {c} : x.streamed[a] = v.streamed[a]
      BY <1>2, <2>1 DEF Completes
    <2>3. x.streamed[c] \in {0, Full} \/ (c \in Respelled /\ x.streamed[c] = w.streamed[c])
      BY <1>2, <2>1 DEF Completes
    <2>4. x \in ClaudeAfter(w, D \cup {c})
      BY <1>2, <2>1, <2>2, <2>3 DEF ClaudeAfter
    <2> QED BY <2>4 DEF x, e
  <1> QED BY <1>4, <1>5

LEMMA OpenAISpeaks ==
  ASSUME request.api = "openai", NEW w, NEW D, NEW v \in OpenAIAfter(w, D), NEW e \in Utterances(FALSE)
  PROVE  Handled(v, e) \in OpenAIAfter(w, D)
  <1> DEFINE r == Repaired(e)
             x == OpenAIEvent(v, r)
  <1>1. v \in OpenAIArguments
    BY DEF OpenAIAfter
  <1>2. r \in Events(FALSE) /\ (r.type = "tool_call" => r.id = "none")
    BY UtteranceEvent
  <1>3. Handled(v, e) = IF IsValid(r) THEN x ELSE v
    BY DEF Handled
  <1> HIDE DEF r, x
  <1>4. r.type \in {"text", "tool_call"} /\ (r.type = "tool_call" => r.id \notin Natives)
    BY <1>2, EventKinds, NativesAssumption
  <1>5. /\ x \in OpenAIArguments /\ x.started = v.started /\ x.junk = v.junk
        /\ \A a \in Natives : x.streamed[a] = v.streamed[a] /\ (Silent(v.wire, a) => Silent(x.wire, a))
    <2>1. CASE r.type = "text"
      <3>1. Softly(v, x)
        BY <1>1, <1>2, <2>1, OpenAIEventArguments DEF x
      <3>2. ASSUME NEW a \in Natives PROVE Stays(v.wire, x.wire, a)
        BY <3>1, Zenon DEF Softly, Hushed
      <3> QED BY <1>1, <3>1, <3>2, SoftlyKeeps DEF Softly, Stays
    <2>2. CASE r.type = "tool_call"
      <3>1. Answered(v, x, r.id)
        BY <1>1, <1>2, <1>4, <2>2, OpenAIEventArguments DEF x
      <3> QED BY <1>4, <2>2, <3>1 DEF Answered, OthersStay
    <2> QED BY <1>4, <2>1, <2>2
  <1>6. \A a \in D \cap w.started : a \in Natives
    BY <1>1 DEF OpenAIAfter, OpenAIArguments, OpenAIWriters
  <1>7. x \in OpenAIAfter(w, D)
    BY <1>5, <1>6 DEF OpenAIAfter
  <1> QED BY <1>3, <1>7

LEMMA OpenAILists ==
  ASSUME request.api = "openai", NEW w, NEW D, NEW v \in OpenAIAfter(w, D), NEW broken,
         NEW c \in Natives \ D, c \in w.started \/ Silent(w.wire, c), c \in broken => c \notin w.started
  PROVE  Handled(v, Native(c, broken)) \in OpenAIAfter(w, D \cup {c})
  <1> DEFINE e == Native(c, broken)
             x == Handled(v, e)
  <1>1. e \in Events(FALSE) /\ e.type = "tool_call" /\ e.id = c
        /\ Repaired(e) = e /\ (IsValid(e) <=> c \notin broken)
    BY NativeEvent
  <1>2. /\ v \in OpenAIArguments /\ v.started = w.started /\ v.junk = w.junk
        /\ v.streamed[c] = w.streamed[c] /\ (c \in v.started \/ Silent(v.wire, c))
    BY DEF OpenAIAfter
  <1>3. x = IF IsValid(e) THEN OpenAIEvent(v, e) ELSE v
    BY <1>1 DEF Handled
  <1> HIDE DEF e, x
  <1>4. CASE c \in broken
    <2>1. x = v /\ c \notin w.started
      BY <1>1, <1>3, <1>4
    <2>2. x \in OpenAIAfter(w, D \cup {c})
      BY <2>1 DEF OpenAIAfter
    <2> QED BY <2>2 DEF x, e
  <1>5. CASE c \notin broken
    <2>1. Answered(v, x, c)
      BY <1>1, <1>2, <1>3, <1>5, OpenAIEventArguments
    <2>2. x \in OpenAIArguments /\ x.started = w.started /\ x.junk = w.junk
      BY <1>2, <2>1 DEF Answered
    <2>3. ASSUME NEW a \in Natives \ (D \cup {c})
          PROVE  x.streamed[a] = w.streamed[a] /\ (Silent(w.wire, a) => Silent(x.wire, a))
      BY <2>1 DEF Answered, OthersStay, OpenAIAfter
    <2>4. ASSUME NEW a \in (D \cup {c}) \cap w.started
          PROVE  \/ x.streamed[a] = Full \/ a \in w.junk
                 \/ a \in Respelled /\ w.streamed[a] > 0 /\ x.streamed[a] = w.streamed[a]
      <3>1. CASE a = c
        BY <1>2, <2>1, <2>4, <3>1 DEF Answered
      <3>2. CASE a # c
        <4>1. a \in Natives
          BY <2>4, <1>2 DEF OpenAIArguments, OpenAIWriters
        <4>2. x.streamed[a] = v.streamed[a]
          BY <2>1, <3>2, <4>1 DEF Answered, OthersStay
        <4> QED BY <2>4, <3>2, <4>2 DEF OpenAIAfter
      <3> QED BY <3>1, <3>2
    <2>5. x \in OpenAIAfter(w, D \cup {c})
      BY <2>2, <2>3, <2>4 DEF OpenAIAfter
    <2> QED BY <2>5 DEF x, e
  <1> QED BY <1>4, <1>5

-----------------------------------------------------------------------------
(* What the handlers of upstream's events make of an answer.               *)

LEMMA AfterNothing ==
  /\ \A w \in ClaudeArguments : w \in ClaudeAfter(w, {})
  /\ \A w \in OpenAIArguments : w \in OpenAIAfter(w, {})
  BY DEF ClaudeAfter, OpenAIAfter

LEMMA ClaudeForwards ==
  ASSUME request.api = "claude", NEW w \in ClaudeArguments, NEW events \in Seq(Utterances(TRUE))
  PROVE  Forwarded(w, events) \in ClaudeAfter(w, {})
  <1>1. w \in ClaudeAfter(w, {})
    BY AfterNothing
  <1>2. \A v \in ClaudeAfter(w, {}), e \in Utterances(TRUE) : Handled(v, e) \in ClaudeAfter(w, {})
    BY ClaudeSpeaks
  <1> QED BY <1>1, <1>2, ForwardedStays

LEMMA OpenAIForwards ==
  ASSUME request.api = "openai", NEW w \in OpenAIArguments, NEW events \in Seq(Utterances(FALSE))
  PROVE  Forwarded(w, events) \in OpenAIAfter(w, {})
  <1>1. w \in OpenAIAfter(w, {})
    BY AfterNothing
  <1>2. \A v \in OpenAIAfter(w, {}), e \in Utterances(FALSE) : Handled(v, e) \in OpenAIAfter(w, {})
    BY OpenAISpeaks
  <1> QED BY <1>1, <1>2, ForwardedStays

\* What upstream may list: nothing broken that was streamed.
ClaudeListable(w, cs, broken) ==
  \A c \in Range(cs) : c \in broken => w.streamed[c] \in {0, Full}
OpenAIListable(w, cs, broken) ==
  \A c \in Range(cs) : /\ c \in w.started \/ Silent(w.wire, c)
                       /\ c \in broken => c \notin w.started

LEMMA ClaudeListing ==
  ASSUME request.api = "claude", NEW w \in ClaudeArguments, NEW events \in Seq(Utterances(TRUE)),
         NEW cs \in Seq(Natives), IsInjective(cs), NEW broken,
         ClaudeListable(w, cs, broken)
  PROVE  Forwarded(w, events \o [i \in DOMAIN cs |-> Native(cs[i], broken)])
           \in ClaudeAfter(w, Range(cs))
  <1> DEFINE Q == [D \in SUBSET Natives |-> ClaudeAfter(w, D)]
  <1>1. Range(cs) \in SUBSET Natives /\ {} \in SUBSET Natives
    BY DEF Range
  <1>2. \A D \in SUBSET Natives : Q[D] = ClaudeAfter(w, D)
    OBVIOUS
  <1> HIDE DEF Q
  <1>3. w \in Q[{}]
    BY <1>1, <1>2, AfterNothing
  <1>4. ASSUME NEW D \in SUBSET Natives, NEW v \in Q[D], NEW e \in Utterances(TRUE)
        PROVE  Handled(v, e) \in Q[D]
    <2>1. Q[D] = ClaudeAfter(w, D)
      BY <1>2
    <2>2. v \in ClaudeAfter(w, D)
      BY <2>1
    <2>3. Handled(v, e) \in ClaudeAfter(w, D)
      BY <2>2, ClaudeSpeaks
    <2> QED BY <2>1, <2>3
  <1>5. ASSUME NEW D \in SUBSET Natives, NEW v \in Q[D], NEW c \in Range(cs) \ D
        PROVE  Handled(v, Native(c, broken)) \in Q[D \cup {c}]
    <2>1. D \cup {c} \in SUBSET Natives /\ c \in Natives \ D /\ v \in ClaudeAfter(w, D)
      BY <1>1, <1>2
    <2>2. Handled(v, Native(c, broken)) \in ClaudeAfter(w, D \cup {c})
      BY <2>1, ClaudeLists DEF ClaudeListable
    <2> QED BY <1>2, <2>1, <2>2
  <1>6. Forwarded(w, events \o [i \in DOMAIN cs |-> Native(cs[i], broken)]) \in Q[Range(cs)]
    BY <1>3, <1>4, <1>5, ListingThrough, Zenon
  <1> QED BY <1>1, <1>2, <1>6

LEMMA OpenAIListing ==
  ASSUME request.api = "openai", NEW w \in OpenAIArguments, NEW events \in Seq(Utterances(FALSE)),
         NEW cs \in Seq(Natives), IsInjective(cs), NEW broken,
         OpenAIListable(w, cs, broken)
  PROVE  Forwarded(w, events \o [i \in DOMAIN cs |-> Native(cs[i], broken)])
           \in OpenAIAfter(w, Range(cs))
  <1> DEFINE Q == [D \in SUBSET Natives |-> OpenAIAfter(w, D)]
  <1>1. Range(cs) \in SUBSET Natives /\ {} \in SUBSET Natives
    BY DEF Range
  <1>2. \A D \in SUBSET Natives : Q[D] = OpenAIAfter(w, D)
    OBVIOUS
  <1> HIDE DEF Q
  <1>3. w \in Q[{}]
    BY <1>1, <1>2, AfterNothing
  <1>4. ASSUME NEW D \in SUBSET Natives, NEW v \in Q[D], NEW e \in Utterances(FALSE)
        PROVE  Handled(v, e) \in Q[D]
    <2>1. Q[D] = OpenAIAfter(w, D)
      BY <1>2
    <2>2. v \in OpenAIAfter(w, D)
      BY <2>1
    <2>3. Handled(v, e) \in OpenAIAfter(w, D)
      BY <2>2, OpenAISpeaks
    <2> QED BY <2>1, <2>3
  <1>5. ASSUME NEW D \in SUBSET Natives, NEW v \in Q[D], NEW c \in Range(cs) \ D
        PROVE  Handled(v, Native(c, broken)) \in Q[D \cup {c}]
    <2>1. D \cup {c} \in SUBSET Natives /\ c \in Natives \ D /\ v \in OpenAIAfter(w, D)
      BY <1>1, <1>2
    <2>2. Handled(v, Native(c, broken)) \in OpenAIAfter(w, D \cup {c})
      BY <2>1, OpenAILists DEF OpenAIListable
    <2> QED BY <1>2, <2>1, <2>2
  <1>6. Forwarded(w, events \o [i \in DOMAIN cs |-> Native(cs[i], broken)]) \in Q[Range(cs)]
    BY <1>3, <1>4, <1>5, ListingThrough, Zenon
  <1> QED BY <1>1, <1>2, <1>6

\* What is left in the parser comes before the end of the answer.
LEMMA Leftovers ==
  ASSUME request.tools \in BOOLEAN, request.thinks \in BOOLEAN,
         parser \in Parsers(request.tools, request.thinks)
  PROVE  \E events \in Seq(Utterances(request.thinks)) :
           Rest = IF request.api = "claude" THEN events \o <<End>> ELSE events
  <1>1. PICK events \in Seq(Utterances(request.thinks)) :
          Finish(parser, request.thinks) = [NewParser EXCEPT !.events = events \o <<End>>]
    BY FinishFits
  <1> DEFINE all == events \o <<End>>
  <1>2. Finish(parser, request.thinks).events = all
    BY <1>1 DEF NewParser
  <1>3. Front(all) = events
    <2>1. Front(all) = SubSeq(all, 1, Len(events))
      BY DEF Front
    <2>2. \A i \in 1 .. Len(events) : SubSeq(all, 1, Len(events))[i] = events[i]
      OBVIOUS
    <2>3. /\ SubSeq(all, 1, Len(events)) \in Seq(Utterances(request.thinks))
          /\ Len(SubSeq(all, 1, Len(events))) = Len(events)
      OBVIOUS
    <2> QED BY <2>1, <2>2, <2>3, SeqEqual
  <1>4. Rest = IF request.api = "claude" THEN events \o <<End>> ELSE events
    BY <1>2, <1>3 DEF Rest
  <1> QED BY <1>4

\* Events with one more after them.
LEMMA Ended ==
  ASSUME NEW T, NEW events \in Seq(T), NEW e
  PROVE  LET all == events \o <<e>> IN
         /\ Len(events) \in Nat /\ Len(all) = Len(events) + 1 /\ all[Len(events) + 1] = e
         /\ \A n \in 1 .. Len(events) : all[n] \in T
  OBVIOUS

LEMMA ClaudeRest ==
  ASSUME request.api = "claude", NEW w \in ClaudeArguments, NEW events \in Seq(Utterances(TRUE))
  PROVE  \E v \in ClaudeAfter(w, {}) : Forwarded(w, events \o <<End>>) = ClaudeFinish(v)
  <1> DEFINE all == events \o <<End>>
             N == Len(events)
             U == Utterances(TRUE)
             S == ClaudeAfter(w, {})
             Q == [n \in 0 .. N + 1 |-> IF n <= N THEN S ELSE {ClaudeFinish(v) : v \in S}]
  <1>1. N \in Nat /\ Len(all) = N + 1 /\ all[N + 1] = End /\ \A n \in 1 .. N : all[n] \in U
    BY Ended, Zenon
  <1> HIDE DEF all, N, S, U
  <1>2. w \in Q[0]
    BY <1>1, AfterNothing DEF S
  <1>3. ASSUME NEW n \in 1 .. Len(all), NEW v \in Q[n - 1] PROVE Handled(v, all[n]) \in Q[n]
    <2>1. v \in S
      BY <1>1, <1>3
    <2>2. CASE n <= N
      <3>1. all[n] \in U
        BY <1>1, <2>2
      <3>2. Handled(v, all[n]) \in S
        BY <2>1, <3>1, ClaudeSpeaks DEF S, U
      <3> QED BY <1>1, <2>2, <3>2
    <2>3. CASE n = N + 1
      <3>1. Handled(v, all[n]) = ClaudeFinish(v)
        BY <1>1, <2>3 DEF Handled, IsValid, End, ClaudeEvent
      <3> QED BY <1>1, <2>1, <2>3, <3>1
    <2> QED BY <1>1, <2>2, <2>3
  <1>4. Q[N + 1] = {ClaudeFinish(v) : v \in S}
    BY <1>1
  <1> HIDE DEF Q
  <1>5. Forwarded(w, all) \in Q[N + 1]
    BY <1>1, <1>2, <1>3, ForwardedThrough
  <1> QED BY <1>4, <1>5 DEF all, S

-----------------------------------------------------------------------------
(* The inductive invariant.                                                *)

\* How much of call c deltas have brought.
Known(c) == IF sent[c] = Unsent THEN 0 ELSE sent[c]

\* What answer w has of native call c, against what upstream sent of it.
ClaudeSent(w, c) ==
  IF c \in Strict \cup listed
  THEN \/ w.streamed[c] \in {0, Full}
       \/ c \in Respelled \ Strict /\ w.streamed[c] = Known(c)
  ELSE w.streamed[c] = Known(c)

OpenAISent(w, c) ==
  IF c \in listed
  THEN c \in w.started =>
         \/ w.streamed[c] = Full \/ c \in w.junk \/ c \in Respelled \ NamedEach
         \/ c \in Respelled /\ w.streamed[c] > 0 /\ w.streamed[c] = Known(c)
  ELSE /\ c \in w.started \/ Silent(w.wire, c)
       /\ c \in w.started => sent[c] # Unsent
       /\ w.streamed[c] <= Known(c)
       /\ c \in NamedEach => w.streamed[c] = Known(c)

StreamedSoFar ==
  CASE request.api = "claude" -> writer \in ClaudeArguments /\ \A c \in Natives : ClaudeSent(writer, c)
    [] request.api = "openai" -> writer \in OpenAIArguments /\ \A c \in Natives : OpenAISent(writer, c)
    [] OTHER -> TRUE

\* What the pieces on the wire are, and that they are whole when nothing is missing.
ClaudePieces(w) ==
  /\ \A k \in DOMAIN w.wire : "from" \in DOMAIN w.wire[k] => w.wire[k] \in Pieces
  /\ \A b \in Int : InOrder(w.wire, b)
  /\ \A c \in Strict : Silent(w.wire, w.block[c]) \/ Reached(w.wire, w.block[c], Full)
CutIn(w, b) == \E c \in PartSent \ Strict : w.block[c] = b
ClaudeWhole(w) == \A b \in Int : Silent(w.wire, b) \/ Reached(w.wire, b, Full) \/ CutIn(w, b)

OpenAIPieces(w) ==
  /\ \A k \in DOMAIN w.wire : "from" \in DOMAIN w.wire[k] => w.wire[k] \in ToolLines
  /\ TextCallsWhole(w.wire)
  /\ \A c \in Natives : InOrder(w.wire, c)
OpenAIWhole(w) ==
  \A c \in Natives \ (w.junk \cup (Respelled \ NamedEach) \cup PartSent) :
    Silent(w.wire, c) \/ Reached(w.wire, c, Full)

PiecesRight ==
  \/ writer.wire = <<>>
  \/ request.api = "claude" /\ ClaudePieces(writer)
  \/ request.api = "openai" /\ OpenAIPieces(writer)
PiecesWhole ==
  \/ writer.wire = <<>>
  \/ request.api = "claude" /\ ClaudeWhole(writer)
  \/ request.api = "openai" /\ OpenAIWhole(writer)

NothingSent == listed = {} /\ \A c \in Natives : sent[c] = Unsent

ArgumentsInv ==
  /\ phase \in {"new", "opening", "starting"} => NothingSent
  /\ phase \in {"streaming", "reopening"} => StreamedSoFar
  /\ phase = "reopening" => ~writer.hasToolCall
  /\ phase \in {"ending", "done"} => PiecesRight
  /\ phase = "ending" => PiecesWhole

LEMMA ClaudeHushed ==
  ASSUME NEW u, NEW v, Hushed(u.wire, v.wire), v.block = u.block
  PROVE  /\ ClaudePieces(u) => ClaudePieces(v)
         /\ ClaudeWhole(u) => ClaudeWhole(v)
  <1>1. \A b : Stays(u.wire, v.wire, b)
    BY Zenon DEF Hushed
  <1>2. \A k \in DOMAIN v.wire :
          "from" \in DOMAIN v.wire[k] => k \in DOMAIN u.wire /\ v.wire[k] = u.wire[k]
    BY DEF Hushed
  <1>3. ASSUME ClaudePieces(u) PROVE ClaudePieces(v)
    <2>1. \A k \in DOMAIN v.wire : "from" \in DOMAIN v.wire[k] => v.wire[k] \in Pieces
      BY <1>2, <1>3 DEF ClaudePieces
    <2>2. \A b \in Int : InOrder(v.wire, b)
      BY <1>1, <1>3 DEF ClaudePieces, Stays
    <2>3. \A c \in Strict : Silent(v.wire, v.block[c]) \/ Reached(v.wire, v.block[c], Full)
      BY <1>1, <1>3 DEF ClaudePieces, Stays
    <2> QED BY <2>1, <2>2, <2>3 DEF ClaudePieces
  <1>4. ClaudeWhole(u) => ClaudeWhole(v)
    BY <1>1 DEF ClaudeWhole, Stays, CutIn
  <1> QED BY <1>3, <1>4

LEMMA OpenAIHushed ==
  ASSUME NEW u, NEW v, Hushed(u.wire, v.wire), v.junk = u.junk
  PROVE  /\ OpenAIPieces(u) => OpenAIPieces(v)
         /\ OpenAIWhole(u) => OpenAIWhole(v)
  <1>1. \A b : Stays(u.wire, v.wire, b)
    BY Zenon DEF Hushed
  <1>2. \A k \in DOMAIN v.wire :
          "from" \in DOMAIN v.wire[k] => k \in DOMAIN u.wire /\ v.wire[k] = u.wire[k]
    BY DEF Hushed
  <1>3. ASSUME OpenAIPieces(u) PROVE OpenAIPieces(v)
    <2>1. \A k \in DOMAIN v.wire : "from" \in DOMAIN v.wire[k] => v.wire[k] \in ToolLines
      BY <1>2, <1>3 DEF OpenAIPieces
    <2>2. \A c \in Natives : InOrder(v.wire, c)
      BY <1>1, <1>3 DEF OpenAIPieces, Stays
    <2>3. TextCallsWhole(v.wire)
      BY <1>3, TextCallsStay DEF OpenAIPieces
    <2> QED BY <2>1, <2>2, <2>3 DEF OpenAIPieces
  <1>4. OpenAIWhole(u) => OpenAIWhole(v)
    BY <1>1 DEF OpenAIWhole, Stays
  <1> QED BY <1>3, <1>4

LEMMA ClaudeRight ==
  ASSUME NEW w \in ClaudeArguments, \A c \in Strict : w.streamed[c] \in {0, Full}
  PROVE  ClaudePieces(w)
  <1>1. w \in ClaudeWriters
    BY DEF ClaudeArguments
  <1>2. \A k \in DOMAIN w.wire : "from" \in DOMAIN w.wire[k] => w.wire[k] \in Pieces
    <2>1. \A k \in DOMAIN w.wire : w.wire[k] \in Speech
      BY <1>1 DEF ClaudeWriters
    <2>2. \A l \in Speech : "from" \in DOMAIN l => l \in Pieces
      BY DEF Speech, Quiet
    <2> QED BY <2>1, <2>2
  <1>3. \A b \in Int : InOrder(w.wire, b)
    BY DEF ClaudeArguments, BlockArguments
  <1>4. ASSUME NEW c \in Strict PROVE Silent(w.wire, w.block[c]) \/ Reached(w.wire, w.block[c], Full)
    <2>1. c \in Natives
      BY NativesAssumption
    <2>2. w.block[c] \in Int /\ CallArguments(w, c)
      BY <1>1, <2>1 DEF ClaudeArguments, ClaudeWriters
    <2>3. CASE w.block[c] = NoBlock
      <3>1. BlockArguments(w, w.block[c]) /\ w.block[c] \notin 0 .. w.next - 1
        BY <2>2, <2>3 DEF ClaudeArguments, NoBlock
      <3> QED BY <3>1 DEF BlockArguments
    <2>4. CASE w.block[c] # NoBlock
      <3>1. w.streamed[c] = Full
        BY <2>2, <2>4 DEF CallArguments
      <3> QED BY <2>2, <2>4, <3>1 DEF CallArguments
    <2> QED BY <2>3, <2>4
  <1> QED BY <1>2, <1>3, <1>4 DEF ClaudePieces

LEMMA ClaudeComplete ==
  ASSUME NEW w \in ClaudeArguments,
         \A c \in Natives : w.streamed[c] \in {0, Full} \/ c \in PartSent \ Strict
  PROVE  ClaudeWhole(w)
  <1>1. ASSUME NEW b \in Int, ~Silent(w.wire, b), ~CutIn(w, b) PROVE Reached(w.wire, b, Full)
    <2>1. BlockArguments(w, b)
      BY DEF ClaudeArguments
    <2>2. CASE Assigned(w, b)
      <3>1. PICK c \in Natives : w.block[c] = b /\ c \notin PartSent \ Strict
        BY <1>1, <2>2 DEF Assigned, CutIn
      <3>2. CallArguments(w, c) /\ w \in ClaudeWriters
        BY DEF ClaudeArguments
      <3>3. b # NoBlock
        <4>1. w.next \in Int /\ b \in 0 .. w.next - 1
          BY <1>1, <2>1, <3>2, NextFits DEF BlockArguments
        <4> QED BY <4>1 DEF NoBlock
      <3> QED BY <3>1, <3>2, <3>3 DEF CallArguments
    <2> QED BY <1>1, <2>1, <2>2 DEF BlockArguments
  <1> QED BY <1>1 DEF ClaudeWhole

LEMMA OpenAIRight ==
  ASSUME NEW w \in OpenAIArguments
  PROVE  OpenAIPieces(w)
  <1>1. w \in OpenAIWriters
    BY DEF OpenAIArguments
  <1>2. \A k \in DOMAIN w.wire : "from" \in DOMAIN w.wire[k] => w.wire[k] \in ToolLines
    <2>1. \A k \in DOMAIN w.wire : w.wire[k] \in Chunks
      BY <1>1 DEF OpenAIWriters
    <2>2. \A l \in Chunks : "from" \in DOMAIN l => l \in ToolLines
      BY DEF Chunks, Contents
    <2> QED BY <2>1, <2>2
  <1> QED BY <1>2 DEF OpenAIArguments, ChunkArguments, OpenAIPieces

LEMMA OpenAIComplete ==
  ASSUME NEW w \in OpenAIArguments,
         \A c \in w.started \ (w.junk \cup (Respelled \ NamedEach) \cup PartSent) : w.streamed[c] = Full
  PROVE  OpenAIWhole(w)
  <1>1. ASSUME NEW c \in Natives \ (w.junk \cup (Respelled \ NamedEach) \cup PartSent)
        PROVE  Silent(w.wire, c) \/ Reached(w.wire, c, Full)
    <2>1. ChunkArguments(w, c)
      BY DEF OpenAIArguments
    <2> QED BY <2>1 DEF ChunkArguments
  <1> QED BY <1>1 DEF OpenAIWhole

-----------------------------------------------------------------------------
(* Initial answers, and steps that forward nothing.                        *)

LEMMA NewClaudeArguments ==
  NewClaude \in ClaudeArguments /\ \A c \in Natives : NewClaude.streamed[c] = 0
  <1> DEFINE wire == NewClaude.wire
  <1>1. NewClaude \in ClaudeWriters
    BY NewClaudeFits DEF ClaudeOpen
  <1>2. /\ wire = <<[type |-> "message_start"]>> /\ \A c \in Natives : NewClaude.streamed[c] = 0
        /\ \A c \in Natives : NewClaude.block[c] = NoBlock
    BY DEF NewClaude
  <1>3. \A b : Silent(wire, b)
    BY <1>2 DEF Silent, Carries
  <1>4. \A b \in Int : BlockArguments(NewClaude, b)
    BY <1>3 DEF BlockArguments, InOrder, Silent
  <1>5. \A c \in Natives : CallArguments(NewClaude, c)
    BY <1>2 DEF CallArguments
  <1>6. BlocksApart(NewClaude)
    BY <1>2 DEF BlocksApart
  <1> QED BY <1>1, <1>2, <1>4, <1>5, <1>6 DEF ClaudeArguments

LEMMA NewOpenAIArguments ==
  /\ NewOpenAI \in OpenAIArguments /\ NewOpenAI.started = {}
  /\ \A c \in Natives : Silent(NewOpenAI.wire, c) /\ NewOpenAI.streamed[c] = 0
  <1> DEFINE wire == NewOpenAI.wire
  <1>1. NewOpenAI \in OpenAIWriters
    BY NewOpenAIFits DEF OpenAIOpen
  <1>2. /\ wire = <<[type |-> "role"]>> /\ NewOpenAI.started = {}
        /\ \A c \in Natives : NewOpenAI.streamed[c] = 0
    BY DEF NewOpenAI
  <1>3. \A b : Silent(wire, b)
    BY <1>2 DEF Silent, Carries
  <1>4. TextCallsWhole(wire)
    BY <1>3 DEF TextCallsWhole, Silent
  <1>5. \A c \in Natives : ChunkArguments(NewOpenAI, c)
    BY <1>2, <1>3 DEF ChunkArguments, InOrder, Silent
  <1> QED BY <1>1, <1>2, <1>3, <1>4, <1>5 DEF OpenAIArguments

LEMMA InitArguments == Init => ArgumentsInv
  BY DEF Init, ArgumentsInv, NothingSent

LEMMA BeginsArguments ==
  ASSUME StreamInv, ArgumentsInv, AnswerBegins
  PROVE  ArgumentsInv'
  <1>1. /\ phase' = "streaming" /\ request' = request /\ sent' = sent /\ listed' = listed
        /\ writer' = NewAnswer(request.api)
    BY DEF AnswerBegins, upstreamVars
  <1>2. listed = {} /\ \A c \in Natives : sent[c] = Unsent
    BY DEF AnswerBegins, ArgumentsInv, NothingSent
  <1>3. StreamedSoFar'
    <2>1. CASE request.api = "claude"
      <3>1. writer' = NewClaude
        BY <1>1, <2>1 DEF NewAnswer
      <3>2. \A c \in Natives : ClaudeSent(writer, c)'
        BY <1>1, <1>2, <3>1, NewClaudeArguments DEF ClaudeSent, Known
      <3> QED BY <1>1, <2>1, <3>1, <3>2, NewClaudeArguments DEF StreamedSoFar
    <2>2. CASE request.api = "openai"
      <3>1. writer' = NewOpenAI
        BY <1>1, <2>2 DEF NewAnswer
      <3>2. \A c \in Natives : OpenAISent(writer, c)'
        BY <1>1, <1>2, <3>1, NewOpenAIArguments DEF OpenAISent, Known
      <3> QED BY <1>1, <2>2, <3>1, <3>2, NewOpenAIArguments DEF StreamedSoFar
    <2>3. CASE request.api \notin {"claude", "openai"}
      BY <1>1, <2>3 DEF StreamedSoFar
    <2> QED BY <2>1, <2>2, <2>3
  <1> QED BY <1>1, <1>3 DEF ArgumentsInv

\* What is on the wire is right while an answer goes on.
LEMMA SoFarRight ==
  ASSUME StreamInv, ArgumentsInv
  PROVE  PiecesRight
  <1>1. CASE phase \in {"new", "opening", "starting"}
    BY <1>1 DEF StreamInv, WriterInv, PiecesRight, NewCollector
  <1>2. CASE phase \in {"streaming", "reopening"}
    <2>1. StreamedSoFar /\ writer \in OpenWriters(request.api, TRUE)
      BY <1>2 DEF ArgumentsInv, StreamInv, WriterInv, GoesOn
    <2>2. CASE request.api = "claude"
      <3>1. writer \in ClaudeArguments /\ \A c \in Natives : ClaudeSent(writer, c)
        BY <2>1, <2>2 DEF StreamedSoFar
      <3>2. \A c \in Strict : writer.streamed[c] \in {0, Full}
        BY <3>1, NativesAssumption DEF ClaudeSent
      <3> QED BY <2>2, <3>1, <3>2, ClaudeRight DEF PiecesRight
    <2>3. CASE request.api = "openai"
      <3>1. writer \in OpenAIArguments
        BY <2>1, <2>3 DEF StreamedSoFar
      <3> QED BY <2>3, <3>1, OpenAIRight DEF PiecesRight
    <2>4. CASE request.api \notin {"claude", "openai"}
      BY <2>1, <2>4 DEF OpenWriters, Collectors, PiecesRight
    <2> QED BY <2>2, <2>3, <2>4
  <1>3. CASE phase \in {"ending", "done"}
    BY <1>3 DEF ArgumentsInv
  <1>4. phase \in {"new", "opening", "starting", "streaming", "reopening", "ending", "done"}
    BY DEF StreamInv, RequestInv
  <1> QED BY <1>1, <1>2, <1>3, <1>4

\* A step to done that leaves the answer as it is.
LEMMA DoneArguments ==
  ASSUME StreamInv, ArgumentsInv, phase' = "done", writer' = writer, request' = request
  PROVE  ArgumentsInv'
  <1>1. PiecesRight
    BY SoFarRight
  <1>2. PiecesRight'
    BY <1>1 DEF PiecesRight
  <1> QED BY <1>2 DEF ArgumentsInv

LEMMA BeginArguments ==
  ASSUME StreamInv, ArgumentsInv, NEW api \in Apis, NEW pooled \in BOOLEAN, NEW thinks \in BOOLEAN,
         NEW mode, Begin(api, pooled, thinks, mode)
  PROVE  ArgumentsInv'
  <1>1. writer' = NewCollector /\ phase' \in {"opening", "done"} /\ sent' = sent /\ listed' = listed
    BY DEF Begin, StreamInv, WriterInv, upstreamVars
  <1>2. NothingSent'
    BY <1>1 DEF Begin, ArgumentsInv, NothingSent
  <1>3. PiecesRight'
    BY <1>1 DEF PiecesRight, NewCollector
  <1> QED BY <1>1, <1>2, <1>3 DEF ArgumentsInv

LEMMA OpeningArguments ==
  ASSUME ArgumentsInv, SessionOpens
  PROVE  ArgumentsInv'
  <1>1. phase = "opening" /\ phase' = "starting" /\ sent' = sent /\ listed' = listed
    BY DEF SessionOpens, upstreamVars
  <1>2. NothingSent'
    BY <1>1 DEF ArgumentsInv, NothingSent
  <1> QED BY <1>1, <1>2 DEF ArgumentsInv

LEMMA ReopensArguments ==
  ASSUME StreamInv, ArgumentsInv, Reopens
  PROVE  ArgumentsInv'
  <1>1. /\ phase' = "streaming" /\ request' = request /\ writer' = writer /\ listed' = {}
        /\ \A c \in Natives : sent'[c] = Unsent
    BY DEF Reopens
  <1>2. request.api = "openai" /\ writer \in OpenAIOpen /\ ~writer.hasToolCall /\ StreamedSoFar
    BY DEF Reopens, StreamInv, WriterInv, GoesOn, OpenWriters, ArgumentsInv
  <1>3. writer \in OpenAIArguments
    BY <1>2 DEF StreamedSoFar
  <1>4. writer.started = {} /\ ~Called(writer.wire)
    BY <1>2 DEF OpenAIOpen
  <1>5. \A c : Silent(writer.wire, c)
    BY <1>4 DEF Called, Silent, Carries
  <1>6. \A c \in Natives : writer.streamed[c] = 0
    BY <1>3, <1>4 DEF OpenAIArguments, ChunkArguments
  <1>7. \A c \in Natives : OpenAISent(writer, c)'
    BY <1>1, <1>4, <1>5, <1>6 DEF OpenAISent, Known
  <1>8. StreamedSoFar'
    BY <1>1, <1>2, <1>3, <1>7 DEF StreamedSoFar
  <1> QED BY <1>1, <1>8 DEF ArgumentsInv

\* A step that changes nothing the pieces depend on.
LEMMA SameArguments ==
  ASSUME ArgumentsInv, phase' = phase, request' = request, writer' = writer, sent' = sent,
         listed' = listed
  PROVE  ArgumentsInv'
  <1>1. StreamedSoFar => StreamedSoFar'
    BY DEF StreamedSoFar, ClaudeSent, OpenAISent, Known
  <1>2. (PiecesRight => PiecesRight') /\ (PiecesWhole => PiecesWhole') /\ (NothingSent => NothingSent')
    BY DEF PiecesRight, PiecesWhole, NothingSent, ClaudeWhole, CutIn, OpenAIWhole, PartSent
  <1> QED BY <1>1, <1>2 DEF ArgumentsInv

-----------------------------------------------------------------------------
(* Events of the upstream answer.                                          *)

LEMMA Spoken ==
  ASSUME StreamInv, NEW events \in Seq(Utterances(request.thinks))
  PROVE  /\ events \in Seq(Utterances(TRUE))
         /\ request.api = "openai" => events \in Seq(Utterances(FALSE))
  <1>1. request.thinks \in BOOLEAN /\ (request.thinks => request.api = "claude")
    BY DEF StreamInv, RequestInv
  <1>2. CASE request.thinks
    <2>1. Utterances(request.thinks) = Utterances(TRUE)
      BY <1>2 DEF Utterances
    <2> QED BY <1>1, <1>2, <2>1, Zenon
  <1>3. CASE ~request.thinks
    <2>1. Utterances(request.thinks) = Utterances(FALSE) /\ Utterances(FALSE) \subseteq Utterances(TRUE)
      BY <1>3 DEF Utterances
    <2> DEFINE E == Utterances(request.thinks)
               F == Utterances(FALSE)
               T == Utterances(TRUE)
    <2>2. E = F /\ F \subseteq T /\ events \in Seq(E)
      BY <2>1
    <2> HIDE DEF E, F, T
    <2>3. events \in Seq(F) /\ events \in Seq(T)
      BY <2>2
    <2> QED BY <2>3 DEF F, T
  <1> QED BY <1>1, <1>2, <1>3

\* The calls D are listed, or none is.
LEMMA ClaudeAdvances ==
  ASSUME StreamedSoFar, request.api = "claude", request' = request,
         NEW D \in SUBSET Natives, writer' \in ClaudeAfter(writer, D),
         sent' = sent, listed' = listed \cup D
  PROVE  StreamedSoFar'
  <1>1. ASSUME NEW c \in Natives PROVE ClaudeSent(writer, c)'
    <2>1. ClaudeSent(writer, c)
      BY DEF StreamedSoFar
    <2>2. IF c \in D
          THEN \/ writer'.streamed[c] \in {0, Full}
               \/ c \in Respelled /\ writer'.streamed[c] = writer.streamed[c]
          ELSE writer'.streamed[c] = writer.streamed[c]
      BY DEF ClaudeAfter
    <2> QED BY <2>1, <2>2 DEF ClaudeSent, Known
  <1>2. writer' \in ClaudeArguments
    BY DEF ClaudeAfter
  <1> QED BY <1>1, <1>2 DEF StreamedSoFar

LEMMA OpenAIAdvances ==
  ASSUME StreamedSoFar, request.api = "openai", request' = request,
         NEW D \in SUBSET Natives, writer' \in OpenAIAfter(writer, D),
         sent' = sent, listed' = listed \cup D,
         \A c \in D : c \notin listed
  PROVE  StreamedSoFar'
  <1>1. /\ writer' \in OpenAIArguments /\ writer'.started = writer.started /\ writer'.junk = writer.junk
    BY DEF OpenAIAfter
  <1>2. ASSUME NEW c \in Natives PROVE OpenAISent(writer, c)'
    <2>1. OpenAISent(writer, c)
      BY DEF StreamedSoFar
    <2>2. CASE c \notin D
      <3>1. /\ writer'.streamed[c] = writer.streamed[c] /\ (c \in listed' <=> c \in listed)
            /\ Silent(writer.wire, c) => Silent(writer'.wire, c)
        BY <2>2 DEF OpenAIAfter
      <3> QED BY <1>1, <2>1, <3>1 DEF OpenAISent, Known
    <2>3. CASE c \in D
      <3>1. c \in listed' /\ c \notin listed
        BY <2>3
      <3>2. CASE c \in writer.started
        <4>1. \/ writer'.streamed[c] = Full \/ c \in writer.junk
              \/ c \in Respelled /\ writer.streamed[c] > 0 /\ writer'.streamed[c] = writer.streamed[c]
          BY <2>3, <3>2 DEF OpenAIAfter
        <4>2. c \in NamedEach => writer.streamed[c] = Known(c)
          BY <2>1, <3>1 DEF OpenAISent
        <4>3. Known(c)' = Known(c)
          BY DEF Known
        <4> QED BY <1>1, <3>1, <4>1, <4>2, <4>3 DEF OpenAISent
      <3>3. CASE c \notin writer.started
        BY <1>1, <3>1, <3>3 DEF OpenAISent
      <3> QED BY <3>2, <3>3
    <2> QED BY <2>2, <2>3
  <1> QED BY <1>1, <1>2 DEF StreamedSoFar

LEMMA Streams ==
  ASSUME StreamInv, ArgumentsInv, Arrives
  PROVE  /\ request' = request /\ StreamedSoFar
         /\ StreamedSoFar' => ArgumentsInv'
  <1>1. phase = "streaming" /\ phase' = phase /\ request' = request
    BY DEF Arrives
  <1> QED BY <1>1 DEF ArgumentsInv

LEMMA ChunkArgumentsStay ==
  ASSUME StreamInv, ArgumentsInv, NEW text \in Texts, Chunk(text)
  PROVE  ArgumentsInv'
  <1> DEFINE p == Read(parser, text, request.tools, request.thinks)
  <1>1. Arrives /\ sent' = sent /\ listed' = listed
    BY DEF Chunk
  <1>2. request' = request /\ StreamedSoFar /\ (StreamedSoFar' => ArgumentsInv')
    BY <1>1, Streams
  <1>3. /\ request.tools \in BOOLEAN /\ request.thinks \in BOOLEAN
        /\ parser \in Parsers(request.tools, request.thinks) /\ text \in Seq(Lexemes)
    BY StreamAssumption DEF StreamInv, RequestInv, ParserInv
  <1>4. \E events \in Seq(Utterances(request.thinks)) : writer' = Forwarded(writer, events)
    <2>1. CASE Parses
      <3>1. p \in Parsers(request.tools, request.thinks)
        BY <1>3, ReadFits
      <3>2. writer' = Forwarded(writer, p.events)
        BY <2>1 DEF Chunk
      <3> HIDE DEF p
      <3>3. p.events \in Seq(Utterances(request.thinks))
        BY <3>1 DEF Parsers, ParserRecords
      <3> QED BY <3>2, <3>3
    <2>2. CASE ~Parses
      <3>1. writer' = Forwarded(writer, <<Text(text)>>)
        BY <2>2 DEF Chunk
      <3>2. Text(text) \in Utterances(request.thinks)
        BY <1>3 DEF Text, Utterances
      <3>3. <<Text(text)>> \in Seq(Utterances(request.thinks))
        BY <3>2
      <3> QED BY <3>1, <3>3
    <2> QED BY <2>1, <2>2
  <1>5. PICK events \in Seq(Utterances(request.thinks)) : writer' = Forwarded(writer, events)
    BY <1>4
  <1>6. /\ events \in Seq(Utterances(TRUE))
        /\ request.api = "openai" => events \in Seq(Utterances(FALSE))
    BY Spoken
  <1>7. listed' = listed \cup {} /\ {} \in SUBSET Natives
    BY <1>1
  <1>8. CASE request.api = "claude"
    <2>1. writer' \in ClaudeAfter(writer, {})
      BY <1>2, <1>5, <1>6, <1>8, ClaudeForwards DEF StreamedSoFar
    <2> QED BY <1>1, <1>2, <1>7, <1>8, <2>1, ClaudeAdvances
  <1>9. CASE request.api = "openai"
    <2>1. writer' \in OpenAIAfter(writer, {})
      BY <1>2, <1>5, <1>6, <1>9, OpenAIForwards DEF StreamedSoFar
    <2> QED BY <1>1, <1>2, <1>7, <1>9, <2>1, OpenAIAdvances
  <1>10. CASE request.api \notin {"claude", "openai"}
    BY <1>2, <1>10 DEF StreamedSoFar
  <1> QED BY <1>8, <1>9, <1>10

LEMMA ListedArguments ==
  ASSUME StreamInv, ArgumentsInv, NEW cs \in Listings, IsInjective(cs), NEW broken \in SUBSET Strict,
         Listed(cs, broken)
  PROVE  ArgumentsInv'
  <1> DEFINE p == FlushText(parser)
             D == Range(cs)
             all == p.events \o [i \in DOMAIN cs |-> Native(cs[i], broken)]
  <1>1. /\ Arrives /\ sent' = sent /\ listed' = listed \cup D
        /\ \A c \in broken : sent[c] = Unsent
        /\ \A c \in D : c \notin listed
    BY DEF Listed
  <1>2. request' = request /\ StreamedSoFar /\ (StreamedSoFar' => ArgumentsInv')
    BY <1>1, Streams
  <1>3. /\ request.tools \in BOOLEAN /\ request.thinks \in BOOLEAN
        /\ parser \in Parsers(request.tools, request.thinks)
    BY DEF StreamInv, RequestInv, ParserInv
  <1>4. p \in Parsers(request.tools, request.thinks)
    BY <1>3, FlushTextFits
  <1>5. request.api # "claude_json" => writer' = Forwarded(writer, all)
    BY DEF Listed
  <1>6. cs \in Seq(Natives)
    <2>1. \/ cs = <<>>
          \/ \E c \in Natives : cs = <<c>>
          \/ \E c, d \in Natives : cs = <<c, d>>
      BY DEF Listings
    <2>2. /\ <<>> \in Seq(Natives) /\ \A c \in Natives : <<c>> \in Seq(Natives)
      OBVIOUS
    <2>3. \A c, d \in Natives : <<c, d>> \in Seq(Natives)
      OBVIOUS
    <2> QED BY <2>1, <2>2, <2>3
  <1>7. D \in SUBSET Natives
    BY <1>6 DEF Range
  <1> HIDE DEF p
  <1>8. p.events \in Seq(Utterances(request.thinks))
    BY <1>4 DEF Parsers, ParserRecords
  <1>9. /\ p.events \in Seq(Utterances(TRUE))
        /\ request.api = "openai" => p.events \in Seq(Utterances(FALSE))
    BY <1>8, Spoken
  <1> HIDE DEF D
  <1>10. CASE request.api = "claude"
    <2>1. writer \in ClaudeArguments /\ \A c \in Natives : ClaudeSent(writer, c)
      BY <1>2, <1>10 DEF StreamedSoFar
    <2>2. ClaudeListable(writer, cs, broken)
      <3>1. \A c \in D : c \in broken => writer.streamed[c] \in {0, Full}
        BY <1>1, <1>7, <2>1 DEF ClaudeSent, Known
      <3> QED BY <3>1 DEF ClaudeListable, D
    <2>3. writer' \in ClaudeAfter(writer, D)
      BY <1>5, <1>6, <1>9, <1>10, <2>1, <2>2, ClaudeListing, Zenon DEF D
    <2> QED BY <1>1, <1>2, <1>7, <1>10, <2>3, ClaudeAdvances
  <1>11. CASE request.api = "openai"
    <2>1. writer \in OpenAIArguments /\ \A c \in Natives : OpenAISent(writer, c)
      BY <1>2, <1>11 DEF StreamedSoFar
    <2>2. OpenAIListable(writer, cs, broken)
      <3>1. \A c \in D : /\ c \in writer.started \/ Silent(writer.wire, c)
                         /\ c \in broken => c \notin writer.started
        BY <1>1, <1>7, <2>1 DEF OpenAISent
      <3> QED BY <3>1 DEF OpenAIListable, D
    <2>3. writer' \in OpenAIAfter(writer, D)
      BY <1>5, <1>6, <1>9, <1>11, <2>1, <2>2, OpenAIListing, Zenon DEF D
    <2> QED BY <1>1, <1>2, <1>7, <1>11, <2>3, OpenAIAdvances
  <1>12. CASE request.api \notin {"claude", "openai"}
    BY <1>2, <1>12 DEF StreamedSoFar
  <1> QED BY <1>10, <1>11, <1>12

LEMMA DeltaArgumentsStay ==
  ASSUME StreamInv, ArgumentsInv, NEW c \in Natives, NEW to \in 0 .. Full, Delta(c, to)
  PROVE  ArgumentsInv'
  <1>1. /\ Arrives /\ sent' = [sent EXCEPT ![c] = to] /\ listed' = listed
        /\ c \notin listed /\ to >= sent[c]
    BY DEF Delta
  <1>2. request' = request /\ StreamedSoFar /\ (StreamedSoFar' => ArgumentsInv')
    BY <1>1, Streams
  <1>3. /\ sent \in [Natives -> Unsent .. Full] /\ sent'[c] = to /\ sent'[c] # Unsent
        /\ \A a \in Natives \ {c} : sent'[a] = sent[a]
    BY <1>1 DEF StreamInv, CountInv, Unsent
  <1>4. Known(c) \in 0 .. to /\ Known(c)' = to /\ \A a \in Natives \ {c} : Known(a)' = Known(a)
    <2>1. sent[c] \in Unsent .. Full
      BY <1>3
    <2>2. Known(c) \in 0 .. to
      BY <1>1, <2>1 DEF Known, Unsent, Full
    <2> QED BY <1>3, <2>2 DEF Known
  <1>5. CASE request.api = "claude"
    <2>1. writer \in ClaudeArguments /\ \A a \in Natives : ClaudeSent(writer, a)
      BY <1>2, <1>5 DEF StreamedSoFar
    <2>2. writer.streamed \in [Natives -> 0 .. Full]
      BY <2>1 DEF ClaudeArguments, ClaudeWriters
    <2>3. CASE Releasable(c, to)
      <3>1. writer' = ClaudeDelta(writer, c, to)
        BY <1>5, <2>3 DEF Delta
      <3>2. to >= writer.streamed[c] /\ (c \in Strict => to = Full)
        <4>1. CASE c \in Strict
          BY <2>2, <2>3, <4>1 DEF Releasable
        <4>2. CASE c \notin Strict
          <5>1. writer.streamed[c] = Known(c)
            BY <1>1, <2>1, <4>2 DEF ClaudeSent
          <5> QED BY <1>4, <4>2, <5>1
        <4> QED BY <4>1, <4>2
      <3>3. writer' \in ClaudeArguments /\ writer'.streamed = [writer.streamed EXCEPT ![c] = to]
        BY <2>1, <3>1, <3>2, DeltaArguments
      <3>4. ASSUME NEW a \in Natives PROVE ClaudeSent(writer, a)'
        <4>1. CASE a = c
          BY <1>1, <1>4, <2>2, <3>2, <3>3, <4>1 DEF ClaudeSent
        <4>2. CASE a # c
          BY <1>1, <1>4, <2>1, <2>2, <3>3, <4>2 DEF ClaudeSent
        <4> QED BY <4>1, <4>2
      <3> QED BY <1>2, <1>5, <3>3, <3>4 DEF StreamedSoFar
    <2>4. CASE ~Releasable(c, to)
      <3>1. writer' = writer /\ c \in Strict
        BY <1>5, <2>4 DEF Delta, Releasable
      <3>2. \A a \in Natives : ClaudeSent(writer, a)'
        BY <1>1, <1>4, <2>1, <3>1 DEF ClaudeSent
      <3> QED BY <1>2, <1>5, <2>1, <3>1, <3>2 DEF StreamedSoFar
    <2> QED BY <2>3, <2>4
  <1>6. CASE request.api = "openai"
    <2>1. writer \in OpenAIArguments /\ \A a \in Natives : OpenAISent(writer, a)
      BY <1>2, <1>6 DEF StreamedSoFar
    <2>2. writer.streamed \in [Natives -> 0 .. Full] /\ writer.started \subseteq Natives
      BY <2>1 DEF OpenAIArguments, OpenAIWriters
    <2>3. CASE Names(c)
      <3>1. writer' = OpenAIDelta(writer, c, to)
        BY <1>6, <2>3 DEF Delta
      <3>2. c \in writer.started \/ Silent(writer.wire, c)
        BY <1>1, <2>1 DEF OpenAISent
      <3>3. /\ writer' \in OpenAIArguments /\ OthersStay(writer, writer', c)
            /\ writer'.started = writer.started \cup {c} /\ writer'.junk = writer.junk
            /\ writer'.streamed = [writer.streamed EXCEPT ![c] = to]
        BY <2>1, <3>1, <3>2, OpenAIDeltaArguments
      <3>4. ASSUME NEW a \in Natives PROVE OpenAISent(writer, a)'
        <4>1. CASE a = c
          <5>1. writer'.streamed[c] = to /\ c \in writer'.started
            BY <2>2, <3>3
          <5>2. to <= Known(c)'
            BY <1>4
          <5> QED BY <1>1, <1>3, <1>4, <4>1, <5>1, <5>2 DEF OpenAISent
        <4>2. CASE a # c
          <5>1. /\ writer'.streamed[a] = writer.streamed[a]
                /\ Silent(writer.wire, a) => Silent(writer'.wire, a)
            BY <3>3, <4>2 DEF OthersStay
          <5>2. a \in writer'.started <=> a \in writer.started
            BY <3>3, <4>2
          <5>3. OpenAISent(writer, a) /\ sent'[a] = sent[a] /\ Known(a)' = Known(a)
            BY <1>3, <1>4, <2>1, <4>2
          <5> QED BY <1>1, <3>3, <5>1, <5>2, <5>3 DEF OpenAISent
        <4> QED BY <4>1, <4>2
      <3> QED BY <1>2, <1>6, <3>3, <3>4 DEF StreamedSoFar
    <2>4. CASE ~Names(c)
      <3>1. writer' = writer /\ c \notin NamedEach
        BY <1>6, <2>4 DEF Delta, Names
      <3>2. ASSUME NEW a \in Natives PROVE OpenAISent(writer, a)'
        <4>1. CASE a = c
          <5>1. OpenAISent(writer, c) /\ writer.streamed[c] \in Int
            BY <2>1, <2>2
          <5>2. writer.streamed[c] <= Known(c)'
            BY <1>1, <1>4, <5>1 DEF OpenAISent
          <5> QED BY <1>1, <1>3, <3>1, <4>1, <5>1, <5>2 DEF OpenAISent
        <4>2. CASE a # c
          <5>1. OpenAISent(writer, a) /\ sent'[a] = sent[a] /\ Known(a)' = Known(a)
            BY <1>3, <1>4, <2>1, <4>2
          <5> QED BY <1>1, <3>1, <5>1 DEF OpenAISent
        <4> QED BY <4>1, <4>2
      <3> QED BY <1>2, <1>6, <2>1, <3>1, <3>2 DEF StreamedSoFar
    <2> QED BY <2>3, <2>4
  <1>7. CASE request.api \notin {"claude", "openai"}
    BY <1>2, <1>7 DEF StreamedSoFar
  <1> QED BY <1>5, <1>6, <1>7

LEMMA EmptyObjectArguments ==
  ASSUME StreamInv, ArgumentsInv, NEW c \in Natives, EmptyObject(c)
  PROVE  ArgumentsInv'
  <1>1. /\ Arrives /\ sent' = [sent EXCEPT ![c] = 0] /\ listed' = listed
        /\ c \notin listed /\ c \in Strict /\ sent[c] <= 0
    BY DEF EmptyObject
  <1>2. request' = request /\ StreamedSoFar /\ (StreamedSoFar' => ArgumentsInv')
    BY <1>1, Streams
  <1>3. /\ sent \in [Natives -> Unsent .. Full] /\ sent'[c] = 0 /\ sent'[c] # Unsent
        /\ \A a \in Natives \ {c} : sent'[a] = sent[a]
    BY <1>1 DEF StreamInv, CountInv, Unsent
  <1>4. Known(c) = 0 /\ Known(c)' = 0 /\ \A a \in Natives \ {c} : Known(a)' = Known(a)
    <2>1. sent[c] \in Unsent .. Full
      BY <1>3
    <2>2. Known(c) = 0
      BY <1>1, <2>1 DEF Known, Unsent, Full
    <2> QED BY <1>3, <2>2 DEF Known
  <1>5. CASE request.api = "claude"
    <2>1. writer \in ClaudeArguments /\ \A a \in Natives : ClaudeSent(writer, a)
      BY <1>2, <1>5 DEF StreamedSoFar
    <2>2. writer' = writer
      BY <1>5 DEF EmptyObject
    <2>3. \A a \in Natives : ClaudeSent(writer, a)'
      BY <1>1, <1>4, <2>1, <2>2 DEF ClaudeSent
    <2> QED BY <1>2, <1>5, <2>1, <2>2, <2>3 DEF StreamedSoFar
  <1>6. CASE request.api = "openai"
    <2>1. writer \in OpenAIArguments /\ \A a \in Natives : OpenAISent(writer, a)
      BY <1>2, <1>6 DEF StreamedSoFar
    <2>2. writer.streamed \in [Natives -> 0 .. Full] /\ writer.started \subseteq Natives
      BY <2>1 DEF OpenAIArguments, OpenAIWriters
    <2>3. writer.streamed[c] = 0 /\ (c \in writer.started \/ Silent(writer.wire, c))
      <3>1. OpenAISent(writer, c) /\ writer.streamed[c] \in 0 .. Full
        BY <2>1, <2>2
      <3> QED BY <1>1, <1>4, <3>1 DEF OpenAISent
    <2>4. ASSUME NEW a \in Natives \ {c}, writer'.streamed[a] = writer.streamed[a],
                 a \in writer'.started <=> a \in writer.started,
                 a \in writer.junk => a \in writer'.junk,
                 Silent(writer.wire, a) => Silent(writer'.wire, a)
          PROVE  OpenAISent(writer, a)'
      <3>1. OpenAISent(writer, a) /\ sent'[a] = sent[a] /\ Known(a)' = Known(a)
        BY <1>3, <1>4, <2>1
      <3> QED BY <1>1, <2>4, <3>1 DEF OpenAISent
    <2>5. CASE Names(c)
      <3>1. writer' = OpenAIJunk(writer, c)
        BY <1>6, <2>5 DEF EmptyObject
      <3>2. /\ writer' \in OpenAIArguments /\ OthersStay(writer, writer', c)
            /\ writer'.started = writer.started \cup {c} /\ writer'.junk = writer.junk \cup {c}
            /\ writer'.streamed = writer.streamed
        BY <2>1, <2>3, <3>1, OpenAIJunkArguments
      <3>3. ASSUME NEW a \in Natives PROVE OpenAISent(writer, a)'
        <4>1. CASE a = c
          BY <1>1, <1>3, <1>4, <2>3, <3>2, <4>1 DEF OpenAISent
        <4>2. CASE a # c
          BY <2>4, <3>2, <4>2 DEF OthersStay
        <4> QED BY <4>1, <4>2
      <3> QED BY <1>2, <1>6, <3>2, <3>3 DEF StreamedSoFar
    <2>6. CASE ~Names(c)
      <3>1. writer' = writer
        BY <2>6 DEF EmptyObject
      <3>2. ASSUME NEW a \in Natives PROVE OpenAISent(writer, a)'
        <4>1. CASE a = c
          BY <1>1, <1>3, <1>4, <2>3, <3>1, <4>1 DEF OpenAISent
        <4>2. CASE a # c
          BY <2>4, <3>1, <4>2
        <4> QED BY <4>1, <4>2
      <3> QED BY <1>2, <1>6, <2>1, <3>1, <3>2 DEF StreamedSoFar
    <2> QED BY <2>5, <2>6
  <1>7. CASE request.api \notin {"claude", "openai"}
    BY <1>2, <1>7 DEF StreamedSoFar
  <1> QED BY <1>5, <1>6, <1>7

LEMMA UpstreamArguments ==
  ASSUME StreamInv, ArgumentsInv, UpstreamEvent
  PROVE  ArgumentsInv'
  <1>1. CASE \E text \in Texts : Chunk(text)
    BY <1>1, ChunkArgumentsStay
  <1>2. CASE \E c \in Natives : EmptyObject(c) \/ \E to \in 0 .. Full : Delta(c, to)
    BY <1>2, EmptyObjectArguments, DeltaArgumentsStay
  <1>3. CASE \E cs \in Listings, broken \in SUBSET Strict :
               IsInjective(cs) /\ broken \subseteq Range(cs) /\ Listed(cs, broken)
    BY <1>3, ListedArguments
  <1> QED BY <1>1, <1>2, <1>3 DEF UpstreamEvent

-----------------------------------------------------------------------------
(* The end of an answer.                                                   *)

\* The Claude stream when its answer ends or fails: `last` with its end.
LEMMA ClaudeEnds ==
  ASSUME StreamInv, StreamedSoFar, request.api = "claude"
  PROVE  \E last \in ClaudeArguments :
           /\ \A c \in Natives : last.streamed[c] = writer.streamed[c]
           /\ Hushed(last.wire, Forwarded(writer, Rest).wire)
           /\ Forwarded(writer, Rest).block = last.block
  <1>1. writer \in ClaudeArguments
    BY DEF StreamedSoFar
  <1>2. PICK events \in Seq(Utterances(request.thinks)) : Rest = events \o <<End>>
    BY Leftovers DEF StreamInv, RequestInv, ParserInv
  <1>3. PICK last \in ClaudeAfter(writer, {}) : Forwarded(writer, Rest) = ClaudeFinish(last)
    BY <1>1, <1>2, Spoken, ClaudeRest
  <1>4. last \in ClaudeArguments /\ last \in ClaudeWriters
        /\ \A c \in Natives : last.streamed[c] = writer.streamed[c]
    BY DEF ClaudeAfter, ClaudeArguments
  <1>5. ClaudeFinish(last).block = last.block /\ Hushed(last.wire, ClaudeFinish(last).wire)
    BY <1>4, FinishHushed
  <1> QED BY <1>3, <1>4, <1>5

LEMMA OpenAIEnds ==
  ASSUME StreamInv, StreamedSoFar, request.api = "openai"
  PROVE  Forwarded(writer, Rest) \in OpenAIAfter(writer, {})
  <1>1. writer \in OpenAIArguments
    BY DEF StreamedSoFar
  <1>2. PICK events \in Seq(Utterances(request.thinks)) : Rest = events
    BY Leftovers DEF StreamInv, RequestInv, ParserInv
  <1>3. events \in Seq(Utterances(FALSE))
    BY Spoken
  <1> QED BY <1>1, <1>2, <1>3, OpenAIForwards

LEMMA EndsArguments ==
  ASSUME StreamInv, ArgumentsInv, NEW other \in BOOLEAN, Ends(other)
  PROVE  ArgumentsInv'
  <1> DEFINE last == IF Parses \/ request.api = "openai" THEN Forwarded(writer, Rest) ELSE writer
  <1>1. /\ AllListed /\ request' = request /\ sent' = sent /\ listed' = listed /\ StreamedSoFar
        /\ writer \in OpenWriters(request.api, TRUE) /\ request.api \in Apis
    BY DEF Ends, upstreamVars, ArgumentsInv, StreamInv, RequestInv, WriterInv, GoesOn
  <1>2. \/ /\ Retries /\ writer' = [last EXCEPT !.attempt = 2] /\ phase' = "reopening"
        \/ /\ writer' = IF request.api = "openai" THEN Send(OpenAIFinish(last), <<Done>>) ELSE last
           /\ phase' = "ending"
    BY DEF Ends
  <1>3. \A c \in Natives : c \notin listed => sent[c] = Unsent
    BY <1>1 DEF AllListed
  <1>7. ASSUME NEW c \in Respelled PROVE Known(c) \in {0, Full} \/ c \in PartSent
    <2>1. sent[c] \in Unsent .. Full
      BY NativesAssumption DEF StreamInv, CountInv
    <2> QED BY <2>1 DEF Known, PartSent, Unsent, Full
  <1>8. PartSent' = PartSent
    BY <1>1 DEF PartSent
  <1>4. CASE request.api = "claude"
    <2>1. writer' = Forwarded(writer, Rest) /\ phase' = "ending"
      BY <1>2, <1>4 DEF Parses, Retries
    <2>2. PICK v \in ClaudeArguments :
            /\ \A c \in Natives : v.streamed[c] = writer.streamed[c]
            /\ Hushed(v.wire, Forwarded(writer, Rest).wire)
            /\ Forwarded(writer, Rest).block = v.block
      BY <1>1, <1>4, ClaudeEnds
    <2>3. ASSUME NEW c \in Natives PROVE v.streamed[c] \in {0, Full} \/ c \in PartSent \ Strict
      <3>1. ClaudeSent(writer, c)
        BY <1>1, <1>4 DEF StreamedSoFar
      <3>2. CASE c \in Respelled \ Strict /\ writer.streamed[c] = Known(c)
        BY <1>7, <2>2, <3>2
      <3> QED BY <1>3, <2>2, <3>1, <3>2 DEF ClaudeSent, Known
    <2>4. ClaudePieces(v) /\ ClaudeWhole(v)
      BY <2>3, NativesAssumption, ClaudeRight, ClaudeComplete
    <2>5. ClaudePieces(writer') /\ ClaudeWhole(writer')
      BY <2>1, <2>2, <2>4, ClaudeHushed
    <2>6. PiecesRight' /\ PiecesWhole'
      BY <1>1, <1>4, <1>8, <2>5 DEF PiecesRight, PiecesWhole, ClaudeWhole, CutIn
    <2> QED BY <2>1, <2>6 DEF ArgumentsInv
  <1>5. CASE request.api = "openai"
    <2>1. last = Forwarded(writer, Rest)
      BY <1>5
    <2> HIDE DEF last
    <2>2. last \in OpenAIAfter(writer, {})
      BY <1>1, <1>5, <2>1, OpenAIEnds
    <2>3. last \in OpenAIArguments /\ last \in OpenAIWriters
      BY <2>2 DEF OpenAIAfter, OpenAIArguments
    <2>4. CASE /\ Retries /\ writer' = [last EXCEPT !.attempt = 2] /\ phase' = "reopening"
      <3>1. ~HasOutput(last)
        BY <2>1, <2>4 DEF Retries
      <3>2. writer' \in OpenAIWriters /\ Softly(last, writer')
        <4>1. writer' \in OpenAIWriters
          BY <2>3, <2>4 DEF OpenAIWriters
        <4>2. /\ writer'.started = last.started /\ writer'.junk = last.junk
              /\ writer'.streamed = last.streamed /\ writer'.wire = last.wire
          BY <2>3, <2>4 DEF OpenAIWriters
        <4> QED BY <4>1, <4>2, SoftlySame
      <3>3. ~writer'.hasToolCall
        BY <2>3, <2>4, <3>1 DEF OpenAIWriters, HasOutput
      <3>4. writer' \in OpenAIAfter(writer, {})
        <4>1. writer' \in OpenAIArguments
          BY <2>3, <3>2, SoftlyKeeps
        <4>2. \A c \in Natives : Stays(last.wire, writer'.wire, c)
          BY <3>2, Zenon DEF Softly, Hushed
        <4> QED BY <2>2, <3>2, <4>1, <4>2 DEF OpenAIAfter, Softly, Stays
      <3>5. listed' = listed \cup {} /\ {} \in SUBSET Natives
        BY <1>1
      <3>6. StreamedSoFar'
        BY <1>1, <1>5, <3>4, <3>5, OpenAIAdvances
      <3> QED BY <2>4, <3>3, <3>6 DEF ArgumentsInv
    <2>5. CASE /\ writer' = IF request.api = "openai" THEN Send(OpenAIFinish(last), <<Done>>) ELSE last
               /\ phase' = "ending"
      <3>1. writer' = Send(OpenAIFinish(last), <<Done>>)
        BY <1>5, <2>5
      <3>2. writer'.junk = last.junk /\ Hushed(last.wire, writer'.wire)
        BY <2>3, <3>1, OpenAIFinishHushed
      <3>3. \A c \in last.started \ (last.junk \cup (Respelled \ NamedEach) \cup PartSent) :
              last.streamed[c] = Full
        <4>1. last.started = writer.started /\ last.junk = writer.junk /\ last.started \subseteq Natives
              /\ \A c \in Natives : last.streamed[c] = writer.streamed[c]
          BY <2>2, <2>3 DEF OpenAIAfter, OpenAIWriters
        <4>2. \A c \in Natives : OpenAISent(writer, c)
          BY <1>1, <1>5 DEF StreamedSoFar
        <4>3. ASSUME NEW c \in last.started \ (last.junk \cup (Respelled \ NamedEach) \cup PartSent)
              PROVE  last.streamed[c] = Full
          <5>1. OpenAISent(writer, c) /\ c \in writer.started /\ c \in Natives
            BY <4>1, <4>2
          <5>2. c \in listed
            BY <1>3, <5>1 DEF OpenAISent
          <5>3. CASE c \in Respelled /\ writer.streamed[c] > 0 /\ writer.streamed[c] = Known(c)
            BY <1>7, <4>1, <5>1, <5>3
          <5> QED BY <4>1, <5>1, <5>2, <5>3 DEF OpenAISent
        <4> QED BY <4>3
      <3>4. OpenAIPieces(last) /\ OpenAIWhole(last)
        BY <2>3, <3>3, OpenAIRight, OpenAIComplete
      <3>5. OpenAIPieces(writer') /\ OpenAIWhole(writer')
        BY <3>2, <3>4, OpenAIHushed
      <3>6. PiecesRight' /\ PiecesWhole'
        BY <1>1, <1>5, <1>8, <3>5 DEF PiecesRight, PiecesWhole, OpenAIWhole
      <3> QED BY <2>5, <3>6 DEF ArgumentsInv
    <2> QED BY <1>2, <2>4, <2>5 DEF last
  <1>6. CASE request.api \notin {"claude", "openai"}
    <2>1. phase' = "ending" /\ writer' = last
      BY <1>2, <1>6 DEF Retries
    <2>2. Forwarded(writer, Rest) \in OpenWriters(request.api, TRUE)
      BY <1>1, <1>6, LastFits
    <2>3. writer' \in OpenWriters(request.api, TRUE)
      BY <1>1, <2>1, <2>2
    <2>4. writer'.wire = <<>>
      BY <1>6, <2>3 DEF OpenWriters, Collectors
    <2> QED BY <2>1, <2>4 DEF ArgumentsInv, PiecesRight, PiecesWhole
  <1> QED BY <1>4, <1>5, <1>6

LEMMA FailsArguments ==
  ASSUME StreamInv, ArgumentsInv, NEW worded \in BOOLEAN, Fails(worded)
  PROVE  ArgumentsInv'
  <1>1. phase' = "done" /\ request' = request /\ StreamedSoFar
    BY DEF Fails, ArgumentsInv
  <1>2. CASE request.api = "claude"
    <2>1. writer' = Forwarded(writer, Rest)
      BY <1>2 DEF Fails
    <2>2. PICK v \in ClaudeArguments :
            /\ \A c \in Natives : v.streamed[c] = writer.streamed[c]
            /\ Hushed(v.wire, Forwarded(writer, Rest).wire)
            /\ Forwarded(writer, Rest).block = v.block
      BY <1>1, <1>2, ClaudeEnds
    <2>3. \A c \in Strict : v.streamed[c] \in {0, Full}
      <3>1. \A c \in Natives : ClaudeSent(writer, c)
        BY <1>1, <1>2 DEF StreamedSoFar
      <3> QED BY <2>2, <3>1, NativesAssumption DEF ClaudeSent
    <2>4. ClaudePieces(v)
      BY <2>3, ClaudeRight
    <2>5. ClaudePieces(writer')
      BY <2>1, <2>2, <2>4, ClaudeHushed
    <2> QED BY <1>1, <1>2, <2>5 DEF ArgumentsInv, PiecesRight
  <1>3. CASE request.api # "claude"
    <2>1. writer' = writer
      BY <1>3 DEF Fails
    <2> QED BY <1>1, <2>1, DoneArguments
  <1> QED BY <1>2, <1>3

LEMMA ArgumentsStep == StreamInv /\ ArgumentsInv /\ [Next]_vars => ArgumentsInv'
  <1> SUFFICES ASSUME StreamInv, ArgumentsInv, [Next]_vars PROVE ArgumentsInv'
    OBVIOUS
  <1>1. CASE Requested
    BY <1>1, BeginArguments DEF Requested
  <1>2. CASE SessionOpens
    BY <1>2, OpeningArguments
  <1>3. CASE SessionFails
    BY <1>3, DoneArguments DEF SessionFails
  <1>4. CASE UpstreamEvent
    BY <1>4, UpstreamArguments
  <1>5. CASE \E other \in BOOLEAN : Ends(other)
    BY <1>5, EndsArguments
  <1>6. CASE Reopens
    BY <1>6, ReopensArguments
  <1>7. CASE Reported
    BY <1>7, DoneArguments DEF Reported
  <1>8. CASE Downgrades
    BY <1>8, SameArguments DEF Downgrades, upstreamVars
  <1>9. CASE \E worded \in BOOLEAN : Fails(worded)
    BY <1>9, FailsArguments
  <1>10. CASE ClientGone
    BY <1>10, DoneArguments DEF ClientGone
  <1>11. CASE UNCHANGED vars
    BY <1>11, SameArguments DEF vars, upstreamVars
  <1>12. CASE AnswerBegins
    BY <1>12, BeginsArguments
  <1>13. CASE \E logged \in BOOLEAN : LeavesEarly(logged)
    BY <1>13, DoneArguments DEF LeavesEarly
  <1> QED BY <1>1, <1>2, <1>3, <1>4, <1>5, <1>6, <1>7, <1>8, <1>9, <1>10, <1>11, <1>12, <1>13 DEF Next

LEMMA ArgumentsAlways == Spec => [](StreamInv /\ ArgumentsInv)
  <1>1. StreamInv /\ ArgumentsInv /\ [Next]_vars => (StreamInv /\ ArgumentsInv)'
    BY StepKeeps, ArgumentsStep
  <1> QED BY <1>1, InitStream, InitArguments, PTL DEF Spec

-----------------------------------------------------------------------------
(* The theorems.                                                           *)

LEMMA WireNumbered ==
  ASSUME StreamInv
  PROVE  Len(Wire) \in Nat /\ DOMAIN Wire = 1 .. Len(Wire)
  <1>1. CASE Unfinished(writer.wire)
    BY <1>1 DEF Unfinished, Wire
  <1>2. CASE Finished(writer.wire, TRUE)
    <2>1. PICK body \in Seq(Lines), r \in Reasons, t \in [type : Terminal] :
            writer.wire = body \o <<r, t>>
      BY <1>2 DEF Finished
    <2> DEFINE T == Lines \cup {r, t}
    <2>2. body \in Seq(T) /\ <<r, t>> \in Seq(T)
      OBVIOUS
    <2> HIDE DEF T
    <2>3. writer.wire \in Seq(T)
      BY <2>1, <2>2
    <2> QED BY <2>3 DEF Wire
  <1> QED BY <1>1, <1>2, WriterProper DEF Proper

\* The greatest of some numbers is what the properties choose among them.
LEMMA GreatestChosen ==
  ASSUME NEW S \in SUBSET Int, NEW k \in S, \A n \in S : n <= k
  PROVE  (CHOOSE j \in S : \A n \in S : n <= j) = k
  <1>1. \A j \in S : (\A n \in S : n <= j) => j = k
    OBVIOUS
  <1> QED BY <1>1

\* Line i is a piece of b, and so are the lines that the properties call the same.
Alike(i, b) ==
  /\ Carries(Wire, i, b)
  /\ \A j \in DOMAIN Wire : Same(i, j) <=> Carries(Wire, j, b)

LEMMA OrderShown ==
  ASSUME StreamInv, NEW i \in DOMAIN Wire, NEW b, InOrder(Wire, b), Alike(i, b)
  PROVE  LET earlier == {j \in Before(i) : Same(i, j)} IN
         Wire[i].from =
           IF earlier = {} THEN 0 ELSE Wire[CHOOSE j \in earlier : \A n \in earlier : n <= j].to
  <1> DEFINE earlier == {j \in Before(i) : Same(i, j)}
  <1>1. UpToHere(Wire, i, b, Wire[i].from)
    BY DEF InOrder, Alike
  <1>2. Before(i) = 1 .. i - 1 /\ \A j \in Before(i) : j \in Int /\ j \in DOMAIN Wire
    BY WireNumbered DEF Before
  <1>3. earlier \in SUBSET Int /\ \A j \in Before(i) : j \in earlier <=> Carries(Wire, j, b)
    BY <1>2 DEF Alike
  <1>4. CASE Wire[i].from = 0 /\ \A k \in 1 .. i - 1 : ~Carries(Wire, k, b)
    <2>1. earlier = {}
      BY <1>2, <1>3, <1>4
    <2> QED BY <1>4, <2>1
  <1>5. CASE \E k \in 1 .. i - 1 : NewestOf(Wire, k, i, b) /\ Wire[k].to = Wire[i].from
    <2>1. PICK k \in 1 .. i - 1 : NewestOf(Wire, k, i, b) /\ Wire[k].to = Wire[i].from
      BY <1>5
    <2>2. k \in earlier /\ \A n \in earlier : n <= k
      BY <1>2, <1>3, <2>1 DEF NewestOf
    <2> HIDE DEF earlier
    <2>3. (CHOOSE j \in earlier : \A n \in earlier : n <= j) = k
      BY <1>3, <2>2, GreatestChosen
    <2>4. earlier # {}
      BY <2>2
    <2> QED BY <2>1, <2>3, <2>4 DEF earlier
  <1> QED BY <1>1, <1>4, <1>5 DEF UpToHere

LEMMA WholeShown ==
  ASSUME StreamInv, NEW i \in DOMAIN Wire, NEW b, Alike(i, b),
         Silent(Wire, b) \/ Reached(Wire, b, Full)
  PROVE  Whole(i)
  <1>1. Reached(Wire, b, Full)
    BY DEF Alike, Silent
  <1>2. PICK k \in 1 .. Len(Wire) + 1 - 1 : NewestOf(Wire, k, Len(Wire) + 1, b) /\ Wire[k].to = Full
    BY <1>1 DEF Reached, UpToHere, Full
  <1>3. k \in DOMAIN Wire /\ Carries(Wire, k, b)
    BY <1>2, WireNumbered DEF NewestOf
  <1> QED BY <1>2, <1>3 DEF Alike, Whole

LEMMA ClaudeAlike ==
  ASSUME request.api = "claude", ClaudePieces(writer), NEW i \in DOMAIN Wire, IsPiece(i)
  PROVE  Alike(i, Wire[i].index) /\ Wire[i].index \in Int
  <1>1. \A j \in DOMAIN Wire : "from" \in DOMAIN Wire[j] =>
          Wire[j].type = "delta" /\ Wire[j].index \in Int
    BY DEF ClaudePieces, Wire, Pieces
  <1>2. \A j \in DOMAIN Wire : IsPiece(j) <=> "from" \in DOMAIN Wire[j]
    BY <1>1 DEF IsPiece
  <1>3. \A j \in DOMAIN Wire : "from" \in DOMAIN Wire[j] => Subject(Wire[j]) = Wire[j].index
    BY <1>1 DEF Subject
  <1> QED BY <1>1, <1>2, <1>3 DEF Alike, Carries, Same

LEMMA OpenAIAlike ==
  ASSUME request.api = "openai", OpenAIPieces(writer), NEW i \in DOMAIN Wire, IsPiece(i)
  PROVE  \/ Wire[i].id \in Natives /\ Alike(i, Wire[i].id)
         \/ /\ Carries(Wire, i, "none") /\ Wire[i].from = 0 /\ Wire[i].to = Full
            /\ \A j : ~Same(i, j)
  <1>1. \A j \in DOMAIN Wire : "from" \in DOMAIN Wire[j] =>
          Wire[j].type = "tool" /\ Wire[j].id \in Natives \cup {"none"}
    BY DEF OpenAIPieces, Wire, ToolLines
  <1>2. \A j \in DOMAIN Wire : IsPiece(j) <=> "from" \in DOMAIN Wire[j]
    BY <1>1 DEF IsPiece
  <1>3. \A j \in DOMAIN Wire : "from" \in DOMAIN Wire[j] => Subject(Wire[j]) = Wire[j].id
    BY <1>1 DEF Subject
  <1>4. CASE Wire[i].id \in Natives
    BY <1>2, <1>3, <1>4 DEF Alike, Carries, Same
  <1>5. CASE Wire[i].id = "none"
    <2>1. Carries(Wire, i, "none")
      BY <1>2, <1>3, <1>5 DEF Carries
    <2>2. Wire[i].from = 0 /\ Wire[i].to = Full
      BY <2>1 DEF OpenAIPieces, TextCallsWhole, Wire
    <2>3. \A j : ~Same(i, j)
      BY <1>5, NativesAssumption DEF Same
    <2> QED BY <2>1, <2>2, <2>3
  <1> QED BY <1>1, <1>2, <1>4, <1>5

\* emit_tool_call_delta and the listing of a call, in both writers: whatever deltas came
\* and were held or ignored, a piece starts where the one before it ended.
THEOREM ArgumentsAreInOrder == Spec => []ArgumentsInOrder
  <1>1. StreamInv /\ ArgumentsInv => ArgumentsInOrder
    <2> SUFFICES ASSUME StreamInv, ArgumentsInv, NEW i \in DOMAIN Wire, IsPiece(i)
                 PROVE  LET earlier == {j \in Before(i) : Same(i, j)} IN
                        Wire[i].from =
                          IF earlier = {} THEN 0
                          ELSE Wire[CHOOSE j \in earlier : \A n \in earlier : n <= j].to
      BY DEF ArgumentsInOrder
    <2>1. PiecesRight
      BY SoFarRight
    <2>2. CASE request.api = "claude" /\ ClaudePieces(writer)
      <3>1. Alike(i, Wire[i].index) /\ Wire[i].index \in Int
        BY <2>2, ClaudeAlike
      <3>2. InOrder(Wire, Wire[i].index)
        BY <2>2, <3>1 DEF ClaudePieces, Wire
      <3> QED BY <3>1, <3>2, OrderShown
    <2>3. CASE request.api = "openai" /\ OpenAIPieces(writer)
      <3>1. CASE Wire[i].id \in Natives /\ Alike(i, Wire[i].id)
        <4>1. InOrder(Wire, Wire[i].id)
          BY <2>3, <3>1 DEF OpenAIPieces, Wire
        <4> QED BY <3>1, <4>1, OrderShown
      <3>2. CASE Wire[i].from = 0 /\ \A j : ~Same(i, j)
        BY <3>2
      <3> QED BY <2>3, <3>1, <3>2, OpenAIAlike
    <2>4. writer.wire # <<>>
      BY WireNumbered DEF Wire
    <2> QED BY <2>1, <2>2, <2>3, <2>4 DEF PiecesRight
  <1> QED BY <1>1, ArgumentsAlways, PTL

\* The same: when an answer ended well its calls are whole, but for those that a listing
\* that does not continue the deltas leaves cut short (CutBlock, CutShort), and a Claude
\* block of a call with required fields has them all, whether the answer ended or not.
THEOREM ArgumentsAreWhole == Spec => []ArgumentsWhole
  <1>1. StreamInv /\ ArgumentsInv => ArgumentsWhole
    <2> SUFFICES ASSUME StreamInv, ArgumentsInv, NEW i \in DOMAIN Wire, IsPiece(i)
                 PROVE  CASE request.api = "claude" ->
                               StrictBlock(Wire[i].index)
                                 \/ (phase = "ending" /\ ~CutBlock(Wire[i].index)) => Whole(i)
                          [] request.api = "openai" ->
                               phase = "ending" /\ Wire[i].id \notin CutShort => Whole(i)
      BY DEF ArgumentsWhole
    <2>1. PiecesRight /\ (phase = "ending" => PiecesWhole)
      BY SoFarRight DEF ArgumentsInv
    <2>2. writer.wire # <<>>
      BY WireNumbered DEF Wire
    <2>3. CASE request.api = "claude" /\ ClaudePieces(writer)
      <3>1. Alike(i, Wire[i].index) /\ Wire[i].index \in Int
        BY <2>3, ClaudeAlike
      <3>2. ASSUME StrictBlock(Wire[i].index) \/ (phase = "ending" /\ ~CutBlock(Wire[i].index))
            PROVE  Whole(i)
        <4>1. CASE phase = "ending" /\ ~CutBlock(Wire[i].index)
          <5>1. ClaudeWhole(writer)
            BY <2>1, <2>2, <2>3, <4>1 DEF PiecesWhole
          <5>2. Silent(Wire, Wire[i].index) \/ Reached(Wire, Wire[i].index, Full)
            BY <3>1, <4>1, <5>1 DEF ClaudeWhole, CutIn, CutBlock, Wire
          <5> QED BY <3>1, <5>2, WholeShown
        <4>2. CASE StrictBlock(Wire[i].index)
          <5>1. Silent(Wire, Wire[i].index) \/ Reached(Wire, Wire[i].index, Full)
            BY <2>3, <4>2 DEF StrictBlock, ClaudePieces, Wire
          <5> QED BY <3>1, <5>1, WholeShown
        <4> QED BY <3>2, <4>1, <4>2
      <3> QED BY <2>3, <3>2
    <2>4. CASE request.api = "openai" /\ OpenAIPieces(writer)
      <3>1. ASSUME phase = "ending", Wire[i].id \notin CutShort PROVE Whole(i)
        <4>1. OpenAIWhole(writer)
          BY <2>1, <2>2, <2>4, <3>1 DEF PiecesWhole
        <4>2. CASE Wire[i].id \in Natives /\ Alike(i, Wire[i].id)
          <5>1. Silent(Wire, Wire[i].id) \/ Reached(Wire, Wire[i].id, Full)
            BY <3>1, <4>1, <4>2 DEF OpenAIWhole, CutShort, Wire
          <5> QED BY <4>2, <5>1, WholeShown
        <4>3. CASE Wire[i].to = Full
          BY <4>3 DEF Whole
        <4> QED BY <2>4, <4>2, <4>3, OpenAIAlike
      <3> QED BY <2>4, <3>1
    <2> QED BY <2>1, <2>2, <2>3, <2>4 DEF PiecesRight
  <1> QED BY <1>1, ArgumentsAlways, PTL

=============================================================================
