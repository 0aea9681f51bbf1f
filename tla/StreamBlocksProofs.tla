------------------------- MODULE StreamBlocksProofs -------------------------
(***************************************************************************)
(* The blocks of the Claude stream of ChatStream, for any texts, native    *)
(* calls and number of events: indexes are handed out in order, lines      *)
(* concern blocks that are open, and an answer ends with none open but for *)
(* the thought that ThoughtLeftOpen names.                                 *)
(*                                                                         *)
(* The invariant ties the wire to the writer: the blocks open on it are    *)
(* those the writer takes for open (OpenIn), whatever handler wrote last.  *)
(***************************************************************************)
EXTENDS StreamArgumentsProofs

-----------------------------------------------------------------------------
(* Blocks on a wire.                                                       *)

\* The starts among the first n lines, and the properties' OpenBlock after them.
Starts(u, n) == {s \in 1 .. n : u[s].type = "start"}
OpenAfter(u, n, b, kind) ==
  \E s \in 1 .. n :
    /\ u[s].type = "start" /\ u[s].index = b /\ u[s].kind = kind
    /\ \A t \in s .. n : ~(u[t].type = "stop" /\ u[t].index = b)

LineRight(u, i) ==
  /\ u[i].type = "start" => u[i].index = Cardinality(Starts(u, i - 1))
  /\ u[i].type \in {"delta", "stop"} => OpenAfter(u, i - 1, u[i].index, u[i].kind)

LinesRight(u) == \A i \in DOMAIN u : LineRight(u, i)
BlocksSent(u) == Cardinality(Starts(u, Len(u)))
OpenNow(u, b, kind) == OpenAfter(u, Len(u), b, kind)

\* What line l adds to what was sent as u.
StartsBlock(l, b, kind) == l.type = "start" /\ l.index = b /\ l.kind = kind
StopsBlock(l, b) == l.type = "stop" /\ l.index = b
Allowed(u, l) ==
  /\ l.type = "start" => l.index = BlocksSent(u)
  /\ l.type \in {"delta", "stop"} => OpenNow(u, l.index, l.kind)
Adds(u, v, l) ==
  /\ LinesRight(u) /\ Allowed(u, l) => LinesRight(v)
  /\ BlocksSent(u) \in Nat /\ BlocksSent(v) = IF l.type = "start" THEN BlocksSent(u) + 1 ELSE BlocksSent(u)
  /\ \A b, kind : OpenNow(v, b, kind) <=> (OpenNow(u, b, kind) \/ StartsBlock(l, b, kind)) /\ ~StopsBlock(l, b)

LEMMA LineAdded ==
  ASSUME NEW T, NEW u \in Seq(T), NEW l \in T
  PROVE  Adds(u, u \o <<l>>, l)
  <1> DEFINE v == u \o <<l>>
             N == Len(u)
  <1>1. /\ N \in Nat /\ Len(v) = N + 1 /\ DOMAIN u = 1 .. N /\ DOMAIN v = 1 .. N + 1
        /\ v[N + 1] = l /\ \A i \in 1 .. N : v[i] = u[i]
    OBVIOUS
  <1> HIDE DEF v, N
  <1>2. ASSUME NEW n \in 0 .. N
        PROVE  /\ Starts(v, n) = Starts(u, n)
               /\ \A b, kind : OpenAfter(v, n, b, kind) <=> OpenAfter(u, n, b, kind)
    <2>1. \A i \in 1 .. n : v[i] = u[i]
      BY <1>1
    <2>2. \A s \in 1 .. n : \A t \in s .. n : t \in 1 .. n
      BY <1>1
    <2>3. ASSUME NEW b, NEW kind PROVE OpenAfter(v, n, b, kind) <=> OpenAfter(u, n, b, kind)
      BY <2>1, <2>2 DEF OpenAfter
    <2>4. Starts(v, n) = Starts(u, n)
      BY <2>1 DEF Starts
    <2> QED BY <2>3, <2>4
  <1>3. N \in 0 .. N /\ N + 1 - 1 = N /\ \A i \in 1 .. N + 1 : i = N + 1 \/ i \in 1 .. N
    BY <1>1
  <1>4. \A i \in 1 .. N : LineRight(u, i) => LineRight(v, i)
    <2> SUFFICES ASSUME NEW i \in 1 .. N, LineRight(u, i) PROVE LineRight(v, i)
      OBVIOUS
    <2>1. i - 1 \in 0 .. N /\ v[i] = u[i]
      BY <1>1
    <2> QED BY <1>2, <2>1 DEF LineRight
  <1>5. LinesRight(u) /\ Allowed(u, l) => LinesRight(v)
    <2> SUFFICES ASSUME LinesRight(u), Allowed(u, l) PROVE LinesRight(v)
      OBVIOUS
    <2>1. /\ l.type = "start" => l.index = Cardinality(Starts(v, N))
          /\ l.type \in {"delta", "stop"} => OpenAfter(v, N, l.index, l.kind)
      BY <1>2, <1>3 DEF Allowed, BlocksSent, OpenNow, N
    <2>2. LineRight(v, N + 1)
      BY <1>1, <1>3, <2>1 DEF LineRight
    <2>3. \A i \in 1 .. N : LineRight(v, i)
      BY <1>1, <1>4 DEF LinesRight
    <2> QED BY <1>1, <1>3, <2>2, <2>3 DEF LinesRight
  <1>6. IsFiniteSet(Starts(u, N)) /\ Cardinality(Starts(u, N)) \in Nat
    <2>1. IsFiniteSet(1 .. N)
      BY <1>1, FS_Interval
    <2>2. Starts(u, N) \in SUBSET (1 .. N)
      BY DEF Starts
    <2>3. IsFiniteSet(Starts(u, N))
      BY <2>1, <2>2, FS_Subset
    <2> QED BY <2>3, FS_CardinalityType
  <1>7. Starts(v, N + 1) = IF l.type = "start" THEN Starts(u, N) \cup {N + 1} ELSE Starts(u, N)
    BY <1>1 DEF Starts
  <1>8. BlocksSent(u) \in Nat
        /\ BlocksSent(v) = IF l.type = "start" THEN BlocksSent(u) + 1 ELSE BlocksSent(u)
    <2>1. N + 1 \notin Starts(u, N)
      BY <1>1 DEF Starts
    <2>2. Cardinality(Starts(u, N) \cup {N + 1}) = Cardinality(Starts(u, N)) + 1
      BY <1>6, <2>1, FS_AddElement
    <2>3. BlocksSent(u) = Cardinality(Starts(u, N)) /\ BlocksSent(v) = Cardinality(Starts(v, N + 1))
      BY <1>1 DEF BlocksSent, N
    <2> QED BY <1>6, <1>7, <2>2, <2>3
  <1>9. ASSUME NEW b, NEW kind
        PROVE  OpenNow(v, b, kind) <=> (OpenNow(u, b, kind) \/ StartsBlock(l, b, kind)) /\ ~StopsBlock(l, b)
    <2>1. /\ OpenNow(v, b, kind) <=> OpenAfter(v, N + 1, b, kind)
          /\ OpenNow(u, b, kind) <=> OpenAfter(u, N, b, kind)
      BY <1>1 DEF OpenNow, N
    <2>2. ASSUME OpenAfter(v, N + 1, b, kind)
          PROVE  (OpenAfter(u, N, b, kind) \/ StartsBlock(l, b, kind)) /\ ~StopsBlock(l, b)
      <3>1. PICK s \in 1 .. N + 1 :
              /\ v[s].type = "start" /\ v[s].index = b /\ v[s].kind = kind
              /\ \A t \in s .. N + 1 : ~(v[t].type = "stop" /\ v[t].index = b)
        BY <2>2 DEF OpenAfter
      <3>2. ~StopsBlock(l, b)
        <4>1. N + 1 \in s .. N + 1
          BY <1>1
        <4> QED BY <1>1, <3>1, <4>1 DEF StopsBlock
      <3>3. CASE s = N + 1
        BY <1>1, <3>1, <3>2, <3>3 DEF StartsBlock
      <3>4. CASE s \in 1 .. N
        <4>1. (\A t \in s .. N : t \in s .. N + 1 /\ v[t] = u[t]) /\ v[s] = u[s]
          BY <1>1, <3>4
        <4>2. OpenAfter(u, N, b, kind)
          BY <3>1, <3>4, <4>1 DEF OpenAfter
        <4> QED BY <3>2, <4>2
      <3> QED BY <1>3, <3>3, <3>4
    <2>3. ASSUME OpenAfter(u, N, b, kind), ~StopsBlock(l, b) PROVE OpenAfter(v, N + 1, b, kind)
      <3>1. PICK s \in 1 .. N :
              /\ u[s].type = "start" /\ u[s].index = b /\ u[s].kind = kind
              /\ \A t \in s .. N : ~(u[t].type = "stop" /\ u[t].index = b)
        BY <2>3 DEF OpenAfter
      <3>2. \A t \in s .. N + 1 : t = N + 1 \/ (t \in s .. N /\ v[t] = u[t])
        BY <1>1
      <3>3. s \in 1 .. N + 1 /\ v[s] = u[s]
        BY <1>1
      <3>4. \A t \in s .. N + 1 : ~(v[t].type = "stop" /\ v[t].index = b)
        BY <1>1, <2>3, <3>1, <3>2 DEF StopsBlock
      <3> QED BY <3>1, <3>3, <3>4 DEF OpenAfter
    <2>4. ASSUME StartsBlock(l, b, kind), ~StopsBlock(l, b) PROVE OpenAfter(v, N + 1, b, kind)
      <3>1. N + 1 \in 1 .. N + 1 /\ \A t \in N + 1 .. N + 1 : t = N + 1
        BY <1>1
      <3> QED BY <1>1, <2>4, <3>1 DEF OpenAfter, StartsBlock, StopsBlock
    <2> QED BY <2>1, <2>2, <2>3, <2>4
  <1>10. \A b, kind : OpenNow(v, b, kind) <=> (OpenNow(u, b, kind) \/ StartsBlock(l, b, kind)) /\ ~StopsBlock(l, b)
    BY <1>9
  <1>11. Adds(u, v, l)
    BY <1>5, <1>8, <1>10 DEF Adds
  <1> QED BY <1>11 DEF v

\* Two lines are sent one after the other.
LEMMA TwoLines ==
  ASSUME NEW T, NEW u \in Seq(T), NEW k \in T, NEW l \in T
  PROVE  /\ u \o <<k>> \in Seq(T)
         /\ u \o <<k, l>> = (u \o <<k>>) \o <<l>>
  <1>1. u \o <<k>> \in Seq(T) /\ u \o <<k, l>> \in Seq(T) /\ (u \o <<k>>) \o <<l>> \in Seq(T)
    OBVIOUS
  <1>2. Len(u \o <<k, l>>) = Len((u \o <<k>>) \o <<l>>)
    OBVIOUS
  <1>3. \A i \in 1 .. Len(u \o <<k, l>>) : (u \o <<k, l>>)[i] = ((u \o <<k>>) \o <<l>>)[i]
    OBVIOUS
  <1> QED BY <1>1, <1>2, <1>3, SeqEqual

-----------------------------------------------------------------------------
(* The wire and the writer.                                                *)

Kinds == {"text", "thinking", "tool"}

\* What the writer takes for open: its text or thought is the newest block.
OpenIn(w, b, kind) ==
  \/ kind = "text" /\ w.textOpen /\ b = w.next - 1
  \/ kind = "thinking" /\ w.thinkingOpen /\ b = w.next - 1
  \/ kind = "tool" /\ b # NoBlock /\ \E c \in Natives \ w.stopped : w.block[c] = b

\* u tells what w takes for true.
Shows(u, w) ==
  /\ LinesRight(u)
  /\ BlocksSent(u) = w.next
  /\ \A b \in Int, kind \in Kinds : OpenNow(u, b, kind) <=> OpenIn(w, b, kind)

BlocksFit(w) ==
  /\ \A c \in Natives : w.block[c] = NoBlock \/ w.block[c] \in 0 .. w.next - 1
  /\ BlocksApart(w)
  /\ ~(w.textOpen /\ w.thinkingOpen)
  /\ w.textOpen \/ w.thinkingOpen => \A c \in Natives : w.block[c] # w.next - 1
  /\ \A c \in w.stopped : w.block[c] # NoBlock

Tidy == {w \in ClaudeWriters : BlocksFit(w) /\ Shows(w.wire, w)}

\* Line l turns what w takes for true into what v does.
Moves(w, v, l) ==
  /\ v.next = IF l.type = "start" THEN w.next + 1 ELSE w.next
  /\ l.type = "start" => l.index = w.next
  /\ l.type \in {"delta", "stop"} =>
       l.index \in Int /\ l.kind \in Kinds /\ OpenIn(w, l.index, l.kind)
  /\ \A b \in Int, kind \in Kinds :
       OpenIn(v, b, kind) <=> (OpenIn(w, b, kind) \/ StartsBlock(l, b, kind)) /\ ~StopsBlock(l, b)

LEMMA LineShows ==
  ASSUME NEW u \in Seq(Speech), NEW l \in Speech, NEW w, NEW v, Shows(u, w), Moves(w, v, l)
  PROVE  Shows(u \o <<l>>, v)
  <1>1. Adds(u, u \o <<l>>, l)
    BY LineAdded
  <1>2. Allowed(u, l)
    BY DEF Shows, Moves, Allowed
  <1>3. LinesRight(u \o <<l>>)
    BY <1>1, <1>2 DEF Adds, Shows
  <1>4. BlocksSent(u \o <<l>>) = v.next
    BY <1>1 DEF Adds, Shows, Moves
  <1>5. ASSUME NEW b \in Int, NEW kind \in Kinds
        PROVE  OpenNow(u \o <<l>>, b, kind) <=> OpenIn(v, b, kind)
    BY <1>1 DEF Adds, Shows, Moves
  <1> QED BY <1>3, <1>4, <1>5 DEF Shows

\* The fields but for the wire.
AsIf(x, v) ==
  /\ v.next = x.next /\ v.textOpen = x.textOpen /\ v.thinkingOpen = x.thinkingOpen
  /\ v.finished = x.finished /\ v.hasToolCall = x.hasToolCall /\ v.seen = x.seen
  /\ v.block = x.block /\ v.streamed = x.streamed /\ v.stopped = x.stopped
  /\ v.pending = x.pending /\ v.suppressed = x.suppressed

LEMMA AsIfTidy ==
  ASSUME NEW x, NEW v \in ClaudeWriters, AsIf(x, v), BlocksFit(x), Shows(v.wire, x)
  PROVE  v \in Tidy
  <1>1. BlocksFit(v)
    BY DEF AsIf, BlocksFit, BlocksApart
  <1>2. \A b, kind : OpenIn(v, b, kind) <=> OpenIn(x, b, kind)
    BY DEF AsIf, OpenIn
  <1>3. Shows(v.wire, v)
    BY <1>2 DEF AsIf, Shows
  <1> QED BY <1>1, <1>3 DEF Tidy

LEMMA SendTidy ==
  ASSUME NEW u \in Seq(Speech), NEW x \in ClaudeWriters, x.wire = u, NEW lines \in Seq(Speech),
         BlocksFit(x), Shows(u \o lines, x)
  PROVE  Send(x, lines) \in Tidy /\ AsIf(x, Send(x, lines))
  <1> DEFINE v == Send(x, lines)
  <1>1. v \in ClaudeWriters /\ v = [x EXCEPT !.wire = x.wire \o lines]
    BY SendFits
  <1> HIDE DEF v
  <1>2. v.wire = u \o lines /\ AsIf(x, v)
    BY <1>1 DEF ClaudeWriters, AsIf
  <1>3. v \in Tidy
    BY <1>1, <1>2, AsIfTidy
  <1> QED BY <1>2, <1>3 DEF v

\* Fields that tell nothing of blocks may change.
LEMMA FlagsTidy ==
  ASSUME NEW w \in Tidy, NEW v \in ClaudeWriters, v.wire = w.wire, v.next = w.next,
         v.textOpen = w.textOpen, v.thinkingOpen = w.thinkingOpen,
         v.block = w.block, v.stopped = w.stopped
  PROVE  v \in Tidy
  <1>1. BlocksFit(v)
    BY DEF Tidy, BlocksFit, BlocksApart
  <1>2. \A b, kind : OpenIn(v, b, kind) <=> OpenIn(w, b, kind)
    BY DEF OpenIn
  <1>3. Shows(v.wire, v)
    BY <1>2 DEF Tidy, Shows
  <1> QED BY <1>1, <1>3 DEF Tidy

LEMMA TidyFits ==
  ASSUME NEW w \in Tidy
  PROVE  /\ w \in ClaudeWriters /\ w.next \in Nat /\ w.next \in Int /\ w.next - 1 \in Int
         /\ w.wire \in Seq(Speech) /\ BlocksFit(w) /\ Shows(w.wire, w)
         /\ w.block \in [Natives -> Int] /\ w.stopped \in SUBSET Natives
  <1>1. w \in ClaudeWriters /\ BlocksFit(w) /\ Shows(w.wire, w)
    BY DEF Tidy
  <1>2. w.next \in Nat /\ w.wire \in Seq(Speech)
    BY <1>1 DEF ClaudeWriters
  <1>3. w.block \in [Natives -> Int] /\ w.stopped \in SUBSET Natives
    BY <1>1 DEF ClaudeWriters
  <1> QED BY <1>1, <1>2, <1>3

-----------------------------------------------------------------------------
(* Text and thoughts.                                                      *)

\* What stays when a text or a thought ends.
Rests(w, v) ==
  /\ v.next = w.next /\ v.finished = w.finished /\ v.hasToolCall = w.hasToolCall
  /\ v.seen = w.seen /\ v.block = w.block /\ v.streamed = w.streamed
  /\ v.stopped = w.stopped /\ v.pending = w.pending /\ v.suppressed = w.suppressed

LEMMA EndTextTidy ==
  ASSUME NEW w \in Tidy
  PROVE  LET v == EndText(w) IN
         /\ v \in Tidy /\ ~v.textOpen /\ v.thinkingOpen = w.thinkingOpen /\ Rests(w, v)
  <1> DEFINE v == EndText(w)
             x == [w EXCEPT !.textOpen = FALSE]
             l == Line("stop", w.next - 1, "text")
  <1>1. CASE ~w.textOpen
    BY <1>1 DEF EndText, Rests
  <1>2. CASE w.textOpen
    <2>1. w \in ClaudeWriters /\ w.next - 1 \in Int /\ w.wire \in Seq(Speech) /\ BlocksFit(w) /\ Shows(w.wire, w)
      BY TidyFits
    <2>2. l \in Speech /\ <<l>> \in Seq(Speech)
      <3>1. l \in Speech
        BY <2>1, LinesFit DEF Speech
      <3> QED BY <3>1
    <2>3. x \in ClaudeWriters
      BY <2>1 DEF ClaudeWriters
    <2>4. x.wire = w.wire /\ ~x.textOpen /\ x.thinkingOpen = w.thinkingOpen /\ Rests(w, x)
      BY <2>1 DEF ClaudeWriters, Rests
    <2>5. l.type = "stop" /\ l.index = w.next - 1 /\ l.kind = "text"
      BY DEF Line
    <2>6. v = Send(x, <<l>>)
      BY <1>2 DEF EndText
    <2> HIDE DEF x, l, v
    <2>7. BlocksFit(x)
      BY <2>1, <2>4 DEF BlocksFit, BlocksApart, Rests
    <2>8. Moves(w, x, l)
      <3>1. ASSUME NEW b \in Int, NEW kind \in Kinds
            PROVE  OpenIn(x, b, kind) <=> OpenIn(w, b, kind) /\ b # w.next - 1
        BY <1>2, <2>1, <2>4 DEF BlocksFit, OpenIn, Rests
      <3>2. OpenIn(w, w.next - 1, "text")
        BY <1>2 DEF OpenIn
      <3> QED BY <2>1, <2>4, <2>5, <3>1, <3>2 DEF Moves, StartsBlock, StopsBlock, Kinds, Rests
    <2>9. Shows(w.wire \o <<l>>, x)
      BY <2>1, <2>2, <2>8, LineShows
    <2>10. v \in Tidy /\ AsIf(x, v)
      BY <2>1, <2>2, <2>3, <2>4, <2>6, <2>7, <2>9, SendTidy
    <2> QED BY <2>4, <2>10 DEF AsIf, Rests, v
  <1> QED BY <1>1, <1>2 DEF Tidy, ClaudeWriters

LEMMA EndThinkingTidy ==
  ASSUME NEW w \in Tidy
  PROVE  LET v == EndThinking(w) IN
         /\ v \in Tidy /\ ~v.thinkingOpen /\ v.textOpen = w.textOpen /\ Rests(w, v)
  <1> DEFINE v == EndThinking(w)
             x == [w EXCEPT !.thinkingOpen = FALSE]
             l == Line("stop", w.next - 1, "thinking")
  <1>1. CASE ~w.thinkingOpen
    BY <1>1 DEF EndThinking, Rests
  <1>2. CASE w.thinkingOpen
    <2>1. w \in ClaudeWriters /\ w.next - 1 \in Int /\ w.wire \in Seq(Speech) /\ BlocksFit(w) /\ Shows(w.wire, w)
      BY TidyFits
    <2>2. l \in Speech /\ <<l>> \in Seq(Speech)
      <3>1. l \in Speech
        BY <2>1, LinesFit DEF Speech
      <3> QED BY <3>1
    <2>3. x \in ClaudeWriters
      BY <2>1 DEF ClaudeWriters
    <2>4. x.wire = w.wire /\ ~x.thinkingOpen /\ x.textOpen = w.textOpen /\ Rests(w, x)
      BY <2>1 DEF ClaudeWriters, Rests
    <2>5. l.type = "stop" /\ l.index = w.next - 1 /\ l.kind = "thinking"
      BY DEF Line
    <2>6. v = Send(x, <<l>>)
      BY <1>2 DEF EndThinking
    <2> HIDE DEF x, l, v
    <2>7. BlocksFit(x)
      BY <2>1, <2>4 DEF BlocksFit, BlocksApart, Rests
    <2>8. Moves(w, x, l)
      <3>1. ASSUME NEW b \in Int, NEW kind \in Kinds
            PROVE  OpenIn(x, b, kind) <=> OpenIn(w, b, kind) /\ b # w.next - 1
        BY <1>2, <2>1, <2>4 DEF BlocksFit, OpenIn, Rests
      <3>2. OpenIn(w, w.next - 1, "thinking")
        BY <1>2 DEF OpenIn
      <3> QED BY <2>1, <2>4, <2>5, <3>1, <3>2 DEF Moves, StartsBlock, StopsBlock, Kinds, Rests
    <2>9. Shows(w.wire \o <<l>>, x)
      BY <2>1, <2>2, <2>8, LineShows
    <2>10. v \in Tidy /\ AsIf(x, v)
      BY <2>1, <2>2, <2>3, <2>4, <2>6, <2>7, <2>9, SendTidy
    <2> QED BY <2>4, <2>10 DEF AsIf, Rests, v
  <1> QED BY <1>1, <1>2 DEF Tidy, ClaudeWriters

\* A delta of a block that is open changes nothing.
LEMMA DeltaTidy ==
  ASSUME NEW w \in Tidy, NEW l \in Speech, l.type = "delta",
         l.index \in Int, l.kind \in Kinds, OpenIn(w, l.index, l.kind)
  PROVE  Send(w, <<l>>) \in Tidy /\ AsIf(w, Send(w, <<l>>))
  <1>1. w \in ClaudeWriters /\ w.wire \in Seq(Speech) /\ BlocksFit(w) /\ Shows(w.wire, w)
    BY TidyFits
  <1>2. Moves(w, w, l)
    BY DEF Moves, StartsBlock, StopsBlock
  <1>3. Shows(w.wire \o <<l>>, w) /\ <<l>> \in Seq(Speech)
    BY <1>1, <1>2, LineShows
  <1> QED BY <1>1, <1>3, SendTidy

\* A text or thought begins: x is w with a new block of that kind.
Begins(w, x, kind) ==
  /\ x.wire = w.wire /\ x.next = w.next + 1 /\ x.block = w.block /\ x.stopped = w.stopped
  /\ (x.textOpen <=> kind = "text") /\ (x.thinkingOpen <=> kind = "thinking")

LEMMA BeginsTidy ==
  ASSUME NEW w \in Tidy, ~w.textOpen, ~w.thinkingOpen, NEW kind \in {"text", "thinking"},
         NEW x \in ClaudeWriters, Begins(w, x, kind)
  PROVE  LET v == Send(x, <<Line("start", w.next, kind), Line("delta", w.next, kind)>>) IN
         v \in Tidy /\ AsIf(x, v)
  <1> DEFINE k == Line("start", w.next, kind)
             l == Line("delta", w.next, kind)
             u == w.wire \o <<k>>
  <1>1. /\ w.next \in Nat /\ w.next \in Int /\ w.wire \in Seq(Speech) /\ BlocksFit(w) /\ Shows(w.wire, w)
        /\ w.block \in [Natives -> Int]
    BY TidyFits
  <1>2. k \in Speech /\ l \in Speech /\ <<k, l>> \in Seq(Speech)
    <2>1. k \in Speech /\ l \in Speech
      BY <1>1, LinesFit DEF Speech
    <2> QED BY <2>1
  <1>3. /\ k.type = "start" /\ k.index = w.next /\ k.kind = kind
        /\ l.type = "delta" /\ l.index = w.next /\ l.kind = kind
    BY DEF Line
  <1>4. u \in Seq(Speech) /\ w.wire \o <<k, l>> = u \o <<l>>
    <2> DEFINE d == w.wire
    <2>1. d \in Seq(Speech) /\ k \in Speech /\ l \in Speech
      BY <1>1, <1>2
    <2>2. \A T : d \in Seq(T) /\ k \in T /\ l \in T =>
                  d \o <<k>> \in Seq(T) /\ d \o <<k, l>> = (d \o <<k>>) \o <<l>>
      BY TwoLines
    <2> HIDE DEF d, k, l
    <2>3. d \o <<k>> \in Seq(Speech) /\ d \o <<k, l>> = (d \o <<k>>) \o <<l>>
      BY <2>1, <2>2
    <2> QED BY <2>3 DEF d
  <1> HIDE DEF k, l, u
  <1>5. BlocksFit(x)
    <2>1. \A c \in Natives : w.block[c] = NoBlock \/ w.block[c] \in 0 .. w.next - 1
      BY <1>1 DEF BlocksFit
    <2>2. \A c \in Natives : x.block[c] # x.next - 1 /\ (x.block[c] = NoBlock \/ x.block[c] \in 0 .. x.next - 1)
      BY <1>1, <2>1 DEF Begins, NoBlock
    <2>3. BlocksApart(x) /\ ~(x.textOpen /\ x.thinkingOpen) /\ \A c \in x.stopped : x.block[c] # NoBlock
      BY <1>1 DEF BlocksFit, BlocksApart, Begins
    <2> QED BY <2>2, <2>3 DEF BlocksFit
  <1>6. Moves(w, x, k)
    <2>1. ASSUME NEW b \in Int, NEW d \in Kinds
          PROVE  OpenIn(x, b, d) <=> OpenIn(w, b, d) \/ (b = w.next /\ d = kind)
      BY <1>1 DEF OpenIn, Begins
    <2> QED BY <1>3, <2>1 DEF Moves, StartsBlock, StopsBlock, Begins
  <1>7. Moves(x, x, l)
    <2>1. OpenIn(x, w.next, kind)
      BY <1>1 DEF OpenIn, Begins
    <2> QED BY <1>1, <1>3, <2>1 DEF Moves, StartsBlock, StopsBlock, Kinds
  <1>8. Shows(u, x)
    BY <1>1, <1>2, <1>6, LineShows DEF u
  <1>9. Shows(u \o <<l>>, x)
    BY <1>2, <1>4, <1>7, <1>8, LineShows
  <1>10. Send(x, <<k, l>>) \in Tidy /\ AsIf(x, Send(x, <<k, l>>))
    <2>1. Shows(w.wire \o <<k, l>>, x) /\ x.wire = w.wire
      BY <1>4, <1>9 DEF Begins
    <2> QED BY <1>1, <1>2, <1>5, <2>1, SendTidy
  <1> QED BY <1>10 DEF k, l

\* What stays when a text or a thought is emitted.
Keeps(w, v) ==
  /\ v.finished = w.finished /\ v.hasToolCall = w.hasToolCall
  /\ v.seen = w.seen /\ v.block = w.block /\ v.streamed = w.streamed
  /\ v.stopped = w.stopped /\ v.pending = w.pending /\ v.suppressed = w.suppressed

LEMMA EmitTextTidy ==
  ASSUME NEW w \in Tidy, ~w.thinkingOpen
  PROVE  LET v == EmitText(w) IN v \in Tidy /\ v.textOpen /\ ~v.thinkingOpen /\ Keeps(w, v)
  <1> DEFINE v == EmitText(w)
             x == [w EXCEPT !.textOpen = TRUE, !.next = w.next + 1]
  <1>1. w \in ClaudeWriters /\ w.next \in Nat /\ w.next - 1 \in Int
    BY TidyFits
  <1>2. CASE w.textOpen
    <2> DEFINE l == Line("delta", w.next - 1, "text")
    <2>1. l \in Speech
      BY <1>1, LinesFit DEF Speech
    <2>2. l.type = "delta" /\ l.index = w.next - 1 /\ l.kind = "text"
      BY DEF Line
    <2>3. v = Send(w, <<l>>)
      BY <1>2 DEF EmitText
    <2> HIDE DEF l, v
    <2>4. OpenIn(w, l.index, l.kind) /\ l.index \in Int /\ l.kind \in Kinds
      BY <1>1, <1>2, <2>2 DEF OpenIn, Kinds
    <2>5. v \in Tidy /\ AsIf(w, v)
      BY <2>1, <2>2, <2>3, <2>4, DeltaTidy
    <2> QED BY <1>2, <2>5 DEF AsIf, Keeps, v
  <1>3. CASE ~w.textOpen
    <2>1. x \in ClaudeWriters
      <3>1. w.next + 1 \in Nat
        BY <1>1
      <3> QED BY <1>1, <3>1 DEF ClaudeWriters
    <2>2. Keeps(w, x) /\ Begins(w, x, "text") /\ x.textOpen /\ ~x.thinkingOpen
      BY <1>1 DEF ClaudeWriters, Keeps, Begins
    <2>3. v = Send(x, <<Line("start", w.next, "text"), Line("delta", w.next, "text")>>)
      BY <1>3 DEF EmitText
    <2> HIDE DEF x, v
    <2>4. v \in Tidy /\ AsIf(x, v)
      BY <1>3, <2>1, <2>2, <2>3, BeginsTidy
    <2> QED BY <2>2, <2>4 DEF AsIf, Keeps, v
  <1> QED BY <1>2, <1>3

LEMMA EmitThinkingTidy ==
  ASSUME NEW w \in Tidy, ~w.textOpen
  PROVE  LET v == EmitThinking(w) IN v \in Tidy /\ v.thinkingOpen /\ ~v.textOpen /\ Keeps(w, v)
  <1> DEFINE v == EmitThinking(w)
             x == [w EXCEPT !.thinkingOpen = TRUE, !.next = w.next + 1]
  <1>1. w \in ClaudeWriters /\ w.next \in Nat /\ w.next - 1 \in Int
    BY TidyFits
  <1>2. CASE w.thinkingOpen
    <2> DEFINE l == Line("delta", w.next - 1, "thinking")
    <2>1. l \in Speech
      BY <1>1, LinesFit DEF Speech
    <2>2. l.type = "delta" /\ l.index = w.next - 1 /\ l.kind = "thinking"
      BY DEF Line
    <2>3. v = Send(w, <<l>>)
      BY <1>2 DEF EmitThinking
    <2> HIDE DEF l, v
    <2>4. OpenIn(w, l.index, l.kind) /\ l.index \in Int /\ l.kind \in Kinds
      BY <1>1, <1>2, <2>2 DEF OpenIn, Kinds
    <2>5. v \in Tidy /\ AsIf(w, v)
      BY <2>1, <2>2, <2>3, <2>4, DeltaTidy
    <2> QED BY <1>2, <2>5 DEF AsIf, Keeps, v
  <1>3. CASE ~w.thinkingOpen
    <2>1. x \in ClaudeWriters
      <3>1. w.next + 1 \in Nat
        BY <1>1
      <3> QED BY <1>1, <3>1 DEF ClaudeWriters
    <2>2. Keeps(w, x) /\ Begins(w, x, "thinking") /\ x.thinkingOpen /\ ~x.textOpen
      BY <1>1 DEF ClaudeWriters, Keeps, Begins
    <2>3. v = Send(x, <<Line("start", w.next, "thinking"), Line("delta", w.next, "thinking")>>)
      BY <1>3 DEF EmitThinking
    <2> HIDE DEF x, v
    <2>4. v \in Tidy /\ AsIf(x, v)
      BY <1>3, <2>1, <2>2, <2>3, BeginsTidy
    <2> QED BY <2>2, <2>4 DEF AsIf, Keeps, v
  <1> QED BY <1>2, <1>3

\* The text that waits, and the call that is remembered.
LEMMA QueueTextTidy ==
  ASSUME NEW w \in Tidy, NEW s
  PROVE  LET v == QueueText(w, s) IN
         /\ v \in Tidy /\ v.textOpen = w.textOpen /\ v.thinkingOpen = w.thinkingOpen
         /\ v.finished = w.finished /\ v.stopped = w.stopped /\ v.block = w.block
  <1> DEFINE v == QueueText(w, s)
  <1>1. w \in ClaudeWriters
    BY TidyFits
  <1>2. v \in ClaudeWriters
    BY <1>1, QueueTextFits DEF KeepsCalls
  <1>3. /\ v.wire = w.wire /\ v.next = w.next /\ v.textOpen = w.textOpen
        /\ v.thinkingOpen = w.thinkingOpen /\ v.finished = w.finished
        /\ v.block = w.block /\ v.stopped = w.stopped
    BY <1>1 DEF QueueText, ClaudeWriters
  <1> HIDE DEF v
  <1>4. v \in Tidy
    BY <1>2, <1>3, FlagsTidy
  <1> QED BY <1>3, <1>4 DEF v

LEMMA CallsToolTidy ==
  ASSUME NEW w \in Tidy
  PROVE  LET v == CallsTool(w) IN
         /\ v \in Tidy /\ v.textOpen = w.textOpen /\ v.thinkingOpen = w.thinkingOpen
         /\ v.finished = w.finished /\ v.stopped = w.stopped /\ v.block = w.block /\ ~v.pending
         /\ v.streamed = w.streamed /\ v.next = w.next
  <1> DEFINE v == CallsTool(w)
  <1>1. w \in ClaudeWriters
    BY TidyFits
  <1>2. v \in ClaudeWriters
    BY <1>1 DEF CallsTool, ClaudeWriters
  <1>3. /\ v.wire = w.wire /\ v.next = w.next /\ v.textOpen = w.textOpen
        /\ v.thinkingOpen = w.thinkingOpen /\ v.finished = w.finished
        /\ v.block = w.block /\ v.stopped = w.stopped /\ ~v.pending /\ v.streamed = w.streamed
    BY <1>1 DEF CallsTool, ClaudeWriters
  <1> HIDE DEF v
  <1>4. v \in Tidy
    BY <1>2, <1>3, FlagsTidy
  <1> QED BY <1>3, <1>4 DEF v

LEMMA FlushPendingTidy ==
  ASSUME NEW w \in Tidy, w.pending => ~w.thinkingOpen
  PROVE  LET v == FlushPending(w) IN
         /\ v \in Tidy /\ v.thinkingOpen = w.thinkingOpen /\ ~v.pending
         /\ v.finished = w.finished /\ v.stopped = w.stopped /\ v.block = w.block
  <1> DEFINE x == [w EXCEPT !.pending = FALSE]
             v == FlushPending(w)
  <1>1. w \in ClaudeWriters
    BY TidyFits
  <1>2. x \in ClaudeWriters
    BY <1>1 DEF ClaudeWriters
  <1>3. /\ x.wire = w.wire /\ x.next = w.next /\ x.textOpen = w.textOpen
        /\ x.thinkingOpen = w.thinkingOpen /\ x.finished = w.finished
        /\ x.block = w.block /\ x.stopped = w.stopped /\ x.pending = FALSE
    BY <1>1 DEF ClaudeWriters
  <1>4. v = IF w.pending /\ ~w.hasToolCall THEN EmitText(x) ELSE x
    BY DEF FlushPending
  <1> HIDE DEF x, v
  <1>5. x \in Tidy
    BY <1>2, <1>3, FlagsTidy
  <1>6. CASE v = x
    BY <1>3, <1>5, <1>6 DEF v
  <1>7. CASE v = EmitText(x) /\ w.pending
    <2>1. ~x.thinkingOpen
      BY <1>3, <1>7
    <2>2. v \in Tidy /\ ~v.thinkingOpen /\ Keeps(x, v)
      BY <1>5, <1>7, <2>1, EmitTextTidy
    <2>3. v.thinkingOpen \in BOOLEAN /\ w.thinkingOpen \in BOOLEAN
      BY <1>1, <2>2 DEF Tidy, ClaudeWriters
    <2> QED BY <1>3, <2>1, <2>2, <2>3 DEF Keeps, v
  <1> QED BY <1>4, <1>6, <1>7

-----------------------------------------------------------------------------
(* Blocks of calls.                                                        *)

\* A block of a call that begins: x is w with the block of c.
LEMMA ToolBegins ==
  ASSUME NEW w \in Tidy, ~w.textOpen, ~w.thinkingOpen, NEW c \in Natives \ w.stopped,
         w.block[c] = NoBlock, NEW x \in ClaudeWriters,
         x.wire = w.wire \o <<Line("start", w.next, "tool")>>, x.next = w.next + 1,
         x.block = [w.block EXCEPT ![c] = w.next], x.stopped = w.stopped,
         ~x.textOpen, ~x.thinkingOpen
  PROVE  x \in Tidy
  <1> DEFINE l == Line("start", w.next, "tool")
  <1>1. /\ w.next \in Nat /\ w.next \in Int /\ w.wire \in Seq(Speech) /\ BlocksFit(w) /\ Shows(w.wire, w)
        /\ w.block \in [Natives -> Int] /\ w.stopped \in SUBSET Natives
    BY TidyFits
  <1>2. l \in Speech
    BY <1>1, LinesFit DEF Speech
  <1>3. l.type = "start" /\ l.index = w.next /\ l.kind = "tool"
    BY DEF Line
  <1> HIDE DEF l
  <1>4. /\ x.block[c] = w.next /\ \A d \in Natives \ {c} : x.block[d] = w.block[d]
        /\ w.next # NoBlock
    BY <1>1 DEF NoBlock
  <1>5. \A d \in Natives : w.block[d] = NoBlock \/ w.block[d] \in 0 .. w.next - 1
    BY <1>1 DEF BlocksFit
  <1>6. BlocksFit(x)
    <2>1. ASSUME NEW d \in Natives PROVE x.block[d] = NoBlock \/ x.block[d] \in 0 .. x.next - 1
      BY <1>1, <1>4, <1>5
    <2>2. \A d \in Natives \ {c} : x.block[d] # w.next
      BY <1>1, <1>4, <1>5
    <2>3. BlocksApart(x)
      BY <1>1, <1>4, <2>2 DEF BlocksFit, BlocksApart
    <2>4. \A d \in x.stopped : x.block[d] # NoBlock
      BY <1>1, <1>4 DEF BlocksFit
    <2> QED BY <2>1, <2>3, <2>4 DEF BlocksFit
  <1>7. Moves(w, x, l)
    <2>1. ASSUME NEW b \in Int, NEW d \in Kinds
          PROVE  OpenIn(x, b, d) <=> OpenIn(w, b, d) \/ (b = w.next /\ d = "tool")
      <3>1. (\E a \in Natives \ x.stopped : x.block[a] = b) /\ b # NoBlock
              <=> b # NoBlock /\ ((\E a \in Natives \ w.stopped : w.block[a] = b) \/ b = w.next)
        BY <1>4
      <3> QED BY <1>4, <3>1 DEF OpenIn
    <2> QED BY <1>3, <2>1 DEF Moves, StartsBlock, StopsBlock
  <1>8. Shows(x.wire, x)
    BY <1>1, <1>2, <1>7, LineShows DEF l
  <1> QED BY <1>6, <1>8 DEF Tidy

\* The pieces of a call that goes on.
LEMMA PieceTidy ==
  ASSUME NEW w \in Tidy, NEW c \in Natives \ w.stopped, w.block[c] # NoBlock,
         NEW from \in 0 .. Full, NEW to \in 0 .. Full
  PROVE  LET v == Send(w, <<Piece(w.block[c], from, to)>>) IN v \in Tidy /\ AsIf(w, v)
  <1> DEFINE l == Piece(w.block[c], from, to)
  <1>1. w.block[c] \in Int
    BY TidyFits
  <1>2. l \in Speech
    BY <1>1, LinesFit DEF Speech
  <1>3. l.type = "delta" /\ l.index = w.block[c] /\ l.kind = "tool"
    BY DEF Piece
  <1> HIDE DEF l
  <1>4. OpenIn(w, l.index, l.kind) /\ l.index \in Int /\ l.kind \in Kinds
    BY <1>1, <1>3 DEF OpenIn, Kinds
  <1>5. Send(w, <<l>>) \in Tidy /\ AsIf(w, Send(w, <<l>>))
    BY <1>2, <1>3, <1>4, DeltaTidy
  <1> QED BY <1>5 DEF l

LEMMA StreamedTidy ==
  ASSUME NEW w \in Tidy, NEW c \in Natives, NEW to \in 0 .. Full
  PROVE  LET v == [w EXCEPT !.streamed[c] = to] IN
         /\ v \in Tidy /\ v.textOpen = w.textOpen /\ v.thinkingOpen = w.thinkingOpen
         /\ v.finished = w.finished /\ v.stopped = w.stopped /\ v.block = w.block
         /\ v.pending = w.pending
  <1> DEFINE v == [w EXCEPT !.streamed[c] = to]
  <1>1. w \in ClaudeWriters
    BY TidyFits
  <1>2. v \in ClaudeWriters
    BY <1>1 DEF ClaudeWriters
  <1>3. /\ v.wire = w.wire /\ v.next = w.next /\ v.textOpen = w.textOpen
        /\ v.thinkingOpen = w.thinkingOpen /\ v.finished = w.finished
        /\ v.block = w.block /\ v.stopped = w.stopped /\ v.pending = w.pending
    BY <1>1 DEF ClaudeWriters
  <1> HIDE DEF v
  <1>4. v \in Tidy
    BY <1>2, <1>3, FlagsTidy
  <1> QED BY <1>3, <1>4 DEF v

\* What stays when a call is told of: x may be closed, nothing is opened.
Tells(w, v) ==
  /\ v.finished = w.finished /\ ~v.pending
  /\ (v.textOpen => w.textOpen) /\ (v.thinkingOpen => w.thinkingOpen)

LEMMA DeltaCallTidy ==
  ASSUME NEW w \in Tidy, NEW c \in Natives \ w.stopped, NEW to \in 0 .. Full
  PROVE  LET v == ClaudeDelta(w, c, to) IN
         /\ v \in Tidy /\ Tells(w, v) /\ v.stopped = w.stopped
         /\ w.block[c] # NoBlock => v.block[c] # NoBlock
  <1> DEFINE called == CallsTool(w)
             ended == EndText(called)
             quiet == EndThinking(ended)
             begun == StartTool(quiet)
             opened == IF w.block[c] # NoBlock THEN called ELSE [begun EXCEPT !.block[c] = w.next]
             grown == [opened EXCEPT !.streamed[c] = to]
             from == w.streamed[c]
             v == ClaudeDelta(w, c, to)
  <1>1. w \in ClaudeWriters /\ w.streamed \in [Natives -> 0 .. Full] /\ w.next \in Int
    <2>1. w \in ClaudeWriters /\ w.next \in Int
      BY TidyFits
    <2> QED BY <2>1 DEF ClaudeWriters
  <1>2. /\ called \in Tidy /\ called.textOpen = w.textOpen /\ called.thinkingOpen = w.thinkingOpen
        /\ called.finished = w.finished /\ called.stopped = w.stopped /\ called.block = w.block
        /\ ~called.pending /\ called.next = w.next
    BY CallsToolTidy
  <1>3. v = IF to = from THEN called ELSE Send(grown, <<Piece(opened.block[c], from, to)>>)
    BY DEF ClaudeDelta
  <1> HIDE DEF called
  <1>4. /\ ended \in Tidy /\ ~ended.textOpen /\ Rests(called, ended)
    BY <1>2, EndTextTidy
  <1> HIDE DEF ended
  <1>5. /\ quiet \in Tidy /\ ~quiet.thinkingOpen /\ quiet.textOpen = ended.textOpen /\ Rests(ended, quiet)
    BY <1>4, EndThinkingTidy
  <1> HIDE DEF quiet
  <1>6. /\ opened \in Tidy /\ opened.finished = w.finished /\ ~opened.pending
        /\ (opened.textOpen => w.textOpen) /\ (opened.thinkingOpen => w.thinkingOpen)
        /\ opened.stopped = w.stopped /\ opened.block[c] # NoBlock
    <2>1. CASE w.block[c] # NoBlock
      BY <1>2, <2>1
    <2>2. CASE w.block[c] = NoBlock
      <3> DEFINE b == [quiet EXCEPT !.next = quiet.next + 1]
                 l == Line("start", quiet.next, "tool")
                 x == [begun EXCEPT !.block[c] = w.next]
      <3>1. /\ quiet \in ClaudeWriters /\ quiet.wire \in Seq(Speech) /\ quiet.next \in Nat
            /\ quiet.next \in Int /\ quiet.block \in [Natives -> Int]
        BY <1>5, TidyFits
      <3>2. /\ quiet.next = w.next /\ quiet.block = w.block /\ quiet.stopped = w.stopped
            /\ quiet.finished = w.finished /\ ~quiet.pending /\ ~quiet.textOpen /\ ~quiet.thinkingOpen
        BY <1>2, <1>4, <1>5 DEF Rests
      <3>3. b \in ClaudeWriters
        <4>1. quiet.next + 1 \in Nat
          BY <3>1
        <4> QED BY <3>1, <4>1 DEF ClaudeWriters
      <3>4. /\ b.next = quiet.next + 1 /\ b.block = quiet.block /\ b.stopped = quiet.stopped
            /\ b.finished = quiet.finished /\ b.pending = quiet.pending
            /\ b.textOpen = quiet.textOpen /\ b.thinkingOpen = quiet.thinkingOpen /\ b.wire = quiet.wire
        BY <3>1 DEF ClaudeWriters
      <3>5. <<l>> \in Seq(Speech)
        <4>1. l \in Speech
          BY <3>1, LinesFit DEF Speech
        <4> QED BY <4>1
      <3>6. begun = Send(b, <<l>>)
        BY DEF StartTool
      <3> HIDE DEF b, begun
      <3>7. begun \in ClaudeWriters /\ begun = [b EXCEPT !.wire = b.wire \o <<l>>]
        BY <3>3, <3>5, <3>6, SendFits
      <3>8. /\ begun.next = b.next /\ begun.block = b.block /\ begun.stopped = b.stopped
            /\ begun.finished = b.finished /\ begun.pending = b.pending
            /\ begun.textOpen = b.textOpen /\ begun.thinkingOpen = b.thinkingOpen
            /\ begun.wire = b.wire \o <<l>>
        BY <3>3, <3>7 DEF ClaudeWriters
      <3>9. x \in ClaudeWriters
        BY <1>1, <3>7 DEF ClaudeWriters
      <3>10. /\ x.next = begun.next /\ x.block = [begun.block EXCEPT ![c] = w.next]
             /\ x.stopped = begun.stopped /\ x.finished = begun.finished /\ x.pending = begun.pending
             /\ x.textOpen = begun.textOpen /\ x.thinkingOpen = begun.thinkingOpen
             /\ x.wire = begun.wire
        BY <3>7 DEF ClaudeWriters
      <3>11. opened = x
        BY <2>2
      <3> HIDE DEF x, opened, l
      <3>12. x \in Tidy
        <4>1. /\ x.wire = quiet.wire \o <<Line("start", quiet.next, "tool")>> /\ x.next = quiet.next + 1
              /\ x.block = [quiet.block EXCEPT ![c] = quiet.next] /\ x.stopped = quiet.stopped
              /\ ~x.textOpen /\ ~x.thinkingOpen
          BY <3>2, <3>4, <3>8, <3>10 DEF l
        <4>2. c \in Natives \ quiet.stopped /\ quiet.block[c] = NoBlock
          BY <2>2, <3>2
        <4> QED BY <1>5, <3>2, <3>9, <4>1, <4>2, ToolBegins
      <3>13. x.block[c] # NoBlock
        <4>1. w.next # NoBlock
          BY <3>1, <3>2 DEF NoBlock
        <4> QED BY <3>1, <3>2, <3>4, <3>8, <3>10, <4>1
      <3> QED BY <3>2, <3>4, <3>8, <3>10, <3>11, <3>12, <3>13
    <2> QED BY <2>1, <2>2
  <1>7. w.block[c] # NoBlock => called.block[c] # NoBlock
    BY <1>2
  <1>8. CASE to = from
    BY <1>2, <1>3, <1>7, <1>8 DEF Tells
  <1>9. CASE to # from
    <2>1. v = Send(grown, <<Piece(opened.block[c], from, to)>>)
      BY <1>3, <1>9
    <2> HIDE DEF opened, v
    <2>2. /\ grown \in Tidy /\ grown.textOpen = opened.textOpen /\ grown.thinkingOpen = opened.thinkingOpen
          /\ grown.finished = opened.finished /\ grown.stopped = opened.stopped
          /\ grown.block = opened.block /\ grown.pending = opened.pending
      BY <1>6, StreamedTidy
    <2> HIDE DEF grown
    <2>3. v = Send(grown, <<Piece(grown.block[c], from, to)>>)
      BY <2>1, <2>2
    <2>4. c \in Natives \ grown.stopped /\ grown.block[c] # NoBlock /\ from \in 0 .. Full
      BY <1>1, <1>6, <2>2
    <2>5. v \in Tidy /\ AsIf(grown, v)
      BY <2>2, <2>3, <2>4, PieceTidy
    <2> QED BY <1>6, <2>2, <2>4, <2>5 DEF AsIf, Tells, v
  <1> QED BY <1>8, <1>9

LEMMA StopToolTidy ==
  ASSUME NEW w \in Tidy, NEW c \in Natives \ w.stopped, w.block[c] # NoBlock
  PROVE  LET v == StopTool(w, c) IN
         /\ v \in Tidy /\ v.stopped = w.stopped \cup {c}
         /\ v.finished = w.finished /\ v.pending = w.pending
         /\ v.textOpen = w.textOpen /\ v.thinkingOpen = w.thinkingOpen /\ v.block = w.block
         /\ v.next = w.next
  <1> DEFINE v == StopTool(w, c)
             x == [w EXCEPT !.stopped = w.stopped \cup {c}]
             l == Line("stop", w.block[c], "tool")
  <1>1. /\ w \in ClaudeWriters /\ w.wire \in Seq(Speech) /\ BlocksFit(w) /\ Shows(w.wire, w)
        /\ w.block \in [Natives -> Int] /\ w.stopped \in SUBSET Natives
    BY TidyFits
  <1>2. l \in Speech /\ <<l>> \in Seq(Speech)
    <2>1. l \in Speech
      BY <1>1, LinesFit DEF Speech
    <2> QED BY <2>1
  <1>3. x \in ClaudeWriters
    BY <1>1 DEF ClaudeWriters
  <1>4. /\ x.wire = w.wire /\ x.next = w.next /\ x.textOpen = w.textOpen
        /\ x.thinkingOpen = w.thinkingOpen /\ x.finished = w.finished
        /\ x.block = w.block /\ x.stopped = w.stopped \cup {c} /\ x.pending = w.pending
    BY <1>1 DEF ClaudeWriters
  <1>5. l.type = "stop" /\ l.index = w.block[c] /\ l.kind = "tool"
    BY DEF Line
  <1>6. v = Send(x, <<l>>)
    BY DEF StopTool
  <1> HIDE DEF x, l, v
  <1>7. BlocksFit(x)
    BY <1>1, <1>4 DEF BlocksFit, BlocksApart
  <1>8. Moves(w, x, l)
    <2>1. ASSUME NEW b \in Int, NEW kind \in Kinds
          PROVE  OpenIn(x, b, kind) <=> OpenIn(w, b, kind) /\ b # w.block[c]
      <3>1. \A d \in Natives : w.block[d] = w.block[c] => d = c
        BY <1>1 DEF BlocksFit, BlocksApart
      <3>2. (\E d \in Natives \ x.stopped : x.block[d] = b)
              <=> (\E d \in Natives \ w.stopped : w.block[d] = b) /\ b # w.block[c]
        BY <1>4, <3>1
      <3>3. w.textOpen \/ w.thinkingOpen => w.block[c] # w.next - 1
        BY <1>1 DEF BlocksFit
      <3> QED BY <1>4, <3>2, <3>3 DEF OpenIn
    <2>2. OpenIn(w, w.block[c], "tool")
      BY DEF OpenIn
    <2> QED BY <1>1, <1>4, <1>5, <2>1, <2>2 DEF Moves, StartsBlock, StopsBlock, Kinds
  <1>9. Shows(w.wire \o <<l>>, x)
    BY <1>1, <1>2, <1>8, LineShows
  <1>10. v \in Tidy /\ AsIf(x, v)
    BY <1>1, <1>2, <1>3, <1>4, <1>6, <1>7, <1>9, SendTidy
  <1> QED BY <1>4, <1>10 DEF AsIf, v

\* A block that begins and ends in one go leaves open what was.
LEMMA PassingBlock ==
  ASSUME NEW w \in Tidy, ~w.textOpen, ~w.thinkingOpen, NEW x \in ClaudeWriters,
         x.wire = w.wire, x.next = w.next + 1, x.block = w.block, x.stopped = w.stopped,
         ~x.textOpen, ~x.thinkingOpen
  PROVE  BlocksFit(x) /\
         Shows((w.wire \o <<Line("start", w.next, "tool")>>)
                 \o <<Piece(w.next, 0, Full), Line("stop", w.next, "tool")>>, x)
  <1> DEFINE k == Line("start", w.next, "tool")
             p == Piece(w.next, 0, Full)
             l == Line("stop", w.next, "tool")
             u == w.wire \o <<k>>
             q == u \o <<p>>
             z == q \o <<l>>
  <1>1. /\ w.next \in Nat /\ w.next \in Int /\ w.wire \in Seq(Speech) /\ BlocksFit(w) /\ Shows(w.wire, w)
        /\ w.block \in [Natives -> Int]
    BY TidyFits
  <1>2. k \in Speech /\ p \in Speech /\ l \in Speech
    <2>1. 0 \in 0 .. Full /\ Full \in 0 .. Full
      BY DEF Full
    <2> QED BY <1>1, <2>1, LinesFit DEF Speech
  <1>3. /\ k.type = "start" /\ k.index = w.next /\ k.kind = "tool"
        /\ p.type = "delta" /\ p.index = w.next /\ p.kind = "tool"
        /\ l.type = "stop" /\ l.index = w.next /\ l.kind = "tool"
    BY DEF Line, Piece
  <1>4. u \in Seq(Speech) /\ q \in Seq(Speech) /\ u \o <<p, l>> = z
    <2>1. u \in Seq(Speech)
      BY <1>1, <1>2, TwoLines
    <2> HIDE DEF u, p, l
    <2> QED BY <1>2, <2>1, TwoLines
  <1> HIDE DEF k, p, l
  <1>5. Adds(w.wire, u, k)
    BY <1>1, <1>2, LineAdded
  <1> HIDE DEF u
  <1>6. Adds(u, q, p)
    BY <1>2, <1>4, LineAdded
  <1> HIDE DEF q
  <1>7. Adds(q, z, l)
    BY <1>2, <1>4, LineAdded
  <1> HIDE DEF z
  <1>8. \A d \in Natives : w.block[d] = NoBlock \/ w.block[d] \in 0 .. w.next - 1
    BY <1>1 DEF BlocksFit
  <1>9. BlocksFit(x)
    <2>1. \A d \in Natives : x.block[d] = NoBlock \/ x.block[d] \in 0 .. x.next - 1
      BY <1>1, <1>8
    <2> QED BY <1>1, <2>1 DEF BlocksFit, BlocksApart
  <1>10. LinesRight(w.wire) /\ BlocksSent(w.wire) = w.next
    BY <1>1 DEF Shows
  <1>11. LinesRight(u) /\ BlocksSent(u) = w.next + 1 /\ OpenNow(u, w.next, "tool")
    <2>1. Allowed(w.wire, k)
      BY <1>3, <1>10 DEF Allowed
    <2>2. LinesRight(u) /\ BlocksSent(u) = w.next + 1
      BY <1>3, <1>5, <1>10, <2>1 DEF Adds
    <2>3. StartsBlock(k, w.next, "tool") /\ ~StopsBlock(k, w.next)
      BY <1>3 DEF StartsBlock, StopsBlock
    <2>4. OpenNow(u, w.next, "tool")
      BY <1>5, <2>3, Zenon DEF Adds
    <2> QED BY <2>2, <2>4
  <1>12. LinesRight(q) /\ BlocksSent(q) = w.next + 1 /\ OpenNow(q, w.next, "tool")
    <2>1. Allowed(u, p)
      BY <1>3, <1>11 DEF Allowed
    <2>2. LinesRight(q) /\ BlocksSent(q) = w.next + 1
      BY <1>3, <1>6, <1>11, <2>1 DEF Adds
    <2>3. ~StopsBlock(p, w.next)
      BY <1>3 DEF StopsBlock
    <2>4. OpenNow(q, w.next, "tool")
      BY <1>6, <1>11, <2>3, Zenon DEF Adds
    <2> QED BY <2>2, <2>4
  <1>13. LinesRight(z) /\ BlocksSent(z) = w.next + 1
    <2>1. Allowed(q, l)
      BY <1>3, <1>12 DEF Allowed
    <2> QED BY <1>3, <1>7, <1>12, <2>1 DEF Adds
  <1>14. ASSUME NEW b \in Int, NEW kind \in Kinds PROVE OpenNow(z, b, kind) <=> OpenIn(x, b, kind)
    <2>1. OpenNow(z, b, kind) <=> OpenNow(q, b, kind) /\ b # w.next
      BY <1>3, <1>7 DEF Adds, StartsBlock, StopsBlock
    <2>2. OpenNow(q, b, kind) <=> OpenNow(u, b, kind)
      BY <1>3, <1>6 DEF Adds, StartsBlock, StopsBlock
    <2>3. OpenNow(u, b, kind) /\ b # w.next <=> OpenNow(w.wire, b, kind) /\ b # w.next
      BY <1>3, <1>5 DEF Adds, StartsBlock, StopsBlock
    <2>4. OpenNow(w.wire, b, kind) <=> OpenIn(w, b, kind)
      BY <1>1 DEF Shows
    <2>5. OpenIn(w, b, kind) <=> OpenIn(x, b, kind)
      BY DEF OpenIn
    <2>6. OpenIn(w, b, kind) => b # w.next
      BY <1>1, <1>8 DEF OpenIn
    <2> QED BY <2>1, <2>2, <2>3, <2>4, <2>5, <2>6
  <1>15. Shows(z, x)
    BY <1>13, <1>14 DEF Shows
  <1> QED BY <1>4, <1>9, <1>15 DEF k, p, l, u

LEMMA WholeCallTidy ==
  ASSUME NEW w \in Tidy, ~w.thinkingOpen
  PROVE  LET v == WholeCall(w) IN
         /\ v \in Tidy /\ ~v.textOpen /\ ~v.thinkingOpen
         /\ v.finished = w.finished /\ v.pending = w.pending /\ v.stopped = w.stopped
  <1> DEFINE first == IF w.next = 0 /\ ~w.textOpen THEN EmitText(w) ELSE w
             t == EndText(first)
             x == [t EXCEPT !.next = t.next + 1]
             k == Line("start", t.next, "tool")
             lines == <<Piece(t.next, 0, Full), Line("stop", t.next, "tool")>>
             fresh == StartTool(t)
             v == WholeCall(w)
  <1>1. /\ first \in Tidy /\ ~first.thinkingOpen /\ first.finished = w.finished
        /\ first.pending = w.pending /\ first.stopped = w.stopped
    <2>1. EmitText(w) \in Tidy /\ ~EmitText(w).thinkingOpen /\ Keeps(w, EmitText(w))
      BY EmitTextTidy
    <2> QED BY <2>1 DEF Keeps
  <1>2. v = Send(fresh, <<Piece(fresh.next - 1, 0, Full), Line("stop", fresh.next - 1, "tool")>>)
    BY DEF WholeCall
  <1> HIDE DEF first
  <1>3. t \in Tidy /\ ~t.textOpen /\ t.thinkingOpen = first.thinkingOpen /\ Rests(first, t)
    BY <1>1, EndTextTidy
  <1> HIDE DEF t
  <1>4. t \in ClaudeWriters /\ t.wire \in Seq(Speech) /\ t.next \in Nat /\ t.next \in Int
    BY <1>3, TidyFits
  <1>5. x \in ClaudeWriters
    <2>1. t.next + 1 \in Nat
      BY <1>4
    <2> QED BY <1>4, <2>1 DEF ClaudeWriters
  <1>6. /\ x.wire = t.wire /\ x.next = t.next + 1 /\ x.textOpen = t.textOpen
        /\ x.thinkingOpen = t.thinkingOpen /\ x.finished = t.finished
        /\ x.block = t.block /\ x.stopped = t.stopped /\ x.pending = t.pending
    BY <1>4 DEF ClaudeWriters
  <1>7. k \in Speech /\ <<k>> \in Seq(Speech) /\ lines \in Seq(Speech)
    <2>1. 0 \in 0 .. Full /\ Full \in 0 .. Full
      BY DEF Full
    <2>2. k \in Speech /\ Piece(t.next, 0, Full) \in Speech /\ Line("stop", t.next, "tool") \in Speech
      BY <1>4, <2>1, LinesFit DEF Speech
    <2> QED BY <2>2
  <1>8. fresh = Send(x, <<k>>)
    BY DEF StartTool
  <1> HIDE DEF x, fresh
  <1>9. fresh \in ClaudeWriters /\ fresh = [x EXCEPT !.wire = x.wire \o <<k>>]
    BY <1>5, <1>7, <1>8, SendFits
  <1>10. fresh.wire = t.wire \o <<k>> /\ AsIf(x, fresh)
    BY <1>5, <1>6, <1>9 DEF ClaudeWriters, AsIf
  <1>11. fresh.next - 1 = t.next
    BY <1>4, <1>6, <1>10 DEF AsIf
  <1>12. v = Send(fresh, lines)
    BY <1>2, <1>11
  <1>13. /\ ~t.textOpen /\ ~t.thinkingOpen /\ ~x.textOpen /\ ~x.thinkingOpen
         /\ x.wire = t.wire /\ x.next = t.next + 1 /\ x.block = t.block /\ x.stopped = t.stopped
    BY <1>1, <1>3, <1>6
  <1>14. BlocksFit(x) /\ Shows((t.wire \o <<k>>) \o lines, x)
    BY <1>3, <1>5, <1>13, PassingBlock
  <1> HIDE DEF k, lines, v
  <1>15. v \in ClaudeWriters /\ v = [fresh EXCEPT !.wire = fresh.wire \o lines]
    BY <1>7, <1>9, <1>12, SendFits
  <1>16. v.wire = (t.wire \o <<k>>) \o lines /\ AsIf(x, v)
    BY <1>9, <1>10, <1>15 DEF ClaudeWriters, AsIf
  <1>17. v \in Tidy
    BY <1>14, <1>15, <1>16, AsIfTidy
  <1>18. /\ v.finished = t.finished /\ v.pending = t.pending /\ v.stopped = t.stopped
         /\ v.textOpen = x.textOpen /\ v.thinkingOpen = x.thinkingOpen
    BY <1>6, <1>16 DEF AsIf
  <1> QED BY <1>1, <1>3, <1>13, <1>17, <1>18 DEF Rests, v

LEMMA ClaudeCallTidy ==
  ASSUME NEW w \in Tidy, ~w.textOpen, ~w.thinkingOpen, NEW call \in Calls, NEW c, c \notin w.stopped
  PROVE  LET v == ClaudeCall(w, call, c) IN
         /\ v \in Tidy /\ ~v.textOpen /\ ~v.thinkingOpen /\ v.finished = w.finished
         /\ v.stopped \subseteq w.stopped \cup {c}
  <1> DEFINE v == ClaudeCall(w, call, c)
  <1>1. CASE c \in Natives /\ w.block[c] # NoBlock
    <2> DEFINE to == Remaining(w, c)
               u == ClaudeDelta(w, c, to)
    <2>1. to \in 0 .. Full
      <3>1. w.streamed \in [Natives -> 0 .. Full]
        BY TidyFits DEF ClaudeWriters
      <3> QED BY <1>1, <3>1 DEF Remaining, Full
    <2> HIDE DEF to
    <2>2. u \in Tidy /\ Tells(w, u) /\ u.stopped = w.stopped /\ u.block[c] # NoBlock
      BY <1>1, <2>1, DeltaCallTidy
    <2> HIDE DEF u
    <2>3. /\ StopTool(u, c) \in Tidy /\ StopTool(u, c).stopped = u.stopped \cup {c}
          /\ StopTool(u, c).finished = u.finished
          /\ StopTool(u, c).textOpen = u.textOpen /\ StopTool(u, c).thinkingOpen = u.thinkingOpen
      BY <1>1, <2>2, StopToolTidy
    <2>4. v = StopTool(u, c)
      BY <1>1 DEF ClaudeCall, u, to
    <2> QED BY <2>2, <2>3, <2>4 DEF Tells
  <1>2. CASE c \notin Natives \/ w.block[c] = NoBlock
    <2> DEFINE u == [w EXCEPT !.seen = w.seen \cup {call}]
    <2>1. v = IF call \in w.seen THEN w ELSE WholeCall(u)
      BY <1>2 DEF ClaudeCall
    <2>2. w \in ClaudeWriters
      BY TidyFits
    <2>3. u \in ClaudeWriters
      BY <2>2 DEF ClaudeWriters
    <2>4. /\ u.wire = w.wire /\ u.next = w.next /\ u.textOpen = w.textOpen
          /\ u.thinkingOpen = w.thinkingOpen /\ u.finished = w.finished
          /\ u.block = w.block /\ u.stopped = w.stopped
      BY <2>2 DEF ClaudeWriters
    <2> HIDE DEF u, v
    <2>5. u \in Tidy
      BY <2>3, <2>4, FlagsTidy
    <2>6. /\ WholeCall(u) \in Tidy /\ ~WholeCall(u).textOpen /\ ~WholeCall(u).thinkingOpen
          /\ WholeCall(u).finished = u.finished /\ WholeCall(u).stopped = u.stopped
      BY <2>4, <2>5, WholeCallTidy
    <2> QED BY <2>1, <2>4, <2>6 DEF v
  <1> QED BY <1>1, <1>2

-----------------------------------------------------------------------------
(* Events.                                                                 *)

\* An answer between two events.
Settled == {w \in Tidy : ~w.textOpen /\ ~w.finished /\ (w.pending => ~w.thinkingOpen)}

LEMMA SettledFits ==
  ASSUME NEW w \in Settled
  PROVE  w \in Tidy /\ ~w.textOpen /\ ~w.finished /\ (w.pending => ~w.thinkingOpen)
  BY DEF Settled

LEMMA EventSettles ==
  ASSUME NEW w \in Settled, NEW e \in Events(TRUE), e.type = "tool_call" => e.id \notin w.stopped
  PROVE  LET v == ClaudeEvent(w, e) IN
         /\ v \in Settled
         /\ v.stopped \subseteq w.stopped \cup (IF e.type = "tool_call" THEN {e.id} ELSE {})
  <1>1. w \in Tidy /\ ~w.textOpen /\ ~w.finished /\ (w.pending => ~w.thinkingOpen)
    BY SettledFits
  <1>2. CASE e.type = "text"
    <2> DEFINE u == EndThinking(w)
               v == QueueText(u, e.text)
    <2>1. u \in Tidy /\ ~u.thinkingOpen /\ u.textOpen = w.textOpen /\ Rests(w, u)
      BY <1>1, EndThinkingTidy
    <2> HIDE DEF u
    <2>2. /\ v \in Tidy /\ v.textOpen = u.textOpen /\ v.thinkingOpen = u.thinkingOpen
          /\ v.finished = u.finished /\ v.stopped = u.stopped
      BY <2>1, QueueTextTidy
    <2>3. ClaudeEvent(w, e) = v
      BY <1>2 DEF ClaudeEvent, u
    <2> HIDE DEF v
    <2> QED BY <1>1, <2>1, <2>2, <2>3 DEF Rests, Settled
  <1>3. CASE e.type = "thinking"
    <2> DEFINE u == FlushPending(w)
               t == EndText(u)
               v == EmitThinking(t)
    <2>1. /\ u \in Tidy /\ u.thinkingOpen = w.thinkingOpen /\ ~u.pending
          /\ u.finished = w.finished /\ u.stopped = w.stopped
      BY <1>1, FlushPendingTidy
    <2> HIDE DEF u
    <2>2. t \in Tidy /\ ~t.textOpen /\ Rests(u, t)
      BY <2>1, EndTextTidy
    <2> HIDE DEF t
    <2>3. v \in Tidy /\ v.thinkingOpen /\ ~v.textOpen /\ Keeps(t, v)
      BY <2>2, EmitThinkingTidy
    <2>4. ClaudeEvent(w, e) = v
      BY <1>3 DEF ClaudeEvent, u, t
    <2> HIDE DEF v
    <2>5. ~v.pending /\ ~v.finished /\ v.stopped = w.stopped
      BY <1>1, <2>1, <2>2, <2>3 DEF Rests, Keeps
    <2> QED BY <2>3, <2>4, <2>5 DEF Settled
  <1>4. CASE e.type = "tool_call"
    <2> DEFINE t == CallsTool(w)
               u == EndText(t)
               x == EndThinking(u)
               v == ClaudeCall(x, e.call, e.id)
    <2>1. t \in Tidy /\ t.finished = w.finished /\ t.stopped = w.stopped
      BY <1>1, CallsToolTidy
    <2> HIDE DEF t
    <2>2. u \in Tidy /\ ~u.textOpen /\ Rests(t, u)
      BY <2>1, EndTextTidy
    <2> HIDE DEF u
    <2>3. x \in Tidy /\ ~x.thinkingOpen /\ x.textOpen = u.textOpen /\ Rests(u, x)
      BY <2>2, EndThinkingTidy
    <2> HIDE DEF x
    <2>4. e.call \in Calls
      BY <1>4 DEF Events, Utterances
    <2>5. ~x.textOpen /\ x.finished = w.finished /\ x.stopped = w.stopped /\ e.id \notin x.stopped
      BY <1>4, <2>1, <2>2, <2>3 DEF Rests
    <2>6. /\ v \in Tidy /\ ~v.textOpen /\ ~v.thinkingOpen /\ v.finished = x.finished
          /\ v.stopped \subseteq x.stopped \cup {e.id}
      BY <2>3, <2>4, <2>5, ClaudeCallTidy
    <2>7. ClaudeEvent(w, e) = v
      BY <1>4 DEF ClaudeEvent, t, u, x
    <2> HIDE DEF v
    <2> QED BY <1>1, <1>4, <2>5, <2>6, <2>7 DEF Settled
  <1>5. e.type \in {"text", "thinking", "tool_call"}
    BY DEF Events, Utterances
  <1> QED BY <1>2, <1>3, <1>4, <1>5

\* An answer that comes of w, its blocks stopped for the calls D at most.
SettledAfter(w, D) == {v \in Settled : v.stopped \subseteq w.stopped \cup D}

LEMMA SettledSpeaks ==
  ASSUME request.api = "claude", NEW w, NEW D, NEW v \in SettledAfter(w, D), NEW e \in Utterances(TRUE)
  PROVE  Handled(v, e) \in SettledAfter(w, D)
  <1> DEFINE x == ClaudeEvent(v, e)
  <1>1. v \in Settled /\ v.stopped \subseteq w.stopped \cup D /\ e \in Events(TRUE)
    BY UtteranceEvent DEF SettledAfter
  <1>2. Handled(v, e) = IF IsValid(e) THEN x ELSE v
    BY DEF Handled
  <1>3. v.stopped \in SUBSET Natives
    BY <1>1, SettledFits, TidyFits
  <1>4. e.type = "tool_call" => e.id \notin Natives
    BY UtteranceEvent, NativesAssumption
  <1>5. x \in Settled /\ x.stopped \subseteq v.stopped \cup (IF e.type = "tool_call" THEN {e.id} ELSE {})
    BY <1>1, <1>3, <1>4, EventSettles
  <1> HIDE DEF x
  <1>6. x.stopped \in SUBSET Natives
    BY <1>5, SettledFits, TidyFits
  <1>7. x.stopped \subseteq v.stopped
    BY <1>4, <1>5, <1>6
  <1> QED BY <1>1, <1>2, <1>5, <1>7 DEF SettledAfter

LEMMA SettledLists ==
  ASSUME request.api = "claude", NEW w, NEW D, NEW v \in SettledAfter(w, D), NEW broken,
         NEW c \in Natives \ D, c \notin w.stopped
  PROVE  Handled(v, Native(c, broken)) \in SettledAfter(w, D \cup {c})
  <1> DEFINE e == Native(c, broken)
             x == ClaudeEvent(v, e)
  <1>1. e \in Events(TRUE) /\ e.type = "tool_call" /\ e.id = c
    BY NativeEvent
  <1>2. v \in Settled /\ v.stopped \subseteq w.stopped \cup D
    BY DEF SettledAfter
  <1>3. Handled(v, e) = IF IsValid(e) THEN x ELSE v
    BY DEF Handled
  <1>4. c \notin v.stopped
    BY <1>2
  <1> HIDE DEF e
  <1>5. x \in Settled /\ x.stopped \subseteq v.stopped \cup {c}
    BY <1>1, <1>2, <1>4, EventSettles
  <1> HIDE DEF x
  <1>6. Handled(v, e) \in SettledAfter(w, D \cup {c})
    BY <1>2, <1>3, <1>5 DEF SettledAfter
  <1> QED BY <1>6 DEF e

LEMMA SettledForwards ==
  ASSUME request.api = "claude", NEW w \in Settled, NEW events \in Seq(Utterances(TRUE))
  PROVE  Forwarded(w, events) \in SettledAfter(w, {})
  <1>1. w \in SettledAfter(w, {})
    BY DEF SettledAfter
  <1>2. \A v \in SettledAfter(w, {}), e \in Utterances(TRUE) : Handled(v, e) \in SettledAfter(w, {})
    BY SettledSpeaks
  <1> QED BY <1>1, <1>2, ForwardedStays

\* ListingThrough again, its hypotheses named.
AllSpeak(Q, T) == \A D \in SUBSET Natives : \A v \in Q[D] : \A e \in T : Handled(v, e) \in Q[D]
AllList(Q, cs, broken) ==
  \A D \in SUBSET Natives : \A v \in Q[D] : \A c \in Range(cs) \ D :
    Handled(v, Native(c, broken)) \in Q[D \cup {c}]

LEMMA ListingStays ==
  ASSUME NEW w, NEW Q, w \in Q[{}], NEW T, NEW events \in Seq(T),
         NEW cs \in Seq(Natives), IsInjective(cs), NEW broken, AllSpeak(Q, T), AllList(Q, cs, broken)
  PROVE  Forwarded(w, events \o [i \in DOMAIN cs |-> Native(cs[i], broken)]) \in Q[Range(cs)]
  BY ListingThrough, Zenon DEF AllSpeak, AllList

LEMMA SettledListing ==
  ASSUME request.api = "claude", NEW w \in Settled, NEW events \in Seq(Utterances(TRUE)),
         NEW cs \in Seq(Natives), IsInjective(cs), NEW broken, Range(cs) \cap w.stopped = {}
  PROVE  Forwarded(w, events \o [i \in DOMAIN cs |-> Native(cs[i], broken)])
           \in SettledAfter(w, Range(cs))
  <1> DEFINE Q == [D \in SUBSET Natives |-> SettledAfter(w, D)]
             U == Utterances(TRUE)
  <1>1. Range(cs) \in SUBSET Natives /\ {} \in SUBSET Natives
    BY DEF Range
  <1>2. \A D \in SUBSET Natives : Q[D] = SettledAfter(w, D)
    OBVIOUS
  <1> HIDE DEF Q
  <1>3. w \in Q[{}]
    BY <1>1, <1>2 DEF SettledAfter
  <1>4. ASSUME NEW D \in SUBSET Natives, NEW v \in Q[D], NEW e \in U
        PROVE  Handled(v, e) \in Q[D]
    <2>1. Q[D] = SettledAfter(w, D)
      BY <1>2
    <2>2. v \in SettledAfter(w, D)
      BY <2>1
    <2>3. Handled(v, e) \in SettledAfter(w, D)
      BY <2>2, SettledSpeaks
    <2> QED BY <2>1, <2>3
  <1>5. ASSUME NEW D \in SUBSET Natives, NEW v \in Q[D], NEW c \in Range(cs) \ D
        PROVE  Handled(v, Native(c, broken)) \in Q[D \cup {c}]
    <2>1. D \cup {c} \in SUBSET Natives /\ c \in Natives \ D /\ v \in SettledAfter(w, D)
          /\ c \notin w.stopped
      BY <1>1, <1>2
    <2>2. Handled(v, Native(c, broken)) \in SettledAfter(w, D \cup {c})
      BY <2>1, SettledLists
    <2> QED BY <1>2, <2>1, <2>2
  <1>6. events \in Seq(U)
    OBVIOUS
  <1> HIDE DEF U
  <1>7. AllSpeak(Q, U)
    BY <1>4 DEF AllSpeak
  <1>8. AllList(Q, cs, broken)
    BY <1>5 DEF AllList
  <1>9. Forwarded(w, events \o [i \in DOMAIN cs |-> Native(cs[i], broken)]) \in Q[Range(cs)]
    BY <1>3, <1>6, <1>7, <1>8, ListingStays
  <1> QED BY <1>1, <1>2, <1>9

LEMMA SettledRest ==
  ASSUME request.api = "claude", NEW w \in Settled, NEW events \in Seq(Utterances(TRUE))
  PROVE  \E v \in Settled : Forwarded(w, events \o <<End>>) = ClaudeFinish(v)
  <1> DEFINE all == events \o <<End>>
             N == Len(events)
             U == Utterances(TRUE)
             S == SettledAfter(w, {})
             Q == [n \in 0 .. N + 1 |-> IF n <= N THEN S ELSE {ClaudeFinish(v) : v \in S}]
  <1>1. N \in Nat /\ Len(all) = N + 1 /\ all[N + 1] = End /\ \A n \in 1 .. N : all[n] \in U
    BY Ended, Zenon
  <1> HIDE DEF all, N, S, U
  <1>2. w \in Q[0]
    BY <1>1 DEF S, SettledAfter
  <1>3. ASSUME NEW n \in 1 .. Len(all), NEW v \in Q[n - 1] PROVE Handled(v, all[n]) \in Q[n]
    <2>1. v \in S
      BY <1>1, <1>3
    <2>2. CASE n <= N
      <3>1. all[n] \in U
        BY <1>1, <2>2
      <3>2. Handled(v, all[n]) \in S
        BY <2>1, <3>1, SettledSpeaks DEF S, U
      <3> QED BY <1>1, <2>2, <3>2
    <2>3. CASE n = N + 1
      <3>1. Handled(v, all[n]) = ClaudeFinish(v)
        BY <1>1, <2>3 DEF Handled, IsValid, End, ClaudeEvent
      <3> QED BY <1>1, <2>1, <2>3, <3>1
    <2> QED BY <1>1, <2>2, <2>3
  <1>4. Q[N + 1] = {ClaudeFinish(v) : v \in S}
    BY <1>1
  <1> HIDE DEF Q
  <1>5. Forwarded(w, all) \in Q[N + 1]
    BY <1>1, <1>2, <1>3, ForwardedThrough
  <1> QED BY <1>4, <1>5 DEF all, S, SettledAfter

-----------------------------------------------------------------------------
(* The end of a message.                                                   *)

\* One sequence after another, element by element.
Follows(x, u, a) ==
  /\ Len(u) \in Nat /\ Len(a) \in Nat /\ Len(x) = Len(u) + Len(a)
  /\ \A i \in 1 .. Len(u) : x[i] = u[i]
  /\ \A i \in 1 .. Len(a) : x[Len(u) + i] = a[i]

LEMMA Appended ==
  ASSUME NEW T, NEW u \in Seq(T), NEW a \in Seq(T)
  PROVE  u \o a \in Seq(T) /\ Follows(u \o a, u, a)
  <1>1. u \o a \in Seq(T) /\ Len(u) \in Nat /\ Len(a) \in Nat
    OBVIOUS
  <1>2. Len(u \o a) = Len(u) + Len(a)
    OBVIOUS
  <1>3. \A i \in 1 .. Len(u) : (u \o a)[i] = u[i]
    OBVIOUS
  <1>4. \A i \in 1 .. Len(a) : (u \o a)[Len(u) + i] = a[i]
    OBVIOUS
  <1> QED BY <1>1, <1>2, <1>3, <1>4 DEF Follows

LEMMA OneMore ==
  ASSUME NEW T, NEW u \in Seq(T), NEW lines \in Seq(T), NEW n \in 1 .. Len(lines)
  PROVE  u \o SubSeq(lines, 1, n) = (u \o SubSeq(lines, 1, n - 1)) \o <<lines[n]>>
  <1> DEFINE a == SubSeq(lines, 1, n)
             b == SubSeq(lines, 1, n - 1)
             l == lines[n]
             k == Len(u)
             x == u \o a
             z == u \o b
             y == z \o <<l>>
  <1>1. /\ a \in Seq(T) /\ Len(a) = n /\ b \in Seq(T) /\ Len(b) = n - 1 /\ l \in T /\ n \in Nat
        /\ <<l>> \in Seq(T) /\ Len(<<l>>) = 1 /\ <<l>>[1] = l /\ k \in Nat
    OBVIOUS
  <1>2. /\ \A i \in 1 .. n - 1 : a[i] = b[i]
        /\ a[n] = l
    OBVIOUS
  <1> HIDE DEF a, b, l
  <1>3. /\ x \in Seq(T) /\ Follows(x, u, a)
        /\ z \in Seq(T) /\ Follows(z, u, b)
    BY <1>1, Appended
  <1> HIDE DEF x, z
  <1>4. /\ Len(x) = k + n /\ \A i \in 1 .. k : x[i] = u[i]
        /\ \A i \in 1 .. n : x[k + i] = a[i]
        /\ Len(z) = k + (n - 1) /\ \A i \in 1 .. k : z[i] = u[i]
        /\ \A i \in 1 .. n - 1 : z[k + i] = b[i]
    BY <1>1, <1>3 DEF Follows
  <1>5. /\ y \in Seq(T) /\ Len(y) = k + (n - 1) + 1 /\ \A i \in 1 .. k + (n - 1) : y[i] = z[i]
        /\ y[k + (n - 1) + 1] = l
    <2>1. y \in Seq(T) /\ Follows(y, z, <<l>>)
      BY <1>1, <1>3, Appended
    <2> HIDE DEF y
    <2>2. 1 \in 1 .. 1 /\ Len(<<l>>) = 1
      OBVIOUS
    <2> QED BY <1>1, <1>4, <2>1, <2>2 DEF Follows
  <1> HIDE DEF y, k
  <1>6. Len(y) = k + n /\ y[k + n] = l
    BY <1>1, <1>5
  <1>7. ASSUME NEW i \in 1 .. k + n PROVE x[i] = y[i]
    <2>1. CASE i <= k
      BY <1>1, <1>4, <1>5, <2>1
    <2>2. CASE i = k + n
      <3>1. n \in 1 .. n /\ x[k + n] = a[n]
        BY <1>1, <1>4
      <3> QED BY <1>2, <1>6, <2>2, <3>1
    <2>3. CASE i > k /\ i < k + n
      <3> DEFINE j == i - k
      <3>1. j \in 1 .. n - 1 /\ j \in 1 .. n /\ i = k + j /\ i \in 1 .. k + (n - 1)
        BY <1>1, <2>3
      <3> HIDE DEF j
      <3> QED BY <1>2, <1>4, <1>5, <3>1
    <2> QED BY <1>1, <2>1, <2>2, <2>3
  <1>8. x = y
    BY <1>3, <1>4, <1>5, <1>6, <1>7, SeqEqual
  <1> QED BY <1>8 DEF x, y, z, a, b, l

\* Several lines, each of which turns what the writer takes for true into the next.
LEMMA LinesShow ==
  ASSUME NEW u \in Seq(Speech), NEW lines \in Seq(Speech), NEW X, Shows(u, X[0]),
         \A n \in 1 .. Len(lines) : Moves(X[n - 1], X[n], lines[n])
  PROVE  Shows(u \o lines, X[Len(lines)])
  <1> DEFINE N == Len(lines)
             P(n) == u \o SubSeq(lines, 1, n)
             G == {n \in 0 .. N : P(n) \in Seq(Speech) /\ Shows(P(n), X[n])}
  <1>1. N \in Nat /\ \A n \in 1 .. N : lines[n] \in Speech
    OBVIOUS
  <1>2. P(0) = u
    <2>1. SubSeq(lines, 1, 0) = <<>>
      OBVIOUS
    <2> QED BY <2>1
  <1>3. P(N) = u \o lines
    <2>1. SubSeq(lines, 1, N) = lines
      OBVIOUS
    <2> QED BY <2>1
  <1>4. ASSUME NEW n \in 1 .. N PROVE P(n) = P(n - 1) \o <<lines[n]>>
    BY OneMore
  <1> HIDE DEF P, N
  <1>5. 0 \in G
    BY <1>1, <1>2
  <1>6. ASSUME NEW n \in 1 .. N, n - 1 \in G PROVE n \in G
    <2>1. P(n - 1) \in Seq(Speech) /\ Shows(P(n - 1), X[n - 1]) /\ lines[n] \in Speech
      BY <1>1, <1>6
    <2>2. Moves(X[n - 1], X[n], lines[n])
      BY DEF N
    <2>3. Shows(P(n - 1) \o <<lines[n]>>, X[n])
      BY <2>1, <2>2, LineShows
    <2>4. P(n) = P(n - 1) \o <<lines[n]>> /\ n \in 0 .. N
      BY <1>1, <1>4
    <2>5. P(n - 1) \o <<lines[n]>> \in Seq(Speech)
      BY <2>1, TwoLines
    <2>6. P(n) \in Seq(Speech) /\ Shows(P(n), X[n])
      BY <2>3, <2>4, <2>5, Zenon
    <2> QED BY <2>4, <2>6
  <1> HIDE DEF G
  <1>7. \A n \in 0 .. N : n \in G
    BY <1>1, <1>5, <1>6, UpTo
  <1>8. N \in G
    BY <1>1, <1>7
  <1> QED BY <1>3, <1>8 DEF G, N

\* The elements of a finite set in order: each has its place.
LEMMA OrderCovers ==
  ASSUME NEW S, IsFiniteSet(S)
  PROVE  LET f == SetToSeq(S) IN
         /\ f \in Seq(S) /\ Len(f) \in Nat
         /\ \A i, j \in 1 .. Len(f) : f[i] = f[j] => i = j
         /\ \A c \in S : \E i \in 1 .. Len(f) : f[i] = c
  <1> DEFINE f == SetToSeq(S)
  <1>1. PICK n \in Nat : ExistsBijection(1 .. n, S)
    BY FS_NatBijection
  <1>2. Cardinality(S) = n
    BY <1>1, FS_CountingElements
  <1>3. PICK g \in [1 .. n -> S] : IsInjective(g)
    BY <1>1 DEF ExistsBijection, Bijection, Injection
  <1>4. f \in [1 .. n -> S] /\ IsInjective(f)
    BY <1>2, <1>3 DEF SetToSeq
  <1> HIDE DEF f
  <1>5. \A i, j \in 1 .. n : f[i] = f[j] => i = j
    BY <1>4 DEF IsInjective
  <1>6. ASSUME NEW c \in S, \A i \in 1 .. n : f[i] # c PROVE FALSE
    <2>1. f \in [1 .. n -> S \ {c}]
      BY <1>4, <1>6
    <2>2. IsFiniteSet(S \ {c}) /\ Cardinality(S \ {c}) = n - 1
      BY <1>2, FS_RemoveElement
    <2>3. IsFiniteSet(1 .. n) /\ Cardinality(1 .. n) = n
      <3>1. 1 \in Int /\ n \in Int
        OBVIOUS
      <3>2. IsFiniteSet(1 .. n) /\ Cardinality(1 .. n) = IF 1 > n THEN 0 ELSE n - 1 + 1
        BY <3>1, FS_Interval
      <3> QED BY <3>2
    <2>4. Cardinality(S \ {c}) < Cardinality(1 .. n)
      BY <2>2, <2>3
    <2>5. \E x, y \in 1 .. n : x # y /\ f[x] = f[y]
      BY <2>1, <2>2, <2>3, <2>4, FS_PigeonHole
    <2> QED BY <1>5, <2>5
  <1>7. f \in Seq(S) /\ Len(f) = n
    BY <1>4
  <1> QED BY <1>5, <1>6, <1>7 DEF f

\* Nothing is open any more.
Shut(u) == u \in Seq(Speech) /\ LinesRight(u) /\ \A b \in Int, kind \in Kinds : ~OpenNow(u, b, kind)

LEMMA StopToolsTidy ==
  ASSUME NEW w \in Tidy, ~w.textOpen, ~w.thinkingOpen
  PROVE  Shut(StopTools(w).wire)
  <1> DEFINE open == {c \in Natives \ w.stopped : w.block[c] # NoBlock}
             order == SetToSeq(open)
             N == Len(order)
             Early(n) == {order[i] : i \in 1 .. n}
             X == [n \in 0 .. N |-> [w EXCEPT !.stopped = w.stopped \cup Early(n)]]
             lines == [i \in DOMAIN order |-> Line("stop", w.block[order[i]], "tool")]
             v == [w EXCEPT !.stopped = w.stopped \cup open]
  <1>1. /\ w \in ClaudeWriters /\ w.wire \in Seq(Speech) /\ BlocksFit(w) /\ Shows(w.wire, w)
        /\ w.block \in [Natives -> Int] /\ w.stopped \in SUBSET Natives
    BY TidyFits
  <1>2. /\ order \in Seq(open) /\ N \in Nat
        /\ \A i, j \in 1 .. N : order[i] = order[j] => i = j
        /\ \A c \in open : \E i \in 1 .. N : order[i] = c
    <2>1. IsFiniteSet(open)
      BY NativesAssumption, FS_Subset
    <2> HIDE DEF open
    <2> QED BY <2>1, OrderCovers
  <1>3. StopTools(w) = Send(v, lines)
    BY DEF StopTools
  <1> HIDE DEF order
  <1>4. DOMAIN order = 1 .. N /\ \A i \in 1 .. N : order[i] \in open
    BY <1>2
  <1>5. lines \in Seq(Speech) /\ Len(lines) = N
    <2>1. \A i \in 1 .. N : w.block[order[i]] \in Int
      BY <1>1, <1>4
    <2>2. \A i \in 1 .. N : Line("stop", w.block[order[i]], "tool") \in Speech
      BY <2>1, LinesFit DEF Speech
    <2> HIDE DEF open
    <2> QED BY <1>2, <1>4, <2>2
  <1>6. \A i \in 1 .. N : lines[i] = Line("stop", w.block[order[i]], "tool")
    BY <1>4
  <1>7. ASSUME NEW n \in 0 .. N
        PROVE  /\ X[n].next = w.next /\ X[n].textOpen = w.textOpen /\ X[n].thinkingOpen = w.thinkingOpen
               /\ X[n].block = w.block /\ X[n].stopped = w.stopped \cup Early(n)
    BY <1>1 DEF ClaudeWriters
  <1>8. Early(0) = {} /\ Early(N) = open
    <2>1. Early(0) = {}
      OBVIOUS
    <2>2. Early(N) \subseteq open
      BY <1>4
    <2>3. open \subseteq Early(N)
      BY <1>2
    <2> QED BY <2>1, <2>2, <2>3
  <1>9. ASSUME NEW n \in 1 .. N PROVE Early(n) = Early(n - 1) \cup {order[n]} /\ order[n] \notin Early(n - 1)
    <2>1. \A i \in 1 .. n : i \in 1 .. n - 1 \/ i = n
      BY <1>2
    <2>2. \A i \in 1 .. n - 1 : i \in 1 .. n /\ i \in 1 .. N /\ i # n
      BY <1>2
    <2> QED BY <1>2, <2>1, <2>2
  <1> HIDE DEF Early, X, lines, N
  <1>10. ASSUME NEW n \in 1 .. N PROVE Moves(X[n - 1], X[n], lines[n])
    <2> DEFINE x == X[n - 1]
               y == X[n]
               c == order[n]
               l == lines[n]
    <2>1. n \in 0 .. N /\ n - 1 \in 0 .. N
      BY <1>2
    <2>2. /\ x.next = w.next /\ x.textOpen = w.textOpen /\ x.thinkingOpen = w.thinkingOpen
          /\ x.block = w.block /\ x.stopped = w.stopped \cup Early(n - 1)
          /\ y.next = w.next /\ y.textOpen = w.textOpen /\ y.thinkingOpen = w.thinkingOpen
          /\ y.block = w.block /\ y.stopped = x.stopped \cup {c}
      BY <1>7, <1>9, <2>1
    <2>3. c \in Natives /\ c \notin x.stopped /\ w.block[c] # NoBlock /\ w.block[c] \in Int
      BY <1>1, <1>4, <1>9, <2>2
    <2>4. l.type = "stop" /\ l.index = w.block[c] /\ l.kind = "tool"
      <3>1. l = Line("stop", w.block[c], "tool")
        BY <1>6
      <3> HIDE DEF l, c
      <3> QED BY <3>1 DEF Line
    <2> HIDE DEF x, y, c, l
    <2>5. ASSUME NEW b \in Int, NEW kind \in Kinds
          PROVE  OpenIn(y, b, kind) <=> OpenIn(x, b, kind) /\ b # w.block[c]
      <3>1. \A d \in Natives : w.block[d] = w.block[c] => d = c
        BY <1>1, <2>3 DEF BlocksFit, BlocksApart
      <3>2. (\E d \in Natives \ y.stopped : y.block[d] = b)
              <=> (\E d \in Natives \ x.stopped : x.block[d] = b) /\ b # w.block[c]
        BY <2>2, <3>1
      <3> QED BY <2>2, <3>2 DEF OpenIn
    <2>6. OpenIn(x, w.block[c], "tool")
      BY <2>2, <2>3 DEF OpenIn
    <2>7. Moves(x, y, l)
      BY <2>2, <2>3, <2>4, <2>5, <2>6 DEF Moves, StartsBlock, StopsBlock, Kinds
    <2> QED BY <2>7 DEF x, y, l
  <1>11. Shows(w.wire, X[0])
    <2>1. 0 \in 0 .. N
      BY <1>2 DEF N
    <2>2. \A b, kind : OpenIn(X[0], b, kind) <=> OpenIn(w, b, kind)
      BY <1>7, <1>8, <2>1 DEF OpenIn
    <2> QED BY <1>1, <1>7, <2>1, <2>2 DEF Shows
  <1>12. Shows(w.wire \o lines, X[N])
    <2>1. Len(lines) = N
      BY <1>5
    <2>2. \A n \in 1 .. Len(lines) : Moves(X[n - 1], X[n], lines[n])
      BY <1>10, <2>1
    <2>3. Shows(w.wire \o lines, X[Len(lines)])
      BY <1>1, <1>5, <1>11, <2>2, LinesShow
    <2> QED BY <2>1, <2>3
  <1>13. ASSUME NEW b \in Int, NEW kind \in Kinds PROVE ~OpenIn(X[N], b, kind)
    <2>1. N \in 0 .. N
      BY <1>2 DEF N
    <2>2. /\ ~X[N].textOpen /\ ~X[N].thinkingOpen /\ X[N].block = w.block
          /\ X[N].stopped = w.stopped \cup open
      BY <1>7, <1>8, <2>1
    <2> QED BY <2>2 DEF OpenIn
  <1>14. StopTools(w).wire = w.wire \o lines
    <2>1. v \in ClaudeWriters /\ v.wire = w.wire
      BY <1>1 DEF ClaudeWriters
    <2> HIDE DEF v
    <2>2. Send(v, lines) = [v EXCEPT !.wire = v.wire \o lines]
      BY <1>5, <2>1, SendFits
    <2>3. Send(v, lines).wire = w.wire \o lines
      BY <2>1, <2>2 DEF ClaudeWriters
    <2> QED BY <1>3, <2>3 DEF lines
  <1>15. w.wire \o lines \in Seq(Speech)
    BY <1>1, <1>5
  <1> QED BY <1>12, <1>13, <1>14, <1>15 DEF Shut, Shows

\* The thought of block b began and is never stopped.
Abandoned(u, b) ==
  /\ \E s \in DOMAIN u : u[s].type = "start" /\ u[s].index = b /\ u[s].kind = "thinking"
  /\ \A t \in DOMAIN u : ~StopsBlock(u[t], b)

LEMMA AbandonedOn ==
  ASSUME NEW T, NEW u \in Seq(T), NEW lines \in Seq(T), NEW b, Abandoned(u, b),
         \A i \in DOMAIN lines : ~StopsBlock(lines[i], b)
  PROVE  Abandoned(u \o lines, b)
  <1> DEFINE v == u \o lines
  <1>1. v \in Seq(T) /\ Follows(v, u, lines)
    BY Appended
  <1>2. DOMAIN u = 1 .. Len(u) /\ DOMAIN lines = 1 .. Len(lines)
    OBVIOUS
  <1> HIDE DEF v
  <1>3. DOMAIN v = 1 .. Len(u) + Len(lines)
    BY <1>1 DEF Follows
  <1>4. PICK s \in DOMAIN u : u[s].type = "start" /\ u[s].index = b /\ u[s].kind = "thinking"
    BY DEF Abandoned
  <1>5. s \in DOMAIN v /\ v[s] = u[s]
    BY <1>1, <1>2, <1>3 DEF Follows
  <1>6. ASSUME NEW t \in DOMAIN v PROVE ~StopsBlock(v[t], b)
    <2>1. CASE t <= Len(u)
      <3>1. t \in DOMAIN u /\ v[t] = u[t]
        BY <1>1, <1>2, <1>3, <2>1 DEF Follows
      <3> QED BY <3>1 DEF Abandoned
    <2>2. CASE t > Len(u)
      <3> DEFINE i == t - Len(u)
      <3>1. i \in 1 .. Len(lines) /\ t = Len(u) + i
        BY <1>1, <1>3, <2>2 DEF Follows
      <3> HIDE DEF i
      <3>2. i \in DOMAIN lines /\ v[t] = lines[i]
        BY <1>1, <1>2, <3>1 DEF Follows
      <3> QED BY <3>2
    <2> QED BY <1>1, <1>3, <2>1, <2>2 DEF Follows
  <1>7. Abandoned(v, b)
    BY <1>4, <1>5, <1>6 DEF Abandoned
  <1> QED BY <1>7 DEF v

\* A block that is open has not been stopped before either: no two have its index.
LEMMA NotYetStopped ==
  ASSUME NEW u \in Seq(Speech), LinesRight(u), NEW b, OpenNow(u, b, "thinking")
  PROVE  Abandoned(u, b)
  <1>1. Len(u) \in Nat /\ DOMAIN u = 1 .. Len(u)
    OBVIOUS
  <1>2. PICK s \in 1 .. Len(u) :
          /\ u[s].type = "start" /\ u[s].index = b /\ u[s].kind = "thinking"
          /\ \A t \in s .. Len(u) : ~(u[t].type = "stop" /\ u[t].index = b)
    BY DEF OpenNow, OpenAfter
  <1>3. ASSUME NEW t \in 1 .. Len(u), StopsBlock(u[t], b) PROVE FALSE
    <2>1. t < s
      BY <1>1, <1>2, <1>3 DEF StopsBlock
    <2>2. LineRight(u, t) /\ LineRight(u, s)
      BY <1>1 DEF LinesRight
    <2>3. OpenAfter(u, t - 1, b, u[t].kind)
      BY <1>3, <2>2 DEF LineRight, StopsBlock
    <2>4. PICK r \in 1 .. t - 1 : u[r].type = "start" /\ u[r].index = b
      BY <2>3 DEF OpenAfter
    <2>5. r \in 1 .. Len(u) /\ r \in 1 .. s - 1
      BY <1>1, <2>1
    <2>6. b = Cardinality(Starts(u, r - 1)) /\ b = Cardinality(Starts(u, s - 1))
      BY <1>1, <1>2, <2>2, <2>4, <2>5 DEF LinesRight, LineRight
    <2>7. Starts(u, r - 1) \subseteq Starts(u, s - 1) \ {r} /\ r \in Starts(u, s - 1)
      BY <2>4, <2>5 DEF Starts
    <2>8. IsFiniteSet(Starts(u, s - 1))
      <3>1. 1 \in Int /\ s - 1 \in Int
        BY <1>1
      <3>2. IsFiniteSet(1 .. s - 1)
        BY <3>1, FS_Interval
      <3>3. Starts(u, s - 1) \in SUBSET (1 .. s - 1)
        BY DEF Starts
      <3> QED BY <3>2, <3>3, FS_Subset
    <2> DEFINE S == Starts(u, s - 1)
               R == Starts(u, r - 1)
    <2> HIDE DEF S, R
    <2>9. IsFiniteSet(S \ {r}) /\ Cardinality(S \ {r}) = Cardinality(S) - 1 /\ Cardinality(S) \in Nat
      BY <2>7, <2>8, FS_RemoveElement, FS_CardinalityType DEF S
    <2>10. R \in SUBSET (S \ {r})
      BY <2>7 DEF S, R
    <2>11. Cardinality(R) <= Cardinality(S \ {r}) /\ Cardinality(R) \in Nat
      BY <2>9, <2>10, FS_Subset, FS_CardinalityType
    <2> QED BY <2>6, <2>9, <2>11 DEF S, R
  <1> QED BY <1>1, <1>2, <1>3 DEF Abandoned

\* A writer whose message ends with the thought of block b left open.
Forsaken(b) ==
  {w \in ClaudeWriters :
     /\ w.finished /\ w.suppressed /\ ~w.hasToolCall
     /\ b < w.next - 1 /\ \A c \in Natives : w.block[c] # b
     /\ Abandoned(w.wire, b)}

LEMMA SendForsakes ==
  ASSUME NEW b \in Int, NEW w \in Forsaken(b), NEW v \in ClaudeWriters,
         v.finished = w.finished, v.suppressed = w.suppressed, v.hasToolCall = w.hasToolCall,
         v.next = w.next, v.block = w.block, v.wire = w.wire,
         NEW lines \in Seq(Speech), \A i \in DOMAIN lines : ~StopsBlock(lines[i], b)
  PROVE  Send(v, lines) \in Forsaken(b)
  <1> DEFINE x == Send(v, lines)
  <1>1. w \in ClaudeWriters /\ Abandoned(w.wire, b) /\ w.wire \in Seq(Speech)
    BY DEF Forsaken, ClaudeWriters
  <1>2. x \in ClaudeWriters /\ x = [v EXCEPT !.wire = v.wire \o lines]
    BY SendFits
  <1> HIDE DEF x
  <1>3. /\ x.finished = w.finished /\ x.suppressed = w.suppressed /\ x.hasToolCall = w.hasToolCall
        /\ x.next = w.next /\ x.block = w.block /\ x.wire = w.wire \o lines
    BY <1>2 DEF ClaudeWriters
  <1>4. Abandoned(x.wire, b)
    BY <1>1, <1>3, AbandonedOn
  <1>5. x \in Forsaken(b)
    BY <1>2, <1>3, <1>4 DEF Forsaken
  <1> QED BY <1>5 DEF x

LEMMA EndsForsaken ==
  ASSUME NEW b \in Int, NEW w \in Forsaken(b)
  PROVE  EndText(w) \in Forsaken(b) /\ EndThinking(w) \in Forsaken(b) /\ StopTools(w) \in Forsaken(b)
  <1>1. /\ w \in ClaudeWriters /\ w.next \in Int /\ w.next - 1 \in Int /\ b < w.next - 1
        /\ w.block \in [Natives -> Int] /\ \A c \in Natives : w.block[c] # b
    <2>1. w \in ClaudeWriters /\ b < w.next - 1 /\ \A c \in Natives : w.block[c] # b
      BY DEF Forsaken
    <2> QED BY <2>1, NextFits DEF ClaudeWriters
  <1>2. EndText(w) \in Forsaken(b)
    <2> DEFINE v == [w EXCEPT !.textOpen = FALSE]
               l == Line("stop", w.next - 1, "text")
    <2>1. v \in ClaudeWriters
      BY <1>1 DEF ClaudeWriters
    <2>2. /\ v.finished = w.finished /\ v.suppressed = w.suppressed /\ v.hasToolCall = w.hasToolCall
          /\ v.next = w.next /\ v.block = w.block /\ v.wire = w.wire
      BY <1>1 DEF ClaudeWriters
    <2>3. l \in Speech /\ l.index = w.next - 1
      BY <1>1, LinesFit DEF Speech, Line
    <2>4. EndText(w) = IF w.textOpen THEN Send(v, <<l>>) ELSE w
      BY DEF EndText
    <2> HIDE DEF v, l
    <2>5. <<l>> \in Seq(Speech) /\ \A i \in DOMAIN <<l>> : ~StopsBlock(<<l>>[i], b)
      BY <1>1, <2>3 DEF StopsBlock
    <2>6. Send(v, <<l>>) \in Forsaken(b)
      BY <2>1, <2>2, <2>5, SendForsakes
    <2> QED BY <2>4, <2>6
  <1>3. EndThinking(w) \in Forsaken(b)
    <2> DEFINE v == [w EXCEPT !.thinkingOpen = FALSE]
               l == Line("stop", w.next - 1, "thinking")
    <2>1. v \in ClaudeWriters
      BY <1>1 DEF ClaudeWriters
    <2>2. /\ v.finished = w.finished /\ v.suppressed = w.suppressed /\ v.hasToolCall = w.hasToolCall
          /\ v.next = w.next /\ v.block = w.block /\ v.wire = w.wire
      BY <1>1 DEF ClaudeWriters
    <2>3. l \in Speech /\ l.index = w.next - 1
      BY <1>1, LinesFit DEF Speech, Line
    <2>4. EndThinking(w) = IF w.thinkingOpen THEN Send(v, <<l>>) ELSE w
      BY DEF EndThinking
    <2> HIDE DEF v, l
    <2>5. <<l>> \in Seq(Speech) /\ \A i \in DOMAIN <<l>> : ~StopsBlock(<<l>>[i], b)
      BY <1>1, <2>3 DEF StopsBlock
    <2>6. Send(v, <<l>>) \in Forsaken(b)
      BY <2>1, <2>2, <2>5, SendForsakes
    <2> QED BY <2>4, <2>6
  <1>4. StopTools(w) \in Forsaken(b)
    <2> DEFINE open == {c \in Natives \ w.stopped : w.block[c] # NoBlock}
               order == SetToSeq(open)
               v == [w EXCEPT !.stopped = w.stopped \cup open]
               lines == [i \in DOMAIN order |-> Line("stop", w.block[order[i]], "tool")]
    <2>1. order \in Seq(open)
      <3>1. IsFiniteSet(open)
        BY NativesAssumption, FS_Subset
      <3> HIDE DEF open
      <3> QED BY <3>1, SetToSeqFits
    <2>2. v \in ClaudeWriters
      BY <1>1 DEF ClaudeWriters
    <2>3. /\ v.finished = w.finished /\ v.suppressed = w.suppressed /\ v.hasToolCall = w.hasToolCall
          /\ v.next = w.next /\ v.block = w.block /\ v.wire = w.wire
      BY <1>1 DEF ClaudeWriters
    <2>4. StopTools(w) = Send(v, lines)
      BY DEF StopTools
    <2> HIDE DEF order, v
    <2>5. \A i \in 1 .. Len(order) : order[i] \in Natives
      BY <2>1
    <2>6. \A i \in 1 .. Len(order) :
            LET l == Line("stop", w.block[order[i]], "tool") IN l \in Speech /\ ~StopsBlock(l, b)
      <3> SUFFICES ASSUME NEW i \in 1 .. Len(order)
                   PROVE  LET l == Line("stop", w.block[order[i]], "tool") IN
                          l \in Speech /\ ~StopsBlock(l, b)
        OBVIOUS
      <3>1. w.block[order[i]] \in Int /\ w.block[order[i]] # b
        BY <1>1, <2>5
      <3> QED BY <3>1, LinesFit DEF Speech, StopsBlock, Line
    <2>7. lines \in Seq(Speech) /\ DOMAIN lines = 1 .. Len(order)
      <3> HIDE DEF open
      <3> QED BY <2>1, <2>6
    <2>8. \A i \in DOMAIN lines : ~StopsBlock(lines[i], b)
      <3>1. DOMAIN order = 1 .. Len(order)
        BY <2>1
      <3>2. \A i \in 1 .. Len(order) : lines[i] = Line("stop", w.block[order[i]], "tool")
        BY <3>1
      <3> HIDE DEF lines
      <3> QED BY <2>6, <2>7, <3>2
    <2> HIDE DEF lines
    <2>9. Send(v, lines) \in Forsaken(b)
      BY <2>2, <2>3, <2>7, <2>8, SendForsakes
    <2> QED BY <2>4, <2>9
  <1> QED BY <1>2, <1>3, <1>4

\* What became of a message: it is on its way, it ended with nothing open, or its
\* last thought was left open.
Closed(u) ==
  \E body \in Seq(Speech), r \in {"tool_use", "end_turn"} :
    Shut(body) /\ u = body \o <<StopReason(r), MessageStop>>
LeftOpen(w) == w.finished /\ w.suppressed /\ ~w.hasToolCall /\ \E b : Abandoned(w.wire, b)
Told(w) == (w.wire \in Seq(Speech) /\ LinesRight(w.wire)) \/ Closed(w.wire) \/ LeftOpen(w)

LEMMA FinishTold ==
  ASSUME NEW w \in Settled
  PROVE  Told(ClaudeFinish(w))
  <1> DEFINE nothing == ~w.hasToolCall /\ ~w.pending /\ w.suppressed
             base == [w EXCEPT !.finished = TRUE, !.pending = w.pending \/ nothing]
             last == FlushPending(base)
             t == EndText(last)
             u == EndThinking(t)
             z == StopTools(u)
             r == IF w.hasToolCall THEN "tool_use" ELSE "end_turn"
             lines == <<StopReason(r), MessageStop>>
             v == ClaudeFinish(w)
  <1>1. w \in Tidy /\ w \in ClaudeWriters /\ ~w.textOpen /\ ~w.finished /\ (w.pending => ~w.thinkingOpen)
    BY SettledFits, TidyFits
  <1>2. base \in ClaudeWriters
    BY <1>1 DEF ClaudeWriters
  <1>3. /\ base.wire = w.wire /\ base.next = w.next /\ base.textOpen = w.textOpen
        /\ base.thinkingOpen = w.thinkingOpen /\ base.finished = TRUE
        /\ base.block = w.block /\ base.stopped = w.stopped /\ base.hasToolCall = w.hasToolCall
        /\ base.suppressed = w.suppressed /\ base.pending = (w.pending \/ nothing)
    BY <1>1 DEF ClaudeWriters
  <1>4. v = Send(z, lines)
    BY <1>1 DEF ClaudeFinish
  <1> HIDE DEF base
  <1>5. base \in Tidy
    BY <1>1, <1>2, <1>3, FlagsTidy
  <1>6. CASE base.pending => ~base.thinkingOpen
    <2>1. last \in Tidy
      BY <1>5, <1>6, FlushPendingTidy
    <2> HIDE DEF last
    <2>2. t \in Tidy /\ ~t.textOpen
      BY <2>1, EndTextTidy
    <2> HIDE DEF t
    <2>3. u \in Tidy /\ ~u.textOpen /\ ~u.thinkingOpen
      BY <2>2, EndThinkingTidy
    <2> HIDE DEF u
    <2>4. Shut(z.wire)
      BY <2>3, StopToolsTidy
    <2>5. z \in ClaudeWriters
      BY <2>3, StopToolsFits, TidyFits DEF KeepsCalls
    <2> HIDE DEF z
    <2>6. v.wire = z.wire \o lines
      BY <1>4, <2>5 DEF Send, ClaudeWriters
    <2>7. z.wire \in Seq(Speech) /\ r \in {"tool_use", "end_turn"}
      BY <2>4 DEF Shut
    <2> HIDE DEF v, r
    <2>8. Closed(v.wire)
      BY <2>4, <2>6, <2>7 DEF Closed
    <2> QED BY <2>8 DEF Told, v
  <1>7. CASE base.pending /\ base.thinkingOpen
    <2> DEFINE b == w.next - 1
               x == [base EXCEPT !.pending = FALSE]
               y == [x EXCEPT !.textOpen = TRUE, !.next = x.next + 1]
               k == Line("start", x.next, "text")
               l == Line("delta", x.next, "text")
    <2>1. nothing /\ w.thinkingOpen
      BY <1>1, <1>3, <1>7
    <2>2. /\ w.next \in Nat /\ w.next \in Int /\ b \in Int /\ w.wire \in Seq(Speech)
          /\ BlocksFit(w) /\ Shows(w.wire, w)
      BY <1>1, TidyFits
    <2>3. Abandoned(w.wire, b)
      <3>1. OpenIn(w, b, "thinking")
        BY <2>1 DEF OpenIn
      <3>2. LinesRight(w.wire) /\ OpenNow(w.wire, b, "thinking")
        BY <2>2, <3>1 DEF Shows, Kinds
      <3> QED BY <2>2, <3>2, NotYetStopped
    <2>4. \A c \in Natives : w.block[c] # b
      BY <2>1, <2>2 DEF BlocksFit
    <2>5. x \in ClaudeWriters
      BY <1>2 DEF ClaudeWriters
    <2>6. /\ x.wire = w.wire /\ x.next = w.next /\ x.block = w.block /\ x.hasToolCall = w.hasToolCall
          /\ x.suppressed = w.suppressed /\ x.finished = TRUE /\ x.textOpen = w.textOpen
      BY <1>2, <1>3 DEF ClaudeWriters
    <2>7. last = EmitText(x)
      BY <1>3, <1>7, <2>1 DEF FlushPending
    <2> HIDE DEF x
    <2>8. last = Send(y, <<k, l>>)
      BY <1>1, <2>6, <2>7 DEF EmitText
    <2>9. y \in ClaudeWriters
      <3>1. x.next + 1 \in Nat
        BY <2>2, <2>6
      <3> QED BY <2>5, <3>1 DEF ClaudeWriters
    <2>10. /\ y.wire = w.wire /\ y.next = w.next + 1 /\ y.block = w.block
           /\ y.hasToolCall = w.hasToolCall /\ y.suppressed = w.suppressed /\ y.finished = TRUE
      BY <2>5, <2>6 DEF ClaudeWriters
    <2>11. <<k, l>> \in Seq(Speech) /\ \A i \in DOMAIN <<k, l>> : ~StopsBlock(<<k, l>>[i], b)
      <3>1. k \in Speech /\ l \in Speech
        BY <2>2, <2>6, LinesFit DEF Speech
      <3>2. k.type = "start" /\ l.type = "delta"
        BY DEF Line
      <3> HIDE DEF k, l
      <3>3. \A i \in DOMAIN <<k, l>> : <<k, l>>[i] = k \/ <<k, l>>[i] = l
        OBVIOUS
      <3> QED BY <3>1, <3>2, <3>3 DEF StopsBlock
    <2> HIDE DEF y, k, l, b
    <2>12. y \in Forsaken(b)
      <3>1. b < y.next - 1
        BY <2>2, <2>10 DEF b
      <3>2. y.finished /\ y.suppressed /\ ~y.hasToolCall
        BY <2>1, <2>10
      <3> QED BY <2>3, <2>4, <2>9, <2>10, <3>1, <3>2 DEF Forsaken
    <2>13. last \in Forsaken(b)
      BY <2>2, <2>8, <2>9, <2>11, <2>12, SendForsakes
    <2> HIDE DEF last
    <2>14. t \in Forsaken(b)
      BY <2>2, <2>13, EndsForsaken
    <2> HIDE DEF t
    <2>15. u \in Forsaken(b)
      BY <2>2, <2>14, EndsForsaken
    <2> HIDE DEF u
    <2>16. z \in Forsaken(b)
      BY <2>2, <2>15, EndsForsaken
    <2> HIDE DEF z
    <2>17. z \in ClaudeWriters /\ z.finished /\ z.suppressed /\ ~z.hasToolCall /\ Abandoned(z.wire, b)
           /\ z.wire \in Seq(Speech)
      BY <2>16 DEF Forsaken, ClaudeWriters
    <2>18. /\ v.wire = z.wire \o lines /\ v.finished = z.finished /\ v.suppressed = z.suppressed
           /\ v.hasToolCall = z.hasToolCall
      BY <1>4, <2>17 DEF Send, ClaudeWriters
    <2>19. Abandoned(z.wire \o lines, b)
      <3> DEFINE p == StopReason(r)
                 q == MessageStop
                 T == Speech \cup {p, q}
      <3>1. p.type = "message_delta" /\ q.type = "message_stop"
        BY DEF StopReason, MessageStop
      <3> HIDE DEF p, q
      <3>2. z.wire \in Seq(T) /\ <<p, q>> \in Seq(T)
        BY <2>17
      <3>3. \A i \in DOMAIN <<p, q>> : <<p, q>>[i] = p \/ <<p, q>>[i] = q
        OBVIOUS
      <3>4. \A i \in DOMAIN <<p, q>> : ~StopsBlock(<<p, q>>[i], b)
        BY <3>1, <3>3 DEF StopsBlock
      <3> HIDE DEF T
      <3>5. Abandoned(z.wire \o <<p, q>>, b)
        BY <2>17, <3>2, <3>4, AbandonedOn
      <3> QED BY <3>5 DEF p, q
    <2> HIDE DEF v, lines
    <2>20. LeftOpen(v)
      BY <2>17, <2>18, <2>19 DEF LeftOpen
    <2> QED BY <2>20 DEF Told, v
  <1> QED BY <1>6, <1>7

-----------------------------------------------------------------------------
(* The inductive invariant.                                                *)

BlocksSoFar == writer \in Settled /\ writer.stopped \subseteq listed
BlocksTold == writer.wire = <<>> \/ Told(writer)

BlocksInv ==
  request.api = "claude" =>
    /\ phase = "streaming" => BlocksSoFar
    /\ phase \in {"ending", "done"} => BlocksTold

LEMMA NewClaudeSettled == NewClaude \in Settled /\ NewClaude.stopped = {}
  <1> DEFINE u == NewClaude.wire
  <1>1. NewClaude \in ClaudeWriters
    BY NewClaudeFits DEF ClaudeOpen
  <1>2. /\ NewClaude.next = 0 /\ ~NewClaude.textOpen /\ ~NewClaude.thinkingOpen /\ ~NewClaude.finished
        /\ ~NewClaude.pending /\ NewClaude.stopped = {}
        /\ \A c \in Natives : NewClaude.block[c] = NoBlock
    BY DEF NewClaude
  <1>3. u = <<[type |-> "message_start"]>>
    BY DEF NewClaude
  <1>4. u \in Seq(Speech) /\ Len(u) = 1 /\ DOMAIN u = 1 .. 1 /\ u[1].type = "message_start"
    <2>1. u \in Seq(Speech)
      BY <1>1 DEF ClaudeWriters
    <2>2. Len(u) = 1 /\ DOMAIN u = 1 .. 1 /\ u[1].type = "message_start"
      BY <1>3
    <2> QED BY <2>1, <2>2
  <1> HIDE DEF u
  <1>5. LinesRight(u)
    BY <1>4 DEF LinesRight, LineRight
  <1>6. BlocksSent(u) = 0
    <2>1. Starts(u, 1) = {}
      BY <1>4 DEF Starts
    <2> QED BY <1>4, <2>1, FS_EmptySet DEF BlocksSent
  <1>7. \A b, kind : ~OpenNow(u, b, kind)
    BY <1>4 DEF OpenNow, OpenAfter
  <1>8. \A b, kind : ~OpenIn(NewClaude, b, kind)
    BY <1>2 DEF OpenIn
  <1>9. Shows(u, NewClaude)
    BY <1>2, <1>5, <1>6, <1>7, <1>8 DEF Shows
  <1>10. BlocksFit(NewClaude)
    BY <1>2 DEF BlocksFit, BlocksApart
  <1> QED BY <1>1, <1>2, <1>9, <1>10 DEF Settled, Tidy, u

LEMMA InitBlocks == Init => BlocksInv
  BY DEF Init, BlocksInv

\* What is on the wire is right while an answer goes on.
LEMMA BlocksToldSoFar ==
  ASSUME StreamInv, BlocksInv, request.api = "claude"
  PROVE  BlocksTold
  <1>1. CASE phase \in {"new", "opening", "starting"}
    BY <1>1 DEF StreamInv, WriterInv, BlocksTold, NewCollector
  <1>2. CASE phase = "streaming"
    <2>1. writer \in Tidy
      BY <1>2, SettledFits DEF BlocksInv, BlocksSoFar
    <2>2. writer.wire \in Seq(Speech) /\ LinesRight(writer.wire)
      BY <2>1, TidyFits DEF Shows
    <2> QED BY <2>2 DEF BlocksTold, Told
  <1>3. CASE phase = "reopening"
    BY <1>3 DEF StreamInv, WriterInv, GoesOn
  <1>4. CASE phase \in {"ending", "done"}
    BY <1>4 DEF BlocksInv
  <1>5. phase \in {"new", "opening", "starting", "streaming", "reopening", "ending", "done"}
    BY DEF StreamInv, RequestInv
  <1> QED BY <1>1, <1>2, <1>3, <1>4, <1>5

\* A step to done that leaves the answer as it is.
LEMMA DoneBlocks ==
  ASSUME StreamInv, BlocksInv, phase' = "done", writer' = writer, request' = request
  PROVE  BlocksInv'
  <1>1. CASE request.api = "claude"
    <2>1. BlocksTold'
      BY <1>1, BlocksToldSoFar DEF BlocksTold
    <2> QED BY <2>1 DEF BlocksInv
  <1>2. CASE request.api # "claude"
    BY <1>2 DEF BlocksInv
  <1> QED BY <1>1, <1>2

\* A step that changes nothing the blocks depend on.
LEMMA SameBlocks ==
  ASSUME BlocksInv, phase' = phase, request' = request, writer' = writer, listed' = listed
  PROVE  BlocksInv'
  BY DEF BlocksInv, BlocksSoFar, BlocksTold

\* A step of an answer that goes on.
LEMMA BlocksGoOn ==
  ASSUME BlocksInv, Arrives, request.api = "claude" => (BlocksSoFar => BlocksSoFar')
  PROVE  BlocksInv'
  <1>1. phase = "streaming" /\ phase' = "streaming" /\ request' = request
    BY DEF Arrives
  <1> QED BY <1>1 DEF BlocksInv

LEMMA BeginBlocks ==
  ASSUME StreamInv, NEW api \in Apis, NEW pooled \in BOOLEAN, NEW thinks \in BOOLEAN,
         NEW mode, Begin(api, pooled, thinks, mode)
  PROVE  BlocksInv'
  <1>1. writer' = NewCollector /\ phase' \in {"opening", "done"}
    BY DEF Begin, StreamInv, WriterInv
  <1>2. BlocksTold'
    BY <1>1 DEF BlocksTold, NewCollector
  <1> QED BY <1>1, <1>2 DEF BlocksInv

LEMMA BeginsBlocks ==
  ASSUME AnswerBegins
  PROVE  BlocksInv'
  <1>1. phase' = "streaming" /\ request' = request /\ writer' = NewAnswer(request.api)
    BY DEF AnswerBegins
  <1>2. CASE request.api = "claude"
    <2>1. writer' = NewClaude
      BY <1>1, <1>2 DEF NewAnswer
    <2>2. BlocksSoFar'
      BY <2>1, NewClaudeSettled DEF BlocksSoFar
    <2> QED BY <1>1, <2>2 DEF BlocksInv
  <1>3. CASE request.api # "claude"
    BY <1>1, <1>3 DEF BlocksInv
  <1> QED BY <1>2, <1>3

LEMMA ChunkBlocks ==
  ASSUME StreamInv, BlocksInv, NEW text \in Texts, Chunk(text)
  PROVE  BlocksInv'
  <1> DEFINE p == Read(parser, text, request.tools, request.thinks)
  <1>1. Arrives /\ listed' = listed
    BY DEF Chunk
  <1>2. /\ request.tools \in BOOLEAN /\ request.thinks \in BOOLEAN
        /\ parser \in Parsers(request.tools, request.thinks) /\ text \in Seq(Lexemes)
    BY StreamAssumption DEF StreamInv, RequestInv, ParserInv
  <1>3. p \in Parsers(request.tools, request.thinks)
    BY <1>2, ReadFits
  <1>4. request.api = "claude" => writer' = Forwarded(writer, p.events)
    BY DEF Chunk, Parses
  <1> HIDE DEF p
  <1>5. p.events \in Seq(Utterances(request.thinks))
    BY <1>3 DEF Parsers, ParserRecords
  <1>6. p.events \in Seq(Utterances(TRUE))
    BY <1>5, Spoken
  <1>7. ASSUME request.api = "claude", BlocksSoFar PROVE BlocksSoFar'
    <2>1. writer' \in SettledAfter(writer, {})
      BY <1>4, <1>6, <1>7, SettledForwards DEF BlocksSoFar
    <2> QED BY <1>1, <1>7, <2>1 DEF BlocksSoFar, SettledAfter
  <1> QED BY <1>1, <1>7, BlocksGoOn

LEMMA ListedBlocks ==
  ASSUME StreamInv, BlocksInv, NEW cs \in Listings, IsInjective(cs), NEW broken \in SUBSET Strict,
         Listed(cs, broken)
  PROVE  BlocksInv'
  <1> DEFINE p == FlushText(parser)
             D == Range(cs)
             all == p.events \o [i \in DOMAIN cs |-> Native(cs[i], broken)]
  <1>1. Arrives /\ listed' = listed \cup D /\ \A c \in D : c \notin listed
    BY DEF Listed
  <1>2. /\ request.tools \in BOOLEAN /\ request.thinks \in BOOLEAN
        /\ parser \in Parsers(request.tools, request.thinks)
    BY DEF StreamInv, RequestInv, ParserInv
  <1>3. p \in Parsers(request.tools, request.thinks)
    BY <1>2, FlushTextFits
  <1>4. request.api = "claude" => writer' = Forwarded(writer, all)
    BY DEF Listed
  <1>5. cs \in Seq(Natives)
    <2>1. \/ cs = <<>>
          \/ \E c \in Natives : cs = <<c>>
          \/ \E c, d \in Natives : cs = <<c, d>>
      BY DEF Listings
    <2>2. /\ <<>> \in Seq(Natives) /\ \A c \in Natives : <<c>> \in Seq(Natives)
      OBVIOUS
    <2>3. \A c, d \in Natives : <<c, d>> \in Seq(Natives)
      OBVIOUS
    <2> QED BY <2>1, <2>2, <2>3
  <1> HIDE DEF p
  <1>6. p.events \in Seq(Utterances(request.thinks))
    BY <1>3 DEF Parsers, ParserRecords
  <1>7. p.events \in Seq(Utterances(TRUE))
    BY <1>6, Spoken
  <1>8. ASSUME request.api = "claude", BlocksSoFar PROVE BlocksSoFar'
    <2>1. writer \in Settled /\ writer.stopped \subseteq listed
      BY <1>8 DEF BlocksSoFar
    <2>2. Range(cs) \cap writer.stopped = {}
      BY <1>1, <2>1
    <2>3. Forwarded(writer, all) \in SettledAfter(writer, Range(cs))
      BY <1>5, <1>7, <1>8, <2>1, <2>2, SettledListing
    <2> HIDE DEF D, all
    <2>4. writer' \in Settled /\ writer'.stopped \subseteq writer.stopped \cup D
      BY <1>4, <1>8, <2>3 DEF SettledAfter, D
    <2> QED BY <1>1, <2>1, <2>4 DEF BlocksSoFar
  <1> QED BY <1>1, <1>8, BlocksGoOn

LEMMA DeltaBlocks ==
  ASSUME BlocksInv, NEW c \in Natives, NEW to \in 0 .. Full, Delta(c, to)
  PROVE  BlocksInv'
  <1>1. Arrives /\ listed' = listed /\ c \notin listed
    BY DEF Delta
  <1>2. ASSUME request.api = "claude", BlocksSoFar PROVE BlocksSoFar'
    <2>1. writer \in Settled /\ writer \in Tidy /\ writer.stopped \subseteq listed /\ c \notin writer.stopped
      BY <1>1, <1>2, SettledFits DEF BlocksSoFar
    <2>2. CASE writer' = ClaudeDelta(writer, c, to)
      <3>1. writer' \in Tidy /\ Tells(writer, writer') /\ writer'.stopped = writer.stopped
        BY <2>1, <2>2, DeltaCallTidy
      <3>2. ~writer.textOpen /\ ~writer.finished
        BY <2>1, SettledFits
      <3>3. writer' \in Settled
        BY <3>1, <3>2 DEF Settled, Tells
      <3> QED BY <1>1, <2>1, <3>1, <3>3 DEF BlocksSoFar
    <2>3. CASE writer' = writer
      BY <1>1, <1>2, <2>3 DEF BlocksSoFar
    <2>4. writer' = ClaudeDelta(writer, c, to) \/ writer' = writer
      BY <1>2 DEF Delta
    <2> QED BY <2>2, <2>3, <2>4
  <1> QED BY <1>1, <1>2, BlocksGoOn

LEMMA EmptyObjectBlocks ==
  ASSUME BlocksInv, NEW c \in Natives, EmptyObject(c)
  PROVE  BlocksInv'
  <1>1. Arrives /\ listed' = listed
    BY DEF EmptyObject
  <1>2. ASSUME request.api = "claude", BlocksSoFar PROVE BlocksSoFar'
    <2>1. writer' = writer
      BY <1>2 DEF EmptyObject
    <2> QED BY <1>1, <1>2, <2>1 DEF BlocksSoFar
  <1> QED BY <1>1, <1>2, BlocksGoOn

LEMMA UpstreamBlocks ==
  ASSUME StreamInv, BlocksInv, UpstreamEvent
  PROVE  BlocksInv'
  <1>1. CASE \E text \in Texts : Chunk(text)
    BY <1>1, ChunkBlocks
  <1>2. CASE \E c \in Natives : EmptyObject(c) \/ \E to \in 0 .. Full : Delta(c, to)
    BY <1>2, EmptyObjectBlocks, DeltaBlocks
  <1>3. CASE \E cs \in Listings, broken \in SUBSET Strict :
               IsInjective(cs) /\ broken \subseteq Range(cs) /\ Listed(cs, broken)
    BY <1>3, ListedBlocks
  <1> QED BY <1>1, <1>2, <1>3 DEF UpstreamEvent

\* The answer ends, or fails: either way the message is closed.
LEMMA ClosesBlocks ==
  ASSUME StreamInv, BlocksInv, phase = "streaming", request.api = "claude", request' = request,
         writer' = Forwarded(writer, Rest), phase' \in {"ending", "done"}
  PROVE  BlocksInv'
  <1>1. writer \in Settled
    BY DEF BlocksInv, BlocksSoFar
  <1>2. PICK events \in Seq(Utterances(request.thinks)) : Rest = events \o <<End>>
    BY Leftovers DEF StreamInv, RequestInv, ParserInv
  <1>3. events \in Seq(Utterances(TRUE))
    BY Spoken
  <1>4. PICK v \in Settled : Forwarded(writer, Rest) = ClaudeFinish(v)
    BY <1>1, <1>2, <1>3, SettledRest
  <1>5. Told(writer')
    BY <1>4, FinishTold
  <1>6. BlocksTold'
    BY <1>5 DEF BlocksTold, Told, LeftOpen
  <1> QED BY <1>6 DEF BlocksInv

LEMMA EndsBlocks ==
  ASSUME StreamInv, BlocksInv, NEW other \in BOOLEAN, Ends(other)
  PROVE  BlocksInv'
  <1>1. phase = "streaming" /\ request' = request
    BY DEF Ends
  <1>2. CASE request.api = "claude"
    <2>1. writer' = Forwarded(writer, Rest) /\ phase' = "ending"
      BY <1>2 DEF Ends, Parses, Retries
    <2> QED BY <1>1, <1>2, <2>1, ClosesBlocks
  <1>3. CASE request.api # "claude"
    BY <1>1, <1>3 DEF BlocksInv
  <1> QED BY <1>2, <1>3

LEMMA FailsBlocks ==
  ASSUME StreamInv, BlocksInv, NEW worded \in BOOLEAN, Fails(worded)
  PROVE  BlocksInv'
  <1>1. phase \in {"streaming", "reopening"} /\ phase' = "done" /\ request' = request
    BY DEF Fails
  <1>2. CASE request.api = "claude"
    <2>1. writer' = Forwarded(writer, Rest)
      BY <1>2 DEF Fails
    <2>2. phase # "reopening"
      BY <1>2 DEF StreamInv, WriterInv, GoesOn
    <2> QED BY <1>1, <1>2, <2>1, <2>2, ClosesBlocks
  <1>3. CASE request.api # "claude"
    BY <1>1, <1>3 DEF BlocksInv
  <1> QED BY <1>2, <1>3

LEMMA ReopensBlocks ==
  ASSUME StreamInv, Reopens
  PROVE  BlocksInv'
  <1>1. request.api # "claude" /\ request' = request
    BY DEF Reopens, StreamInv, WriterInv, GoesOn
  <1> QED BY <1>1 DEF BlocksInv

LEMMA BlocksStep == StreamInv /\ BlocksInv /\ [Next]_vars => BlocksInv'
  <1> SUFFICES ASSUME StreamInv, BlocksInv, [Next]_vars PROVE BlocksInv'
    OBVIOUS
  <1>1. CASE Requested
    BY <1>1, BeginBlocks DEF Requested
  <1>2. CASE SessionOpens
    BY <1>2 DEF SessionOpens, BlocksInv
  <1>3. CASE SessionFails
    BY <1>3, DoneBlocks DEF SessionFails
  <1>4. CASE UpstreamEvent
    BY <1>4, UpstreamBlocks
  <1>5. CASE \E other \in BOOLEAN : Ends(other)
    BY <1>5, EndsBlocks
  <1>6. CASE Reopens
    BY <1>6, ReopensBlocks
  <1>7. CASE Reported
    BY <1>7, DoneBlocks DEF Reported
  <1>8. CASE Downgrades
    BY <1>8, SameBlocks DEF Downgrades, upstreamVars
  <1>9. CASE \E worded \in BOOLEAN : Fails(worded)
    BY <1>9, FailsBlocks
  <1>10. CASE ClientGone
    BY <1>10, DoneBlocks DEF ClientGone
  <1>11. CASE UNCHANGED vars
    BY <1>11, SameBlocks DEF vars, upstreamVars
  <1>12. CASE AnswerBegins
    BY <1>12, BeginsBlocks
  <1>13. CASE \E logged \in BOOLEAN : LeavesEarly(logged)
    BY <1>13, DoneBlocks DEF LeavesEarly
  <1> QED BY <1>1, <1>2, <1>3, <1>4, <1>5, <1>6, <1>7, <1>8, <1>9, <1>10, <1>11, <1>12, <1>13 DEF Next

-----------------------------------------------------------------------------
(* The theorem.                                                            *)

\* Lines are right with more after them.
LEMMA PrefixRight ==
  ASSUME NEW u, NEW v, NEW n \in Nat, \A i \in 1 .. n : v[i] = u[i], NEW m \in 0 .. n
  PROVE  /\ Starts(v, m) = Starts(u, m)
         /\ \A b, kind : OpenAfter(v, m, b, kind) <=> OpenAfter(u, m, b, kind)
  <1>1. \A s \in 1 .. m : v[s] = u[s] /\ \A t \in s .. m : t \in 1 .. m
    OBVIOUS
  <1>2. ASSUME NEW b, NEW kind PROVE OpenAfter(v, m, b, kind) <=> OpenAfter(u, m, b, kind)
    BY <1>1 DEF OpenAfter
  <1>3. Starts(v, m) = Starts(u, m)
    BY <1>1 DEF Starts
  <1> QED BY <1>2, <1>3

\* What the property says of line i.
BlockLine(i) ==
  /\ Is(i, "start") =>
       Wire[i].index = Cardinality({s \in Before(i) : Is(s, "start")})
  /\ Is(i, "delta") \/ Is(i, "stop") => OpenBlock(i, Wire[i].index, Wire[i].kind)
  /\ Is(i, "message_delta") =>
       \A s \in Before(i) :
         Is(s, "start") => ~OpenBlock(i, Wire[s].index, Wire[s].kind)

LEMMA LineShown ==
  ASSUME NEW i, LineRight(Wire, i), Wire[i].type # "message_delta"
  PROVE  BlockLine(i)
  <1>1. Starts(Wire, i - 1) = {s \in Before(i) : Is(s, "start")}
    BY DEF Starts, Before, Is
  <1>2. \A b, kind : OpenAfter(Wire, i - 1, b, kind) <=> OpenBlock(i, b, kind)
    BY DEF OpenAfter, OpenBlock, Before, Is
  <1> QED BY <1>1, <1>2 DEF LineRight, BlockLine, Is

LEMMA SpeechTypes ==
  /\ \A l \in Speech : l.type # "message_delta"
  /\ \A l \in Speech : l.type = "start" => l.index \in Int /\ l.kind \in Kinds
  BY DEF Speech, Quiet, Pieces, Kinds

LEMMA ClosedShown ==
  ASSUME Closed(Wire), NEW i \in DOMAIN Wire
  PROVE  BlockLine(i)
  <1>1. PICK body \in Seq(Speech), r \in {"tool_use", "end_turn"} :
          Shut(body) /\ Wire = body \o <<StopReason(r), MessageStop>>
    BY DEF Closed
  <1> DEFINE p == StopReason(r)
             q == MessageStop
             T == Speech \cup {p, q}
             N == Len(body)
             u == Wire
  <1>2. p.type = "message_delta" /\ q.type = "message_stop"
    BY DEF StopReason, MessageStop
  <1> HIDE DEF p, q
  <1>3. /\ body \in Seq(T) /\ <<p, q>> \in Seq(T) /\ Len(<<p, q>>) = 2
        /\ <<p, q>>[1] = p /\ <<p, q>>[2] = q
        /\ DOMAIN body = 1 .. N /\ N \in Nat
    OBVIOUS
  <1>4. u = body \o <<p, q>>
    BY <1>1 DEF p, q
  <1> HIDE DEF T, u
  <1>5. u \in Seq(T) /\ Follows(u, body, <<p, q>>)
    BY <1>3, <1>4, Appended
  <1>6. /\ DOMAIN u = 1 .. N + 2 /\ u[N + 1] = p /\ u[N + 2] = q
        /\ \A k \in 1 .. N : u[k] = body[k]
    <2>1. 1 \in 1 .. 2 /\ 2 \in 1 .. 2
      OBVIOUS
    <2>2. Len(u) = N + 2
      BY <1>3, <1>5 DEF Follows
    <2>3. DOMAIN u = 1 .. N + 2
      BY <1>5, <2>2
    <2> HIDE DEF N
    <2> QED BY <1>3, <1>5, <2>1, <2>3 DEF Follows, N
  <1> HIDE DEF N
  <1>7. CASE i \in 1 .. N
    <2>1. LineRight(body, i) /\ body[i] \in Speech /\ u[i] = body[i]
      BY <1>1, <1>3, <1>6, <1>7 DEF Shut, LinesRight
    <2>2. i - 1 \in 0 .. N
      BY <1>3, <1>7
    <2>3. /\ Starts(u, i - 1) = Starts(body, i - 1)
          /\ \A b, kind : OpenAfter(u, i - 1, b, kind) <=> OpenAfter(body, i - 1, b, kind)
      BY <1>3, <1>6, <2>2, PrefixRight
    <2>4. LineRight(u, i)
      BY <2>1, <2>3 DEF LineRight
    <2> QED BY <2>1, <2>4, SpeechTypes, LineShown DEF u
  <1>8. CASE i = N + 1
    <2>1. \A b, kind : OpenAfter(u, N, b, kind) <=> OpenAfter(body, N, b, kind)
      <3>1. N \in 0 .. N
        BY <1>3
      <3> QED BY <1>3, <1>6, <3>1, PrefixRight
    <2>2. i - 1 = N /\ Before(i) = 1 .. N
      BY <1>3, <1>8 DEF Before
    <2>3. ASSUME NEW s \in 1 .. N, u[s].type = "start" PROVE ~OpenAfter(u, N, u[s].index, u[s].kind)
      <3>1. u[s].index \in Int /\ u[s].kind \in Kinds
        BY <1>3, <1>6, <2>3, SpeechTypes
      <3>2. ~OpenNow(body, u[s].index, u[s].kind)
        BY <1>1, <3>1 DEF Shut
      <3> QED BY <2>1, <3>2 DEF OpenNow, N
    <2>4. \A b, kind : OpenAfter(u, i - 1, b, kind) <=> OpenBlock(i, b, kind)
      BY DEF OpenAfter, OpenBlock, Before, Is, u
    <2>5. Wire[i].type = "message_delta"
      BY <1>2, <1>6, <1>8 DEF u
    <2>6. \A s \in Before(i) : Is(s, "start") => ~OpenBlock(i, Wire[s].index, Wire[s].kind)
      BY <2>2, <2>3, <2>4 DEF u, Is
    <2> QED BY <2>5, <2>6 DEF BlockLine, Is
  <1>9. CASE i = N + 2
    BY <1>2, <1>6, <1>9 DEF BlockLine, Is, u
  <1>10. i \in 1 .. N + 2
    BY <1>6 DEF u
  <1> QED BY <1>3, <1>7, <1>8, <1>9, <1>10

LEMMA BlocksShown ==
  ASSUME StreamInv, BlocksInv
  PROVE  ClaudeBlocks
  <1> SUFFICES ASSUME request.api = "claude", Wire # <<>>, ~ThoughtLeftOpen, NEW i \in DOMAIN Wire
               PROVE  BlockLine(i)
    BY DEF ClaudeBlocks, BlockLine
  <1>1. Told(writer)
    BY BlocksToldSoFar DEF BlocksTold, Wire
  <1>2. CASE writer.wire \in Seq(Speech) /\ LinesRight(writer.wire)
    <2>1. LineRight(Wire, i) /\ Wire[i] \in Speech
      BY <1>2 DEF LinesRight, Wire
    <2> QED BY <2>1, SpeechTypes, LineShown
  <1>3. CASE Closed(writer.wire)
    BY <1>3, ClosedShown DEF Wire
  <1>4. ASSUME LeftOpen(writer) PROVE FALSE
    <2>1. PICK b : Abandoned(writer.wire, b)
      BY <1>4 DEF LeftOpen
    <2>2. PICK s \in DOMAIN Wire : Wire[s].type = "start" /\ Wire[s].index = b /\ Wire[s].kind = "thinking"
      BY <2>1 DEF Abandoned, Wire
    <2>3. NeverStops(s)
      BY <2>1, <2>2 DEF NeverStops, Abandoned, StopsBlock, Is, Wire
    <2> QED BY <1>4, <2>2, <2>3 DEF ThoughtLeftOpen, LeftOpen, Is
  <1> QED BY <1>1, <1>2, <1>3, <1>4 DEF Told

\* The Claude stream protocol, whatever order text, thoughts, deltas and listings come in
\* and whether the answer ends or fails: ClaudeSSEWriter numbers its blocks in order (tool
\* blocks may be open together), sends a delta or a stop for an open block of its kind only,
\* and leaves none open when it ends the message.  Excepted is the message that
\* ThoughtLeftOpen describes, whose thinking block the code never stops.
THEOREM BlocksAreClosed == Spec => []ClaudeBlocks
  <1>1. StreamInv /\ BlocksInv /\ [Next]_vars => (StreamInv /\ BlocksInv)'
    BY StepKeeps, BlocksStep
  <1>2. StreamInv /\ BlocksInv => ClaudeBlocks
    BY BlocksShown
  <1> QED BY <1>1, <1>2, InitStream, InitBlocks, PTL DEF Spec

=============================================================================
