--------------------------- MODULE ChatStreamProofs ---------------------------
(***************************************************************************)
(* What ChatStream keeps for any texts, native calls and number of events: *)
(* the writers and the parser keep their types, nothing follows the end of *)
(* a message, a stop reason tells the truth, only one attempt is visible,  *)
(* and what is reported agrees with what is logged.                        *)
(***************************************************************************)
EXTENDS ChatStream, SequenceLemmas, FiniteSetTheorems

-----------------------------------------------------------------------------
(* Iteration: what the recursive functions of the model compute.           *)

\* A text is read within any set of parsers that reading a lexeme does not leave.
LEMMA ReadStays ==
  ASSUME NEW S, NEW p \in S, NEW trigger, NEW thinks, NEW text \in Seq(Lexemes),
         \A q \in S, l \in Lexemes : Feed(q, l, trigger, thinks) \in S
  PROVE  Read(p, text, trigger, thinks) \in S
  <1> DEFINE N == Len(text)
             Step(n, q) == Feed(q, text[n], trigger, thinks)
             all[n \in 0 .. N] == IF n = 0 THEN p ELSE Step(n, all[n - 1])
             g == [n \in 1 .. N |-> [q \in S |-> Step(n, q)]]
             G == {i \in 0 .. N : all[i] \in S}
  <1>1. N \in Nat /\ (\A n \in 1 .. N : n - 1 \in 0 .. N) /\ p \in S
    OBVIOUS
  <1>2. \A n \in 1 .. N, q \in S : Step(n, q) \in S
    OBVIOUS
  <1>3. Read(p, text, trigger, thinks) = all[N]
    BY DEF Read
  <1> HIDE DEF N, Step
  <1>4. g \in Steps(N, S)
    BY <1>2 DEF Steps
  <1>5. PICK f : f \in Histories(N, S, p, g)
    <2> HIDE DEF g
    <2> QED BY <1>1, <1>4, History
  <1>6. f = [n \in 0 .. N |-> IF n = 0 THEN p ELSE Step(n, f[n - 1])]
    <2>1. f \in [0 .. N -> S] /\ f[0] = p /\ \A n \in 1 .. N : f[n] = g[n][f[n - 1]]
      BY <1>5 DEF Histories
    <2>2. \A n \in 1 .. N : g[n][f[n - 1]] = Step(n, f[n - 1])
      BY <1>1, <2>1
    <2> HIDE DEF g
    <2> QED BY <1>1, <2>1, <2>2
  <1>7. all = [n \in 0 .. N |-> IF n = 0 THEN p ELSE Step(n, all[n - 1])]
    BY <1>6
  <1> HIDE DEF all
  <1>8. 0 \in G
    BY <1>1, <1>7
  <1>9. ASSUME NEW n \in 1 .. N, n - 1 \in G PROVE n \in G
    <2>1. all[n] = Step(n, all[n - 1])
      BY <1>1, <1>7
    <2> QED BY <1>1, <1>2, <1>9, <2>1
  <1> HIDE DEF G
  <1>10. \A n \in 1 .. N : n - 1 \in G => n \in G
    BY <1>9
  <1>11. N \in 0 .. N /\ \A n \in 0 .. N : n \in G
    <2>1. \A n \in 0 .. N : n \in G
      BY <1>1, <1>8, <1>10, UpTo, Zenon
    <2> QED BY <1>1, <2>1
  <1> QED BY <1>3, <1>11 DEF G

\* The texts of events are joined to a sequence of their lexemes.
LEMMA JoinedStays ==
  ASSUME NEW T, NEW events, Len(events) \in Nat,
         \A n \in 1 .. Len(events) : IsText(events[n]) => events[n].text \in Seq(T)
  PROVE  Joined(events) \in Seq(T)
  <1> DEFINE N == Len(events)
             Step(n, q) == q \o (IF IsText(events[n]) THEN events[n].text ELSE <<>>)
             all[n \in 0 .. N] == IF n = 0 THEN <<>> ELSE Step(n, all[n - 1])
             g == [n \in 1 .. N |-> [q \in Seq(T) |-> Step(n, q)]]
             G == {i \in 0 .. N : all[i] \in Seq(T)}
  <1>1. N \in Nat /\ (\A n \in 1 .. N : n - 1 \in 0 .. N) /\ <<>> \in Seq(T)
    OBVIOUS
  <1>2. \A n \in 1 .. N, q \in Seq(T) : Step(n, q) \in Seq(T)
    OBVIOUS
  <1>3. Joined(events) = all[N]
    BY DEF Joined
  <1> HIDE DEF N, Step
  <1>4. g \in Steps(N, Seq(T))
    BY <1>2 DEF Steps
  <1>5. PICK f : f \in Histories(N, Seq(T), <<>>, g)
    <2> HIDE DEF g
    <2> QED BY <1>1, <1>4, History
  <1>6. f = [n \in 0 .. N |-> IF n = 0 THEN <<>> ELSE Step(n, f[n - 1])]
    <2>1. f \in [0 .. N -> Seq(T)] /\ f[0] = <<>> /\ \A n \in 1 .. N : f[n] = g[n][f[n - 1]]
      BY <1>5 DEF Histories
    <2>2. \A n \in 1 .. N : g[n][f[n - 1]] = Step(n, f[n - 1])
      BY <1>1, <2>1
    <2> HIDE DEF g
    <2> QED BY <1>1, <2>1, <2>2
  <1>7. all = [n \in 0 .. N |-> IF n = 0 THEN <<>> ELSE Step(n, all[n - 1])]
    BY <1>6
  <1> HIDE DEF all
  <1>8. 0 \in G
    BY <1>1, <1>7
  <1>9. ASSUME NEW n \in 1 .. N, n - 1 \in G PROVE n \in G
    <2>1. all[n] = Step(n, all[n - 1])
      BY <1>1, <1>7
    <2> QED BY <1>1, <1>2, <1>9, <2>1
  <1> HIDE DEF G
  <1>10. \A n \in 1 .. N : n - 1 \in G => n \in G
    BY <1>9
  <1>11. N \in 0 .. N /\ \A n \in 0 .. N : n \in G
    <2>1. \A n \in 0 .. N : n \in G
      BY <1>1, <1>8, <1>10, UpTo, Zenon
    <2> QED BY <1>1, <2>1
  <1> QED BY <1>3, <1>11 DEF G

\* Events are handled through a row of sets of answers, if each of them leads from
\* its set to the next.
LEMMA ForwardedThrough ==
  ASSUME NEW w, NEW events, Len(events) \in Nat, NEW Q, w \in Q[0],
         \A n \in 1 .. Len(events) : \A v \in Q[n - 1] : Handled(v, events[n]) \in Q[n]
  PROVE  Forwarded(w, events) \in Q[Len(events)]
  <1> DEFINE N == Len(events)
             Step(n, q) == Handled(q, events[n])
             S == UNION {Q[n] : n \in 0 .. N}
             all[n \in 0 .. N] == IF n = 0 THEN w ELSE Step(n, all[n - 1])
             g == [n \in 1 .. N |-> [q \in S |-> IF q \in Q[n - 1] THEN Step(n, q) ELSE w]]
             F(f) == {n \in 0 .. N : f[n] \in Q[n]}
             G == {n \in 0 .. N : all[n] \in Q[n]}
  <1>1. N \in Nat /\ (\A n \in 1 .. N : n - 1 \in 0 .. N) /\ w \in S
    OBVIOUS
  <1>2. \A n \in 1 .. N : \A v \in Q[n - 1] : Step(n, v) \in Q[n]
    OBVIOUS
  <1>3. Forwarded(w, events) = all[N]
    BY DEF Forwarded
  <1> HIDE DEF N, Step
  <1>4. g \in Steps(N, S)
    <2>1. \A n \in 1 .. N : \A q \in S : q \in Q[n - 1] => Step(n, q) \in S
      BY <1>2
    <2> HIDE DEF S
    <2> QED BY <1>1, <2>1 DEF Steps
  <1>5. PICK f : f \in Histories(N, S, w, g)
    <2> HIDE DEF g, S
    <2> QED BY <1>1, <1>4, History
  <1>6. f \in [0 .. N -> S] /\ f[0] = w /\ \A n \in 1 .. N : f[n] = g[n][f[n - 1]]
    <2> HIDE DEF S, g
    <2> QED BY <1>5 DEF Histories
  <1>7. \A n \in 1 .. N : f[n] = IF f[n - 1] \in Q[n - 1] THEN Step(n, f[n - 1]) ELSE w
    <2> HIDE DEF S
    <2> QED BY <1>1, <1>6
  <1>8. \A n \in 0 .. N : n \in F(f)
    <2>1. 0 \in F(f)
      <3>1. 0 \in 0 .. N /\ f[0] \in Q[0]
        <4> HIDE DEF S
        <4> QED BY <1>1, <1>6
      <3> QED BY <3>1
    <2>2. ASSUME NEW n \in 1 .. N, n - 1 \in F(f) PROVE n \in F(f)
      <3>1. f[n - 1] \in Q[n - 1]
        BY <2>2
      <3>2. f[n] = Step(n, f[n - 1])
        BY <1>7, <3>1
      <3> QED BY <1>2, <3>1, <3>2
    <2> HIDE DEF F
    <2>3. \A n \in 1 .. N : n - 1 \in F(f) => n \in F(f)
      BY <2>2
    <2> QED BY <1>1, <2>1, <2>3, UpTo, Zenon
  <1>9. f = [n \in 0 .. N |-> IF n = 0 THEN w ELSE Step(n, f[n - 1])]
    <2>1. \A n \in 1 .. N : f[n] = Step(n, f[n - 1])
      BY <1>1, <1>7, <1>8
    <2> HIDE DEF S
    <2> QED BY <1>1, <1>6, <2>1
  <1>10. all = [n \in 0 .. N |-> IF n = 0 THEN w ELSE Step(n, all[n - 1])]
    BY <1>9
  <1> HIDE DEF all
  <1>11. \A n \in 0 .. N : n \in G
    <2>1. 0 \in G
      BY <1>1, <1>10
    <2>2. ASSUME NEW n \in 1 .. N, n - 1 \in G PROVE n \in G
      <3>1. all[n] = Step(n, all[n - 1])
        BY <1>1, <1>10
      <3> QED BY <1>1, <1>2, <2>2, <3>1
    <2> HIDE DEF G
    <2>3. \A n \in 1 .. N : n - 1 \in G => n \in G
      BY <2>2
    <2> QED BY <1>1, <2>1, <2>3, UpTo, Zenon
  <1>12. N \in 0 .. N
    BY <1>1
  <1> QED BY <1>3, <1>11, <1>12 DEF N

\* Events are handled within any set of answers that handling one does not leave.
LEMMA ForwardedStays ==
  ASSUME NEW S, NEW w \in S, NEW E, NEW events \in Seq(E),
         \A v \in S, e \in E : Handled(v, e) \in S
  PROVE  Forwarded(w, events) \in S
  <1> DEFINE Q == [n \in 0 .. Len(events) |-> S]
  <1>1. Len(events) \in Nat /\ 0 \in 0 .. Len(events) /\ Len(events) \in 0 .. Len(events)
    OBVIOUS
  <1>2. \A n \in 1 .. Len(events) : n - 1 \in 0 .. Len(events) /\ events[n] \in E
    OBVIOUS
  <1>3. w \in Q[0]
    OBVIOUS
  <1>4. \A n \in 1 .. Len(events) : \A v \in Q[n - 1] : Handled(v, events[n]) \in Q[n]
    BY <1>2
  <1>5. Q[Len(events)] = S
    BY <1>1
  <1> HIDE DEF Q
  <1>6. Forwarded(w, events) \in Q[Len(events)]
    BY <1>1, <1>3, <1>4, ForwardedThrough
  <1> QED BY <1>5, <1>6

-----------------------------------------------------------------------------
(* The parser.                                                             *)

\* The events a parser emits: thoughts only if they are looked for.
Utterances(thinks) ==
  [type : {"text"}, text : Seq(Lexemes)]
    \cup (IF thinks THEN [type : {"thinking"}, text : Seq(Lexemes)] ELSE {})
    \cup [type : {"tool_call"}, call : Calls, id : {"none"}]

ParserRecords(thinks) ==
  [buffer : Seq(Lexemes), capture : Seq(Lexemes), capturing : BOOLEAN,
   thinking : BOOLEAN, thought : Seq(Lexemes), events : Seq(Utterances(thinks))]

\* A parser captures only with the protocol on, and keeps a capture only meanwhile.
Parsers(trigger, thinks) ==
  {p \in ParserRecords(thinks) :
     /\ p.capture # <<>> => p.capturing
     /\ p.capturing => trigger
     /\ p.thinking => thinks}

LEMMA EventTypes ==
  ASSUME NEW thinks \in BOOLEAN, NEW s \in Seq(Lexemes), NEW c \in Calls
  PROVE  /\ Text(s) \in Utterances(thinks)
         /\ thinks => Thought(s) \in Utterances(thinks)
         /\ ToolCall(c) \in Utterances(thinks)
         /\ \A e \in Utterances(thinks) : IfAny(s, e) \in Seq(Utterances(thinks))
  <1>1. Text(s) \in Utterances(thinks)
    BY DEF Text, Utterances
  <1>2. thinks => Thought(s) \in Utterances(thinks)
    BY DEF Thought, Utterances
  <1>3. ToolCall(c) \in Utterances(thinks)
    BY DEF ToolCall, Utterances
  <1>4. \A e \in Utterances(thinks) : IfAny(s, e) \in Seq(Utterances(thinks))
    BY DEF IfAny
  <1> QED BY <1>1, <1>2, <1>3, <1>4

LEMMA IfAnyFits ==
  ASSUME NEW thinks \in BOOLEAN, NEW s \in Seq(Lexemes)
  PROVE  /\ IfAny(s, Text(s)) \in Seq(Utterances(thinks))
         /\ thinks => IfAny(s, Thought(s)) \in Seq(Utterances(thinks))
  <1>1. Text(s) \in Utterances(thinks) /\ (thinks => Thought(s) \in Utterances(thinks))
    BY DEF Text, Thought, Utterances
  <1> QED BY <1>1 DEF IfAny

LEMMA NewParserFits ==
  ASSUME NEW trigger, NEW thinks
  PROVE  NewParser \in Parsers(trigger, thinks)
  <1>1. <<>> \in Seq(Lexemes) /\ <<>> \in Seq(Utterances(thinks))
    OBVIOUS
  <1>2. NewParser \in ParserRecords(thinks)
    BY <1>1 DEF NewParser, ParserRecords
  <1> QED BY <1>2 DEF NewParser, Parsers

LEMMA EmitFits ==
  ASSUME NEW trigger, NEW thinks, NEW p \in Parsers(trigger, thinks),
         NEW events \in Seq(Utterances(thinks))
  PROVE  Emit(p, events) \in Parsers(trigger, thinks)
  <1>1. p.events \o events \in Seq(Utterances(thinks))
    BY DEF Parsers, ParserRecords
  <1>2. Emit(p, events) \in ParserRecords(thinks)
    BY <1>1 DEF Emit, Parsers, ParserRecords
  <1> QED BY <1>2 DEF Emit, Parsers, ParserRecords

LEMMA ConsumedFits ==
  ASSUME NEW trigger, NEW thinks, NEW p \in Parsers(trigger, thinks)
  PROVE  Consumed(p) \in Parsers(trigger, thinks) /\ Consumed(p).events = <<>>
  <1>1. <<>> \in Seq(Utterances(thinks))
    OBVIOUS
  <1>2. Consumed(p) \in ParserRecords(thinks)
    BY <1>1 DEF Consumed, Parsers, ParserRecords
  <1> QED BY <1>2 DEF Consumed, Parsers, ParserRecords

\* The parts of a sequence are sequences of its elements.
LEMMA PartsFit ==
  ASSUME NEW T, NEW s \in Seq(T)
  PROVE  /\ s # <<>> => Front(s) \in Seq(T) /\ Last(s) \in T
         /\ \A m, n \in 1 .. Len(s) : SubSeq(s, m, n) \in Seq(T) /\ SubSeq(s, 1, n - 1) \in Seq(T)
  <1>1. \A m, n \in 0 .. Len(s) : 1 <= m => SubSeq(s, m, n) \in Seq(T)
    <2> SUFFICES ASSUME NEW m \in 0 .. Len(s), NEW n \in 0 .. Len(s), 1 <= m
                 PROVE  SubSeq(s, m, n) \in Seq(T)
      OBVIOUS
    <2>1. \A i \in m .. n : s[i] \in T
      OBVIOUS
    <2> QED BY <2>1, SubSeqProperties
  <1>2. s # <<>> => Front(s) \in Seq(T) /\ Last(s) \in T
    <2>1. s # <<>> => Len(s) \in 1 .. Len(s) /\ Len(s) - 1 \in 0 .. Len(s) /\ 1 \in 0 .. Len(s)
      OBVIOUS
    <2> QED BY <1>1, <2>1 DEF Front, Last
  <1>3. \A n \in 1 .. Len(s) : n - 1 \in 0 .. Len(s) /\ n \in 0 .. Len(s) /\ 1 \in 0 .. Len(s)
    OBVIOUS
  <1> QED BY <1>1, <1>2, <1>3

\* The call of a text is one of the tools' calls, if there is any.
LEMMA InvokeFits ==
  ASSUME NEW s \in Seq(Lexemes)
  PROVE  InvokeIn(s) \in Calls \cup {"none"}
  <1> DEFINE K == {i \in DOMAIN s : s[i] \in Calls}
  <1>1. CASE K = {}
    BY <1>1 DEF InvokeIn
  <1>2. CASE K # {}
    <2>1. PICK k \in K : \A j \in K : k <= j
      <3>1. K \in SUBSET Nat
        OBVIOUS
      <3> HIDE DEF K
      <3> QED BY <1>2, <3>1, Least
    <2>2. k \in DOMAIN s /\ s[k] \in Calls /\ \A j \in 1 .. k - 1 : s[j] \notin Calls
      BY <2>1
    <2> QED BY <2>2 DEF InvokeIn
  <1> QED BY <1>1, <1>2

LEMMA EndThoughtFits ==
  ASSUME NEW trigger \in BOOLEAN, NEW thinks \in BOOLEAN,
         NEW p \in Parsers(trigger, thinks), p.thought # <<>>, p.thinking
  PROVE  EndThought(p) \in Parsers(trigger, thinks)
  <1> DEFINE q == [p EXCEPT !.thought = <<>>, !.thinking = FALSE]
             events == IfAny(Front(p.thought), Thought(Front(p.thought)))
  <1>1. q \in Parsers(trigger, thinks)
    <2>1. <<>> \in Seq(Lexemes)
      OBVIOUS
    <2> QED BY <2>1 DEF Parsers, ParserRecords
  <1>2. thinks /\ Front(p.thought) \in Seq(Lexemes)
    BY PartsFit DEF Parsers, ParserRecords
  <1>3. events \in Seq(Utterances(thinks))
    BY <1>2, IfAnyFits
  <1> HIDE DEF q, events
  <1>4. Emit(q, events) \in Parsers(trigger, thinks)
    BY <1>1, <1>3, EmitFits
  <1> QED BY <1>4 DEF EndThought, q, events

LEMMA BeginThoughtFits ==
  ASSUME NEW trigger \in BOOLEAN, NEW thinks \in BOOLEAN,
         NEW p \in Parsers(trigger, thinks), thinks
  PROVE  BeginThought(p) \in Parsers(trigger, thinks)
  <1> DEFINE q == [p EXCEPT !.buffer = <<>>, !.thinking = TRUE, !.thought = <<>>]
             events == IfAny(p.buffer, Text(p.buffer))
  <1>1. q \in Parsers(trigger, thinks)
    <2>1. <<>> \in Seq(Lexemes)
      OBVIOUS
    <2> QED BY <2>1 DEF Parsers, ParserRecords
  <1>2. events \in Seq(Utterances(thinks))
    <2>1. p.buffer \in Seq(Lexemes)
      BY DEF Parsers, ParserRecords
    <2> QED BY <2>1, IfAnyFits
  <1> HIDE DEF q, events
  <1>3. Emit(q, events) \in Parsers(trigger, thinks)
    BY <1>1, <1>2, EmitFits
  <1> QED BY <1>3 DEF BeginThought, q, events

\* Text outside a capture is buffered, passed on, or begins one.
LEMMA FeedBufferFits ==
  ASSUME NEW thinks \in BOOLEAN, NEW p \in Parsers(TRUE, thinks),
         ~p.capturing, NEW l \in Lexemes
  PROVE  FeedBuffer(p, l) \in Parsers(TRUE, thinks)
  <1> DEFINE before == Front(p.buffer)
             q == [p EXCEPT !.buffer = <<>>, !.capturing = TRUE, !.capture = <<>>]
             events == IfAny(before, Text(before))
  <1>1. CASE l = "t2" /\ EndsWith(p.buffer, "t1")
    <2>1. q \in Parsers(TRUE, thinks)
      <3>1. <<>> \in Seq(Lexemes)
        OBVIOUS
      <3> QED BY <3>1 DEF Parsers, ParserRecords
    <2>2. before \in Seq(Lexemes)
      BY <1>1, PartsFit DEF EndsWith, Parsers, ParserRecords
    <2>3. events \in Seq(Utterances(thinks))
      BY <2>2, IfAnyFits
    <2> HIDE DEF q, events
    <2>4. Emit(q, events) \in Parsers(TRUE, thinks)
      BY <2>1, <2>3, EmitFits
    <2> QED BY <1>1, <2>4 DEF FeedBuffer, q, events
  <1>2. CASE ~(l = "t2" /\ EndsWith(p.buffer, "t1"))
    <2>1. Append(p.buffer, l) \in Seq(Lexemes)
      BY DEF Parsers, ParserRecords
    <2>2. [p EXCEPT !.buffer = Append(p.buffer, l)] \in Parsers(TRUE, thinks)
      BY <2>1 DEF Parsers, ParserRecords
    <2> QED BY <1>2, <2>2 DEF FeedBuffer
  <1> QED BY <1>1, <1>2

LEMMA FeedPlainFits ==
  ASSUME NEW thinks \in BOOLEAN, NEW p \in Parsers(FALSE, thinks), NEW l \in Lexemes
  PROVE  FeedPlain(p, l, thinks) \in Parsers(FALSE, thinks)
  <1> DEFINE thought == [p EXCEPT !.thought = Append(p.thought, l)]
             longer  == [p EXCEPT !.buffer = Append(p.buffer, l)]
             empty   == [p EXCEPT !.buffer = <<>>]
             result  == FeedPlain(p, l, thinks)
  <1>1. Append(p.thought, l) \in Seq(Lexemes) /\ Append(p.buffer, l) \in Seq(Lexemes)
    BY DEF Parsers, ParserRecords
  <1>2. /\ thought \in Parsers(FALSE, thinks)
        /\ longer \in Parsers(FALSE, thinks)
    BY <1>1 DEF Parsers, ParserRecords
  <1>3. empty \in Parsers(FALSE, thinks)
    <2>1. <<>> \in Seq(Lexemes)
      OBVIOUS
    <2> QED BY <2>1 DEF Parsers, ParserRecords
  <1>4. p.thinking \in BOOLEAN /\ thought.thinking = p.thinking /\ thought.thought # <<>>
    <2>1. p \in ParserRecords(thinks)
      BY DEF Parsers
    <2>2. p.thought \in Seq(Lexemes)
      BY <2>1 DEF ParserRecords
    <2>3. Append(p.thought, l) # <<>>
      BY <2>2
    <2> QED BY <2>1, <2>3 DEF ParserRecords
  <1>5. CASE thinks /\ p.thinking /\ l = "/think"
    <2>1. EndThought(thought) \in Parsers(FALSE, thinks)
      <3> HIDE DEF thought
      <3> QED BY <1>2, <1>4, <1>5, EndThoughtFits
    <2> QED BY <1>5, <2>1 DEF FeedPlain
  <1>6. CASE thinks /\ p.thinking /\ l # "/think"
    BY <1>2, <1>6 DEF FeedPlain
  <1>7. CASE thinks /\ ~p.thinking /\ l = "think"
    <2>1. BeginThought(p) \in Parsers(FALSE, thinks)
      BY <1>7, BeginThoughtFits
    <2> QED BY <1>7, <2>1 DEF FeedPlain
  <1>8. CASE ~thinks \/ (~p.thinking /\ l # "think")
    <2>1. <<Text(longer.buffer)>> \in Seq(Utterances(thinks))
      BY <1>1 DEF Text, Utterances, Parsers, ParserRecords
    <2>2. Emit(empty, <<Text(longer.buffer)>>) \in Parsers(FALSE, thinks)
      <3> HIDE DEF empty, longer
      <3> QED BY <1>3, <2>1, EmitFits
    <2>3. result = IF Len(longer.buffer) < MaxBuffer THEN longer
                   ELSE Emit(empty, <<Text(longer.buffer)>>)
      BY <1>4, <1>8 DEF FeedPlain
    <2> QED BY <1>2, <2>2, <2>3
  <1> QED BY <1>4, <1>5, <1>6, <1>7, <1>8

\* A capture that ends with a closing tag becomes a call, or text again.
LEMMA TryEmitInvokesFits ==
  ASSUME NEW thinks \in BOOLEAN, NEW p \in Parsers(TRUE, thinks), p.capturing
  PROVE  TryEmitInvokes(p) \in Parsers(TRUE, thinks)
  <1> DEFINE s == p.capture
             K == {i \in DOMAIN s : s[i] \in Opens}
             start == CHOOSE i \in DOMAIN s : s[i] \in Opens /\ \A j \in 1 .. i - 1 : s[j] \notin Opens
             before == SubSeq(s, 1, start - 1)
             call == InvokeIn(SubSeq(s, start, Len(s)))
             events == IfAny(before, Text(before))
                         \o IF call = "none" THEN <<Text(s)>> ELSE <<ToolCall(call)>>
             q == [p EXCEPT !.capture = <<>>, !.capturing = (call # "none")]
  <1>1. s \in Seq(Lexemes)
    BY DEF Parsers, ParserRecords
  <1>2. CASE ~EndsWith(s, "close") \/ \A i \in DOMAIN s : s[i] \notin Opens
    BY <1>2 DEF TryEmitInvokes
  <1>3. CASE EndsWith(s, "close") /\ \E i \in DOMAIN s : s[i] \in Opens
    <2>1. PICK k \in K : \A j \in K : k <= j
      <3>1. K \in SUBSET Nat /\ K # {}
        BY <1>1, <1>3
      <3> HIDE DEF K
      <3> QED BY <3>1, Least
    <2>2. k \in DOMAIN s /\ s[k] \in Opens /\ \A j \in 1 .. k - 1 : s[j] \notin Opens
      BY <1>1, <2>1
    <2>3. start \in DOMAIN s
      <3> HIDE DEF s
      <3> QED BY <2>2
    <2>4. start \in 1 .. Len(s) /\ Len(s) \in 1 .. Len(s)
      <3> HIDE DEF start
      <3> QED BY <1>1, <2>3
    <2>5. before \in Seq(Lexemes) /\ SubSeq(s, start, Len(s)) \in Seq(Lexemes)
      <3> HIDE DEF s, start
      <3> QED BY <1>1, <2>4, PartsFit
    <2>6. call \in Calls \cup {"none"}
      <3> HIDE DEF s, start
      <3> QED BY <2>5, InvokeFits
    <2>7. /\ IfAny(before, Text(before)) \in Seq(Utterances(thinks))
          /\ Text(s) \in Utterances(thinks)
          /\ call # "none" => ToolCall(call) \in Utterances(thinks)
      <3> HIDE DEF s, before, call
      <3>1. IfAny(before, Text(before)) \in Seq(Utterances(thinks))
        BY <2>5, IfAnyFits
      <3>2. Text(s) \in Utterances(thinks)
        BY <1>1 DEF Text, Utterances
      <3>3. call # "none" => ToolCall(call) \in Utterances(thinks)
        BY <2>6 DEF ToolCall, Utterances
      <3> QED BY <3>1, <3>2, <3>3
    <2>8. events \in Seq(Utterances(thinks))
      <3> HIDE DEF s, before, call
      <3> QED BY <2>7
    <2>9. q \in Parsers(TRUE, thinks)
      <3>1. <<>> \in Seq(Lexemes) /\ (call # "none") \in BOOLEAN
        OBVIOUS
      <3> HIDE DEF call
      <3> QED BY <3>1 DEF Parsers, ParserRecords
    <2>10. TryEmitInvokes(p) = Emit(q, events)
      BY <1>3 DEF TryEmitInvokes
    <2> HIDE DEF q, events
    <2> QED BY <2>8, <2>9, <2>10, EmitFits
  <1> QED BY <1>2, <1>3

LEMMA FeedFits ==
  ASSUME NEW trigger \in BOOLEAN, NEW thinks \in BOOLEAN,
         NEW p \in Parsers(trigger, thinks), NEW l \in Lexemes
  PROVE  Feed(p, l, trigger, thinks) \in Parsers(trigger, thinks)
  <1> DEFINE q == IF thinks /\ p.thinking /\ EndsWith(p.thought, "/think") THEN EndThought(p) ELSE p
             result == Feed(p, l, trigger, thinks)
  <1>1. q \in Parsers(trigger, thinks)
    BY EndThoughtFits DEF EndsWith
  <1>2. CASE ~trigger
    <2>1. FeedPlain(p, l, thinks) \in Parsers(trigger, thinks)
      BY <1>2, FeedPlainFits
    <2> QED BY <1>2, <2>1 DEF Feed
  <1>3. q \in ParserRecords(thinks) /\ q.thinking \in BOOLEAN /\ q.capturing \in BOOLEAN
    <2> HIDE DEF q
    <2> QED BY <1>1 DEF Parsers, ParserRecords
  <1>4. CASE trigger /\ q.thinking
    <2>1. [q EXCEPT !.thought = Append(q.thought, l)] \in Parsers(trigger, thinks)
      <3> HIDE DEF q
      <3>1. Append(q.thought, l) \in Seq(Lexemes)
        BY <1>3 DEF ParserRecords
      <3> QED BY <1>1, <3>1 DEF Parsers, ParserRecords
    <2>2. result = [q EXCEPT !.thought = Append(q.thought, l)]
      BY <1>4 DEF Feed
    <2> QED BY <2>1, <2>2
  <1>5. CASE trigger /\ ~q.thinking /\ q.capturing
    <2> DEFINE longer == [q EXCEPT !.capture = Append(q.capture, l)]
    <2>1. longer \in Parsers(trigger, thinks) /\ longer.capturing
      <3> HIDE DEF q
      <3>1. Append(q.capture, l) \in Seq(Lexemes)
        BY <1>3 DEF ParserRecords
      <3> QED BY <1>1, <1>5, <3>1 DEF Parsers, ParserRecords
    <2>2. result = TryEmitInvokes(longer)
      BY <1>5 DEF Feed
    <2>3. TryEmitInvokes(longer) \in Parsers(trigger, thinks)
      <3> HIDE DEF longer
      <3> QED BY <1>5, <2>1, TryEmitInvokesFits
    <2> QED BY <2>2, <2>3
  <1>6. CASE trigger /\ ~q.thinking /\ ~q.capturing
    <2>1. result = IF thinks /\ l = "think" THEN BeginThought(q) ELSE FeedBuffer(q, l)
      BY <1>6 DEF Feed
    <2>2. thinks => BeginThought(q) \in Parsers(trigger, thinks)
      <3> HIDE DEF q
      <3> QED BY <1>1, BeginThoughtFits
    <2>3. FeedBuffer(q, l) \in Parsers(trigger, thinks)
      <3> HIDE DEF q
      <3> QED BY <1>1, <1>6, FeedBufferFits
    <2> QED BY <2>1, <2>2, <2>3
  <1> QED BY <1>2, <1>3, <1>4, <1>5, <1>6

\* What is read of a text leaves a parser of the same kind.
LEMMA ReadFits ==
  ASSUME NEW trigger \in BOOLEAN, NEW thinks \in BOOLEAN,
         NEW p \in Parsers(trigger, thinks), NEW text \in Seq(Lexemes)
  PROVE  Read(p, text, trigger, thinks) \in Parsers(trigger, thinks)
  BY FeedFits, ReadStays

\* The text before native calls leaves the parser as it was otherwise.
LEMMA FlushTextFits ==
  ASSUME NEW trigger \in BOOLEAN, NEW thinks \in BOOLEAN, NEW p \in Parsers(trigger, thinks)
  PROVE  FlushText(p) \in Parsers(trigger, thinks)
  <1> DEFINE q == [p EXCEPT !.buffer = <<>>]
  <1>1. q \in Parsers(trigger, thinks)
    <2>1. <<>> \in Seq(Lexemes)
      OBVIOUS
    <2> QED BY <2>1 DEF Parsers, ParserRecords
  <1>2. p.buffer \in Seq(Lexemes)
    BY DEF Parsers, ParserRecords
  <1>3. IfAny(p.buffer, Text(p.buffer)) \in Seq(Utterances(thinks))
    BY <1>2, IfAnyFits
  <1> HIDE DEF q
  <1>4. Emit(q, IfAny(p.buffer, Text(p.buffer))) \in Parsers(trigger, thinks)
    BY <1>1, <1>3, EmitFits
  <1> QED BY <1>4 DEF FlushText, q

-----------------------------------------------------------------------------
(* The end of the text.                                                    *)

LEMMA AtFits ==
  ASSUME NEW s \in Seq(Lexemes), NEW l
  PROVE  At(s, l) \in Seq(DOMAIN s)
  <1> DEFINE r == [i \in DOMAIN s |-> i]
             K == {i \in DOMAIN s : s[i] = l}
  <1>1. r \in Seq(DOMAIN s) /\ Len(r) \in Nat /\ \A n \in 1 .. Len(r) : r[n] \in DOMAIN s
    OBVIOUS
  <1>2. Kept(r, K) \in Seq(DOMAIN s)
    <2> HIDE DEF r, K
    <2> QED BY <1>1, KeptStays
  <1> QED BY <1>2 DEF At

\* A closing tag completes a call of the tools, or none.
LEMMA CompletedFits ==
  ASSUME NEW s \in Seq(Lexemes), NEW k \in DOMAIN s
  PROVE  Completed(s, k) \in Calls \cup {"none"}
  <1> DEFINE Since(i) == /\ i = 0 \/ s[i] = "close"
                         /\ \A j \in i + 1 .. k - 1 : s[j] # "close"
             since == CHOOSE i \in 0 .. k - 1 : Since(i)
             D == {d \in 0 .. k - 1 : k - 1 - d = 0 \/ s[k - 1 - d] = "close"}
  <1>1. k \in 1 .. Len(s) /\ Len(s) \in Nat
    OBVIOUS
  <1>2. PICK d \in D : \A e \in D : d <= e
    <2>1. D \in SUBSET Nat /\ k - 1 \in D
      BY <1>1
    <2> HIDE DEF D
    <2> QED BY <2>1, Least
  <1>3. k - 1 - d \in 0 .. k - 1 /\ Since(k - 1 - d)
    <2>1. k - 1 - d \in 0 .. k - 1 /\ (k - 1 - d = 0 \/ s[k - 1 - d] = "close")
      BY <1>1, <1>2
    <2>2. ASSUME NEW j \in k - d .. k - 1, s[j] = "close" PROVE FALSE
      <3>1. k - 1 - j \in D /\ k - 1 - j < d
        BY <1>1, <1>2, <2>2
      <3>2. d <= k - 1 - j
        <4> HIDE DEF D
        <4> QED BY <1>2, <3>1
      <3> QED BY <1>1, <3>1, <3>2
    <2> QED BY <1>1, <1>2, <2>1, <2>2
  <1>4. since \in 0 .. k - 1
    <2> HIDE DEF Since
    <2> QED BY <1>3
  <1>5. SubSeq(s, since + 1, k) \in Seq(Lexemes)
    <2> HIDE DEF since
    <2>1. since + 1 \in 1 .. Len(s) /\ k \in 1 .. Len(s)
      BY <1>1, <1>4
    <2> QED BY <2>1, PartsFit
  <1>6. InvokeIn(SubSeq(s, since + 1, k)) \in Calls \cup {"none"}
    <2> HIDE DEF since
    <2> QED BY <1>5, InvokeFits
  <1> QED BY <1>6 DEF Completed

\* What is recovered from loose text are calls of the tools.
LEMMA LooseRecoverCallsFits ==
  ASSUME NEW s \in Seq(Lexemes)
  PROVE  LooseRecoverCalls(s) \in Seq(Calls)
  <1> DEFINE closes == At(s, "close")
             invokes == [i \in DOMAIN closes |-> Completed(s, closes[i])]
             K == {i \in DOMAIN invokes : invokes[i] # "none"}
             named == Kept(invokes, K)
             As(l) == [i \in DOMAIN At(s, l) |-> "a"]
  <1>1. closes \in Seq(DOMAIN s)
    BY AtFits
  <1>2. invokes \in Seq(Calls \cup {"none"})
    <2> HIDE DEF closes
    <2>1. \A i \in 1 .. Len(closes) : Completed(s, closes[i]) \in Calls \cup {"none"}
      BY <1>1, CompletedFits
    <2> QED BY <1>1, <2>1
  <1>3. named \in Seq(Calls)
    <2>1. Len(invokes) \in Nat /\ \A n \in 1 .. Len(invokes) : n \in K => invokes[n] \in Calls
      <3> HIDE DEF invokes
      <3> QED BY <1>2
    <2> HIDE DEF invokes, K
    <2> QED BY <2>1, KeptStays
  <1>4. \A l : As(l) \in Seq(Calls)
    <2> SUFFICES ASSUME NEW l PROVE As(l) \in Seq(Calls)
      OBVIOUS
    <2>1. At(s, l) \in Seq(DOMAIN s) /\ "a" \in Calls
      BY AtFits DEF Calls
    <2> QED BY <2>1, SMTT(30)
  <1> HIDE DEF named, As
  <1>5. LooseRecoverCalls(s) \in {named, As("fence"), As("json")}
    BY DEF LooseRecoverCalls, named, As
  <1> QED BY <1>3, <1>4, <1>5

\* What is left in the parser at the end: events, and last the mark of the end.
LEMMA FinishFits ==
  ASSUME NEW trigger \in BOOLEAN, NEW thinks \in BOOLEAN, NEW p \in Parsers(trigger, thinks)
  PROVE  \E events \in Seq(Utterances(thinks)) :
           Finish(p, thinks) = [NewParser EXCEPT !.events = events \o <<End>>]
  <1> DEFINE captured == \A i \in DOMAIN p.capture : p.capture[i] \notin Opens
             text == IfAny(p.buffer, Text(p.buffer))
             thought == IF thinks /\ p.thinking THEN IfAny(p.thought, Thought(p.thought)) ELSE <<>>
             capture == IF captured THEN IfAny(p.capture, Text(p.capture)) ELSE <<>>
             rest == text \o thought \o capture
             calls == LooseRecoverCalls(Joined(rest))
             K == {i \in DOMAIN rest : ~IsText(rest[i]) \/ IsCleanText(rest[i].text)}
             clean == Kept(rest, K)
             found == [i \in DOMAIN calls |-> ToolCall(calls[i])]
             events == IF calls = <<>> THEN rest ELSE clean \o found
  <1>1. p.buffer \in Seq(Lexemes) /\ p.thought \in Seq(Lexemes) /\ p.capture \in Seq(Lexemes)
    BY DEF Parsers, ParserRecords
  <1>2. /\ text \in Seq(Utterances(thinks))
        /\ thought \in Seq(Utterances(thinks))
        /\ capture \in Seq(Utterances(thinks))
    BY <1>1, IfAnyFits
  <1>3. rest \in Seq(Utterances(thinks))
    <2> HIDE DEF text, thought, capture
    <2> QED BY <1>2
  <1> HIDE DEF text, thought, capture, rest
  <1>4. Joined(rest) \in Seq(Lexemes)
    <2>1. \A n \in 1 .. Len(rest) : IsText(rest[n]) => rest[n].text \in Seq(Lexemes)
      BY <1>3 DEF Utterances, IsText
    <2>2. Len(rest) \in Nat
      BY <1>3
    <2> QED BY <2>1, <2>2, JoinedStays
  <1>5. calls \in Seq(Calls)
    BY <1>4, LooseRecoverCallsFits
  <1>6. clean \in Seq(Utterances(thinks))
    <2>1. Len(rest) \in Nat /\ \A n \in 1 .. Len(rest) : n \in K => rest[n] \in Utterances(thinks)
      BY <1>3
    <2> HIDE DEF K
    <2> QED BY <2>1, KeptStays
  <1> HIDE DEF calls, clean
  <1>7. found \in Seq(Utterances(thinks))
    <2>1. \A i \in 1 .. Len(calls) : ToolCall(calls[i]) \in Utterances(thinks)
      BY <1>5 DEF ToolCall, Utterances
    <2> QED BY <1>5, <2>1
  <1>8. events \in Seq(Utterances(thinks))
    <2> HIDE DEF found
    <2> QED BY <1>3, <1>6, <1>7
  <1>9. Finish(p, thinks) = [NewParser EXCEPT !.events = events \o <<End>>]
    BY DEF Finish, events, found, clean, K, calls, rest, capture, thought, text, captured
  <1> HIDE DEF events
  <1> QED BY <1>8, <1>9

-----------------------------------------------------------------------------
(* The Claude stream before its end.                                       *)

\* What the writers handle: what a parser emits, and the calls of a listing.
Events(thinks) ==
  Utterances(thinks) \cup [type : {"tool_call"}, call : Calls, id : Natives]

LEMMA EventKinds ==
  ASSUME NEW thinks \in BOOLEAN
  PROVE  /\ Seq(Utterances(thinks)) \subseteq Seq(Events(thinks))
         /\ \A e \in Events(thinks) :
              \/ e.type = "text" /\ e \in [type : {"text"}, text : Seq(Lexemes)]
              \/ thinks /\ e.type = "thinking" /\ e \in [type : {"thinking"}, text : Seq(Lexemes)]
              \/ /\ e.type = "tool_call"
                 /\ e \in [type : {"tool_call"}, call : Calls, id : Natives \cup {"none"}]
  <1>1. Seq(Utterances(thinks)) \subseteq Seq(Events(thinks))
    BY DEF Events
  <1>2. ASSUME NEW e \in Events(thinks)
        PROVE  \/ e.type = "text" /\ e \in [type : {"text"}, text : Seq(Lexemes)]
               \/ thinks /\ e.type = "thinking" /\ e \in [type : {"thinking"}, text : Seq(Lexemes)]
               \/ /\ e.type = "tool_call"
                  /\ e \in [type : {"tool_call"}, call : Calls, id : Natives \cup {"none"}]
    BY DEF Events, Utterances
  <1> QED BY <1>1, <1>2

Pieces == [type : {"delta"}, index : Int, kind : {"tool"}, from : 0 .. Full, to : 0 .. Full]
Quiet ==
  [type : {"message_start"}]
    \cup [type : {"start", "delta", "stop"}, index : Int, kind : {"text", "thinking", "tool"}]
Speech == Quiet \cup Pieces

\* Some line carries arguments of a call.
Called(wire) == \E i \in DOMAIN wire : "from" \in DOMAIN wire[i]

ClaudeWriters ==
  [next : Nat, textOpen : BOOLEAN, thinkingOpen : BOOLEAN, finished : BOOLEAN,
   hasToolCall : BOOLEAN, seen : SUBSET Calls, block : [Natives -> Int],
   streamed : [Natives -> 0 .. Full], stopped : SUBSET Natives, pending : BOOLEAN,
   suppressed : BOOLEAN, wire : Seq(Speech)]

\* An answer that goes on: what makes a call known is on the wire, unless x.
ClaudeOpen(x) ==
  {w \in ClaudeWriters :
     /\ ~w.finished
     /\ Called(w.wire) => w.hasToolCall
     /\ w.seen # {} => Called(w.wire)
     /\ \A c \in Natives : w.block[c] # NoBlock => Called(w.wire)
     /\ w.hasToolCall => Called(w.wire) \/ x}

LEMMA LinesFit ==
  ASSUME NEW i \in Int
  PROVE  /\ \A type \in {"start", "delta", "stop"}, kind \in {"text", "thinking", "tool"} :
              Line(type, i, kind) \in Quiet
         /\ \A from, to \in 0 .. Full : Piece(i, from, to) \in Pieces
  <1>1. \A type \in {"start", "delta", "stop"}, kind \in {"text", "thinking", "tool"} :
          Line(type, i, kind) \in Quiet
    BY DEF Line, Quiet
  <1>2. \A from, to \in 0 .. Full : Piece(i, from, to) \in Pieces
    BY DEF Piece, Pieces
  <1> QED BY <1>1, <1>2

LEMMA PiecesCall ==
  /\ \A l \in Quiet : "from" \notin DOMAIN l
  /\ \A l \in Pieces : "from" \in DOMAIN l
  BY DEF Quiet, Pieces

\* Lines that are sent call a tool if one of them does.
LEMMA SentCalls ==
  ASSUME NEW wire \in Seq(Speech), NEW lines \in Seq(Speech)
  PROVE  /\ wire \o lines \in Seq(Speech)
         /\ Called(wire \o lines) <=> Called(wire) \/ Called(lines)
  <1>1. wire \o lines \in Seq(Speech)
    OBVIOUS
  <1>2. ASSUME Called(wire \o lines) PROVE Called(wire) \/ Called(lines)
    <2>1. PICK i \in DOMAIN (wire \o lines) : "from" \in DOMAIN (wire \o lines)[i]
      BY <1>2 DEF Called
    <2>2. CASE i <= Len(wire)
      <3>1. i \in DOMAIN wire /\ (wire \o lines)[i] = wire[i]
        BY <2>1, <2>2
      <3> QED BY <2>1, <3>1 DEF Called
    <2>3. CASE i > Len(wire)
      <3>1. i - Len(wire) \in DOMAIN lines /\ (wire \o lines)[i] = lines[i - Len(wire)]
        BY <2>1, <2>3
      <3> QED BY <2>1, <3>1 DEF Called
    <2>4. i \in Int /\ Len(wire) \in Int
      BY <2>1
    <2> QED BY <2>2, <2>3, <2>4
  <1>3. ASSUME Called(wire) PROVE Called(wire \o lines)
    <2>1. PICK i \in DOMAIN wire : "from" \in DOMAIN wire[i]
      BY <1>3 DEF Called
    <2>2. i \in DOMAIN (wire \o lines) /\ (wire \o lines)[i] = wire[i]
      BY <2>1
    <2> QED BY <2>1, <2>2 DEF Called
  <1>4. ASSUME Called(lines) PROVE Called(wire \o lines)
    <2>1. PICK i \in DOMAIN lines : "from" \in DOMAIN lines[i]
      BY <1>4 DEF Called
    <2>2. i + Len(wire) \in DOMAIN (wire \o lines) /\ (wire \o lines)[i + Len(wire)] = lines[i]
      BY <2>1
    <2> QED BY <2>1, <2>2 DEF Called
  <1> QED BY <1>1, <1>2, <1>3, <1>4

LEMMA QuietLines ==
  ASSUME NEW lines \in Seq(Quiet)
  PROVE  lines \in Seq(Speech) /\ ~Called(lines)
  <1>1. lines \in Seq(Speech)
    BY DEF Speech
  <1>2. \A i \in DOMAIN lines : lines[i] \in Quiet
    OBVIOUS
  <1> QED BY <1>1, <1>2, PiecesCall DEF Called

\* A writer that sends lines: what becomes of its fields.
LEMMA SendFits ==
  ASSUME NEW w \in ClaudeWriters, NEW lines \in Seq(Speech)
  PROVE  /\ Send(w, lines) \in ClaudeWriters
         /\ Send(w, lines) = [w EXCEPT !.wire = w.wire \o lines]
         /\ Called(Send(w, lines).wire) <=> Called(w.wire) \/ Called(lines)
  <1>1. w.wire \in Seq(Speech)
    BY DEF ClaudeWriters
  <1>2. Send(w, lines) = [w EXCEPT !.wire = w.wire \o lines]
    BY DEF Send
  <1>3. Send(w, lines) \in ClaudeWriters /\ Send(w, lines).wire = w.wire \o lines
    BY <1>1, <1>2, SentCalls DEF ClaudeWriters
  <1> QED BY <1>1, <1>2, <1>3, SentCalls

\* The answer goes on without a call: v comes of w.
KeepsCalls(w, v) ==
  /\ v \in ClaudeWriters
  /\ v.finished = w.finished /\ v.hasToolCall = w.hasToolCall /\ v.seen = w.seen
  /\ v.block = w.block /\ v.streamed = w.streamed
  /\ Called(v.wire) <=> Called(w.wire)

LEMMA StaysOpen ==
  ASSUME NEW x, NEW w \in ClaudeOpen(x), NEW v, KeepsCalls(w, v)
  PROVE  v \in ClaudeOpen(x)
  BY DEF ClaudeOpen, KeepsCalls

\* Lines without arguments are sent and no field about calls changes.
LEMMA SpeaksOn ==
  ASSUME NEW w, NEW v \in ClaudeWriters, NEW lines \in Seq(Quiet), KeepsCalls(w, v)
  PROVE  KeepsCalls(w, Send(v, lines))
  <1>1. lines \in Seq(Speech) /\ ~Called(lines)
    BY QuietLines
  <1>2. /\ Send(v, lines) \in ClaudeWriters
        /\ Send(v, lines) = [v EXCEPT !.wire = v.wire \o lines]
        /\ Called(Send(v, lines).wire) <=> Called(v.wire)
    BY <1>1, SendFits
  <1>3. /\ Send(v, lines).finished = v.finished
        /\ Send(v, lines).hasToolCall = v.hasToolCall
        /\ Send(v, lines).seen = v.seen
        /\ Send(v, lines).block = v.block
        /\ Send(v, lines).streamed = v.streamed
    BY <1>2 DEF ClaudeWriters
  <1> QED BY <1>2, <1>3 DEF KeepsCalls

LEMMA NextFits ==
  ASSUME NEW w \in ClaudeWriters
  PROVE  w.next \in Int /\ w.next - 1 \in Int /\ KeepsCalls(w, w)
  <1>1. w.next \in Nat
    BY DEF ClaudeWriters
  <1>2. KeepsCalls(w, w)
    BY DEF KeepsCalls
  <1> QED BY <1>1, <1>2

LEMMA EndTextFits ==
  ASSUME NEW w \in ClaudeWriters
  PROVE  KeepsCalls(w, EndText(w))
  <1> DEFINE v == [w EXCEPT !.textOpen = FALSE]
  <1>1. w.next - 1 \in Int /\ KeepsCalls(w, w)
    BY NextFits
  <1>2. v \in ClaudeWriters /\ KeepsCalls(w, v)
    BY DEF ClaudeWriters, KeepsCalls
  <1>3. <<Line("stop", w.next - 1, "text")>> \in Seq(Quiet)
    BY <1>1, LinesFit
  <1> HIDE DEF v
  <1>4. KeepsCalls(w, Send(v, <<Line("stop", w.next - 1, "text")>>))
    BY <1>2, <1>3, SpeaksOn
  <1> QED BY <1>1, <1>4 DEF EndText, v

LEMMA EndThinkingFits ==
  ASSUME NEW w \in ClaudeWriters
  PROVE  KeepsCalls(w, EndThinking(w))
  <1> DEFINE v == [w EXCEPT !.thinkingOpen = FALSE]
  <1>1. w.next - 1 \in Int /\ KeepsCalls(w, w)
    BY NextFits
  <1>2. v \in ClaudeWriters /\ KeepsCalls(w, v)
    BY DEF ClaudeWriters, KeepsCalls
  <1>3. <<Line("stop", w.next - 1, "thinking")>> \in Seq(Quiet)
    BY <1>1, LinesFit
  <1> HIDE DEF v
  <1>4. KeepsCalls(w, Send(v, <<Line("stop", w.next - 1, "thinking")>>))
    BY <1>2, <1>3, SpeaksOn
  <1> QED BY <1>1, <1>4 DEF EndThinking, v

LEMMA EmitTextFits ==
  ASSUME NEW w \in ClaudeWriters
  PROVE  KeepsCalls(w, EmitText(w))
  <1> DEFINE v == [w EXCEPT !.textOpen = TRUE, !.next = w.next + 1]
             lines == <<Line("start", w.next, "text"), Line("delta", w.next, "text")>>
  <1>1. w.next \in Int /\ w.next - 1 \in Int /\ KeepsCalls(w, w)
    BY NextFits
  <1>2. v \in ClaudeWriters /\ KeepsCalls(w, v)
    <2>1. w.next + 1 \in Nat
      BY DEF ClaudeWriters
    <2>2. v \in ClaudeWriters
      BY <2>1 DEF ClaudeWriters
    <2>3. /\ v.finished = w.finished /\ v.hasToolCall = w.hasToolCall /\ v.seen = w.seen
          /\ v.block = w.block /\ v.streamed = w.streamed /\ v.wire = w.wire
      BY DEF ClaudeWriters
    <2> QED BY <2>2, <2>3 DEF KeepsCalls
  <1>3. <<Line("delta", w.next - 1, "text")>> \in Seq(Quiet) /\ lines \in Seq(Quiet)
    BY <1>1, LinesFit
  <1> HIDE DEF v, lines
  <1>4. KeepsCalls(w, Send(v, lines)) /\ KeepsCalls(w, Send(w, <<Line("delta", w.next - 1, "text")>>))
    BY <1>1, <1>2, <1>3, SpeaksOn
  <1> QED BY <1>4 DEF EmitText, v, lines

LEMMA EmitThinkingFits ==
  ASSUME NEW w \in ClaudeWriters
  PROVE  KeepsCalls(w, EmitThinking(w))
  <1> DEFINE v == [w EXCEPT !.thinkingOpen = TRUE, !.next = w.next + 1]
             lines == <<Line("start", w.next, "thinking"), Line("delta", w.next, "thinking")>>
  <1>1. w.next \in Int /\ w.next - 1 \in Int /\ KeepsCalls(w, w)
    BY NextFits
  <1>2. v \in ClaudeWriters /\ KeepsCalls(w, v)
    <2>1. w.next + 1 \in Nat
      BY DEF ClaudeWriters
    <2>2. v \in ClaudeWriters
      BY <2>1 DEF ClaudeWriters
    <2>3. /\ v.finished = w.finished /\ v.hasToolCall = w.hasToolCall /\ v.seen = w.seen
          /\ v.block = w.block /\ v.streamed = w.streamed /\ v.wire = w.wire
      BY DEF ClaudeWriters
    <2> QED BY <2>2, <2>3 DEF KeepsCalls
  <1>3. <<Line("delta", w.next - 1, "thinking")>> \in Seq(Quiet) /\ lines \in Seq(Quiet)
    BY <1>1, LinesFit
  <1> HIDE DEF v, lines
  <1>4. KeepsCalls(w, Send(v, lines)) /\ KeepsCalls(w, Send(w, <<Line("delta", w.next - 1, "thinking")>>))
    BY <1>1, <1>2, <1>3, SpeaksOn
  <1> QED BY <1>4 DEF EmitThinking, v, lines

LEMMA QueueTextFits ==
  ASSUME NEW w \in ClaudeWriters, NEW s
  PROVE  KeepsCalls(w, QueueText(w, s))
  BY DEF QueueText, ClaudeWriters, KeepsCalls

LEMMA FlushPendingFits ==
  ASSUME NEW w \in ClaudeWriters
  PROVE  KeepsCalls(w, FlushPending(w))
  <1> DEFINE v == [w EXCEPT !.pending = FALSE]
  <1>1. v \in ClaudeWriters /\ KeepsCalls(w, v)
    BY DEF ClaudeWriters, KeepsCalls
  <1> HIDE DEF v
  <1>2. KeepsCalls(v, EmitText(v))
    BY <1>1, EmitTextFits
  <1>3. KeepsCalls(w, EmitText(v))
    BY <1>1, <1>2 DEF KeepsCalls
  <1> QED BY <1>1, <1>3 DEF FlushPending, v

LEMMA StopToolFits ==
  ASSUME NEW w \in ClaudeWriters, NEW c \in Natives
  PROVE  KeepsCalls(w, StopTool(w, c))
  <1> DEFINE v == [w EXCEPT !.stopped = w.stopped \cup {c}]
  <1>1. w.block[c] \in Int /\ KeepsCalls(w, w)
    BY DEF ClaudeWriters, KeepsCalls
  <1>2. v \in ClaudeWriters /\ KeepsCalls(w, v)
    BY DEF ClaudeWriters, KeepsCalls
  <1>3. <<Line("stop", w.block[c], "tool")>> \in Seq(Quiet)
    BY <1>1, LinesFit
  <1> HIDE DEF v
  <1>4. KeepsCalls(w, Send(v, <<Line("stop", w.block[c], "tool")>>))
    BY <1>2, <1>3, SpeaksOn
  <1> QED BY <1>1, <1>4 DEF StopTool, v

\* A call that is shown needs no excuse.
LEMMA CallShown ==
  ASSUME NEW x, NEW w \in ClaudeWriters, ~w.finished, w.hasToolCall, Called(w.wire)
  PROVE  w \in ClaudeOpen(x)
  BY DEF ClaudeOpen

LEMMA OpenWidens ==
  ASSUME NEW x, NEW w \in ClaudeOpen(x)
  PROVE  w \in ClaudeWriters /\ w \in ClaudeOpen(TRUE) /\ ~w.finished
  BY DEF ClaudeOpen

LEMMA CallsToolFits ==
  ASSUME NEW w \in ClaudeOpen(TRUE)
  PROVE  LET v == CallsTool(w) IN
         /\ v \in ClaudeOpen(TRUE) /\ v.hasToolCall
         /\ v.block = w.block /\ v.streamed = w.streamed /\ v.wire = w.wire
  <1> DEFINE v == CallsTool(w)
  <1>1. w \in ClaudeWriters
    BY OpenWidens
  <1>2. v \in ClaudeWriters
    BY <1>1 DEF CallsTool, ClaudeWriters
  <1>3. v.finished = w.finished /\ v.hasToolCall = TRUE /\ v.seen = w.seen
        /\ v.block = w.block /\ v.streamed = w.streamed /\ v.wire = w.wire
    BY <1>1 DEF CallsTool, ClaudeWriters
  <1> HIDE DEF v
  <1>4. v \in ClaudeOpen(TRUE)
    BY <1>2, <1>3 DEF ClaudeOpen
  <1> QED BY <1>3, <1>4 DEF v

LEMMA StartToolFits ==
  ASSUME NEW w \in ClaudeWriters
  PROVE  KeepsCalls(w, StartTool(w))
  <1> DEFINE v == [w EXCEPT !.next = w.next + 1]
  <1>1. w.next \in Int /\ KeepsCalls(w, w)
    BY NextFits
  <1>2. v \in ClaudeWriters /\ KeepsCalls(w, v)
    <2>1. w.next + 1 \in Nat
      BY DEF ClaudeWriters
    <2>2. v \in ClaudeWriters
      BY <2>1 DEF ClaudeWriters
    <2>3. /\ v.finished = w.finished /\ v.hasToolCall = w.hasToolCall /\ v.seen = w.seen
          /\ v.block = w.block /\ v.streamed = w.streamed /\ v.wire = w.wire
      BY DEF ClaudeWriters
    <2> QED BY <2>2, <2>3 DEF KeepsCalls
  <1>3. <<Line("start", w.next, "tool")>> \in Seq(Quiet)
    BY <1>1, LinesFit
  <1> HIDE DEF v
  <1>4. KeepsCalls(w, Send(v, <<Line("start", w.next, "tool")>>))
    BY <1>2, <1>3, SpeaksOn
  <1> QED BY <1>4 DEF StartTool, v

\* The block of a call that begins: the open block is ended first.
LEMMA OpenedFits ==
  ASSUME NEW w \in ClaudeWriters
  PROVE  KeepsCalls(w, StartTool(EndThinking(EndText(w))))
  <1> DEFINE u == EndText(w)
             v == EndThinking(u)
  <1>1. KeepsCalls(w, u)
    BY EndTextFits
  <1> HIDE DEF u
  <1>2. KeepsCalls(u, v)
    BY <1>1, EndThinkingFits DEF KeepsCalls
  <1> HIDE DEF v
  <1>3. KeepsCalls(v, StartTool(v))
    BY <1>2, StartToolFits DEF KeepsCalls
  <1>4. KeepsCalls(w, StartTool(v))
    BY <1>1, <1>2, <1>3 DEF KeepsCalls
  <1> QED BY <1>4 DEF u, v

\* A delta with news shows the call; one without changes nothing on the wire.
LEMMA ClaudeDeltaFits ==
  ASSUME NEW w \in ClaudeOpen(TRUE), NEW c \in Natives, NEW to \in 0 .. Full
  PROVE  LET v == ClaudeDelta(w, c, to) IN
         v \in ClaudeOpen(TRUE) /\ v.hasToolCall /\ (Called(w.wire) => Called(v.wire))
  <1> DEFINE called == CallsTool(w)
             begun == StartTool(EndThinking(EndText(called)))
             opened == IF w.block[c] # NoBlock THEN called ELSE [begun EXCEPT !.block[c] = w.next]
             grown == [opened EXCEPT !.streamed[c] = to]
             lines == <<Piece(opened.block[c], w.streamed[c], to)>>
  <1>1. /\ called \in ClaudeOpen(TRUE) /\ called.hasToolCall
        /\ called.block = w.block /\ called.streamed = w.streamed /\ called.wire = w.wire
    BY CallsToolFits
  <1>2. w \in ClaudeWriters /\ called \in ClaudeWriters /\ ~called.finished
    BY <1>1, OpenWidens
  <1> HIDE DEF called
  <1>3. CASE to = w.streamed[c]
    BY <1>1, <1>3 DEF ClaudeDelta, called
  <1>4. CASE to # w.streamed[c]
    <2>1. KeepsCalls(called, begun)
      BY <1>2, OpenedFits
    <2> HIDE DEF begun
    <2>2. w.next \in Int /\ w.streamed[c] \in 0 .. Full
      BY <1>2 DEF ClaudeWriters
    <2>3. /\ opened \in ClaudeWriters /\ opened.hasToolCall /\ ~opened.finished
          /\ opened.block[c] \in Int
      <3>1. CASE w.block[c] # NoBlock
        BY <1>1, <1>2, <3>1 DEF ClaudeWriters
      <3>2. CASE w.block[c] = NoBlock
        <4>1. begun \in ClaudeWriters /\ begun.hasToolCall /\ ~begun.finished
          BY <1>1, <1>2, <2>1 DEF KeepsCalls
        <4>2. /\ [begun EXCEPT !.block[c] = w.next] \in ClaudeWriters
              /\ [begun EXCEPT !.block[c] = w.next].hasToolCall
              /\ ~[begun EXCEPT !.block[c] = w.next].finished
              /\ [begun EXCEPT !.block[c] = w.next].block[c] = w.next
          BY <2>2, <4>1 DEF ClaudeWriters
        <4> QED BY <2>2, <3>2, <4>2
      <3> QED BY <3>1, <3>2
    <2> HIDE DEF opened
    <2>4. grown \in ClaudeWriters /\ grown.hasToolCall /\ ~grown.finished
      BY <2>3 DEF ClaudeWriters
    <2>5. lines \in Seq(Speech) /\ Called(lines)
      <3>1. Piece(opened.block[c], w.streamed[c], to) \in Pieces
        BY <2>2, <2>3, LinesFit
      <3>2. "from" \in DOMAIN lines[1] /\ 1 \in DOMAIN lines
        BY <3>1, PiecesCall
      <3> QED BY <3>1, <3>2 DEF Called, Speech
    <2> HIDE DEF grown, lines
    <2>6. /\ Send(grown, lines) \in ClaudeWriters /\ Called(Send(grown, lines).wire)
          /\ Send(grown, lines).hasToolCall /\ ~Send(grown, lines).finished
      <3>1. /\ Send(grown, lines) \in ClaudeWriters
            /\ Send(grown, lines) = [grown EXCEPT !.wire = grown.wire \o lines]
            /\ Called(Send(grown, lines).wire)
        BY <2>4, <2>5, SendFits
      <3> QED BY <2>4, <3>1 DEF ClaudeWriters
    <2>7. ClaudeDelta(w, c, to) = Send(grown, lines)
      BY <1>4 DEF ClaudeDelta, grown, lines, opened, begun, called
    <2> QED BY <2>6, <2>7, CallShown
  <1> QED BY <1>3, <1>4

LEMMA WholeCallFits ==
  ASSUME NEW w \in ClaudeWriters, w.hasToolCall, ~w.finished
  PROVE  WholeCall(w) \in ClaudeOpen(FALSE)
  <1> DEFINE first == IF w.next = 0 /\ ~w.textOpen THEN EmitText(w) ELSE w
             ended == EndText(first)
             fresh == StartTool(ended)
             lines == <<Piece(fresh.next - 1, 0, Full), Line("stop", fresh.next - 1, "tool")>>
  <1>1. KeepsCalls(w, first)
    BY EmitTextFits, NextFits
  <1> HIDE DEF first
  <1>2. KeepsCalls(first, ended)
    BY <1>1, EndTextFits DEF KeepsCalls
  <1> HIDE DEF ended
  <1>3. KeepsCalls(ended, fresh)
    BY <1>2, StartToolFits DEF KeepsCalls
  <1> HIDE DEF fresh
  <1>4. fresh \in ClaudeWriters /\ fresh.hasToolCall /\ ~fresh.finished
    BY <1>1, <1>2, <1>3 DEF KeepsCalls
  <1>5. lines \in Seq(Speech) /\ Called(lines)
    <2>1. fresh.next - 1 \in Int /\ 0 \in 0 .. Full /\ Full \in 0 .. Full
      BY <1>4, NextFits DEF Full
    <2>2. /\ Piece(fresh.next - 1, 0, Full) \in Pieces
          /\ Line("stop", fresh.next - 1, "tool") \in Quiet
      BY <2>1, LinesFit
    <2>3. "from" \in DOMAIN lines[1] /\ 1 \in DOMAIN lines
      BY <2>2, PiecesCall
    <2>4. lines \in Seq(Speech)
      BY <2>2 DEF Speech
    <2> QED BY <2>3, <2>4 DEF Called
  <1> HIDE DEF lines
  <1>6. /\ Send(fresh, lines) \in ClaudeWriters /\ Called(Send(fresh, lines).wire)
        /\ Send(fresh, lines).hasToolCall /\ ~Send(fresh, lines).finished
    <2>1. /\ Send(fresh, lines) \in ClaudeWriters
          /\ Send(fresh, lines) = [fresh EXCEPT !.wire = fresh.wire \o lines]
          /\ Called(Send(fresh, lines).wire)
      BY <1>4, <1>5, SendFits
    <2> QED BY <1>4, <2>1 DEF ClaudeWriters
  <1>7. WholeCall(w) = Send(fresh, lines)
    BY DEF WholeCall, first, ended, fresh, lines
  <1> QED BY <1>6, <1>7, CallShown

\* After a call that is handed to the client some line shows one.
LEMMA ClaudeCallFits ==
  ASSUME NEW w \in ClaudeOpen(TRUE), w.hasToolCall,
         NEW call \in Calls, NEW c \in Natives \cup {"none"}
  PROVE  ClaudeCall(w, call, c) \in ClaudeOpen(FALSE)
  <1>1. w \in ClaudeWriters /\ ~w.finished
    BY OpenWidens
  <1>2. CASE c \in Natives /\ w.block[c] # NoBlock
    <2> DEFINE v == ClaudeDelta(w, c, Remaining(w, c))
    <2>1. Remaining(w, c) \in 0 .. Full
      BY <1>1, <1>2 DEF Remaining, ClaudeWriters, Full
    <2>2. Called(w.wire)
      BY <1>2 DEF ClaudeOpen
    <2>3. v \in ClaudeOpen(TRUE) /\ v.hasToolCall /\ Called(v.wire)
      BY <1>2, <2>1, <2>2, ClaudeDeltaFits
    <2> HIDE DEF v
    <2>4. v \in ClaudeWriters /\ ~v.finished
      BY <2>3, OpenWidens
    <2>5. KeepsCalls(v, StopTool(v, c))
      BY <1>2, <2>4, StopToolFits
    <2>6. StopTool(v, c) \in ClaudeOpen(FALSE)
      BY <2>3, <2>4, <2>5, CallShown DEF KeepsCalls
    <2> QED BY <1>2, <2>6 DEF ClaudeCall, v
  <1>3. CASE c \notin Natives \/ w.block[c] = NoBlock
    <2> DEFINE v == [w EXCEPT !.seen = w.seen \cup {call}]
    <2>1. ClaudeCall(w, call, c) = IF call \in w.seen THEN w ELSE WholeCall(v)
      BY <1>3 DEF ClaudeCall
    <2>2. call \in w.seen => w \in ClaudeOpen(FALSE)
      BY <1>1, CallShown DEF ClaudeOpen
    <2>3. v \in ClaudeWriters /\ v.hasToolCall /\ ~v.finished
      BY <1>1 DEF ClaudeWriters
    <2> HIDE DEF v
    <2>4. WholeCall(v) \in ClaudeOpen(FALSE)
      BY <2>3, WholeCallFits
    <2> QED BY <2>1, <2>2, <2>4
  <1> QED BY <1>2, <1>3

LEMMA ClaudeEventFits ==
  ASSUME NEW x \in BOOLEAN, NEW w \in ClaudeOpen(x), NEW e \in Events(TRUE)
  PROVE  /\ ClaudeEvent(w, e) \in ClaudeOpen(x)
         /\ e.type = "tool_call" => ClaudeEvent(w, e) \in ClaudeOpen(FALSE)
  <1>1. w \in ClaudeWriters /\ w \in ClaudeOpen(TRUE)
    BY OpenWidens
  <1>2. CASE e.type = "text"
    <2> DEFINE u == EndThinking(w)
    <2>1. KeepsCalls(w, u)
      BY <1>1, EndThinkingFits
    <2> HIDE DEF u
    <2>2. KeepsCalls(u, QueueText(u, e.text))
      BY <2>1, QueueTextFits DEF KeepsCalls
    <2>3. KeepsCalls(w, QueueText(u, e.text))
      BY <2>1, <2>2 DEF KeepsCalls
    <2> QED BY <1>2, <2>3, StaysOpen DEF ClaudeEvent, u
  <1>3. CASE e.type = "thinking"
    <2> DEFINE u == FlushPending(w)
               v == EndText(u)
    <2>1. KeepsCalls(w, u)
      BY <1>1, FlushPendingFits
    <2> HIDE DEF u
    <2>2. KeepsCalls(u, v)
      BY <2>1, EndTextFits DEF KeepsCalls
    <2> HIDE DEF v
    <2>3. KeepsCalls(v, EmitThinking(v))
      BY <2>2, EmitThinkingFits DEF KeepsCalls
    <2>4. KeepsCalls(w, EmitThinking(v))
      BY <2>1, <2>2, <2>3 DEF KeepsCalls
    <2> QED BY <1>3, <2>4, StaysOpen DEF ClaudeEvent, u, v
  <1>4. CASE e.type = "tool_call"
    <2> DEFINE t == CallsTool(w)
               u == EndText(t)
               v == EndThinking(u)
    <2>1. t \in ClaudeOpen(TRUE) /\ t.hasToolCall
      BY <1>1, CallsToolFits
    <2>2. t \in ClaudeWriters
      BY <2>1, OpenWidens
    <2> HIDE DEF t
    <2>3. KeepsCalls(t, u)
      BY <2>2, EndTextFits
    <2> HIDE DEF u
    <2>4. KeepsCalls(u, v)
      BY <2>3, EndThinkingFits DEF KeepsCalls
    <2> HIDE DEF v
    <2>5. v \in ClaudeOpen(TRUE) /\ v.hasToolCall
      <3>1. KeepsCalls(t, v)
        BY <2>3, <2>4 DEF KeepsCalls
      <3> QED BY <2>1, <3>1, StaysOpen DEF KeepsCalls
    <2>6. e.call \in Calls /\ e.id \in Natives \cup {"none"}
      BY <1>4 DEF Events, Utterances
    <2>7. ClaudeCall(v, e.call, e.id) \in ClaudeOpen(FALSE)
      BY <2>5, <2>6, ClaudeCallFits
    <2>8. ClaudeCall(v, e.call, e.id) \in ClaudeOpen(x)
      BY <2>7 DEF ClaudeOpen
    <2> QED BY <1>4, <2>7, <2>8 DEF ClaudeEvent, t, u, v
  <1>5. e.type \in {"text", "thinking", "tool_call"}
    BY DEF Events, Utterances
  <1> QED BY <1>2, <1>3, <1>4, <1>5

\* The elements of a finite set in some order.
LEMMA SetToSeqFits ==
  ASSUME NEW S, IsFiniteSet(S)
  PROVE  SetToSeq(S) \in Seq(S)
  <1>1. PICK n \in Nat : ExistsBijection(1 .. n, S)
    BY FS_NatBijection
  <1>2. Cardinality(S) = n
    BY <1>1, FS_CountingElements
  <1>3. PICK f \in [1 .. n -> S] : IsInjective(f)
    BY <1>1 DEF ExistsBijection, Bijection, Injection
  <1>4. SetToSeq(S) \in [1 .. n -> S]
    BY <1>2, <1>3 DEF SetToSeq
  <1> QED BY <1>4

LEMMA StopToolsFits ==
  ASSUME NEW w \in ClaudeWriters
  PROVE  KeepsCalls(w, StopTools(w))
  <1> DEFINE open == {c \in Natives \ w.stopped : w.block[c] # NoBlock}
             order == SetToSeq(open)
             v == [w EXCEPT !.stopped = w.stopped \cup open]
             lines == [i \in DOMAIN order |-> Line("stop", w.block[order[i]], "tool")]
  <1>1. order \in Seq(open)
    <2>1. IsFiniteSet(open)
      BY NativesAssumption, FS_Subset
    <2> HIDE DEF open
    <2> QED BY <2>1, SetToSeqFits
  <1>2. v \in ClaudeWriters /\ KeepsCalls(w, v)
    <2>1. v \in ClaudeWriters
      BY DEF ClaudeWriters
    <2>2. /\ v.finished = w.finished /\ v.hasToolCall = w.hasToolCall /\ v.seen = w.seen
          /\ v.block = w.block /\ v.streamed = w.streamed /\ v.wire = w.wire
      BY DEF ClaudeWriters
    <2> QED BY <2>1, <2>2 DEF KeepsCalls
  <1> HIDE DEF order
  <1>3. lines \in Seq(Quiet)
    <2>1. \A i \in 1 .. Len(order) : w.block[order[i]] \in Int
      BY <1>1 DEF ClaudeWriters
    <2>2. \A i \in 1 .. Len(order) : Line("stop", w.block[order[i]], "tool") \in Quiet
      BY <2>1, LinesFit
    <2> HIDE DEF open
    <2> QED BY <1>1, <2>2
  <1> HIDE DEF v, lines
  <1>4. KeepsCalls(w, Send(v, lines))
    BY <1>2, <1>3, SpeaksOn
  <1> QED BY <1>4 DEF StopTools, order, v, lines

\* The end of the message: its reason is a call exactly if one was shown, or x.
LEMMA ClaudeFinishFits ==
  ASSUME NEW x \in BOOLEAN, NEW w \in ClaudeOpen(x)
  PROVE  \E speech \in Seq(Speech), r \in {"tool_use", "end_turn"} :
           /\ ClaudeFinish(w).wire = speech \o <<StopReason(r), MessageStop>>
           /\ Called(speech) => r = "tool_use"
           /\ r = "tool_use" => Called(speech) \/ x
  <1> DEFINE nothing == ~w.hasToolCall /\ ~w.pending /\ w.suppressed
             base == [w EXCEPT !.finished = TRUE, !.pending = w.pending \/ nothing]
             last == FlushPending(base)
             u == EndText(last)
             v == EndThinking(u)
             z == StopTools(v)
             r == IF w.hasToolCall THEN "tool_use" ELSE "end_turn"
  <1>1. w \in ClaudeWriters /\ ~w.finished
    BY OpenWidens
  <1>2. base \in ClaudeWriters /\ base.hasToolCall = w.hasToolCall /\ base.wire = w.wire
    BY <1>1 DEF ClaudeWriters
  <1> HIDE DEF base
  <1>3. KeepsCalls(base, last)
    BY <1>2, FlushPendingFits
  <1> HIDE DEF last
  <1>4. KeepsCalls(last, u)
    BY <1>3, EndTextFits DEF KeepsCalls
  <1> HIDE DEF u
  <1>5. KeepsCalls(u, v)
    BY <1>4, EndThinkingFits DEF KeepsCalls
  <1> HIDE DEF v
  <1>6. KeepsCalls(v, z)
    BY <1>5, StopToolsFits DEF KeepsCalls
  <1>7. ClaudeFinish(w) = Send(z, <<StopReason(r), MessageStop>>)
    BY <1>1 DEF ClaudeFinish, base, last, u, v
  <1> HIDE DEF z
  <1>8. z \in ClaudeWriters /\ (Called(z.wire) <=> Called(w.wire))
    BY <1>2, <1>3, <1>4, <1>5, <1>6 DEF KeepsCalls
  <1>9. ClaudeFinish(w).wire = z.wire \o <<StopReason(r), MessageStop>> /\ z.wire \in Seq(Speech)
    BY <1>7, <1>8 DEF Send, ClaudeWriters
  <1>10. /\ Called(z.wire) => r = "tool_use"
         /\ r = "tool_use" => Called(z.wire) \/ x
    BY <1>1, <1>8 DEF ClaudeOpen, ClaudeWriters
  <1> QED BY <1>9, <1>10

-----------------------------------------------------------------------------
(* The OpenAI stream before its end.                                       *)

Contents == [type : {"content"}, attempt : {1, 2}]
ToolLines == [type : {"tool"}, attempt : {1, 2}, id : Natives \cup {"none"},
              from : 0 .. Full, to : 0 .. Full]
Chunks == [type : {"role"}] \cup Contents \cup ToolLines

OpenAIWriters ==
  [hasToolCall : BOOLEAN, finished : BOOLEAN, attempt : {1, 2}, seen : SUBSET Calls,
   started : SUBSET Natives, junk : SUBSET Natives, streamed : [Natives -> 0 .. Full],
   suppressed : BOOLEAN, emitted : BOOLEAN, wire : Seq(Chunks)]

\* Every line with output belongs to the attempt at hand.
OfAttempt(wire, n) == \A i \in DOMAIN wire : wire[i].type \in {"content", "tool"} => wire[i].attempt = n
Visible(wire) == \E i \in DOMAIN wire : wire[i].type \in {"content", "tool"}

\* An answer that goes on: a call is known if and only if it is on the wire, and
\* output that is on the wire is remembered.
OpenAIOpen ==
  {w \in OpenAIWriters :
     /\ ~w.finished
     /\ w.hasToolCall <=> Called(w.wire)
     /\ w.seen # {} \/ w.started # {} => Called(w.wire)
     /\ OfAttempt(w.wire, w.attempt)
     /\ Visible(w.wire) => w.hasToolCall \/ w.emitted}

LEMMA ChunkTypes ==
  /\ \A l \in Chunks : "from" \in DOMAIN l <=> l.type = "tool"
  /\ \A l \in Chunks : l.type \in {"role", "content", "tool"}
  BY DEF Chunks, Contents, ToolLines

\* A line more on the wire.
LEMMA ChunkSent ==
  ASSUME NEW wire \in Seq(Chunks), NEW l \in Chunks, NEW n,
         OfAttempt(wire, n), l.type \in {"content", "tool"} => l.attempt = n
  PROVE  /\ wire \o <<l>> \in Seq(Chunks)
         /\ Called(wire \o <<l>>) <=> Called(wire) \/ l.type = "tool"
         /\ OfAttempt(wire \o <<l>>, n)
         /\ Visible(wire \o <<l>>) <=> Visible(wire) \/ l.type \in {"content", "tool"}
  <1> DEFINE longer == wire \o <<l>>
             k == Len(wire) + 1
  <1>1. longer \in Seq(Chunks) /\ Len(wire) \in Nat /\ DOMAIN longer = 1 .. k
    OBVIOUS
  <1>2. longer[k] = l /\ k \in DOMAIN longer
    OBVIOUS
  <1>3. \A i \in DOMAIN wire : i \in DOMAIN longer /\ longer[i] = wire[i]
    OBVIOUS
  <1>4. \A i \in DOMAIN longer : i = k \/ i \in DOMAIN wire
    BY <1>1
  <1> HIDE DEF longer, k
  <1>5. Called(longer) <=> Called(wire) \/ "from" \in DOMAIN l
    BY <1>2, <1>3, <1>4 DEF Called
  <1>6. OfAttempt(longer, n)
    BY <1>2, <1>3, <1>4 DEF OfAttempt
  <1>7. Visible(longer) <=> Visible(wire) \/ l.type \in {"content", "tool"}
    BY <1>2, <1>3, <1>4 DEF Visible
  <1> QED BY <1>1, <1>5, <1>6, <1>7, ChunkTypes DEF longer

\* A writer that sends one line and remembers it.
LEMMA ChunkFits ==
  ASSUME NEW w \in OpenAIOpen, NEW v \in OpenAIWriters, NEW l \in Contents \cup ToolLines,
         v.wire = w.wire, v.attempt = w.attempt, ~v.finished, l.attempt = w.attempt,
         v.emitted \/ v.hasToolCall,
         l.type = "tool" => v.hasToolCall,
         l.type = "content" => /\ v.hasToolCall = w.hasToolCall
                               /\ v.seen = w.seen /\ v.started = w.started
  PROVE  Send(v, <<l>>) \in OpenAIOpen
  <1> DEFINE u == Send(v, <<l>>)
  <1>1. w \in OpenAIWriters /\ w.wire \in Seq(Chunks) /\ OfAttempt(w.wire, w.attempt) /\ l \in Chunks
    BY DEF OpenAIOpen, OpenAIWriters, Chunks
  <1>2. /\ w.wire \o <<l>> \in Seq(Chunks)
        /\ Called(w.wire \o <<l>>) <=> Called(w.wire) \/ l.type = "tool"
        /\ OfAttempt(w.wire \o <<l>>, w.attempt)
        /\ Visible(w.wire \o <<l>>)
    BY <1>1, ChunkSent DEF Contents, ToolLines
  <1>3. u = [v EXCEPT !.wire = w.wire \o <<l>>]
    BY DEF Send
  <1>4. u \in OpenAIWriters
    BY <1>2, <1>3 DEF OpenAIWriters
  <1>5. /\ u.wire = w.wire \o <<l>> /\ u.attempt = w.attempt /\ u.finished = v.finished
        /\ u.emitted = v.emitted /\ u.hasToolCall = v.hasToolCall
        /\ u.seen = v.seen /\ u.started = v.started
    BY <1>3 DEF OpenAIWriters
  <1> HIDE DEF u
  <1>6. (u.hasToolCall <=> Called(u.wire)) /\ (u.seen # {} \/ u.started # {} => Called(u.wire))
    <2>1. CASE l.type = "tool"
      BY <1>2, <1>5, <2>1 DEF OpenAIOpen
    <2>2. CASE l.type = "content"
      BY <1>2, <1>5, <2>2 DEF OpenAIOpen
    <2> QED BY <2>1, <2>2 DEF Contents, ToolLines
  <1> QED BY <1>2, <1>4, <1>5, <1>6 DEF OpenAIOpen, u

\* The answer goes on with nothing sent: what is known of calls does not change.
LEMMA OpenAIRests ==
  ASSUME NEW w \in OpenAIOpen, NEW v \in OpenAIWriters,
         v.wire = w.wire, v.attempt = w.attempt, ~v.finished, v.emitted = w.emitted,
         v.hasToolCall <=> Called(w.wire), v.seen = w.seen,
         v.started # {} => Called(w.wire)
  PROVE  v \in OpenAIOpen
  <1>1. Visible(v.wire) => v.hasToolCall \/ v.emitted
    BY DEF OpenAIOpen
  <1>2. v.seen # {} \/ v.started # {} => Called(v.wire)
    BY DEF OpenAIOpen
  <1>3. OfAttempt(v.wire, v.attempt)
    BY DEF OpenAIOpen
  <1> QED BY <1>1, <1>2, <1>3 DEF OpenAIOpen

LEMMA OpenAITextFits ==
  ASSUME NEW w \in OpenAIOpen, NEW s
  PROVE  OpenAIText(w, s) \in OpenAIOpen
  <1>1. w \in OpenAIWriters /\ ~w.finished
    BY DEF OpenAIOpen
  <1>2. CASE Residue(s) = <<>>
    <2> DEFINE v == [w EXCEPT !.suppressed = TRUE]
    <2>1. v \in OpenAIWriters
      BY <1>1 DEF OpenAIWriters
    <2>2. /\ v.wire = w.wire /\ v.attempt = w.attempt /\ v.finished = w.finished
          /\ v.emitted = w.emitted /\ v.hasToolCall = w.hasToolCall
          /\ v.seen = w.seen /\ v.started = w.started
      BY <1>1 DEF OpenAIWriters
    <2> HIDE DEF v
    <2>3. v \in OpenAIOpen
      BY <1>1, <2>1, <2>2, OpenAIRests DEF OpenAIOpen
    <2> QED BY <1>2, <2>3 DEF OpenAIText, v
  <1>3. CASE Residue(s) # <<>> /\ w.hasToolCall
    BY <1>3 DEF OpenAIText
  <1>4. CASE Residue(s) # <<>> /\ ~w.hasToolCall
    <2> DEFINE v == [w EXCEPT !.emitted = TRUE]
    <2>1. v \in OpenAIWriters
      BY <1>1 DEF OpenAIWriters
    <2>2. /\ v.wire = w.wire /\ v.attempt = w.attempt /\ v.finished = w.finished
          /\ v.emitted = TRUE /\ v.hasToolCall = w.hasToolCall
          /\ v.seen = w.seen /\ v.started = w.started
      BY <1>1 DEF OpenAIWriters
    <2>3. Content(v) = Content(w) /\ Content(w) \in Contents
          /\ Content(w).type = "content" /\ Content(w).attempt = w.attempt
      BY <1>1, <2>2 DEF Content, Contents, OpenAIWriters
    <2>4. OpenAIText(w, s) = Send(v, <<Content(w)>>)
      BY <1>4 DEF OpenAIText
    <2> HIDE DEF v
    <2>5. Send(v, <<Content(w)>>) \in OpenAIOpen
      BY <1>1, <2>1, <2>2, <2>3, ChunkFits
    <2> QED BY <2>4, <2>5
  <1> QED BY <1>2, <1>3, <1>4

LEMMA ToolLineFits ==
  ASSUME NEW w \in OpenAIWriters, NEW c \in Natives \cup {"none"},
         NEW from \in 0 .. Full, NEW to \in 0 .. Full
  PROVE  /\ ToolLine(w, c, from, to) \in ToolLines
         /\ ToolLine(w, c, from, to).type = "tool"
         /\ ToolLine(w, c, from, to).attempt = w.attempt
  BY DEF ToolLine, ToolLines, OpenAIWriters

\* A line of a call is sent by a writer that knows of the call.
LEMMA ToolSent ==
  ASSUME NEW w \in OpenAIOpen, NEW v \in OpenAIWriters, NEW l \in ToolLines,
         v.wire = w.wire, v.attempt = w.attempt, v.finished = w.finished, v.hasToolCall,
         l.attempt = w.attempt
  PROVE  Send(v, <<l>>) \in OpenAIOpen
  <1>1. ~v.finished /\ l.type = "tool"
    BY DEF OpenAIOpen, ToolLines
  <1> QED BY <1>1, ChunkFits

LEMMA StartedFits ==
  ASSUME NEW w \in OpenAIWriters, NEW c \in Natives
  PROVE  LET v == Started(w, c) IN
         /\ v \in OpenAIWriters /\ v.hasToolCall
         /\ v.wire = w.wire /\ v.attempt = w.attempt /\ v.finished = w.finished
         /\ v.emitted = w.emitted /\ v.seen = w.seen /\ v.streamed = w.streamed
         /\ v.junk = w.junk
         /\ c \in w.started => v.started = w.started
  <1>1. Started(w, c) \in OpenAIWriters
    BY DEF Started, OpenAIWriters
  <1> QED BY <1>1 DEF Started, OpenAIWriters

\* b is the writer whose call is passed on: w itself or w with the call known.
LEMMA OpenAIDeltaFits ==
  ASSUME NEW w \in OpenAIOpen, NEW b \in OpenAIWriters, NEW c \in Natives, NEW to \in 0 .. Full,
         b.wire = w.wire, b.attempt = w.attempt, b.finished = w.finished,
         b.emitted = w.emitted, b.seen = w.seen, b.started = w.started
  PROVE  OpenAIDelta(b, c, to) \in OpenAIOpen
  <1> DEFINE v == Started(b, c)
             g == [v EXCEPT !.streamed[c] = to]
  <1>1. /\ v \in OpenAIWriters /\ v.hasToolCall
        /\ v.wire = w.wire /\ v.attempt = w.attempt /\ v.finished = w.finished
        /\ v.emitted = w.emitted /\ v.seen = w.seen
        /\ c \in w.started => v.started = w.started
    BY StartedFits
  <1>2. OpenAIDelta(b, c, to) = IF c \in b.started /\ to = b.streamed[c] THEN v
                                ELSE Send(g, <<ToolLine(b, c, b.streamed[c], to)>>)
    BY DEF OpenAIDelta
  <1> HIDE DEF v
  <1>3. CASE c \in b.started /\ to = b.streamed[c]
    <2>1. Called(w.wire) /\ ~w.finished
      BY <1>3 DEF OpenAIOpen
    <2>2. v \in OpenAIOpen
      BY <1>1, <2>1, OpenAIRests
    <2> QED BY <1>2, <1>3, <2>2
  <1>4. CASE ~(c \in b.started /\ to = b.streamed[c])
    <2>1. g \in OpenAIWriters
      BY <1>1 DEF OpenAIWriters
    <2>2. g.wire = w.wire /\ g.attempt = w.attempt /\ g.finished = w.finished /\ g.hasToolCall
      BY <1>1 DEF OpenAIWriters
    <2>3. b.streamed[c] \in 0 .. Full
      BY DEF OpenAIWriters
    <2>4. /\ ToolLine(b, c, b.streamed[c], to) \in ToolLines
          /\ ToolLine(b, c, b.streamed[c], to).attempt = w.attempt
      BY <2>3, ToolLineFits
    <2> HIDE DEF g
    <2>5. Send(g, <<ToolLine(b, c, b.streamed[c], to)>>) \in OpenAIOpen
      BY <2>1, <2>2, <2>4, ToolSent
    <2> QED BY <1>2, <1>4, <2>5
  <1> QED BY <1>3, <1>4

LEMMA OpenAIJunkFits ==
  ASSUME NEW w \in OpenAIOpen, NEW c \in Natives
  PROVE  OpenAIJunk(w, c) \in OpenAIOpen
  <1> DEFINE v == Started(w, c)
             g == [v EXCEPT !.junk = v.junk \cup {c}]
  <1>1. w \in OpenAIWriters
    BY DEF OpenAIOpen
  <1>2. /\ v \in OpenAIWriters /\ v.hasToolCall
        /\ v.wire = w.wire /\ v.attempt = w.attempt /\ v.finished = w.finished
    BY <1>1, StartedFits
  <1>3. OpenAIJunk(w, c) = Send(g, <<ToolLine(w, c, 0, 0)>>)
    BY DEF OpenAIJunk
  <1> HIDE DEF v
  <1>4. g \in OpenAIWriters
    BY <1>2 DEF OpenAIWriters
  <1>5. g.wire = w.wire /\ g.attempt = w.attempt /\ g.finished = w.finished /\ g.hasToolCall
    BY <1>2 DEF OpenAIWriters
  <1>6. ToolLine(w, c, 0, 0) \in ToolLines /\ ToolLine(w, c, 0, 0).attempt = w.attempt
    <2>1. 0 \in 0 .. Full
      BY DEF Full
    <2> QED BY <1>1, <2>1, ToolLineFits
  <1> HIDE DEF g
  <1> QED BY <1>3, <1>4, <1>5, <1>6, ToolSent

LEMMA OpenAICallFits ==
  ASSUME NEW w \in OpenAIOpen, NEW call \in Calls, NEW c \in Natives \cup {"none"}
  PROVE  OpenAICall([w EXCEPT !.hasToolCall = TRUE], call, c) \in OpenAIOpen
  <1> DEFINE b == [w EXCEPT !.hasToolCall = TRUE]
             mismatch == c \in b.junk \/ (c \in Respelled /\ b.streamed[c] > 0)
             g == [b EXCEPT !.seen = b.seen \cup {call}]
  <1> SUFFICES OpenAICall(b, call, c) \in OpenAIOpen
    OBVIOUS
  <1>1. w \in OpenAIWriters /\ ~w.finished
    BY DEF OpenAIOpen
  <1>2. b \in OpenAIWriters
    BY <1>1 DEF OpenAIWriters
  <1>3. /\ b.wire = w.wire /\ b.attempt = w.attempt /\ b.finished = w.finished
        /\ b.emitted = w.emitted /\ b.seen = w.seen /\ b.started = w.started /\ b.hasToolCall
    BY <1>1 DEF OpenAIWriters
  <1>4. OpenAICall(b, call, c) =
          CASE c # "none" /\ c \in b.started ->
                 IF mismatch \/ b.streamed[c] = Full THEN b ELSE OpenAIDelta(b, c, Full)
            [] call \in b.seen /\ (c = "none" \/ c \notin b.started) -> b
            [] OTHER -> Send(g, <<ToolLine(b, c, 0, Full)>>)
    BY DEF OpenAICall
  <1>5. Called(w.wire) => b \in OpenAIOpen
    <2> HIDE DEF b
    <2> QED BY <1>1, <1>2, <1>3, OpenAIRests
  <1>6. Full \in 0 .. Full /\ 0 \in 0 .. Full
    BY DEF Full
  <1>7. CASE c # "none" /\ c \in b.started
    <2>1. Called(w.wire) /\ c \in Natives
      BY <1>3, <1>7 DEF OpenAIOpen
    <2>2. OpenAIDelta(b, c, Full) \in OpenAIOpen
      <3> HIDE DEF b
      <3> QED BY <1>2, <1>3, <1>6, <2>1, OpenAIDeltaFits
    <2> HIDE DEF b, mismatch, g
    <2> QED BY <1>4, <1>5, <1>7, <2>1, <2>2
  <1>8. CASE ~(c # "none" /\ c \in b.started) /\ call \in b.seen
    <2>1. Called(w.wire)
      BY <1>3, <1>8 DEF OpenAIOpen
    <2> HIDE DEF b, mismatch, g
    <2> QED BY <1>4, <1>5, <1>8, <2>1
  <1>9. CASE ~(c # "none" /\ c \in b.started) /\ call \notin b.seen
    <2>1. g \in OpenAIWriters
      <3> HIDE DEF b
      <3> QED BY <1>2 DEF OpenAIWriters
    <2>2. g.wire = w.wire /\ g.attempt = w.attempt /\ g.finished = w.finished /\ g.hasToolCall
      <3> HIDE DEF b
      <3> QED BY <1>2, <1>3 DEF OpenAIWriters
    <2> HIDE DEF b, g, mismatch
    <2>3. ToolLine(b, c, 0, Full) \in ToolLines /\ ToolLine(b, c, 0, Full).attempt = w.attempt
      BY <1>2, <1>3, <1>6, ToolLineFits
    <2>4. Send(g, <<ToolLine(b, c, 0, Full)>>) \in OpenAIOpen
      BY <2>1, <2>2, <2>3, ToolSent
    <2> QED BY <1>4, <1>9, <2>4
  <1> QED BY <1>7, <1>8, <1>9

LEMMA OpenAIEventFits ==
  ASSUME NEW w \in OpenAIOpen, NEW e \in Events(FALSE)
  PROVE  OpenAIEvent(w, e) \in OpenAIOpen
  <1>1. CASE e.type = "text"
    BY <1>1, OpenAITextFits DEF OpenAIEvent
  <1>2. CASE e.type = "tool_call"
    <2>1. e.call \in Calls /\ e.id \in Natives \cup {"none"}
      BY <1>2 DEF Events, Utterances
    <2>2. OpenAIEvent(w, e) = OpenAICall([w EXCEPT !.hasToolCall = TRUE], e.call, e.id)
      BY <1>2 DEF OpenAIEvent
    <2> QED BY <2>1, <2>2, OpenAICallFits
  <1>3. e.type \in {"text", "tool_call"}
    BY DEF Events, Utterances
  <1> QED BY <1>1, <1>2, <1>3

\* Lines that are sent in two groups could be sent in two others.
Regrouped(wire, more, f, d) ==
  (wire \o (more \o <<f>>)) \o <<d>> = (wire \o more) \o <<f, d>>

LEMMA SentApart ==
  ASSUME NEW T, NEW wire \in Seq(T), NEW more \in Seq(T), NEW f \in T, NEW d \in T
  PROVE  Regrouped(wire, more, f, d)
  <1> DEFINE last == more \o <<f>>
             sofar == wire \o last
             body == wire \o more
  <1> DEFINE s == sofar \o <<d>>
             t == body \o <<f, d>>
  <1>1. last \in Seq(T) /\ sofar \in Seq(T) /\ body \in Seq(T)
    OBVIOUS
  <1>2. /\ Len(last) = Len(more) + 1
        /\ \A i \in 1 .. Len(more) : last[i] = more[i]
        /\ last[Len(more) + 1] = f
    OBVIOUS
  <1>3. /\ Len(sofar) = Len(body) + 1
        /\ \A i \in 1 .. Len(body) : sofar[i] = body[i]
        /\ sofar[Len(body) + 1] = f
    BY <1>1, <1>2
  <1>4. s \in Seq(T) /\ t \in Seq(T) /\ Len(s) = Len(t)
    BY <1>1, <1>3
  <1>5. \A i \in 1 .. Len(s) : s[i] = t[i]
    BY <1>1, <1>3
  <1> HIDE DEF s, t
  <1>6. s = t
    BY <1>4, <1>5, SeqEqual
  <1> QED BY <1>6 DEF s, t, Regrouped

LEMMA OpenAIFinishFits ==
  ASSUME NEW w \in OpenAIOpen
  PROVE  \E body \in Seq(Chunks), r \in {"tool_calls", "stop"} :
           /\ Send(OpenAIFinish(w), <<Done>>).wire = body \o <<FinishReason(r), Done>>
           /\ OfAttempt(body, w.attempt)
           /\ r = "tool_calls" <=> Called(body)
  <1> DEFINE apology == ~w.hasToolCall /\ w.suppressed
             r == IF w.hasToolCall THEN "tool_calls" ELSE "stop"
             more == IF apology THEN <<Content(w)>> ELSE <<>>
             u == [w EXCEPT !.finished = TRUE, !.emitted = w.emitted \/ apology]
             last == more \o <<FinishReason(r)>>
             sofar == w.wire \o last
             body == w.wire \o more
  <1>1. /\ w \in OpenAIWriters /\ ~w.finished /\ w.wire \in Seq(Chunks)
        /\ OfAttempt(w.wire, w.attempt) /\ (w.hasToolCall <=> Called(w.wire))
    BY DEF OpenAIOpen, OpenAIWriters
  <1>2. Content(w) \in Chunks /\ Content(w).type = "content" /\ Content(w).attempt = w.attempt
    BY <1>1 DEF Content, Contents, Chunks, OpenAIWriters
  <1>3. body \in Seq(Chunks) /\ OfAttempt(body, w.attempt) /\ (Called(body) <=> Called(w.wire))
    <2>1. CASE apology
      <3>1. /\ w.wire \o <<Content(w)>> \in Seq(Chunks)
            /\ OfAttempt(w.wire \o <<Content(w)>>, w.attempt)
            /\ Called(w.wire \o <<Content(w)>>) <=> Called(w.wire)
        BY <1>1, <1>2, ChunkSent
      <3> QED BY <2>1, <3>1
    <2>2. CASE ~apology
      <3>1. w.wire \o <<>> = w.wire
        BY <1>1
      <3> QED BY <1>1, <2>2, <3>1
    <2> QED BY <2>1, <2>2
  <1>4. OpenAIFinish(w) = Send(u, last)
    BY <1>1 DEF OpenAIFinish
  <1>5. Send(u, last).wire = sofar
    <2>1. u.wire = w.wire /\ u \in OpenAIWriters
      BY <1>1 DEF OpenAIWriters
    <2> HIDE DEF u, last
    <2> QED BY <2>1 DEF Send, OpenAIWriters
  <1>6. Send(OpenAIFinish(w), <<Done>>).wire = sofar \o <<Done>>
    <2> DEFINE f == OpenAIFinish(w)
    <2>1. f = [u EXCEPT !.wire = u.wire \o last]
      BY <1>4 DEF Send
    <2>2. "wire" \in DOMAIN f
      <3>1. "wire" \in DOMAIN u
        BY <1>1 DEF OpenAIWriters
      <3> HIDE DEF u, f
      <3> QED BY <2>1, <3>1
    <2>3. f.wire = sofar
      BY <1>4, <1>5
    <2> HIDE DEF f, sofar
    <2> QED BY <2>2, <2>3 DEF Send, f
  <1>7. sofar \o <<Done>> = body \o <<FinishReason(r), Done>>
    <2> DEFINE T == Chunks \cup {FinishReason(r), Done}
    <2>1. w.wire \in Seq(T) /\ more \in Seq(T) /\ FinishReason(r) \in T /\ Done \in T
      <3>1. Chunks \subseteq T /\ FinishReason(r) \in T /\ Done \in T
        OBVIOUS
      <3> HIDE DEF T, r
      <3>2. w.wire \in Seq(T)
        BY <1>1, <3>1
      <3>3. more \in Seq(T)
        BY <1>2, <3>1
      <3> QED BY <3>1, <3>2, <3>3
    <2>2. Regrouped(w.wire, more, FinishReason(r), Done)
      <3> HIDE DEF T, more, r
      <3> QED BY <2>1, SentApart
    <2> HIDE DEF more, r
    <2> QED BY <2>2 DEF Regrouped
  <1>8. r \in {"tool_calls", "stop"} /\ (r = "tool_calls" <=> Called(body))
    <2> HIDE DEF body
    <2> QED BY <1>1, <1>3
  <1> HIDE DEF body, r, sofar
  <1> QED BY <1>3, <1>6, <1>7, <1>8

-----------------------------------------------------------------------------
(* What the client has of an answer.                                       *)

Lines == Speech \cup Chunks
Reasons == [type : {"message_delta", "finish"},
            reason : {"tool_use", "tool_calls", "end_turn", "stop"}]
AsksResults(r) == r.reason \in {"tool_use", "tool_calls"}

\* An answer that goes on or was broken off, and one that ended; with excuse x its
\* reason may ask for results of a call that was not shown.
Unfinished(wire) == wire \in Seq(Lines) /\ \E n : OfAttempt(wire, n)
Finished(wire, x) ==
  \E body \in Seq(Lines), r \in Reasons, t \in [type : Terminal] :
    /\ wire = body \o <<r, t>>
    /\ \E n : OfAttempt(body, n)
    /\ Called(body) => AsksResults(r)
    /\ AsksResults(r) => Called(body) \/ x
Proper(wire, x) == Unfinished(wire) \/ Finished(wire, x)

LEMMA LineTypes ==
  \A l \in Lines :
    /\ l.type \notin Terminal \cup {"message_delta", "finish"}
    /\ "from" \in DOMAIN l <=> l.type \in {"tool", "delta"} /\ "from" \in DOMAIN l
  <1>1. \A l \in Quiet : l.type \in {"message_start", "start", "delta", "stop"}
    BY DEF Quiet
  <1>2. \A l \in Pieces : l.type = "delta"
    BY DEF Pieces
  <1> QED BY <1>1, <1>2, PiecesCall, ChunkTypes DEF Lines, Speech, Terminal

LEMMA ProperUnfinished ==
  ASSUME Unfinished(writer.wire)
  PROVE  /\ NothingAfterEnd /\ OneAttemptVisible
         /\ \A i \in DOMAIN Wire : ~Reason(i)
  <1>1. \A i \in DOMAIN writer.wire : writer.wire[i] \in Lines
    BY DEF Unfinished
  <1>2. PICK n : OfAttempt(writer.wire, n)
    BY DEF Unfinished
  <1>3. NothingAfterEnd
    BY <1>1, LineTypes DEF NothingAfterEnd, Wire
  <1>4. OneAttemptVisible
    BY <1>2 DEF OneAttemptVisible, OfAttempt, Wire
  <1>5. \A i \in DOMAIN Wire : ~Reason(i)
    BY <1>1, LineTypes DEF Reason, Is, Wire
  <1> QED BY <1>3, <1>4, <1>5

LEMMA ProperFinished ==
  ASSUME NEW x \in BOOLEAN, Finished(writer.wire, x)
  PROVE  /\ NothingAfterEnd /\ OneAttemptVisible
         /\ ~x => \A i \in DOMAIN Wire : Reason(i) =>
                    (Wire[i].reason \in {"tool_use", "tool_calls"} <=> \E j \in Before(i) : IsPiece(j))
  <1>1. PICK body \in Seq(Lines), r \in Reasons, t \in [type : Terminal] :
          /\ writer.wire = body \o <<r, t>>
          /\ \E n : OfAttempt(body, n)
          /\ Called(body) => AsksResults(r)
          /\ AsksResults(r) => Called(body) \/ x
    BY DEF Finished
  <1> DEFINE k == Len(body)
  <1>2. k \in Nat /\ DOMAIN Wire = 1 .. k + 2 /\ Len(Wire) = k + 2
    BY <1>1 DEF Wire
  <1>3. Wire[k + 1] = r /\ Wire[k + 2] = t
    BY <1>1 DEF Wire
  <1>4. \A i \in 1 .. k : Wire[i] = body[i] /\ body[i] \in Lines /\ i \in DOMAIN body
    BY <1>1 DEF Wire
  <1>5. DOMAIN body = 1 .. k
    BY <1>1
  <1> HIDE DEF k
  <1>6. \A i \in DOMAIN Wire : i \in 1 .. k \/ i = k + 1 \/ i = k + 2
    BY <1>2
  <1>7. r.type \in {"message_delta", "finish"} /\ t.type \in {"message_stop", "done"}
    BY DEF Reasons, Terminal
  <1>8. NothingAfterEnd
    BY <1>2, <1>3, <1>4, <1>6, <1>7, LineTypes DEF NothingAfterEnd, Terminal
  <1>9. OneAttemptVisible
    <2>1. PICK n : OfAttempt(body, n)
      BY <1>1
    <2>2. \A i \in DOMAIN Wire : Wire[i].type \in {"content", "tool"} => Wire[i].attempt = n
      BY <2>1, <1>3, <1>4, <1>6, <1>7 DEF OfAttempt
    <2> QED BY <2>2 DEF OneAttemptVisible
  <1>10. \A i \in DOMAIN Wire : Reason(i) => i = k + 1
    BY <1>3, <1>4, <1>6, <1>7, LineTypes DEF Reason, Is
  <1>11. (\E j \in Before(k + 1) : IsPiece(j)) <=> Called(body)
    <2>1. Before(k + 1) = 1 .. k
      BY <1>2 DEF Before
    <2>2. \A j \in 1 .. k : IsPiece(j) <=> "from" \in DOMAIN body[j]
      BY <1>4, LineTypes DEF IsPiece
    <2> QED BY <1>5, <2>1, <2>2 DEF Called
  <1>12. ~x => (Wire[k + 1].reason \in {"tool_use", "tool_calls"} <=> Called(body))
    BY <1>1, <1>3 DEF AsksResults
  <1> QED BY <1>8, <1>9, <1>10, <1>11, <1>12

-----------------------------------------------------------------------------
(* The answers of the four apis while they go on.                          *)

Collectors == [text : BOOLEAN, calls : Seq(Calls), wire : {<<>>}]

OpenWriters(api, x) ==
  CASE api = "claude" -> ClaudeOpen(x)
    [] api = "openai" -> OpenAIOpen
    [] OTHER -> Collectors

LEMMA NewClaudeFits == NewClaude \in ClaudeOpen(FALSE)
  <1> DEFINE wire == <<[type |-> "message_start"]>>
  <1>1. wire \in Seq(Quiet)
    BY DEF Quiet
  <1> HIDE DEF wire
  <1>2. wire \in Seq(Speech) /\ ~Called(wire)
    BY <1>1, QuietLines
  <1>3. NewClaude = [next |-> 0, textOpen |-> FALSE, thinkingOpen |-> FALSE, finished |-> FALSE,
                     hasToolCall |-> FALSE, seen |-> {}, block |-> [c \in Natives |-> NoBlock],
                     streamed |-> [c \in Natives |-> 0], stopped |-> {}, pending |-> FALSE,
                     suppressed |-> FALSE, wire |-> wire]
    BY DEF NewClaude, wire
  <1>4. NewClaude \in ClaudeWriters
    BY <1>2, <1>3 DEF ClaudeWriters, NoBlock, Full
  <1>5. /\ NewClaude.wire = wire /\ ~NewClaude.finished /\ ~NewClaude.hasToolCall
        /\ NewClaude.seen = {} /\ \A c \in Natives : NewClaude.block[c] = NoBlock
    BY <1>3
  <1> QED BY <1>2, <1>4, <1>5 DEF ClaudeOpen

LEMMA NewOpenAIFits == NewOpenAI \in OpenAIOpen
  <1> DEFINE wire == <<[type |-> "role"]>>
  <1>1. wire \in Seq(Chunks) /\ \A i \in DOMAIN wire : wire[i].type = "role" /\ wire[i] \in Chunks
    BY DEF Chunks
  <1> HIDE DEF wire
  <1>2. ~Called(wire) /\ OfAttempt(wire, 1) /\ ~Visible(wire)
    BY <1>1, ChunkTypes DEF Called, OfAttempt, Visible
  <1>3. NewOpenAI = [hasToolCall |-> FALSE, finished |-> FALSE, attempt |-> 1, seen |-> {},
                     started |-> {}, junk |-> {}, streamed |-> [c \in Natives |-> 0],
                     suppressed |-> FALSE, emitted |-> FALSE, wire |-> wire]
    BY DEF NewOpenAI, wire
  <1>4. NewOpenAI \in OpenAIWriters
    BY <1>1, <1>3 DEF OpenAIWriters, Full
  <1>5. /\ NewOpenAI.wire = wire /\ ~NewOpenAI.finished /\ ~NewOpenAI.hasToolCall
        /\ NewOpenAI.seen = {} /\ NewOpenAI.started = {} /\ NewOpenAI.attempt = 1
    BY <1>3
  <1> QED BY <1>2, <1>4, <1>5 DEF OpenAIOpen

LEMMA NewCollectorFits == NewCollector \in Collectors
  <1>1. <<>> \in Seq(Calls)
    OBVIOUS
  <1> QED BY <1>1 DEF NewCollector, Collectors

LEMMA NewAnswerFits ==
  ASSUME NEW api \in Apis
  PROVE  NewAnswer(api) \in OpenWriters(api, FALSE)
  BY NewClaudeFits, NewOpenAIFits, NewCollectorFits DEF NewAnswer, OpenWriters, Apis

LEMMA CollectFits ==
  ASSUME NEW w \in Collectors, NEW e \in Events(TRUE)
  PROVE  Collect(w, e) \in Collectors
  <1>1. CASE e.type = "tool_call"
    <2>1. e.call \in Calls
      BY <1>1 DEF Events, Utterances
    <2>2. Append(w.calls, e.call) \in Seq(Calls)
      BY <2>1 DEF Collectors
    <2> QED BY <1>1, <2>2 DEF Collect, Collectors
  <1>2. CASE e.type # "tool_call"
    BY <1>2 DEF Collect, Collectors
  <1> QED BY <1>1, <1>2

LEMMA RepairedFits ==
  ASSUME NEW thinks \in BOOLEAN, NEW e \in Events(thinks)
  PROVE  Repaired(e) \in Events(thinks)
  <1>1. CASE e.type = "tool_call" /\ e.call = "alias"
    <2>1. e \in [type : {"tool_call"}, call : Calls, id : Natives \cup {"none"}]
      BY <1>1 DEF Events, Utterances
    <2>2. [e EXCEPT !.call = "a"] \in [type : {"tool_call"}, call : Calls, id : Natives \cup {"none"}]
      BY <2>1 DEF Calls
    <2> QED BY <1>1, <2>2 DEF Repaired, Events, Utterances
  <1>2. CASE ~(e.type = "tool_call" /\ e.call = "alias")
    BY <1>2 DEF Repaired
  <1> QED BY <1>1, <1>2

LEMMA EventsWiden ==
  ASSUME NEW thinks \in BOOLEAN, NEW e \in Events(thinks)
  PROVE  e \in Events(TRUE)
  BY DEF Events, Utterances

\* An event that is handled leaves the answer going on; a valid call is shown.
LEMMA HandledFits ==
  ASSUME request.api \in Apis, NEW x \in BOOLEAN, NEW w \in OpenWriters(request.api, x),
         NEW thinks \in BOOLEAN, thinks => request.api = "claude", NEW e \in Events(thinks)
  PROVE  /\ Handled(w, e) \in OpenWriters(request.api, x)
         /\ e.type = "tool_call" /\ e.call \notin {"bad", "alias"} =>
              Handled(w, e) \in OpenWriters(request.api, FALSE)
  <1>1. e \in Events(TRUE) /\ Repaired(e) \in Events(thinks) /\ Repaired(e) \in Events(TRUE)
    BY EventsWiden, RepairedFits
  <1>2. CASE request.api = "claude"
    <2>1. w \in ClaudeOpen(x)
      BY <1>2 DEF OpenWriters
    <2>2. Handled(w, e) = IF IsValid(e) THEN ClaudeEvent(w, e) ELSE w
      BY <1>2 DEF Handled
    <2>3. /\ ClaudeEvent(w, e) \in ClaudeOpen(x)
          /\ e.type = "tool_call" => ClaudeEvent(w, e) \in ClaudeOpen(FALSE)
      BY <1>1, <2>1, ClaudeEventFits
    <2>4. e.type = "tool_call" /\ e.call \notin {"bad", "alias"} => IsValid(e)
      BY DEF IsValid
    <2> QED BY <1>2, <2>1, <2>2, <2>3, <2>4 DEF OpenWriters
  <1>3. CASE request.api = "openai"
    <2>1. w \in OpenAIOpen /\ Repaired(e) \in Events(FALSE)
      BY <1>1, <1>3 DEF OpenWriters
    <2>2. Handled(w, e) = IF IsValid(Repaired(e)) THEN OpenAIEvent(w, Repaired(e)) ELSE w
      BY <1>3 DEF Handled
    <2>3. OpenAIEvent(w, Repaired(e)) \in OpenAIOpen
      BY <2>1, OpenAIEventFits
    <2> QED BY <1>3, <2>1, <2>2, <2>3 DEF OpenWriters
  <1>4. CASE request.api \notin {"claude", "openai"}
    <2>1. w \in Collectors
      BY <1>4 DEF OpenWriters
    <2>2. Handled(w, e) = IF IsValid(Repaired(e)) THEN Collect(w, Repaired(e)) ELSE w
      BY <1>4 DEF Handled
    <2>3. Collect(w, Repaired(e)) \in Collectors
      BY <1>1, <2>1, CollectFits
    <2> QED BY <1>4, <2>1, <2>2, <2>3 DEF OpenWriters
  <1> QED BY <1>2, <1>3, <1>4

LEMMA ForwardedFits ==
  ASSUME request.api \in Apis, NEW x \in BOOLEAN, NEW w \in OpenWriters(request.api, x),
         NEW thinks \in BOOLEAN, thinks => request.api = "claude", NEW events \in Seq(Events(thinks))
  PROVE  Forwarded(w, events) \in OpenWriters(request.api, x)
  <1>1. \A v \in OpenWriters(request.api, x), e \in Events(thinks) :
          Handled(v, e) \in OpenWriters(request.api, x)
    BY HandledFits
  <1> DEFINE S == OpenWriters(request.api, x)
             E == Events(thinks)
  <1> HIDE DEF S, E
  <1>2. w \in S /\ events \in Seq(E) /\ \A v \in S, e \in E : Handled(v, e) \in S
    BY <1>1 DEF S, E
  <1>3. Forwarded(w, events) \in S
    BY <1>2, ForwardedStays
  <1> QED BY <1>3 DEF S

LEMMA OpenWritersWiden ==
  ASSUME NEW api \in Apis, NEW x \in BOOLEAN, NEW y \in BOOLEAN, x => y, NEW w \in OpenWriters(api, x)
  PROVE  w \in OpenWriters(api, y)
  BY DEF OpenWriters, ClaudeOpen

\* A listing: the text before the calls, then the calls.  Calls with deltas (x) are
\* excused no longer (~y) once a valid call is among those listed.
LEMMA ListingFits ==
  ASSUME request.api \in Apis, NEW x \in BOOLEAN, NEW y \in BOOLEAN,
         NEW w \in OpenWriters(request.api, x),
         NEW thinks \in BOOLEAN, thinks => request.api = "claude",
         NEW events \in Seq(Events(thinks)), NEW calls \in Seq(Events(thinks)),
         x /\ ~y => \E i \in DOMAIN calls :
           calls[i].type = "tool_call" /\ calls[i].call \notin {"bad", "alias"}
  PROVE  Forwarded(w, events \o calls) \in OpenWriters(request.api, y)
  <1> DEFINE all == events \o calls
  <1>1. all \in Seq(Events(thinks)) /\ Len(all) \in Nat
    OBVIOUS
  <1>2. CASE x => y
    <2> HIDE DEF all
    <2>1. Forwarded(w, all) \in OpenWriters(request.api, x)
      BY <1>1, ForwardedFits
    <2>2. Forwarded(w, all) \in OpenWriters(request.api, y)
      BY <1>2, <2>1, OpenWritersWiden
    <2> QED BY <2>2 DEF all
  <1>3. CASE x /\ ~y
    <2>1. PICK i \in DOMAIN calls : calls[i].type = "tool_call" /\ calls[i].call \notin {"bad", "alias"}
      BY <1>3
    <2> DEFINE k == Len(events) + i
               Q == [n \in 0 .. Len(all) |-> IF n < k THEN OpenWriters(request.api, TRUE)
                                             ELSE OpenWriters(request.api, FALSE)]
    <2>2. k \in 1 .. Len(all) /\ all[k] = calls[i]
      OBVIOUS
    <2>3. \A n \in 1 .. Len(all) : all[n] \in Events(thinks) /\ n - 1 \in 0 .. Len(all) /\ n \in 0 .. Len(all)
      OBVIOUS
    <2> HIDE DEF all, k
    <2>4. x = TRUE /\ y = FALSE
      BY <1>3
    <2>5. w \in Q[0] /\ Q[Len(all)] = OpenWriters(request.api, y)
      <3>1. 0 \in 0 .. Len(all) /\ Len(all) \in 0 .. Len(all) /\ 0 < k /\ ~(Len(all) < k)
        BY <1>1, <2>2
      <3> QED BY <2>4, <3>1
    <2>6. \A n \in 0 .. Len(all) : Q[n] = IF n < k THEN OpenWriters(request.api, TRUE)
                                        ELSE OpenWriters(request.api, FALSE)
      OBVIOUS
    <2> HIDE DEF Q
    <2>7. ASSUME NEW n \in 1 .. Len(all), NEW v \in Q[n - 1] PROVE Handled(v, all[n]) \in Q[n]
      <3>1. n \in Int /\ k \in Int /\ (n <= k => n - 1 < k) /\ (n > k => ~(n - 1 < k) /\ ~(n < k))
        BY <1>1, <2>2
      <3>2. all[n] \in Events(thinks)
        BY <2>3
      <3>3. /\ v \in IF n - 1 < k THEN OpenWriters(request.api, TRUE) ELSE OpenWriters(request.api, FALSE)
            /\ Q[n] = IF n < k THEN OpenWriters(request.api, TRUE) ELSE OpenWriters(request.api, FALSE)
        <4>1. n \in 0 .. Len(all) /\ n - 1 \in 0 .. Len(all) /\ v \in Q[n - 1]
          BY <2>3
        <4> QED BY <2>6, <4>1
      <3>4. CASE n < k
        <4>1. v \in OpenWriters(request.api, TRUE) /\ Q[n] = OpenWriters(request.api, TRUE)
          <5>1. n - 1 < k /\ n < k
            BY <3>1, <3>4
          <5> QED BY <3>3, <5>1, Zenon
        <4> QED BY <3>2, <4>1, HandledFits
      <3>5. CASE n = k
        <4>1. v \in OpenWriters(request.api, TRUE) /\ Q[n] = OpenWriters(request.api, FALSE)
          <5>1. n - 1 < k /\ ~(n < k)
            BY <3>1, <3>5
          <5> QED BY <3>3, <5>1, Zenon
        <4> QED BY <2>1, <2>2, <3>2, <3>5, <4>1, HandledFits
      <3>6. CASE n > k
        <4>1. v \in OpenWriters(request.api, FALSE) /\ Q[n] = OpenWriters(request.api, FALSE)
          <5>1. ~(n - 1 < k) /\ ~(n < k)
            BY <3>1, <3>6
          <5> QED BY <3>3, <5>1, Zenon
        <4> QED BY <3>2, <4>1, HandledFits
      <3> QED BY <3>1, <3>4, <3>5, <3>6
    <2>8. Forwarded(w, all) \in Q[Len(all)]
      BY <1>1, <2>5, <2>7, ForwardedThrough
    <2> QED BY <2>5, <2>8 DEF all
  <1> QED BY <1>2, <1>3

\* The answer with the rest of the text: it goes on, but for the Claude stream, which
\* the mark of the end finishes.
LEMMA RestFits ==
  ASSUME request.api \in Apis, NEW x \in BOOLEAN, NEW w \in OpenWriters(request.api, x),
         request.tools \in BOOLEAN, request.thinks \in BOOLEAN,
         request.thinks => request.api = "claude",
         parser \in Parsers(request.tools, request.thinks)
  PROVE  /\ request.api # "claude" => Forwarded(w, Rest) \in OpenWriters(request.api, x)
         /\ request.api = "claude" => Finished(Forwarded(w, Rest).wire, x)
  <1>1. PICK events \in Seq(Events(request.thinks)) :
          Finish(parser, request.thinks) = [NewParser EXCEPT !.events = events \o <<End>>]
    <2>1. \E events \in Seq(Utterances(request.thinks)) :
            Finish(parser, request.thinks) = [NewParser EXCEPT !.events = events \o <<End>>]
      BY FinishFits
    <2>2. Seq(Utterances(request.thinks)) \subseteq Seq(Events(request.thinks))
      BY EventKinds
    <2> QED BY <2>1, <2>2, Zenon
  <1> DEFINE all == events \o <<End>>
  <1>2. Finish(parser, request.thinks).events = all
    BY <1>1 DEF NewParser
  <1>3. ASSUME request.api # "claude" PROVE Forwarded(w, Rest) \in OpenWriters(request.api, x)
    <2>1. Front(all) = events
      <3>1. Front(all) = SubSeq(all, 1, Len(events))
        BY DEF Front
      <3>2. \A i \in 1 .. Len(events) : SubSeq(all, 1, Len(events))[i] = events[i]
        OBVIOUS
      <3>3. SubSeq(all, 1, Len(events)) \in Seq(Events(request.thinks)) /\ Len(SubSeq(all, 1, Len(events))) = Len(events)
        OBVIOUS
      <3> QED BY <3>1, <3>2, <3>3, SeqEqual
    <2>2. Rest = events
      BY <1>2, <1>3, <2>1 DEF Rest
    <2> QED BY <2>2, ForwardedFits
  <1>4. ASSUME request.api = "claude" PROVE Finished(Forwarded(w, Rest).wire, x)
    <2> DEFINE N == Len(events)
               Q == [n \in 0 .. N + 1 |-> IF n <= N THEN OpenWriters(request.api, x)
                                          ELSE {ClaudeFinish(v) : v \in ClaudeOpen(x)}]
    <2>1. N \in Nat /\ Len(all) = N + 1 /\ all[N + 1] = End /\ \A n \in 1 .. N : all[n] \in Events(request.thinks)
      OBVIOUS
    <2>2. Rest = all
      BY <1>2, <1>4 DEF Rest
    <2> HIDE DEF all, N
    <2>3. w \in Q[0]
      BY <2>1
    <2>4. ASSUME NEW n \in 1 .. Len(all), NEW v \in Q[n - 1] PROVE Handled(v, all[n]) \in Q[n]
      <3>1. v \in OpenWriters(request.api, x)
        BY <2>1, <2>4
      <3>2. CASE n <= N
        <4>1. all[n] \in Events(request.thinks)
          BY <2>1, <3>2
        <4>2. Handled(v, all[n]) \in OpenWriters(request.api, x)
          BY <3>1, <4>1, HandledFits
        <4> QED BY <2>1, <3>2, <4>2
      <3>3. CASE n = N + 1
        <4>1. Handled(v, all[n]) = ClaudeFinish(v)
          BY <1>4, <2>1, <3>3 DEF Handled, IsValid, End, ClaudeEvent
        <4>2. v \in ClaudeOpen(x)
          BY <1>4, <3>1 DEF OpenWriters
        <4> QED BY <2>1, <3>3, <4>1, <4>2
      <3> QED BY <2>1, <3>2, <3>3
    <2>5. Q[N + 1] = {ClaudeFinish(v) : v \in ClaudeOpen(x)}
      BY <2>1
    <2> HIDE DEF Q
    <2>6. Forwarded(w, all) \in Q[N + 1]
      BY <2>1, <2>3, <2>4, ForwardedThrough
    <2>7. PICK v \in ClaudeOpen(x) : Forwarded(w, all) = ClaudeFinish(v)
      BY <2>5, <2>6
    <2>8. PICK speech \in Seq(Speech), r \in {"tool_use", "end_turn"} :
            /\ ClaudeFinish(v).wire = speech \o <<StopReason(r), MessageStop>>
            /\ Called(speech) => r = "tool_use"
            /\ r = "tool_use" => Called(speech) \/ x
      BY ClaudeFinishFits
    <2>9. speech \in Seq(Lines) /\ OfAttempt(speech, 1)
      <3>1. \A i \in DOMAIN speech : speech[i].type \in {"message_start", "start", "delta", "stop"}
        BY DEF Speech, Quiet, Pieces
      <3>2. speech \in Seq(Lines)
        BY DEF Lines
      <3> QED BY <3>1, <3>2 DEF OfAttempt
    <2>10. StopReason(r) \in Reasons /\ MessageStop \in [type : Terminal]
           /\ (AsksResults(StopReason(r)) <=> r = "tool_use")
      BY DEF StopReason, MessageStop, Reasons, Terminal, AsksResults
    <2>11. Finished(ClaudeFinish(v).wire, x)
      BY <2>8, <2>9, <2>10 DEF Finished
    <2> QED BY <2>2, <2>7, <2>11
  <1> QED BY <1>3, <1>4

\* An answer that goes on is unfinished, and a finished OpenAI answer tells the truth.
LEMMA OpenIsUnfinished ==
  ASSUME NEW api \in Apis, NEW x \in BOOLEAN, NEW w \in OpenWriters(api, x)
  PROVE  Unfinished(w.wire)
  <1>1. CASE api = "claude"
    <2>1. w.wire \in Seq(Speech)
      BY <1>1 DEF OpenWriters, ClaudeOpen, ClaudeWriters
    <2>2. \A i \in DOMAIN w.wire : w.wire[i].type \in {"message_start", "start", "delta", "stop"}
      BY <2>1 DEF Speech, Quiet, Pieces
    <2>3. OfAttempt(w.wire, 1)
      BY <2>2 DEF OfAttempt
    <2> QED BY <2>1, <2>3 DEF Unfinished, Lines
  <1>2. CASE api = "openai"
    <2>1. w.wire \in Seq(Chunks) /\ OfAttempt(w.wire, w.attempt)
      BY <1>2 DEF OpenWriters, OpenAIOpen, OpenAIWriters
    <2> QED BY <2>1 DEF Unfinished, Lines
  <1>3. CASE api \notin {"claude", "openai"}
    <2>1. w.wire = <<>>
      BY <1>3 DEF OpenWriters, Collectors
    <2>2. <<>> \in Seq(Lines) /\ OfAttempt(<<>>, 1)
      BY DEF OfAttempt
    <2> QED BY <2>1, <2>2 DEF Unfinished
  <1> QED BY <1>1, <1>2, <1>3

LEMMA OpenAIFinished ==
  ASSUME NEW w \in OpenAIOpen
  PROVE  Finished(Send(OpenAIFinish(w), <<Done>>).wire, FALSE)
  <1>1. PICK body \in Seq(Chunks), r \in {"tool_calls", "stop"} :
          /\ Send(OpenAIFinish(w), <<Done>>).wire = body \o <<FinishReason(r), Done>>
          /\ OfAttempt(body, w.attempt)
          /\ r = "tool_calls" <=> Called(body)
    BY OpenAIFinishFits
  <1>2. body \in Seq(Lines)
    BY DEF Lines
  <1>3. FinishReason(r) \in Reasons /\ Done \in [type : Terminal]
        /\ (AsksResults(FinishReason(r)) <=> r = "tool_calls")
    BY DEF FinishReason, Done, Reasons, Terminal, AsksResults
  <1> QED BY <1>1, <1>2, <1>3 DEF Finished

-----------------------------------------------------------------------------
(* The inductive invariant.                                                *)

\* A call is on its way: it had deltas and is not listed yet.
OnItsWay == \E c \in Natives : sent[c] # Unsent /\ c \notin listed

\* The writer may know of a call it has not shown only while one is on its way.
GoesOn ==
  /\ writer \in OpenWriters(request.api, TRUE)
  /\ ~OnItsWay => writer \in OpenWriters(request.api, FALSE)

RequestInv ==
  /\ request \in [api : Apis, tools : BOOLEAN, thinks : BOOLEAN, pooled : BOOLEAN]
  /\ request.thinks => request.api = "claude"
  /\ phase \in {"new", "opening", "starting", "streaming", "reopening", "ending", "done"}
  /\ version \in {"v1", "v2"}

CountInv ==
  /\ sent \in [Natives -> Unsent .. Full]
  /\ junk \subseteq Strict /\ listed \subseteq Natives
  /\ left \in 0 .. MaxEvents
  /\ yielded \in BOOLEAN
  /\ answers = IF yielded THEN 1 ELSE 0
  /\ yielded => left < MaxEvents
  /\ phase \in {"new", "opening", "starting"} => ~yielded

ParserInv ==
  /\ parser \in Parsers(request.tools, request.thinks)
  /\ parser.events = <<>>
  /\ phase = "new" => parser = NewParser

WriterInv ==
  /\ phase \in {"new", "opening", "starting"} => writer = NewCollector
  /\ phase \in {"streaming", "reopening"} => GoesOn
  /\ phase = "reopening" => request.api = "openai"
  /\ phase = "ending" => Proper(writer.wire, FALSE)
  /\ phase = "done" => Proper(writer.wire, TRUE)

OutcomeInv ==
  /\ phase # "done" => logs = <<>> /\ reports = <<>>
  /\ logs \in {<<>>, <<"success">>, <<"error">>} /\ reports \in {<<>>, <<"success">>, <<"error">>}
  /\ logs = <<>> => reports = <<>>
  /\ phase = "done" /\ logs = <<>> => writer = NewCollector /\ ~yielded
  /\ reports = <<"success">> => logs = <<"success">>
  /\ request.pooled /\ logs = <<"error">> => reports = <<"error">>
  /\ request.pooled /\ ~Streaming /\ logs # <<>> => reports # <<>>

StreamInv == RequestInv /\ CountInv /\ ParserInv /\ WriterInv /\ OutcomeInv

LEMMA InitStream == Init => StreamInv
  <1> SUFFICES ASSUME Init PROVE StreamInv
    OBVIOUS
  <1>1. RequestInv
    BY DEF Init, RequestInv, Apis
  <1>2. CountInv
    <2>1. Unsent \in Unsent .. Full
      BY DEF Unsent, Full
    <2>2. sent \in [Natives -> Unsent .. Full]
      BY <2>1 DEF Init
    <2>3. left \in 0 .. MaxEvents
      BY StreamAssumption DEF Init
    <2>4. junk \subseteq Strict /\ listed \subseteq Natives /\ yielded = FALSE /\ answers = 0
      BY DEF Init
    <2> QED BY <2>2, <2>3, <2>4 DEF CountInv
  <1>3. ParserInv
    BY NewParserFits DEF Init, ParserInv, NewParser
  <1>4. WriterInv
    BY DEF Init, WriterInv, OnItsWay
  <1>5. OutcomeInv
    BY DEF Init, OutcomeInv
  <1> QED BY <1>1, <1>2, <1>3, <1>4, <1>5 DEF StreamInv

LEMMA BeginKeeps ==
  ASSUME StreamInv, NEW api \in Apis, NEW pooled \in BOOLEAN, NEW thinks \in BOOLEAN,
         NEW mode, Begin(api, pooled, thinks, mode)
  PROVE  StreamInv'
  <1>1. RequestInv'
    BY DEF Begin, StreamInv, RequestInv
  <1>2. CountInv'
    BY DEF Begin, StreamInv, CountInv, upstreamVars
  <1>3. ParserInv'
    <2>1. parser' = NewParser
      BY DEF Begin, StreamInv, ParserInv
    <2>2. NewParser \in Parsers(request'.tools, request'.thinks)
      BY NewParserFits
    <2> QED BY <2>1, <2>2 DEF ParserInv, NewParser
  <1>4. WriterInv'
    <2>1. phase' \in {"opening", "done"} /\ writer' = NewCollector
      BY DEF Begin, StreamInv, WriterInv
    <2>2. Proper(NewCollector.wire, TRUE)
      BY NewCollectorFits, OpenIsUnfinished DEF OpenWriters, Apis, Proper
    <2> QED BY <2>1, <2>2 DEF WriterInv
  <1>5. OutcomeInv'
    <2>1. logs' = <<>> /\ reports' = <<>> /\ <<>> # <<"success">> /\ <<>> # <<"error">>
      BY DEF Begin, StreamInv, OutcomeInv, outcomeVars
    <2>2. writer' = NewCollector /\ yielded' = FALSE
      BY DEF Begin, StreamInv, WriterInv, CountInv
    <2> QED BY <2>1, <2>2 DEF OutcomeInv
  <1> QED BY <1>1, <1>2, <1>3, <1>4, <1>5 DEF StreamInv

LEMMA SessionOpensKeeps ==
  ASSUME StreamInv, SessionOpens
  PROVE  StreamInv'
  <1>1. RequestInv'
    BY DEF SessionOpens, StreamInv, RequestInv
  <1>2. CountInv'
    BY DEF SessionOpens, StreamInv, CountInv, upstreamVars
  <1>3. ParserInv'
    BY DEF SessionOpens, StreamInv, ParserInv
  <1>4. WriterInv'
    BY DEF SessionOpens, StreamInv, WriterInv
  <1>5. OutcomeInv'
    BY DEF SessionOpens, StreamInv, OutcomeInv, outcomeVars
  <1> QED BY <1>1, <1>2, <1>3, <1>4, <1>5 DEF StreamInv

LEMMA BeginsKeeps ==
  ASSUME StreamInv, AnswerBegins
  PROVE  StreamInv'
  <1>1. RequestInv'
    BY DEF AnswerBegins, StreamInv, RequestInv
  <1>2. CountInv'
    BY DEF AnswerBegins, StreamInv, CountInv, upstreamVars
  <1>3. ParserInv'
    BY DEF AnswerBegins, StreamInv, ParserInv
  <1>4. WriterInv'
    <2>1. request.api \in Apis
      BY DEF StreamInv, RequestInv
    <2>2. writer' \in OpenWriters(request.api, FALSE)
      BY <2>1, NewAnswerFits DEF AnswerBegins
    <2>3. writer' \in OpenWriters(request.api, TRUE)
      BY <2>1, <2>2, OpenWritersWiden
    <2> QED BY <2>2, <2>3 DEF AnswerBegins, WriterInv, GoesOn
  <1>5. OutcomeInv'
    BY DEF AnswerBegins, StreamInv, OutcomeInv, outcomeVars
  <1> QED BY <1>1, <1>2, <1>3, <1>4, <1>5 DEF StreamInv

\* What is reported and logged when a request is done: s, of an answer that ended as r.
LEMMA OutcomeFits ==
  ASSUME StreamInv, NEW s \in {"success", "error"}, NEW r \in {"success", "error"},
         phase # "done", phase' = "done", request' = request, Log(s),
         \/ Report(r) /\ (s = "error" => r = "error") /\ (r = "success" => s = "success")
         \/ Streaming /\ s = "success" /\ reports' = reports
  PROVE  OutcomeInv'
  <1>1. logs = <<>> /\ reports = <<>> /\ request.pooled \in BOOLEAN
    BY DEF StreamInv, OutcomeInv, RequestInv
  <1>2. logs' = <<s>>
    BY <1>1 DEF Log
  <1>3. reports' \in {<<>>, <<r>>}
    BY <1>1 DEF Report
  <1>4. <<"success">> # <<"error">> /\ <<"success">> # <<>> /\ <<"error">> # <<>>
    OBVIOUS
  <1>5. Streaming' = Streaming
    BY DEF Streaming
  <1>6. CASE Report(r) /\ (s = "error" => r = "error") /\ (r = "success" => s = "success")
    <2>1. request.pooled => reports' = <<r>>
      BY <1>1, <1>6 DEF Report
    <2> QED BY <1>2, <1>3, <1>4, <1>6, <2>1 DEF OutcomeInv
  <1>7. CASE Streaming /\ s = "success" /\ reports' = reports
    BY <1>1, <1>2, <1>4, <1>5, <1>7 DEF OutcomeInv
  <1> QED BY <1>6, <1>7

LEMMA SessionFailsKeeps ==
  ASSUME StreamInv, SessionFails
  PROVE  StreamInv'
  <1>1. RequestInv'
    BY DEF SessionFails, StreamInv, RequestInv
  <1>2. CountInv'
    BY DEF SessionFails, StreamInv, CountInv, upstreamVars
  <1>3. ParserInv'
    BY DEF SessionFails, StreamInv, ParserInv
  <1>4. WriterInv'
    <2>1. writer' = NewCollector /\ phase' = "done"
      BY DEF SessionFails, StreamInv, WriterInv
    <2>2. Proper(NewCollector.wire, TRUE)
      BY NewCollectorFits, OpenIsUnfinished DEF OpenWriters, Apis, Proper
    <2> QED BY <2>1, <2>2 DEF WriterInv
  <1>5. OutcomeInv'
    BY OutcomeFits DEF SessionFails
  <1> QED BY <1>1, <1>2, <1>3, <1>4, <1>5 DEF StreamInv

\* What every event of upstream does, whatever it is.
LEMMA ArrivesFits ==
  ASSUME StreamInv, Arrives
  PROVE  /\ RequestInv' /\ OutcomeInv'
         /\ phase' = "streaming" /\ request' = request /\ GoesOn
         /\ request.api \in Apis /\ request.tools \in BOOLEAN /\ request.thinks \in BOOLEAN
         /\ request.thinks => request.api = "claude"
         /\ sent' \in [Natives -> Unsent .. Full] /\ junk' \subseteq Strict
              /\ listed' \subseteq Natives => CountInv'
         /\ parser' \in Parsers(request.tools, request.thinks) /\ parser'.events = <<>> => ParserInv'
         /\ GoesOn' => WriterInv'
  <1>1. RequestInv' /\ phase' = "streaming" /\ request' = request
    BY DEF Arrives, StreamInv, RequestInv
  <1>2. OutcomeInv'
    BY DEF Arrives, StreamInv, OutcomeInv, outcomeVars
  <1>3. GoesOn
    BY DEF Arrives, StreamInv, WriterInv
  <1>4. /\ request.api \in Apis /\ request.tools \in BOOLEAN /\ request.thinks \in BOOLEAN
        /\ request.thinks => request.api = "claude"
    BY DEF StreamInv, RequestInv
  <1>5. /\ left' \in 0 .. MaxEvents /\ left' < MaxEvents /\ yielded' = TRUE
        /\ answers' = 1
    BY StreamAssumption DEF Arrives, StreamInv, CountInv
  <1>6. ASSUME sent' \in [Natives -> Unsent .. Full], junk' \subseteq Strict, listed' \subseteq Natives
        PROVE  CountInv'
    BY <1>1, <1>5, <1>6 DEF CountInv
  <1>7. ASSUME parser' \in Parsers(request.tools, request.thinks), parser'.events = <<>>
        PROVE  ParserInv'
    BY <1>1, <1>7 DEF ParserInv
  <1>8. GoesOn' => WriterInv'
    BY <1>1 DEF WriterInv
  <1> QED BY <1>1, <1>2, <1>3, <1>4, <1>6, <1>7, <1>8

\* Events are handled while the answer goes on and no call comes or is listed.
LEMMA ForwardingGoesOn ==
  ASSUME GoesOn, request.api \in Apis, request' = request,
         NEW thinks \in BOOLEAN, thinks => request.api = "claude",
         NEW events \in Seq(Events(thinks)), writer' = Forwarded(writer, events),
         sent' = sent, listed' = listed
  PROVE  GoesOn'
  <1>1. writer' \in OpenWriters(request.api, TRUE)
    BY ForwardedFits DEF GoesOn
  <1>2. ~OnItsWay => writer' \in OpenWriters(request.api, FALSE)
    BY ForwardedFits DEF GoesOn
  <1>3. OnItsWay' <=> OnItsWay
    BY DEF OnItsWay
  <1> QED BY <1>1, <1>2, <1>3 DEF GoesOn

LEMMA ChunkKeeps ==
  ASSUME StreamInv, NEW text \in Texts, Chunk(text)
  PROVE  StreamInv'
  <1> DEFINE p == Read(parser, text, request.tools, request.thinks)
  <1>1. Arrives /\ sent' = sent /\ junk' = junk /\ listed' = listed
    BY DEF Chunk
  <1>2. /\ RequestInv' /\ OutcomeInv' /\ request' = request /\ GoesOn
        /\ request.api \in Apis /\ request.tools \in BOOLEAN /\ request.thinks \in BOOLEAN
        /\ request.thinks => request.api = "claude"
    BY <1>1, ArrivesFits
  <1>3. CountInv'
    <2>1. /\ sent' \in [Natives -> Unsent .. Full] /\ junk' \subseteq Strict /\ listed' \subseteq Natives
      BY <1>1 DEF StreamInv, CountInv
    <2> QED BY <1>1, <2>1, ArrivesFits
  <1>4. /\ parser \in Parsers(request.tools, request.thinks) /\ parser.events = <<>>
        /\ text \in Seq(Lexemes)
    BY StreamAssumption DEF StreamInv, ParserInv
  <1>5. CASE Parses
    <2>1. parser' = Consumed(p) /\ writer' = Forwarded(writer, p.events)
      BY <1>5 DEF Chunk
    <2>2. p \in Parsers(request.tools, request.thinks)
      BY <1>2, <1>4, ReadFits
    <2> HIDE DEF p
    <2>3. ParserInv'
      <3>1. parser' \in Parsers(request.tools, request.thinks) /\ parser'.events = <<>>
        BY <2>1, <2>2, ConsumedFits
      <3> QED BY <1>1, <3>1, ArrivesFits
    <2>4. WriterInv'
      <3>1. p.events \in Seq(Events(request.thinks))
        BY <1>2, <2>2, EventKinds DEF Parsers, ParserRecords
      <3>2. GoesOn'
        BY <1>1, <1>2, <2>1, <3>1, ForwardingGoesOn
      <3> QED BY <1>1, <3>2, ArrivesFits
    <2> QED BY <1>2, <1>3, <2>3, <2>4 DEF StreamInv
  <1>6. CASE ~Parses
    <2>1. parser' = parser /\ writer' = Forwarded(writer, <<Text(text)>>)
      BY <1>6 DEF Chunk
    <2>2. ParserInv'
      BY <1>1, <1>4, <2>1, ArrivesFits
    <2>3. WriterInv'
      <3>1. <<Text(text)>> \in Seq(Events(FALSE))
        BY <1>4, EventTypes, SMT DEF Text, Events, Utterances
      <3>2. GoesOn'
        BY <1>1, <1>2, <2>1, <3>1, ForwardingGoesOn
      <3> QED BY <1>1, <3>2, ArrivesFits
    <2> QED BY <1>2, <1>3, <2>2, <2>3 DEF StreamInv
  <1> QED BY <1>5, <1>6

\* While a call is on its way only the weaker half has to hold.
LEMMA OnItsWayGoesOn ==
  ASSUME request' = request, writer' \in OpenWriters(request.api, TRUE),
         NEW c \in Natives, sent'[c] # Unsent, c \notin listed'
  PROVE  GoesOn'
  <1>1. OnItsWay'
    BY DEF OnItsWay
  <1> QED BY <1>1 DEF GoesOn

LEMMA DeltaKeeps ==
  ASSUME StreamInv, NEW c \in Natives, NEW to \in 0 .. Full, Delta(c, to)
  PROVE  StreamInv'
  <1>1. /\ Arrives /\ sent' = [sent EXCEPT ![c] = to] /\ junk' = junk /\ listed' = listed
        /\ parser' = parser /\ c \notin listed
    BY DEF Delta
  <1>2. /\ RequestInv' /\ OutcomeInv' /\ request' = request /\ GoesOn /\ request.api \in Apis
    BY <1>1, ArrivesFits
  <1>3. to \in Unsent .. Full /\ to # Unsent
    BY DEF Unsent, Full
  <1>4. CountInv'
    <2>1. /\ sent' \in [Natives -> Unsent .. Full] /\ junk' \subseteq Strict /\ listed' \subseteq Natives
      BY <1>1, <1>3 DEF StreamInv, CountInv
    <2> QED BY <1>1, <2>1, ArrivesFits
  <1>5. ParserInv'
    <2>1. parser' \in Parsers(request.tools, request.thinks) /\ parser'.events = <<>>
      BY <1>1 DEF StreamInv, ParserInv
    <2> QED BY <1>1, <2>1, ArrivesFits
  <1>6. writer' \in OpenWriters(request.api, TRUE)
    <2>1. CASE request.api = "claude"
      <3>1. writer' \in {writer, ClaudeDelta(writer, c, to)}
        BY <2>1 DEF Delta
      <3>2. writer \in ClaudeOpen(TRUE)
        BY <1>2, <2>1 DEF GoesOn, OpenWriters
      <3>3. ClaudeDelta(writer, c, to) \in ClaudeOpen(TRUE)
        BY <3>2, ClaudeDeltaFits
      <3> QED BY <2>1, <3>1, <3>2, <3>3 DEF OpenWriters
    <2>2. CASE request.api = "openai"
      <3>1. writer' \in {writer, OpenAIDelta(writer, c, to)}
        BY <2>2 DEF Delta
      <3>2. writer \in OpenAIOpen /\ writer \in OpenAIWriters
        BY <1>2, <2>2 DEF GoesOn, OpenWriters, OpenAIOpen
      <3>3. OpenAIDelta(writer, c, to) \in OpenAIOpen
        BY <3>2, OpenAIDeltaFits
      <3> QED BY <2>2, <3>1, <3>2, <3>3 DEF OpenWriters
    <2>3. CASE request.api \notin {"claude", "openai"}
      <3>1. writer' = writer
        BY <2>3 DEF Delta
      <3> QED BY <1>2, <3>1 DEF GoesOn
    <2> QED BY <2>1, <2>2, <2>3
  <1>7. WriterInv'
    <2>1. sent'[c] = to /\ c \notin listed'
      BY <1>1 DEF StreamInv, CountInv
    <2>2. GoesOn'
      BY <1>2, <1>3, <1>6, <2>1, OnItsWayGoesOn
    <2> QED BY <1>1, <2>2, ArrivesFits
  <1> QED BY <1>2, <1>4, <1>5, <1>7 DEF StreamInv

LEMMA EmptyObjectKeeps ==
  ASSUME StreamInv, NEW c \in Natives, EmptyObject(c)
  PROVE  StreamInv'
  <1>1. /\ Arrives /\ sent' = [sent EXCEPT ![c] = 0] /\ junk' = junk \cup {c} /\ listed' = listed
        /\ parser' = parser /\ c \notin listed /\ c \in Strict
    BY DEF EmptyObject
  <1>2. /\ RequestInv' /\ OutcomeInv' /\ request' = request /\ GoesOn /\ request.api \in Apis
    BY <1>1, ArrivesFits
  <1>3. 0 \in Unsent .. Full /\ 0 # Unsent
    BY DEF Unsent, Full
  <1>4. CountInv'
    <2>1. /\ sent' \in [Natives -> Unsent .. Full] /\ junk' \subseteq Strict /\ listed' \subseteq Natives
      BY <1>1, <1>3 DEF StreamInv, CountInv
    <2> QED BY <1>1, <2>1, ArrivesFits
  <1>5. ParserInv'
    <2>1. parser' \in Parsers(request.tools, request.thinks) /\ parser'.events = <<>>
      BY <1>1 DEF StreamInv, ParserInv
    <2> QED BY <1>1, <2>1, ArrivesFits
  <1>6. writer' \in OpenWriters(request.api, TRUE)
    <2>1. CASE request.api = "openai"
      <3>1. writer' \in {writer, OpenAIJunk(writer, c)}
        BY DEF EmptyObject
      <3>2. writer \in OpenAIOpen
        BY <1>2, <2>1 DEF GoesOn, OpenWriters
      <3>3. OpenAIJunk(writer, c) \in OpenAIOpen
        BY <3>2, OpenAIJunkFits
      <3> QED BY <2>1, <3>1, <3>2, <3>3 DEF OpenWriters
    <2>2. CASE request.api # "openai"
      <3>1. writer' = writer
        BY <2>2 DEF EmptyObject
      <3> QED BY <1>2, <3>1 DEF GoesOn
    <2> QED BY <2>1, <2>2
  <1>7. WriterInv'
    <2>1. sent'[c] = 0 /\ c \notin listed'
      BY <1>1 DEF StreamInv, CountInv
    <2>2. GoesOn'
      BY <1>2, <1>3, <1>6, <2>1, OnItsWayGoesOn
    <2> QED BY <1>1, <2>2, ArrivesFits
  <1> QED BY <1>2, <1>4, <1>5, <1>7 DEF StreamInv

\* The events of a listing; a call that had deltas is among the valid ones.
LEMMA NativesFit ==
  ASSUME NEW thinks \in BOOLEAN, NEW cs \in Listings, NEW broken
  PROVE  LET calls == [i \in DOMAIN cs |-> Native(cs[i], broken)] IN
         /\ calls \in Seq(Events(thinks))
         /\ Range(cs) \subseteq Natives
         /\ \A c \in Range(cs) : c \notin broken =>
              \E i \in DOMAIN calls :
                calls[i].type = "tool_call" /\ calls[i].call \notin {"bad", "alias"}
  <1> DEFINE calls == [i \in DOMAIN cs |-> Native(cs[i], broken)]
  <1>1. cs \in Seq(Natives)
    <2>1. <<>> \in Seq(Natives)
      OBVIOUS
    <2>2. \A c \in Natives : <<c>> \in Seq(Natives)
      OBVIOUS
    <2>3. \A c, d \in Natives : <<c, d>> \in Seq(Natives)
      OBVIOUS
    <2>4. \/ cs = <<>>
          \/ \E c \in Natives : cs = <<c>>
          \/ \E c, d \in Natives : cs = <<c, d>>
      BY DEF Listings
    <2> QED BY <2>1, <2>2, <2>3, <2>4
  <1>2. \A i \in 1 .. Len(cs) : Native(cs[i], broken) \in Events(thinks)
    BY <1>1 DEF Native, Events, Utterances, Calls, Asks
  <1>3. calls \in Seq(Events(thinks))
    BY <1>1, <1>2
  <1>4. Range(cs) \subseteq Natives
    BY <1>1 DEF Range
  <1>5. ASSUME NEW c \in Range(cs), c \notin broken
        PROVE  \E i \in DOMAIN calls :
                 calls[i].type = "tool_call" /\ calls[i].call \notin {"bad", "alias"}
    <2>1. PICK i \in DOMAIN cs : cs[i] = c
      BY DEF Range
    <2>2. calls[i].type = "tool_call" /\ calls[i].call = Asks(c) /\ i \in DOMAIN calls
      BY <1>5, <2>1 DEF Native
    <2>3. Asks(c) \notin {"bad", "alias"}
      BY DEF Asks
    <2> HIDE DEF calls
    <2> QED BY <2>2, <2>3
  <1> HIDE DEF calls
  <1> QED BY <1>3, <1>4, <1>5 DEF calls

LEMMA ListedKeeps ==
  ASSUME StreamInv, NEW cs \in Listings, NEW broken \in SUBSET Strict, Listed(cs, broken)
  PROVE  StreamInv'
  <1> DEFINE calls == [i \in DOMAIN cs |-> Native(cs[i], broken)]
             p == FlushText(parser)
  <1>1. /\ Arrives /\ sent' = sent /\ junk' = junk /\ listed' = listed \cup Range(cs)
        /\ \A c \in broken : sent[c] = Unsent
    BY DEF Listed
  <1>2. /\ RequestInv' /\ OutcomeInv' /\ request' = request /\ GoesOn
        /\ request.api \in Apis /\ request.tools \in BOOLEAN /\ request.thinks \in BOOLEAN
        /\ request.thinks => request.api = "claude"
    BY <1>1, ArrivesFits
  <1>3. /\ calls \in Seq(Events(request.thinks))
        /\ Range(cs) \subseteq Natives
        /\ \A c \in Range(cs) : c \notin broken =>
             \E i \in DOMAIN calls :
               calls[i].type = "tool_call" /\ calls[i].call \notin {"bad", "alias"}
    BY <1>2, NativesFit
  <1>4. CountInv'
    <2>1. /\ sent' \in [Natives -> Unsent .. Full] /\ junk' \subseteq Strict /\ listed' \subseteq Natives
      BY <1>1, <1>3 DEF StreamInv, CountInv
    <2> QED BY <1>1, <2>1, ArrivesFits
  <1>5. parser \in Parsers(request.tools, request.thinks) /\ parser.events = <<>>
    BY DEF StreamInv, ParserInv
  <1>6. CASE request.api = "claude_json"
    <2>1. parser' = parser /\ writer' = writer
      BY <1>6 DEF Listed
    <2>2. ParserInv'
      BY <1>1, <1>5, <2>1, ArrivesFits
    <2>3. GoesOn'
      BY <1>2, <1>6, <2>1 DEF GoesOn, OpenWriters
    <2>4. WriterInv'
      BY <1>1, <2>3, ArrivesFits
    <2> QED BY <1>2, <1>4, <2>2, <2>4 DEF StreamInv
  <1>7. CASE request.api # "claude_json"
    <2>1. parser' = Consumed(p) /\ writer' = Forwarded(writer, p.events \o calls)
      BY <1>7 DEF Listed
    <2>2. p \in Parsers(request.tools, request.thinks)
      BY <1>2, <1>5, FlushTextFits
    <2> HIDE DEF p, calls
    <2>3. ParserInv'
      <3>1. parser' \in Parsers(request.tools, request.thinks) /\ parser'.events = <<>>
        BY <2>1, <2>2, ConsumedFits
      <3> QED BY <1>1, <3>1, ArrivesFits
    <2>4. p.events \in Seq(Events(request.thinks))
      BY <1>2, <2>2, EventKinds DEF Parsers, ParserRecords
    <2>5. writer' \in OpenWriters(request.api, TRUE)
      <3>1. writer \in OpenWriters(request.api, TRUE)
        BY <1>2 DEF GoesOn
      <3> QED BY <1>2, <1>3, <2>1, <2>4, <3>1, ListingFits
    <2>6. ASSUME ~OnItsWay' PROVE writer' \in OpenWriters(request.api, FALSE)
      <3>1. CASE OnItsWay
        <4>1. PICK c \in Natives : sent[c] # Unsent /\ c \notin listed
          BY <3>1 DEF OnItsWay
        <4>2. c \in listed'
          BY <1>1, <2>6, <4>1 DEF OnItsWay
        <4>3. c \in Range(cs) /\ c \notin broken
          BY <1>1, <4>1, <4>2
        <4>4. \E i \in DOMAIN calls :
                calls[i].type = "tool_call" /\ calls[i].call \notin {"bad", "alias"}
          BY <1>3, <4>3
        <4>5. writer \in OpenWriters(request.api, TRUE)
          BY <1>2 DEF GoesOn
        <4> QED BY <1>2, <1>3, <2>1, <2>4, <4>4, <4>5, ListingFits
      <3>2. CASE ~OnItsWay
        <4>1. writer \in OpenWriters(request.api, FALSE)
          BY <1>2, <3>2 DEF GoesOn
        <4> QED BY <1>2, <1>3, <2>1, <2>4, <4>1, ListingFits
      <3> QED BY <3>1, <3>2
    <2>7. WriterInv'
      <3>1. GoesOn'
        BY <1>2, <2>5, <2>6 DEF GoesOn
      <3> QED BY <1>1, <3>1, ArrivesFits
    <2> QED BY <1>2, <1>4, <2>3, <2>7 DEF StreamInv
  <1> QED BY <1>6, <1>7

LEMMA UpstreamEventKeeps ==
  ASSUME StreamInv, UpstreamEvent
  PROVE  StreamInv'
  <1>1. CASE \E text \in Texts : Chunk(text)
    BY <1>1, ChunkKeeps
  <1>2. CASE \E c \in Natives : EmptyObject(c) \/ \E to \in 0 .. Full : Delta(c, to)
    BY <1>2, EmptyObjectKeeps, DeltaKeeps
  <1>3. CASE \E cs \in Listings, broken \in SUBSET Strict :
               IsInjective(cs) /\ broken \subseteq Range(cs) /\ Listed(cs, broken)
    BY <1>3, ListedKeeps
  <1> QED BY <1>1, <1>2, <1>3 DEF UpstreamEvent

-----------------------------------------------------------------------------
(* The end of an answer.                                                   *)

\* The answer with what was left in the parser.
LEMMA LastFits ==
  ASSUME StreamInv, NEW x \in BOOLEAN, writer \in OpenWriters(request.api, x)
  PROVE  /\ request.api # "claude" => Forwarded(writer, Rest) \in OpenWriters(request.api, x)
         /\ request.api = "claude" => Finished(Forwarded(writer, Rest).wire, x)
         /\ request.api \in Apis
  <1>1. /\ request.api \in Apis /\ request.tools \in BOOLEAN /\ request.thinks \in BOOLEAN
        /\ request.thinks => request.api = "claude"
        /\ parser \in Parsers(request.tools, request.thinks)
    BY DEF StreamInv, RequestInv, ParserInv
  <1> QED BY <1>1, RestFits

\* A first attempt that showed nothing: a second may follow it.
LEMMA SecondAttempt ==
  ASSUME NEW w \in OpenAIOpen, ~HasOutput(w)
  PROVE  [w EXCEPT !.attempt = 2] \in OpenAIOpen
  <1> DEFINE v == [w EXCEPT !.attempt = 2]
  <1>1. w \in OpenAIWriters /\ ~w.hasToolCall /\ ~w.emitted /\ ~Visible(w.wire)
    BY DEF OpenAIOpen, HasOutput
  <1>2. v \in OpenAIWriters
    BY <1>1 DEF OpenAIWriters
  <1>3. /\ v.wire = w.wire /\ v.attempt = 2 /\ v.finished = w.finished /\ v.emitted = w.emitted
        /\ v.hasToolCall = w.hasToolCall /\ v.seen = w.seen /\ v.started = w.started
    BY <1>1 DEF OpenAIWriters
  <1>4. OfAttempt(w.wire, 2)
    BY <1>1 DEF Visible, OfAttempt
  <1> HIDE DEF v
  <1> QED BY <1>1, <1>2, <1>3, <1>4 DEF OpenAIOpen, v

LEMMA EndsKeeps ==
  ASSUME StreamInv, NEW other \in BOOLEAN, Ends(other)
  PROVE  StreamInv'
  <1> DEFINE last == IF Parses \/ request.api = "openai" THEN Forwarded(writer, Rest) ELSE writer
  <1>1. phase = "streaming" /\ AllListed /\ parser' = NewParser /\ request' = request
    BY DEF Ends
  <1>2. /\ Retries /\ other => writer' = [last EXCEPT !.attempt = 2] /\ phase' = "reopening"
        /\ ~(Retries /\ other) =>
             /\ writer' = IF request.api = "openai" THEN Send(OpenAIFinish(last), <<Done>>) ELSE last
             /\ phase' = "ending"
    BY DEF Ends
  <1>3. GoesOn /\ ~OnItsWay
    BY <1>1 DEF AllListed, OnItsWay, StreamInv, WriterInv
  <1>4. writer \in OpenWriters(request.api, FALSE)
    BY <1>3 DEF GoesOn
  <1>5. /\ request.api # "claude" => Forwarded(writer, Rest) \in OpenWriters(request.api, FALSE)
        /\ request.api = "claude" => Finished(Forwarded(writer, Rest).wire, FALSE)
        /\ request.api \in Apis
    BY <1>4, LastFits
  <1>6. WriterInv'
    <2>1. CASE Retries /\ other
      <3>1. request.api = "openai" /\ ~HasOutput(Forwarded(writer, Rest))
        BY <2>1 DEF Retries
      <3>2. last = Forwarded(writer, Rest) /\ last \in OpenAIOpen
        BY <1>5, <3>1 DEF OpenWriters
      <3> HIDE DEF last
      <3>3. writer' \in OpenAIOpen /\ phase' = "reopening"
        BY <1>2, <2>1, <3>1, <3>2, SecondAttempt
      <3> QED BY <1>1, <3>1, <3>3 DEF WriterInv, GoesOn, OpenWriters
    <2>2. CASE ~(Retries /\ other)
      <3>1. phase' = "ending"
        BY <1>2, <2>2
      <3>2. Proper(writer'.wire, FALSE)
        <4>1. CASE request.api = "claude"
          <5>1. writer' = Forwarded(writer, Rest)
            BY <1>2, <2>2, <4>1 DEF Parses
          <5> QED BY <1>5, <4>1, <5>1 DEF Proper
        <4>2. CASE request.api = "openai"
          <5>1. last = Forwarded(writer, Rest) /\ last \in OpenAIOpen
            BY <1>5, <4>2 DEF OpenWriters
          <5> HIDE DEF last
          <5>2. writer' = Send(OpenAIFinish(last), <<Done>>)
            BY <1>2, <2>2, <4>2
          <5> QED BY <5>1, <5>2, OpenAIFinished DEF Proper
        <4>3. CASE request.api \notin {"claude", "openai"}
          <5>1. last \in OpenWriters(request.api, FALSE) /\ writer' = last
            BY <1>2, <1>4, <1>5, <2>2, <4>3
          <5> HIDE DEF last
          <5> QED BY <1>5, <5>1, OpenIsUnfinished DEF Proper
        <4> QED BY <4>1, <4>2, <4>3
      <3> QED BY <3>1, <3>2 DEF WriterInv
    <2> QED BY <2>1, <2>2
  <1>7. RequestInv' /\ CountInv' /\ OutcomeInv'
    <2>1. phase' \in {"reopening", "ending"}
      BY <1>2
    <2>2. /\ version' = version /\ yielded' = yielded /\ answers' = answers /\ sent' = sent
          /\ junk' = junk /\ listed' = listed /\ left' = left /\ reports' = reports /\ logs' = logs
      BY DEF Ends, upstreamVars, outcomeVars
    <2>3. RequestInv'
      BY <1>1, <2>1, <2>2 DEF StreamInv, RequestInv
    <2>4. CountInv'
      BY <2>1, <2>2 DEF StreamInv, CountInv
    <2>5. OutcomeInv'
      BY <1>1, <2>1, <2>2 DEF StreamInv, OutcomeInv
    <2> QED BY <2>3, <2>4, <2>5
  <1>8. ParserInv'
    <2>1. phase' # "new" /\ NewParser \in Parsers(request.tools, request.thinks)
      BY <1>2, NewParserFits
    <2> QED BY <1>1, <2>1 DEF ParserInv, NewParser
  <1> QED BY <1>6, <1>7, <1>8 DEF StreamInv

LEMMA ReopensKeeps ==
  ASSUME StreamInv, Reopens
  PROVE  StreamInv'
  <1>1. RequestInv'
    BY DEF Reopens, StreamInv, RequestInv
  <1>2. CountInv'
    <2>1. Unsent \in Unsent .. Full
      BY DEF Unsent, Full
    <2>2. sent' \in [Natives -> Unsent .. Full]
      BY <2>1 DEF Reopens
    <2> QED BY <2>2 DEF Reopens, StreamInv, CountInv
  <1>3. ParserInv'
    BY DEF Reopens, StreamInv, ParserInv
  <1>4. WriterInv'
    <2>1. /\ phase' = "streaming" /\ request' = request /\ writer' = writer
          /\ request.api = "openai" /\ writer \in OpenWriters(request.api, TRUE)
      BY DEF Reopens, StreamInv, WriterInv, GoesOn
    <2>2. writer \in OpenWriters(request.api, FALSE)
      BY <2>1 DEF OpenWriters
    <2> QED BY <2>1, <2>2 DEF WriterInv, GoesOn
  <1>5. OutcomeInv'
    BY DEF Reopens, StreamInv, OutcomeInv, outcomeVars
  <1> QED BY <1>1, <1>2, <1>3, <1>4, <1>5 DEF StreamInv

LEMMA ReportedKeeps ==
  ASSUME StreamInv, Reported
  PROVE  StreamInv'
  <1>1. RequestInv'
    BY DEF Reported, StreamInv, RequestInv
  <1>2. CountInv'
    BY DEF Reported, StreamInv, CountInv, upstreamVars
  <1>3. ParserInv'
    BY DEF Reported, StreamInv, ParserInv
  <1>4. WriterInv'
    <2>1. phase' = "done" /\ writer' = writer /\ Proper(writer.wire, FALSE)
      BY DEF Reported, StreamInv, WriterInv
    <2>2. Proper(writer.wire, TRUE)
      BY <2>1 DEF Proper, Finished
    <2> QED BY <2>1, <2>2 DEF WriterInv
  <1>5. OutcomeInv'
    BY OutcomeFits DEF Reported
  <1> QED BY <1>1, <1>2, <1>3, <1>4, <1>5 DEF StreamInv

LEMMA DowngradesKeeps ==
  ASSUME StreamInv, Downgrades
  PROVE  StreamInv'
  <1>1. RequestInv'
    BY DEF Downgrades, StreamInv, RequestInv
  <1>2. CountInv'
    BY DEF Downgrades, StreamInv, CountInv, upstreamVars
  <1>3. ParserInv'
    BY DEF Downgrades, StreamInv, ParserInv
  <1>4. WriterInv'
    <2>1. /\ phase' = "streaming" /\ request' = request /\ writer' = writer /\ GoesOn
          /\ sent' = sent /\ listed' = listed
      BY DEF Downgrades, StreamInv, WriterInv, upstreamVars
    <2>2. OnItsWay' <=> OnItsWay
      BY <2>1 DEF OnItsWay
    <2> QED BY <2>1, <2>2 DEF WriterInv, GoesOn
  <1>5. OutcomeInv'
    BY DEF Downgrades, StreamInv, OutcomeInv, outcomeVars
  <1> QED BY <1>1, <1>2, <1>3, <1>4, <1>5 DEF StreamInv

LEMMA FailsKeeps ==
  ASSUME StreamInv, NEW worded \in BOOLEAN, Fails(worded)
  PROVE  StreamInv'
  <1>1. RequestInv'
    BY DEF Fails, StreamInv, RequestInv
  <1>2. CountInv'
    BY DEF Fails, StreamInv, CountInv, upstreamVars
  <1>3. ParserInv'
    <2>1. parser' = NewParser /\ phase' = "done" /\ request' = request
      BY DEF Fails
    <2> QED BY <2>1, NewParserFits DEF ParserInv, NewParser
  <1>4. WriterInv'
    <2>1. writer \in OpenWriters(request.api, TRUE)
      BY DEF Fails, StreamInv, WriterInv, GoesOn
    <2>2. /\ request.api = "claude" => Finished(Forwarded(writer, Rest).wire, TRUE)
          /\ request.api \in Apis
      BY <2>1, LastFits
    <2>3. Proper(writer'.wire, TRUE)
      <3>1. CASE request.api = "claude"
        <4>1. writer' = Forwarded(writer, Rest)
          BY <3>1 DEF Fails
        <4> QED BY <2>2, <3>1, <4>1 DEF Proper
      <3>2. CASE request.api # "claude"
        <4>1. writer' = writer
          BY <3>2 DEF Fails
        <4> QED BY <2>1, <2>2, <4>1, OpenIsUnfinished DEF Proper
      <3> QED BY <3>1, <3>2
    <2> QED BY <2>3 DEF Fails, WriterInv
  <1>5. OutcomeInv'
    <2> DEFINE s == IF worded THEN "error" ELSE "success"
    <2>1. s \in {"success", "error"} /\ Log(s) /\ Report("error")
      BY DEF Fails
    <2>2. phase # "done" /\ phase' = "done" /\ request' = request
      BY DEF Fails
    <2> HIDE DEF s
    <2> QED BY <2>1, <2>2, OutcomeFits
  <1> QED BY <1>1, <1>2, <1>3, <1>4, <1>5 DEF StreamInv

LEMMA ClientGoneKeeps ==
  ASSUME StreamInv, ClientGone
  PROVE  StreamInv'
  <1>1. RequestInv'
    BY DEF ClientGone, StreamInv, RequestInv
  <1>2. CountInv'
    BY DEF ClientGone, StreamInv, CountInv, upstreamVars
  <1>3. ParserInv'
    BY DEF ClientGone, StreamInv, ParserInv
  <1>4. WriterInv'
    <2>1. phase' = "done" /\ writer' = writer
      BY DEF ClientGone
    <2>2. CASE phase \in {"streaming", "reopening"}
      <3>1. writer \in OpenWriters(request.api, TRUE) /\ request.api \in Apis
        BY <2>2 DEF StreamInv, WriterInv, GoesOn, RequestInv
      <3> QED BY <2>1, <3>1, OpenIsUnfinished DEF WriterInv, Proper
    <2>3. CASE phase = "ending"
      <3>1. Proper(writer.wire, FALSE)
        BY <2>3 DEF StreamInv, WriterInv
      <3>2. Proper(writer.wire, TRUE)
        BY <3>1 DEF Proper, Finished
      <3> QED BY <2>1, <3>2 DEF WriterInv
    <2> QED BY <2>2, <2>3 DEF ClientGone
  <1>5. OutcomeInv'
    BY OutcomeFits DEF ClientGone
  <1> QED BY <1>1, <1>2, <1>3, <1>4, <1>5 DEF StreamInv

LEMMA LeavesEarlyKeeps ==
  ASSUME StreamInv, NEW logged \in BOOLEAN, LeavesEarly(logged)
  PROVE  StreamInv'
  <1>1. RequestInv'
    BY DEF LeavesEarly, StreamInv, RequestInv
  <1>2. CountInv'
    BY DEF LeavesEarly, StreamInv, CountInv, upstreamVars
  <1>3. ParserInv'
    BY DEF LeavesEarly, StreamInv, ParserInv
  <1>4. WriterInv'
    <2>1. writer' = NewCollector /\ phase' = "done"
      BY DEF LeavesEarly, StreamInv, WriterInv
    <2>2. Proper(NewCollector.wire, TRUE)
      BY NewCollectorFits, OpenIsUnfinished DEF OpenWriters, Apis, Proper
    <2> QED BY <2>1, <2>2 DEF WriterInv
  <1>5. OutcomeInv'
    <2>1. CASE logged
      BY <2>1, OutcomeFits DEF LeavesEarly
    <2>2. CASE ~logged
      <3>1. logs' = <<>> /\ reports' = <<>> /\ <<>> # <<"success">> /\ <<>> # <<"error">>
        BY <2>2 DEF LeavesEarly, StreamInv, OutcomeInv
      <3>2. writer' = NewCollector /\ yielded' = FALSE
        BY DEF LeavesEarly, StreamInv, WriterInv, CountInv
      <3> QED BY <3>1, <3>2 DEF OutcomeInv
    <2> QED BY <2>1, <2>2
  <1> QED BY <1>1, <1>2, <1>3, <1>4, <1>5 DEF StreamInv

LEMMA StutterKeeps ==
  ASSUME StreamInv, UNCHANGED vars
  PROVE  StreamInv'
  <1>1. /\ request' = request /\ phase' = phase /\ version' = version /\ yielded' = yielded
        /\ answers' = answers /\ parser' = parser /\ writer' = writer /\ sent' = sent
        /\ junk' = junk /\ listed' = listed /\ left' = left /\ reports' = reports /\ logs' = logs
    BY DEF vars, upstreamVars, outcomeVars
  <1>2. RequestInv' /\ CountInv' /\ ParserInv' /\ OutcomeInv'
    BY <1>1 DEF StreamInv, RequestInv, CountInv, ParserInv, OutcomeInv, Streaming
  <1>3. OnItsWay' <=> OnItsWay
    BY <1>1 DEF OnItsWay
  <1>4. WriterInv'
    BY <1>1, <1>3 DEF StreamInv, WriterInv, GoesOn
  <1> QED BY <1>2, <1>4 DEF StreamInv

LEMMA StepKeeps == StreamInv /\ [Next]_vars => StreamInv'
  <1> SUFFICES ASSUME StreamInv, [Next]_vars PROVE StreamInv'
    OBVIOUS
  <1>1. CASE Requested
    BY <1>1, BeginKeeps DEF Requested
  <1>2. CASE SessionOpens
    BY <1>2, SessionOpensKeeps
  <1>3. CASE SessionFails
    BY <1>3, SessionFailsKeeps
  <1>4. CASE UpstreamEvent
    BY <1>4, UpstreamEventKeeps
  <1>5. CASE \E other \in BOOLEAN : Ends(other)
    BY <1>5, EndsKeeps
  <1>6. CASE Reopens
    BY <1>6, ReopensKeeps
  <1>7. CASE Reported
    BY <1>7, ReportedKeeps
  <1>8. CASE Downgrades
    BY <1>8, DowngradesKeeps
  <1>9. CASE \E worded \in BOOLEAN : Fails(worded)
    BY <1>9, FailsKeeps
  <1>10. CASE ClientGone
    BY <1>10, ClientGoneKeeps
  <1>11. CASE UNCHANGED vars
    BY <1>11, StutterKeeps
  <1>12. CASE AnswerBegins
    BY <1>12, BeginsKeeps
  <1>13. CASE \E logged \in BOOLEAN : LeavesEarly(logged)
    BY <1>13, LeavesEarlyKeeps
  <1> QED BY <1>1, <1>2, <1>3, <1>4, <1>5, <1>6, <1>7, <1>8, <1>9, <1>10, <1>11, <1>12, <1>13 DEF Next

LEMMA StreamAlways == Spec => []StreamInv
  BY InitStream, StepKeeps, PTL DEF Spec

-----------------------------------------------------------------------------
(* The theorems.                                                           *)

LEMMA WriterProper ==
  ASSUME StreamInv
  PROVE  Proper(writer.wire, TRUE) /\ (phase = "ending" => Proper(writer.wire, FALSE))
  <1>1. CASE phase \in {"new", "opening", "starting"}
    <2>1. writer \in OpenWriters("openai_json", TRUE) /\ "openai_json" \in Apis
      BY <1>1, NewCollectorFits DEF StreamInv, WriterInv, OpenWriters, Apis
    <2> QED BY <1>1, <2>1, OpenIsUnfinished DEF Proper
  <1>2. CASE phase \in {"streaming", "reopening"}
    <2>1. writer \in OpenWriters(request.api, TRUE) /\ request.api \in Apis
      BY <1>2 DEF StreamInv, WriterInv, GoesOn, RequestInv
    <2> QED BY <1>2, <2>1, OpenIsUnfinished DEF Proper
  <1>3. CASE phase = "ending"
    <2>1. Proper(writer.wire, FALSE)
      BY <1>3 DEF StreamInv, WriterInv
    <2> QED BY <2>1 DEF Proper, Finished
  <1>4. CASE phase = "done"
    BY <1>4 DEF StreamInv, WriterInv
  <1>5. phase \in {"new", "opening", "starting", "streaming", "reopening", "ending", "done"}
    BY DEF StreamInv, RequestInv
  <1> QED BY <1>1, <1>2, <1>3, <1>4, <1>5

\* Types: whatever the model writes and in whatever order upstream's events come, the
\* parser holds lexemes, and captures only for a request whose tools were offered.
THEOREM StreamTyped == Spec => []TypeOK
  <1>1. StreamInv => TypeOK
    <2> SUFFICES ASSUME StreamInv PROVE TypeOK
      OBVIOUS
    <2>1. /\ parser.buffer \in Seq(Lexemes) /\ parser.capture \in Seq(Lexemes)
          /\ parser.thought \in Seq(Lexemes) /\ parser.events = <<>>
          /\ (parser.capture # <<>> => parser.capturing) /\ (parser.capturing => request.tools)
      BY DEF StreamInv, ParserInv, Parsers, ParserRecords
    <2>2. Range(parser.buffer \o parser.capture \o parser.thought) \subseteq Lexemes
      <3> DEFINE s == parser.buffer \o parser.capture \o parser.thought
      <3>1. s \in Seq(Lexemes)
        BY <2>1
      <3> HIDE DEF s
      <3>2. \A i \in DOMAIN s : s[i] \in Lexemes
        BY <3>1
      <3>3. Range(s) \subseteq Lexemes
        BY <3>2 DEF Range
      <3> QED BY <3>3 DEF s
    <2>3. answers \in 0 .. MaxEvents
      BY StreamAssumption DEF StreamInv, CountInv
    <2>4. Range(reports) \subseteq {"success", "error"} /\ Range(logs) \subseteq {"success", "error"}
      <3>1. /\ Range(<<>>) \subseteq {"success", "error"}
            /\ Range(<<"success">>) \subseteq {"success", "error"}
            /\ Range(<<"error">>) \subseteq {"success", "error"}
        BY DEF Range
      <3>2. /\ reports = <<>> \/ reports = <<"success">> \/ reports = <<"error">>
            /\ logs = <<>> \/ logs = <<"success">> \/ logs = <<"error">>
        BY DEF StreamInv, OutcomeInv
      <3> QED BY <3>1, <3>2, Zenon
    <2> QED BY <2>1, <2>2, <2>3, <2>4 DEF TypeOK, StreamInv, RequestInv, CountInv
  <1> QED BY <1>1, StreamAlways, PTL

\* send_message: the fallback to the other protocol version never repeats a message
\* upstream began to answer.
THEOREM MessagesAnsweredOnce == Spec => []AnsweredOnce
  <1>1. StreamInv => AnsweredOnce
    BY DEF StreamInv, CountInv, AnsweredOnce
  <1> QED BY <1>1, StreamAlways, PTL

\* The routes, however a request ends: once upstream or the client got anything of it,
\* it has one log entry, and what its token is told stands to that entry as said there.
THEOREM LogsMatchReports == Spec => []LoggedAsReported
  <1>1. StreamInv => LoggedAsReported
    <2> SUFFICES ASSUME StreamInv PROVE LoggedAsReported
      OBVIOUS
    <2>1. OutcomeInv
      BY DEF StreamInv
    <2>2. Len(<<>>) = 0 /\ Len(<<"success">>) = 1 /\ Len(<<"error">>) = 1
      OBVIOUS
    <2>3. Len(logs) <= 1 /\ Len(reports) <= Len(logs)
      <3>1. logs = <<>> \/ logs = <<"success">> \/ logs = <<"error">>
        BY <2>1 DEF OutcomeInv
      <3>2. reports = <<>> \/ reports = <<"success">> \/ reports = <<"error">>
        BY <2>1 DEF OutcomeInv
      <3>3. CASE logs = <<>>
        <4>1. reports = <<>>
          BY <2>1, <3>3 DEF OutcomeInv
        <4> QED BY <2>2, <3>3, <4>1
      <3>4. CASE logs # <<>>
        <4>1. Len(logs) = 1
          BY <2>2, <3>1, <3>4
        <4>2. Len(reports) = 0 \/ Len(reports) = 1
          BY <2>2, <3>2
        <4> QED BY <4>1, <4>2
      <3> QED BY <3>3, <3>4
    <2>4. phase = "done" /\ logs = <<>> => Wire = <<>> /\ answers = 0
      <3>1. phase = "done" /\ logs = <<>> => writer = NewCollector /\ ~yielded
        BY <2>1 DEF OutcomeInv
      <3>2. ~yielded => answers = 0
        BY DEF StreamInv, CountInv
      <3> QED BY <3>1, <3>2 DEF Wire, NewCollector
    <2>5. ~(0 > 0)
      OBVIOUS
    <2>6. phase = "done" /\ (Wire # <<>> \/ answers > 0) => logs # <<>>
      BY <2>4, <2>5
    <2> QED BY <2>1, <2>3, <2>6 DEF LoggedAsReported, OutcomeInv
  <1> QED BY <1>1, StreamAlways, PTL

\* Both writers: message_stop, or [DONE], is the last line, whatever is left in the
\* parser and whatever calls are open when the answer ends or fails.
THEOREM EndsStreams == Spec => []NothingAfterEnd
  <1>1. StreamInv => NothingAfterEnd
    <2>1. ASSUME Proper(writer.wire, TRUE) PROVE NothingAfterEnd
      BY <2>1, ProperUnfinished, ProperFinished DEF Proper
    <2> QED BY <2>1, WriterProper
  <1> QED BY <1>1, StreamAlways, PTL

\* The fallback model answers only if the client has seen nothing of the first.
THEOREM AttemptsApart == Spec => []OneAttemptVisible
  <1>1. StreamInv => OneAttemptVisible
    <2>1. ASSUME Proper(writer.wire, TRUE) PROVE OneAttemptVisible
      BY <2>1, ProperUnfinished, ProperFinished DEF Proper
    <2> QED BY <2>1, WriterProper
  <1> QED BY <1>1, StreamAlways, PTL

\* finish of both writers: a message that ended well asks for tool results if and only
\* if a call was sent, in deltas, in a listing or read from text.
THEOREM StopReasonsTrue == Spec => []StopReasonTrue
  <1>1. StreamInv => StopReasonTrue
    <2>1. ASSUME Proper(writer.wire, FALSE), phase = "ending" PROVE StopReasonTrue
      <3>1. CASE Unfinished(writer.wire)
        BY <3>1, ProperUnfinished DEF StopReasonTrue
      <3>2. CASE Finished(writer.wire, FALSE)
        BY <3>2, ProperFinished DEF StopReasonTrue
      <3> QED BY <2>1, <3>1, <3>2 DEF Proper
    <2>2. phase # "ending" => StopReasonTrue
      BY DEF StopReasonTrue
    <2> QED BY <2>1, <2>2, WriterProper
  <1> QED BY <1>1, StreamAlways, PTL

=============================================================================
