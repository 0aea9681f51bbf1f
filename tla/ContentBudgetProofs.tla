------------------------- MODULE ContentBudgetProofs -------------------------
(***************************************************************************)
(* What is sent fits the gateway and holds the task, for any conversation  *)
(* and any of the limits: the sizes of texts, what cutting, selecting and  *)
(* compressing make of them, and the invariant of a conversation.          *)
(***************************************************************************)
EXTENDS ContentBudget, SequenceLemmas

-----------------------------------------------------------------------------
(* Sizes.                                                                  *)

Kinds == {"system", "tools", "user", "assistant", "text", "hint", "cut", "mark", "notice"}
Sized == [id : Nat, kind : Kinds, size : Nat, critical : BOOLEAN]

\* The sums of the first n parts.
SumSoFar(parts, extra) ==
  {f \in [0 .. Len(parts) -> Nat] :
     f[0] = 0 /\ \A n \in 1 .. Len(parts) : f[n] = f[n - 1] + parts[n].size + extra}

LEMMA SumSteps ==
  ASSUME NEW parts \in Seq(Sized), NEW extra \in Nat
  PROVE  \E f \in SumSoFar(parts, extra) : Sum(parts, extra) = f[Len(parts)]
  <1> DEFINE N == Len(parts)
             Step(n, q) == q + parts[n].size + extra
             all[n \in 0 .. N] == IF n = 0 THEN 0 ELSE all[n - 1] + parts[n].size + extra
             g == [n \in 1 .. N |-> [q \in Nat |-> Step(n, q)]]
  <1>1. N \in Nat /\ (\A n \in 1 .. N : n - 1 \in 0 .. N)
    OBVIOUS
  <1>2. \A n \in 1 .. N, q \in Nat : Step(n, q) \in Nat
    <2>1. \A n \in 1 .. N : parts[n] \in Sized
      OBVIOUS
    <2> QED BY <2>1 DEF Sized
  <1>3. Sum(parts, extra) = all[N]
    BY DEF Sum
  <1>a. \A n, q : Step(n, q) = q + parts[n].size + extra
    OBVIOUS
  <1>b. all = [n \in 0 .. N |-> IF n = 0 THEN 0 ELSE Step(n, all[n - 1])]
        <=> all = [n \in 0 .. N |-> IF n = 0 THEN 0 ELSE all[n - 1] + parts[n].size + extra]
    OBVIOUS
  <1> HIDE DEF Step
  <1>4. g \in Steps(N, Nat)
    BY <1>2 DEF Steps
  <1>5. PICK f : f \in Histories(N, Nat, 0, g)
    <2> HIDE DEF g, N
    <2> QED BY <1>1, <1>4, History
  <1> HIDE DEF N
  <1>6. /\ f \in [0 .. N -> Nat] /\ f[0] = 0
        /\ \A n \in 1 .. N : f[n] = Step(n, f[n - 1])
    <2>1. f \in [0 .. N -> Nat] /\ f[0] = 0 /\ \A n \in 1 .. N : f[n] = g[n][f[n - 1]]
      BY <1>5 DEF Histories
    <2>2. \A n \in 1 .. N : g[n][f[n - 1]] = Step(n, f[n - 1])
      BY <1>1, <2>1
    <2> HIDE DEF g
    <2> QED BY <2>1, <2>2
  <1>7. f = [n \in 0 .. N |-> IF n = 0 THEN 0 ELSE f[n - 1] + parts[n].size + extra]
    BY <1>1, <1>6, <1>a
  <1>8. all = [n \in 0 .. N |-> IF n = 0 THEN 0 ELSE all[n - 1] + parts[n].size + extra]
    BY <1>7
  <1> HIDE DEF all
  <1>9. ASSUME NEW n \in 1 .. N, all[n - 1] = f[n - 1] PROVE all[n] = f[n]
    <2>1. n \in 0 .. N /\ n # 0
      BY <1>1
    <2>2. all[n] = all[n - 1] + parts[n].size + extra
      BY <1>8, <2>1
    <2> QED BY <1>6, <1>9, <1>a, <2>2
  <1>10. all[N] = f[N]
    <2> DEFINE G == {n \in 0 .. N : all[n] = f[n]}
    <2>1. 0 \in G
      BY <1>1, <1>6, <1>8
    <2>2. \A n \in 1 .. N : n - 1 \in G => n \in G
      BY <1>1, <1>9
    <2> HIDE DEF G
    <2>3. \A n \in 0 .. N : n \in G
      BY <1>1, <2>1, <2>2, UpTo, Zenon
    <2>4. N \in G
      BY <1>1, <2>3
    <2> QED BY <2>4 DEF G
  <1>11. f \in SumSoFar(parts, extra)
    BY <1>6, <1>a DEF SumSoFar, N
  <1> QED BY <1>3, <1>10, <1>11 DEF N

\* The sum of a front is the sum that far.
LEMMA SumOfFront ==
  ASSUME NEW s \in Seq(Sized), NEW t \in Seq(Sized), NEW extra \in Nat,
         NEW f \in SumSoFar(s, extra),
         Len(t) <= Len(s), \A i \in 1 .. Len(t) : t[i].size = s[i].size
  PROVE  Sum(t, extra) = f[Len(t)]
  <1>1. PICK h \in SumSoFar(t, extra) : Sum(t, extra) = h[Len(t)]
    BY SumSteps
  <1> DEFINE N == Len(t)
  <1>2. N \in Nat /\ N <= Len(s) /\ Len(s) \in Nat
    OBVIOUS
  <1>3. h[0] = 0 /\ f[0] = 0
    BY DEF SumSoFar
  <1>4. /\ \A n \in 1 .. N : h[n] = h[n - 1] + t[n].size + extra
        /\ \A n \in 1 .. Len(s) : f[n] = f[n - 1] + s[n].size + extra
    BY DEF SumSoFar
  <1>5. ASSUME NEW n \in 1 .. N, h[n - 1] = f[n - 1] PROVE h[n] = f[n]
    <2>1. n \in 1 .. Len(s) /\ t[n].size = s[n].size
      BY <1>2
    <2> QED BY <1>4, <1>5, <2>1
  <1> DEFINE G == {n \in 0 .. N : h[n] = f[n]}
  <1> HIDE DEF N
  <1>6. 0 \in G /\ \A n \in 1 .. N : n - 1 \in G => n \in G
    BY <1>2, <1>3, <1>5
  <1> HIDE DEF G
  <1>7. \A n \in 0 .. N : n \in G
    BY <1>2, <1>6, UpTo, Zenon
  <1>8. N \in G
    BY <1>2, <1>7
  <1> QED BY <1>1, <1>8 DEF G, N

LEMMA SumEmpty ==
  ASSUME NEW extra \in Nat
  PROVE  Sum(<<>>, extra) = 0
  <1>1. <<>> \in Seq(Sized) /\ Len(<<>>) = 0
    OBVIOUS
  <1>2. PICK f \in SumSoFar(<<>>, extra) : Sum(<<>>, extra) = f[Len(<<>>)]
    BY <1>1, SumSteps
  <1> QED BY <1>1, <1>2 DEF SumSoFar

LEMMA SumNatural ==
  ASSUME NEW s \in Seq(Sized), NEW extra \in Nat
  PROVE  Sum(s, extra) \in Nat
  <1>1. PICK f \in SumSoFar(s, extra) : Sum(s, extra) = f[Len(s)]
    BY SumSteps
  <1> QED BY <1>1 DEF SumSoFar

LEMMA SumAppend ==
  ASSUME NEW s \in Seq(Sized), NEW x \in Sized, NEW extra \in Nat
  PROVE  Sum(Append(s, x), extra) = Sum(s, extra) + x.size + extra
  <1> DEFINE t == Append(s, x)
  <1>1. /\ t \in Seq(Sized) /\ Len(t) = Len(s) + 1 /\ Len(s) \in Nat
        /\ t[Len(t)] = x /\ \A i \in 1 .. Len(s) : t[i] = s[i]
    OBVIOUS
  <1> HIDE DEF t
  <1>2. PICK f \in SumSoFar(t, extra) : Sum(t, extra) = f[Len(t)]
    BY <1>1, SumSteps
  <1>3. Sum(s, extra) = f[Len(s)]
    BY <1>1, SumOfFront
  <1>4. f[Len(t)] = f[Len(t) - 1] + t[Len(t)].size + extra
    <2>1. Len(t) \in 1 .. Len(t)
      BY <1>1
    <2> QED BY <2>1 DEF SumSoFar
  <1> QED BY <1>1, <1>2, <1>3, <1>4 DEF t

LEMMA SumOne ==
  ASSUME NEW x \in Sized, NEW extra \in Nat
  PROVE  Sum(<<x>>, extra) = x.size + extra
  <1> DEFINE s == <<>>
  <1>1. s \in Seq(Sized) /\ x.size \in Nat /\ Sum(s, extra) = 0
    BY SumEmpty DEF Sized
  <1>2. <<x>> = Append(s, x)
    OBVIOUS
  <1> HIDE DEF s
  <1>3. Sum(Append(s, x), extra) = Sum(s, extra) + x.size + extra
    BY <1>1, SumAppend
  <1>4. Sum(<<x>>, extra) = Sum(s, extra) + x.size + extra
    BY <1>2, <1>3, Zenon
  <1> QED BY <1>1, <1>4

LEMMA SumConcat ==
  ASSUME NEW s \in Seq(Sized), NEW t \in Seq(Sized), NEW extra \in Nat
  PROVE  Sum(s \o t, extra) = Sum(s, extra) + Sum(t, extra)
  <1> DEFINE u == s \o t
             M == Len(s)
             N == Len(t)
  <1>1. /\ u \in Seq(Sized) /\ Len(u) = M + N /\ M \in Nat /\ N \in Nat
        /\ \A i \in 1 .. M + N : u[i] = IF i <= M THEN s[i] ELSE t[i - M]
    BY ConcatProperties
  <1>2. (\A i \in 1 .. M : u[i] = s[i]) /\ (\A i \in 1 .. N : u[M + i] = t[i])
    <2> HIDE DEF u, M, N
    <2>1. \A i \in 1 .. M : i \in 1 .. M + N /\ i <= M
      BY <1>1
    <2>2. \A i \in 1 .. N : M + i \in 1 .. M + N /\ ~(M + i <= M) /\ M + i - M = i
      BY <1>1
    <2> QED BY <1>1, <2>1, <2>2
  <1> HIDE DEF u
  <1>3. PICK f \in SumSoFar(u, extra) : Sum(u, extra) = f[M + N]
    BY <1>1, SumSteps
  <1>4. PICK h \in SumSoFar(t, extra) : Sum(t, extra) = h[N]
    BY SumSteps
  <1>5. Sum(s, extra) = f[M]
    <2>1. Len(s) <= Len(u) /\ \A i \in 1 .. Len(s) : s[i].size = u[i].size
      BY <1>1, <1>2
    <2> QED BY <1>1, <2>1, SumOfFront
  <1>6. /\ f \in [0 .. M + N -> Nat] /\ h \in [0 .. N -> Nat] /\ h[0] = 0
        /\ \A n \in 1 .. M + N : f[n] = f[n - 1] + u[n].size + extra
        /\ \A n \in 1 .. N : h[n] = h[n - 1] + t[n].size + extra
    BY <1>1 DEF SumSoFar
  <1>7. \A n \in 1 .. N : t[n].size \in Nat
    <2>1. \A n \in 1 .. N : t[n] \in Sized
      OBVIOUS
    <2> QED BY <2>1 DEF Sized
  <1> HIDE DEF M, N
  <1> DEFINE G == {n \in 0 .. N : f[M + n] = f[M] + h[n]}
  <1>8. 0 \in G
    BY <1>1, <1>6
  <1>9. ASSUME NEW n \in 1 .. N, n - 1 \in G PROVE n \in G
    <2>1. f[M + (n - 1)] = f[M] + h[n - 1]
      BY <1>9
    <2>2. M + n \in 1 .. M + N /\ M + n - 1 = M + (n - 1)
      BY <1>1
    <2>3. f[M + n] = f[M + (n - 1)] + u[M + n].size + extra
      <3> DEFINE k == M + n
      <3>1. k \in 1 .. M + N /\ k - 1 = M + (n - 1)
        BY <1>1, <2>2
      <3> HIDE DEF k
      <3>2. f[k] = f[k - 1] + u[k].size + extra
        BY <1>6, <3>1
      <3>3. f[k] = f[M + (n - 1)] + u[k].size + extra
        BY <3>1, <3>2
      <3> QED BY <3>3 DEF k
    <2>4. u[M + n] = t[n] /\ h[n] = h[n - 1] + t[n].size + extra
      BY <1>2, <1>6
    <2>5. f[M] \in Nat /\ h[n - 1] \in Nat /\ t[n].size \in Nat
      <3>1. M \in 0 .. M + N /\ n - 1 \in 0 .. N
        BY <1>1
      <3> QED BY <1>6, <1>7, <3>1
    <2>6. f[M + n] = f[M] + h[n]
      BY <2>1, <2>3, <2>4, <2>5
    <2> QED BY <2>6, <1>1
  <1>10. N \in G
    <2> HIDE DEF G
    <2>1. \A n \in 1 .. N : n - 1 \in G => n \in G
      BY <1>9
    <2>2. \A n \in 0 .. N : n \in G
      BY <1>1, <1>8, <2>1, UpTo, Zenon
    <2> QED BY <1>1, <2>2
  <1> QED BY <1>3, <1>4, <1>5, <1>10 DEF u

\* Reversing keeps the parts and the sum.
LEMMA Reversed ==
  ASSUME NEW T, NEW s \in Seq(T)
  PROVE  /\ Reverse(s) \in Seq(T) /\ Len(Reverse(s)) = Len(s)
         /\ \A i \in 1 .. Len(s) : Reverse(s)[i] = s[Len(s) - i + 1]
  <1> DEFINE N == Len(s)
  <1>1. N \in Nat /\ \A i \in 1 .. N : N - i + 1 \in 1 .. N
    OBVIOUS
  <1>2. \A i \in 1 .. N : s[N - i + 1] \in T
    BY <1>1
  <1>3. Reverse(s) = [i \in 1 .. N |-> s[N - i + 1]]
    BY DEF Reverse
  <1> HIDE DEF N
  <1>4. Reverse(s) \in [1 .. N -> T]
    BY <1>2, <1>3
  <1>5. Reverse(s) \in Seq(T) /\ Len(Reverse(s)) = N
    BY <1>1, <1>4
  <1> QED BY <1>3, <1>5 DEF N

LEMMA SumReverse ==
  ASSUME NEW s \in Seq(Sized), NEW extra \in Nat
  PROVE  Sum(Reverse(s), extra) = Sum(s, extra)
  <1> DEFINE N == Len(s)
             F(n) == SubSeq(s, 1, n)
  <1>1. N \in Nat
    OBVIOUS
  <1>2. ASSUME NEW n \in 0 .. N
        PROVE  /\ F(n) \in Seq(Sized) /\ Len(F(n)) = n
               /\ \A i \in 1 .. n : F(n)[i] = s[i]
    <2>1. \A i \in 1 .. n : s[i] \in Sized
      BY <1>1
    <2>2. /\ F(n) \in Seq(Sized) /\ Len(F(n)) = (IF 1 <= n THEN n - 1 + 1 ELSE 0)
          /\ \A i \in 1 .. n - 1 + 1 : F(n)[i] = s[1 + i - 1]
      BY <2>1, SubSeqProperties
    <2> QED BY <1>1, <2>2
  <1>3. ASSUME NEW n \in 1 .. N
        PROVE  /\ F(n) = Append(F(n - 1), s[n])
               /\ Reverse(F(n)) = <<s[n]>> \o Reverse(F(n - 1))
    <2>1. n - 1 \in 0 .. N /\ n \in 0 .. N /\ s[n] \in Sized
      BY <1>1
    <2>2. /\ F(n) \in Seq(Sized) /\ Len(F(n)) = n /\ \A i \in 1 .. n : F(n)[i] = s[i]
          /\ F(n - 1) \in Seq(Sized) /\ Len(F(n - 1)) = n - 1
          /\ \A i \in 1 .. n - 1 : F(n - 1)[i] = s[i]
      BY <1>2, <2>1
    <2> HIDE DEF F
    <2>3. F(n) = Append(F(n - 1), s[n])
      <3>1. Append(F(n - 1), s[n]) \in Seq(Sized) /\ Len(Append(F(n - 1), s[n])) = n
        BY <2>1, <2>2
      <3>2. \A i \in 1 .. n : Append(F(n - 1), s[n])[i] = s[i]
        BY <2>1, <2>2
      <3> QED BY <2>2, <3>1, <3>2, SeqEqual
    <2>4. /\ Reverse(F(n)) \in Seq(Sized) /\ Len(Reverse(F(n))) = n
          /\ \A i \in 1 .. n : Reverse(F(n))[i] = F(n)[n - i + 1]
      <3> DEFINE p == F(n)
      <3>1. p \in Seq(Sized) /\ Len(p) = n
        BY <2>2
      <3> HIDE DEF p
      <3>2. /\ Reverse(p) \in Seq(Sized) /\ Len(Reverse(p)) = Len(p)
            /\ \A i \in 1 .. Len(p) : Reverse(p)[i] = p[Len(p) - i + 1]
        BY <3>1, Reversed
      <3> QED BY <3>1, <3>2 DEF p
    <2>5. /\ Reverse(F(n - 1)) \in Seq(Sized) /\ Len(Reverse(F(n - 1))) = n - 1
          /\ \A i \in 1 .. n - 1 : Reverse(F(n - 1))[i] = F(n - 1)[n - 1 - i + 1]
      <3> DEFINE p == F(n - 1)
      <3>1. p \in Seq(Sized) /\ Len(p) = n - 1
        BY <2>2
      <3> HIDE DEF p
      <3>2. /\ Reverse(p) \in Seq(Sized) /\ Len(Reverse(p)) = Len(p)
            /\ \A i \in 1 .. Len(p) : Reverse(p)[i] = p[Len(p) - i + 1]
        BY <3>1, Reversed
      <3> QED BY <3>1, <3>2 DEF p
    <2> DEFINE r == <<s[n]>> \o Reverse(F(n - 1))
    <2>6. /\ r \in Seq(Sized) /\ Len(r) = n
          /\ \A i \in 1 .. n : r[i] = IF i <= 1 THEN s[n] ELSE Reverse(F(n - 1))[i - 1]
      <3>1. <<s[n]>> \in Seq(Sized) /\ Len(<<s[n]>>) = 1 /\ <<s[n]>>[1] = s[n]
        BY <2>1
      <3>2. /\ r \in Seq(Sized) /\ Len(r) = 1 + (n - 1)
            /\ \A i \in 1 .. 1 + (n - 1) : r[i] = IF i <= 1 THEN <<s[n]>>[i] ELSE Reverse(F(n - 1))[i - 1]
        BY <3>1, <2>5, ConcatProperties
      <3> QED BY <3>1, <3>2
    <2> HIDE DEF r
    <2>7. ASSUME NEW i \in 1 .. n PROVE Reverse(F(n))[i] = r[i]
      <3>1. n - i + 1 \in 1 .. n /\ Reverse(F(n))[i] = s[n - i + 1]
        BY <2>2, <2>4
      <3>2. CASE i = 1
        BY <3>1, <3>2, <2>6
      <3>3. CASE i # 1
        <4>1. i - 1 \in 1 .. n - 1 /\ n - 1 - (i - 1) + 1 = n - i + 1 /\ n - i + 1 \in 1 .. n - 1
          BY <3>3
        <4>2. Reverse(F(n - 1))[i - 1] = F(n - 1)[n - i + 1]
          BY <2>5, <4>1
        <4> QED BY <2>2, <2>6, <3>1, <3>3, <4>1, <4>2
      <3> QED BY <3>2, <3>3
    <2>8. Reverse(F(n)) = r
      BY <2>4, <2>6, <2>7, SeqEqual
    <2> QED BY <2>3, <2>8 DEF r
  <1>4. F(0) = <<>> /\ F(N) = s
    <2>1. F(0) = <<>>
      BY SubSeqEmpty
    <2> QED BY <2>1, SubSeqFull
  <1> HIDE DEF N, F
  <1> DEFINE G == {n \in 0 .. N : Sum(Reverse(F(n)), extra) = Sum(F(n), extra)}
  <1>5. 0 \in G
    <2>1. Reverse(<<>>) = <<>>
      <3>1. <<>> \in Seq(Sized) /\ Len(<<>>) = 0
        OBVIOUS
      <3>2. Reverse(<<>>) \in Seq(Sized) /\ Len(Reverse(<<>>)) = 0
        BY <3>1, Reversed
      <3> QED BY <3>2, EmptySeq
    <2> QED BY <1>1, <1>4, <2>1
  <1>6. ASSUME NEW n \in 1 .. N, n - 1 \in G PROVE n \in G
    <2>1. n - 1 \in 0 .. N /\ s[n] \in Sized
      BY <1>1 DEF N
    <2>2. F(n - 1) \in Seq(Sized) /\ Reverse(F(n - 1)) \in Seq(Sized) /\ <<s[n]>> \in Seq(Sized)
      BY <1>2, <2>1, Reversed
    <2>3. Sum(F(n), extra) = Sum(F(n - 1), extra) + s[n].size + extra
      BY <1>3, <2>1, <2>2, SumAppend
    <2>4. Sum(Reverse(F(n)), extra) = s[n].size + extra + Sum(Reverse(F(n - 1)), extra)
      <3> DEFINE r == Reverse(F(n - 1))
                 x == <<s[n]>>
      <3>1. Reverse(F(n)) = x \o r /\ Sum(x, extra) = s[n].size + extra
        BY <1>3, <2>1, SumOne
      <3>2. r \in Seq(Sized) /\ x \in Seq(Sized)
        BY <2>2
      <3> HIDE DEF r, x
      <3>3. Sum(x \o r, extra) = Sum(x, extra) + Sum(r, extra)
        BY <3>2, SumConcat
      <3> QED BY <3>1, <3>3 DEF r
    <2>5. Sum(F(n - 1), extra) \in Nat /\ s[n].size \in Nat
      BY <2>1, <2>2, SumNatural DEF Sized
    <2>6. Sum(Reverse(F(n - 1)), extra) = Sum(F(n - 1), extra)
      BY <1>6
    <2>7. Sum(Reverse(F(n)), extra) = Sum(F(n), extra)
      BY <2>3, <2>4, <2>5, <2>6
    <2> QED BY <2>7, <1>1
  <1>7. N \in G
    <2> HIDE DEF G
    <2>1. \A n \in 1 .. N : n - 1 \in G => n \in G
      BY <1>6
    <2>2. \A n \in 0 .. N : n \in G
      BY <1>1, <1>5, <2>1, UpTo, Zenon
    <2> QED BY <1>1, <2>2
  <1> QED BY <1>4, <1>7

-----------------------------------------------------------------------------
(* Parts.                                                                  *)

\* The parts of a conversation of N messages, and of what is made of it.
Pieces(N) == [id : 0 .. N, kind : Kinds, size : Nat \ {0}, critical : BOOLEAN]

\* The limits are numbers.
LEMMA Limits ==
  /\ MaxLen \in Nat /\ Sep \in Nat \ {0} /\ Pad \in Nat \ {0} /\ Hint \in Nat \ {0}
  /\ Mark \in Nat \ {0} /\ Protocol \in Nat \ {0}
  /\ Reserve \in Nat /\ Margin \in Nat /\ LargeTools \in Nat
  /\ AgentLimit \in Nat \ {0} /\ PromptReserve \in Nat \ {0} /\ Notice \in Nat \ {0}
  /\ Marker \in Nat \ {0} /\ Floor \in Nat \ {0} /\ MaxMessages \in Nat
  /\ Sep <= Pad
  <1>1. {Sep, Pad, Hint, Mark, Protocol} \subseteq Nat \ {0} /\ Sep <= Pad
    BY BudgetAssumption
  <1>2. MaxLen \in Nat /\ {Reserve, Margin, LargeTools} \subseteq Nat
    BY BudgetAssumption
  <1>3. {AgentLimit, PromptReserve, Notice, Marker, Floor} \subseteq Nat \ {0} /\ MaxMessages \in Nat
    BY BudgetAssumption
  <1>4. Sep \in Nat \ {0} /\ Pad \in Nat \ {0} /\ Hint \in Nat \ {0} /\ Mark \in Nat \ {0}
        /\ Protocol \in Nat \ {0}
    BY <1>1
  <1>5. Reserve \in Nat /\ Margin \in Nat /\ LargeTools \in Nat
    BY <1>2
  <1>6. AgentLimit \in Nat \ {0} /\ PromptReserve \in Nat \ {0} /\ Notice \in Nat \ {0}
        /\ Marker \in Nat \ {0} /\ Floor \in Nat \ {0}
    BY <1>3
  <1> QED BY <1>1, <1>2, <1>3, <1>4, <1>5, <1>6

LEMMA PieceSize ==
  ASSUME NEW N, NEW x \in Pieces(N)
  PROVE  x.size \in Nat \ {0} /\ x.id \in 0 .. N
BY DEF Pieces

LEMMA PiecesSized ==
  ASSUME NEW N \in Nat, NEW s \in Seq(Pieces(N))
  PROVE  s \in Seq(Sized)
  <1>1. Pieces(N) \subseteq Sized
    BY DEF Pieces, Sized
  <1> QED BY <1>1, SeqMonotonic

LEMMA HintIsPiece ==
  ASSUME NEW N \in Nat
  PROVE  TheHint \in Pieces(N) /\ TheHint \in Sized /\ TheHint.size = Hint
  <1>1. Hint \in Nat \ {0} /\ 0 \in 0 .. N /\ "hint" \in Kinds
    BY Limits DEF Kinds
  <1>2. TheHint = [id |-> 0, kind |-> "hint", size |-> Hint, critical |-> FALSE]
    BY DEF TheHint, Part
  <1> QED BY <1>1, <1>2 DEF Pieces, Sized

\* A bound on the sum of parts with their joints bounds their length.
LEMMA LengthOf ==
  ASSUME NEW s \in Seq(Sized)
  PROVE  /\ Length(s) \in Nat
         /\ \A n \in Nat : Sum(s, Sep) <= n + Sep => Length(s) <= n
         /\ Sum(s, Sep) <= Length(s) + Sep
  <1>1. Sum(s, Sep) \in Nat /\ Sep \in Nat
    BY SumNatural, Limits
  <1> QED BY <1>1 DEF Length, NonNegative, Larger

\* The sums grow along a sequence and with what is added for each part.
LEMMA SumsGrow ==
  ASSUME NEW s \in Seq(Sized), NEW extra \in Nat, NEW f \in SumSoFar(s, extra),
         NEW i \in 0 .. Len(s)
  PROVE  f[i] <= f[Len(s)] /\ f[i] \in Nat
  <1> DEFINE N == Len(s)
  <1>1. /\ N \in Nat /\ f \in [0 .. N -> Nat]
        /\ \A n \in 1 .. N : f[n] = f[n - 1] + s[n].size + extra
    BY DEF SumSoFar
  <1>2. \A n \in 1 .. N : s[n].size \in Nat
    <2>1. \A n \in 1 .. N : s[n] \in Sized
      OBVIOUS
    <2> QED BY <2>1 DEF Sized
  <1>3. i \in 0 .. N
    OBVIOUS
  <1> HIDE DEF N
  <1> DEFINE G == {n \in 0 .. N : n >= i => f[i] <= f[n]}
  <1>4. 0 \in G
    BY <1>1, <1>3
  <1>5. ASSUME NEW n \in 1 .. N, n - 1 \in G PROVE n \in G
    <2>1. f[n] = f[n - 1] + s[n].size + extra /\ s[n].size \in Nat
      BY <1>1, <1>2
    <2>2. f[n - 1] \in Nat /\ f[n] \in Nat /\ f[i] \in Nat /\ n - 1 \in 0 .. N
      BY <1>1, <1>3
    <2>3. CASE n - 1 >= i
      <3>1. f[i] <= f[n - 1]
        BY <1>5, <2>3
      <3>2. f[i] <= f[n]
        BY <2>1, <2>2, <3>1
      <3> QED BY <3>2, <1>1
    <2>4. CASE ~(n - 1 >= i)
      <3>1. n >= i => n = i
        BY <1>1, <1>3, <2>4
      <3>2. n >= i => f[i] <= f[n]
        BY <2>2, <3>1
      <3> QED BY <1>1, <3>2
    <2> QED BY <2>3, <2>4
  <1>6. N \in G
    <2> HIDE DEF G
    <2>1. \A n \in 1 .. N : n - 1 \in G => n \in G
      BY <1>5
    <2>2. \A n \in 0 .. N : n \in G
      BY <1>1, <1>4, <2>1, UpTo, Zenon
    <2> QED BY <1>1, <2>2
  <1> QED BY <1>1, <1>3, <1>6 DEF N

LEMMA SumWithMore ==
  ASSUME NEW s \in Seq(Sized), NEW a \in Nat, NEW b \in Nat, a <= b
  PROVE  Sum(s, a) <= Sum(s, b)
  <1> DEFINE N == Len(s)
  <1>1. PICK f \in SumSoFar(s, a) : Sum(s, a) = f[N]
    BY SumSteps
  <1>2. PICK h \in SumSoFar(s, b) : Sum(s, b) = h[N]
    BY SumSteps
  <1>3. /\ N \in Nat /\ f \in [0 .. N -> Nat] /\ f[0] = 0 /\ h \in [0 .. N -> Nat] /\ h[0] = 0
        /\ \A n \in 1 .. N : f[n] = f[n - 1] + s[n].size + a
        /\ \A n \in 1 .. N : h[n] = h[n - 1] + s[n].size + b
    BY DEF SumSoFar
  <1>4. \A n \in 1 .. N : s[n].size \in Nat
    <2>1. \A n \in 1 .. N : s[n] \in Sized
      OBVIOUS
    <2> QED BY <2>1 DEF Sized
  <1> HIDE DEF N
  <1> DEFINE G == {n \in 0 .. N : f[n] <= h[n]}
  <1>5. 0 \in G
    BY <1>3
  <1>6. ASSUME NEW n \in 1 .. N, n - 1 \in G PROVE n \in G
    <2>1. /\ f[n] = f[n - 1] + s[n].size + a /\ h[n] = h[n - 1] + s[n].size + b
          /\ s[n].size \in Nat
      BY <1>3, <1>4
    <2>2. f[n - 1] \in Nat /\ h[n - 1] \in Nat /\ f[n - 1] <= h[n - 1]
      BY <1>3, <1>6
    <2>3. f[n] <= h[n]
      BY <2>1, <2>2
    <2> QED BY <1>3, <2>3
  <1>7. N \in G
    <2> HIDE DEF G
    <2>1. \A n \in 1 .. N : n - 1 \in G => n \in G
      BY <1>6
    <2>2. \A n \in 0 .. N : n \in G
      BY <1>3, <1>5, <2>1, UpTo, Zenon
    <2> QED BY <1>3, <2>2
  <1> QED BY <1>1, <1>2, <1>7 DEF N

-----------------------------------------------------------------------------
(* FirstOf.                                                                *)

\* The front of each part, by the sums before it.
Fronts(parts, f, n) ==
  [i \in 1 .. Len(parts) |->
    [parts[i] EXCEPT !.size = Smaller(@, NonNegative(n - f[i - 1]))]]
SomeLeft(fronts) == {i \in DOMAIN fronts : fronts[i].size > 0}

LEMMA FirstOfIs ==
  ASSUME NEW parts \in Seq(Sized), NEW n \in Int, NEW sep \in Nat, NEW f \in SumSoFar(parts, sep)
  PROVE  FirstOf(parts, n, sep) = Kept(Fronts(parts, f, n), SomeLeft(Fronts(parts, f, n)))
  <1>1. ASSUME NEW i \in 1 .. Len(parts) PROVE Sum(SubSeq(parts, 1, i - 1), sep) = f[i - 1]
    <2> DEFINE t == SubSeq(parts, 1, i - 1)
               m == i - 1
    <2>1. m \in Int /\ 1 \in Int /\ m <= Len(parts) /\ m \in Nat /\ Len(parts) \in Nat
      OBVIOUS
    <2>2. \A j \in 1 .. m : j \in 1 .. Len(parts) /\ parts[j] \in Sized
      BY <2>1
    <2> HIDE DEF m
    <2> DEFINE u == SubSeq(parts, 1, m)
    <2>3. /\ u \in Seq(Sized) /\ Len(u) = (IF 1 <= m THEN m - 1 + 1 ELSE 0)
          /\ \A j \in 1 .. m - 1 + 1 : u[j] = parts[1 + j - 1]
      BY <2>1, <2>2, SubSeqProperties
    <2> HIDE DEF u
    <2>4. Len(u) = m /\ \A j \in 1 .. m : u[j] = parts[j]
      BY <2>1, <2>3
    <2>5. Sum(u, sep) = f[m]
      BY <2>1, <2>3, <2>4, SumOfFront
    <2> QED BY <2>5 DEF u, m
  <1>2. DOMAIN parts = 1 .. Len(parts)
    OBVIOUS
  <1>3. [i \in DOMAIN parts |->
           [parts[i] EXCEPT !.size = Smaller(@, NonNegative(n - Sum(SubSeq(parts, 1, i - 1), sep)))]]
          = Fronts(parts, f, n)
    BY <1>1, <1>2 DEF Fronts
  <1> QED BY <1>3, Zenon DEF FirstOf, SomeLeft

LEMMA FrontsFit ==
  ASSUME NEW N \in Nat, NEW parts \in Seq(Pieces(N)), NEW n \in Nat, NEW sep \in Nat,
         NEW f \in SumSoFar(parts, sep), NEW i \in 1 .. Len(parts)
  PROVE  /\ Fronts(parts, f, n)[i].size \in Nat
         /\ Fronts(parts, f, n)[i].size <= parts[i].size
         /\ Fronts(parts, f, n)[i].size > 0
              => /\ Fronts(parts, f, n)[i] \in Pieces(N)
                 /\ Fronts(parts, f, n)[i].size + f[i - 1] <= n
         /\ f[i - 1] + parts[i].size <= n => Fronts(parts, f, n)[i] = parts[i]
         /\ f[i - 1] < n => /\ Fronts(parts, f, n)[i].size > 0
                            /\ Fronts(parts, f, n)[i].id = parts[i].id
                            /\ Fronts(parts, f, n)[i].kind = parts[i].kind
  <1> DEFINE p == parts[i]
             b == f[i - 1]
             z == Smaller(p.size, NonNegative(n - b))
             x == [p EXCEPT !.size = z]
  <1>1. Fronts(parts, f, n)[i] = x
    BY DEF Fronts
  <1>2. p \in Pieces(N)
    OBVIOUS
  <1>3. b \in Nat
    <2>1. i - 1 \in 0 .. Len(parts)
      OBVIOUS
    <2> QED BY <2>1 DEF SumSoFar
  <1>4. p.size \in Nat \ {0} /\ p = [id |-> p.id, kind |-> p.kind, size |-> p.size, critical |-> p.critical]
        /\ p.id \in 0 .. N /\ p.kind \in Kinds /\ p.critical \in BOOLEAN
    BY <1>2 DEF Pieces
  <1>5. x.size = z /\ x.id = p.id /\ x.kind = p.kind /\ x.critical = p.critical
    BY <1>4
  <1>6. x = [id |-> p.id, kind |-> p.kind, size |-> z, critical |-> p.critical]
    BY <1>4
  <1> HIDE DEF b, p
  <1>7. /\ z \in Nat /\ z <= p.size
        /\ z > 0 => z + b <= n
        /\ b + p.size <= n => z = p.size
        /\ b < n => z > 0
    BY <1>3, <1>4 DEF Smaller, NonNegative, Larger
  <1> HIDE DEF z
  <1>8. z > 0 => x \in Pieces(N)
    BY <1>4, <1>6, <1>7 DEF Pieces
  <1>9. z = p.size => x = p
    BY <1>4, <1>6
  <1> HIDE DEF x
  <1>10. /\ x.size \in Nat /\ x.size <= p.size
         /\ x.size > 0 => x \in Pieces(N) /\ x.size + b <= n
         /\ b + p.size <= n => x = p
         /\ b < n => x.size > 0 /\ x.id = p.id /\ x.kind = p.kind
    BY <1>5, <1>7, <1>8, <1>9
  <1> QED BY <1>1, <1>10 DEF b, p

\* No more than n characters are left, joints included, and they are of the same parts.
LEMMA FirstOfFits ==
  ASSUME NEW N \in Nat, NEW parts \in Seq(Pieces(N)), NEW n \in Nat, NEW sep \in Nat
  PROVE  /\ FirstOf(parts, n, sep) \in Seq(Pieces(N))
         /\ Sum(FirstOf(parts, n, sep), sep) <= n + sep
  <1> DEFINE M == Len(parts)
  <1>1. parts \in Seq(Sized)
    BY PiecesSized
  <1>2. PICK f \in SumSoFar(parts, sep) : Sum(parts, sep) = f[M]
    BY <1>1, SumSteps
  <1> DEFINE s == Fronts(parts, f, n)
             K == SomeLeft(s)
             T == Pieces(N)
  <1>3. FirstOf(parts, n, sep) = Kept(s, K)
    BY <1>1, FirstOfIs
  <1>4. M \in Nat /\ s = [i \in 1 .. M |-> s[i]] /\ Len(s) = M /\ DOMAIN s = 1 .. M
    BY DEF Fronts
  <1>5. \A i \in 1 .. M : i \in K <=> s[i].size > 0
    BY <1>4 DEF SomeLeft
  <1>6. ASSUME NEW i \in 1 .. M, i \in K
        PROVE  /\ s[i] \in T /\ s[i].size \in Nat /\ s[i].size + f[i - 1] <= n
               /\ s[i].size <= parts[i].size
    BY <1>5, <1>6, FrontsFit
  <1>7. /\ f \in [0 .. M -> Nat] /\ f[0] = 0
        /\ \A m \in 1 .. M : f[m] = f[m - 1] + parts[m].size + sep
    BY DEF SumSoFar
  <1>8. \A m \in 1 .. M : parts[m].size \in Nat
    BY PieceSize
  <1> HIDE DEF M, s, K, T
  <1>9. PICK k \in KeptSoFar(s, K, T) : Kept(s, K) = k[M]
    BY <1>4, <1>6, KeptSteps
  <1>10. /\ k \in [0 .. M -> Seq(T)] /\ k[0] = <<>>
         /\ \A m \in 1 .. M : k[m] = k[m - 1] \o (IF m \in K THEN <<s[m]>> ELSE <<>>)
    <2>1. k \in [0 .. M -> Seq(T)] /\ k[0] = <<>>
      BY <1>4 DEF KeptSoFar
    <2>2. \A m \in 1 .. Len(s) : k[m] = k[m - 1] \o (IF m \in K THEN <<s[m]>> ELSE <<>>)
      BY Zenon DEF KeptSoFar
    <2> QED BY <1>4, <2>1, <2>2
  <1>11. \A q \in Seq(T) : q \in Seq(Sized)
    BY PiecesSized DEF T
  <1>12. \A x \in T : x \in Sized
    BY DEF T, Pieces, Sized
  <1> DEFINE S(m) == Sum(k[m], sep)
             G == {m \in 0 .. M : S(m) <= f[m] /\ S(m) <= n + sep}
  <1>13. 0 \in G
    <2>1. S(0) = 0
      BY <1>10, SumEmpty
    <2> QED BY <1>4, <1>7, <2>1
  <1>14. ASSUME NEW m \in 1 .. M, m - 1 \in G PROVE m \in G
    <2>1. m - 1 \in 0 .. M /\ m \in 0 .. M
      BY <1>4
    <2>2. k[m - 1] \in Seq(T) /\ k[m - 1] \in Seq(Sized)
      BY <1>10, <1>11, <2>1
    <2>3. /\ S(m - 1) \in Nat /\ f[m - 1] \in Nat /\ S(m - 1) <= f[m - 1]
          /\ S(m - 1) <= n + sep
      BY <1>7, <1>14, <2>1, <2>2, SumNatural
    <2>4. k[m] = k[m - 1] \o (IF m \in K THEN <<s[m]>> ELSE <<>>)
      BY <1>10
    <2>5. f[m] = f[m - 1] + parts[m].size + sep /\ parts[m].size \in Nat
      BY <1>7, <1>8
    <2>6. CASE m \in K
      <3>1. /\ s[m] \in Sized /\ s[m].size \in Nat /\ s[m].size + f[m - 1] <= n
            /\ s[m].size <= parts[m].size
        BY <1>6, <1>12, <2>6
      <3>2. k[m] = Append(k[m - 1], s[m])
        BY <2>2, <2>4, <2>6
      <3>3. S(m) = S(m - 1) + s[m].size + sep
        BY <2>2, <3>1, <3>2, SumAppend
      <3> DEFINE was == S(m - 1)
                 up == s[m].size
                 at == f[m - 1]
                 whole == parts[m].size
      <3>4. /\ was \in Nat /\ up \in Nat /\ at \in Nat /\ whole \in Nat
            /\ was <= at /\ up + at <= n /\ up <= whole
        BY <2>3, <2>5, <3>1
      <3>5. S(m) = was + up + sep /\ f[m] = at + whole + sep
        BY <2>5, <3>3
      <3> HIDE DEF S, was, up, at, whole
      <3>6. S(m) <= f[m] /\ S(m) <= n + sep
        BY <3>4, <3>5
      <3> QED BY <2>1, <3>6
    <2>7. CASE m \notin K
      <3>1. k[m] = k[m - 1] \o <<>>
        BY <2>4, <2>7
      <3>2. k[m] = k[m - 1]
        BY <2>2, <3>1, ConcatEmptySeq
      <3>3. S(m) = S(m - 1)
        BY <3>2
      <3> HIDE DEF S
      <3>4. S(m) <= f[m] /\ S(m) <= n + sep
        BY <2>3, <2>5, <3>3
      <3> QED BY <2>1, <3>4
    <2> QED BY <2>6, <2>7
  <1>15. M \in G
    <2> HIDE DEF G
    <2>1. \A m \in 1 .. M : m - 1 \in G => m \in G
      BY <1>14
    <2>2. \A m \in 0 .. M : m \in G
      BY <1>4, <1>13, <2>1, UpTo, Zenon
    <2> QED BY <1>4, <2>2
  <1>16. k[M] \in Seq(T)
    BY <1>4, <1>10
  <1> QED BY <1>3, <1>9, <1>15, <1>16 DEF T

\* What a part that is cut may become: nothing may be left of it.
Rests(N) == [id : 0 .. N, kind : Kinds, size : Nat, critical : BOOLEAN]

LEMMA FrontsRest ==
  ASSUME NEW N \in Nat, NEW parts \in Seq(Pieces(N)), NEW n \in Nat, NEW sep \in Nat,
         NEW f \in SumSoFar(parts, sep)
  PROVE  /\ Fronts(parts, f, n) \in Seq(Rests(N))
         /\ Len(Fronts(parts, f, n)) = Len(parts)
         /\ DOMAIN Fronts(parts, f, n) = 1 .. Len(parts)
  <1> DEFINE s == Fronts(parts, f, n)
  <1>1. Len(parts) \in Nat /\ Len(s) = Len(parts) /\ DOMAIN s = 1 .. Len(parts)
    BY DEF Fronts
  <1>2. \A m \in 1 .. Len(parts) : s[m] \in Rests(N)
    <2> SUFFICES ASSUME NEW m \in 1 .. Len(parts) PROVE s[m] \in Rests(N)
      OBVIOUS
    <2>1. parts[m] \in Pieces(N)
      OBVIOUS
    <2>2. s[m].size \in Nat
      BY FrontsFit
    <2>3. s[m] = [parts[m] EXCEPT !.size = Smaller(@, NonNegative(n - f[m - 1]))]
      BY DEF Fronts
    <2> HIDE DEF s
    <2> QED BY <2>1, <2>2, <2>3 DEF Pieces, Rests
  <1>3. s = [m \in 1 .. Len(parts) |-> s[m]]
    BY DEF Fronts
  <1> HIDE DEF s
  <1>4. s \in Seq(Rests(N))
    BY <1>1, <1>2, <1>3
  <1> QED BY <1>1, <1>4 DEF s

\* A part that begins within the first n characters leaves something; one that ends
\* within them is left whole.
LEMMA FirstOfHas ==
  ASSUME NEW N \in Nat, NEW parts \in Seq(Pieces(N)), NEW n \in Nat, NEW sep \in Nat,
         NEW f \in SumSoFar(parts, sep), NEW i \in 1 .. Len(parts), f[i - 1] < n
  PROVE  \E j \in 1 .. Len(FirstOf(parts, n, sep)) :
           /\ FirstOf(parts, n, sep)[j].id = parts[i].id
           /\ FirstOf(parts, n, sep)[j].kind = parts[i].kind
           /\ f[i - 1] + parts[i].size <= n => FirstOf(parts, n, sep)[j] = parts[i]
  <1> DEFINE s == Fronts(parts, f, n)
             q == FirstOf(parts, n, sep)
  <1>1. parts \in Seq(Sized)
    BY PiecesSized
  <1>2. q = Kept(s, SomeLeft(s))
    BY <1>1, FirstOfIs
  <1>3. Len(parts) \in Nat /\ Len(s) = Len(parts) /\ DOMAIN s = 1 .. Len(parts) /\ s \in Seq(Rests(N))
    BY FrontsRest
  <1>4. s[i].size > 0 /\ s[i].id = parts[i].id /\ s[i].kind = parts[i].kind
        /\ (f[i - 1] + parts[i].size <= n => s[i] = parts[i])
    BY FrontsFit
  <1>5. i \in SomeLeft(s)
    BY <1>3, <1>4 DEF SomeLeft
  <1> HIDE DEF s
  <1>6. \E j \in 1 .. Len(Kept(s, SomeLeft(s))) : Kept(s, SomeLeft(s))[j] = s[i]
    BY <1>3, <1>5, KeptHas
  <1> QED BY <1>2, <1>4, <1>6

\* If the last part begins within them, what is left of it is the last.
LEMMA FirstOfEnds ==
  ASSUME NEW N \in Nat, NEW parts \in Seq(Pieces(N)), parts # <<>>, NEW n \in Nat, NEW sep \in Nat,
         NEW f \in SumSoFar(parts, sep), f[Len(parts) - 1] < n
  PROVE  /\ FirstOf(parts, n, sep) # <<>>
         /\ FirstOf(parts, n, sep)[Len(FirstOf(parts, n, sep))].id = parts[Len(parts)].id
  <1> DEFINE s == Fronts(parts, f, n)
             q == FirstOf(parts, n, sep)
             i == Len(parts)
  <1>1. parts \in Seq(Sized) /\ i \in 1 .. Len(parts) /\ f[i - 1] < n
    BY PiecesSized, EmptySeq
  <1>2. q = Kept(s, SomeLeft(s))
    BY <1>1, FirstOfIs
  <1>3. Len(parts) \in Nat /\ Len(s) = Len(parts) /\ DOMAIN s = 1 .. Len(parts) /\ s \in Seq(Rests(N))
    BY FrontsRest
  <1>4. s[i].size > 0 /\ s[i].id = parts[i].id
    BY <1>1, FrontsFit
  <1>5. i \in SomeLeft(s) /\ i \in 1 .. Len(s) /\ \A j \in i + 1 .. Len(s) : j \notin SomeLeft(s)
    BY <1>1, <1>3, <1>4 DEF SomeLeft
  <1> HIDE DEF s, i
  <1>6. Kept(s, SomeLeft(s)) # <<>> /\ Kept(s, SomeLeft(s))[Len(Kept(s, SomeLeft(s)))] = s[i]
    BY <1>3, <1>5, KeptHas
  <1> QED BY <1>2, <1>4, <1>6 DEF i

-----------------------------------------------------------------------------
(* compress_content.                                                       *)

\* What is taken stays within any set that taking a part does not leave.
LEMMA FittingStays ==
  ASSUME NEW S, NEW T, NEW parts \in Seq(T), NEW room, [room |-> room, kept |-> <<>>] \in S,
         \A s \in S : \A i \in 1 .. Len(parts) : Take(s, parts[i]) \in S
  PROVE  \E s \in S : Fitting(parts, room) = s.kept
  <1> DEFINE N == Len(parts)
             b == [room |-> room, kept |-> <<>>]
             Step(n, s) == Take(s, parts[N - n + 1])
             all[n \in 0 .. N] == IF n = 0 THEN b ELSE Take(all[n - 1], parts[N - n + 1])
             g == [n \in 1 .. N |-> [s \in S |-> Step(n, s)]]
  <1>1. N \in Nat /\ (\A n \in 1 .. N : n - 1 \in 0 .. N /\ N - n + 1 \in 1 .. N) /\ b \in S
    OBVIOUS
  <1>2. \A n \in 1 .. N, s \in S : Step(n, s) \in S
    BY <1>1
  <1>3. Fitting(parts, room) = all[N].kept
    BY DEF Fitting
  <1>a. \A n, s : Step(n, s) = Take(s, parts[N - n + 1])
    OBVIOUS
  <1> HIDE DEF Step, b
  <1>4. g \in Steps(N, S)
    BY <1>2 DEF Steps
  <1>5. PICK f : f \in Histories(N, S, b, g)
    <2> HIDE DEF g, N
    <2> QED BY <1>1, <1>4, History
  <1>6. /\ f \in [0 .. N -> S] /\ f[0] = b
        /\ \A n \in 1 .. N : f[n] = Step(n, f[n - 1])
    <2>1. f \in [0 .. N -> S] /\ f[0] = b /\ \A n \in 1 .. N : f[n] = g[n][f[n - 1]]
      BY <1>5 DEF Histories
    <2>2. \A n \in 1 .. N : g[n][f[n - 1]] = Step(n, f[n - 1])
      <3> SUFFICES ASSUME NEW n \in 1 .. N PROVE g[n][f[n - 1]] = Step(n, f[n - 1])
        OBVIOUS
      <3>1. f[n - 1] \in S
        BY <1>1, <2>1
      <3> QED BY <3>1
    <2> HIDE DEF g, N
    <2> QED BY <2>1, <2>2
  <1>7. f = [n \in 0 .. N |-> IF n = 0 THEN b ELSE Take(f[n - 1], parts[N - n + 1])]
    <2>1. \A n \in 1 .. N : f[n] = Take(f[n - 1], parts[N - n + 1])
      BY <1>6, <1>a
    <2> HIDE DEF N
    <2> QED BY <1>1, <1>6, <2>1
  <1>8. all = [n \in 0 .. N |-> IF n = 0 THEN b ELSE Take(all[n - 1], parts[N - n + 1])]
    BY <1>7
  <1> HIDE DEF all, N
  <1>9. ASSUME NEW n \in 1 .. N, all[n - 1] = f[n - 1] PROVE all[n] = f[n]
    <2>1. n \in 0 .. N /\ n # 0
      BY <1>1
    <2>2. all[n] = Take(all[n - 1], parts[N - n + 1])
      BY <1>8, <2>1
    <2> QED BY <1>6, <1>9, <1>a, <2>2
  <1>10. all[N] = f[N]
    <2> DEFINE G == {n \in 0 .. N : all[n] = f[n]}
    <2>1. 0 \in G
      BY <1>1, <1>6, <1>8
    <2>2. \A n \in 1 .. N : n - 1 \in G => n \in G
      BY <1>1, <1>9
    <2> HIDE DEF G
    <2>3. \A n \in 0 .. N : n \in G
      BY <1>1, <2>1, <2>2, UpTo, Zenon
    <2>4. N \in G
      BY <1>1, <2>3
    <2> QED BY <2>4 DEF G
  <1>11. f[N] \in S
    BY <1>1, <1>6
  <1> QED BY <1>3, <1>10, <1>11

\* What is taken fits the room, also as reckoned in advance.
LEMMA FittingFits ==
  ASSUME NEW N \in Nat, NEW parts \in Seq(Pieces(N)), NEW room \in Int
  PROVE  /\ Fitting(parts, room) \in Seq(Pieces(N))
         /\ room >= 0 => Reckoned(Fitting(parts, room)) <= room
         /\ (\A i \in 1 .. Len(parts) : parts[i].size + Pad > room) => Fitting(parts, room) = <<>>
  <1> DEFINE T == Pieces(N)
             R == [room : Int, kept : Seq(T)]
             S == {s \in R : room >= 0 => s.room >= 0 /\ Sum(s.kept, Pad) + s.room = room}
             b == [room |-> room, kept |-> <<>>]
  <1>1. Pad \in Nat
    BY Limits
  <1>2. b \in S
    BY <1>1, SumEmpty
  <1>3. ASSUME NEW s \in S, NEW i \in 1 .. Len(parts) PROVE Take(s, parts[i]) \in S
    <2> DEFINE p == parts[i]
    <2>1. p \in T /\ p.size \in Nat
      BY PieceSize
    <2> HIDE DEF p
    <2>2. s.room \in Int /\ s.kept \in Seq(T) /\ s \in R
      OBVIOUS
    <2>3. CASE s.room > 0 /\ p.size + Pad <= s.room
      <3> DEFINE q == <<p>> \o s.kept
                 left == s.room - p.size - Pad
      <3>1. Take(s, p) = [room |-> left, kept |-> q]
        BY <2>3 DEF Take
      <3>2. <<p>> \in Seq(T) /\ <<p>> \in Seq(Sized) /\ s.kept \in Seq(Sized) /\ p \in Sized
        <4>1. <<p>> \in Seq(T)
          BY <2>1
        <4>2. p \in Sized
          BY <2>1 DEF Pieces, Sized
        <4> QED BY <2>2, <4>1, <4>2, PiecesSized
      <3>3. q \in Seq(T) /\ left \in Int
        BY <1>1, <2>1, <2>2, <3>2
      <3>4. Sum(q, Pad) = p.size + Pad + Sum(s.kept, Pad)
        <4>1. Sum(q, Pad) = Sum(<<p>>, Pad) + Sum(s.kept, Pad)
          BY <1>1, <3>2, SumConcat
        <4>2. Sum(<<p>>, Pad) = p.size + Pad
          BY <1>1, <3>2, SumOne
        <4> QED BY <4>1, <4>2
      <3>5. Sum(s.kept, Pad) \in Nat
        BY <1>1, <3>2, SumNatural
      <3>6. room >= 0 => left >= 0 /\ Sum(q, Pad) + left = room
        <4>1. room >= 0 => Sum(s.kept, Pad) + s.room = room
          OBVIOUS
        <4> HIDE DEF q, S
        <4> QED BY <1>1, <2>1, <2>2, <2>3, <3>4, <3>5, <4>1
      <3> HIDE DEF q, left
      <3> QED BY <3>1, <3>3, <3>6 DEF p
    <2>4. CASE ~(s.room > 0 /\ p.size + Pad <= s.room)
      BY <2>4 DEF Take, p
    <2> QED BY <2>3, <2>4
  <1>4. PICK s \in S : Fitting(parts, room) = s.kept
    <2> HIDE DEF S, T
    <2>1. parts \in Seq(T) /\ [room |-> room, kept |-> <<>>] \in S
      BY <1>2 DEF T
    <2>2. \A x \in S : \A i \in 1 .. Len(parts) : Take(x, parts[i]) \in S
      BY <1>3
    <2> QED BY <2>1, <2>2, FittingStays
  <1>5. s.kept \in Seq(T) /\ (room >= 0 => Sum(s.kept, Pad) <= room)
    <2>1. s.kept \in Seq(T) /\ s.room \in Int
      OBVIOUS
    <2>2. Sum(s.kept, Pad) \in Nat
      BY <1>1, <2>1, PiecesSized, SumNatural
    <2> QED BY <2>1, <2>2
  <1>6. ASSUME \A i \in 1 .. Len(parts) : parts[i].size + Pad > room
        PROVE  Fitting(parts, room) = <<>>
    <2> DEFINE Same == {b}
    <2>1. ASSUME NEW x \in Same, NEW i \in 1 .. Len(parts) PROVE Take(x, parts[i]) \in Same
      <3>1. parts[i].size \in Nat
        BY PieceSize
      <3>2. x.room = room /\ ~(parts[i].size + Pad <= x.room)
        BY <1>1, <1>6, <3>1
      <3> QED BY <3>2 DEF Take
    <2>2. \E x \in Same : Fitting(parts, room) = x.kept
      <3>1. [room |-> room, kept |-> <<>>] \in Same
        OBVIOUS
      <3>2. \A x \in Same : \A i \in 1 .. Len(parts) : Take(x, parts[i]) \in Same
        BY <2>1
      <3> HIDE DEF Same
      <3> QED BY <3>1, <3>2, FittingStays
    <2> QED BY <2>2
  <1> QED BY <1>4, <1>5, <1>6 DEF Reckoned

\* What is cut hard passes, and what passes is not cut.
LEMMA HardCutFits ==
  ASSUME NEW N \in Nat, NEW parts \in Seq(Pieces(N)), parts # <<>>
  PROVE  /\ HardCut(parts) \in Seq(Pieces(N)) /\ HardCut(parts) # <<>>
         /\ Length(HardCut(parts)) <= MaxLen
         /\ Length(parts) <= MaxLen => HardCut(parts) = parts
  <1>1. CASE Length(parts) <= MaxLen
    BY <1>1 DEF HardCut
  <1>2. CASE ~(Length(parts) <= MaxLen)
    <2> DEFINE q == FirstOf(parts, MaxLen - Margin, Sep)
               n == MaxLen - Margin
    <2>1. /\ MaxLen \in Nat /\ Margin \in Nat /\ Sep \in Nat /\ Hint \in Nat
          /\ n \in Nat /\ Hint + Sep <= Margin
      BY Limits, BudgetAssumption
    <2> HIDE DEF n
    <2>2. FirstOf(parts, n, Sep) \in Seq(Pieces(N)) /\ Sum(FirstOf(parts, n, Sep), Sep) <= n + Sep
      BY <2>1, FirstOfFits
    <2>3. q \in Seq(Pieces(N)) /\ q \in Seq(Sized) /\ Sum(q, Sep) <= n + Sep /\ Sum(q, Sep) \in Nat
      BY <2>1, <2>2, PiecesSized, SumNatural DEF n
    <2>4. HardCut(parts) = Append(q, TheHint)
      BY <1>2 DEF HardCut
    <2> HIDE DEF q
    <2>5. TheHint \in Pieces(N) /\ TheHint \in Sized /\ TheHint.size = Hint
      BY HintIsPiece
    <2>6. Sum(Append(q, TheHint), Sep) = Sum(q, Sep) + Hint + Sep
      BY <2>1, <2>3, <2>5, SumAppend
    <2>7. Append(q, TheHint) \in Seq(Pieces(N)) /\ Append(q, TheHint) # <<>>
      <3>1. Append(q, TheHint) \in Seq(Pieces(N)) /\ Len(Append(q, TheHint)) = Len(q) + 1 /\ Len(q) \in Nat
        BY <2>3, <2>5
      <3> QED BY <3>1, EmptySeq
    <2>8. Sum(Append(q, TheHint), Sep) <= MaxLen + Sep
      BY <2>1, <2>3, <2>6 DEF n
    <2>9. Length(Append(q, TheHint)) <= MaxLen
      BY <2>1, <2>7, <2>8, LengthOf, PiecesSized
    <2> QED BY <1>2, <2>4, <2>7, <2>9
  <1> QED BY <1>1, <1>2

\* Tool descriptions have the sizes Names is about, and there is one at most.
ToolsKnown(parts) ==
  \A i \in 1 .. Len(parts) : parts[i].kind = "tools" => parts[i].size \in DOMAIN Names
OneCatalogue(parts) ==
  \A i, j \in 1 .. Len(parts) : parts[i].kind = "tools" /\ parts[j].kind = "tools" => i = j

LEMMA CompressedFits ==
  ASSUME NEW N \in Nat, NEW p \in Pieces(N), p.size \in DOMAIN Names
  PROVE  Compressed(p) \in Pieces(N)
  <1>1. Names[p.size] + Protocol \in Nat \ {0}
    <2>1. Names[p.size] \in Nat
      BY BudgetAssumption
    <2> QED BY <2>1, Limits
  <1>2. [p EXCEPT !.size = Names[p.size] + Protocol] \in Pieces(N)
    BY <1>1 DEF Pieces
  <1> QED BY <1>2 DEF Compressed

\* The compressed tool description of parts.
CompressedTools(parts) ==
  LET whole == Of(parts, {"tools"}) IN [i \in DOMAIN whole |-> Compressed(whole[i])]

LEMMA SelectedFits ==
  ASSUME NEW T, NEW parts \in Seq(T), NEW kinds
  PROVE  Of(parts, kinds) \in Seq(T) /\ Without(parts, kinds) \in Seq(T)
  <1>1. Len(parts) \in Nat /\ \A n \in 1 .. Len(parts) : parts[n] \in T
    OBVIOUS
  <1> QED BY <1>1, KeptStays DEF Of, Without

LEMMA Single ==
  ASSUME NEW T, NEW s \in Seq(T), Len(s) = 1
  PROVE  s = <<s[1]>>
  <1> DEFINE x == s[1]
             t == <<x>>
  <1>1. x \in T
    OBVIOUS
  <1> HIDE DEF x
  <1>2. t \in Seq(T) /\ Len(t) = 1 /\ t[1] = x
    BY <1>1
  <1> HIDE DEF t
  <1>3. \A i \in 1 .. Len(s) : s[i] = t[i]
    BY <1>2 DEF x
  <1>4. s = t
    BY <1>2, <1>3, SeqEqual
  <1> QED BY <1>4 DEF t, x

LEMMA CompressedToolsFit ==
  ASSUME NEW N \in Nat, NEW parts \in Seq(Pieces(N)), ToolsKnown(parts)
  PROVE  /\ CompressedTools(parts) \in Seq(Pieces(N))
         /\ OneCatalogue(parts) =>
              \/ CompressedTools(parts) = <<>>
              \/ \E i \in 1 .. Len(parts) : /\ parts[i].kind = "tools"
                                            /\ CompressedTools(parts) = <<Compressed(parts[i])>>
  <1> DEFINE T == {p \in Pieces(N) : p.kind = "tools" /\ p.size \in DOMAIN Names
                                       /\ \E i \in 1 .. Len(parts) : p = parts[i]}
             K == {i \in DOMAIN parts : parts[i].kind \in {"tools"}}
             whole == Of(parts, {"tools"})
             tools == CompressedTools(parts)
  <1>1. Len(parts) \in Nat /\ DOMAIN parts = 1 .. Len(parts)
        /\ \A n \in 1 .. Len(parts) : parts[n] \in Pieces(N)
    OBVIOUS
  <1>2. whole = Kept(parts, K)
    BY DEF Of
  <1>3. \A n \in 1 .. Len(parts) : n \in K => parts[n] \in T
    BY <1>1 DEF ToolsKnown
  <1>4. whole \in Seq(T)
    <2> HIDE DEF T, K
    <2> QED BY <1>1, <1>2, <1>3, KeptStays
  <1>5. tools = [i \in DOMAIN whole |-> Compressed(whole[i])]
    BY DEF CompressedTools
  <1> HIDE DEF whole, tools
  <1>6. \A i \in 1 .. Len(whole) : whole[i] \in T
    BY <1>4
  <1>7. \A i \in 1 .. Len(whole) : Compressed(whole[i]) \in Pieces(N)
    BY <1>6, CompressedFits
  <1>8. Len(whole) \in Nat /\ DOMAIN whole = 1 .. Len(whole)
    BY <1>4
  <1>9. tools \in Seq(Pieces(N)) /\ Len(tools) = Len(whole)
    BY <1>5, <1>7, <1>8
  <1>10. ASSUME OneCatalogue(parts)
         PROVE  \/ tools = <<>>
                \/ \E i \in 1 .. Len(parts) : /\ parts[i].kind = "tools"
                                              /\ tools = <<Compressed(parts[i])>>
    <2>1. Len(whole) \in {0, 1}
      <3>1. \A i, j \in 1 .. Len(parts) : i \in K /\ j \in K => i = j
        BY <1>10 DEF OneCatalogue
      <3> HIDE DEF K
      <3> QED BY <1>2, <3>1, KeptOne
    <2>2. CASE Len(whole) = 0
      BY <1>9, <2>2, EmptySeq
    <2>3. CASE Len(whole) = 1
      <3>1. 1 \in 1 .. Len(whole)
        BY <2>3
      <3>2. PICK i \in 1 .. Len(parts) : whole[1] = parts[i] /\ parts[i].kind = "tools"
        BY <1>6, <3>1
      <3>3. tools[1] = Compressed(parts[i])
        BY <1>5, <1>8, <3>1, <3>2
      <3>4. tools = <<tools[1]>>
        BY <1>9, <2>3, Single
      <3> QED BY <3>2, <3>3, <3>4
    <2> QED BY <2>1, <2>2, <2>3
  <1> QED BY <1>9, <1>10 DEF tools

\* The parts of CompressContent.
Room(parts) == MaxLen - Length(CompressedTools(parts)) - Reserve
Others(parts) == Without(parts, {"tools", "hint"})
Users(others) == {i \in DOMAIN others : others[i].kind = "user"}
Locked(others, room) ==
  LET users == Users(others)
      at == Max(users)
      task == others[at]
      fits == task.size + Pad <= room
  IN CASE users = {} -> Fitting(others, room)
       [] users # {} /\ fits ->
            Append(Fitting(Kept(others, DOMAIN others \ {at}), room - task.size - Pad), task)
       [] users # {} /\ ~fits -> <<CutTask(task, room)>>

LEMMA CompressIs ==
  ASSUME NEW parts
  PROVE  CompressContent(parts)
           = HardCut(CompressedTools(parts) \o Locked(Others(parts), Room(parts)) \o <<TheHint>>)
BY Zenon DEF CompressContent, CompressedTools, Locked, Others, Room, Users

LEMMA LatestUser ==
  ASSUME NEW T, NEW others \in Seq(T), Users(others) # {}
  PROVE  /\ Max(Users(others)) \in 1 .. Len(others)
         /\ (others # <<>> /\ others[Len(others)].kind = "user") => Max(Users(others)) = Len(others)
  <1> DEFINE U == Users(others)
             N == Len(others)
  <1>1. N \in Nat /\ DOMAIN others = 1 .. N
    OBVIOUS
  <1>2. U \in SUBSET (0 .. N) /\ U \subseteq 1 .. N
    BY <1>1 DEF Users
  <1>3. (others # <<>> /\ others[N].kind = "user") => N \in U
    <2>1. others # <<>> => N \in 1 .. N
      BY <1>1
    <2> QED BY <1>1, <2>1 DEF Users
  <1> HIDE DEF U, N
  <1>4. Max(U) \in U /\ \A i \in U : i <= Max(U)
    BY <1>1, <1>2, Greatest DEF U
  <1>5. Max(U) \in 1 .. N
    BY <1>2, <1>4
  <1>6. N \in U => Max(U) = N
    <2>1. N \in U => N <= Max(U)
      BY <1>4
    <2> QED BY <1>1, <1>5, <2>1
  <1> QED BY <1>3, <1>5, <1>6 DEF U, N

LEMMA CutTaskFits ==
  ASSUME NEW N \in Nat, NEW task \in Pieces(N), NEW room \in Int
  PROVE  /\ CutTask(task, room) \in Pieces(N)
         /\ CutTask(task, room).id = task.id /\ CutTask(task, room).kind = "cut"
         /\ room > 0 => /\ CutTask(task, room).size > Mark
                        /\ CutTask(task, room).size <= room + Mark
  <1> DEFINE z == (IF room >= 0 THEN Smaller(task.size, room) ELSE NonNegative(task.size + room)) + Mark
             x == [task EXCEPT !.kind = "cut", !.size = z]
  <1>1. task.size \in Nat \ {0} /\ Mark \in Nat \ {0}
    BY Limits, PieceSize
  <1>2. z \in Nat \ {0} /\ (room > 0 => z > Mark /\ z <= room + Mark)
    BY <1>1 DEF Smaller, NonNegative, Larger
  <1>3. CutTask(task, room) = x
    BY DEF CutTask
  <1> HIDE DEF z
  <1>4. x \in Pieces(N) /\ x.id = task.id /\ x.kind = "cut" /\ x.size = z
    BY <1>2 DEF Pieces, Kinds
  <1> QED BY <1>2, <1>3, <1>4

\* What is locked is made of the parts it is given.
LEMMA LockedFits ==
  ASSUME NEW N \in Nat, NEW others \in Seq(Pieces(N)), NEW room \in Int
  PROVE  Locked(others, room) \in Seq(Pieces(N))
  <1> DEFINE users == Users(others)
             at == Max(users)
             task == others[at]
             fits == task.size + Pad <= room
             rest == Kept(others, DOMAIN others \ {at})
  <1>1. CASE users = {}
    <2>1. Locked(others, room) = Fitting(others, room)
      BY <1>1, Zenon DEF Locked
    <2> QED BY <2>1, FittingFits
  <1>2. CASE users # {}
    <2>1. at \in 1 .. Len(others) /\ task \in Pieces(N)
      <3>1. at \in 1 .. Len(others)
        BY <1>2, LatestUser
      <3> QED BY <3>1
    <2>2. CASE fits
      <3>1. Locked(others, room) = Append(Fitting(rest, room - task.size - Pad), task)
        BY <1>2, <2>2 DEF Locked
      <3>2. rest \in Seq(Pieces(N))
        <4>1. Len(others) \in Nat /\ \A n \in 1 .. Len(others) : others[n] \in Pieces(N)
          OBVIOUS
        <4> QED BY <4>1, KeptStays
      <3>3. room - task.size - Pad \in Int
        BY <2>1, PieceSize, Limits
      <3> HIDE DEF rest, task
      <3>4. Fitting(rest, room - task.size - Pad) \in Seq(Pieces(N))
        BY <3>2, <3>3, FittingFits
      <3> QED BY <2>1, <3>1, <3>4
    <2>3. CASE ~fits
      <3>1. Locked(others, room) = <<CutTask(task, room)>>
        BY <1>2, <2>3 DEF Locked
      <3>2. CutTask(task, room) \in Pieces(N)
        BY <2>1, CutTaskFits
      <3> QED BY <3>1, <3>2
    <2> QED BY <2>2, <2>3
  <1> QED BY <1>1, <1>2

\* With room, what is locked holds the task and leaves room for the hint.
LEMMA LockedHasTask ==
  ASSUME NEW N \in Nat, NEW others \in Seq(Pieces(N)), others # <<>>,
         others[Len(others)].kind = "user", NEW room \in Int, room > 0
  PROVE  /\ TextIn(others[Len(others)].id, Locked(others, room))
         /\ Sum(Locked(others, room), Sep) <= room + Mark + Sep
  <1> DEFINE M == Len(others)
             task == others[M]
             rest == Kept(others, DOMAIN others \ {M})
             left == room - task.size - Pad
  <1>1. M \in 1 .. M /\ task \in Pieces(N) /\ M \in Nat
    <2>1. M \in Nat \ {0}
      BY EmptySeq
    <2> QED BY <2>1
  <1>2. Users(others) # {} /\ Max(Users(others)) = M
    <2>1. M \in Users(others)
      BY <1>1 DEF Users
    <2> QED BY <2>1, LatestUser
  <1>3. /\ task.size \in Nat \ {0} /\ task \in Sized /\ task.kind # "cut"
        /\ Pad \in Nat /\ Sep \in Nat /\ Mark \in Nat /\ Sep <= Pad
    BY <1>1, PieceSize, Limits DEF Pieces, Sized
  <1>4. CASE task.size + Pad <= room
    <2>1. Locked(others, room) = Append(Fitting(rest, left), task)
      BY <1>2, <1>4 DEF Locked
    <2>2. rest \in Seq(Pieces(N))
      <3>1. Len(others) \in Nat /\ \A n \in 1 .. Len(others) : others[n] \in Pieces(N)
        OBVIOUS
      <3> QED BY <3>1, KeptStays
    <2>3. left \in Int /\ left >= 0 /\ left = room - task.size - Pad
      BY <1>3, <1>4
    <2> HIDE DEF rest, left, M
    <2>4. /\ Fitting(rest, left) \in Seq(Pieces(N)) /\ Fitting(rest, left) \in Seq(Sized)
          /\ Sum(Fitting(rest, left), Pad) <= left
      <3>1. Fitting(rest, left) \in Seq(Pieces(N)) /\ Reckoned(Fitting(rest, left)) <= left
        BY <2>2, <2>3, FittingFits
      <3> QED BY <3>1, PiecesSized DEF Reckoned
    <2>5. /\ Sum(Fitting(rest, left), Sep) <= Sum(Fitting(rest, left), Pad)
          /\ Sum(Fitting(rest, left), Sep) \in Nat /\ Sum(Fitting(rest, left), Pad) \in Nat
      BY <1>3, <2>4, SumWithMore, SumNatural
    <2>6. Sum(Append(Fitting(rest, left), task), Sep) = Sum(Fitting(rest, left), Sep) + task.size + Sep
      BY <1>3, <2>4, SumAppend
    <2>7. Sum(Locked(others, room), Sep) <= room + Mark + Sep
      <3> DEFINE t == task.size
                 a == Sum(Fitting(rest, left), Sep)
                 b == Sum(Fitting(rest, left), Pad)
                 d == Sum(Locked(others, room), Sep)
      <3>1. /\ t \in Nat /\ a \in Nat /\ b \in Nat /\ a <= b
            /\ Pad \in Nat /\ Sep \in Nat /\ Mark \in Nat /\ Sep <= Pad
        BY <1>3, <2>5
      <3>2. b <= room - t - Pad
        BY <2>3, <2>4
      <3>3. d = a + t + Sep
        BY <2>1, <2>6
      <3> HIDE DEF t, a, b, d
      <3>4. d <= room + Mark + Sep
        BY <3>1, <3>2, <3>3
      <3> QED BY <3>4 DEF d
    <2>8. TextIn(task.id, Append(Fitting(rest, left), task))
      <3> DEFINE q == Append(Fitting(rest, left), task)
      <3>1. Len(q) \in DOMAIN q /\ q[Len(q)] = task
        BY <1>1, <2>4
      <3> HIDE DEF q
      <3>2. q[Len(q)].id = task.id /\ q[Len(q)].size > (IF q[Len(q)].kind = "cut" THEN Mark ELSE 0)
        BY <1>3, <3>1
      <3> QED BY <3>1, <3>2 DEF TextIn, q
    <2> QED BY <2>1, <2>7, <2>8 DEF M
  <1>5. CASE ~(task.size + Pad <= room)
    <2> DEFINE x == CutTask(task, room)
    <2>1. Locked(others, room) = <<x>>
      BY <1>2, <1>5 DEF Locked
    <2>2. /\ x \in Pieces(N) /\ x.id = task.id /\ x.kind = "cut" /\ x.size > Mark
          /\ x.size <= room + Mark
      BY <1>1, CutTaskFits
    <2> HIDE DEF x, M
    <2>3. x \in Sized /\ x.size \in Nat
      BY <2>2 DEF Pieces, Sized
    <2>4. Sum(<<x>>, Sep) = x.size + Sep
      BY <1>3, <2>3, SumOne
    <2>5. Sum(Locked(others, room), Sep) <= room + Mark + Sep
      BY <1>3, <2>1, <2>2, <2>3, <2>4
    <2>6. TextIn(task.id, <<x>>)
      <3> DEFINE q == <<x>>
      <3>1. 1 \in DOMAIN q /\ q[1] = x
        OBVIOUS
      <3> HIDE DEF q
      <3>2. q[1].id = task.id /\ q[1].size > (IF q[1].kind = "cut" THEN Mark ELSE 0)
        BY <2>2, <3>1
      <3> QED BY <3>1, <3>2 DEF TextIn, q
    <2> QED BY <2>1, <2>5, <2>6 DEF M
  <1> QED BY <1>4, <1>5

LEMMA TextStays ==
  ASSUME NEW T, NEW a \in Seq(T), NEW b \in Seq(T), NEW id
  PROVE  /\ TextIn(id, a) => TextIn(id, a \o b)
         /\ TextIn(id, b) => TextIn(id, a \o b)
  <1> DEFINE c == a \o b
  <1>1. /\ c \in Seq(T) /\ Len(c) = Len(a) + Len(b)
        /\ \A i \in 1 .. Len(a) + Len(b) : c[i] = IF i <= Len(a) THEN a[i] ELSE b[i - Len(a)]
    BY ConcatProperties
  <1> HIDE DEF c
  <1>2. /\ Len(a) \in Nat /\ Len(b) \in Nat /\ DOMAIN a = 1 .. Len(a) /\ DOMAIN b = 1 .. Len(b)
        /\ DOMAIN c = 1 .. Len(a) + Len(b)
    BY <1>1
  <1>3. ASSUME TextIn(id, a) PROVE TextIn(id, c)
    <2>1. PICK i \in DOMAIN a : a[i].id = id /\ a[i].size > (IF a[i].kind = "cut" THEN Mark ELSE 0)
      BY <1>3 DEF TextIn
    <2>2. i \in DOMAIN c /\ c[i] = a[i]
      BY <1>1, <1>2
    <2> QED BY <2>1, <2>2 DEF TextIn
  <1>4. ASSUME TextIn(id, b) PROVE TextIn(id, c)
    <2>1. PICK i \in DOMAIN b : b[i].id = id /\ b[i].size > (IF b[i].kind = "cut" THEN Mark ELSE 0)
      BY <1>4 DEF TextIn
    <2> DEFINE j == Len(a) + i
    <2>2. j \in DOMAIN c /\ ~(j <= Len(a)) /\ j - Len(a) = i
      BY <1>2
    <2> HIDE DEF j
    <2>3. c[j] = b[i]
      BY <1>1, <1>2, <2>2
    <2> QED BY <2>1, <2>2, <2>3 DEF TextIn
  <1> QED BY <1>3, <1>4 DEF c

\* compress_content passes the gateway, whatever it is given.
LEMMA CompressFits ==
  ASSUME NEW N \in Nat, NEW parts \in Seq(Pieces(N)), ToolsKnown(parts)
  PROVE  /\ CompressContent(parts) \in Seq(Pieces(N)) /\ CompressContent(parts) # <<>>
         /\ Length(CompressContent(parts)) <= MaxLen
  <1> DEFINE tools == CompressedTools(parts)
             locked == Locked(Others(parts), Room(parts))
             hint == <<TheHint>>
             all == tools \o locked \o hint
  <1>1. tools \in Seq(Pieces(N))
    BY CompressedToolsFit
  <1>2. Room(parts) \in Int
    <2>1. Length(tools) \in Nat
      BY <1>1, PiecesSized, LengthOf
    <2> QED BY <2>1, Limits DEF Room
  <1>3. locked \in Seq(Pieces(N))
    <2>1. Others(parts) \in Seq(Pieces(N))
      BY SelectedFits DEF Others
    <2> QED BY <1>2, <2>1, LockedFits
  <1>4. hint \in Seq(Pieces(N)) /\ Len(hint) = 1
    BY HintIsPiece
  <1>5. CompressContent(parts) = HardCut(all)
    BY CompressIs
  <1> HIDE DEF tools, locked, hint
  <1>6. all \in Seq(Pieces(N)) /\ Len(all) \in Nat \ {0}
    <2>1. tools \o locked \in Seq(Pieces(N)) /\ Len(tools \o locked) \in Nat
      BY <1>1, <1>3
    <2> DEFINE q == tools \o locked
    <2>2. q \in Seq(Pieces(N)) /\ Len(q) \in Nat
      BY <2>1
    <2> HIDE DEF q
    <2>3. q \o hint \in Seq(Pieces(N)) /\ Len(q \o hint) = Len(q) + Len(hint)
      BY <1>4, <2>2, ConcatProperties
    <2>4. Len(q \o hint) \in Nat \ {0}
      BY <1>4, <2>2, <2>3
    <2> QED BY <2>3, <2>4 DEF q
  <1>7. all # <<>>
    <2> HIDE DEF all
    <2> QED BY <1>6, EmptySeq
  <1> HIDE DEF all
  <1> QED BY <1>5, <1>6, <1>7, HardCutFits

\* The tool description leaves no room for more than the hint.
Fills(parts) ==
  \E i \in 1 .. Len(parts) :
    parts[i].kind = "tools" /\ Compressed(parts[i]).size + Reserve >= MaxLen

\* compress_content keeps the latest message of the user if the tools leave any room.
LEMMA CompressKeepsTask ==
  ASSUME NEW N \in Nat, NEW parts \in Seq(Pieces(N)), ToolsKnown(parts), OneCatalogue(parts),
         NEW k \in 1 .. Len(parts), parts[k].kind = "user",
         \A j \in k + 1 .. Len(parts) : parts[j].kind = "hint", ~Fills(parts)
  PROVE  TextIn(parts[k].id, CompressContent(parts))
  <1> DEFINE tools == CompressedTools(parts)
             others == Others(parts)
             room == Room(parts)
             locked == Locked(others, room)
             hint == <<TheHint>>
             all == tools \o locked \o hint
  <1>1. /\ MaxLen \in Nat /\ Sep \in Nat /\ Hint \in Nat /\ Mark \in Nat /\ Reserve \in Nat
        /\ Hint + Mark + 2 * Sep <= Reserve /\ Reserve < MaxLen
    BY Limits, BudgetAssumption
  <1>2. /\ tools \in Seq(Pieces(N)) /\ tools \in Seq(Sized)
        /\ Length(tools) \in Nat /\ Sum(tools, Sep) <= Length(tools) + Sep /\ Sum(tools, Sep) \in Nat
    <2>1. tools \in Seq(Pieces(N))
      BY CompressedToolsFit
    <2>2. tools \in Seq(Sized)
      BY <2>1, PiecesSized
    <2> QED BY <1>1, <2>1, <2>2, LengthOf, SumNatural
  <1>3. Length(tools) < MaxLen - Reserve
    <2>1. CASE tools = <<>>
      <3>1. Length(tools) = 0
        BY <1>1, <2>1, SumEmpty DEF Length, NonNegative, Larger
      <3> QED BY <1>1, <3>1
    <2>2. CASE tools # <<>>
      <3>1. PICK i \in 1 .. Len(parts) : parts[i].kind = "tools" /\ tools = <<Compressed(parts[i])>>
        BY <2>2, CompressedToolsFit
      <3> DEFINE t == Compressed(parts[i])
      <3>2. t \in Pieces(N)
        <4>1. parts[i] \in Pieces(N) /\ parts[i].size \in DOMAIN Names
          BY <3>1 DEF ToolsKnown
        <4> QED BY <4>1, CompressedFits
      <3>3. ~(t.size + Reserve >= MaxLen)
        BY <3>1 DEF Fills
      <3> HIDE DEF t
      <3>4. t \in Sized /\ t.size \in Nat
        BY <3>2 DEF Pieces, Sized
      <3>5. Sum(<<t>>, Sep) = t.size + Sep
        BY <1>1, <3>4, SumOne
      <3>6. Length(<<t>>) = t.size
        BY <1>1, <3>4, <3>5 DEF Length, NonNegative, Larger
      <3> QED BY <1>1, <3>1, <3>3, <3>4, <3>6 DEF t
    <2> QED BY <2>1, <2>2
  <1>4. room \in Int /\ room > 0 /\ room = MaxLen - Length(tools) - Reserve
    <2>1. room = MaxLen - Length(tools) - Reserve
      BY DEF Room
    <2> HIDE DEF tools, room
    <2> QED BY <1>1, <1>2, <1>3, <2>1
  <1>5. /\ others \in Seq(Pieces(N)) /\ others # <<>>
        /\ others[Len(others)] = parts[k]
    <2> DEFINE K == {i \in DOMAIN parts : parts[i].kind \notin {"tools", "hint"}}
    <2>1. others = Kept(parts, K)
      BY DEF Others, Without
    <2>2. k \in K /\ \A j \in k + 1 .. Len(parts) : j \notin K
      OBVIOUS
    <2> HIDE DEF K
    <2>3. Kept(parts, K) # <<>> /\ Kept(parts, K)[Len(Kept(parts, K))] = parts[k]
      BY <2>2, KeptHas
    <2>4. others \in Seq(Pieces(N))
      BY SelectedFits DEF Others
    <2> QED BY <2>1, <2>3, <2>4
  <1> HIDE DEF others, room, tools
  <1>6. /\ TextIn(parts[k].id, locked)
        /\ Sum(locked, Sep) <= room + Mark + Sep
    BY <1>4, <1>5, LockedHasTask
  <1>7. locked \in Seq(Pieces(N)) /\ locked \in Seq(Sized)
    <2>1. locked \in Seq(Pieces(N))
      BY <1>4, <1>5, LockedFits
    <2> QED BY <2>1, PiecesSized
  <1>8. /\ hint \in Seq(Pieces(N)) /\ Len(hint) = 1 /\ hint \in Seq(Sized)
        /\ Sum(hint, Sep) = Hint + Sep
    <2>1. TheHint \in Pieces(N) /\ TheHint \in Sized /\ TheHint.size = Hint
      BY HintIsPiece
    <2>2. Sum(hint, Sep) = Hint + Sep
      BY <1>1, <2>1, SumOne
    <2> QED BY <2>1, <2>2
  <1> HIDE DEF locked, hint
  <1> DEFINE q == tools \o locked
  <1>9. q \in Seq(Pieces(N)) /\ q \in Seq(Sized) /\ Len(q) \in Nat
    <2>1. q \in Seq(Pieces(N))
      BY <1>2, <1>7
    <2> HIDE DEF q
    <2> QED BY <2>1, PiecesSized
  <1>10. Sum(q, Sep) = Sum(tools, Sep) + Sum(locked, Sep)
    BY <1>1, <1>2, <1>7, SumConcat
  <1>11. TextIn(parts[k].id, q)
    BY <1>2, <1>6, <1>7, TextStays
  <1>12. all = q \o hint
    OBVIOUS
  <1> HIDE DEF q, all
  <1>13. Sum(all, Sep) = Sum(q, Sep) + Hint + Sep
    <2>1. Sum(q \o hint, Sep) = Sum(q, Sep) + Sum(hint, Sep)
      BY <1>1, <1>8, <1>9, SumConcat
    <2>2. Sum(q, Sep) \in Nat
      BY <1>1, <1>9, SumNatural
    <2> QED BY <1>1, <1>8, <1>12, <2>1, <2>2
  <1>14. all \in Seq(Pieces(N)) /\ all \in Seq(Sized) /\ all # <<>>
    <2>a. q \o hint \in Seq(Pieces(N)) /\ Len(q \o hint) = Len(q) + Len(hint)
      BY <1>8, <1>9, ConcatProperties
    <2>1. all \in Seq(Pieces(N)) /\ Len(all) = Len(q) + 1
      BY <1>8, <1>12, <2>a
    <2>2. all # <<>>
      BY <1>9, <2>1, EmptySeq
    <2> QED BY <2>1, <2>2, PiecesSized
  <1>15. Length(all) <= MaxLen
    <2>1. Sum(locked, Sep) \in Nat
      BY <1>1, <1>7, SumNatural
    <2> DEFINE l == Length(tools)
               a == Sum(tools, Sep)
               b == Sum(locked, Sep)
    <2>2. l \in Nat /\ a \in Nat /\ a <= l + Sep /\ b <= room + Mark + Sep /\ room = MaxLen - l - Reserve
          /\ Sum(all, Sep) = a + b + Hint + Sep
      BY <1>2, <1>4, <1>6, <1>10, <1>13
    <2>3. b \in Nat
      BY <2>1
    <2> HIDE DEF l, a, b
    <2>4. a + b + Hint + Sep <= MaxLen + Sep
      BY <1>1, <2>2, <2>3
    <2> QED BY <1>1, <1>14, <2>2, <2>4, LengthOf
  <1>16. TextIn(parts[k].id, all)
    BY <1>8, <1>9, <1>11, <1>12, TextStays
  <1>17. CompressContent(parts) = HardCut(all)
    BY CompressIs DEF all, q, tools, locked, others, room, hint
  <1> QED BY <1>14, <1>15, <1>16, <1>17, HardCutFits

-----------------------------------------------------------------------------
(* build_content_with_refs.                                                *)

\* A set of numbers with a 0 in it: the greatest one.
LEMMA GreatestFit ==
  ASSUME NEW M \in Nat, NEW S, S \subseteq 0 .. M, 0 \in S
  PROVE  Max(S) \in S /\ Max(S) \in 0 .. M
  <1>1. S \in SUBSET (0 .. M) /\ S # {}
    OBVIOUS
  <1>2. Max(S) \in S
    BY <1>1, Greatest
  <1> QED BY <1>2

\* The messages kept are the last ones, and fit.
LEMMA RecentFits ==
  ASSUME NEW T, NEW messages \in Seq(T), NEW budget
  PROVE  /\ Recent(messages, budget) \in Seq(T)
         /\ Len(Recent(messages, budget)) <= Len(messages)
         /\ Recent(messages, budget) # <<>> =>
              /\ Reckoned(Recent(messages, budget)) <= budget
              /\ messages # <<>>
              /\ Recent(messages, budget)[Len(Recent(messages, budget))] = messages[Len(messages)]
  <1> DEFINE M == Len(messages)
             end(n) == SubSeq(messages, M - n + 1, M)
             fits == {n \in 0 .. M : n = 0 \/ Reckoned(end(n)) <= budget}
             n == Max(fits)
             q == end(n)
             m == M - n + 1
  <1>1. M \in Nat /\ \A i \in 1 .. M : messages[i] \in T
    OBVIOUS
  <1>2. Recent(messages, budget) = q
    BY DEF Recent
  <1>3. n \in fits /\ n \in 0 .. M
    <2>1. fits \subseteq 0 .. M /\ 0 \in fits
      BY <1>1
    <2> HIDE DEF fits
    <2> QED BY <1>1, <2>1, GreatestFit
  <1>4. n = 0 \/ Reckoned(q) <= budget
    <2>1. \A i \in fits : i = 0 \/ Reckoned(end(i)) <= budget
      OBVIOUS
    <2> HIDE DEF fits, end
    <2> QED BY <1>3, <2>1
  <1> HIDE DEF n, M
  <1>5. m \in Int /\ M \in Int /\ M - m + 1 = n /\ (m <= M => M - m + 1 = n)
        /\ (~(m <= M) => n = 0) /\ \A i \in m .. M : messages[i] \in T
    <2>1. \A i \in m .. M : i \in 1 .. M
      BY <1>1, <1>3
    <2> QED BY <1>1, <1>3, <2>1
  <1>6. q = SubSeq(messages, m, M)
    OBVIOUS
  <1> HIDE DEF m, q
  <1>7. /\ q \in Seq(T) /\ Len(q) = n
        /\ \A i \in 1 .. n : q[i] = messages[m + i - 1]
    <2> DEFINE u == SubSeq(messages, m, M)
    <2>1. /\ u \in Seq(T) /\ Len(u) = (IF m <= M THEN M - m + 1 ELSE 0)
          /\ \A i \in 1 .. M - m + 1 : u[i] = messages[m + i - 1]
      BY <1>5, SubSeqProperties
    <2> HIDE DEF u
    <2>2. u = q
      BY <1>6 DEF u
    <2> QED BY <1>5, <2>1, <2>2
  <1>8. ASSUME q # <<>> PROVE Reckoned(q) <= budget /\ messages # <<>> /\ q[Len(q)] = messages[M]
    <2>1. n \in Nat \ {0} /\ n \in 1 .. n
      BY <1>7, <1>8, EmptySeq
    <2>2. m + n - 1 = M
      BY <1>1, <1>3 DEF m
    <2>3. q[n] = messages[m + n - 1]
      BY <1>7, <2>1
    <2>4. q[n] = messages[M]
      BY <2>2, <2>3
    <2>5. messages # <<>>
      <3>1. M # 0
        BY <1>1, <1>3, <2>1
      <3>2. Len(<<>>) = 0
        BY EmptySeq
      <3> QED BY <3>1, <3>2 DEF M
    <2> QED BY <1>4, <1>7, <2>1, <2>4, <2>5
  <1>9. Len(q) <= M
    BY <1>1, <1>3, <1>7
  <1> QED BY <1>2, <1>7, <1>8, <1>9 DEF M

\* What is pinned are older messages, and fits.
LEMMA PinnedFits ==
  ASSUME NEW N \in Nat, NEW T, T \subseteq Pieces(N), NEW critical \in Seq(T), NEW budget
  PROVE  /\ Pinned(critical, budget) \in Seq(T)
         /\ Pinned(critical, budget) # <<>> => Reckoned(Pinned(critical, budget)) <= budget
  <1> DEFINE M == Len(critical)
             first(n) == SubSeq(critical, 1, n)
             fits == {n \in 0 .. M : n = 0 \/ Reckoned(first(n)) <= budget}
             n == Max(fits)
             q == first(n)
  <1>1. M \in Nat /\ \A i \in 1 .. M : critical[i] \in T
    OBVIOUS
  <1>2. Pinned(critical, budget) = Reverse(q)
    BY DEF Pinned
  <1>3. n \in fits /\ n \in 0 .. M
    <2>1. fits \subseteq 0 .. M /\ 0 \in fits
      BY <1>1
    <2> HIDE DEF fits
    <2> QED BY <1>1, <2>1, GreatestFit
  <1>4. n = 0 \/ Reckoned(q) <= budget
    <2>1. \A i \in fits : i = 0 \/ Reckoned(first(i)) <= budget
      OBVIOUS
    <2> HIDE DEF fits, first
    <2> QED BY <1>3, <2>1
  <1> HIDE DEF n, M
  <1>5. q \in Seq(T) /\ Len(q) = n
    <2> DEFINE u == SubSeq(critical, 1, n)
    <2>1. n \in Int /\ 1 \in Int /\ \A i \in 1 .. n : critical[i] \in T
      BY <1>1, <1>3
    <2>2. u \in Seq(T) /\ Len(u) = (IF 1 <= n THEN n - 1 + 1 ELSE 0)
      BY <2>1, SubSeqProperties
    <2> HIDE DEF u
    <2>3. Len(u) = n
      BY <1>1, <1>3, <2>2
    <2> QED BY <2>2, <2>3 DEF u
  <1> HIDE DEF q
  <1>6. Reverse(q) \in Seq(T) /\ Len(Reverse(q)) = n
    BY <1>5, Reversed
  <1>7. Reckoned(Reverse(q)) = Reckoned(q)
    <2>1. Pieces(N) \subseteq Sized
      BY DEF Pieces, Sized
    <2>2. q \in Seq(Sized)
      BY <1>5, <2>1, SeqMonotonic
    <2> QED BY <2>2, Limits, SumReverse DEF Reckoned
  <1>8. Reverse(q) # <<>> => n # 0
    BY <1>6, EmptySeq
  <1> QED BY <1>2, <1>4, <1>6, <1>7, <1>8

\* The parts of BuildContentWithRefs.
Messages(parts) == Of(parts, {"user", "assistant"})
RecentPart(parts) == Recent(Messages(parts), RefsBudget(parts))
OlderPart(parts) == SubSeq(Messages(parts), 1, Len(Messages(parts)) - Len(RecentPart(parts)))
Criticals(older) == {i \in DOMAIN older : older[i].critical}
PinnedPart(parts) ==
  Pinned(Kept(OlderPart(parts), Criticals(OlderPart(parts))), RefsBudget(parts) - Reckoned(RecentPart(parts)))
OldPart(parts) == Kept(OlderPart(parts), DOMAIN OlderPart(parts) \ Criticals(OlderPart(parts)))
KeptPart(parts) == SystemOf(parts) \o PinnedPart(parts) \o RecentPart(parts) \o <<TheHint>>

LEMMA BuildIs ==
  ASSUME NEW parts
  PROVE  BuildContentWithRefs(parts) =
           IF OldPart(parts) = <<>> \/ PinnedPart(parts) \o RecentPart(parts) = <<>>
           THEN [content |-> CompressContent(parts), references |-> <<>>]
           ELSE [content |-> IF Length(KeptPart(parts)) > MaxLen
                             THEN CompressContent(KeptPart(parts)) ELSE KeptPart(parts),
                 references |-> OldPart(parts)]
BY Zenon DEF BuildContentWithRefs, KeptPart, OldPart, PinnedPart, Criticals, OlderPart, RecentPart,
             Messages

\* A content that is not empty has a length.
LEMMA LengthPositive ==
  ASSUME NEW N \in Nat, NEW s \in Seq(Pieces(N)), s # <<>>
  PROVE  Length(s) \in Nat \ {0}
  <1>1. s \in Seq(Sized) /\ Sep \in Nat \ {0}
    BY PiecesSized, Limits
  <1>2. PICK f \in SumSoFar(s, Sep) : Sum(s, Sep) = f[Len(s)]
    BY <1>1, SumSteps
  <1>3. Len(s) \in Nat \ {0} /\ Len(s) \in 1 .. Len(s) /\ Len(s) - 1 \in 0 .. Len(s)
    BY EmptySeq
  <1>4. f[Len(s) - 1] \in Nat /\ f[Len(s)] = f[Len(s) - 1] + s[Len(s)].size + Sep
    BY <1>3 DEF SumSoFar
  <1>5. s[Len(s)].size \in Nat \ {0}
    <2>1. s[Len(s)] \in Pieces(N)
      BY <1>3
    <2> QED BY <2>1, PieceSize
  <1>6. Sum(s, Sep) - Sep \in Nat \ {0}
    BY <1>1, <1>2, <1>4, <1>5
  <1> QED BY <1>6 DEF Length, NonNegative, Larger

\* A system part may be compressed by itself.
LEMMA CompressedSystemFits ==
  ASSUME NEW N \in Nat, NEW p \in Pieces(N), p.kind = "tools" => p.size \in DOMAIN Names
  PROVE  CompressedSystem(p) \in Pieces(N)
  <1>1. CASE p.kind # "tools" \/ p.size <= LargeTools \/ Names[p.size] >= MaxLen - Margin
    BY <1>1 DEF CompressedSystem
  <1>2. CASE ~(p.kind # "tools" \/ p.size <= LargeTools \/ Names[p.size] >= MaxLen - Margin)
    <2> DEFINE s == <<p>>
               z == Length(CompressContent(s))
    <2>1. s \in Seq(Pieces(N)) /\ Len(s) = 1 /\ s[1] = p
      OBVIOUS
    <2> HIDE DEF s
    <2>2. ToolsKnown(s)
      BY <2>1 DEF ToolsKnown
    <2>3. CompressContent(s) \in Seq(Pieces(N)) /\ CompressContent(s) # <<>>
      BY <2>1, <2>2, CompressFits
    <2>4. z \in Nat \ {0}
      BY <2>3, LengthPositive
    <2>5. CompressedSystem(p) = [p EXCEPT !.kind = "system", !.size = z]
      BY <1>2 DEF CompressedSystem, s
    <2> HIDE DEF z
    <2> QED BY <2>4, <2>5 DEF Pieces, Kinds
  <1> QED BY <1>1, <1>2

\* The messages of parts.
Spoken(N, parts) ==
  {p \in Pieces(N) : p.kind \in {"user", "assistant"} /\ \E i \in 1 .. Len(parts) : p = parts[i]}

\* What is known of a conversation that is sent: its latest message is the user's, and
\* nothing but hints follows it.
Asked(N, parts, k) ==
  /\ parts \in Seq(Pieces(N)) /\ ToolsKnown(parts) /\ OneCatalogue(parts)
  /\ k \in 1 .. Len(parts) /\ parts[k].kind = "user"
  /\ \A j \in k + 1 .. Len(parts) : parts[j].kind = "hint"

LEMMA MessagesFit ==
  ASSUME NEW N \in Nat, NEW parts, NEW k, Asked(N, parts, k)
  PROVE  /\ Messages(parts) \in Seq(Spoken(N, parts))
         /\ Messages(parts)[Len(Messages(parts))] = parts[k]
  <1> DEFINE K == {i \in DOMAIN parts : parts[i].kind \in {"user", "assistant"}}
             T == Spoken(N, parts)
  <1>1. /\ parts \in Seq(Pieces(N)) /\ k \in 1 .. Len(parts) /\ parts[k].kind = "user"
        /\ \A j \in k + 1 .. Len(parts) : parts[j].kind = "hint"
    BY DEF Asked
  <1>2. Messages(parts) = Kept(parts, K)
    BY DEF Messages, Of
  <1>3. Len(parts) \in Nat /\ \A n \in 1 .. Len(parts) : n \in K => parts[n] \in T
    BY <1>1 DEF Spoken
  <1>4. k \in K /\ \A j \in k + 1 .. Len(parts) : j \notin K
    BY <1>1
  <1> HIDE DEF K, T
  <1>5. Kept(parts, K) \in Seq(T)
    BY <1>3, KeptStays
  <1>6. Kept(parts, K)[Len(Kept(parts, K))] = parts[k]
    BY <1>1, <1>4, KeptHas
  <1> QED BY <1>2, <1>5, <1>6 DEF T

\* What is kept of the messages, and what is not.
LEMMA OlderFits ==
  ASSUME NEW N \in Nat, NEW parts, NEW k, Asked(N, parts, k)
  PROVE  /\ RecentPart(parts) \in Seq(Spoken(N, parts))
         /\ OlderPart(parts) \in Seq(Spoken(N, parts))
  <1> DEFINE T == Spoken(N, parts)
             older == OlderPart(parts)
  <1>1. Messages(parts) \in Seq(T)
    BY MessagesFit
  <1>2. /\ RecentPart(parts) \in Seq(T)
        /\ Len(RecentPart(parts)) <= Len(Messages(parts))
    <2> HIDE DEF T
    <2> QED BY <1>1, RecentFits DEF RecentPart
  <1>3. older \in Seq(T)
    <2> DEFINE s == Messages(parts)
               n == Len(s) - Len(RecentPart(parts))
    <2>1. Len(s) \in Nat /\ Len(RecentPart(parts)) \in Nat /\ n \in Int /\ n <= Len(s)
      BY <1>1, <1>2
    <2>2. older = SubSeq(s, 1, n)
      BY DEF OlderPart
    <2> HIDE DEF n, T
    <2>3. \A i \in 1 .. n : s[i] \in T
      BY <1>1, <2>1
    <2> HIDE DEF s
    <2>4. SubSeq(s, 1, n) \in Seq(T)
      BY <2>1, <2>3, SubSeqProperties
    <2> QED BY <2>2, <2>4
  <1> QED BY <1>2, <1>3

\* The parts of what is kept; only messages are pinned or referred to.
LEMMA KeptParts ==
  ASSUME NEW N \in Nat, NEW parts, NEW k, Asked(N, parts, k)
  PROVE  /\ SystemOf(parts) \in Seq(Pieces(N))
         /\ RecentPart(parts) \in Seq(Spoken(N, parts))
         /\ PinnedPart(parts) \in Seq({p \in Spoken(N, parts) : p.critical})
         /\ OldPart(parts) \in Seq(Spoken(N, parts))
  <1> DEFINE T == Spoken(N, parts)
             C == {p \in T : p.critical}
             all == Of(parts, {"system", "tools"})
             older == OlderPart(parts)
             K == Criticals(older)
             L == DOMAIN older \ K
  <1>1. parts \in Seq(Pieces(N)) /\ ToolsKnown(parts)
    BY DEF Asked
  <1>2. SystemOf(parts) \in Seq(Pieces(N))
    <2> DEFINE S == {p \in Pieces(N) : p.kind = "tools" => p.size \in DOMAIN Names}
               I == {i \in DOMAIN parts : parts[i].kind \in {"system", "tools"}}
    <2>1. Len(parts) \in Nat /\ \A n \in 1 .. Len(parts) : n \in I => parts[n] \in S
      BY <1>1 DEF ToolsKnown
    <2>2. all = Kept(parts, I)
      BY DEF Of
    <2> HIDE DEF S, I, all
    <2>3. all \in Seq(S)
      BY <2>1, <2>2, KeptStays
    <2>4. Len(all) \in Nat /\ DOMAIN all = 1 .. Len(all) /\ \A i \in 1 .. Len(all) : all[i] \in S
      BY <2>3
    <2>5. \A p \in S : CompressedSystem(p) \in Pieces(N)
      BY CompressedSystemFits DEF S
    <2>6. SystemOf(parts) = [i \in 1 .. Len(all) |-> CompressedSystem(all[i])]
      BY <2>4 DEF SystemOf, all
    <2> QED BY <2>4, <2>5, <2>6
  <1>4. RecentPart(parts) \in Seq(T)
    BY OlderFits
  <1>5. older \in Seq(T)
    BY OlderFits
  <1> HIDE DEF older
  <1>6. /\ Len(older) \in Nat /\ DOMAIN older = 1 .. Len(older)
        /\ \A n \in 1 .. Len(older) : older[n] \in T
    BY <1>5
  <1>7. \A n \in 1 .. Len(older) : n \in K => older[n] \in C
    BY <1>6 DEF Criticals
  <1>8. T \subseteq Pieces(N) /\ C \subseteq Pieces(N)
    BY DEF Spoken
  <1> HIDE DEF K, T, C
  <1>9. Kept(older, K) \in Seq(C)
    BY <1>6, <1>7, KeptStays
  <1>10. Kept(older, L) \in Seq(T)
    <2> HIDE DEF L
    <2> QED BY <1>6, KeptStays
  <1>11. PinnedPart(parts) \in Seq(C)
    <2>1. PinnedPart(parts) = Pinned(Kept(older, K), RefsBudget(parts) - Reckoned(RecentPart(parts)))
      BY DEF PinnedPart, older, K
    <2> QED BY <1>8, <1>9, <2>1, PinnedFits
  <1>12. OldPart(parts) \in Seq(T)
    BY <1>10 DEF OldPart, older, K
  <1> QED BY <1>2, <1>4, <1>11, <1>12 DEF T, C

\* What is kept fits, so that it never needs the second compression.
LEMMA KeptPartFits ==
  ASSUME NEW N \in Nat, NEW parts, NEW k, Asked(N, parts, k),
         PinnedPart(parts) \o RecentPart(parts) # <<>>
  PROVE  KeptPart(parts) \in Seq(Pieces(N)) /\ Length(KeptPart(parts)) <= MaxLen
  <1> DEFINE system == SystemOf(parts)
             pinned == PinnedPart(parts)
             recent == RecentPart(parts)
             hint == <<TheHint>>
             budget == RefsBudget(parts)
             P == Pieces(N)
  <1>1. /\ MaxLen \in Nat /\ Sep \in Nat /\ Hint \in Nat /\ Reserve \in Nat /\ Pad \in Nat
        /\ Sep <= Pad
    BY Limits
  <1>2. /\ system \in Seq(P) /\ pinned \in Seq(P) /\ recent \in Seq(P) /\ hint \in Seq(P)
        /\ pinned \in Seq({p \in Spoken(N, parts) : p.critical})
    <2>1. Spoken(N, parts) \subseteq P /\ {p \in Spoken(N, parts) : p.critical} \subseteq P
      BY DEF Spoken
    <2>2. /\ system \in Seq(P) /\ recent \in Seq(Spoken(N, parts))
          /\ pinned \in Seq({p \in Spoken(N, parts) : p.critical})
      BY KeptParts
    <2>3. hint \in Seq(P)
      BY HintIsPiece
    <2> HIDE DEF system, recent, pinned, hint, P
    <2> QED BY <2>1, <2>2, <2>3, SeqMonotonic
  <1>3. recent # <<>> => Reckoned(recent) <= budget
    <2>1. Messages(parts) \in Seq(Spoken(N, parts))
      BY MessagesFit
    <2> QED BY <2>1, RecentFits DEF RecentPart
  <1>4. pinned # <<>> => Reckoned(pinned) <= budget - Reckoned(recent)
    <2> DEFINE C == {p \in Spoken(N, parts) : p.critical}
               s == Kept(OlderPart(parts), Criticals(OlderPart(parts)))
    <2>1. C \subseteq P
      BY DEF Spoken
    <2>2. s \in Seq(C)
      <3> DEFINE T == Spoken(N, parts)
                 older == OlderPart(parts)
                 K == Criticals(older)
      <3>1. older \in Seq(T)
        BY OlderFits
      <3>2. \A n \in 1 .. Len(older) : n \in K => older[n] \in C
        BY <3>1 DEF Criticals
      <3> HIDE DEF K, C
      <3> QED BY <3>1, <3>2, KeptStays DEF K
    <2>3. pinned = Pinned(s, budget - Reckoned(recent))
      BY DEF PinnedPart
    <2> HIDE DEF C, s, P, pinned
    <2> QED BY <2>1, <2>2, <2>3, PinnedFits DEF P
  <1>5. pinned # <<>> \/ recent # <<>>
    <2>1. <<>> \o <<>> = <<>>
      BY <1>2, ConcatEmptySeq, EmptySeq
    <2> QED BY <2>1
  <1>6. budget = MaxLen - Sum(system, Sep) - Hint - Pad - Reserve
    BY DEF RefsBudget
  <1>7. KeptPart(parts) = system \o pinned \o recent \o hint
    BY DEF KeptPart
  <1> HIDE DEF system, pinned, recent, hint, budget
  <1> DEFINE a == system \o pinned
             b == a \o recent
             c == b \o hint
  <1>8. a \in Seq(P)
    BY <1>2
  <1> HIDE DEF a
  <1>9. b \in Seq(P)
    BY <1>2, <1>8
  <1> HIDE DEF b
  <1>10. c \in Seq(P)
    BY <1>2, <1>9
  <1>11. \A s \in Seq(P) : s \in Seq(Sized)
    BY PiecesSized
  <1> HIDE DEF P
  <1>12. /\ Sum(a, Sep) = Sum(system, Sep) + Sum(pinned, Sep)
         /\ Sum(b, Sep) = Sum(a, Sep) + Sum(recent, Sep)
         /\ Sum(c, Sep) = Sum(b, Sep) + Sum(hint, Sep)
    <2>1. Sum(a, Sep) = Sum(system, Sep) + Sum(pinned, Sep)
      BY <1>1, <1>2, <1>11, SumConcat DEF a
    <2>2. Sum(b, Sep) = Sum(a, Sep) + Sum(recent, Sep)
      BY <1>1, <1>2, <1>8, <1>11, SumConcat DEF b
    <2>3. Sum(c, Sep) = Sum(b, Sep) + Sum(hint, Sep)
      BY <1>1, <1>2, <1>9, <1>11, SumConcat
    <2> QED BY <2>1, <2>2, <2>3
  <1> HIDE DEF c
  <1>13. Sum(hint, Sep) = Hint + Sep
    BY <1>1, HintIsPiece, SumOne DEF hint
  <1> DEFINE x == Sum(system, Sep)
             y == Sum(pinned, Sep)
             z == Sum(recent, Sep)
             yy == Reckoned(pinned)
             zz == Reckoned(recent)
  <1>14. x \in Nat /\ y \in Nat /\ z \in Nat /\ yy \in Nat /\ zz \in Nat /\ y <= yy /\ z <= zz
    <2>1. system \in Seq(Sized) /\ pinned \in Seq(Sized) /\ recent \in Seq(Sized)
      BY <1>2, <1>11
    <2>2. x \in Nat /\ y \in Nat /\ z \in Nat
      BY <1>1, <2>1, SumNatural
    <2>3. yy \in Nat /\ zz \in Nat
      BY <1>1, <2>1, SumNatural DEF Reckoned
    <2>4. y <= yy /\ z <= zz
      BY <1>1, <2>1, SumWithMore DEF Reckoned
    <2> QED BY <2>2, <2>3, <2>4
  <1>15. (pinned = <<>> => yy = 0) /\ (recent = <<>> => zz = 0)
    BY <1>1, SumEmpty DEF Reckoned
  <1>16. Sum(c, Sep) = x + y + z + Hint + Sep
    <2>1. Sum(c, Sep) = x + y + z + (Hint + Sep)
      BY <1>12, <1>13
    <2> HIDE DEF x, y, z
    <2> QED BY <1>1, <1>14, <2>1
  <1> HIDE DEF x, y, z, yy, zz
  <1>17. yy + zz <= MaxLen - x - Hint - Pad - Reserve
    <2>1. budget = MaxLen - x - Hint - Pad - Reserve
      BY <1>6 DEF x
    <2>2. CASE pinned # <<>>
      <3>1. yy <= budget - zz
        BY <1>4, <2>2 DEF yy, zz
      <3> QED BY <1>1, <1>14, <2>1, <3>1
    <2>3. CASE pinned = <<>>
      <3>1. zz <= budget /\ yy = 0
        BY <1>3, <1>5, <1>15, <2>3 DEF zz
      <3> QED BY <1>1, <1>14, <2>1, <3>1
    <2> QED BY <2>2, <2>3
  <1>18. Sum(c, Sep) <= MaxLen + Sep
    <2>1. x + y + z + Hint + Sep <= MaxLen + Sep
      BY <1>1, <1>14, <1>17
    <2> QED BY <1>16, <2>1
  <1>19. Length(c) <= MaxLen
    BY <1>1, <1>10, <1>11, <1>18, LengthOf
  <1>20. KeptPart(parts) = c
    BY <1>7 DEF a, b, c
  <1> QED BY <1>10, <1>19, <1>20 DEF P

\* What is promised of a request that is built from parts for the message at k, if
\* messages have that budget beside the system parts.
Built(N, parts, k, budget, b) ==
  /\ b.content \in Seq(Pieces(N))
  /\ Length(b.content) <= MaxLen
  /\ b.references \in Seq(Spoken(N, parts))
  /\ \/ TextIn(parts[k].id, b.content)
     \/ b.references = <<>> /\ Fills(parts)
     \/ b.references # <<>> /\ parts[k].size + Pad > budget
     \/ Len(parts) = 1 /\ parts[1].size > MaxLen /\ b.content = <<TheHint>>

LEMMA CompressIsBuilt ==
  ASSUME NEW N \in Nat, NEW parts, NEW k, Asked(N, parts, k), NEW budget
  PROVE  Built(N, parts, k, budget, [content |-> CompressContent(parts), references |-> <<>>])
  <1> DEFINE c == CompressContent(parts)
             b == [content |-> c, references |-> <<>>]
  <1>1. /\ parts \in Seq(Pieces(N)) /\ ToolsKnown(parts) /\ OneCatalogue(parts)
        /\ k \in 1 .. Len(parts) /\ parts[k].kind = "user"
        /\ \A j \in k + 1 .. Len(parts) : parts[j].kind = "hint"
    BY DEF Asked
  <1>2. c \in Seq(Pieces(N)) /\ Length(c) <= MaxLen
    BY <1>1, CompressFits
  <1>3. ~Fills(parts) => TextIn(parts[k].id, c)
    BY <1>1, CompressKeepsTask
  <1> HIDE DEF c
  <1>4. b.content = c /\ b.references = <<>>
    OBVIOUS
  <1>5. <<>> \in Seq(Spoken(N, parts))
    BY EmptySeq
  <1> HIDE DEF b
  <1>6. Built(N, parts, k, budget, b)
    BY <1>2, <1>3, <1>4, <1>5 DEF Built
  <1> QED BY <1>6 DEF b, c

\* If nothing is kept, the last message alone does not fit.
LEMMA NothingRecent ==
  ASSUME NEW N \in Nat, NEW messages \in Seq(Pieces(N)), messages # <<>>, NEW budget \in Int,
         Recent(messages, budget) = <<>>
  PROVE  messages[Len(messages)].size + Pad > budget
  <1> DEFINE M == Len(messages)
             x == messages[M]
             end(n) == SubSeq(messages, M - n + 1, M)
             fits == {n \in 0 .. M : n = 0 \/ Reckoned(end(n)) <= budget}
             n == Max(fits)
  <1>1. M \in Nat \ {0} /\ x \in Pieces(N) /\ \A i \in 1 .. M : messages[i] \in Pieces(N)
    BY EmptySeq
  <1>2. x \in Sized /\ x.size \in Nat /\ Pad \in Nat
    BY <1>1, PieceSize, Limits DEF Pieces, Sized
  <1> SUFFICES ASSUME x.size + Pad <= budget PROVE FALSE
    BY <1>2
  <1>3. Recent(messages, budget) = end(n)
    BY DEF Recent
  <1>4. end(1) = <<x>>
    <2> DEFINE u == SubSeq(messages, M, M)
    <2>1. /\ u \in Seq(Pieces(N)) /\ Len(u) = (IF M <= M THEN M - M + 1 ELSE 0)
          /\ \A i \in 1 .. M - M + 1 : u[i] = messages[M + i - 1]
      BY <1>1, SubSeqProperties
    <2> HIDE DEF u
    <2>2. Len(u) = 1 /\ u[1] = messages[M + 1 - 1] /\ M + 1 - 1 = M
      BY <1>1, <2>1
    <2>3. u = <<u[1]>>
      BY <2>1, <2>2, Single
    <2>4. M - 1 + 1 = M
      BY <1>1
    <2> QED BY <2>2, <2>3, <2>4 DEF u
  <1>5. Reckoned(end(1)) <= budget
    BY <1>2, <1>4, SumOne DEF Reckoned
  <1>6. fits \in SUBSET (0 .. M) /\ 1 \in fits
    BY <1>1, <1>5
  <1> HIDE DEF fits
  <1>7. n \in 1 .. M
    <2>1. n \in fits /\ 1 <= n
      BY <1>1, <1>6, Greatest
    <2>2. n \in 0 .. M
      BY <1>6, <2>1
    <2> HIDE DEF n, M
    <2> QED BY <1>1, <2>1, <2>2
  <1> HIDE DEF n
  <1> DEFINE m == M - n + 1
  <1>8. m \in Int /\ M \in Int /\ m <= M /\ M - m + 1 = n /\ \A i \in m .. M : messages[i] \in Pieces(N)
    <2>1. \A i \in m .. M : i \in 1 .. M
      BY <1>1, <1>7
    <2> QED BY <1>1, <1>7, <2>1
  <1> HIDE DEF m, M
  <1>9. Len(SubSeq(messages, m, M)) = n
    BY <1>8, SubSeqProperties
  <1>10. SubSeq(messages, m, M) = <<>>
    BY <1>3 DEF m
  <1> QED BY <1>7, <1>9, <1>10, EmptySeq

LEMMA BudgetIsInt ==
  ASSUME NEW N \in Nat, NEW parts, SystemOf(parts) \in Seq(Pieces(N))
  PROVE  RefsBudget(parts) \in Int
  <1>1. Sum(SystemOf(parts), Sep) \in Nat
    BY PiecesSized, Limits, SumNatural
  <1> QED BY <1>1, Limits DEF RefsBudget

LEMMA EmptyKept == \A K : Kept(<<>>, K) = <<>>
  <1> SUFFICES ASSUME NEW K PROVE Kept(<<>>, K) = <<>>
    OBVIOUS
  <1>1. <<>> \in Seq({}) /\ Len(<<>>) = 0
    BY EmptySeq
  <1>2. Kept(<<>>, K) \in Seq({})
    BY <1>1, KeptStays
  <1> QED BY <1>2, EmptySeq

LEMMA RefsBuilt ==
  ASSUME NEW N \in Nat, NEW parts, NEW k, Asked(N, parts, k)
  PROVE  Built(N, parts, k, RefsBudget(parts), BuildContentWithRefs(parts))
  <1> DEFINE system == SystemOf(parts)
             pinned == PinnedPart(parts)
             recent == RecentPart(parts)
             hint == <<TheHint>>
             kept == KeptPart(parts)
             old == OldPart(parts)
             P == Pieces(N)
             T == Spoken(N, parts)
             C == {p \in T : p.critical}
             budget == RefsBudget(parts)
  <1>1. CASE old = <<>> \/ pinned \o recent = <<>>
    <2>1. BuildContentWithRefs(parts) = [content |-> CompressContent(parts), references |-> <<>>]
      BY <1>1, BuildIs
    <2> QED BY <2>1, CompressIsBuilt
  <1>2. CASE ~(old = <<>> \/ pinned \o recent = <<>>)
    <2>1. pinned \o recent # <<>>
      BY <1>2
    <2>2. kept \in Seq(P) /\ Length(kept) <= MaxLen
      BY <2>1, KeptPartFits
    <2>3. Length(kept) \in Nat /\ MaxLen \in Nat
      BY <2>2, PiecesSized, LengthOf, Limits
    <2>4. ~(Length(kept) > MaxLen)
      <3> DEFINE l == Length(kept)
      <3>1. l \in Nat /\ MaxLen \in Nat /\ l <= MaxLen
        BY <2>2, <2>3
      <3> HIDE DEF l
      <3>2. ~(l > MaxLen)
        BY <3>1
      <3> QED BY <3>2 DEF l
    <2>5. BuildContentWithRefs(parts) = [content |-> kept, references |-> old]
      <3>1. BuildContentWithRefs(parts) =
              IF old = <<>> \/ pinned \o recent = <<>>
              THEN [content |-> CompressContent(parts), references |-> <<>>]
              ELSE [content |-> IF Length(kept) > MaxLen THEN CompressContent(kept) ELSE kept,
                    references |-> old]
        BY BuildIs
      <3> HIDE DEF kept, old, pinned, recent
      <3> QED BY <1>2, <2>4, <3>1
    <2>6. old \in Seq(T) /\ system \in Seq(P) /\ pinned \in Seq(C) /\ recent \in Seq(T)
      BY KeptParts
    <2>7. T \subseteq P /\ C \subseteq P
      BY DEF Spoken
    <2>8. hint \in Seq(P)
      BY HintIsPiece
    <2>9. recent # <<>> => recent[Len(recent)] = parts[k]
      <3>1. Messages(parts) \in Seq(T) /\ Messages(parts)[Len(Messages(parts))] = parts[k]
        BY MessagesFit
      <3> HIDE DEF T
      <3> QED BY <3>1, RecentFits DEF RecentPart
    <2>10. kept = system \o pinned \o recent \o hint
      BY DEF KeptPart
    <2>11. parts[k].kind = "user" /\ parts[k] \in P
      BY DEF Asked
    <2> HIDE DEF system, pinned, recent, hint, kept, old
    <2>12. pinned \in Seq(P) /\ recent \in Seq(P)
      <3> HIDE DEF P, T, C
      <3> QED BY <2>6, <2>7, SeqMonotonic
    <2> DEFINE a == system \o pinned
               b == a \o recent
               id == parts[k].id
    <2>13. a \in Seq(P)
      BY <2>6, <2>12
    <2>14. CASE recent # <<>>
      <3>1. TextIn(id, recent)
        <4>1. Len(recent) \in DOMAIN recent /\ recent[Len(recent)] = parts[k]
          BY <2>9, <2>12, <2>14, EmptySeq
        <4>2. parts[k].size > 0 /\ parts[k].kind # "cut"
          BY <2>11, PieceSize
        <4> QED BY <4>1, <4>2 DEF TextIn
      <3> HIDE DEF a, id
      <3>2. TextIn(id, b)
        BY <2>12, <2>13, <3>1, TextStays
      <3>3. b \in Seq(P)
        BY <2>12, <2>13
      <3>4. kept = b \o hint
        BY <2>10 DEF a
      <3> HIDE DEF b
      <3>5. TextIn(id, kept)
        BY <2>8, <3>2, <3>3, <3>4, TextStays
      <3> QED BY <2>2, <2>5, <2>6, <3>5 DEF Built, id
    <2>15. CASE recent = <<>>
      <3>1. parts[k].size + Pad > budget
        <4>1. Messages(parts) \in Seq(T) /\ Messages(parts)[Len(Messages(parts))] = parts[k]
          BY MessagesFit
        <4>2. Messages(parts) # <<>>
          <5>1. OlderPart(parts) = SubSeq(Messages(parts), 1, Len(Messages(parts)) - Len(recent))
            BY DEF OlderPart, recent
          <5>2. old # <<>> => OlderPart(parts) # <<>>
            BY EmptyKept DEF OldPart, old
          <5>3. Messages(parts) = <<>> => SubSeq(Messages(parts), 1, Len(Messages(parts)) - Len(recent)) = <<>>
            BY <2>15, EmptySeq
          <5> QED BY <1>2, <5>1, <5>2, <5>3
        <4>3. Messages(parts) \in Seq(P)
          <5> HIDE DEF T, P
          <5> QED BY <2>7, <4>1, SeqMonotonic
        <4>4. Recent(Messages(parts), budget) = <<>>
          BY <2>15 DEF RecentPart, recent, budget
        <4>5. budget \in Int
          BY <2>6, BudgetIsInt DEF system, budget
        <4> HIDE DEF budget
        <4> QED BY <4>1, <4>2, <4>3, <4>4, <4>5, NothingRecent
      <3>2. old # <<>>
        BY <1>2
      <3> QED BY <2>2, <2>5, <2>6, <3>1, <3>2 DEF Built, budget
    <2> QED BY <2>14, <2>15
  <1> QED BY <1>1, <1>2

\* A conversation as the code builds from it.
Conversation(N, parts) ==
  /\ parts \in Seq(Pieces(N)) /\ ToolsKnown(parts) /\ OneCatalogue(parts)
  /\ parts # <<>> /\ parts[Len(parts)].kind = "user"

\* map_claude_to_content, and _build_content of the OpenAI routes.
LEMMA BuildBuilt ==
  ASSUME NEW N \in Nat, NEW parts, Conversation(N, parts)
  PROVE  Built(N, parts, Len(parts), RefsBudget(Whole(parts)), Build(parts))
  <1> DEFINE k == Len(parts)
             whole == Whole(parts)
             budget == RefsBudget(whole)
             P == Pieces(N)
  <1>1. /\ parts \in Seq(P) /\ ToolsKnown(parts) /\ OneCatalogue(parts)
        /\ parts # <<>> /\ parts[k].kind = "user"
    BY DEF Conversation
  <1>2. k \in Nat \ {0} /\ k \in 1 .. k
    BY <1>1, EmptySeq
  <1>3. TheHint \in P /\ TheHint.kind = "hint"
    BY HintIsPiece DEF TheHint, Part
  <1>4. /\ whole \in Seq(P) /\ Len(whole) = k + 1 /\ whole[k + 1] = TheHint
        /\ \A i \in 1 .. k : whole[i] = parts[i]
    BY <1>1, <1>3, <1>2 DEF Whole
  <1> HIDE DEF whole, k
  <1>5. Asked(N, whole, k)
    <2>1. \A i \in 1 .. Len(whole) : whole[i].kind = "tools" => i \in 1 .. k /\ whole[i] = parts[i]
      <3> SUFFICES ASSUME NEW i \in 1 .. Len(whole), whole[i].kind = "tools"
                   PROVE  i \in 1 .. k /\ whole[i] = parts[i]
        OBVIOUS
      <3>1. i # k + 1
        BY <1>3, <1>4
      <3> QED BY <1>2, <1>4, <3>1
    <2>2. ToolsKnown(whole) /\ OneCatalogue(whole)
      BY <1>1, <2>1 DEF ToolsKnown, OneCatalogue, k
    <2>3. k \in 1 .. Len(whole) /\ whole[k].kind = "user"
      BY <1>1, <1>2, <1>4
    <2>4. \A j \in k + 1 .. Len(whole) : whole[j].kind = "hint"
      BY <1>2, <1>3, <1>4
    <2> QED BY <1>4, <2>2, <2>3, <2>4 DEF Asked
  <1>6. Spoken(N, whole) = Spoken(N, parts)
    <2>1. \A i \in 1 .. k + 1 : whole[i].kind \in {"user", "assistant"} => i \in 1 .. k
      <3> SUFFICES ASSUME NEW i \in 1 .. k + 1, whole[i].kind \in {"user", "assistant"} PROVE i \in 1 .. k
        OBVIOUS
      <3>1. i # k + 1
        BY <1>3, <1>4
      <3> QED BY <1>2, <3>1
    <2>2. Len(parts) = k
      BY DEF k
    <2>3. \A p : p \in Spoken(N, whole) => p \in Spoken(N, parts)
      BY <1>4, <2>1, <2>2 DEF Spoken
    <2>4. \A p : p \in Spoken(N, parts) => p \in Spoken(N, whole)
      <3> SUFFICES ASSUME NEW p \in Spoken(N, parts) PROVE p \in Spoken(N, whole)
        OBVIOUS
      <3>1. PICK i \in 1 .. k : p = parts[i]
        BY <2>2 DEF Spoken
      <3>2. i \in 1 .. Len(whole) /\ p = whole[i]
        BY <1>2, <1>4, <3>1
      <3> QED BY <3>2 DEF Spoken
    <2> QED BY <2>3, <2>4
  <1>7. Fills(whole) => Fills(parts)
    <2> SUFFICES ASSUME Fills(whole) PROVE Fills(parts)
      OBVIOUS
    <2>1. PICK i \in 1 .. Len(whole) :
            whole[i].kind = "tools" /\ Compressed(whole[i]).size + Reserve >= MaxLen
      BY DEF Fills
    <2>2. i # k + 1
      BY <1>3, <1>4, <2>1
    <2>3. i \in 1 .. Len(parts) /\ whole[i] = parts[i]
      BY <1>2, <1>4, <2>2 DEF k
    <2> QED BY <2>1, <2>3 DEF Fills
  <1>8. whole[k] = parts[k]
    BY <1>2, <1>4
  <1>9. CASE Length(whole) > MaxLen
    <2>1. Build(parts) = BuildContentWithRefs(whole)
      BY <1>9 DEF Build, whole
    <2>2. Built(N, whole, k, budget, Build(parts))
      BY <1>5, <2>1, RefsBuilt
    <2>3. Len(whole) # 1
      BY <1>2, <1>4
    <2> HIDE DEF budget
    <2>4. Built(N, parts, k, budget, Build(parts))
      BY <1>6, <1>7, <1>8, <2>2, <2>3 DEF Built
    <2> QED BY <2>4 DEF budget, whole, k
  <1>10. CASE ~(Length(whole) > MaxLen)
    <2> DEFINE b == [content |-> whole, references |-> <<>>]
    <2>1. Build(parts) = b
      BY <1>10 DEF Build, whole
    <2>2. b.content = whole /\ b.references = <<>>
      OBVIOUS
    <2> HIDE DEF b
    <2>3. Length(whole) <= MaxLen
      <3>1. whole \in Seq(Sized)
        BY <1>4, PiecesSized
      <3>2. Length(whole) \in Nat
        BY <3>1, LengthOf
      <3> HIDE DEF whole
      <3> QED BY <1>10, <3>2, Limits
    <2>4. TextIn(parts[k].id, whole)
      <3>1. k \in DOMAIN whole
        BY <1>2, <1>4
      <3>2. parts[k] \in P
        BY <1>1, <1>2 DEF k
      <3>3. whole[k].id = parts[k].id /\ whole[k].size > (IF whole[k].kind = "cut" THEN Mark ELSE 0)
        BY <1>1, <1>8, <3>2, PieceSize
      <3> QED BY <3>1, <3>3 DEF TextIn
    <2>5. <<>> \in Seq(Spoken(N, parts))
      BY EmptySeq
    <2> HIDE DEF budget
    <2>6. Built(N, parts, k, budget, b)
      BY <1>4, <2>2, <2>3, <2>4, <2>5 DEF Built
    <2> QED BY <2>1, <2>6 DEF k, budget, whole
  <1> QED BY <1>9, <1>10

\* _build_content of a single message: what is too long is lost but for the hint.
LEMMA SingleBuilt ==
  ASSUME NEW N \in Nat, NEW p \in Pieces(N), NEW parts, p.kind = "user", parts = <<p>>, NEW budget
  PROVE  Built(N, parts, 1, budget, BuildSingle(p))
  <1> DEFINE bare == [p EXCEPT !.kind = "text"]
             s == <<bare>>
             hint == <<TheHint>>
             P == Pieces(N)
  <1>1. bare \in P /\ bare.kind = "text" /\ bare.id = p.id /\ bare.size = p.size /\ p.size \in Nat \ {0}
    BY PieceSize DEF Pieces, Kinds
  <1>2. s \in Seq(P) /\ Len(s) = 1 /\ s[1] = bare /\ DOMAIN s = 1 .. 1 /\ parts[1] = p
    BY <1>1
  <1>3. /\ MaxLen \in Nat /\ Sep \in Nat /\ Pad \in Nat /\ Hint \in Nat /\ Reserve \in Nat
        /\ Mark \in Nat /\ Hint + Mark + 2 * Sep <= Reserve /\ Reserve < MaxLen
    BY Limits, BudgetAssumption
  <1>4. <<>> \in Seq(Spoken(N, parts))
    BY EmptySeq
  <1>5. s \in Seq(Sized)
    BY <1>2, PiecesSized
  <1>6. CASE ~(p.size > MaxLen)
    <2> DEFINE b == [content |-> s, references |-> <<>>]
    <2>1. BuildSingle(p) = b
      BY <1>6 DEF BuildSingle
    <2>2. b.content = s /\ b.references = <<>>
      OBVIOUS
    <2> HIDE DEF b
    <2>3. Sum(s, Sep) = p.size + Sep
      <3>1. bare \in Sized
        BY <1>1 DEF Pieces, Sized
      <3> HIDE DEF bare
      <3>2. Sum(s, Sep) = bare.size + Sep
        BY <1>3, <3>1, SumOne
      <3> QED BY <1>1, <3>2
    <2> HIDE DEF s, bare
    <2>4. Length(s) <= MaxLen
      <3>1. Sum(s, Sep) <= MaxLen + Sep
        BY <1>1, <1>3, <1>6, <2>3
      <3> QED BY <1>3, <1>5, <3>1, LengthOf
    <2>5. TextIn(parts[1].id, s)
      <3>1. 1 \in DOMAIN s /\ s[1].id = parts[1].id /\ s[1].size > (IF s[1].kind = "cut" THEN Mark ELSE 0)
        BY <1>1, <1>2
      <3> QED BY <3>1 DEF TextIn
    <2>6. Built(N, parts, 1, budget, b)
      BY <1>2, <1>4, <2>2, <2>4, <2>5 DEF Built
    <2> QED BY <2>1, <2>6
  <1>7. CASE p.size > MaxLen
    <2> DEFINE b == [content |-> CompressContent(s), references |-> <<>>]
    <2>1. BuildSingle(p) = b
      BY <1>7 DEF BuildSingle
    <2>2. b.content = CompressContent(s) /\ b.references = <<>>
      OBVIOUS
    <2> HIDE DEF b, s, bare
    <2>3. ToolsKnown(s) /\ OneCatalogue(s) /\ \A i \in 1 .. Len(s) : s[i].kind # "tools"
      BY <1>1, <1>2 DEF ToolsKnown, OneCatalogue
    <2>4. CompressContent(s) \in Seq(P) /\ Length(CompressContent(s)) <= MaxLen
      BY <1>2, <2>3, CompressFits
    <2>5. CompressedTools(s) = <<>>
      <3>1. ~ \E i \in 1 .. Len(s) : /\ s[i].kind = "tools"
                                     /\ CompressedTools(s) = <<Compressed(s[i])>>
        BY <2>3
      <3> QED BY <1>2, <2>3, <3>1, CompressedToolsFit
    <2>6. Room(s) = MaxLen - Reserve /\ Room(s) \in Int
      <3>1. Length(<<>>) = 0
        BY <1>3, SumEmpty DEF Length, NonNegative, Larger
      <3>2. Room(s) = MaxLen - 0 - Reserve
        BY <2>5, <3>1 DEF Room
      <3> QED BY <1>3, <3>2
    <2> DEFINE T == {x \in P : x = bare}
               others == Others(s)
    <2>7. others \in Seq(T)
      <3>1. s \in Seq(T)
        <4>1. bare \in T
          BY <1>1
        <4> HIDE DEF T
        <4> QED BY <4>1 DEF s
      <3> HIDE DEF T
      <3> QED BY <3>1, SelectedFits DEF Others
    <2> HIDE DEF others
    <2>8. \A i \in 1 .. Len(others) : others[i] = bare
      BY <2>7
    <2>9. DOMAIN others = 1 .. Len(others) /\ others \in Seq(P)
      <3>1. T \subseteq P
        OBVIOUS
      <3> HIDE DEF T
      <3> QED BY <2>7, <3>1, SeqMonotonic
    <2>10. Users(others) = {}
      BY <1>1, <2>8, <2>9 DEF Users
    <2>11. Locked(others, Room(s)) = <<>>
      <3>1. Locked(others, Room(s)) = Fitting(others, Room(s))
        BY <2>10, Zenon DEF Locked
      <3>2. \A i \in 1 .. Len(others) : others[i].size + Pad > Room(s)
        <4>1. p.size + Pad > Room(s)
          BY <1>1, <1>3, <1>7, <2>6
        <4> QED BY <1>1, <2>8, <4>1
      <3> QED BY <2>6, <2>9, <3>1, <3>2, FittingFits
    <2>12. CompressContent(s) = HardCut(hint)
      <3>1. CompressContent(s) = HardCut(CompressedTools(s) \o Locked(others, Room(s)) \o hint)
        BY CompressIs DEF others
      <3>2. hint \in Seq(P)
        BY HintIsPiece
      <3>3. <<>> \o <<>> \o hint = hint
        <4>1. <<>> \o <<>> = <<>> /\ <<>> \in Seq(P)
          BY EmptySeq, ConcatEmptySeq
        <4> HIDE DEF hint
        <4> QED BY <3>2, <4>1, ConcatEmptySeq
      <3> QED BY <2>5, <2>11, <3>1, <3>3
    <2>13. HardCut(hint) = hint
      <3>1. TheHint \in Sized /\ TheHint.size = Hint
        BY HintIsPiece
      <3>2. Sum(hint, Sep) = Hint + Sep
        BY <1>3, <3>1, SumOne
      <3>3. Length(hint) <= MaxLen
        BY <1>3, <3>2 DEF Length, NonNegative, Larger
      <3> QED BY <3>3 DEF HardCut
    <2>14. Len(parts) = 1 /\ parts[1].size > MaxLen
      BY <1>2, <1>7
    <2>15. Built(N, parts, 1, budget, b)
      BY <1>4, <2>2, <2>4, <2>12, <2>13, <2>14 DEF Built
    <2> QED BY <2>1, <2>15
  <1> QED BY <1>6, <1>7

-----------------------------------------------------------------------------
(* The Agent.                                                              *)

\* The same part of a message, of whatever size.
SamePart(p, q) == p.id = q.id /\ p.kind = q.kind

\* The front of what is cut begins with the front of its first part.
LEMMA FirstOfFirst ==
  ASSUME NEW N \in Nat, NEW parts \in Seq(Pieces(N)), parts # <<>>, NEW n \in Nat, n > 0
  PROVE  FirstOf(parts, n, 0) # <<>> /\ SamePart(FirstOf(parts, n, 0)[1], parts[1])
  <1> DEFINE T == [id : 0 .. N, kind : Kinds, size : Nat, critical : BOOLEAN]
  <1>1. parts \in Seq(Sized)
    BY PiecesSized
  <1>2. PICK f \in SumSoFar(parts, 0) : Sum(parts, 0) = f[Len(parts)]
    BY <1>1, SumSteps
  <1> DEFINE s == Fronts(parts, f, n)
             K == SomeLeft(s)
  <1>3. FirstOf(parts, n, 0) = Kept(s, K)
    BY <1>1, FirstOfIs
  <1>4. Len(parts) \in Nat \ {0} /\ 1 \in 1 .. Len(parts) /\ f[1 - 1] = 0
    BY EmptySeq DEF SumSoFar
  <1>5. s[1].size > 0 /\ SamePart(s[1], parts[1])
    <2>1. f[1 - 1] < n
      BY <1>4
    <2> QED BY <1>4, <2>1, FrontsFit DEF SamePart
  <1>6. \A m \in 1 .. Len(parts) : s[m] \in T
    <2> SUFFICES ASSUME NEW m \in 1 .. Len(parts) PROVE s[m] \in T
      OBVIOUS
    <2>1. parts[m] \in Pieces(N)
      OBVIOUS
    <2>2. s[m].size \in Nat
      BY FrontsFit
    <2>3. s[m] = [parts[m] EXCEPT !.size = Smaller(@, NonNegative(n - f[m - 1]))]
      BY DEF Fronts
    <2> HIDE DEF s
    <2> QED BY <2>1, <2>2, <2>3 DEF Pieces
  <1>7. Len(s) = Len(parts) /\ DOMAIN s = 1 .. Len(parts) /\ s = [m \in 1 .. Len(parts) |-> s[m]]
    BY <1>4 DEF Fronts
  <1> HIDE DEF s, T
  <1>8. s \in Seq(T) /\ s # <<>>
    <2>1. s \in Seq(T)
      BY <1>4, <1>6, <1>7
    <2>2. Len(<<>>) = 0
      BY EmptySeq
    <2> QED BY <1>4, <1>7, <2>1, <2>2
  <1>9. 1 \in K
    BY <1>4, <1>5, <1>7 DEF SomeLeft
  <1> HIDE DEF K
  <1>10. Kept(s, K) # <<>> /\ Kept(s, K)[1] = s[1]
    BY <1>8, <1>9, KeptFirst
  <1> QED BY <1>3, <1>5, <1>10

\* The end of a text: no more than n characters, the last part among them.
EndOf(parts, n) == Reverse(FirstOf(Reverse(parts), n, 0))

LEMMA EndFits ==
  ASSUME NEW N \in Nat, NEW parts \in Seq(Pieces(N)), parts # <<>>, NEW n \in Nat, n > 0
  PROVE  /\ EndOf(parts, n) \in Seq(Pieces(N)) /\ Weight(EndOf(parts, n)) <= n
         /\ EndOf(parts, n) # <<>>
         /\ SamePart(EndOf(parts, n)[Len(EndOf(parts, n))], parts[Len(parts)])
  <1> DEFINE r == Reverse(parts)
             q == FirstOf(r, n, 0)
             e == Reverse(q)
  <1>1. Len(parts) \in Nat \ {0} /\ 1 \in 1 .. Len(parts)
    BY EmptySeq
  <1>2. r \in Seq(Pieces(N)) /\ Len(r) = Len(parts) /\ r[1] = parts[Len(parts)]
    <2>1. /\ r \in Seq(Pieces(N)) /\ Len(r) = Len(parts)
          /\ \A i \in 1 .. Len(parts) : r[i] = parts[Len(parts) - i + 1]
      BY Reversed
    <2>2. r[1] = parts[Len(parts) - 1 + 1]
      BY <1>1, <2>1
    <2>3. Len(parts) - 1 + 1 = Len(parts)
      BY <1>1
    <2> QED BY <2>1, <2>2, <2>3
  <1>3. r # <<>>
    <2>1. Len(<<>>) = 0
      BY EmptySeq
    <2> QED BY <1>1, <1>2, <2>1
  <1> HIDE DEF r
  <1>4. q \in Seq(Pieces(N)) /\ Sum(q, 0) <= n /\ q # <<>> /\ SamePart(q[1], r[1])
    <2>1. q \in Seq(Pieces(N)) /\ Sum(q, 0) <= n + 0
      BY <1>2, FirstOfFits
    <2>2. q # <<>> /\ SamePart(q[1], r[1])
      BY <1>2, <1>3, FirstOfFirst
    <2> QED BY <2>1, <2>2
  <1> HIDE DEF q
  <1>5. Len(q) \in Nat \ {0} /\ Len(q) \in 1 .. Len(q) /\ Len(q) - Len(q) + 1 = 1
    BY <1>4, EmptySeq
  <1>6. e \in Seq(Pieces(N)) /\ Len(e) = Len(q) /\ e[Len(q)] = q[1]
    <2>1. /\ e \in Seq(Pieces(N)) /\ Len(e) = Len(q)
          /\ \A i \in 1 .. Len(q) : e[i] = q[Len(q) - i + 1]
      BY <1>4, Reversed
    <2>2. e[Len(q)] = q[Len(q) - Len(q) + 1]
      BY <1>5, <2>1
    <2> QED BY <1>5, <2>1, <2>2
  <1>7. Sum(e, 0) = Sum(q, 0)
    BY <1>4, PiecesSized, SumReverse
  <1> HIDE DEF e
  <1>8. e # <<>>
    <2>1. Len(<<>>) = 0
      BY EmptySeq
    <2> QED BY <1>5, <1>6, <2>1
  <1>9. EndOf(parts, n) = e
    BY DEF EndOf, e, q, r
  <1> QED BY <1>2, <1>4, <1>6, <1>7, <1>8, <1>9 DEF Weight

LEMMA TruncateIs ==
  ASSUME NEW parts, NEW limit
  PROVE  TruncateMiddle(parts, limit) =
           CASE limit <= 0 -> <<>>
             [] limit > 0 /\ Weight(parts) <= limit -> parts
             [] limit \in 1 .. Marker /\ Weight(parts) > limit -> EndOf(parts, limit)
             [] OTHER -> FirstOf(parts, (limit - Marker) \div 3, 0)
                           \o <<Part(0, "mark", Marker, FALSE)>>
                           \o EndOf(parts, limit - Marker - (limit - Marker) \div 3)
BY Zenon DEF TruncateMiddle, EndOf

\* What is cut in the middle fits, and ends like the whole.
LEMMA TruncateFits ==
  ASSUME NEW N \in Nat, NEW parts \in Seq(Pieces(N)), parts # <<>>, NEW limit \in Int, limit > 0
  PROVE  /\ TruncateMiddle(parts, limit) \in Seq(Pieces(N))
         /\ Weight(TruncateMiddle(parts, limit)) <= limit
         /\ TruncateMiddle(parts, limit) # <<>>
         /\ SamePart(TruncateMiddle(parts, limit)[Len(TruncateMiddle(parts, limit))],
                     parts[Len(parts)])
         /\ Weight(parts) <= limit => TruncateMiddle(parts, limit) = parts
  <1> DEFINE t == TruncateMiddle(parts, limit)
             P == Pieces(N)
  <1>1. Weight(parts) \in Nat /\ Marker \in Nat \ {0} /\ ~(limit <= 0) /\ limit \in Nat
    BY PiecesSized, SumNatural, Limits DEF Weight
  <1>2. CASE Weight(parts) <= limit
    <2>1. t = parts
      BY <1>1, <1>2, TruncateIs
    <2> QED BY <1>2, <2>1 DEF SamePart
  <1>3. CASE Weight(parts) > limit /\ limit <= Marker
    <2>1. limit \in 1 .. Marker /\ ~(Weight(parts) <= limit)
      BY <1>1, <1>3
    <2>2. t = EndOf(parts, limit)
      BY <1>1, <1>3, <2>1, TruncateIs
    <2> QED BY <1>1, <2>1, <2>2, EndFits
  <1>4. CASE Weight(parts) > limit /\ limit > Marker
    <2> DEFINE head == (limit - Marker) \div 3
               n == limit - Marker - head
               mark == <<Part(0, "mark", Marker, FALSE)>>
               a == FirstOf(parts, head, 0)
               e == EndOf(parts, n)
    <2>1. ~(limit \in 1 .. Marker) /\ ~(Weight(parts) <= limit)
      BY <1>1, <1>4
    <2>2. t = a \o mark \o e
      BY <1>1, <2>1, TruncateIs, Zenon
    <2>3. head \in Nat /\ n \in Nat /\ n > 0
      <3> DEFINE m == limit - Marker
      <3>1. m \in Nat \ {0}
        BY <1>1, <1>4
      <3> HIDE DEF m
      <3>2. m \div 3 \in Nat /\ m \div 3 < m
        BY <3>1
      <3>3. m \div 3 \in Nat /\ m - m \div 3 \in Nat /\ m - m \div 3 > 0
        BY <3>1, <3>2
      <3> QED BY <3>3 DEF m
    <2> HIDE DEF head
    <2>4. n = limit - Marker - head
      OBVIOUS
    <2> HIDE DEF n
    <2>5. a \in Seq(P) /\ Sum(a, 0) <= head
      <3>1. a \in Seq(P) /\ Sum(a, 0) <= head + 0
        BY <2>3, FirstOfFits
      <3> QED BY <2>3, <3>1
    <2>6. /\ e \in Seq(P) /\ Sum(e, 0) <= n /\ e # <<>>
          /\ SamePart(e[Len(e)], parts[Len(parts)])
      BY <2>3, EndFits DEF Weight
    <2>7. mark \in Seq(P) /\ Sum(mark, 0) = Marker
      <3> DEFINE x == Part(0, "mark", Marker, FALSE)
      <3>1. x \in P /\ x \in Sized /\ x.size = Marker
        BY <1>1 DEF Part, Pieces, Sized, Kinds
      <3> HIDE DEF x
      <3>2. Sum(<<x>>, 0) = x.size + 0
        BY <3>1, SumOne
      <3>3. <<x>> \in Seq(P) /\ Sum(<<x>>, 0) = Marker
        BY <1>1, <3>1, <3>2
      <3> QED BY <3>3 DEF x
    <2> HIDE DEF a, e, mark
    <2> DEFINE b == a \o mark
               c == b \o e
    <2>8. b \in Seq(P) /\ Len(b) \in Nat
      BY <2>5, <2>7
    <2>9. \A s \in Seq(P) : s \in Seq(Sized) /\ Sum(s, 0) \in Nat
      BY PiecesSized, SumNatural
    <2> HIDE DEF P
    <2>10. Sum(b, 0) = Sum(a, 0) + Sum(mark, 0)
      BY <2>5, <2>7, <2>9, SumConcat
    <2> HIDE DEF b
    <2>11. Sum(c, 0) = Sum(b, 0) + Sum(e, 0)
      BY <2>6, <2>8, <2>9, SumConcat
    <2>12. /\ c \in Seq(P) /\ Len(c) = Len(b) + Len(e)
           /\ \A i \in 1 .. Len(b) + Len(e) : c[i] = IF i <= Len(b) THEN b[i] ELSE e[i - Len(b)]
      BY <2>6, <2>8, ConcatProperties
    <2> HIDE DEF c
    <2>13. Sum(c, 0) <= limit
      <3> DEFINE x == Sum(a, 0)
                 y == Sum(e, 0)
      <3>1. x \in Nat /\ y \in Nat /\ x <= head /\ y <= n /\ Sum(c, 0) = x + Marker + y
        BY <2>5, <2>6, <2>7, <2>9, <2>10, <2>11
      <3> HIDE DEF x, y
      <3>2. x + Marker + y <= limit
        BY <1>1, <2>3, <2>4, <3>1
      <3> QED BY <3>1, <3>2
    <2>14. Len(e) \in Nat \ {0}
      BY <2>6, EmptySeq
    <2>15. c # <<>> /\ c[Len(c)] = e[Len(e)]
      <3> DEFINE i == Len(b) + Len(e)
      <3>1. i \in 1 .. Len(b) + Len(e) /\ ~(i <= Len(b)) /\ i - Len(b) = Len(e)
        BY <2>8, <2>14
      <3>2. Len(c) = i
        BY <2>12
      <3> HIDE DEF i
      <3>3. c[i] = e[Len(e)]
        BY <2>12, <3>1
      <3>4. Len(<<>>) = 0
        BY EmptySeq
      <3> QED BY <2>8, <3>1, <3>2, <3>3, <3>4
    <2>16. t = c
      BY <2>2 DEF b, c
    <2> HIDE DEF t
    <2>17. ~(Weight(parts) <= limit)
      BY <2>1
    <2>18. /\ t \in Seq(P) /\ Weight(t) <= limit /\ t # <<>>
           /\ SamePart(t[Len(t)], parts[Len(parts)])
      BY <2>6, <2>12, <2>13, <2>15, <2>16 DEF Weight
    <2> QED BY <2>17, <2>18 DEF P, t
  <1> QED BY <1>1, <1>2, <1>3, <1>4

\* What fits is not cut.
LEMMA FirstOfWhole ==
  ASSUME NEW N \in Nat, NEW s \in Seq(Pieces(N)), NEW n \in Nat, Weight(s) <= n,
         NEW id, TextIn(id, s)
  PROVE  TextIn(id, FirstOf(s, n, 0))
  <1> DEFINE q == FirstOf(s, n, 0)
  <1>1. s \in Seq(Sized)
    BY PiecesSized
  <1>2. PICK f \in SumSoFar(s, 0) : Sum(s, 0) = f[Len(s)]
    BY <1>1, SumSteps
  <1>3. PICK i \in DOMAIN s : s[i].id = id /\ s[i].size > (IF s[i].kind = "cut" THEN Mark ELSE 0)
    BY DEF TextIn
  <1>4. i \in 1 .. Len(s) /\ Len(s) \in Nat /\ s[i] \in Pieces(N) /\ i \in 0 .. Len(s) /\ i - 1 \in 0 .. Len(s)
    OBVIOUS
  <1>5. s[i].size \in Nat \ {0}
    BY <1>4, PieceSize
  <1>6. f[i] <= f[Len(s)] /\ f[i] \in Nat /\ f[Len(s)] \in Nat
    <2>1. Len(s) \in 0 .. Len(s)
      BY <1>4
    <2> QED BY <1>1, <1>4, <2>1, SumsGrow
  <1>7. f[i] = f[i - 1] + s[i].size + 0 /\ f[i - 1] \in Nat
    BY <1>4 DEF SumSoFar
  <1>8. f[i - 1] < n /\ f[i - 1] + s[i].size <= n
    <2>1. f[Len(s)] <= n
      BY <1>2 DEF Weight
    <2> QED BY <1>5, <1>6, <1>7, <2>1
  <1>9. \E j \in 1 .. Len(q) : q[j] = s[i]
    <2>1. 0 \in Nat /\ i \in 1 .. Len(s) /\ f \in SumSoFar(s, 0) /\ f[i - 1] < n
      BY <1>4, <1>8
    <2>2. \E j \in 1 .. Len(q) :
            /\ q[j].id = s[i].id /\ q[j].kind = s[i].kind
            /\ f[i - 1] + s[i].size <= n => q[j] = s[i]
      <3> DEFINE e == f[i - 1] + s[i].size <= n
      <3>1. \E j \in 1 .. Len(FirstOf(s, n, 0)) :
              /\ FirstOf(s, n, 0)[j].id = s[i].id
              /\ FirstOf(s, n, 0)[j].kind = s[i].kind
              /\ e => FirstOf(s, n, 0)[j] = s[i]
        BY <2>1, FirstOfHas, ZenonT(60)
      <3> QED BY <3>1 DEF q
    <2> QED BY <1>8, <2>2
  <1>10. q \in Seq(Pieces(N))
    BY FirstOfFits
  <1> HIDE DEF q
  <1>11. PICK j \in DOMAIN q : q[j] = s[i]
    BY <1>9, <1>10
  <1>12. q[j].id = id /\ q[j].size > (IF q[j].kind = "cut" THEN Mark ELSE 0)
    BY <1>3, <1>11
  <1> QED BY <1>11, <1>12 DEF TextIn, q

LEMMA WholeEnds ==
  ASSUME NEW N \in Nat, NEW s \in Seq(Pieces(N)), s # <<>>, NEW n \in Nat, Weight(s) <= n
  PROVE  /\ FirstOf(s, n, 0) # <<>>
         /\ FirstOf(s, n, 0)[Len(FirstOf(s, n, 0))].id = s[Len(s)].id
  <1> DEFINE m == Len(s)
  <1>1. s \in Seq(Sized) /\ m \in Nat \ {0} /\ m \in 1 .. Len(s) /\ m - 1 \in 0 .. Len(s)
    BY PiecesSized, EmptySeq
  <1>2. PICK f \in SumSoFar(s, 0) : Sum(s, 0) = f[Len(s)]
    BY <1>1, SumSteps
  <1>3. s[m].size \in Nat \ {0}
    <2>1. s[m] \in Pieces(N)
      BY <1>1
    <2> QED BY <2>1, PieceSize
  <1>4. f[m] = f[m - 1] + s[m].size + 0 /\ f[m - 1] \in Nat
    BY <1>1 DEF SumSoFar
  <1>5. f[m - 1] < n
    <2>1. f[m] <= n
      BY <1>2 DEF Weight
    <2> QED BY <1>3, <1>4, <2>1
  <1> QED BY <1>5, FirstOfEnds

\* The last part is of that message.
EndsIn(id, parts) == parts # <<>> /\ parts[Len(parts)].id = id

\* build_relay_prompt: the rules, the tools and the end of the prompt.
LEMMA RelayFits ==
  ASSUME NEW N \in Nat, NEW prompt \in Seq(Pieces(N)), prompt # <<>>,
         prompt[Len(prompt)].kind # "cut",
         NEW tools \in Pieces(N), tools.size \in DOMAIN Names, NEW header \in Headers
  PROVE  /\ RelayPrompt(prompt, tools, header) \in Seq(Pieces(N))
         /\ Weight(RelayPrompt(prompt, tools, header)) <= AgentLimit
         /\ TextIn(prompt[Len(prompt)].id, RelayPrompt(prompt, tools, header))
         /\ EndsIn(prompt[Len(prompt)].id, RelayPrompt(prompt, tools, header))
  <1> DEFINE w == Weight(prompt)
             budget == Larger(Floor, AgentLimit - header - w)
             size == header + Catalogue(tools.size, budget)
             excess == NonNegative(size + w - AgentLimit)
             limit == w - excess
             first == Part(tools.id, "tools", size, FALSE)
             rest == TruncateMiddle(prompt, limit)
             s == <<first>> \o rest
             P == Pieces(N)
             id == prompt[Len(prompt)].id
  <1>1. /\ AgentLimit \in Nat /\ Floor \in Nat \ {0} /\ Marker \in Nat \ {0}
        /\ header \in Nat \ {0} /\ header + Floor + Marker < AgentLimit
    <2>1. header \in Nat \ {0} /\ header + Floor + Marker < AgentLimit
      BY BudgetAssumption
    <2> QED BY <2>1, Limits
  <1>2. w \in Nat \ {0}
    <2>1. Len(prompt) \in Nat \ {0} /\ Len(prompt) \in 1 .. Len(prompt)
          /\ Len(prompt) - 1 \in 0 .. Len(prompt)
      BY EmptySeq
    <2>2. prompt \in Seq(Sized)
      BY PiecesSized
    <2>3. PICK f \in SumSoFar(prompt, 0) : Sum(prompt, 0) = f[Len(prompt)]
      BY <2>2, SumSteps
    <2>4. /\ f[Len(prompt)] = f[Len(prompt) - 1] + prompt[Len(prompt)].size + 0
          /\ f[Len(prompt) - 1] \in Nat
      BY <2>1 DEF SumSoFar
    <2>5. prompt[Len(prompt)].size \in Nat \ {0}
      <3>1. prompt[Len(prompt)] \in P
        BY <2>1
      <3> QED BY <3>1, PieceSize
    <2> QED BY <2>3, <2>4, <2>5 DEF Weight
  <1>3. RelayPrompt(prompt, tools, header) = FirstOf(s, AgentLimit, 0)
    BY DEF RelayPrompt
  <1>4. tools.size \in Nat \ {0} /\ tools.id \in 0 .. N /\ Names[tools.size] \in Nat
    <2>1. Names[tools.size] \in Nat
      BY BudgetAssumption
    <2> QED BY <2>1, PieceSize
  <1> HIDE DEF w
  <1>5. /\ size \in Nat \ {0} /\ size <= header + budget
        /\ budget \in Int /\ (budget = Floor \/ budget = AgentLimit - header - w)
    <2>1. budget \in Int /\ budget >= Floor /\ (budget = Floor \/ budget = AgentLimit - header - w)
      BY <1>1, <1>2 DEF Larger
    <2> HIDE DEF budget
    <2>2. Catalogue(tools.size, budget) \in Nat /\ Catalogue(tools.size, budget) <= budget
      BY <1>1, <1>4, <2>1 DEF Catalogue, Smaller
    <2> QED BY <1>1, <2>1, <2>2
  <1> HIDE DEF size, budget
  <1>6. limit \in Int /\ limit > 0 /\ size + limit <= AgentLimit
    BY <1>1, <1>2, <1>5 DEF NonNegative, Larger
  <1> HIDE DEF limit
  <1>7. /\ rest \in Seq(P) /\ Weight(rest) <= limit /\ rest # <<>>
        /\ SamePart(rest[Len(rest)], prompt[Len(prompt)])
    BY <1>6, TruncateFits
  <1>8. TextIn(id, rest) /\ rest[Len(rest)].id = id
    <2>1. Len(rest) \in Nat \ {0} /\ Len(rest) \in DOMAIN rest /\ rest[Len(rest)] \in P
      BY <1>7, EmptySeq
    <2>2. rest[Len(rest)].size > 0 /\ rest[Len(rest)].id = id /\ rest[Len(rest)].kind # "cut"
      BY <1>7, <2>1, PieceSize DEF SamePart
    <2> QED BY <2>1, <2>2 DEF TextIn
  <1>9. first \in P /\ first \in Sized /\ first.size = size
    BY <1>4, <1>5 DEF Part, Pieces, Sized, Kinds
  <1> HIDE DEF rest, first, id
  <1> DEFINE front == <<first>>
  <1>10. front \in Seq(P) /\ front \in Seq(Sized) /\ Sum(front, 0) = size
    <2>1. Sum(front, 0) = first.size + 0
      BY <1>9, SumOne
    <2> QED BY <1>5, <1>9, <2>1
  <1>11. s = front \o rest
    OBVIOUS
  <1> HIDE DEF s, front
  <1>12. s \in Seq(P)
    BY <1>7, <1>10, <1>11
  <1>13. rest \in Seq(Sized) /\ Sum(rest, 0) \in Nat
    BY <1>7, PiecesSized, SumNatural
  <1>14. Sum(s, 0) <= AgentLimit
    <2>1. Sum(s, 0) = size + Sum(rest, 0)
      BY <1>10, <1>11, <1>13, SumConcat
    <2>2. Sum(rest, 0) <= limit
      BY <1>7 DEF Weight
    <2> QED BY <1>1, <1>5, <1>6, <1>13, <2>1, <2>2
  <1>15. TextIn(id, s)
    BY <1>7, <1>8, <1>10, <1>11, TextStays
  <1>16. FirstOf(s, AgentLimit, 0) \in Seq(P) /\ Sum(FirstOf(s, AgentLimit, 0), 0) <= AgentLimit + 0
    BY <1>1, <1>12, FirstOfFits
  <1>17. TextIn(id, FirstOf(s, AgentLimit, 0))
    BY <1>1, <1>12, <1>14, <1>15, FirstOfWhole DEF Weight
  <1>18. s # <<>> /\ s[Len(s)] = rest[Len(rest)]
    <2>1. Len(front) = 1 /\ Len(rest) \in Nat \ {0}
      BY <1>7, EmptySeq DEF front
    <2>2. /\ Len(s) = Len(front) + Len(rest)
          /\ \A i \in 1 .. Len(front) + Len(rest) :
               s[i] = IF i <= Len(front) THEN front[i] ELSE rest[i - Len(front)]
      BY <1>7, <1>10, <1>11, ConcatProperties
    <2> DEFINE i == Len(s)
    <2>3. i \in 1 .. Len(front) + Len(rest) /\ ~(i <= Len(front)) /\ i - Len(front) = Len(rest) /\ i # 0
      BY <2>1, <2>2
    <2>4. s[i] = rest[Len(rest)]
      <3> HIDE DEF i
      <3> QED BY <2>2, <2>3
    <2> QED BY <2>3, <2>4, EmptySeq
  <1>19. EndsIn(id, FirstOf(s, AgentLimit, 0))
    <2>1. Weight(s) <= AgentLimit
      BY <1>14 DEF Weight
    <2>2. /\ FirstOf(s, AgentLimit, 0) # <<>>
          /\ FirstOf(s, AgentLimit, 0)[Len(FirstOf(s, AgentLimit, 0))].id = s[Len(s)].id
      BY <1>1, <1>12, <1>18, <2>1, WholeEnds
    <2> QED BY <1>8, <1>18, <2>2 DEF EndsIn
  <1> QED BY <1>1, <1>3, <1>16, <1>17, <1>19 DEF Weight, id

\* The parts of AgentPayload.
Prompt(parts) ==
  LET others == Without(parts, {"tools"}) IN [i \in DOMAIN others |-> [others[i] EXCEPT !.size = @ + Sep]]
PromptLimit(parts) == IF Of(parts, {"tools"}) = <<>> THEN AgentLimit ELSE PromptReserve
Short(parts) ==
  <<Part(0, "notice", Notice, FALSE)>>
    \o TruncateMiddle(Prompt(parts), Larger(Floor, PromptLimit(parts) - Notice))
Visible(parts) ==
  IF Weight(Prompt(parts)) <= PromptLimit(parts) THEN Prompt(parts) ELSE Short(parts)

LEMMA AgentIs ==
  ASSUME NEW parts, NEW header
  PROVE  AgentPayload(parts, header) =
           [content |-> IF Of(parts, {"tools"}) = <<>> THEN Visible(parts)
                        ELSE RelayPrompt(Visible(parts), Of(parts, {"tools"})[1], header),
            references |-> IF Weight(Prompt(parts)) <= PromptLimit(parts) THEN <<>>
                           ELSE Without(parts, {"tools"})]
BY Zenon DEF AgentPayload, Visible, Short, PromptLimit, Prompt

\* The visible prompt fits its limit and ends with the latest message.
LEMMA VisibleFits ==
  ASSUME NEW N \in Nat, NEW parts, Conversation(N, parts)
  PROVE  /\ Visible(parts) \in Seq(Pieces(N)) /\ Weight(Visible(parts)) <= AgentLimit
         /\ Visible(parts) # <<>>
         /\ SamePart(Visible(parts)[Len(Visible(parts))], parts[Len(parts)])
  <1> DEFINE P == Pieces(N)
             k == Len(parts)
             K == {i \in DOMAIN parts : parts[i].kind \notin {"tools"}}
             others == Without(parts, {"tools"})
             prompt == Prompt(parts)
             limit == PromptLimit(parts)
  <1>1. parts \in Seq(P) /\ parts # <<>> /\ parts[k].kind = "user"
    BY DEF Conversation
  <1>2. k \in Nat \ {0} /\ k \in 1 .. k
    BY <1>1, EmptySeq
  <1>3. /\ AgentLimit \in Nat /\ PromptReserve \in Nat /\ Notice \in Nat \ {0} /\ Floor \in Nat \ {0}
        /\ Marker \in Nat \ {0} /\ Sep \in Nat \ {0}
        /\ PromptReserve <= AgentLimit /\ Notice + Marker + Floor <= PromptReserve
    BY Limits, BudgetAssumption
  <1>4. /\ others \in Seq(P) /\ others # <<>> /\ others[Len(others)] = parts[k]
    <2>1. others = Kept(parts, K)
      BY DEF Without
    <2>2. k \in K /\ \A j \in k + 1 .. Len(parts) : j \notin K
      BY <1>1, <1>2
    <2>3. k \in 1 .. Len(parts)
      BY <1>2
    <2> HIDE DEF K, k
    <2>4. Kept(parts, K) # <<>> /\ Kept(parts, K)[Len(Kept(parts, K))] = parts[k]
      BY <1>1, <2>2, <2>3, KeptHas
    <2>5. others \in Seq(P)
      BY <1>1, SelectedFits
    <2> QED BY <2>1, <2>4, <2>5
  <1>5. prompt = [i \in DOMAIN others |-> [others[i] EXCEPT !.size = @ + Sep]]
    BY DEF Prompt
  <1> HIDE DEF prompt, others, k
  <1>6. Len(others) \in Nat \ {0} /\ DOMAIN others = 1 .. Len(others)
    BY <1>4, EmptySeq
  <1>7. \A i \in 1 .. Len(others) : prompt[i] \in P /\ SamePart(prompt[i], others[i])
    <2> SUFFICES ASSUME NEW i \in 1 .. Len(others)
                 PROVE  prompt[i] \in P /\ SamePart(prompt[i], others[i])
      OBVIOUS
    <2> DEFINE p == others[i]
    <2>1. p \in P /\ p.size + Sep \in Nat \ {0}
      BY <1>3, <1>4, PieceSize
    <2>2. prompt[i] = [p EXCEPT !.size = p.size + Sep]
      BY <1>5, <1>6
    <2> HIDE DEF p
    <2>3. [p EXCEPT !.size = p.size + Sep] \in P /\ SamePart([p EXCEPT !.size = p.size + Sep], p)
      BY <2>1 DEF Pieces, SamePart
    <2> QED BY <2>2, <2>3 DEF p
  <1>8. prompt \in Seq(P) /\ Len(prompt) = Len(others)
    <2>1. prompt = [i \in 1 .. Len(others) |-> prompt[i]] /\ Len(others) \in Nat
      BY <1>5, <1>6
    <2>2. \A i \in 1 .. Len(others) : prompt[i] \in P
      BY <1>7
    <2> HIDE DEF P
    <2> QED BY <2>1, <2>2
  <1>9. prompt # <<>> /\ SamePart(prompt[Len(prompt)], parts[k])
    <2>1. Len(<<>>) = 0
      BY EmptySeq
    <2>2. prompt # <<>>
      BY <1>6, <1>8, <2>1
    <2>3. Len(others) \in 1 .. Len(others)
      BY <1>6
    <2>4. SamePart(prompt[Len(others)], others[Len(others)])
      BY <1>7, <2>3
    <2> QED BY <1>4, <1>8, <2>2, <2>4
  <1>10. limit \in Nat /\ limit <= AgentLimit /\ Notice + Marker + Floor <= limit
    BY <1>3 DEF PromptLimit
  <1>11. Weight(prompt) \in Nat
    BY <1>8, PiecesSized, SumNatural DEF Weight
  <1> HIDE DEF limit
  <1>12. CASE Weight(prompt) <= limit
    <2>1. Visible(parts) = prompt
      BY <1>12 DEF Visible, prompt, limit
    <2>2. Weight(prompt) <= AgentLimit
      BY <1>3, <1>10, <1>11, <1>12
    <2> QED BY <1>8, <1>9, <2>1, <2>2 DEF k
  <1>13. CASE ~(Weight(prompt) <= limit)
    <2> DEFINE n == Larger(Floor, limit - Notice)
               t == TruncateMiddle(prompt, n)
               x == Part(0, "notice", Notice, FALSE)
               front == <<x>>
               c == front \o t
    <2>1. Visible(parts) = c
      BY <1>13 DEF Visible, Short, prompt, limit
    <2>2. n \in Int /\ n > 0 /\ Notice + n <= limit
      BY <1>3, <1>10 DEF Larger
    <2> HIDE DEF n
    <2>3. t \in Seq(P) /\ Weight(t) <= n /\ t # <<>> /\ SamePart(t[Len(t)], prompt[Len(prompt)])
      BY <1>8, <1>9, <2>2, TruncateFits
    <2>4. x \in P /\ x \in Sized /\ x.size = Notice
      BY <1>3 DEF Part, Pieces, Sized, Kinds
    <2> HIDE DEF x, t
    <2>5. front \in Seq(P) /\ front \in Seq(Sized) /\ Len(front) = 1 /\ Sum(front, 0) = Notice
      <3>1. Sum(front, 0) = x.size + 0
        BY <2>4, SumOne
      <3> QED BY <1>3, <2>4, <3>1
    <2> HIDE DEF front
    <2>6. t \in Seq(Sized) /\ Sum(t, 0) \in Nat /\ Sum(t, 0) <= n
      <3>1. t \in Seq(Sized)
        BY <2>3, PiecesSized
      <3> QED BY <2>3, <3>1, SumNatural DEF Weight
    <2>7. Sum(c, 0) = Notice + Sum(t, 0)
      BY <2>5, <2>6, SumConcat
    <2>8. /\ c \in Seq(P) /\ Len(c) = Len(front) + Len(t)
          /\ \A i \in 1 .. Len(front) + Len(t) : c[i] = IF i <= Len(front) THEN front[i] ELSE t[i - Len(front)]
      BY <2>3, <2>5, ConcatProperties
    <2>9. Len(t) \in Nat \ {0}
      BY <2>3, EmptySeq
    <2> HIDE DEF c
    <2>10. c # <<>> /\ c[Len(c)] = t[Len(t)]
      <3> DEFINE i == Len(front) + Len(t)
      <3>1. i \in 1 .. Len(front) + Len(t) /\ ~(i <= Len(front)) /\ i - Len(front) = Len(t) /\ i # 0
        BY <2>5, <2>9
      <3>2. Len(c) = i
        BY <2>8
      <3> HIDE DEF i
      <3>3. c[i] = t[Len(t)]
        BY <2>8, <3>1
      <3>4. Len(<<>>) = 0
        BY EmptySeq
      <3> QED BY <3>1, <3>2, <3>3, <3>4
    <2>11. Sum(c, 0) <= AgentLimit
      BY <1>3, <1>10, <2>2, <2>6, <2>7
    <2>12. SamePart(c[Len(c)], parts[k])
      BY <1>9, <2>3, <2>10 DEF SamePart
    <2> QED BY <2>1, <2>8, <2>10, <2>11, <2>12 DEF Weight, k
  <1> QED BY <1>12, <1>13

\* build_agent_relay_payload: what is visible fits and holds the end of the task.
LEMMA AgentBuilt ==
  ASSUME NEW N \in Nat, NEW parts, Conversation(N, parts), NEW header \in Headers
  PROVE  /\ AgentPayload(parts, header).content \in Seq(Pieces(N))
         /\ Weight(AgentPayload(parts, header).content) <= AgentLimit
         /\ AgentPayload(parts, header).references
              \in Seq({p \in Pieces(N) : \E i \in 1 .. Len(parts) : p = parts[i]})
         /\ TextIn(parts[Len(parts)].id, AgentPayload(parts, header).content)
         /\ EndsIn(parts[Len(parts)].id, AgentPayload(parts, header).content)
  <1> DEFINE P == Pieces(N)
             k == Len(parts)
             id == parts[k].id
             T == {p \in P : \E i \in 1 .. Len(parts) : p = parts[i]}
             tools == Of(parts, {"tools"})
             others == Without(parts, {"tools"})
             visible == Visible(parts)
             b == AgentPayload(parts, header)
  <1>1. parts \in Seq(P) /\ parts # <<>> /\ parts[k].kind = "user" /\ ToolsKnown(parts)
    BY DEF Conversation
  <1>2. /\ visible \in Seq(P) /\ Weight(visible) <= AgentLimit /\ visible # <<>>
        /\ SamePart(visible[Len(visible)], parts[k])
    BY VisibleFits
  <1>3. parts \in Seq(T)
    BY <1>1
  <1>4. /\ b.content = (IF tools = <<>> THEN visible ELSE RelayPrompt(visible, tools[1], header))
        /\ b.references = (IF Weight(Prompt(parts)) <= PromptLimit(parts) THEN <<>> ELSE others)
    <2> DEFINE x == IF tools = <<>> THEN visible ELSE RelayPrompt(visible, tools[1], header)
               y == IF Weight(Prompt(parts)) <= PromptLimit(parts) THEN <<>> ELSE others
    <2>1. b = [content |-> x, references |-> y]
      BY AgentIs
    <2> HIDE DEF x, y, b
    <2>2. b.content = x /\ b.references = y
      BY <2>1
    <2> QED BY <2>2 DEF x, y
  <1> HIDE DEF T, b, visible
  <1>5. b.references \in Seq(T)
    <2>1. <<>> \in Seq(T)
      BY EmptySeq
    <2>2. others \in Seq(T)
      BY <1>3, SelectedFits
    <2> QED BY <1>4, <2>1, <2>2
  <1>6. Len(visible) \in Nat \ {0} /\ Len(visible) \in DOMAIN visible /\ visible[Len(visible)] \in P
    BY <1>2, EmptySeq
  <1>7. /\ visible[Len(visible)].id = id /\ visible[Len(visible)].kind # "cut"
        /\ visible[Len(visible)].size > 0
    BY <1>1, <1>2, <1>6, PieceSize DEF SamePart
  <1>8. CASE tools = <<>>
    <2>1. b.content = visible
      BY <1>4, <1>8
    <2>2. TextIn(id, visible) /\ EndsIn(id, visible)
      BY <1>2, <1>6, <1>7 DEF TextIn, EndsIn
    <2> QED BY <1>2, <1>5, <2>1, <2>2 DEF T, b
  <1>9. CASE tools # <<>>
    <2> DEFINE S == {p \in P : p.kind = "tools" /\ p.size \in DOMAIN Names}
               K == {i \in DOMAIN parts : parts[i].kind \in {"tools"}}
    <2>1. Len(parts) \in Nat /\ \A n \in 1 .. Len(parts) : n \in K => parts[n] \in S
      BY <1>1 DEF ToolsKnown
    <2>2. tools = Kept(parts, K)
      BY DEF Of
    <2> HIDE DEF S, K, tools
    <2>3. tools \in Seq(S)
      BY <2>1, <2>2, KeptStays
    <2>4. tools[1] \in S
      BY <1>9, <2>3, EmptySeq
    <2> DEFINE x == tools[1]
    <2>5. x \in P /\ x.size \in DOMAIN Names
      BY <2>4 DEF S
    <2> HIDE DEF x
    <2>6. b.content = RelayPrompt(visible, x, header)
      BY <1>4, <1>9 DEF x
    <2>7. /\ RelayPrompt(visible, x, header) \in Seq(P)
          /\ Weight(RelayPrompt(visible, x, header)) <= AgentLimit
          /\ TextIn(visible[Len(visible)].id, RelayPrompt(visible, x, header))
          /\ EndsIn(visible[Len(visible)].id, RelayPrompt(visible, x, header))
      BY <1>2, <1>7, <2>5, RelayFits
    <2> QED BY <1>5, <1>7, <2>6, <2>7 DEF T, b
  <1> QED BY <1>8, <1>9

-----------------------------------------------------------------------------
(* The conversation.                                                       *)

\* What the client has said so far: messages in order, after at most one tool
\* description.
HistoryInOrder ==
  /\ history \in Seq(Pieces(Len(history))) /\ Len(history) <= MaxMessages
  /\ \A i \in 1 .. Len(history) :
       history[i].id = i /\ history[i].kind \in {"system", "tools", "user", "assistant"}
  /\ ToolsKnown(history) /\ OneCatalogue(history)

\* What was sent is made of it.
SentOfHistory ==
  /\ route \in {"none", "chat", "agent"}
  /\ content \in Seq(Pieces(Len(history)))
  /\ references \in Seq({p \in Pieces(Len(history)) : \E i \in 1 .. Len(history) : p = history[i]})

ContentInv == HistoryInOrder /\ SentOfHistory /\ WithinGateway /\ TaskInContent

LEMMA PiecesGrow ==
  ASSUME NEW N \in Nat, NEW s \in Seq(Pieces(N))
  PROVE  s \in Seq(Pieces(N + 1))
  <1>1. Pieces(N) \subseteq Pieces(N + 1)
    <2>1. 0 .. N \subseteq 0 .. N + 1
      OBVIOUS
    <2> QED BY <2>1 DEF Pieces
  <1> QED BY <1>1, SeqMonotonic

\* A conversation after one more message.
LEMMA SaidInOrder ==
  ASSUME HistoryInOrder, Len(history) < MaxMessages,
         NEW kind \in {"system", "tools", "user", "assistant"}, NEW size \in Nat \ {0},
         NEW critical \in BOOLEAN,
         kind = "tools" => size \in DOMAIN Names /\ \A i \in 1 .. Len(history) : history[i].kind # "tools",
         history' = Said(kind, size, critical)
  PROVE  /\ HistoryInOrder' /\ Len(history)' = Len(history) + 1 /\ history' # <<>>
         /\ Len(history) \in Nat /\ history'[Len(history')].kind = kind
         /\ history'[Len(history')].size = size
         /\ \A i \in 1 .. Len(history) : history'[i] = history[i]
  <1> DEFINE N == Len(history)
             x == Part(N + 1, kind, size, critical)
             h == Append(history, x)
  <1>1. N \in Nat /\ history \in Seq(Pieces(N)) /\ N < MaxMessages /\ MaxMessages \in Nat
    BY Limits DEF HistoryInOrder
  <1>2. /\ x \in Pieces(N + 1) /\ x.id = N + 1 /\ x.kind = kind /\ x.size = size
    BY <1>1 DEF Part, Pieces, Kinds
  <1>3. history \in Seq(Pieces(N + 1))
    BY <1>1, PiecesGrow
  <1>4. history' = h
    BY DEF Said
  <1> HIDE DEF x
  <1>5. /\ h \in Seq(Pieces(N + 1)) /\ Len(h) = N + 1 /\ h[N + 1] = x
        /\ \A i \in 1 .. N : h[i] = history[i]
    BY <1>1, <1>2, <1>3
  <1>6. h # <<>>
    <2>1. Len(<<>>) = 0
      BY EmptySeq
    <2> QED BY <1>1, <1>5, <2>1
  <1>7. \A i \in 1 .. N + 1 : i \in 1 .. N \/ i = N + 1
    BY <1>1
  <1> HIDE DEF h, N
  <1>8. \A i \in 1 .. N + 1 : h[i].id = i /\ h[i].kind \in {"system", "tools", "user", "assistant"}
    <2>1. \A i \in 1 .. N : history[i].id = i /\ history[i].kind \in {"system", "tools", "user", "assistant"}
      BY DEF HistoryInOrder, N
    <2> QED BY <1>2, <1>5, <1>7, <2>1
  <1>9. ToolsKnown(h)
    <2>1. \A i \in 1 .. N : history[i].kind = "tools" => history[i].size \in DOMAIN Names
      BY DEF HistoryInOrder, ToolsKnown, N
    <2>2. \A i \in 1 .. N + 1 : h[i].kind = "tools" => h[i].size \in DOMAIN Names
      BY <1>2, <1>5, <1>7, <2>1
    <2> QED BY <1>5, <2>2 DEF ToolsKnown
  <1>10. OneCatalogue(h)
    <2>1. \A i, j \in 1 .. N : history[i].kind = "tools" /\ history[j].kind = "tools" => i = j
      BY DEF HistoryInOrder, OneCatalogue, N
    <2>2. \A i, j \in 1 .. N + 1 : h[i].kind = "tools" /\ h[j].kind = "tools" => i = j
      <3> SUFFICES ASSUME NEW i \in 1 .. N + 1, NEW j \in 1 .. N + 1,
                          h[i].kind = "tools", h[j].kind = "tools"
                   PROVE  i = j
        OBVIOUS
      <3>1. CASE kind = "tools"
        <4>1. \A m \in 1 .. N : history[m].kind # "tools"
          BY <3>1 DEF N
        <4>2. i = N + 1 /\ j = N + 1
          BY <1>5, <1>7, <4>1
        <4> QED BY <4>2
      <3>2. CASE kind # "tools"
        <4>1. i # N + 1 /\ j # N + 1
          BY <1>2, <1>5, <3>2
        <4>2. i \in 1 .. N /\ j \in 1 .. N
          BY <1>7, <4>1
        <4>3. history[i].kind = "tools" /\ history[j].kind = "tools"
          BY <1>5, <4>2
        <4> QED BY <2>1, <4>2, <4>3
      <3> QED BY <3>1, <3>2
    <2> QED BY <1>5, <2>2 DEF OneCatalogue
  <1>11. HistoryInOrder'
    <2>1. Len(h) <= MaxMessages
      BY <1>1, <1>5
    <2>2. /\ h \in Seq(Pieces(Len(h))) /\ Len(h) <= MaxMessages
          /\ \A i \in 1 .. Len(h) : h[i].id = i /\ h[i].kind \in {"system", "tools", "user", "assistant"}
          /\ ToolsKnown(h) /\ OneCatalogue(h)
      BY <1>5, <1>8, <1>9, <1>10, <2>1
    <2> QED BY <1>4, <2>2 DEF HistoryInOrder, ToolsKnown, OneCatalogue
  <1> QED BY <1>1, <1>2, <1>4, <1>5, <1>6, <1>11 DEF N

\* What is sent for a message of the user holds what was promised of it.
LEMMA SentForTask ==
  ASSUME HistoryInOrder', history' # <<>>, history'[Len(history')].kind = "user"
  PROVE  /\ Conversation(Len(history'), history')
         /\ Len(history') \in Nat
         /\ history'[Len(history')].id = Len(history')
  <1> DEFINE h == history'
  <1>1. /\ h \in Seq(Pieces(Len(h)))
        /\ \A i \in 1 .. Len(h) : h[i].id = i /\ h[i].kind \in {"system", "tools", "user", "assistant"}
        /\ ToolsKnown(h) /\ OneCatalogue(h)
    BY DEF HistoryInOrder, ToolsKnown, OneCatalogue
  <1>2. h # <<>> /\ h[Len(h)].kind = "user"
    OBVIOUS
  <1> HIDE DEF h
  <1>3. Len(h) \in Nat /\ Len(h) \in 1 .. Len(h)
    BY <1>1, <1>2, EmptySeq
  <1>4. Conversation(Len(h), h)
    BY <1>1, <1>2 DEF Conversation
  <1>5. h[Len(h)].id = Len(h)
    BY <1>1, <1>3
  <1> QED BY <1>3, <1>4, <1>5 DEF h

LEMMA ChatKeeps ==
  ASSUME HistoryInOrder', history' # <<>>, history'[Len(history')].kind = "user",
         NEW b, Sends("chat", b),
         Built(Len(history'), history', Len(history'), RefsBudget(Whole(history')), b)
  PROVE  ContentInv'
  <1> DEFINE h == history'
             c == content'
             N == Len(h)
             S == Spoken(N, h)
             budget == RefsBudget(Whole(h))
             T == {p \in Pieces(N) : \E i \in 1 .. N : p = h[i]}
  <1>1. /\ h \in Seq(Pieces(N)) /\ N \in Nat /\ h[N].id = N
        /\ \A i \in 1 .. N : h[i].id = i /\ h[i].kind \in {"system", "tools", "user", "assistant"}
    BY SentForTask DEF HistoryInOrder
  <1>2. route' = "chat" /\ c = b.content /\ references' = b.references
    BY DEF Sends
  <1>3. /\ b.content \in Seq(Pieces(N)) /\ Length(b.content) <= MaxLen /\ b.references \in Seq(S)
        /\ \/ TextIn(h[N].id, b.content)
           \/ b.references = <<>> /\ Fills(h)
           \/ b.references # <<>> /\ h[N].size + Pad > budget
           \/ Len(h) = 1 /\ h[1].size > MaxLen /\ b.content = <<TheHint>>
    BY DEF Built
  <1>4. S \subseteq T
    BY DEF Spoken
  <1>5. references' \in Seq(T)
    <2> HIDE DEF S, T
    <2> QED BY <1>2, <1>3, <1>4, SeqMonotonic
  <1>6. SentOfHistory'
    BY <1>2, <1>3, <1>5 DEF SentOfHistory
  <1>7. WithinGateway'
    <2>1. Length(c) <= MaxLen /\ route' = "chat"
      BY <1>2, <1>3
    <2>2. Length(content)' = Length(c)
      BY DEF Length, Sum
    <2> QED BY <2>1, <2>2 DEF WithinGateway
  <1>8. \/ TextIn(N, c)
        \/ references' = <<>> /\ Fills(h)
        \/ references' # <<>> /\ h[N].size + Pad > budget
        \/ N = 1 /\ h[1].size > MaxLen /\ c = <<TheHint>>
    BY <1>1, <1>2, <1>3
  <1>9. CASE TextIn(N, c)
    BY <1>2, <1>6, <1>7, <1>9 DEF ContentInv, TaskInContent, TextIn, Task
  <1>10. CASE references' = <<>> /\ Fills(h)
    <2>1. DOMAIN h = 1 .. N
      BY <1>1
    <2>2. \E i \in DOMAIN h : h[i].kind = "tools" /\ Compressed(h[i]).size + Reserve >= MaxLen
      BY <1>10, <2>1 DEF Fills
    <2>3. ToolsFill'
      BY <1>10, <2>2 DEF ToolsFill, Compressed
    <2> QED BY <1>2, <1>6, <1>7, <2>3 DEF ContentInv, TaskInContent
  <1>11. CASE references' # <<>> /\ h[N].size + Pad > budget
    <2>1. RefsBudget(Whole(history))' = budget
      BY DEF RefsBudget, SystemOf, Whole
    <2>2. Displaced'
      BY <1>11, <2>1 DEF Displaced, Task
    <2> QED BY <1>2, <1>6, <1>7, <2>2 DEF ContentInv, TaskInContent
  <1>12. CASE N = 1 /\ h[1].size > MaxLen /\ c = <<TheHint>>
    <2>1. Swallowed'
      BY <1>12 DEF Swallowed, TheHint, Part, Task
    <2> QED BY <1>2, <1>6, <1>7, <2>1 DEF ContentInv, TaskInContent
  <1> QED BY <1>8, <1>9, <1>10, <1>11, <1>12

LEMMA SizesKnown ==
  /\ \A size \in Sizes : size \in Nat \ {0}
  /\ \A size \in DOMAIN Names : size \in Nat \ {0}
  <1>1. Sizes \cup DOMAIN Names \subseteq Nat \ {0}
    BY BudgetAssumption
  <1> QED BY <1>1

LEMMA AsksKeeps ==
  ASSUME ContentInv, NEW size \in Sizes, NEW critical \in BOOLEAN, Asks(size, critical)
  PROVE  ContentInv'
  <1>1. HistoryInOrder /\ Len(history) < MaxMessages /\ history' = Said("user", size, critical)
        /\ Sends("chat", Build(history'))
    BY DEF ContentInv, Asks
  <1>2. size \in Nat \ {0}
    BY SizesKnown
  <1>3. HistoryInOrder' /\ history' # <<>> /\ history'[Len(history')].kind = "user"
    BY <1>1, <1>2, SaidInOrder
  <1>4. Conversation(Len(history'), history') /\ Len(history') \in Nat
    BY <1>3, SentForTask
  <1>5. Built(Len(history'), history', Len(history'), RefsBudget(Whole(history')), Build(history'))
    BY <1>4, BuildBuilt
  <1> QED BY <1>1, <1>3, <1>5, ChatKeeps

LEMMA AsksOnlyThatKeeps ==
  ASSUME ContentInv, NEW size \in Sizes, AsksOnlyThat(size)
  PROVE  ContentInv'
  <1>1. HistoryInOrder /\ Len(history) < MaxMessages /\ history' = Said("user", size, FALSE)
        /\ Sends("chat", BuildSingle(history'[1])) /\ history = <<>>
    <2>1. Len(<<>>) = 0
      BY EmptySeq
    <2> QED BY <2>1, Limits DEF ContentInv, AsksOnlyThat
  <1>2. size \in Nat \ {0}
    BY SizesKnown
  <1>3. /\ HistoryInOrder' /\ history' # <<>> /\ history'[Len(history')].kind = "user"
        /\ Len(history)' = 1
    <2>1. FALSE \in BOOLEAN /\ Len(<<>>) = 0
      BY EmptySeq
    <2>2. /\ HistoryInOrder' /\ history' # <<>> /\ history'[Len(history')].kind = "user"
          /\ Len(history)' = Len(history) + 1
      BY <1>1, <1>2, <2>1, SaidInOrder
    <2>3. Len(history) = 0
      BY <1>1, <2>1
    <2>4. Len(history)' = 1
      BY <2>2, <2>3
    <2> QED BY <2>2, <2>4
  <1> DEFINE h == history'
             p == h[1]
  <1>4. Len(h) = 1 /\ h \in Seq(Pieces(1)) /\ p \in Pieces(1) /\ p.kind = "user"
    <2>1. Len(h) = 1 /\ h \in Seq(Pieces(1))
      BY <1>3 DEF HistoryInOrder
    <2> QED BY <1>3, <2>1
  <1> HIDE DEF h
  <1>5. h = <<p>>
    BY <1>4, Single
  <1> HIDE DEF p
  <1>6. Built(1, h, 1, RefsBudget(Whole(h)), BuildSingle(p))
    BY <1>4, <1>5, SingleBuilt
  <1>7. Sends("chat", BuildSingle(p))
    BY <1>1 DEF h, p
  <1>8. Built(Len(history'), history', Len(history'), RefsBudget(Whole(history')), BuildSingle(p))
    BY <1>4, <1>6 DEF h
  <1> QED BY <1>3, <1>7, <1>8, ChatKeeps

LEMMA AsksAgentKeeps ==
  ASSUME ContentInv, NEW size \in Sizes, NEW header \in Headers, AsksAgent(size, header)
  PROVE  ContentInv'
  <1>1. HistoryInOrder /\ Len(history) < MaxMessages /\ history' = Said("user", size, FALSE)
        /\ Sends("agent", AgentPayload(history', header))
    BY DEF ContentInv, AsksAgent
  <1>2. size \in Nat \ {0} /\ FALSE \in BOOLEAN
    BY SizesKnown
  <1>3. HistoryInOrder' /\ history' # <<>> /\ history'[Len(history')].kind = "user"
    BY <1>1, <1>2, SaidInOrder
  <1>4. /\ Conversation(Len(history'), history') /\ Len(history') \in Nat
        /\ history'[Len(history')].id = Len(history')
    BY <1>3, SentForTask
  <1> DEFINE h == history'
             N == Len(h)
             b == AgentPayload(h, header)
  <1>5. /\ b.content \in Seq(Pieces(N)) /\ Weight(b.content) <= AgentLimit
        /\ b.references \in Seq({p \in Pieces(N) : \E i \in 1 .. N : p = h[i]})
        /\ TextIn(h[N].id, b.content) /\ EndsIn(h[N].id, b.content)
    BY <1>4, AgentBuilt
  <1>6. route' = "agent" /\ content' = b.content /\ references' = b.references
    BY <1>1 DEF Sends
  <1> HIDE DEF b
  <1>7. SentOfHistory'
    BY <1>5, <1>6 DEF SentOfHistory
  <1>8. WithinGateway'
    <2>1. Weight(content)' = Weight(content')
      BY DEF Weight, Sum
    <2> QED BY <1>5, <1>6, <2>1 DEF WithinGateway
  <1>9. TaskInContent'
    <2>1. TextIn(N, content') /\ EndsIn(N, content')
      BY <1>4, <1>5, <1>6
    <2>2. TextIn(Task, content)' /\ (Last(content).id = Task)'
      BY <2>1 DEF TextIn, EndsIn, Task, Last
    <2> QED BY <1>6, <2>2 DEF TaskInContent
  <1> QED BY <1>3, <1>7, <1>8, <1>9 DEF ContentInv

\* The client goes on without a request: nothing is sent, and nothing is asked.
LEMMA SaysKeeps ==
  ASSUME ContentInv, HistoryInOrder', Len(history)' = Len(history) + 1, Len(history) \in Nat,
         history' # <<>>, history'[Len(history')].kind # "user",
         \A i \in 1 .. Len(history) : history'[i] = history[i],
         UNCHANGED <<route, content, references>>
  PROVE  ContentInv'
  <1> DEFINE N == Len(history)
             M == Len(history')
  <1>1. N \in Nat /\ M = N + 1 /\ M \in Nat
    OBVIOUS
  <1>2. SentOfHistory
    BY DEF ContentInv
  <1>3. content' \in Seq(Pieces(M))
    BY <1>1, <1>2, PiecesGrow DEF SentOfHistory
  <1>4. references' \in Seq({p \in Pieces(M) : \E i \in 1 .. M : p = history'[i]})
    <2> DEFINE S == {p \in Pieces(N) : \E i \in 1 .. N : p = history[i]}
               T == {p \in Pieces(M) : \E i \in 1 .. M : p = history'[i]}
    <2>1. S \subseteq T
      <3> SUFFICES ASSUME NEW p \in S PROVE p \in T
        OBVIOUS
      <3>1. PICK i \in 1 .. N : p = history[i]
        OBVIOUS
      <3>2. i \in 1 .. M /\ p = history'[i]
        BY <1>1, <3>1
      <3>3. p \in Pieces(M)
        <4>1. 0 .. N \subseteq 0 .. M
          BY <1>1
        <4> HIDE DEF N, M
        <4> QED BY <4>1 DEF Pieces
      <3> QED BY <3>2, <3>3
    <2>2. references' \in Seq(S)
      BY <1>2 DEF SentOfHistory
    <2> HIDE DEF S, T
    <2>3. references' \in Seq(T)
      BY <2>1, <2>2, SeqMonotonic
    <2> QED BY <2>3 DEF T
  <1>5. SentOfHistory'
    BY <1>2, <1>3, <1>4 DEF SentOfHistory
  <1>6. WithinGateway'
    <2>1. Length(content)' = Length(content) /\ Weight(content)' = Weight(content)
      BY DEF Length, Weight, Sum
    <2> QED BY <2>1 DEF ContentInv, WithinGateway
  <1>7. TaskInContent'
    <2>1. ~ Requested'
      BY DEF Requested, Last
    <2> QED BY <2>1 DEF TaskInContent
  <1> QED BY <1>5, <1>6, <1>7 DEF ContentInv

LEMMA OffersKeeps ==
  ASSUME ContentInv, NEW kind \in {"system", "tools"}, NEW size \in Nat \ {0},
         kind = "tools" => size \in DOMAIN Names, Offers(kind, size)
  PROVE  ContentInv'
  <1>1. /\ HistoryInOrder /\ Len(history) < MaxMessages /\ history' = Said(kind, size, FALSE)
        /\ UNCHANGED <<route, content, references>>
        /\ \A i \in DOMAIN history : history[i].kind # kind
    BY DEF ContentInv, Offers
  <1>2. DOMAIN history = 1 .. Len(history)
    BY <1>1 DEF HistoryInOrder
  <1>3. kind = "tools" => size \in DOMAIN Names /\ \A i \in 1 .. Len(history) : history[i].kind # "tools"
    BY <1>1, <1>2
  <1>4. FALSE \in BOOLEAN /\ kind \in {"system", "tools", "user", "assistant"} /\ kind # "user"
    OBVIOUS
  <1>5. /\ HistoryInOrder' /\ Len(history)' = Len(history) + 1 /\ history' # <<>>
        /\ Len(history) \in Nat /\ history'[Len(history')].kind = kind
        /\ \A i \in 1 .. Len(history) : history'[i] = history[i]
    BY <1>1, <1>3, <1>4, SaidInOrder
  <1> QED BY <1>1, <1>4, <1>5, SaysKeeps

LEMMA AnswersKeeps ==
  ASSUME ContentInv, NEW size \in Sizes, NEW critical \in BOOLEAN, Answers(size, critical)
  PROVE  ContentInv'
  <1>1. /\ HistoryInOrder /\ Len(history) < MaxMessages
        /\ history' = Said("assistant", size, critical)
        /\ UNCHANGED <<route, content, references>>
    BY DEF ContentInv, Answers
  <1>2. size \in Nat \ {0}
    BY SizesKnown
  <1>3. /\ HistoryInOrder' /\ Len(history)' = Len(history) + 1 /\ history' # <<>>
        /\ Len(history) \in Nat /\ history'[Len(history')].kind = "assistant"
        /\ \A i \in 1 .. Len(history) : history'[i] = history[i]
    BY <1>1, <1>2, SaidInOrder
  <1> QED BY <1>1, <1>3, SaysKeeps

LEMMA ContentInitKeeps == ContentInit => ContentInv
  <1> SUFFICES ASSUME ContentInit PROVE ContentInv
    OBVIOUS
  <1>1. history = <<>> /\ content = <<>> /\ references = <<>> /\ route = "none"
    BY DEF ContentInit
  <1>2. Len(<<>>) = 0 /\ \A S : <<>> \in Seq(S)
    BY EmptySeq
  <1>3. HistoryInOrder
    BY <1>1, <1>2, Limits DEF HistoryInOrder, ToolsKnown, OneCatalogue
  <1>4. SentOfHistory
    BY <1>1, <1>2 DEF SentOfHistory
  <1>5. WithinGateway
    BY <1>1 DEF WithinGateway
  <1>6. TaskInContent
    BY <1>1 DEF TaskInContent, Requested
  <1> QED BY <1>3, <1>4, <1>5, <1>6 DEF ContentInv

LEMMA ContentStutters ==
  ASSUME ContentInv, UNCHANGED contentVars
  PROVE  ContentInv'
  <1>1. history' = history /\ route' = route /\ content' = content /\ references' = references
    BY DEF contentVars
  <1>2. HistoryInOrder'
    BY <1>1 DEF ContentInv, HistoryInOrder, ToolsKnown, OneCatalogue
  <1>3. SentOfHistory'
    BY <1>1 DEF ContentInv, SentOfHistory
  <1>4. WithinGateway'
    <2>1. Length(content)' = Length(content) /\ Weight(content)' = Weight(content)
      BY <1>1 DEF Length, Weight, Sum
    <2> QED BY <1>1, <2>1 DEF ContentInv, WithinGateway
  <1>5. TaskInContent'
    <2>1. /\ Requested' = Requested /\ TextIn(Task, content)' = TextIn(Task, content)
          /\ (Last(content).id = Task)' = (Last(content).id = Task)
      BY <1>1 DEF Requested, Last, TextIn, Task
    <2>2. ToolsFill' = ToolsFill
      BY <1>1 DEF ToolsFill, Compressed
    <2>3. Displaced' = Displaced /\ Swallowed' = Swallowed
      <3>1. RefsBudget(Whole(history))' = RefsBudget(Whole(history))
        BY <1>1 DEF RefsBudget, SystemOf, Whole
      <3>2. Displaced' = Displaced
        BY <1>1, <3>1 DEF Displaced, Task
      <3>3. Swallowed' = Swallowed
        BY <1>1 DEF Swallowed, TheHint, Part, Task
      <3> QED BY <3>2, <3>3
    <2> QED BY <1>1, <2>1, <2>2, <2>3 DEF ContentInv, TaskInContent
  <1> QED BY <1>2, <1>3, <1>4, <1>5 DEF ContentInv

LEMMA ContentKeeps == ContentInv /\ [ContentNext]_contentVars => ContentInv'
  <1> SUFFICES ASSUME ContentInv, [ContentNext]_contentVars PROVE ContentInv'
    OBVIOUS
  <1>1. ASSUME NEW size \in DOMAIN Names, Offers("tools", size) PROVE ContentInv'
    BY <1>1, SizesKnown, OffersKeeps
  <1>2. ASSUME NEW size \in Sizes, Offers("system", size) PROVE ContentInv'
    BY <1>2, SizesKnown, OffersKeeps
  <1> QED BY <1>1, <1>2, AsksKeeps, AsksOnlyThatKeeps, AsksAgentKeeps, AnswersKeeps, ContentStutters
          DEF ContentNext

\* What was sent is made of the conversation, fits and holds the task.
THEOREM ContentHolds == ContentSpec => []ContentInv
  BY ContentInitKeeps, ContentKeeps, PTL DEF ContentSpec

\* Messages are numbered in the order they were said, and everything that is sent or
\* referred to is made of them (map_claude_to_content, build_content_with_refs).
THEOREM ContentTyped == ContentSpec => []ContentTypeOK
  <1>1. ContentInv => ContentTypeOK
    <2> SUFFICES ASSUME ContentInv PROVE ContentTypeOK
      OBVIOUS
    <2>1. HistoryInOrder /\ SentOfHistory
      BY DEF ContentInv
    <2>2. \A i \in DOMAIN history :
            history[i].id = i /\ history[i].kind \in {"system", "tools", "user", "assistant"}
      BY <2>1 DEF HistoryInOrder
    <2>3. \A i \in DOMAIN content : content[i].id \in 0 .. Len(history) /\ content[i].size > 0
      <3> SUFFICES ASSUME NEW i \in DOMAIN content
                   PROVE  content[i].id \in 0 .. Len(history) /\ content[i].size > 0
        OBVIOUS
      <3>1. content[i] \in Pieces(Len(history))
        BY <2>1 DEF SentOfHistory
      <3> QED BY <3>1, PieceSize
    <2>4. \A i \in DOMAIN references : references[i] \in Range(history)
      <3> SUFFICES ASSUME NEW i \in DOMAIN references PROVE references[i] \in Range(history)
        OBVIOUS
      <3>1. PICK j \in 1 .. Len(history) : references[i] = history[j]
        BY <2>1 DEF SentOfHistory
      <3>2. j \in DOMAIN history
        BY <2>1 DEF HistoryInOrder
      <3> QED BY <3>1, <3>2 DEF Range
    <2> QED BY <2>1, <2>2, <2>3, <2>4 DEF HistoryInOrder, SentOfHistory, ContentTypeOK
  <1> QED BY <1>1, ContentHolds, PTL

\* No request is longer than the gateway of its route takes, whatever was compressed,
\* pinned or cut (build_content_with_refs, compress_content, build_relay_prompt).
THEOREM RequestsFit == ContentSpec => []WithinGateway
  <1>1. ContentInv => WithinGateway
    BY DEF ContentInv
  <1> QED BY <1>1, ContentHolds, PTL

\* The latest message of the user is in what is sent, at least a part of it: in a chat
\* request unless the tools leave no room for it, it was displaced by an older one or it
\* is a single one that is too long; to the Agent always, and last
\* (build_content_with_refs, compress_content, truncate_middle).
THEOREM TaskIsSent == ContentSpec => []TaskInContent
  <1>1. ContentInv => TaskInContent
    BY DEF ContentInv
  <1> QED BY <1>1, ContentHolds, PTL
=============================================================================
