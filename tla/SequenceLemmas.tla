--------------------------- MODULE SequenceLemmas ---------------------------
(***************************************************************************)
(* Induction up to a number, what a recursive function computes step by    *)
(* step, and what is kept of a sequence.                                   *)
(***************************************************************************)
EXTENDS Excerpts, FiniteSetsExt, SequenceTheorems, WellFoundedInduction, TLAPS

\* A set of natural numbers that is not empty has a least element.
LEMMA Least ==
  ASSUME NEW S \in SUBSET Nat, S # {}
  PROVE  \E i \in S : \A j \in S : i <= j
  <1> DEFINE R == {ss \in Nat \X Nat : ss[1] < ss[2]}
  <1>1. IsWellFoundedOn(R, Nat)
    BY NatLessThanWellFounded, Zenon DEF OpToRel
  <1>2. PICK i \in S : \A j \in S : ~ (<<j, i>> \in R)
    <2> HIDE DEF R
    <2> QED BY <1>1, WFMin, Zenon
  <1>3. \A j \in S : ~(j < i)
    BY <1>2
  <1> QED BY <1>3

\* What holds of 0 and is handed on by every step up to N holds up to N.
LEMMA UpTo ==
  ASSUME NEW N \in Nat, NEW G, 0 \in G, \A n \in 1 .. N : n - 1 \in G => n \in G
  PROVE  \A n \in 0 .. N : n \in G
  <1> SUFFICES ASSUME NEW m \in 0 .. N, m \notin G PROVE FALSE
    OBVIOUS
  <1>1. PICK i \in (0 .. N) \ G : \A j \in (0 .. N) \ G : i <= j
    <2> DEFINE B == (0 .. N) \ G
    <2>1. B \in SUBSET Nat /\ B # {}
      OBVIOUS
    <2> HIDE DEF B
    <2>2. \E i \in B : \A j \in B : i <= j
      BY <2>1, Least
    <2> QED BY <2>2 DEF B
  <1>2. i \in 1 .. N /\ i - 1 \in 0 .. N /\ ~(i <= i - 1)
    BY <1>1
  <1>3. i - 1 \in G
    BY <1>1, <1>2
  <1> QED BY <1>1, <1>2, <1>3

\* Steps 1 .. N on the elements of S, and what they make of b one after the other.
Steps(N, S) == [1 .. N -> [S -> S]]
Histories(N, S, b, g) ==
  {f \in [0 .. N -> S] : f[0] = b /\ \A n \in 1 .. N : f[n] = g[n][f[n - 1]]}

LEMMA History ==
  ASSUME NEW N \in Nat, NEW S, NEW b \in S, NEW g \in Steps(N, S)
  PROVE  \E f : f \in Histories(N, S, b, g)
  <1> DEFINE G == {m \in 0 .. N : \E f \in [0 .. m -> S] :
                     f[0] = b /\ \A n \in 1 .. m : f[n] = g[n][f[n - 1]]}
  <1>1. 0 \in G
    <2> DEFINE h == [n \in 0 .. 0 |-> b]
    <2>1. h \in [0 .. 0 -> S] /\ h[0] = b
      OBVIOUS
    <2> HIDE DEF h
    <2> QED BY <2>1
  <1>2. ASSUME NEW m \in 1 .. N, m - 1 \in G PROVE m \in G
    <2>1. PICK f \in [0 .. m - 1 -> S] : f[0] = b /\ \A n \in 1 .. m - 1 : f[n] = g[n][f[n - 1]]
      BY <1>2
    <2> DEFINE h == [n \in 0 .. m |-> IF n = m THEN g[m][f[m - 1]] ELSE f[n]]
    <2>2. g[m] \in [S -> S] /\ f[m - 1] \in S
      BY <2>1 DEF Steps
    <2>3. h \in [0 .. m -> S]
      BY <2>1, <2>2
    <2>4. h[0] = b /\ \A n \in 1 .. m : h[n] = g[n][h[n - 1]]
      BY <2>1
    <2> HIDE DEF h
    <2> QED BY <2>3, <2>4
  <1>3. N \in G
    <2> HIDE DEF G
    <2>1. \A m \in 1 .. N : m - 1 \in G => m \in G
      BY <1>2
    <2>2. \A m \in 0 .. N : m \in G
      BY <1>1, <2>1, UpTo, Zenon
    <2> QED BY <2>2
  <1>4. PICK f \in [0 .. N -> S] : f[0] = b /\ \A n \in 1 .. N : f[n] = g[n][f[n - 1]]
    BY <1>3
  <1>5. f \in Histories(N, S, b, g)
    BY <1>4 DEF Histories
  <1> QED BY <1>5

\* A set of numbers up to N that is not empty has a greatest element.
LEMMA Greatest ==
  ASSUME NEW N \in Nat, NEW S \in SUBSET (0 .. N), S # {}
  PROVE  Max(S) \in S /\ \A i \in S : i <= Max(S)
  <1> DEFINE R == {n \in Nat : N - n \in S}
  <1>1. R \in SUBSET Nat /\ R # {}
    <2>1. PICK i \in S : TRUE
      OBVIOUS
    <2>2. i \in 0 .. N /\ N - i \in Nat /\ N - (N - i) = i
      OBVIOUS
    <2> QED BY <2>1, <2>2
  <1>2. PICK n \in R : \A m \in R : n <= m
    <2> HIDE DEF R
    <2> QED BY <1>1, Least
  <1>3. N - n \in S
    BY <1>2
  <1>4. ASSUME NEW i \in S PROVE N - n >= i
    <2>1. i \in 0 .. N /\ N - i \in Nat /\ N - (N - i) = i
      OBVIOUS
    <2>2. N - i \in R /\ n \in Nat
      BY <2>1
    <2>3. n <= N - i
      <3> HIDE DEF R
      <3> QED BY <1>2, <2>2
    <2> QED BY <2>1, <2>2, <2>3
  <1>5. \E x \in S : \A y \in S : x >= y
    BY <1>3, <1>4
  <1>6. Max(S) \in S /\ \A y \in S : Max(S) >= y
    BY <1>5 DEF Max
  <1> QED BY <1>6

-----------------------------------------------------------------------------
(* Kept.                                                                   *)

\* What Kept(s, K) has collected after n elements.
KeptSoFar(s, K, T) ==
  {k \in [0 .. Len(s) -> Seq(T)] :
     /\ k[0] = <<>>
     /\ \A n \in 1 .. Len(s) : k[n] = k[n - 1] \o (IF n \in K THEN <<s[n]>> ELSE <<>>)}

LEMMA KeptSteps ==
  ASSUME NEW T, NEW K, NEW s, Len(s) \in Nat,
         \A n \in 1 .. Len(s) : n \in K => s[n] \in T
  PROVE  \E k \in KeptSoFar(s, K, T) : Kept(s, K) = k[Len(s)]
  <1> DEFINE N == Len(s)
             Step(n, q) == q \o (IF n \in K THEN <<s[n]>> ELSE <<>>)
             all[n \in 0 .. N] == IF n = 0 THEN <<>> ELSE Step(n, all[n - 1])
             g == [n \in 1 .. N |-> [q \in Seq(T) |-> Step(n, q)]]
  <1>1. N \in Nat /\ (\A n \in 1 .. N : n - 1 \in 0 .. N) /\ <<>> \in Seq(T)
    OBVIOUS
  <1>2. \A n \in 1 .. N, q \in Seq(T) : Step(n, q) \in Seq(T)
    OBVIOUS
  <1>3. Kept(s, K) = all[N]
    BY DEF Kept
  <1>a. \A n, q : Step(n, q) = q \o (IF n \in K THEN <<s[n]>> ELSE <<>>)
    OBVIOUS
  <1> HIDE DEF Step
  <1>4. g \in Steps(N, Seq(T))
    BY <1>2 DEF Steps
  <1>5. PICK f : f \in Histories(N, Seq(T), <<>>, g)
    <2> HIDE DEF g, N
    <2> QED BY <1>1, <1>4, History
  <1> HIDE DEF N
  <1>6. /\ f \in [0 .. N -> Seq(T)] /\ f[0] = <<>>
        /\ \A n \in 1 .. N : f[n] = Step(n, f[n - 1])
    <2>1. f \in [0 .. N -> Seq(T)] /\ f[0] = <<>> /\ \A n \in 1 .. N : f[n] = g[n][f[n - 1]]
      BY <1>5 DEF Histories
    <2>2. \A n \in 1 .. N : g[n][f[n - 1]] = Step(n, f[n - 1])
      BY <1>1, <2>1
    <2> HIDE DEF g
    <2> QED BY <2>1, <2>2
  <1>7. f = [n \in 0 .. N |-> IF n = 0 THEN <<>> ELSE Step(n, f[n - 1])]
    BY <1>1, <1>6
  <1>8. all = [n \in 0 .. N |-> IF n = 0 THEN <<>> ELSE Step(n, all[n - 1])]
    BY <1>7
  <1> HIDE DEF all
  <1>9. ASSUME NEW n \in 1 .. N, all[n - 1] = f[n - 1] PROVE all[n] = f[n]
    <2>1. n \in 0 .. N /\ n # 0
      BY <1>1
    <2>2. all[n] = Step(n, all[n - 1])
      BY <1>8, <2>1
    <2> QED BY <1>6, <1>9, <2>2
  <1>10. all[N] = f[N]
    <2> DEFINE G == {n \in 0 .. N : all[n] = f[n]}
    <2>1. 0 \in G
      BY <1>1, <1>6, <1>8
    <2>2. \A n \in 1 .. N : n - 1 \in G => n \in G
      BY <1>1, <1>9
    <2> HIDE DEF G
    <2>3. \A n \in 0 .. N : n \in G
      BY <1>1, <2>1, <2>2, UpTo, Zenon
    <2>4. N \in G
      BY <1>1, <2>3
    <2> QED BY <2>4 DEF G
  <1>11. f \in KeptSoFar(s, K, T)
    BY <1>6, <1>a DEF KeptSoFar, N
  <1> QED BY <1>3, <1>10, <1>11 DEF N

\* Elements at chosen positions form a sequence of such elements.
LEMMA KeptStays ==
  ASSUME NEW T, NEW K, NEW s, Len(s) \in Nat,
         \A n \in 1 .. Len(s) : n \in K => s[n] \in T
  PROVE  Kept(s, K) \in Seq(T)
  <1>1. PICK k \in KeptSoFar(s, K, T) : Kept(s, K) = k[Len(s)]
    BY KeptSteps
  <1> QED BY <1>1 DEF KeptSoFar

\* Each of them is there, and the last one last.
LEMMA KeptHas ==
  ASSUME NEW T, NEW s \in Seq(T), NEW K, NEW i \in K, i \in 1 .. Len(s)
  PROVE  /\ \E j \in 1 .. Len(Kept(s, K)) : Kept(s, K)[j] = s[i]
         /\ (\A j \in i + 1 .. Len(s) : j \notin K)
              => Kept(s, K) # <<>> /\ Kept(s, K)[Len(Kept(s, K))] = s[i]
  <1> DEFINE N == Len(s)
  <1>1. PICK k \in KeptSoFar(s, K, T) : Kept(s, K) = k[N]
    BY KeptSteps
  <1>2. /\ k \in [0 .. N -> Seq(T)] /\ N \in Nat
        /\ \A n \in 1 .. N : k[n] = k[n - 1] \o (IF n \in K THEN <<s[n]>> ELSE <<>>)
    <2>1. k \in [0 .. N -> Seq(T)]
      BY DEF KeptSoFar
    <2>2. \A n \in 1 .. N : k[n] = k[n - 1] \o (IF n \in K THEN <<s[n]>> ELSE <<>>)
      BY Zenon DEF KeptSoFar
    <2> QED BY <2>1, <2>2
  <1>3. \A n \in 1 .. N : s[n] \in T
    OBVIOUS
  <1>4. i \in 1 .. N
    OBVIOUS
  <1> HIDE DEF N
  <1>5. ASSUME NEW n \in 1 .. N
        PROVE  /\ k[n - 1] \in Seq(T) /\ k[n] \in Seq(T)
               /\ n \in K => /\ Len(k[n]) = Len(k[n - 1]) + 1 /\ k[n][Len(k[n])] = s[n]
                             /\ \A j \in 1 .. Len(k[n - 1]) : k[n][j] = k[n - 1][j]
               /\ n \notin K => k[n] = k[n - 1]
    <2>1. n - 1 \in 0 .. N /\ n \in 0 .. N
      BY <1>2
    <2>2. k[n - 1] \in Seq(T) /\ k[n] \in Seq(T) /\ s[n] \in T
      BY <1>2, <1>3, <2>1
    <2>3. k[n] = k[n - 1] \o (IF n \in K THEN <<s[n]>> ELSE <<>>)
      BY <1>2
    <2>4. CASE n \in K
      <3>1. k[n] = k[n - 1] \o <<s[n]>>
        BY <2>3, <2>4
      <3>2. /\ Len(k[n]) = Len(k[n - 1]) + 1 /\ k[n][Len(k[n])] = s[n]
            /\ \A j \in 1 .. Len(k[n - 1]) : k[n][j] = k[n - 1][j]
        BY <2>2, <3>1
      <3> QED BY <2>2, <2>4, <3>2
    <2>5. CASE n \notin K
      <3>1. k[n] = k[n - 1] \o <<>>
        BY <2>3, <2>5
      <3>2. k[n] = k[n - 1]
        BY <2>2, <3>1, ConcatEmptySeq
      <3> QED BY <2>2, <2>5, <3>2
    <2> QED BY <2>4, <2>5
  <1> DEFINE H(n) == \E j \in 1 .. Len(k[n]) : k[n][j] = s[i]
             E(n) == k[n] # <<>> /\ k[n][Len(k[n])] = s[i]
             A == \A j \in i + 1 .. N : j \notin K
             G == {n \in 0 .. N : n >= i => H(n) /\ (A => E(n))}
  <1>6. 0 \in G
    BY <1>2, <1>4
  <1>7. ASSUME NEW n \in 1 .. N, n - 1 \in G PROVE n \in G
    <2>1. CASE n < i
      BY <1>2, <1>4, <2>1
    <2>2. CASE n = i
      <3>1. Len(k[n]) = Len(k[n - 1]) + 1 /\ k[n][Len(k[n])] = s[i] /\ k[n - 1] \in Seq(T) /\ k[n] \in Seq(T)
        BY <1>5, <2>2
      <3>2. Len(k[n]) \in 1 .. Len(k[n]) /\ k[n] # <<>>
        BY <3>1
      <3>3. H(n) /\ E(n)
        BY <3>1, <3>2
      <3> HIDE DEF H, E, A
      <3> QED BY <1>2, <3>3
    <2>3. CASE n > i
      <3>1. n - 1 >= i
        BY <1>2, <1>4, <2>3
      <3>2. H(n - 1) /\ (A => E(n - 1))
        <4> HIDE DEF H, E, A
        <4> QED BY <1>7, <3>1
      <3>3. H(n)
        <4>1. PICK j \in 1 .. Len(k[n - 1]) : k[n - 1][j] = s[i]
          BY <3>2
        <4>2. CASE n \in K
          <5>1. k[n][j] = s[i] /\ Len(k[n]) = Len(k[n - 1]) + 1 /\ k[n - 1] \in Seq(T)
            BY <1>5, <4>1, <4>2
          <5>2. j \in 1 .. Len(k[n])
            BY <5>1
          <5> QED BY <5>1, <5>2
        <4>3. CASE n \notin K
          BY <1>5, <4>1, <4>3
        <4> QED BY <4>2, <4>3
      <3>4. A => E(n)
        <4> SUFFICES ASSUME A PROVE E(n)
          OBVIOUS
        <4>1. n \notin K
          BY <1>2, <1>4, <2>3
        <4> QED BY <1>5, <3>2, <4>1
      <3> HIDE DEF H, E, A
      <3> QED BY <1>2, <3>3, <3>4
    <2> QED BY <2>1, <2>2, <2>3, <1>2, <1>4
  <1>8. N \in G
    <2> HIDE DEF G
    <2>1. \A n \in 1 .. N : n - 1 \in G => n \in G
      BY <1>7
    <2>2. \A n \in 0 .. N : n \in G
      BY <1>2, <1>6, <2>1, UpTo, Zenon
    <2> QED BY <1>2, <2>2
  <1>9. H(N) /\ (A => E(N))
    <2> HIDE DEF H, E, A
    <2> QED BY <1>2, <1>4, <1>8
  <1> QED BY <1>1, <1>9 DEF N

\* At most one element is kept if there is at most one to keep.
LEMMA KeptOne ==
  ASSUME NEW T, NEW s \in Seq(T), NEW K,
         \A i, j \in 1 .. Len(s) : i \in K /\ j \in K => i = j
  PROVE  Len(Kept(s, K)) \in {0, 1}
  <1> DEFINE N == Len(s)
  <1>1. PICK k \in KeptSoFar(s, K, T) : Kept(s, K) = k[N]
    BY KeptSteps
  <1>2. /\ k \in [0 .. N -> Seq(T)] /\ N \in Nat /\ k[0] = <<>>
        /\ \A n \in 1 .. N : k[n] = k[n - 1] \o (IF n \in K THEN <<s[n]>> ELSE <<>>)
    <2>1. k \in [0 .. N -> Seq(T)] /\ k[0] = <<>>
      BY DEF KeptSoFar
    <2>2. \A n \in 1 .. N : k[n] = k[n - 1] \o (IF n \in K THEN <<s[n]>> ELSE <<>>)
      BY Zenon DEF KeptSoFar
    <2> QED BY <2>1, <2>2
  <1>3. \A n \in 1 .. N : s[n] \in T
    OBVIOUS
  <1>4. \A i, j \in 1 .. N : i \in K /\ j \in K => i = j
    OBVIOUS
  <1> HIDE DEF N
  <1> DEFINE None(n) == \A i \in 1 .. n : i \notin K
             G == {n \in 0 .. N : Len(k[n]) \in {0, 1} /\ (None(n) => Len(k[n]) = 0)}
  <1>5. 0 \in G
    BY <1>2
  <1>6. ASSUME NEW n \in 1 .. N, n - 1 \in G PROVE n \in G
    <2>1. n - 1 \in 0 .. N /\ n \in 0 .. N /\ k[n - 1] \in Seq(T)
      BY <1>2
    <2>2. Len(k[n - 1]) \in {0, 1} /\ (None(n - 1) => Len(k[n - 1]) = 0)
      BY <1>6
    <2>3. k[n] = k[n - 1] \o (IF n \in K THEN <<s[n]>> ELSE <<>>)
      BY <1>2
    <2>4. CASE n \in K
      <3>1. None(n - 1)
        <4> SUFFICES ASSUME NEW i \in 1 .. n - 1, i \in K PROVE FALSE
          OBVIOUS
        <4>1. i \in 1 .. N /\ i # n
          BY <1>2
        <4> QED BY <1>4, <2>4, <4>1
      <3>2. ~None(n)
        <4>1. n \in 1 .. n
          BY <1>2
        <4> QED BY <2>4, <4>1
      <3>3. k[n] = k[n - 1] \o <<s[n]>>
        BY <2>3, <2>4
      <3>4. Len(k[n]) = Len(k[n - 1]) + 1
        BY <1>3, <2>1, <3>3
      <3>5. Len(k[n - 1]) = 0
        <4> HIDE DEF None
        <4> QED BY <2>2, <3>1
      <3>6. Len(k[n]) = 1
        BY <3>4, <3>5
      <3> HIDE DEF None
      <3> QED BY <2>1, <3>2, <3>6
    <2>5. CASE n \notin K
      <3>1. k[n] = k[n - 1] \o <<>>
        BY <2>3, <2>5
      <3>2. k[n] = k[n - 1]
        BY <2>1, <3>1, ConcatEmptySeq
      <3>3. None(n) => None(n - 1)
        BY <1>2
      <3>4. Len(k[n]) \in {0, 1} /\ (None(n) => Len(k[n]) = 0)
        <4> HIDE DEF None
        <4> QED BY <2>2, <3>2, <3>3
      <3> HIDE DEF None
      <3> QED BY <2>1, <3>4
    <2> QED BY <2>4, <2>5
  <1>7. N \in G
    <2> HIDE DEF G
    <2>1. \A n \in 1 .. N : n - 1 \in G => n \in G
      BY <1>6
    <2>2. \A n \in 0 .. N : n \in G
      BY <1>2, <1>5, <2>1, UpTo, Zenon
    <2> QED BY <1>2, <2>2
  <1> QED BY <1>1, <1>7 DEF N

\* The first element is kept first.
LEMMA KeptFirst ==
  ASSUME NEW T, NEW s \in Seq(T), NEW K, 1 \in K, s # <<>>
  PROVE  Kept(s, K) # <<>> /\ Kept(s, K)[1] = s[1]
  <1> DEFINE N == Len(s)
  <1>1. PICK k \in KeptSoFar(s, K, T) : Kept(s, K) = k[N]
    <2>1. Len(s) \in Nat /\ \A n \in 1 .. Len(s) : n \in K => s[n] \in T
      OBVIOUS
    <2> QED BY <2>1, KeptSteps, Zenon
  <1>2. /\ k \in [0 .. N -> Seq(T)] /\ N \in Nat /\ k[0] = <<>>
        /\ \A n \in 1 .. N : k[n] = k[n - 1] \o (IF n \in K THEN <<s[n]>> ELSE <<>>)
    <2>1. k \in [0 .. N -> Seq(T)] /\ k[0] = <<>>
      BY DEF KeptSoFar
    <2>2. \A n \in 1 .. N : k[n] = k[n - 1] \o (IF n \in K THEN <<s[n]>> ELSE <<>>)
      BY Zenon DEF KeptSoFar
    <2> QED BY <2>1, <2>2
  <1>3. \A n \in 1 .. N : s[n] \in T
    OBVIOUS
  <1>4. N \in Nat \ {0} /\ 1 \in K
    BY EmptySeq
  <1> HIDE DEF N
  <1> DEFINE G == {n \in 0 .. N : n >= 1 => Len(k[n]) \in Nat \ {0} /\ k[n][1] = s[1]}
  <1>5. 0 \in G
    BY <1>2
  <1>6. ASSUME NEW n \in 1 .. N, n - 1 \in G PROVE n \in G
    <2>1. n - 1 \in 0 .. N /\ n \in 0 .. N /\ k[n - 1] \in Seq(T) /\ s[n] \in T
      BY <1>2, <1>3
    <2>2. k[n] = k[n - 1] \o (IF n \in K THEN <<s[n]>> ELSE <<>>)
      BY <1>2
    <2> DEFINE x == IF n \in K THEN <<s[n]>> ELSE <<>>
               q == k[n - 1]
    <2>3. x \in Seq(T) /\ Len(x) \in Nat
      BY <2>1
    <2>4. n = 1 => q = <<>> /\ x = <<s[1]>>
      BY <1>2, <1>4
    <2>5. n # 1 => Len(q) \in Nat \ {0} /\ q[1] = s[1]
      BY <1>6, <1>2
    <2> HIDE DEF x
    <2>6. k[n] = q \o x
      BY <2>2 DEF x
    <2>7. q \in Seq(T)
      BY <2>1
    <2> HIDE DEF q
    <2>8. /\ Len(q \o x) = Len(q) + Len(x)
          /\ \A i \in 1 .. Len(q) + Len(x) : (q \o x)[i] = IF i <= Len(q) THEN q[i] ELSE x[i - Len(q)]
      BY <2>3, <2>7, ConcatProperties
    <2>9. Len(k[n]) \in Nat \ {0} /\ k[n][1] = s[1]
      <3>1. CASE n = 1
        <4>1. k[n] = <<s[1]>>
          BY <2>3, <2>4, <2>6, <3>1, ConcatEmptySeq
        <4> QED BY <4>1
      <3>2. CASE n # 1
        <4>1. 1 \in 1 .. Len(q) + Len(x) /\ 1 <= Len(q) /\ Len(q) + Len(x) \in Nat \ {0}
          BY <2>3, <2>5, <3>2
        <4> QED BY <2>5, <2>6, <2>8, <3>2, <4>1
      <3> QED BY <3>1, <3>2
    <2> QED BY <2>1, <2>9
  <1>7. N \in G
    <2> HIDE DEF G
    <2>1. \A n \in 1 .. N : n - 1 \in G => n \in G
      BY <1>6
    <2>2. \A n \in 0 .. N : n \in G
      BY <1>2, <1>5, <2>1, UpTo, Zenon
    <2> QED BY <1>2, <2>2
  <1>8. Len(k[N]) \in Nat \ {0} /\ k[N][1] = s[1]
    BY <1>4, <1>7
  <1>9. k[N] # <<>>
    <2>1. Len(<<>>) = 0
      BY EmptySeq
    <2> QED BY <1>8, <2>1
  <1> QED BY <1>1, <1>8, <1>9
=============================================================================
