--------------------------- MODULE TokenPoolProofs ---------------------------
(***************************************************************************)
(* What TokenPool keeps for any number of tokens, requests and credentials *)
(* and for every cooldown: the entry, the cached client and the deadlines  *)
(* of a token agree, and the rotation advances.                            *)
(***************************************************************************)
EXTENDS TokenPool, FiniteSetTheorems, SequenceTheorems, TLAPS

-----------------------------------------------------------------------------
(* Positions.                                                              *)

\* A set of natural numbers that is not empty has a least element.
LEMMA Least ==
  ASSUME NEW S \in SUBSET Nat, S # {}
  PROVE  \E i \in S : \A j \in S : i <= j
  <1> DEFINE R == {ss \in Nat \X Nat : ss[1] < ss[2]}
  <1>1. IsWellFoundedOn(R, Nat)
    BY NatLessThanWellFounded, Zenon DEF OpToRel
  <1>2. PICK i \in S : \A j \in S : ~ (<<j, i>> \in R)
    <2> HIDE DEF R
    <2> QED BY <1>1, WFMin, Zenon
  <1>3. \A j \in S : ~(j < i)
    BY <1>2
  <1> QED BY <1>3

LEMMA FirstIsLeast ==
  ASSUME NEW S \in SUBSET Nat, S # {}
  PROVE  First(S) \in S /\ \A j \in S : First(S) <= j
  BY Least DEF First

\* What get_next chooses is available.
LEMMA ServedIsAvailable ==
  ASSUME TypeOK, AvailableAt # {}
  PROVE  LET k == First(IF After # {} THEN After ELSE AvailableAt) IN
         k \in AvailableAt /\ pool[k] \in Pool /\ pool[k] \in Tokens /\ pool[k] \in Rotating
  <1> DEFINE S == IF After # {} THEN After ELSE AvailableAt
  <1>1. S # {} /\ S \subseteq AvailableAt
    BY DEF After
  <1>2. AvailableAt \subseteq DOMAIN pool /\ DOMAIN pool \subseteq Nat
    BY DEF AvailableAt, TypeOK
  <1>3. First(S) \in AvailableAt
    <2> HIDE DEF S
    <2> QED BY <1>1, <1>2, FirstIsLeast
  <1>4. \A i \in AvailableAt : pool[i] \in Pool /\ pool[i] \in Tokens /\ pool[i] \in Rotating
    BY ElementOfSeq DEF AvailableAt, Pool, TypeOK
  <1> QED BY <1>3, <1>4

-----------------------------------------------------------------------------
(* Client objects.                                                         *)

\* The image of a finite set is not larger than the set.
LEMMA ImageBound ==
  ASSUME NEW S, IsFiniteSet(S), NEW f
  PROVE  /\ IsFiniteSet({f[x] : x \in S})
         /\ Cardinality({f[x] : x \in S}) <= Cardinality(S)
  <1> DEFINE T == {f[x] : x \in S}
             g == [x \in S |-> f[x]]
  <1>1. g \in Surjection(S, T)
    BY DEF Surjection
  <1>2. IsFiniteSet(T) /\ Cardinality(T) <= Cardinality(S)
    <2> HIDE DEF T, g
    <2> QED BY <1>1, FS_Surjection
  <1> QED BY <1>2

\* There is a client object to spare for a token that has none.
LEMMA ObjectToSpare ==
  ASSUME TypeOK, NEW t \in Tokens, clients[t] = NoObject
  PROVE  FreeObject \in Objects /\ FreeObject \notin InUse
  <1> DEFINE others == {clients[u] : u \in Tokens \ {t}}
             held   == {holds[h] : h \in Requests}
  <1>1. /\ IsFiniteSet(Tokens \ {t})
        /\ Cardinality(Tokens \ {t}) = Cardinality(Tokens) - 1
    BY FS_RemoveElement, FiniteAssumption
  <1>2. /\ Cardinality(Tokens) \in Nat
        /\ Cardinality(Requests) \in Nat
    BY FS_CardinalityType, FiniteAssumption
  <1>3. /\ IsFiniteSet(others) /\ Cardinality(others) \in Nat
        /\ Cardinality(others) <= Cardinality(Tokens) - 1
    <2>1. IsFiniteSet(others) /\ Cardinality(others) <= Cardinality(Tokens \ {t})
      BY <1>1, ImageBound
    <2> QED BY <2>1, <1>1, FS_CardinalityType
  <1>4. /\ IsFiniteSet(held) /\ Cardinality(held) \in Nat
        /\ Cardinality(held) <= Cardinality(Requests)
    <2>1. IsFiniteSet(held) /\ Cardinality(held) <= Cardinality(Requests)
      BY ImageBound, FiniteAssumption
    <2> QED BY <2>1, FS_CardinalityType
  <1>5. /\ IsFiniteSet(others \cup held)
        /\ Cardinality(others \cup held) < Cardinality(Tokens) + Cardinality(Requests)
    <2> HIDE DEF others, held
    <2>1. /\ IsFiniteSet(others \cup held)
          /\ Cardinality(others \cup held)
               = Cardinality(others) + Cardinality(held) - Cardinality(others \cap held)
      BY <1>3, <1>4, FS_Union
    <2>2. Cardinality(others \cap held) \in Nat
      BY <1>3, FS_Subset, FS_CardinalityType
    <2> QED BY <2>1, <2>2, <1>2, <1>3, <1>4
  <1>6. IsFiniteSet(Objects) /\ Cardinality(Objects) = Cardinality(Tokens) + Cardinality(Requests)
    <2>1. ASSUME NEW n \in Nat
          PROVE  IsFiniteSet(1 .. n) /\ Cardinality(1 .. n) = n
      BY FS_Interval
    <2> QED BY <1>2, <2>1 DEF Objects
  <1>7. \E o \in Objects : o \notin others \cup held
    <2> HIDE DEF others, held
    <2>1. SUFFICES ASSUME Objects \subseteq others \cup held
                   PROVE  FALSE
      OBVIOUS
    <2>2. Cardinality(Objects) <= Cardinality(others \cup held)
      BY <2>1, <1>5, FS_Subset
    <2> QED BY <2>2, <1>2, <1>5, <1>6, FS_CardinalityType
  <1>8. NoObject \notin Objects
    BY <1>2 DEF NoObject, Objects
  <1>9. \E o \in Objects : o \notin InUse
    BY <1>7, <1>8 DEF InUse
  <1> QED BY <1>9 DEF FreeObject

\* The client of a token is its own.
LEMMA ClientIsItsOwn ==
  ASSUME TypeOK, NEW t \in Tokens
  PROVE  /\ ClientOf(t) \in Objects
         /\ ClientOf(t) # NoObject
         /\ clients[t] = NoObject => \A u \in Tokens : clients[u] # ClientOf(t)
  <1>1. Cardinality(Tokens) \in Nat /\ Cardinality(Requests) \in Nat
    BY FS_CardinalityType, FiniteAssumption
  <1>2. NoObject \notin Objects
    BY <1>1 DEF NoObject, Objects
  <1>3. CASE clients[t] = NoObject
    BY <1>2, <1>3, ObjectToSpare DEF ClientOf, InUse
  <1>4. CASE clients[t] # NoObject
    BY <1>2, <1>4 DEF ClientOf, TypeOK
  <1> QED BY <1>3, <1>4

-----------------------------------------------------------------------------
(* Types.                                                                  *)

Entries == [enabled : BOOLEAN, status : Statuses, errors : 0 .. ErrorCap,
            until : Deadlines, value : Creds \cup {NoCred}]
Clients == [sends : Creds \cup {NoCred}, jar : Creds \cup {NoCred}]

\* Only objects that some token or request refers to are kept.
LEMMA StoreTyped ==
  ASSUME NEW table \in [Objects -> Clients], StoreIs(table)
  PROVE  store' \in [Objects -> Clients]
  BY DEF StoreIs, NoClient, Clients

\* A request takes a token in Serve and AdminUses.
LEMMA TakeTyped ==
  ASSUME TypeOK, NEW h \in Requests, NEW t \in Tokens, NEW purpose \in {"serving", "admin"},
         Take(h, t, purpose)
  PROVE  /\ clients' \in [Tokens -> Objects \cup {NoObject}]
         /\ store' \in [Objects -> Clients]
         /\ pc' \in [Requests -> {"idle", "serving", "admin", "testing"}]
         /\ token' \in [Requests -> Tokens \cup {NoToken}]
         /\ holds' \in [Requests -> Objects \cup {NoObject}]
         /\ \A g \in Requests : holds'[g] # NoObject <=> pc'[g] \in {"serving", "admin"}
  <1>1. ClientOf(t) \in Objects /\ ClientOf(t) # NoObject
    BY ClientIsItsOwn
  <1> DEFINE table == [store EXCEPT ![ClientOf(t)] =
                         IF clients[t] = NoObject
                         THEN [sends |-> entry[t].value, jar |-> NoCred] ELSE @]
  <1>2. table \in [Objects -> Clients]
    BY <1>1 DEF TypeOK, Clients
  <1>3. StoreIs(table)
    BY DEF Take
  <1>4. store' \in [Objects -> Clients]
    <2> HIDE DEF table
    <2> QED BY <1>2, <1>3, StoreTyped
  <1>5. /\ clients' = [clients EXCEPT ![t] = ClientOf(t)]
        /\ pc' = [pc EXCEPT ![h] = purpose]
        /\ token' = [token EXCEPT ![h] = t]
        /\ holds' = [holds EXCEPT ![h] = ClientOf(t)]
    BY DEF Take
  <1> HIDE DEF table
  <1> QED BY <1>1, <1>4, <1>5 DEF TypeOK

LEMMA ReleaseTyped ==
  ASSUME TypeOK, NEW h \in Requests, Release(h)
  PROVE  /\ pc' \in [Requests -> {"idle", "serving", "admin", "testing"}]
         /\ token' \in [Requests -> Tokens \cup {NoToken}]
         /\ holds' \in [Requests -> Objects \cup {NoObject}]
         /\ \A g \in Requests : holds'[g] # NoObject <=> pc'[g] \in {"serving", "admin"}
  BY DEF Release, TypeOK

LEMMA DeadlineTyped ==
  ASSUME TypeOK, NEW t \in Tokens
  PROVE  Deadline(t) \in Deadlines /\ Remembered(t) \in Deadlines /\ Cleared(t) \in Entries
  <1>1. entry[t] \in Entries
    BY DEF TypeOK, Entries
  <1>2. Cleared(t) \in Entries
    <2>1. 0 \in 0 .. ErrorCap /\ "unknown" \in Statuses /\ Absent \in Deadlines
      BY CapAssumption DEF Statuses, Deadlines
    <2> QED BY <1>1, <2>1 DEF Cleared, Entries
  <1>3. cooldowns[t] \in Deadlines /\ entry[t].until \in Deadlines
    BY <1>1 DEF TypeOK, Entries
  <1> QED BY <1>2, <1>3 DEF Deadline, Later, Remembered, Deadlines, Absent

LEMMA LookTyped ==
  ASSUME TypeOK, NEW S, Look(S)
  PROVE  entry' \in [Tokens -> Entries] /\ cooldowns' \in [Tokens -> Deadlines]
  <1>1. \A t \in Tokens : entry[t] \in Entries /\ cooldowns[t] \in Deadlines
    BY DEF TypeOK, Entries
  <1> QED BY <1>1, DeadlineTyped DEF Look

\* The cooldown of a failed call is a number of time units.
LEMMA CooldownTyped ==
  ASSUME NEW n \in Nat, NEW f \in Failures
  PROVE  CooldownFor(n, f) \in Nat
  <1>1. f.retryAfter \in Nat
    BY DurationsAssumption DEF Failures
  <1>2. \A b : (IF b \in 0 .. MaxQuota THEN b ELSE MaxQuota) \in Nat
    BY DurationsAssumption
  <1> QED BY <1>1, <1>2, DurationsAssumption DEF CooldownFor

LEMMA VerdictTyped ==
  ASSUME TypeOK, NEW t \in Tokens, NEW n \in Nat, NEW f \in Failures
  PROVE  Verdict(t, n, f) \in [status : Statuses, until : Deadlines, memory : Deadlines]
  <1>1. cooldowns[t] \in Deadlines
    BY DEF TypeOK
  <1> QED BY <1>1, CooldownTyped DEF Verdict, Deadlines, Statuses, Absent

\* The position of a token that is taken out is closed.
LEMMA TakenOut ==
  ASSUME NEW S, NEW q \in Seq(S), NEW i \in DOMAIN q
  PROVE  LET rest == SubSeq(q, 1, i - 1) \o SubSeq(q, i + 1, Len(q)) IN
         /\ rest \in Seq(S)
         /\ Len(rest) = Len(q) - 1
         /\ \A j \in DOMAIN rest : rest[j] = q[IF j < i THEN j ELSE j + 1]
  <1> DEFINE front == SubSeq(q, 1, i - 1)
             back  == SubSeq(q, i + 1, Len(q))
  <1>1. Len(q) \in Nat /\ i \in 1 .. Len(q) /\ \A j \in 1 .. Len(q) : q[j] \in S
    BY LenProperties, ElementOfSeq
  <1>2. /\ front \in Seq(S)
        /\ Len(front) = i - 1
        /\ \A j \in 1 .. i - 1 : front[j] = q[j]
    <2>1. \A j \in 1 .. i - 1 : q[j] \in S
      BY <1>1
    <2> QED BY <1>1, <2>1, SubSeqProperties
  <1>3. /\ back \in Seq(S)
        /\ Len(back) = Len(q) - i
        /\ \A j \in 1 .. Len(q) - i : back[j] = q[i + j]
    <2>1. \A j \in i + 1 .. Len(q) : q[j] \in S
      BY <1>1
    <2>2. /\ back \in Seq(S)
          /\ Len(back) = IF i + 1 <= Len(q) THEN Len(q) - (i + 1) + 1 ELSE 0
          /\ \A j \in 1 .. Len(q) - (i + 1) + 1 : back[j] = q[i + 1 + j - 1]
      BY <1>1, <2>1, SubSeqProperties
    <2> HIDE DEF back
    <2> QED BY <1>1, <2>2
  <1> HIDE DEF front, back
  <1>4. /\ front \o back \in Seq(S)
        /\ Len(front \o back) = Len(front) + Len(back)
        /\ \A j \in 1 .. Len(front) + Len(back) :
             (front \o back)[j] = IF j <= Len(front) THEN front[j] ELSE back[j - Len(front)]
    BY <1>2, <1>3, ConcatProperties
  <1>5. ASSUME NEW j \in 1 .. Len(q) - 1
        PROVE  (front \o back)[j] = q[IF j < i THEN j ELSE j + 1]
    <2>1. (front \o back)[j] = IF j <= i - 1 THEN front[j] ELSE back[j - (i - 1)]
      <3>1. j \in 1 .. Len(front) + Len(back)
        BY <1>1, <1>2, <1>3
      <3>2. (front \o back)[j] = IF j <= Len(front) THEN front[j] ELSE back[j - Len(front)]
        BY <3>1, <1>4
      <3> QED BY <3>2, <1>2
    <2>2. CASE j < i
      BY <2>1, <2>2, <1>1, <1>2
    <2>3. CASE ~ (j < i)
      <3>1. j - (i - 1) \in 1 .. Len(q) - i /\ i + (j - (i - 1)) = j + 1
        BY <2>3, <1>1
      <3>2. back[j - (i - 1)] = q[j + 1]
        BY <3>1, <1>3
      <3> QED BY <3>2, <2>1, <2>3, <1>1
    <2> QED BY <2>2, <2>3
  <1>6. Len(front \o back) = Len(q) - 1
    BY <1>1, <1>2, <1>3, <1>4
  <1>7. DOMAIN (front \o back) = 1 .. Len(q) - 1
    BY <1>4, <1>6, LenProperties
  <1> QED BY <1>4, <1>5, <1>6, <1>7 DEF front, back

\* The entry of a token after a report.
LEMMA Reported ==
  ASSUME entry \in [Tokens -> Entries], NEW t \in Tokens,
         NEW st \in Statuses, NEW n \in 0 .. ErrorCap, NEW d \in Deadlines
  PROVE  [entry EXCEPT ![t].status = st, ![t].errors = n, ![t].until = d]
           \in [Tokens -> Entries]
  <1>1. entry[t] \in Entries
    OBVIOUS
  <1>2. [entry[t] EXCEPT !.status = st, !.errors = n, !.until = d] \in Entries
    BY <1>1 DEF Entries
  <1>3. [entry EXCEPT ![t].status = st, ![t].errors = n, ![t].until = d]
          = [entry EXCEPT ![t] = [entry[t] EXCEPT !.status = st, !.errors = n, !.until = d]]
    OBVIOUS
  <1> QED BY <1>2, <1>3

LEMMA TypeStep == TypeOK /\ [Next]_vars => TypeOK'
  <1> SUFFICES ASSUME TypeOK, [Next]_vars PROVE TypeOK'
    OBVIOUS
  <1>types. /\ entry \in [Tokens -> Entries] /\ store \in [Objects -> Clients]
            /\ \A t \in Tokens : entry[t] \in Entries /\ cooldowns[t] \in Deadlines
    BY DEF TypeOK, Entries, Clients
  <1>consts. /\ 0 \in 0 .. ErrorCap /\ Absent \in Deadlines
             /\ {"unknown", "active", "error"} \subseteq Statuses
    BY CapAssumption DEF Deadlines, Statuses
  <1>pool. Pool \subseteq Tokens
    BY ElementOfSeq DEF TypeOK, Pool
  <1>1. CASE Tick
    <2>1. \A d \in Deadlines : Left(d) \in Deadlines
      BY DEF Left, Deadlines, Absent
    <2>2. entry' \in [Tokens -> Entries] /\ cooldowns' \in [Tokens -> Deadlines]
      BY <1>1, <1>types, <2>1 DEF Tick, Entries
    <2> QED BY <1>1, <2>2 DEF Tick, TypeOK, Entries, requestVars
  <1>2. CASE ServeNothing
    <2>1. entry' \in [Tokens -> Entries] /\ cooldowns' \in [Tokens -> Deadlines]
      BY <1>2, LookTyped DEF ServeNothing
    <2> QED BY <1>2, <2>1 DEF ServeNothing, TypeOK, Entries, requestVars
  <1>3. CASE ListTokens
    <2>1. \A t \in Tokens : [entry[t] EXCEPT !.until = Absent] \in Entries
      BY <1>types, <1>consts DEF Entries
    <2>2. entry' \in [Tokens -> Entries] /\ cooldowns' \in [Tokens -> Deadlines]
      BY <1>3, <1>types, <1>consts, <2>1, DeadlineTyped DEF ListTokens
    <2> QED BY <1>3, <2>2 DEF ListTokens, TypeOK, Entries, requestVars
  <1>4. CASE Restart
    BY <1>4, <1>consts DEF Restart, TypeOK, configVars, NoClient
  <1>5. ASSUME NEW h \in Requests, Serve(h) PROVE TypeOK'
    <2>1. PICK t \in Tokens : last' = t /\ Take(h, t, "serving")
      BY <1>5, ServedIsAvailable DEF Serve
    <2>2. entry' \in [Tokens -> Entries] /\ cooldowns' \in [Tokens -> Deadlines]
      BY <1>5, LookTyped DEF Serve
    <2>3. /\ clients' \in [Tokens -> Objects \cup {NoObject}]
          /\ store' \in [Objects -> Clients]
          /\ pc' \in [Requests -> {"idle", "serving", "admin", "testing"}]
          /\ token' \in [Requests -> Tokens \cup {NoToken}]
          /\ holds' \in [Requests -> Objects \cup {NoObject}]
          /\ \A g \in Requests : holds'[g] # NoObject <=> pc'[g] \in {"serving", "admin"}
      BY <2>1, TakeTyped
    <2>4. UNCHANGED <<pool, unused>>
      BY <1>5 DEF Serve
    <2> QED BY <2>1, <2>2, <2>3, <2>4 DEF TypeOK, Entries, Clients
  <1>6. ASSUME NEW h \in Requests, NEW t \in Tokens, AdminUses(h, t) PROVE TypeOK'
    <2>1. Take(h, t, "admin") /\ UNCHANGED <<configVars, cooldowns, last>>
      BY <1>6 DEF AdminUses
    <2>2. /\ clients' \in [Tokens -> Objects \cup {NoObject}]
          /\ store' \in [Objects -> Clients]
          /\ pc' \in [Requests -> {"idle", "serving", "admin", "testing"}]
          /\ token' \in [Requests -> Tokens \cup {NoToken}]
          /\ holds' \in [Requests -> Objects \cup {NoObject}]
          /\ \A g \in Requests : holds'[g] # NoObject <=> pc'[g] \in {"serving", "admin"}
      BY <2>1, TakeTyped
    <2> QED BY <2>1, <2>2 DEF TypeOK, Clients, configVars
  <1>7. ASSUME NEW h \in Requests, NEW v \in Creds, CookiesRotate(h, v) PROVE TypeOK'
    <2>1. store' \in [Objects -> Clients]
      BY <1>7, <1>types DEF CookiesRotate, Clients
    <2> QED BY <1>7, <2>1 DEF CookiesRotate, TypeOK, Clients, configVars, requestVars
  <1>8. ASSUME NEW h \in Requests, Refresh(h) PROVE TypeOK'
    <2>1. holds[h] \in Objects /\ token[h] \in Tokens
      BY <1>8, <1>pool DEF Refresh, Refreshes, TypeOK
    <2>2. store[holds[h]].jar \in Creds \cup {NoCred}
      BY <2>1, <1>types DEF Clients
    <2>3. entry' \in [Tokens -> Entries]
      BY <1>8, <2>1, <2>2, <1>types DEF Refresh, Entries
    <2>4. Synced(h) \in [Objects -> Clients]
      BY <2>1, <2>2, <1>types DEF Synced, Clients
    <2> QED BY <1>8, <2>3, <2>4 DEF Refresh, TypeOK, Entries, Clients, requestVars
  <1>9. ASSUME NEW h \in Requests, Succeeds(h) PROVE TypeOK'
    <2>1. token[h] \in Tokens
      BY <1>9, <1>pool DEF Succeeds
    <2>2. entry' \in [Tokens -> Entries] /\ cooldowns' \in [Tokens -> Deadlines]
      <3>1. entry' \in [Tokens -> Entries]
        BY <1>9, <2>1, <1>types, <1>consts, Reported DEF Succeeds
      <3>2. cooldowns' \in [Tokens -> Deadlines]
        BY <1>9, <1>consts DEF Succeeds, TypeOK
      <3> QED BY <3>1, <3>2
    <2>3. store' \in [Objects -> Clients]
      BY <1>9, <1>types, StoreTyped DEF Succeeds
    <2>4. Release(h) /\ UNCHANGED <<pool, unused, clients, last>>
      BY <1>9 DEF Succeeds
    <2> QED BY <2>2, <2>3, <2>4, ReleaseTyped DEF TypeOK, Entries, Clients
  <1>10. ASSUME NEW h \in Requests, NEW f \in Failures, Fails(h, f) PROVE TypeOK'
    <2> DEFINE t == token[h]
               n == CountError(entry[t].errors)
               verdict == Verdict(t, n, f)
    <2>1. t \in Tokens
      BY <1>10, <1>pool DEF Fails
    <2>2. n \in 0 .. ErrorCap /\ n \in Nat
      BY <2>1, <1>types, CapAssumption DEF CountError, Entries
    <2>3. verdict \in [status : Statuses, until : Deadlines, memory : Deadlines]
      <3> HIDE DEF t, n
      <3> QED BY <2>1, <2>2, VerdictTyped
    <2>4. /\ entry' = [entry EXCEPT ![t].status = verdict.status, ![t].errors = n,
                                    ![t].until = verdict.until]
          /\ cooldowns' = [cooldowns EXCEPT ![t] = verdict.memory]
          /\ Release(h) /\ UNCHANGED <<pool, unused, clients, last>>
          /\ StoreIs(store)
      BY <1>10 DEF Fails
    <2>5. entry' \in [Tokens -> Entries] /\ cooldowns' \in [Tokens -> Deadlines]
      <3> HIDE DEF t, n, verdict
      <3>1. verdict.status \in Statuses /\ verdict.until \in Deadlines /\ verdict.memory \in Deadlines
        BY <2>3
      <3>2. entry' \in [Tokens -> Entries]
        BY <3>1, <2>1, <2>2, <2>4, <1>types, Reported
      <3>3. cooldowns' \in [Tokens -> Deadlines]
        BY <3>1, <2>4 DEF TypeOK
      <3> QED BY <3>2, <3>3
    <2>6. store' \in [Objects -> Clients]
      BY <2>4, <1>types, StoreTyped
    <2> QED BY <2>4, <2>5, <2>6, ReleaseTyped DEF TypeOK, Entries, Clients
  <1>11. ASSUME NEW h \in Requests, Leaves(h) PROVE TypeOK'
    <2>1. Release(h) /\ UNCHANGED <<configVars, cooldowns, clients, last>> /\ StoreIs(store)
      BY <1>11 DEF Leaves
    <2>2. store' \in [Objects -> Clients]
      BY <2>1, <1>types, StoreTyped
    <2> QED BY <2>1, <2>2, ReleaseTyped DEF TypeOK, Clients, configVars
  <1>12. ASSUME NEW h \in Requests, NEW t \in Tokens, TestStarts(h, t) PROVE TypeOK'
    BY <1>12 DEF TestStarts, TypeOK, configVars, memoryVars
  <1>13. ASSUME NEW h \in Requests, NEW ok \in BOOLEAN, TestEnds(h, ok) PROVE TypeOK'
    <2>1. Release(h) /\ UNCHANGED <<pool, unused, memoryVars>>
      BY <1>13 DEF TestEnds
    <2>2. entry' \in [Tokens -> Entries]
      BY <1>13, <1>types, <1>consts, <1>pool DEF TestEnds, Entries
    <2> QED BY <2>1, <2>2, ReleaseTyped DEF TypeOK, Entries, memoryVars
  <1>14. ASSUME NEW t \in Tokens, DeleteToken(t) PROVE TypeOK'
    <2>1. pool' \in Seq(Tokens)
      <3>1. PICK i \in DOMAIN pool :
              pool' = SubSeq(pool, 1, i - 1) \o SubSeq(pool, i + 1, Len(pool))
        BY <1>14 DEF DeleteToken
      <3>2. pool \in Seq(Tokens)
        BY DEF TypeOK
      <3> QED BY <3>1, <3>2, TakenOut
    <2>2. NewEntry(NoCred, FALSE) \in Entries
      BY <1>consts DEF NewEntry, Entries
    <2>3. entry' \in [Tokens -> Entries]
      BY <1>14, <2>2, <1>types DEF DeleteToken
    <2>4. store' \in [Objects -> Clients]
      BY <1>14, <1>types, StoreTyped DEF DeleteToken
    <2>5. RemoveClient(t) /\ UNCHANGED <<unused, last, requestVars>>
      BY <1>14 DEF DeleteToken
    <2> QED BY <2>1, <2>3, <2>4, <2>5, <1>consts
          DEF RemoveClient, TypeOK, Entries, Clients, requestVars
  <1>15. ASSUME NEW t \in Tokens, NEW v \in Creds \cup {NoCred}, NEW on \in BOOLEAN,
                UpdateToken(t, v, on)
         PROVE  TypeOK'
    <2>1. entry' \in [Tokens -> Entries]
      BY <1>15, <1>types DEF UpdateToken, Entries
    <2>2. store' \in [Objects -> Clients]
      BY <1>15, <1>types, StoreTyped DEF UpdateToken
    <2>3. RemoveClient(t) \/ UNCHANGED <<clients, cooldowns>>
      BY <1>15 DEF UpdateToken
    <2>4. UNCHANGED <<pool, unused, last, requestVars>>
      BY <1>15 DEF UpdateToken
    <2> QED BY <2>1, <2>2, <2>3, <2>4, <1>consts, ZenonT(60)
          DEF RemoveClient, TypeOK, Entries, Clients, requestVars
  <1>16. ASSUME NEW t \in Tokens, NEW v \in Creds, NEW on \in BOOLEAN, AddToken(t, v, on)
         PROVE  TypeOK'
    <2>1. NewEntry(v, on) \in Entries
      BY <1>consts DEF NewEntry, Entries
    <2>2. entry' \in [Tokens -> Entries]
      BY <1>16, <2>1, <1>types DEF AddToken
    <2>3. pool' \in Seq(Tokens)
      BY <1>16 DEF AddToken, TypeOK
    <2> QED BY <1>16, <2>2, <2>3 DEF AddToken, TypeOK, Entries, memoryVars, requestVars
  <1>17. CASE UNCHANGED vars
    BY <1>17 DEF vars, configVars, memoryVars, requestVars, TypeOK
  <1> QED BY <1>1, <1>2, <1>3, <1>4, <1>5, <1>6, <1>7, <1>8, <1>9, <1>10, <1>11, <1>12,
             <1>13, <1>14, <1>15, <1>16, <1>17 DEF Next, RequestStep, AdminStep

\* Every variable keeps its type, and the objects that tokens and requests refer
\* to are always enough.
THEOREM PoolTyped == Spec => []TypeOK
  <1>1. Init => TypeOK
    BY CapAssumption DEF Init, TypeOK, NewEntry, NoClient, Deadlines, Statuses
  <1> QED BY <1>1, TypeStep, PTL DEF Spec

-----------------------------------------------------------------------------
(* The pool and the clients.                                               *)

\* A token is in the pool once, one that was not drawn yet is not in it, and
\* no two tokens share a client.
PoolInjective == \A i, j \in DOMAIN pool : pool[i] = pool[j] => i = j
UnusedApart == unused \cap Pool = {}
OwnClients ==
  \A t, u \in Tokens : clients[t] = clients[u] /\ clients[t] # NoObject => t = u

LEMMA PoolStepKinds ==
  ASSUME [Next]_vars
  PROVE  \/ UNCHANGED <<pool, unused>>
         \/ \E t \in Tokens : DeleteToken(t)
         \/ \E t \in Tokens, v \in Creds, on \in BOOLEAN : AddToken(t, v, on)
  <1> USE DEF configVars, memoryVars, requestVars
  <1>1. CASE Tick \/ ServeNothing \/ ListTokens \/ Restart
    BY <1>1 DEF Tick, ServeNothing, ListTokens, Restart
  <1>2. ASSUME NEW h \in Requests, RequestStep(h) PROVE UNCHANGED <<pool, unused>>
    BY <1>2 DEF RequestStep, Serve, Refresh, Succeeds, Leaves, Fails, CookiesRotate,
                AdminUses, TestStarts, TestEnds
  <1>3. ASSUME NEW t \in Tokens, NEW v \in Creds \cup {NoCred}, NEW on \in BOOLEAN,
               UpdateToken(t, v, on)
        PROVE  UNCHANGED <<pool, unused>>
    BY <1>3 DEF UpdateToken
  <1>4. CASE UNCHANGED vars
    BY <1>4 DEF vars
  <1> QED BY <1>1, <1>2, <1>3, <1>4 DEF Next, AdminStep

\* What deleting and adding a token make of the pool.
LEMMA PoolDeleted ==
  ASSUME TypeOK, PoolInjective, NEW t \in Tokens, DeleteToken(t)
  PROVE  PoolInjective' /\ Pool' = Pool \ {t}
  <1>1. PICK i \in DOMAIN pool :
          pool[i] = t /\ pool' = SubSeq(pool, 1, i - 1) \o SubSeq(pool, i + 1, Len(pool))
    BY DEF DeleteToken
  <1>2. Len(pool) \in Nat /\ DOMAIN pool = 1 .. Len(pool)
    BY DEF TypeOK
  <1>3. /\ pool' \in Seq(Tokens) /\ Len(pool') = Len(pool) - 1
        /\ \A j \in DOMAIN pool' : pool'[j] = pool[IF j < i THEN j ELSE j + 1]
    BY <1>1, TakenOut, ZenonT(60) DEF TypeOK
  <1>4. DOMAIN pool' = 1 .. Len(pool) - 1
    BY <1>3, LenProperties
  <1>5. \A j \in DOMAIN pool' : (IF j < i THEN j ELSE j + 1) \in DOMAIN pool \ {i}
    BY <1>2, <1>4
  <1>6. PoolInjective'
    BY <1>2, <1>3, <1>4, <1>5 DEF PoolInjective
  <1>7. \A j \in DOMAIN pool \ {i} :
          \E k \in DOMAIN pool' : j = IF k < i THEN k ELSE k + 1
    <2> SUFFICES ASSUME NEW j \in DOMAIN pool \ {i}
                 PROVE  \E k \in DOMAIN pool' : j = IF k < i THEN k ELSE k + 1
      OBVIOUS
    <2>1. CASE j < i
      BY <2>1, <1>2, <1>4
    <2>2. CASE ~ (j < i)
      <3>1. i \in Int /\ j \in Int /\ i # j /\ i >= 1 /\ j <= Len(pool)
        BY <1>2
      <3>2. j - 1 \in 1 .. Len(pool) - 1 /\ ~ (j - 1 < i) /\ j = (j - 1) + 1
        BY <2>2, <3>1, <1>2
      <3>3. j - 1 \in DOMAIN pool'
        BY <3>2, <1>4
      <3> QED BY <3>2, <3>3
    <2> QED BY <2>1, <2>2
  <1>8. Pool' = {pool[j] : j \in DOMAIN pool \ {i}}
    BY <1>3, <1>5, <1>7 DEF Pool
  <1>9. \A j \in DOMAIN pool : pool[j] # t <=> j # i
    BY <1>1 DEF PoolInjective
  <1>10. {pool[j] : j \in DOMAIN pool \ {i}} = Pool \ {t}
    BY <1>9 DEF Pool
  <1> QED BY <1>6, <1>8, <1>10

LEMMA PoolAdded ==
  ASSUME TypeOK, PoolInjective, UnusedApart,
         NEW t \in Tokens, NEW v \in Creds, NEW on \in BOOLEAN, AddToken(t, v, on)
  PROVE  PoolInjective' /\ UnusedApart' /\ Pool' = Pool \cup {t} /\ t \notin Pool
  <1>1. t \in unused /\ unused' = unused \ {t} /\ pool' = Append(pool, t)
    BY DEF AddToken
  <1>2. Len(pool) \in Nat /\ DOMAIN pool = 1 .. Len(pool)
    BY DEF TypeOK
  <1>3. /\ DOMAIN pool' = DOMAIN pool \cup {Len(pool) + 1}
        /\ pool'[Len(pool) + 1] = t
        /\ \A i \in DOMAIN pool : pool'[i] = pool[i]
    BY <1>1 DEF TypeOK
  <1>4. Pool' = Pool \cup {t}
    BY <1>3, <1>2 DEF Pool
  <1>5. \A i \in DOMAIN pool : pool[i] # t
    BY <1>1 DEF UnusedApart, Pool
  <1> QED BY <1>1, <1>2, <1>3, <1>4, <1>5 DEF PoolInjective, UnusedApart, Pool

LEMMA PoolStep ==
  TypeOK /\ PoolInjective /\ UnusedApart /\ [Next]_vars => PoolInjective' /\ UnusedApart'
  <1> SUFFICES ASSUME TypeOK, PoolInjective, UnusedApart, [Next]_vars
               PROVE  PoolInjective' /\ UnusedApart'
    OBVIOUS
  <1>1. CASE UNCHANGED <<pool, unused>>
    BY <1>1 DEF PoolInjective, UnusedApart, Pool
  <1>2. ASSUME NEW t \in Tokens, DeleteToken(t) PROVE PoolInjective' /\ UnusedApart'
    <2>1. unused' = unused
      BY <1>2 DEF DeleteToken
    <2> QED BY <1>2, <2>1, PoolDeleted DEF UnusedApart
  <1>3. ASSUME NEW t \in Tokens, NEW v \in Creds, NEW on \in BOOLEAN, AddToken(t, v, on)
        PROVE  PoolInjective' /\ UnusedApart'
    BY <1>3, PoolAdded
  <1> QED BY <1>1, <1>2, <1>3, PoolStepKinds

LEMMA ClientStepKinds ==
  ASSUME TypeOK, [Next]_vars
  PROVE  \/ UNCHANGED clients
         \/ \E t \in Tokens : clients' = [clients EXCEPT ![t] = ClientOf(t)]
         \/ \E t \in Tokens : clients' = [clients EXCEPT ![t] = NoObject]
         \/ clients' = [t \in Tokens |-> NoObject]
  <1> USE DEF configVars, memoryVars, requestVars
  <1>1. CASE Tick \/ ServeNothing \/ ListTokens
    BY <1>1 DEF Tick, ServeNothing, ListTokens
  <1>2. CASE Restart
    BY <1>2 DEF Restart
  <1>3. ASSUME NEW h \in Requests, Serve(h)
        PROVE  \E t \in Tokens : clients' = [clients EXCEPT ![t] = ClientOf(t)]
    BY <1>3, ServedIsAvailable DEF Serve, Take
  <1>4. ASSUME NEW h \in Requests, NEW t \in Tokens, AdminUses(h, t)
        PROVE  clients' = [clients EXCEPT ![t] = ClientOf(t)]
    BY <1>4 DEF AdminUses, Take
  <1>5. ASSUME NEW h \in Requests, RequestStep(h), ~ Serve(h),
               \A t \in Tokens : ~ AdminUses(h, t)
        PROVE  UNCHANGED clients
    BY <1>5 DEF RequestStep, Refresh, Succeeds, Leaves, Fails, CookiesRotate,
                TestStarts, TestEnds
  <1>6. ASSUME NEW t \in Tokens, AdminStep(t)
        PROVE  UNCHANGED clients \/ clients' = [clients EXCEPT ![t] = NoObject]
    BY <1>6 DEF AdminStep, DeleteToken, UpdateToken, AddToken, RemoveClient
  <1>7. CASE UNCHANGED vars
    BY <1>7 DEF vars
  <1> QED BY <1>1, <1>2, <1>3, <1>4, <1>5, <1>6, <1>7 DEF Next

LEMMA OwnClientsStep == TypeOK /\ OwnClients /\ [Next]_vars => OwnClients'
  <1> SUFFICES ASSUME TypeOK, OwnClients, [Next]_vars PROVE OwnClients'
    OBVIOUS
  <1>1. ASSUME NEW t \in Tokens, clients' = [clients EXCEPT ![t] = ClientOf(t)]
        PROVE  OwnClients'
    <2>1. CASE clients[t] = NoObject
      BY <1>1, <2>1, ClientIsItsOwn DEF OwnClients, TypeOK
    <2>2. CASE clients[t] # NoObject
      BY <1>1, <2>2 DEF OwnClients, TypeOK, ClientOf
    <2> QED BY <2>1, <2>2
  <1>2. ASSUME NEW t \in Tokens, clients' = [clients EXCEPT ![t] = NoObject]
        PROVE  OwnClients'
    BY <1>2 DEF OwnClients, TypeOK
  <1>3. CASE clients' = [t \in Tokens |-> NoObject]
    BY <1>3 DEF OwnClients
  <1>4. CASE UNCHANGED clients
    BY <1>4 DEF OwnClients
  <1> QED BY <1>1, <1>2, <1>3, <1>4, ClientStepKinds

-----------------------------------------------------------------------------
(* Deadlines.                                                              *)

\* StatusMatchesDeadline with the two deadlines of a token apart.
StatusFits(e, d) ==
  /\ e.status = "cooldown" => e.until # Absent
  /\ e.status = "needs_login" => d = Absent /\ e.until = Absent

StatusesFit == \A t \in Pool : StatusFits(entry[t], cooldowns[t])

LEMMA StatusPerToken == TypeOK /\ StatusesFit => StatusMatchesDeadline
  BY DEF StatusesFit, StatusFits, StatusMatchesDeadline, Deadline, Later

\* Looking at tokens that do not need a login leaves every status true.
LEMMA LookKeepsStatus ==
  ASSUME TypeOK, StatusesFit, Look(Rotating), pool' = pool
  PROVE  StatusesFit'
  <1>1. \A t \in Pool : t \in Tokens
    BY ElementOfSeq DEF Pool, TypeOK
  <1> SUFFICES ASSUME NEW t \in Pool PROVE StatusFits(entry'[t], cooldowns'[t])
    BY DEF StatusesFit, Pool
  <1>2. CASE t \notin Rotating
    BY <1>1, <1>2 DEF Look, StatusesFit
  <1>3. CASE t \in Rotating /\ Deadline(t) = 0
    <2>1. Cleared(t).status = "unknown"
      BY <1>1 DEF Cleared, TypeOK
    <2>2. entry'[t] = Cleared(t)
      BY <1>1, <1>3 DEF Look
    <2> QED BY <2>1, <2>2 DEF StatusFits
  <1>4. CASE t \in Rotating /\ Deadline(t) # 0
    <2>1. entry'[t] = entry[t]
      BY <1>1, <1>4 DEF Look
    <2>2. entry[t].status # "needs_login"
      BY <1>4 DEF Rotating
    <2> QED BY <2>1, <2>2 DEF StatusFits, StatusesFit
  <1> QED BY <1>2, <1>3, <1>4

LEMMA StatusStep ==
  TypeOK /\ PoolInjective /\ UnusedApart /\ StatusesFit /\ [Next]_vars => StatusesFit'
  <1> SUFFICES ASSUME TypeOK, PoolInjective, UnusedApart, StatusesFit, [Next]_vars
               PROVE  StatusesFit'
    OBVIOUS
  <1>pool. \A t \in Pool : t \in Tokens
    BY ElementOfSeq DEF Pool, TypeOK
  <1>1. CASE Tick
    <2> SUFFICES ASSUME NEW t \in Pool PROVE StatusFits(entry'[t], cooldowns'[t])
      BY <1>1 DEF Tick, StatusesFit, Pool
    <2>1. Left(Absent) = Absent /\ \A d \in Deadlines : Left(d) = Absent => d = Absent
      BY DEF Left, Deadlines, Absent
    <2>2. /\ entry'[t] = [entry[t] EXCEPT !.until = Left(@)]
          /\ cooldowns'[t] = Left(cooldowns[t])
      BY <1>1, <1>pool DEF Tick
    <2>3. entry'[t].status = entry[t].status /\ entry'[t].until = Left(entry[t].until)
      BY <2>2, <1>pool DEF TypeOK
    <2>4. entry[t].until \in Deadlines
      BY <1>pool DEF TypeOK
    <2> QED BY <2>1, <2>2, <2>3, <2>4 DEF StatusesFit, StatusFits
  <1>2. CASE ServeNothing
    BY <1>2, LookKeepsStatus DEF ServeNothing
  <1>3. CASE ListTokens
    <2>1. pool' = pool
      BY <1>3 DEF ListTokens
    <2> SUFFICES ASSUME NEW t \in Pool PROVE StatusFits(entry'[t], cooldowns'[t])
      BY <2>1 DEF StatusesFit, Pool
    <2>2. CASE entry[t].status = "needs_login"
      <3>1. entry'[t] = [entry[t] EXCEPT !.until = Absent] /\ cooldowns'[t] = Absent
        BY <1>3, <2>2, <1>pool DEF ListTokens
      <3> QED BY <3>1, <2>2, <1>pool DEF StatusFits, TypeOK
    <2>3. CASE entry[t].status # "needs_login" /\ Deadline(t) = 0
      <3>1. entry'[t] = Cleared(t)
        BY <1>3, <2>3, <1>pool DEF ListTokens
      <3> QED BY <3>1, <1>pool DEF StatusFits, Cleared, TypeOK
    <2>4. CASE entry[t].status # "needs_login" /\ Deadline(t) # 0
      <3>1. entry'[t] = entry[t]
        BY <1>3, <2>4, <1>pool DEF ListTokens
      <3> QED BY <3>1, <2>4 DEF StatusFits, StatusesFit
    <2> QED BY <2>2, <2>3, <2>4
  <1>4. CASE Restart
    BY <1>4, <1>pool DEF Restart, configVars, StatusesFit, StatusFits, Pool
  <1>5. ASSUME NEW h \in Requests, Serve(h) PROVE StatusesFit'
    BY <1>5, LookKeepsStatus DEF Serve
  <1>6. ASSUME NEW h \in Requests, Refresh(h) PROVE StatusesFit'
    <2>1. \A t \in Pool : /\ entry'[t].status = entry[t].status
                          /\ entry'[t].until = entry[t].until
                          /\ cooldowns'[t] = cooldowns[t]
      BY <1>6, <1>pool DEF Refresh, TypeOK
    <2> QED BY <1>6, <2>1 DEF Refresh, StatusesFit, StatusFits, Pool
  <1>7. ASSUME NEW h \in Requests, Succeeds(h) PROVE StatusesFit'
    <2>1. entry'[token[h]].status = "active"
      BY <1>7, <1>pool DEF Succeeds, TypeOK
    <2>2. \A t \in Pool \ {token[h]} : entry'[t] = entry[t] /\ cooldowns'[t] = cooldowns[t]
      BY <1>7, <1>pool DEF Succeeds, TypeOK
    <2>3. pool' = pool
      BY <1>7 DEF Succeeds
    <2> QED BY <2>1, <2>2, <2>3 DEF StatusesFit, StatusFits, Pool
  <1>8. ASSUME NEW h \in Requests, NEW f \in Failures, Fails(h, f) PROVE StatusesFit'
    <2> DEFINE t == token[h]
               n == CountError(entry[t].errors)
               verdict == Verdict(t, n, f)
    <2>1. t \in Tokens /\ pool' = pool
      BY <1>8, <1>pool DEF Fails
    <2>2. /\ entry' = [entry EXCEPT ![t].status = verdict.status, ![t].errors = n,
                                    ![t].until = verdict.until]
          /\ cooldowns' = [cooldowns EXCEPT ![t] = verdict.memory]
      BY <1>8 DEF Fails
    <2>3. /\ verdict.status = "cooldown" => verdict.until # Absent
          /\ verdict.status = "needs_login" => verdict.until = Absent /\ verdict.memory = Absent
      BY DEF Verdict, Absent
    <2> HIDE DEF t, n, verdict
    <2>4. /\ entry'[t].status = verdict.status /\ entry'[t].until = verdict.until
          /\ cooldowns'[t] = verdict.memory
      BY <2>1, <2>2 DEF TypeOK
    <2>5. \A u \in Pool \ {t} : entry'[u] = entry[u] /\ cooldowns'[u] = cooldowns[u]
      BY <2>1, <2>2, <1>pool DEF TypeOK
    <2> QED BY <2>1, <2>3, <2>4, <2>5 DEF StatusesFit, StatusFits, Pool
  <1>9. ASSUME NEW h \in Requests,
               \/ Leaves(h)
               \/ \E v \in Creds : CookiesRotate(h, v)
               \/ \E t \in Tokens : AdminUses(h, t) \/ TestStarts(h, t)
        PROVE  StatusesFit'
    <2>1. UNCHANGED <<pool, entry, cooldowns>>
      BY <1>9 DEF Leaves, CookiesRotate, AdminUses, TestStarts, configVars, memoryVars
    <2> QED BY <2>1 DEF StatusesFit, StatusFits, Pool
  <1>10. ASSUME NEW h \in Requests, NEW ok \in BOOLEAN, TestEnds(h, ok) PROVE StatusesFit'
    <2>1. pool' = pool /\ cooldowns' = cooldowns
      BY <1>10 DEF TestEnds, memoryVars
    <2>2. \A u \in Pool : \/ entry'[u] = entry[u]
                          \/ entry'[u].status \in {"active", "error"}
      BY <1>10, <1>pool DEF TestEnds, TypeOK
    <2> QED BY <2>1, <2>2 DEF StatusesFit, StatusFits, Pool
  <1>11. ASSUME NEW t \in Tokens, DeleteToken(t) PROVE StatusesFit'
    <2>1. Pool' = Pool \ {t}
      BY <1>11, PoolDeleted
    <2>2. \A u \in Pool \ {t} : entry'[u] = entry[u] /\ cooldowns'[u] = cooldowns[u]
      BY <1>11, <1>pool DEF DeleteToken, RemoveClient, TypeOK
    <2> QED BY <2>1, <2>2 DEF StatusesFit
  <1>12. ASSUME NEW t \in Tokens, NEW v \in Creds \cup {NoCred}, NEW on \in BOOLEAN,
                UpdateToken(t, v, on)
         PROVE  StatusesFit'
    <2>1. pool' = pool
      BY <1>12 DEF UpdateToken
    <2>2. \A u \in Pool : /\ entry'[u].status = entry[u].status
                          /\ entry'[u].until = entry[u].until
      <3>1. \/ entry' = [entry EXCEPT ![t].value = v, ![t].enabled = on]
            \/ entry' = [entry EXCEPT ![t].enabled = on]
        BY <1>12 DEF UpdateToken
      <3>2. CASE entry' = [entry EXCEPT ![t].value = v, ![t].enabled = on]
        BY <3>2, <1>pool DEF TypeOK
      <3>3. CASE entry' = [entry EXCEPT ![t].enabled = on]
        BY <3>3, <1>pool DEF TypeOK
      <3> QED BY <3>1, <3>2, <3>3
    <2>3. \A u \in Pool : cooldowns'[u] \in {cooldowns[u], Absent}
      BY <1>12, <1>pool DEF UpdateToken, RemoveClient, TypeOK
    <2> QED BY <2>1, <2>2, <2>3 DEF StatusesFit, StatusFits, Pool
  <1>13. ASSUME NEW t \in Tokens, NEW v \in Creds, NEW on \in BOOLEAN, AddToken(t, v, on)
         PROVE  StatusesFit'
    <2>1. Pool' = Pool \cup {t} /\ t \notin Pool
      BY <1>13, PoolAdded
    <2>2. /\ entry'[t].status = "unknown"
          /\ \A u \in Pool : entry'[u] = entry[u] /\ cooldowns'[u] = cooldowns[u]
      BY <1>13, <2>1, <1>pool DEF AddToken, NewEntry, memoryVars, TypeOK
    <2> QED BY <2>1, <2>2 DEF StatusesFit, StatusFits
  <1>14. CASE UNCHANGED vars
    BY <1>14 DEF vars, configVars, memoryVars, StatusesFit, StatusFits, Pool
  <1> QED BY <1>1, <1>2, <1>3, <1>4, <1>5, <1>6, <1>7, <1>8, <1>9, <1>10, <1>11, <1>12,
             <1>13, <1>14 DEF Next, RequestStep, AdminStep

-----------------------------------------------------------------------------
(* Deleted tokens and cached clients.                                      *)

LEMMA NothingKeptStep ==
  TypeOK /\ PoolInjective /\ UnusedApart /\ NothingKeptForDeleted /\ [Next]_vars
    => NothingKeptForDeleted'
  <1> SUFFICES ASSUME TypeOK, PoolInjective, UnusedApart, NothingKeptForDeleted, [Next]_vars
               PROVE  NothingKeptForDeleted'
    OBVIOUS
  <1>kept. ASSUME pool' = pool, NEW S, S \subseteq Pool,
                  \A t \in Tokens \ S : /\ cooldowns'[t] \in {cooldowns[t], Absent}
                                        /\ clients'[t] \in {clients[t], NoObject}
           PROVE  NothingKeptForDeleted'
    BY <1>kept DEF NothingKeptForDeleted, Pool
  <1>1. CASE Tick
    <2>1. Left(Absent) = Absent
      BY DEF Left, Absent
    <2> QED BY <1>1, <2>1 DEF Tick, NothingKeptForDeleted, Pool
  <1>2. CASE ServeNothing
    <2>1. \A t \in Tokens \ Rotating : cooldowns'[t] = cooldowns[t] /\ clients'[t] = clients[t]
      BY <1>2 DEF ServeNothing, Look
    <2> QED BY <1>2, <2>1, <1>kept DEF ServeNothing, Rotating
  <1>3. CASE ListTokens
    <2>1. \A t \in Tokens \ Pool : cooldowns'[t] = cooldowns[t] /\ clients'[t] = clients[t]
      BY <1>3 DEF ListTokens
    <2> QED BY <1>3, <2>1, <1>kept DEF ListTokens
  <1>4. CASE Restart
    BY <1>4 DEF Restart, configVars, NothingKeptForDeleted, Pool
  <1>5. ASSUME NEW h \in Requests, Serve(h) PROVE NothingKeptForDeleted'
    <2>1. PICK t \in Pool : Take(h, t, "serving") /\ t \in Rotating
      BY <1>5, ServedIsAvailable DEF Serve
    <2>2. \A u \in Tokens \ Rotating : cooldowns'[u] = cooldowns[u]
      BY <1>5 DEF Serve, Look
    <2>3. \A u \in Tokens \ {t} : clients'[u] = clients[u]
      BY <2>1 DEF Take, TypeOK
    <2>4. pool' = pool /\ Rotating \subseteq Pool
      BY <1>5 DEF Serve, Rotating
    <2>5. \A u \in Tokens \ Rotating : cooldowns'[u] = cooldowns[u] /\ clients'[u] = clients[u]
      BY <2>1, <2>2, <2>3
    <2> HIDE DEF NothingKeptForDeleted
    <2> QED BY <2>4, <2>5, <1>kept
  <1>6. ASSUME NEW h \in Requests, NEW t \in Tokens, AdminUses(h, t) PROVE NothingKeptForDeleted'
    <2>1. \A u \in Tokens \ {t} : cooldowns'[u] = cooldowns[u] /\ clients'[u] = clients[u]
      BY <1>6 DEF AdminUses, Take, TypeOK
    <2>2. pool' = pool /\ {t} \subseteq Pool
      BY <1>6 DEF AdminUses, configVars
    <2> QED BY <2>1, <2>2, <1>kept
  <1>7. ASSUME NEW h \in Requests, Succeeds(h) \/ \E f \in Failures : Fails(h, f)
        PROVE  NothingKeptForDeleted'
    <2>1. \A u \in Tokens \ {token[h]} : cooldowns'[u] = cooldowns[u] /\ clients'[u] = clients[u]
      BY <1>7 DEF Succeeds, Fails, TypeOK
    <2>2. pool' = pool /\ {token[h]} \subseteq Pool
      BY <1>7 DEF Succeeds, Fails
    <2> QED BY <2>1, <2>2, <1>kept
  <1>8. ASSUME NEW h \in Requests,
               \/ Refresh(h) \/ Leaves(h)
               \/ \E v \in Creds : CookiesRotate(h, v)
               \/ \E t \in Tokens : TestStarts(h, t)
               \/ \E ok \in BOOLEAN : TestEnds(h, ok)
        PROVE  NothingKeptForDeleted'
    <2>1. UNCHANGED <<pool, cooldowns, clients>>
      BY <1>8 DEF Refresh, Leaves, CookiesRotate, TestStarts, TestEnds, configVars, memoryVars
    <2> QED BY <2>1 DEF NothingKeptForDeleted, Pool
  <1>9. ASSUME NEW t \in Tokens, DeleteToken(t) PROVE NothingKeptForDeleted'
    <2>1. Pool' = Pool \ {t}
      BY <1>9, PoolDeleted
    <2>2. /\ cooldowns'[t] = Absent /\ clients'[t] = NoObject
          /\ \A u \in Tokens \ {t} : cooldowns'[u] = cooldowns[u] /\ clients'[u] = clients[u]
      BY <1>9 DEF DeleteToken, RemoveClient, TypeOK
    <2> QED BY <2>1, <2>2 DEF NothingKeptForDeleted
  <1>10. ASSUME NEW t \in Tokens, NEW v \in Creds \cup {NoCred}, NEW on \in BOOLEAN,
                UpdateToken(t, v, on)
         PROVE  NothingKeptForDeleted'
    <2>1. pool' = pool
      BY <1>10 DEF UpdateToken
    <2>2. \A u \in Tokens : /\ cooldowns'[u] \in {cooldowns[u], Absent}
                            /\ clients'[u] \in {clients[u], NoObject}
      BY <1>10 DEF UpdateToken, RemoveClient, TypeOK
    <2> QED BY <2>1, <2>2 DEF NothingKeptForDeleted, Pool
  <1>11. ASSUME NEW t \in Tokens, NEW v \in Creds, NEW on \in BOOLEAN, AddToken(t, v, on)
         PROVE  NothingKeptForDeleted'
    <2>1. Pool' = Pool \cup {t}
      BY <1>11, PoolAdded
    <2> QED BY <1>11, <2>1 DEF AddToken, memoryVars, NothingKeptForDeleted
  <1>12. CASE UNCHANGED vars
    BY <1>12 DEF vars, configVars, memoryVars, NothingKeptForDeleted, Pool
  <1> QED BY <1>1, <1>2, <1>3, <1>4, <1>5, <1>6, <1>7, <1>8, <1>9, <1>10, <1>11, <1>12
          DEF Next, RequestStep, AdminStep

\* What StoreIs keeps of the client of a token.
LEMMA StoreOfClient ==
  ASSUME NEW table, StoreIs(table), NEW t \in Tokens, clients'[t] \in Objects
  PROVE  store'[clients'[t]] = table[clients'[t]]
  BY DEF StoreIs, InUse

\* A request that takes a token sends what the config holds, and does not touch
\* the clients of the others.
LEMMA TakeIsCurrent ==
  ASSUME TypeOK, OwnClients, CachedClientCurrent,
         NEW h \in Requests, NEW t \in Tokens, NEW purpose, Take(h, t, purpose)
  PROVE  \A u \in Tokens : clients'[u] # NoObject => store'[clients'[u]].sends = entry[u].value
  <1> DEFINE table == [store EXCEPT ![ClientOf(t)] =
                         IF clients[t] = NoObject
                         THEN [sends |-> entry[t].value, jar |-> NoCred] ELSE @]
  <1>1. /\ clients' = [clients EXCEPT ![t] = ClientOf(t)] /\ StoreIs(table)
        /\ ClientOf(t) \in Objects
    BY ClientIsItsOwn DEF Take
  <1> SUFFICES ASSUME NEW u \in Tokens, clients'[u] # NoObject
               PROVE  store'[clients'[u]].sends = entry[u].value
    OBVIOUS
  <1>2. clients'[u] \in Objects
    BY <1>1 DEF TypeOK
  <1>3. store'[clients'[u]] = table[clients'[u]]
    <2> HIDE DEF table
    <2> QED BY <1>1, <1>2, StoreOfClient
  <1>4. CASE u = t /\ clients[t] = NoObject
    <2>1. clients'[u] = ClientOf(t) /\ table[ClientOf(t)] = [sends |-> entry[t].value, jar |-> NoCred]
      BY <1>1, <1>4 DEF TypeOK
    <2> QED BY <1>3, <1>4, <2>1
  <1>5. CASE u # t /\ clients[t] = NoObject
    <2>1. clients'[u] = clients[u] /\ clients[u] # ClientOf(t)
      BY <1>1, <1>5, ClientIsItsOwn DEF TypeOK
    <2>2. table[clients[u]] = store[clients[u]]
      BY <1>2, <2>1 DEF TypeOK
    <2> QED BY <1>3, <2>1, <2>2 DEF CachedClientCurrent
  <1>6. CASE clients[t] # NoObject
    <2>1. clients' = clients
      BY <1>1, <1>6 DEF ClientOf, TypeOK
    <2>2. table[clients[u]] = store[clients[u]]
      BY <1>2, <1>6, <2>1 DEF TypeOK
    <2> QED BY <1>3, <2>1, <2>2 DEF CachedClientCurrent
  <1> QED BY <1>4, <1>5, <1>6

\* Steps that make no client and change no value a client was made from.
LEMMA CurrentKept ==
  ASSUME TypeOK, CachedClientCurrent, store' = store \/ StoreIs(store),
         \A u \in Tokens : \/ clients'[u] = NoObject
                           \/ clients'[u] = clients[u] /\ entry'[u].value = entry[u].value
  PROVE  CachedClientCurrent'
  <1> SUFFICES ASSUME NEW u \in Tokens, clients'[u] # NoObject
               PROVE  store'[clients'[u]].sends = entry'[u].value
    BY DEF CachedClientCurrent
  <1>1. clients'[u] = clients[u] /\ clients'[u] \in Objects /\ entry'[u].value = entry[u].value
    BY DEF TypeOK
  <1>2. store'[clients'[u]] = store[clients[u]]
    BY <1>1, StoreOfClient
  <1> QED BY <1>1, <1>2 DEF CachedClientCurrent

LEMMA CachedStep ==
  TypeOK /\ OwnClients /\ UnusedApart /\ NothingKeptForDeleted /\ CachedClientCurrent
    /\ [Next]_vars => CachedClientCurrent'
  <1> SUFFICES ASSUME TypeOK, OwnClients, UnusedApart, NothingKeptForDeleted,
                      CachedClientCurrent, [Next]_vars
               PROVE  CachedClientCurrent'
    OBVIOUS
  <1>pool. Pool \subseteq Tokens
    BY ElementOfSeq DEF TypeOK, Pool
  <1>cleared. \A u \in Tokens : Cleared(u).value = entry[u].value
    <2>1. \A u \in Tokens : entry[u] \in Entries
      BY DEF TypeOK, Entries
    <2> QED BY <2>1 DEF Cleared, Entries
  <1>look. ASSUME NEW S, Look(S) PROVE \A u \in Tokens : entry'[u].value = entry[u].value
    BY <1>look, <1>cleared DEF Look
  <1>1. CASE Tick
    <2>1. \A u \in Tokens : entry'[u].value = entry[u].value
      BY <1>1 DEF Tick, TypeOK
    <2> QED BY <1>1, <2>1, CurrentKept DEF Tick
  <1>2. CASE ServeNothing
    BY <1>2, <1>look, CurrentKept DEF ServeNothing
  <1>3. CASE ListTokens
    <2>1. \A u \in Tokens : entry'[u].value = entry[u].value
      <3> SUFFICES ASSUME NEW u \in Tokens PROVE entry'[u].value = entry[u].value
        OBVIOUS
      <3>1. entry'[u] \in {[entry[u] EXCEPT !.until = Absent], Cleared(u), entry[u]}
        BY <1>3 DEF ListTokens
      <3>2. entry[u] \in Entries
        BY DEF TypeOK, Entries
      <3>3. [entry[u] EXCEPT !.until = Absent].value = entry[u].value
        BY <3>2 DEF Entries
      <3> QED BY <3>1, <3>3, <1>cleared
    <2> QED BY <1>3, <2>1, CurrentKept DEF ListTokens
  <1>4. CASE Restart
    BY <1>4 DEF Restart, CachedClientCurrent
  <1>5. ASSUME NEW h \in Requests, Serve(h) PROVE CachedClientCurrent'
    <2>1. PICK t \in Tokens : Take(h, t, "serving")
      BY <1>5, ServedIsAvailable DEF Serve
    <2>2. \A u \in Tokens : entry'[u].value = entry[u].value
      BY <1>5, <1>look DEF Serve
    <2> QED BY <2>1, <2>2, TakeIsCurrent DEF CachedClientCurrent
  <1>6. ASSUME NEW h \in Requests, NEW t \in Tokens, AdminUses(h, t) PROVE CachedClientCurrent'
    <2>1. Take(h, t, "admin") /\ entry' = entry
      BY <1>6 DEF AdminUses, configVars
    <2> QED BY <2>1, TakeIsCurrent DEF CachedClientCurrent
  <1>7. ASSUME NEW h \in Requests, NEW v \in Creds, CookiesRotate(h, v) PROVE CachedClientCurrent'
    <2>1. UNCHANGED <<entry, clients>>
      BY <1>7 DEF CookiesRotate, configVars
    <2>2. \A o \in Objects : store'[o].sends = store[o].sends
      BY <1>7 DEF CookiesRotate, TypeOK
    <2> QED BY <2>1, <2>2 DEF CachedClientCurrent, TypeOK
  <1>8. ASSUME NEW h \in Requests, Refresh(h) PROVE CachedClientCurrent'
    <2> DEFINE t == token[h]
               jar == store[holds[h]].jar
    <2>1. /\ t \in Tokens /\ clients' = clients /\ store' = Synced(h)
          /\ entry' = [entry EXCEPT ![t].value = jar]
      BY <1>8, <1>pool DEF Refresh, Refreshes
    <2> SUFFICES ASSUME NEW u \in Tokens, clients[u] # NoObject
                 PROVE  store'[clients[u]].sends = entry'[u].value
      BY <2>1 DEF CachedClientCurrent
    <2>2. clients[u] \in Objects
      BY DEF TypeOK
    <2>3. CASE u = t
      <3>1. store' = [store EXCEPT ![clients[t]].sends = jar]
        BY <2>1, <2>3 DEF Synced
      <3>2. store'[clients[u]].sends = jar
        BY <3>1, <2>2, <2>3 DEF TypeOK
      <3>3. entry'[u].value = jar
        BY <2>1, <2>3 DEF TypeOK
      <3> QED BY <3>2, <3>3
    <2>4. CASE u # t
      <3>1. clients[u] # clients[t]
        BY <2>1, <2>4 DEF OwnClients
      <3>2. store'[clients[u]] = store[clients[u]]
        BY <2>1, <2>2, <3>1 DEF Synced, TypeOK
      <3>3. entry'[u] = entry[u]
        BY <2>1, <2>4 DEF TypeOK
      <3> QED BY <3>2, <3>3 DEF CachedClientCurrent
    <2> QED BY <2>3, <2>4
  <1>9. ASSUME NEW h \in Requests, Succeeds(h) PROVE CachedClientCurrent'
    <2>1. \A u \in Tokens : entry'[u].value = entry[u].value
      BY <1>9 DEF Succeeds, TypeOK
    <2> QED BY <1>9, <2>1, CurrentKept DEF Succeeds
  <1>10. ASSUME NEW h \in Requests, NEW f \in Failures, Fails(h, f) PROVE CachedClientCurrent'
    <2>1. \A u \in Tokens : entry'[u].value = entry[u].value
      BY <1>10 DEF Fails, TypeOK
    <2> QED BY <1>10, <2>1, CurrentKept DEF Fails
  <1>11. ASSUME NEW h \in Requests, Leaves(h) PROVE CachedClientCurrent'
    BY <1>11, CurrentKept DEF Leaves, configVars
  <1>12. ASSUME NEW h \in Requests, NEW t \in Tokens, TestStarts(h, t) PROVE CachedClientCurrent'
    BY <1>12, CurrentKept DEF TestStarts, configVars, memoryVars
  <1>13. ASSUME NEW h \in Requests, NEW ok \in BOOLEAN, TestEnds(h, ok) PROVE CachedClientCurrent'
    <2>1. \A u \in Tokens : entry'[u].value = entry[u].value
      BY <1>13 DEF TestEnds, TypeOK
    <2> QED BY <1>13, <2>1, CurrentKept DEF TestEnds, memoryVars
  <1>14. ASSUME NEW t \in Tokens, DeleteToken(t) PROVE CachedClientCurrent'
    <2>1. \A u \in Tokens : \/ clients'[u] = NoObject
                            \/ clients'[u] = clients[u] /\ entry'[u].value = entry[u].value
      BY <1>14 DEF DeleteToken, RemoveClient, TypeOK
    <2> QED BY <1>14, <2>1, CurrentKept DEF DeleteToken
  <1>15. ASSUME NEW t \in Tokens, NEW v \in Creds \cup {NoCred}, NEW on \in BOOLEAN,
                UpdateToken(t, v, on)
         PROVE  CachedClientCurrent'
    <2>1. CASE entry' = [entry EXCEPT ![t].value = v, ![t].enabled = on] /\ RemoveClient(t)
      <3>1. \A u \in Tokens : \/ clients'[u] = NoObject
                              \/ clients'[u] = clients[u] /\ entry'[u].value = entry[u].value
        BY <2>1 DEF RemoveClient, TypeOK
      <3> QED BY <1>15, <3>1, CurrentKept DEF UpdateToken
    <2>2. CASE entry' = [entry EXCEPT ![t].enabled = on] /\ UNCHANGED <<clients, cooldowns>>
      <3>1. \A u \in Tokens : clients'[u] = clients[u] /\ entry'[u].value = entry[u].value
        BY <2>2 DEF TypeOK
      <3> QED BY <1>15, <3>1, CurrentKept DEF UpdateToken
    <2> QED BY <1>15, <2>1, <2>2 DEF UpdateToken
  <1>16. ASSUME NEW t \in Tokens, NEW v \in Creds, NEW on \in BOOLEAN, AddToken(t, v, on)
         PROVE  CachedClientCurrent'
    <2>1. clients[t] = NoObject
      BY <1>16 DEF AddToken, UnusedApart, NothingKeptForDeleted
    <2>2. \A u \in Tokens \ {t} : entry'[u] = entry[u]
      BY <1>16 DEF AddToken, TypeOK
    <2> QED BY <1>16, <2>1, <2>2, CurrentKept DEF AddToken, memoryVars
  <1>17. CASE UNCHANGED vars
    BY <1>17, CurrentKept DEF vars, configVars, memoryVars
  <1> QED BY <1>1, <1>2, <1>3, <1>4, <1>5, <1>6, <1>7, <1>8, <1>9, <1>10, <1>11, <1>12,
             <1>13, <1>14, <1>15, <1>16, <1>17 DEF Next, RequestStep, AdminStep

-----------------------------------------------------------------------------
(* The theorems.                                                           *)

PoolInv ==
  /\ TypeOK /\ PoolInjective /\ UnusedApart /\ OwnClients
  /\ StatusesFit /\ NothingKeptForDeleted /\ CachedClientCurrent

LEMMA PoolInvariant == Spec => []PoolInv
  <1>1. Init => PoolInv
    <2> SUFFICES ASSUME Init PROVE PoolInv
      OBVIOUS
    <2>1. TypeOK
      BY CapAssumption DEF Init, TypeOK, NewEntry, NoClient, Deadlines, Statuses
    <2>2. Pool = {} /\ DOMAIN pool = {}
      BY DEF Init, Pool
    <2> QED BY <2>1, <2>2
            DEF Init, PoolInv, PoolInjective, UnusedApart, OwnClients, StatusesFit,
                NothingKeptForDeleted, CachedClientCurrent
  <1>2. PoolInv /\ [Next]_vars => PoolInv'
    BY TypeStep, PoolStep, OwnClientsStep, StatusStep, NothingKeptStep, CachedStep DEF PoolInv
  <1> QED BY <1>1, <1>2, PTL DEF Spec

\* The client the next request gets sends the credential the config holds,
\* however refreshes by older clients, updates, deletions and restarts interleave.
THEOREM ClientsAreCurrent == Spec => []CachedClientCurrent
  <1>1. PoolInv => CachedClientCurrent
    BY DEF PoolInv
  <1> QED BY <1>1, PoolInvariant, PTL

\* No report that comes late puts a cooldown or a client back for a token that
\* was deleted.
THEOREM DeletedTokensLeaveNothing == Spec => []NothingKeptForDeleted
  <1>1. PoolInv => NothingKeptForDeleted
    BY DEF PoolInv
  <1> QED BY <1>1, PoolInvariant, PTL

\* A token with the status "cooldown" has a deadline on disk, and one that needs
\* a login has none at all.
THEOREM StatusesNameTheirWayBack == Spec => []StatusMatchesDeadline
  <1>1. PoolInv => StatusMatchesDeadline
    BY StatusPerToken DEF PoolInv
  <1> QED BY <1>1, PoolInvariant, PTL

\* get_next chooses another token than the last time whenever one is available.
LEMMA ServedIsAnother ==
  ASSUME TypeOK, PoolInjective, NEW h \in Requests, Serve(h),
         NEW i \in AvailableAt, pool[i] # last
  PROVE  last' # last
  <1> DEFINE S == IF After # {} THEN After ELSE AvailableAt
             k == First(S)
  <1>1. AvailableAt \subseteq DOMAIN pool /\ DOMAIN pool \subseteq Nat /\ After \subseteq AvailableAt
    BY DEF AvailableAt, After, TypeOK
  <1>2. S \in SUBSET Nat /\ S # {}
    BY <1>1
  <1>3. k \in S /\ \A j \in S : k <= j
    <2> HIDE DEF S
    <2> QED BY <1>2, FirstIsLeast
  <1>4. last' = pool[k]
    BY DEF Serve
  <1> HIDE DEF k
  <1>5. CASE After # {}
    <2>1. k \in After
      BY <1>3, <1>5
    <2>2. PICK j \in AvailableAt : j < k /\ pool[j] = last
      BY <2>1 DEF After
    <2>3. j # k /\ k \in DOMAIN pool /\ j \in DOMAIN pool
      BY <1>1, <2>1, <2>2
    <2> QED BY <1>4, <2>2, <2>3 DEF PoolInjective
  <1>6. CASE After = {}
    <2>1. k \in AvailableAt /\ k <= i
      BY <1>3, <1>6
    <2>2. ~ (k < i /\ pool[k] = last)
      BY <1>6, <2>1 DEF After
    <2>3. k \in Nat /\ i \in Nat
      BY <1>1, <2>1
    <2> QED BY <1>4, <2>1, <2>2, <2>3
  <1> QED BY <1>5, <1>6

\* The same token never serves twice in a row while another one is available.
THEOREM RotationAdvances == Spec => NeverTwiceInARow
  <1>1. PoolInv /\ [Next]_vars
          => [\A h \in Requests :
                Serve(h) /\ (\E i \in AvailableAt : pool[i] # last) => last' # last]_vars
    BY ServedIsAnother DEF PoolInv
  <1> QED BY <1>1, PoolInvariant, PTL DEF Spec, NeverTwiceInARow

=============================================================================
