---------------------------- MODULE ServicesProofs ----------------------------
(***************************************************************************)
(* What the parts of Services promise, proved for any models, callers,     *)
(* passwords, settings, addresses, limits and number of starts: the list   *)
(* of models, the configuration and the rate limiter by themselves, and    *)
(* then what their composition with the content of a request               *)
(* (ContentBudgetProofs) keeps of it.                                      *)
(***************************************************************************)
EXTENDS Services, ContentBudgetProofs

-----------------------------------------------------------------------------
(* The list of models.                                                     *)
(*                                                                         *)
(* Everything follows from one inductive invariant: the types, that an     *)
(* answer on its way is a list and a refresh that sleeps has a retry left, *)
(* and that what is trusted was fetched, or failed to be, lately enough.   *)

USE DEF registryVars

CallsInOrder ==
  \A c \in Parties :
    /\ call[c].step = "answered" => call[c].answer \in SUBSET Models
    /\ call[c].step = "sleeping" => call[c].retries > 0

RegistryInv == RegistryTypeOK /\ CallsInOrder /\ TrustRunsOut

\* The record of a party's refresh.
CallState ==
  [step : {"idle", "asked", "sleeping", "answered"}, retries : 0 .. 2,
   lists : BOOLEAN, answer : Lists]

\* The record of the history.
PastState == [list : Lists, fetched : 0 .. Ttl, failed : 0 .. Grace, read : BOOLEAN]

-----------------------------------------------------------------------------
(* Lemmas about the list of models.                                        *)

\* NoList is not a list, and the boot refresh is not a caller's.
LEMMA NoListIsNone == NoList \notin SUBSET Models /\ Boot \notin Callers
BY RegistryAssumption

LEMMA Lifetimes == Grace \in 0 .. Ttl /\ Ttl \in 0 .. Ttl /\ Grace > 0 /\ Ttl > 0
BY RegistryAssumption, SMT

\* What a refresh starts and ends with is well formed.
LEMMA AttemptTyped ==
  ASSUME NEW r \in 0 .. 2, NEW l \in BOOLEAN
  PROVE  Attempt(r, l) \in CallState /\ Attempt(r, l).step = "asked"
BY DEF Attempt, CallState, Lists

LEMMA IdleTyped == Idle \in CallState /\ Idle.step = "idle"
BY DEF Idle, CallState, Lists

LEMMA BootingTyped ==
  Booting \in [Parties -> CallState] /\ \A c \in Parties : Booting[c].step \in {"idle", "asked"}
<1>1. 2 \in 0 .. 2 /\ FALSE \in BOOLEAN
  OBVIOUS
<1>2. Attempt(2, FALSE) \in CallState /\ Attempt(2, FALSE).step = "asked"
  BY <1>1, AttemptTyped
<1>. QED BY <1>2, IdleTyped DEF Booting

\* Ages stay within their bounds.
LEMMA AgedTyped ==
  ASSUME NEW enough \in Nat, NEW age \in 0 .. enough
  PROVE  Aged(age, enough) \in 0 .. enough /\ Aged(age, enough) <= age + 1
BY DEF Aged

\* What the history holds, and what it is made of.
LEMMA SeenTyped ==
  ASSUME NEW l \in Lists, NEW a \in 0 .. Ttl, NEW b \in 0 .. Grace, NEW r \in BOOLEAN
  PROVE  /\ Seen(l, a, b, r) \in PastState
         /\ Seen(l, a, b, r).list = l /\ Seen(l, a, b, r).fetched = a
         /\ Seen(l, a, b, r).failed = b /\ Seen(l, a, b, r).read = r
BY DEF Seen, PastState

LEMMA PastTyped ==
  ASSUME NEW p \in PastState
  PROVE  /\ p.list \in Lists /\ p.fetched \in 0 .. Ttl /\ p.failed \in 0 .. Grace
         /\ p.read \in BOOLEAN
BY DEF PastState

\* The history of a process that starts.
LEMMA NoPastTyped == NoPast \in PastState /\ NoPast.list = NoList
<1>1. NoList \in Lists /\ Ttl \in 0 .. Ttl /\ Grace \in 0 .. Grace /\ TRUE \in BOOLEAN
  BY RegistryAssumption DEF Lists
<1>. QED BY <1>1, SeenTyped DEF NoPast

LEMMA ListingTyped ==
  ASSUME NEW list, NEW lifetime PROVE Listing(list, lifetime) \in {"list", "503"}
BY DEF Listing

\* The list of a request that was answered with 503 was missing, expired or empty.
LEMMA Listing503 ==
  ASSUME NEW list, NEW lifetime, Listing(list, lifetime) = "503"
  PROVE  list = NoList \/ ~(lifetime > 0) \/ list = {}
BY DEF Listing

-----------------------------------------------------------------------------
(* The invariant of the list of models.                                    *)

LEMMA InitEstablishes == RegistryInit => RegistryInv
<1> SUFFICES ASSUME RegistryInit PROVE RegistryInv
  OBVIOUS
<1>2. call \in [Parties -> CallState] /\ \A c \in Parties : call[c].step \in {"idle", "asked"}
  BY BootingTyped DEF RegistryInit
<1>3. RegistryTypeOK
  <2>1. 0 \in 0 .. Ttl /\ 0 \in 0 .. MaxRestarts
    BY RegistryAssumption, SMT
  <2>2. NoList \in Lists \ {{}}
    BY NoListIsNone DEF Lists
  <2>. QED BY <1>2, <2>1, <2>2, NoPastTyped DEF RegistryInit, RegistryTypeOK, CallState, PastState, Lists
<1>4. CallsInOrder
  BY <1>2 DEF CallsInOrder
<1>5. TrustRunsOut
  BY DEF RegistryInit, TrustRunsOut, NoPast, Seen
<1>. QED BY <1>3, <1>4, <1>5 DEF RegistryInv

\* A refresh that is over leaves well-formed calls and replies.
LEMMA OverTyped ==
  ASSUME RegistryTypeOK, CallsInOrder, NEW c \in Parties, Over(c)
  PROVE  /\ call' \in [Parties -> CallState]
         /\ reply' \in [Callers -> {"none", "list", "503"}]
         /\ CallsInOrder'
<1>1. call \in [Parties -> CallState] /\ reply \in [Callers -> {"none", "list", "503"}]
  BY DEF RegistryTypeOK, CallState, PastState
<1>2. call' \in [Parties -> CallState]
  BY <1>1, IdleTyped DEF Over
<1>3. reply' \in [Callers -> {"none", "list", "503"}]
  BY <1>1, ListingTyped DEF Over
<1>4. CallsInOrder'
  BY <1>1, IdleTyped DEF Over, CallsInOrder
<1>. QED BY <1>2, <1>3, <1>4

\* So does an attempt that begins.
LEMMA AskingTyped ==
  ASSUME RegistryTypeOK, CallsInOrder, NEW c \in Parties, NEW r \in 0 .. 2,
         NEW l \in BOOLEAN, call' = Asking(c, r, l)
  PROVE  call' \in [Parties -> CallState] /\ CallsInOrder'
<1>1. call \in [Parties -> CallState]
  BY DEF RegistryTypeOK, CallState, PastState
<1>2. call' \in [Parties -> CallState]
  BY <1>1, AttemptTyped DEF Asking
<1>3. CallsInOrder'
  BY <1>1, AttemptTyped DEF Asking, CallsInOrder
<1>. QED BY <1>2, <1>3

\* Steps that move none of it leave what is trusted.
LEMMA TrustStays ==
  ASSUME TrustRunsOut, UNCHANGED <<cache, left, fromSnapshot, snapshot, past>>
  PROVE  TrustRunsOut'
BY DEF TrustRunsOut

LEMMA StepKeeps == RegistryInv /\ [RegistryNext]_registryVars => RegistryInv'
<1> SUFFICES ASSUME RegistryInv, [RegistryNext]_registryVars PROVE RegistryInv'
  OBVIOUS
<1> USE DEF RegistryInv
<1>t. /\ call \in [Parties -> CallState]
      /\ reply \in [Callers -> {"none", "list", "503"}]
      /\ cache \in Lists /\ left \in 0 .. Ttl /\ snapshot \in Lists \ {{}}
      /\ fromSnapshot \in BOOLEAN
      /\ past \in PastState
      /\ restarts \in 0 .. MaxRestarts
  BY DEF RegistryTypeOK, CallState, PastState
<1>1. ASSUME NEW c \in Callers, ListModels(c) PROVE RegistryInv'
  <2>1. call' \in [Parties -> CallState] /\ CallsInOrder'
    <3>1. c \in Parties /\ 1 \in 0 .. 2 /\ TRUE \in BOOLEAN
      BY DEF Parties
    <3>2. CASE call' = Asking(c, 1, TRUE)
      BY <3>1, <3>2, AskingTyped
    <3>3. CASE UNCHANGED call
      BY <3>3, <1>t DEF CallsInOrder
    <3>. QED BY <1>1, <3>2, <3>3 DEF ListModels
  <2>2. reply' \in [Callers -> {"none", "list", "503"}]
    BY <1>1, <1>t, ListingTyped DEF ListModels
  <2>. QED BY <1>1, <1>t, <2>1, <2>2, TrustStays DEF ListModels, RegistryTypeOK, CallState, PastState
<1>2. ASSUME NEW c \in Callers, ForceRefresh(c) PROVE RegistryInv'
  <2>1. call' \in [Parties -> CallState] /\ CallsInOrder'
    <3>1. c \in Parties /\ 0 \in 0 .. 2 /\ FALSE \in BOOLEAN
      BY DEF Parties
    <3>. QED BY <1>2, <3>1, AskingTyped DEF ForceRefresh
  <2>. QED BY <1>2, <1>t, <2>1, TrustStays DEF ForceRefresh, RegistryTypeOK, CallState, PastState
<1>4. ASSUME NEW c \in Parties, NEW list \in SUBSET Models, UpstreamAnswers(c, list)
      PROVE  RegistryInv'
  <2>1. list \in Lists
    BY DEF Lists
  <2>2. call' \in [Parties -> CallState]
    BY <1>4, <1>t, <2>1, ZenonT(60) DEF UpstreamAnswers, CallState
  <2>3. CallsInOrder'
    BY <1>4, <1>t DEF UpstreamAnswers, CallsInOrder, CallState
  <2>. QED BY <1>4, <1>t, <2>2, <2>3, TrustStays
           DEF UpstreamAnswers, RegistryTypeOK, CallState, PastState
<1>5. ASSUME NEW c \in Parties, NEW saved \in BOOLEAN, FetchReturns(c, saved)
      PROVE  RegistryInv'
  <2>1. call[c].answer \in SUBSET Models
    BY <1>5 DEF FetchReturns, CallsInOrder
  <2>2. /\ call' \in [Parties -> CallState]
        /\ reply' \in [Callers -> {"none", "list", "503"}]
        /\ CallsInOrder'
    BY <1>5, OverTyped DEF FetchReturns
  <2>5. /\ past' \in PastState
        /\ past'.list = cache' /\ past'.fetched = 0
    <3>1. past' = Seen(call[c].answer, 0, past.failed, TRUE) /\ cache' = call[c].answer
      BY <1>5 DEF FetchReturns
    <3>2. /\ call[c].answer \in Lists /\ 0 \in 0 .. Ttl /\ past.failed \in 0 .. Grace
          /\ TRUE \in BOOLEAN
      BY <1>t, <2>1, RegistryAssumption, PastTyped DEF Lists
    <3> DEFINE answer == call[c].answer
               seen == Seen(answer, 0, past.failed, TRUE)
    <3> HIDE DEF answer
    <3>3. seen \in PastState /\ seen.list = answer /\ seen.fetched = 0
      BY <3>2 DEF answer, Seen, PastState
    <3>. QED BY <3>1, <3>3 DEF answer
  <2>6. TrustRunsOut'
    <3>1. left' = Ttl /\ fromSnapshot' = FALSE /\ Ttl \in Nat
      BY <1>5, RegistryAssumption DEF FetchReturns
    <3>. QED BY <2>5, <3>1 DEF TrustRunsOut
  <2>3. cache' \in Lists /\ left' \in 0 .. Ttl /\ fromSnapshot' = FALSE
    BY <1>5, <2>1, Lifetimes DEF FetchReturns, Lists
  <2>4. snapshot' \in Lists \ {{}}
    BY <1>5, <1>t, <2>1 DEF FetchReturns, Saves, Lists
  <2>. QED BY <1>5, <1>t, <2>2, <2>3, <2>4, <2>5, <2>6
           DEF FetchReturns, RegistryTypeOK, CallState, PastState
<1>6. ASSUME NEW c \in Parties, FetchFails(c) PROVE RegistryInv'
  <2>1. call' \in [Parties -> CallState]
    BY <1>6, <1>t DEF FetchFails, CallState
  <2>2. CallsInOrder'
    BY <1>6, <1>t DEF FetchFails, CallsInOrder, CallState
  <2>. QED BY <1>6, <1>t, <2>1, <2>2, TrustStays DEF FetchFails, RegistryTypeOK, CallState, PastState
<1>7. ASSUME NEW c \in Parties, Wakes(c) PROVE RegistryInv'
  <2>1. call' \in [Parties -> CallState] /\ CallsInOrder'
    <3>1. call[c].retries - 1 \in 0 .. 2 /\ call[c].lists \in BOOLEAN
      BY <1>7, <1>t DEF Wakes, CallsInOrder, CallState
    <3>. QED BY <1>7, <3>1, AskingTyped DEF Wakes
  <2>. QED BY <1>7, <1>t, <2>1, TrustStays DEF Wakes, RegistryTypeOK, CallState, PastState
<1>8. ASSUME NEW c \in Parties, NEW readable \in BOOLEAN, GivesUp(c, readable)
      PROVE  RegistryInv'
  <2>1. /\ call' \in [Parties -> CallState]
        /\ reply' \in [Callers -> {"none", "list", "503"}]
        /\ CallsInOrder'
    BY <1>8, OverTyped DEF GivesUp
  <2>2. /\ past' \in PastState
        /\ past'.list = past.list /\ past'.fetched = past.fetched /\ past'.failed = 0
        /\ snapshot' = snapshot
    <3>1. past' = Seen(past.list, past.fetched, 0, readable) /\ snapshot' = snapshot
      BY <1>8 DEF GivesUp
    <3>2. past.list \in Lists /\ past.fetched \in 0 .. Ttl /\ 0 \in 0 .. Grace
      BY <1>t, RegistryAssumption, PastTyped
    <3>. QED BY <3>1, <3>2, SeenTyped
  <2>3. /\ cache' \in Lists /\ left' \in 0 .. Ttl /\ fromSnapshot' \in BOOLEAN
        /\ TrustRunsOut'
    <3>1. CASE KeepCache
      BY <3>1, <2>2, <1>t, PastTyped, Lifetimes DEF KeepCache, TrustRunsOut
    <3>2. CASE UNCHANGED <<cache, left, fromSnapshot>>
      BY <3>2, <2>2, <1>t, PastTyped, Lifetimes DEF TrustRunsOut
    <3>3. CASE LoadSnapshot(readable) /\ ~UNCHANGED <<cache, left, fromSnapshot>>
      <4>1. cache' = snapshot /\ left' = Grace /\ fromSnapshot' = TRUE
        BY <3>3 DEF LoadSnapshot
      <4>. QED BY <4>1, <2>2, <1>t, PastTyped, Lifetimes DEF TrustRunsOut
    <3>. QED BY <1>8, <3>1, <3>2, <3>3 DEF GivesUp
  <2>. QED BY <1>8, <1>t, <2>1, <2>2, <2>3 DEF GivesUp, RegistryTypeOK, CallState, PastState
<1>9. CASE Tick
  <2>1. left' \in 0 .. Ttl /\ (left' > 0 => left' = left - 1)
    BY <1>9, <1>t, RegistryAssumption DEF Tick
  <2>2. /\ Aged(past.fetched, Ttl) \in 0 .. Ttl /\ Aged(past.fetched, Ttl) <= past.fetched + 1
        /\ Aged(past.failed, Grace) \in 0 .. Grace /\ Aged(past.failed, Grace) <= past.failed + 1
    BY <1>t, AgedTyped, RegistryAssumption, PastTyped
  <2>3. /\ past' \in PastState
        /\ past'.list = past.list
        /\ past'.fetched <= past.fetched + 1 /\ past'.failed <= past.failed + 1
    <3>1. past' = Seen(past.list, Aged(past.fetched, Ttl), Aged(past.failed, Grace), TRUE)
      BY <1>9 DEF Tick
    <3>2. past.list \in Lists
      BY <1>t, PastTyped
    <3>. QED BY <2>2, <3>1, <3>2 DEF Seen, PastState
  <2>4. TrustRunsOut'
    <3>1. UNCHANGED <<cache, snapshot, fromSnapshot>>
      BY <1>9 DEF Tick
    <3>2. cache' = IF fromSnapshot' THEN snapshot' ELSE past'.list
      BY <1>t, <2>3, <3>1 DEF TrustRunsOut
    <3>3. /\ past.fetched \in Nat /\ past.failed \in Nat /\ left \in Nat
          /\ past'.fetched \in Nat /\ past'.failed \in Nat /\ Ttl \in Nat /\ Grace \in Nat
      BY <1>t, <2>3, PastTyped, RegistryAssumption
    <3>4. left' > 0 =>
            \/ ~fromSnapshot' /\ past'.fetched + left' <= Ttl
            \/ past'.failed + left' <= Grace
      BY <1>t, <2>1, <2>3, <3>1, <3>3 DEF TrustRunsOut
    <3>. QED BY <3>2, <3>4 DEF TrustRunsOut
  <2>. QED BY <1>9, <1>t, <2>1, <2>3, <2>4
           DEF Tick, RegistryTypeOK, CallState, PastState, CallsInOrder
<1>10. CASE RegistryRestart
  <2>1. call' \in [Parties -> CallState] /\ CallsInOrder'
    BY <1>10, BootingTyped DEF RegistryRestart, CallsInOrder
  <2>2. cache' \in Lists /\ left' \in 0 .. Ttl /\ restarts' \in 0 .. MaxRestarts
    BY <1>10, <1>t, RegistryAssumption DEF RegistryRestart, Lists
  <2>3. reply' \in [Callers -> {"none", "list", "503"}]
    BY <1>10 DEF RegistryRestart
  <2>4. TrustRunsOut'
    BY <1>10 DEF RegistryRestart, TrustRunsOut, NoPast, Seen
  <2>. QED BY <1>10, <1>t, <2>1, <2>2, <2>3, <2>4, NoPastTyped
           DEF RegistryRestart, RegistryTypeOK, CallState, PastState
<1>11. CASE UNCHANGED registryVars
  BY <1>11, <1>t, TrustStays DEF RegistryTypeOK, CallsInOrder
<1>. QED
  BY <1>1, <1>2, <1>4, <1>5, <1>6, <1>7, <1>8, <1>9, <1>10, <1>11
     DEF RegistryNext, Proceeds

LEMMA Inductive == RegistrySpec => []RegistryInv
BY InitEstablishes, StepKeeps, PTL DEF RegistrySpec

-----------------------------------------------------------------------------
(* The theorems about the list of models.                                  *)

\* The registry keeps its types.
THEOREM RegistryTyped == RegistrySpec => []RegistryTypeOK
<1>1. RegistryInv => RegistryTypeOK
  BY DEF RegistryInv
<1>. QED BY <1>1, Inductive, PTL

\* The flag tells a list from disk from the one upstream last sent, and what is taken for
\* fresh was fetched within its TTL or kept by a refresh that failed within the grace
\* period, however many refreshes overlap, fail and return late (refresh, ready).
THEOREM TrustAlwaysRunsOut == RegistrySpec => []TrustRunsOut
<1>1. RegistryInv => TrustRunsOut
  BY DEF RegistryInv
<1>. QED BY <1>1, Inductive, PTL

LEMMA RefusalStep ==
  RegistryInv /\ [RegistryNext]_registryVars =>
    [\A c \in Callers :
       Refuses(c) => FoundNothing(c) \/ (past'.list = {} /\ cache' = {})]_registryVars
<1>1. ASSUME RegistryInv, RegistryNext, NEW c \in Callers, Refuses(c)
      PROVE  FoundNothing(c) \/ (past'.list = {} /\ cache' = {})
  <2>r. reply'[c] = "503" /\ reply[c] # "503"
    BY <1>1 DEF Refuses
  <2>t. /\ reply \in [Callers -> {"none", "list", "503"}]
        /\ snapshot # {} /\ cache \in Lists
        /\ past \in PastState
    BY <1>1 DEF RegistryInv, RegistryTypeOK, PastState
  <2>1. ASSUME NEW d \in Callers, ListModels(d) PROVE past'.list = {} /\ cache' = {}
    <3>1. Ready /\ Listing(cache, left) = "503" /\ cache' = cache /\ past' = past
      BY <2>r, <2>1, <2>t DEF ListModels
    <3>2. cache = {}
      BY <3>1, Listing503 DEF Ready
    <3>. QED BY <1>1, <2>t, <3>1, <3>2 DEF RegistryInv, TrustRunsOut
  <2>2. ASSUME NEW d \in Parties, Over(d) PROVE d = c /\ Listing(cache', left') = "503"
    BY <2>r, <2>2, <2>t DEF Over
  <2>3. ASSUME NEW d \in Parties, NEW saved \in BOOLEAN, FetchReturns(d, saved)
        PROVE  past'.list = {} /\ cache' = {}
    <3>1. cache' \in SUBSET Models /\ left' > 0 /\ past'.list = cache'
      BY <1>1, <2>3, <2>t, Lifetimes DEF FetchReturns, Seen, RegistryInv, CallsInOrder
    <3>2. Listing(cache', left') = "503"
      BY <2>2, <2>3 DEF FetchReturns
    <3>. QED BY <3>1, <3>2, Listing503, NoListIsNone
  <2>4. ASSUME NEW d \in Parties, NEW readable \in BOOLEAN, GivesUp(d, readable)
        PROVE  FoundNothing(c)
    <3>1. d = c /\ Listing(cache', left') = "503"
      BY <2>2, <2>4 DEF GivesUp
    <3>2. past'.read = readable /\ call[c].step = "asked"
      BY <2>4, <2>t, <3>1 DEF GivesUp, Seen
    <3>. QED BY <2>4, <2>t, <3>1, <3>2, Listing503, Lifetimes
             DEF GivesUp, KeepCache, LoadSnapshot, FoundNothing
  <2>5. ASSUME NEW d \in Callers, ForceRefresh(d) PROVE FALSE
    BY <2>r, <2>5, <2>t DEF ForceRefresh
  <2>6. CASE RegistryRestart
    BY <2>r, <2>6, <1>1 DEF RegistryRestart
  <2>7. CASE reply' = reply
    BY <2>r, <2>7
  <2>. QED
    BY <1>1, <2>1, <2>3, <2>4, <2>5, <2>6, <2>7
       DEF RegistryNext, Proceeds, UpstreamAnswers, FetchFails, Wakes, Tick
<1>. QED BY <1>1

\* A request for the list is refused only after upstream failed, with no snapshot or none
\* that can be read, or for the empty list that upstream sent last (list_models).
THEOREM RefusedWithReason == RegistrySpec => Only503WhenNothing
  BY RefusalStep, Inductive, PTL DEF RegistrySpec, Only503WhenNothing

\* A model of the list is resolved to itself.
KnownResolves == \A m \in Models : HasAlias(m) => ResolveModel(m) = m

LEMMA ListedNames == KnownResolves
<1> SUFFICES ASSUME NEW m \in Models, HasAlias(m) PROVE ResolveModel(m) = m
  BY DEF KnownResolves
<1> DEFINE names == Wanted(m)
           known == {n \in Models : HasAlias(n)}
           at == {i \in DOMAIN names : names[i] \in known}
<1>1. 1 \in DOMAIN names /\ names[1] = m /\ DOMAIN names \subseteq Nat \ {0}
  BY RegistryAssumption DEF Wanted
<1>2. 1 \in at /\ \A j \in at : j \in Nat \ {0}
  BY <1>1
<1>3. (CHOOSE i \in at : \A j \in at : i <= j) = 1
  BY <1>2
<1>4. FirstIn(names, known) = m
  BY <1>1, <1>2, <1>3 DEF FirstIn
<1>. QED BY <1>1, <1>4 DEF ResolveModel

\* Only an answer without the model, or a restart, takes a known model away.
LEMMA AliasesLeave ==
  ASSUME RegistryInv, [RegistryNext]_registryVars, NEW m \in Models, HasAlias(m), ~HasAlias(m)'
  PROVE  \/ restarts' # restarts
         \/ \E c \in Parties : call[c].step = "answered" /\ m \notin call[c].answer
<1>0. cache' # cache /\ cache \notin {NoList, {}}
  BY DEF HasAlias
<1>1. ASSUME NEW c \in Parties, NEW saved \in BOOLEAN, FetchReturns(c, saved)
      PROVE  call[c].step = "answered" /\ m \notin call[c].answer
  <2>1. call[c].step = "answered" /\ cache' = call[c].answer
    BY <1>1 DEF FetchReturns
  <2>2. call[c].answer \in SUBSET Models
    BY <2>1 DEF RegistryInv, CallsInOrder
  <2>. QED BY <2>1, <2>2, NoListIsNone DEF HasAlias
<1>2. ASSUME NEW c \in Parties, NEW readable \in BOOLEAN, GivesUp(c, readable) PROVE FALSE
  BY <1>0, <1>2 DEF GivesUp, KeepCache
<1>3. CASE RegistryRestart
  BY <1>3, RegistryAssumption DEF RegistryRestart, RegistryInv, RegistryTypeOK
<1>. QED
  BY <1>0, <1>1, <1>2, <1>3
     DEF RegistryNext, Proceeds, ListModels, ForceRefresh, UpstreamAnswers, FetchFails,
         Wakes, Tick

LEMMA KnownStep ==
  RegistryInv /\ KnownResolves /\ KnownResolves' /\ [RegistryNext]_registryVars =>
    [\A m \in Models :
       HasAlias(m) /\ ResolveModel(m)' # ResolveModel(m) =>
         \/ restarts' # restarts
         \/ \E c \in Parties : call[c].step = "answered" /\ m \notin call[c].answer]_registryVars
<1> SUFFICES ASSUME RegistryInv, KnownResolves, KnownResolves', [RegistryNext]_registryVars,
                    NEW m \in Models, HasAlias(m), ResolveModel(m)' # ResolveModel(m)
             PROVE  \/ restarts' # restarts
                    \/ \E c \in Parties : call[c].step = "answered" /\ m \notin call[c].answer
  OBVIOUS
<1>1. ~HasAlias(m)'
  BY DEF KnownResolves
<1>. QED BY <1>1, AliasesLeave

\* A known model keeps what it is resolved to over time, failed refreshes and changes
\* of upstream: only a list without it that arrives, or a restart, takes it away
\* (refresh, resolve_model).
THEOREM KnownModelsAreKept == RegistrySpec => KnownModelKept
  BY KnownStep, ListedNames, Inductive, PTL DEF RegistrySpec, KnownModelKept

-----------------------------------------------------------------------------
(* The configuration.                                                      *)
(*                                                                         *)
(* The invariant follows a change through its saves: what todo may hold,   *)
(* that a torn file means the field at its head is already set in memory,  *)
(* and that what a start would read - or has read - is sound: its setting  *)
(* and its password are expected ones, an unsalted hash is bcrypt's, and   *)
(* its secret is the one that signed the admin's session.                  *)

USE DEF configVars

\* The fields a handler has yet to set.
TodoOK ==
  \/ todo = <<>>
  \/ todo = <<Field("salt", FALSE)>>
  \/ \E p \in Passwords : todo = PasswordFields(p)
  \/ \E v \in Values : todo = <<Field("setting", v)>>
  \/ \E v \in Values, b \in BOOLEAN : todo = <<Field("setting", v), Field("negative", b)>>
  \/ \E b \in BOOLEAN : todo = <<Field("negative", b)>>

StoreTyped ==
  /\ config \in Configs /\ disk \in Configs
  /\ file \in {"missing", "torn", "written"}
  /\ process \in {"down", "making", "starting", "printing", "up", "broken"}
  /\ TodoOK
  /\ session \in 0 .. MaxStarts /\ starts \in 0 .. MaxStarts
  /\ expected \in [password : SUBSET Passwords, setting : SUBSET Values]

\* What is on disk while the service runs or does not.
Phases ==
  /\ process # "up" => todo = <<>>
  /\ process \in {"making", "starting"} => file = "torn"
  /\ process = "printing" => file = "written" /\ disk = config
  /\ process \in {"making", "printing"} => config.hash.password = Initial
  /\ process = "up" => file # "missing"
  /\ process = "up" /\ file = "written" => disk = config
  /\ process = "up" /\ file = "torn" => todo # <<>>
  /\ file = "missing" => /\ expected.password = {}
                         /\ DefaultConfig.setting \in expected.setting
  /\ expected.password = {} => session = NoSecret

\* Where a change stands, by the field it is at.
At(name) == todo # <<>> /\ Head(todo).name = name

Changes ==
  /\ At("hash") => /\ Head(todo).value.alg = "bcrypt"
                   /\ Head(todo).value.password \in expected.password
                   /\ file = "torn" => config.hash = Head(todo).value
  /\ At("salt") => config.hash.alg = "bcrypt"
  /\ At("setting") => Head(todo).value \in expected.setting

Sound(c) ==
  /\ c.setting \in expected.setting
  /\ expected.password # {} => c.hash.password \in expected.password
  /\ ~c.salt => c.hash.alg = "bcrypt"
  /\ session # NoSecret => c.secret = session

AllSound ==
  /\ process \in {"making", "starting", "printing", "up"} => Sound(config)
  /\ file = "written" => Sound(disk)

StoreInv == StoreTyped /\ Phases /\ Changes /\ AllSound

-----------------------------------------------------------------------------
(* Lemmas about the configuration.                                         *)

LEMMA DefaultTyped ==
  /\ DefaultConfig \in Configs /\ OldConfig \in Configs
  /\ DefaultConfig.secret = NoSecret /\ OldConfig.secret = NoSecret
  /\ DefaultConfig.hash = Hash("bcrypt", Initial) /\ DefaultConfig.salt = FALSE
  /\ OldConfig.hash = Hash("sha256", Initial) /\ OldConfig.salt = TRUE
  /\ OldConfig.setting = DefaultConfig.setting
<1>1. (CHOOSE v \in Values : TRUE) \in Values
  BY ConfigAssumption
<1>2. 0 \in 0 .. MaxStarts
  BY ConfigAssumption
<1>3. Hash("bcrypt", Initial) \in [alg : {"bcrypt", "sha256"}, password : Passwords]
      /\ Hash("sha256", Initial) \in [alg : {"bcrypt", "sha256"}, password : Passwords]
  BY ConfigAssumption DEF Hash
<1>. QED BY <1>1, <1>2, <1>3 DEF DefaultConfig, OldConfig, Configs, NoSecret

\* A start changes nothing of a configuration but a missing secret.
LEMMA SecurityKeeps ==
  ASSUME NEW c \in Configs, starts < MaxStarts, starts \in 0 .. MaxStarts
  PROVE  /\ EnsureSecurity(c) \in Configs
         /\ EnsureSecurity(c).hash = c.hash /\ EnsureSecurity(c).salt = c.salt
         /\ EnsureSecurity(c).setting = c.setting
         /\ c.secret # NoSecret => EnsureSecurity(c).secret = c.secret
<1>1. starts + 1 \in 0 .. MaxStarts
  BY ConfigAssumption
<1>. QED BY <1>1 DEF EnsureSecurity, Configs, NoSecret

LEMMA TodoHeads ==
  /\ \A f : Head(<<f>>) = f /\ Tail(<<f>>) = <<>> /\ Len(<<f>>) = 1 /\ <<f>> # <<>>
  /\ \A f, g : Head(<<f, g>>) = f /\ Tail(<<f, g>>) = <<g>> /\ Len(<<f, g>>) = 2
                 /\ <<f, g>> # <<>>
<1>1. ASSUME NEW f PROVE Head(<<f>>) = f /\ Len(<<f>>) = 1 /\ <<f>> # <<>>
  OBVIOUS
<1>2. ASSUME NEW f PROVE Tail(<<f>>) = <<>>
  OBVIOUS
<1>3. ASSUME NEW f, NEW g PROVE Head(<<f, g>>) = f /\ Len(<<f, g>>) = 2 /\ <<f, g>> # <<>>
  OBVIOUS
<1>4. ASSUME NEW f, NEW g PROVE Tail(<<f, g>>) = <<g>>
  OBVIOUS
<1>. QED BY <1>1, <1>2, <1>3, <1>4

\* The field a handler is at, and what remains after it.
LEMMA HeadCases ==
  ASSUME TodoOK, todo # <<>>
  PROVE  \/ Head(todo) = Field("salt", FALSE) /\ Tail(todo) = <<>>
         \/ \E p \in Passwords : Head(todo) = Field("hash", Hash("bcrypt", p))
                                /\ Tail(todo) = <<Field("salt", FALSE)>>
         \/ \E v \in Values : Head(todo) = Field("setting", v)
                             /\ (Tail(todo) = <<>> \/ \E b \in BOOLEAN : Tail(todo) = <<Field("negative", b)>>)
         \/ \E b \in BOOLEAN : Head(todo) = Field("negative", b) /\ Tail(todo) = <<>>
<1>1. CASE todo = <<Field("salt", FALSE)>>
  BY <1>1, TodoHeads
<1>2. ASSUME NEW p \in Passwords, todo = PasswordFields(p)
      PROVE  Head(todo) = Field("hash", Hash("bcrypt", p)) /\ Tail(todo) = <<Field("salt", FALSE)>>
  BY <1>2, TodoHeads DEF PasswordFields
<1>3. ASSUME NEW v \in Values, todo = <<Field("setting", v)>>
      PROVE  Head(todo) = Field("setting", v) /\ Tail(todo) = <<>>
  BY <1>3, TodoHeads
<1>4. ASSUME NEW v \in Values, NEW b \in BOOLEAN, todo = <<Field("setting", v), Field("negative", b)>>
      PROVE  Head(todo) = Field("setting", v) /\ Tail(todo) = <<Field("negative", b)>>
  BY <1>4, TodoHeads
<1>5. ASSUME NEW b \in BOOLEAN, todo = <<Field("negative", b)>>
      PROVE  Head(todo) = Field("negative", b) /\ Tail(todo) = <<>>
  BY <1>5, TodoHeads
<1>. QED BY <1>1, <1>2, <1>3, <1>4, <1>5 DEF TodoOK

-----------------------------------------------------------------------------
(* The invariant of the configuration.                                     *)

LEMMA InitSound == ConfigInit => StoreInv
<1> SUFFICES ASSUME ConfigInit PROVE StoreInv
  OBVIOUS
<1>1. StoreTyped
  <2>1. 0 \in 0 .. MaxStarts /\ NoSecret \in 0 .. MaxStarts
    BY ConfigAssumption DEF NoSecret
  <2>2. {Initial} \in SUBSET Passwords /\ {} \in SUBSET Passwords /\ {DefaultConfig.setting} \in SUBSET Values
    BY ConfigAssumption DEF DefaultConfig
  <2>. QED BY <2>1, <2>2, DefaultTyped DEF ConfigInit, StoreTyped, TodoOK
<1>2. Phases
  BY DEF ConfigInit, Phases
<1>3. Changes
  BY DEF ConfigInit, Changes, At
<1>4. AllSound
  BY DefaultTyped DEF ConfigInit, AllSound, Sound, Hash
<1>. QED BY <1>1, <1>2, <1>3, <1>4 DEF StoreInv

LEMMA StartKeeps == StoreInv /\ Start => StoreInv'
<1> SUFFICES ASSUME StoreInv, Start PROVE StoreInv'
  OBVIOUS
<1> USE DEF StoreInv, StoreTyped
<1>1. starts' \in 0 .. MaxStarts
  BY ConfigAssumption DEF Start
<1>2. CASE file = "torn"
  BY <1>1, <1>2 DEF Start, TodoOK, Phases, Changes, At, AllSound, Sound
<1>3. CASE file # "torn"
  <2> DEFINE read == IF file = "missing" THEN DefaultConfig ELSE disk
  <2>1. read \in Configs /\ Sound(read)
    <3>1. CASE file = "missing"
      BY <3>1, DefaultTyped DEF Sound, Hash, Phases
    <3>2. CASE file = "written"
      BY <3>2 DEF AllSound
    <3>. QED BY <1>3, <3>1, <3>2
  <2>2. /\ config' = EnsureSecurity(read) /\ file' = "torn"
        /\ process' = IF file = "missing" THEN "making" ELSE "starting"
    BY <1>3 DEF Start
  <2>3. config' \in Configs /\ Sound(config')
    BY <2>1, <2>2, SecurityKeeps DEF Start, Sound
  <2>4. todo = <<>>
    BY DEF Start, Phases
  <2>5. Changes'
    BY <2>4 DEF Start, Changes, At
  <2>6. AllSound'
    BY <2>2, <2>3 DEF Start, AllSound, Sound
  <2>7. file = "missing" => config'.hash.password = Initial
    BY <2>1, <2>2, SecurityKeeps, DefaultTyped DEF Start, Hash
  <2>. QED BY <1>1, <2>2, <2>3, <2>4, <2>5, <2>6, <2>7 DEF Start, TodoOK, Phases
<1>. QED BY <1>2, <1>3

LEMMA StartedKeeps == StoreInv /\ (Started \/ Made \/ Printed) => StoreInv'
<1> SUFFICES ASSUME StoreInv, Started \/ Made \/ Printed PROVE StoreInv'
  OBVIOUS
<1> USE DEF StoreInv, StoreTyped
<1>1. todo = <<>> /\ todo' = <<>>
  BY DEF Started, Made, Printed, Phases
<1>2. TodoOK'
  BY <1>1 DEF TodoOK
<1>3. Changes'
  BY <1>1 DEF Changes, At
<1>4. CASE Started \/ Made
  <2>1. AllSound'
    BY <1>4 DEF Started, Made, AllSound, Sound
  <2>2. Phases'
    BY <1>1, <1>4 DEF Started, Made, Serves, Phases
  <2>. QED BY <1>2, <1>3, <1>4, <2>1, <2>2 DEF Started, Made, Serves
<1>5. CASE Printed
  <2>1. /\ expected' \in [password : SUBSET Passwords, setting : SUBSET Values]
        /\ expected'.password = {Initial} /\ expected'.setting = expected.setting
    BY <1>5, ConfigAssumption DEF Printed
  <2>2. /\ UNCHANGED <<config, file, disk, todo, session, starts>>
        /\ process = "printing" /\ process' \in {"broken", "up"}
    BY <1>5 DEF Printed, Serves
  <2>3. AllSound'
    BY <2>1, <2>2 DEF AllSound, Sound, Phases
  <2>4. Phases'
    BY <1>1, <2>1, <2>2 DEF Phases
  <2>. QED BY <1>2, <1>3, <2>1, <2>2, <2>3, <2>4
<1>. QED BY <1>4, <1>5

LEMMA KilledKeeps == StoreInv /\ Killed => StoreInv'
<1> SUFFICES ASSUME StoreInv, Killed PROVE StoreInv'
  OBVIOUS
<1> USE DEF StoreInv, StoreTyped
<1>1. todo' = <<>> /\ process' = "down"
  BY DEF Killed
<1>2. TodoOK'
  BY <1>1 DEF TodoOK
<1>3. Changes'
  BY <1>1 DEF Changes, At
<1>4. AllSound'
  BY <1>1 DEF Killed, AllSound, Sound
<1>5. Phases'
  BY <1>1 DEF Killed, Phases
<1>. QED BY <1>1, <1>2, <1>3, <1>4, <1>5 DEF Killed

LEMMA SessionKeeps ==
  StoreInv /\ (SessionExpires \/ \E password \in Passwords : Login(password)) => StoreInv'
<1> SUFFICES ASSUME StoreInv, SessionExpires \/ \E password \in Passwords : Login(password)
             PROVE  StoreInv'
  OBVIOUS
<1> USE DEF StoreInv, StoreTyped
<1>1. UNCHANGED <<config, file, disk, process, todo, expected, starts>>
  BY DEF SessionExpires, Login
<1>2. session' = NoSecret \/ (session' = config.secret /\ Idling /\ expected.password # {})
  BY DEF SessionExpires, Login
<1>3. session' \in 0 .. MaxStarts
  BY <1>2, ConfigAssumption DEF NoSecret, Configs
<1>4. TodoOK' /\ Changes'
  BY <1>1 DEF TodoOK, Changes, At
<1>5. Phases'
  BY <1>1, <1>2 DEF Phases, Idling
<1>6. AllSound'
  BY <1>1, <1>2 DEF AllSound, Sound, Idling, Phases
<1>. QED BY <1>1, <1>3, <1>4, <1>5, <1>6

LEMMA UpdatePasswordKeeps ==
  ASSUME StoreInv, NEW old \in Passwords, NEW new \in Passwords, UpdatePassword(old, new)
  PROVE  StoreInv'
<1> USE DEF StoreInv, StoreTyped
<1>1. /\ todo' = PasswordFields(new)
      /\ expected' = [expected EXCEPT !.password = @ \cup {new}]
      /\ UNCHANGED <<config, file, disk, process, session, starts>>
      /\ Idling /\ session # NoSecret
  BY DEF UpdatePassword, Admitted
<1>2. TodoOK'
  BY <1>1 DEF TodoOK
<1>3. /\ expected' \in [password : SUBSET Passwords, setting : SUBSET Values]
      /\ expected.password \subseteq expected'.password /\ new \in expected'.password
      /\ expected'.setting = expected.setting
      /\ expected.password # {}
  BY <1>1 DEF Phases
<1>4. file = "written"
  BY <1>1 DEF Phases, Idling
<1>5. Changes'
  <2>1. Head(todo') = Field("hash", Hash("bcrypt", new))
    BY <1>1, TodoHeads DEF PasswordFields
  <2>. QED BY <1>1, <1>3, <1>4, <2>1 DEF Changes, At, Field, Hash
<1>6. AllSound'
  BY <1>1, <1>3 DEF AllSound, Sound
<1>7. Phases'
  BY <1>1, <1>3, <1>4 DEF Phases, Idling
<1>. QED BY <1>1, <1>2, <1>3, <1>5, <1>6, <1>7

LEMMA UpdateSettingsKeeps ==
  ASSUME StoreInv, NEW value \in Values, UpdateSettings(value)
  PROVE  StoreInv'
<1> USE DEF StoreInv, StoreTyped
<1>1. /\ todo' \in SettingFields(value)
      /\ expected' = [expected EXCEPT !.setting = @ \cup {value}]
      /\ UNCHANGED <<config, file, disk, process, session, starts>>
      /\ Idling
  BY DEF UpdateSettings
<1>2. \/ todo' = <<Field("setting", value)>>
      \/ \E b \in BOOLEAN : todo' = <<Field("setting", value), Field("negative", b)>>
  BY <1>1 DEF SettingFields
<1>3. TodoOK'
  BY <1>2 DEF TodoOK
<1>4. Head(todo') = Field("setting", value)
  BY <1>2, TodoHeads
<1>5. /\ expected' \in [password : SUBSET Passwords, setting : SUBSET Values]
      /\ expected.setting \subseteq expected'.setting /\ value \in expected'.setting
      /\ expected'.password = expected.password
  BY <1>1
<1>6. file = "written"
  BY <1>1 DEF Phases, Idling
<1>7. Changes'
  BY <1>1, <1>4, <1>5 DEF Changes, At, Field
<1>8. AllSound'
  BY <1>1, <1>5 DEF AllSound, Sound
<1>9. Phases'
  BY <1>1, <1>5, <1>6 DEF Phases, Idling
<1>. QED BY <1>1, <1>3, <1>5, <1>7, <1>8, <1>9

\* The field at the head of todo is set in memory, the file is torn.
LEMMA SetValKeeps == StoreInv /\ SetVal => StoreInv'
<1> SUFFICES ASSUME StoreInv, SetVal PROVE StoreInv'
  OBVIOUS
<1> USE DEF StoreInv, StoreTyped
<1>0. /\ config' = [config EXCEPT ![Head(todo).name] = Head(todo).value]
      /\ file' = "torn" /\ process = "up" /\ todo # <<>>
      /\ UNCHANGED <<disk, process, todo, session, expected, starts>>
      /\ Sound(config)
  BY DEF SetVal, AllSound
<1>1. TodoOK' /\ Phases'
  BY <1>0 DEF TodoOK, Phases
<1>2. CASE Head(todo) = Field("salt", FALSE)
  <2>0. Head(todo).name = "salt" /\ Head(todo).value = FALSE
    BY <1>2 DEF Field
  <2>1. config' = [config EXCEPT !.salt = FALSE] /\ config.hash.alg = "bcrypt"
    BY <1>0, <2>0 DEF Changes, At
  <2>2. config' \in Configs /\ Sound(config') /\ config'.hash = config.hash
    BY <1>0, <2>1 DEF Configs, Sound
  <2>3. Changes'
    BY <1>0, <1>2, <2>1, <2>2 DEF Changes, At, Field
  <2>. QED BY <1>0, <1>1, <2>2, <2>3 DEF AllSound, Sound
<1>3. ASSUME NEW p \in Passwords, Head(todo) = Field("hash", Hash("bcrypt", p)) PROVE StoreInv'
  <2>0. Head(todo).name = "hash" /\ Head(todo).value = Hash("bcrypt", p)
    BY <1>3 DEF Field
  <2>a. Hash("bcrypt", p).password = p
    BY DEF Hash
  <2>b. p \in expected.password
    BY <1>0, <2>0, <2>a DEF Changes, At
  <2>1. config' = [config EXCEPT !.hash = Hash("bcrypt", p)] /\ p \in expected.password
    BY <1>0, <2>0, <2>b
  <2>2. config' \in Configs /\ Sound(config') /\ config'.hash = Hash("bcrypt", p)
    BY <1>0, <2>1 DEF Configs, Sound, Hash
  <2>3. Changes'
    BY <1>0, <1>3, <2>1, <2>2 DEF Changes, At, Field, Hash
  <2>. QED BY <1>0, <1>1, <2>2, <2>3 DEF AllSound, Sound
<1>4. ASSUME NEW v \in Values, Head(todo) = Field("setting", v) PROVE StoreInv'
  <2>0. Head(todo).name = "setting" /\ Head(todo).value = v
    BY <1>4 DEF Field
  <2>1. config' = [config EXCEPT !.setting = v] /\ v \in expected.setting
    BY <1>0, <2>0 DEF Changes, At
  <2>2. config' \in Configs /\ Sound(config')
    BY <1>0, <2>1 DEF Configs, Sound
  <2>3. Changes'
    BY <1>0, <1>4, <2>1 DEF Changes, At, Field
  <2>. QED BY <1>0, <1>1, <2>2, <2>3 DEF AllSound, Sound
<1>5. ASSUME NEW b \in BOOLEAN, Head(todo) = Field("negative", b) PROVE StoreInv'
  <2>0. Head(todo).name = "negative" /\ Head(todo).value = b
    BY <1>5 DEF Field
  <2>1. config' = [config EXCEPT !.negative = b]
    BY <1>0, <2>0
  <2>2. config' \in Configs /\ Sound(config')
    BY <1>0, <2>1 DEF Configs, Sound
  <2>3. Changes'
    BY <1>0, <1>5, <2>1 DEF Changes, At, Field
  <2>. QED BY <1>0, <1>1, <2>2, <2>3 DEF AllSound, Sound
<1>. QED BY <1>0, <1>2, <1>3, <1>4, <1>5, HeadCases

\* The file is whole again; after the last field the request is acknowledged.
LEMMA SaveEndsKeeps == StoreInv /\ SaveEnds => StoreInv'
<1> SUFFICES ASSUME StoreInv, SaveEnds PROVE StoreInv'
  OBVIOUS
<1> USE DEF StoreInv, StoreTyped
<1>0. /\ file = "torn" /\ file' = "written" /\ disk' = config /\ todo' = Tail(todo)
      /\ expected' = IF Len(todo) = 1 THEN Acknowledged(Head(todo)) ELSE expected
      /\ UNCHANGED <<config, process, session, starts>>
      /\ process = "up" /\ Sound(config) /\ todo # <<>>
  BY DEF SaveEnds, Save, AllSound, Phases
<1>1. /\ expected' \in [password : SUBSET Passwords, setting : SUBSET Values]
      /\ Sound(config)'
  <2>1. config.hash.password \in Passwords /\ config.setting \in Values
    BY DEF Configs
  <2>2. \/ expected' = expected
        \/ expected' = [expected EXCEPT !.password = {config.hash.password}]
        \/ expected' = [expected EXCEPT !.setting = {config.setting}]
    BY <1>0 DEF Acknowledged
  <2>3. expected' \in [password : SUBSET Passwords, setting : SUBSET Values]
    BY <2>1, <2>2
  <2>4. /\ expected'.password = expected.password \/ expected'.password = {config.hash.password}
        /\ expected'.setting = expected.setting \/ expected'.setting = {config.setting}
    BY <2>2
  <2>. QED BY <1>0, <2>3, <2>4 DEF Sound
<1>2. AllSound'
  BY <1>0, <1>1 DEF AllSound, Sound
<1>3. Phases'
  <2>1. expected'.password = {} => expected.password = {}
    BY <1>0 DEF Acknowledged
  <2>. QED BY <1>0, <2>1 DEF Phases
<1>4. CASE todo' = <<>>
  <2>1. TodoOK' /\ Changes'
    BY <1>4 DEF TodoOK, Changes, At
  <2>. QED BY <1>0, <1>1, <1>2, <1>3, <2>1
<1>5. ASSUME NEW p \in Passwords, Head(todo) = Field("hash", Hash("bcrypt", p)),
             todo' = <<Field("salt", FALSE)>>
      PROVE  StoreInv'
  <2>1. config.hash.alg = "bcrypt"
    BY <1>0, <1>5 DEF Changes, At, Field, Hash
  <2>2. TodoOK'
    BY <1>5 DEF TodoOK
  <2>3. Head(todo') = Field("salt", FALSE)
    BY <1>5, TodoHeads
  <2>4. Changes'
    BY <1>0, <2>1, <2>3 DEF Changes, At, Field
  <2>. QED BY <1>0, <1>1, <1>2, <1>3, <2>2, <2>4
<1>6. ASSUME NEW b \in BOOLEAN, todo' = <<Field("negative", b)>> PROVE StoreInv'
  <2>1. TodoOK'
    BY <1>6 DEF TodoOK
  <2>2. Head(todo') = Field("negative", b)
    BY <1>6, TodoHeads
  <2>3. Changes'
    BY <1>0, <2>2 DEF Changes, At, Field
  <2>. QED BY <1>0, <1>1, <1>2, <1>3, <2>1, <2>3
<1>. QED BY <1>0, <1>4, <1>5, <1>6, HeadCases

LEMMA StoreInductive == ConfigSpec => []StoreInv
<1>1. StoreInv /\ [ConfigNext]_configVars => StoreInv'
  <2> SUFFICES ASSUME StoreInv, [ConfigNext]_configVars PROVE StoreInv'
    OBVIOUS
  <2>1. CASE UNCHANGED configVars
    BY <2>1, ZenonT(60) DEF StoreInv, StoreTyped, TodoOK, Phases, Changes, At, AllSound, Sound
  <2>. QED BY <2>1, StartKeeps, StartedKeeps, KilledKeeps, SessionKeeps, UpdatePasswordKeeps,
              UpdateSettingsKeeps, SetValKeeps, SaveEndsKeeps DEF ConfigNext
<1>. QED BY <1>1, InitSound, PTL DEF ConfigSpec

-----------------------------------------------------------------------------
(* The theorems about the configuration.                                   *)

\* A service that is up has the setting last acknowledged, or that of a request cut
\* short since, whenever it was killed (_save, _load).
THEOREM SettingsSurvive == ConfigSpec => []SettingSurvives
<1>1. StoreInv => SettingSurvives
  BY DEF StoreInv, AllSound, Sound, SettingSurvives, Idling
<1>. QED BY <1>1, StoreInductive, PTL

\* The secret that signed a session stays in force over restarts
\* (_ensure_admin_security).
THEOREM SessionsSurvive == ConfigSpec => []SessionSurvives
<1>1. StoreInv => SessionSurvives
  BY DEF StoreInv, AllSound, Sound, SessionSurvives
<1>. QED BY <1>1, StoreInductive, PTL

\* An admin who knows the password is let in, unless a kill fell between the two saves of
\* update_password or between the first save and the printing of the initial password.
THEOREM LockedOutOnlyHalfWay == ConfigSpec => []LockedOutHalfWayOnly
<1>1. StoreInv => LockedOutHalfWayOnly
  <2> SUFFICES ASSUME StoreInv, Idling, ~SplitChange, ~NeverPrinted
               PROVE  VerifyPassword(config, config.hash.password)
                      /\ config.hash.password \in expected.password
    BY DEF LockedOutHalfWayOnly
  <2>1. Sound(config) /\ config \in Configs
    BY DEF StoreInv, StoreTyped, AllSound, Idling
  <2>2. config.hash.alg = IF config.salt THEN "sha256" ELSE "bcrypt"
    BY <2>1 DEF Sound, SplitChange, Configs
  <2>3. config.hash = [alg |-> config.hash.alg, password |-> config.hash.password]
    BY <2>1 DEF Configs
  <2>. QED BY <2>1, <2>2, <2>3 DEF VerifyPassword, Hash, Sound, NeverPrinted
<1>. QED BY <1>1, StoreInductive, PTL

\* Among the types: while no request is at work, memory and disk agree (Config._save).
THEOREM ConfigTyped == ConfigSpec => []ConfigTypeOK
<1>1. StoreInv => ConfigTypeOK
  <2> SUFFICES ASSUME StoreInv PROVE ConfigTypeOK
    OBVIOUS
  <2>1. Len(todo) <= 2 /\ \A i \in DOMAIN todo : todo[i].name \in Fields
    <3> DEFINE Limited(s) == Len(s) <= 2 /\ \A i \in DOMAIN s : s[i].name \in Fields
    <3>1. \A f, g : f.name \in Fields /\ g.name \in Fields => Limited(<<f>>) /\ Limited(<<f, g>>)
      OBVIOUS
    <3>2. \A value : /\ Field("salt", value).name \in Fields
                    /\ Field("hash", value).name \in Fields
                    /\ Field("setting", value).name \in Fields
                    /\ Field("negative", value).name \in Fields
      BY DEF Field, Fields
    <3>3. Limited(<<>>)
      OBVIOUS
    <3> HIDE DEF Limited
    <3>4. \A p \in Passwords : Limited(PasswordFields(p))
      BY <3>1, <3>2, Zenon DEF PasswordFields
    <3>5. Limited(todo)
      BY <3>1, <3>2, <3>3, <3>4, Zenon DEF StoreInv, StoreTyped, TodoOK
    <3> QED BY <3>5 DEF Limited
  <2>2. process = "up" /\ todo = <<>> => file = "written" /\ disk = config
    BY DEF StoreInv, StoreTyped, Phases
  <2>. QED BY <2>1, <2>2 DEF StoreInv, StoreTyped, ConfigTypeOK
<1>. QED BY <1>1, StoreInductive, PTL

-----------------------------------------------------------------------------
(* The rate limiter.                                                       *)

Windows == UNION {[Ages(p) -> Nat] : p \in Paths}

GateShape ==
  /\ attempts \in [Paths -> [Hosts -> Windows]]
  /\ admitted \in [Paths -> [Hosts -> Windows]]

\* What is left of a list once it is pruned is what was admitted within the window,
\* also when nothing pruned it for long.
PrunedIsAdmitted ==
  \A p \in Paths, h \in Hosts : InWindow(p, attempts[p][h]) = admitted[p][h]

GateInv == GateShape /\ GateTypeOK /\ PrunedIsAdmitted /\ WindowExact

\* The three ways a list changes keep what it is.
LEMMA WindowTyped ==
  ASSUME NEW p \in Paths, NEW times \in [Ages(p) -> Nat]
  PROVE  /\ InWindow(p, times) \in [Ages(p) -> Nat]
         /\ WithNow(times) \in [Ages(p) -> Nat]
         /\ Older(p, times) \in [Ages(p) -> Nat]
  <1>1. Window[p] \in Nat \ {0}
    BY GatekeeperAssumption
  <1>2. \A a \in Ages(p) : a > 0 => a - 1 \in Ages(p)
    BY <1>1 DEF Ages
  <1>3. 0 \in Ages(p)
    BY <1>1 DEF Ages
  <1>4. InWindow(p, times) \in [Ages(p) -> Nat]
    BY DEF InWindow
  <1>5. WithNow(times) \in [Ages(p) -> Nat]
    BY <1>3 DEF WithNow
  <1>6. Older(p, times) \in [Ages(p) -> Nat]
    <2>1. \A a \in Ages(p) : (IF a > 0 THEN times[a - 1] ELSE 0)
                               + (IF a = Window[p] THEN times[a] ELSE 0) \in Nat
      BY <1>2
    <2> QED BY <2>1 DEF Older
  <1> QED BY <1>4, <1>5, <1>6

\* Pruning commutes with admitting a request and with the passage of time, and
\* pruning twice is pruning once.
LEMMA PruningCommutes ==
  ASSUME NEW p \in Paths, NEW times \in [Ages(p) -> Nat]
  PROVE  LET pruned == InWindow(p, times) IN
         /\ InWindow(p, pruned) = pruned
         /\ InWindow(p, WithNow(pruned)) = WithNow(pruned)
         /\ InWindow(p, Older(p, pruned)) = InWindow(p, Older(p, times))
  <1>1. Window[p] \in Nat \ {0} /\ Ages(p) \subseteq Nat /\ 0 \in Ages(p)
    BY GatekeeperAssumption DEF Ages
  <1>2. \A a \in Ages(p) : a > 0 => a - 1 \in Ages(p)
    BY <1>1 DEF Ages
  <1> DEFINE pruned == InWindow(p, times)
  <1>3. InWindow(p, pruned) = pruned
    BY DEF InWindow
  <1>4. InWindow(p, WithNow(pruned)) = WithNow(pruned)
    <2>1. pruned \in [Ages(p) -> Nat] /\ WithNow(pruned) \in [Ages(p) -> Nat]
      BY WindowTyped
    <2>2. \A a \in Ages(p) : ~ (a < Window[p]) => a # 0 /\ pruned[a] = 0
      BY <1>1 DEF InWindow
    <2>3. \A a \in Ages(p) : a # 0 => WithNow(pruned)[a] = pruned[a]
      <3> HIDE DEF pruned
      <3> QED BY <2>1 DEF WithNow
    <2>4. \A a \in Ages(p) : ~ (a < Window[p]) => WithNow(pruned)[a] = 0
      BY <2>2, <2>3
    <2> HIDE DEF pruned
    <2> QED BY <2>1, <2>4 DEF InWindow
  <1>5. \A a \in Ages(p) : a < Window[p] => Older(p, pruned)[a] = Older(p, times)[a]
    <2> SUFFICES ASSUME NEW a \in Ages(p), a < Window[p]
                 PROVE  Older(p, pruned)[a] = Older(p, times)[a]
      OBVIOUS
    <2>1. a > 0 => pruned[a - 1] = times[a - 1]
      BY <1>1, <1>2 DEF InWindow
    <2> QED BY <1>1, <2>1 DEF Older
  <1>6. InWindow(p, Older(p, pruned)) = InWindow(p, Older(p, times))
    BY <1>5 DEF InWindow
  <1> QED BY <1>3, <1>4, <1>6

LEMMA RequestKeeps ==
  ASSUME GateInv, NEW p \in Paths, NEW direct \in Hosts, NEW forwarded \in Hosts \cup {NoHost},
         Request(p, direct, forwarded)
  PROVE  GateInv'
  <1> DEFINE ip == ClientIp(direct, forwarded)
             recent == InWindow(p, attempts[p][ip])
             refused == SumFunction(recent) >= Limit[p]
             tried == IF refused THEN recent ELSE WithNow(recent)
  <1>1. ip \in Hosts
    BY DEF ClientIp
  <1>2. /\ attempts' = [attempts EXCEPT ![p][ip] = tried]
        /\ admitted' = IF refused THEN admitted
                       ELSE [admitted EXCEPT ![p][ip] = WithNow(admitted[p][ip])]
        /\ verdict' = [path |-> p, ip |-> ip, refused |-> refused,
                       due |-> SumFunction(admitted[p][ip]) >= Limit[p]]
        /\ received' = 0
    BY DEF Request
  <1>3. /\ recent = admitted[p][ip]
        /\ attempts[p][ip] \in [Ages(p) -> Nat]
        /\ recent \in [Ages(p) -> Nat]
    BY <1>1 DEF GateInv, GateTypeOK, PrunedIsAdmitted
  <1>4. /\ tried \in [Ages(p) -> Nat]
        /\ InWindow(p, tried) = tried
    BY <1>3, WindowTyped, PruningCommutes
  <1>5. admitted' = [admitted EXCEPT ![p][ip] = tried]
    <2>1. CASE refused
      <3>1. [admitted EXCEPT ![p][ip] = admitted[p][ip]] = admitted
        BY <1>1 DEF GateInv, GateShape
      <3> QED BY <2>1, <3>1, <1>2, <1>3
    <2>2. CASE ~ refused
      BY <2>2, <1>2, <1>3
    <2> QED BY <2>1, <2>2
  <1>6. refused = (SumFunction(admitted[p][ip]) >= Limit[p])
    BY <1>3
  <1>7. refused \in BOOLEAN
    OBVIOUS
  <1> HIDE DEF ip, recent, refused, tried
  <1>8. tried \in Windows
    BY <1>4 DEF Windows
  <1>9. GateShape'
    BY <1>1, <1>2, <1>5, <1>8 DEF GateInv, GateShape
  <1>10. \A q \in Paths, h \in Hosts :
           /\ attempts'[q][h] = IF q = p /\ h = ip THEN tried ELSE attempts[q][h]
           /\ admitted'[q][h] = IF q = p /\ h = ip THEN tried ELSE admitted[q][h]
    BY <1>1, <1>2, <1>5 DEF GateInv, GateShape
  <1>11. PrunedIsAdmitted'
    <2>1. \A q \in Paths, h \in Hosts : InWindow(q, attempts'[q][h]) = admitted'[q][h]
      BY <1>4, <1>10 DEF GateInv, PrunedIsAdmitted
    <2> QED BY <2>1 DEF PrunedIsAdmitted, InWindow, Ages
  <1>12. WindowExact'
    BY <1>2, <1>6 DEF WindowExact
  <1>13. GateTypeOK'
    <2>1. verdict' \in [path : Paths, ip : Hosts, refused : BOOLEAN, due : BOOLEAN]
      BY <1>1, <1>2, <1>6, <1>7
    <2>2. received' \in 0 .. MaxBody
      BY <1>2, GatekeeperAssumption
    <2> QED BY <2>1, <2>2, <1>4, <1>10 DEF GateInv, GateTypeOK, Ages
  <1> QED BY <1>9, <1>11, <1>12, <1>13 DEF GateInv

LEMMA TickKeeps ==
  ASSUME GateInv, GateTick
  PROVE  GateInv'
  <1>1. \A p \in Paths, h \in Hosts :
          /\ attempts'[p][h] = Older(p, attempts[p][h])
          /\ admitted'[p][h] = InWindow(p, Older(p, admitted[p][h]))
    BY DEF GateTick, InWindow
  <1>2. \A p \in Paths, h \in Hosts :
          /\ attempts[p][h] \in [Ages(p) -> Nat]
          /\ admitted[p][h] \in [Ages(p) -> Nat]
          /\ InWindow(p, attempts[p][h]) = admitted[p][h]
    BY DEF GateInv, GateTypeOK, PrunedIsAdmitted
  <1>3. \A p \in Paths, h \in Hosts :
          /\ attempts'[p][h] \in [Ages(p) -> Nat]
          /\ admitted'[p][h] \in [Ages(p) -> Nat]
    BY <1>1, <1>2, WindowTyped
  <1>4. \A p \in Paths, h \in Hosts : InWindow(p, attempts'[p][h]) = admitted'[p][h]
    BY <1>1, <1>2, PruningCommutes
  <1>5. GateShape'
    <2>1. \A p \in Paths, h \in Hosts : attempts'[p][h] \in Windows /\ admitted'[p][h] \in Windows
      BY <1>3 DEF Windows
    <2>2. /\ attempts' = [p \in Paths |-> [h \in Hosts |-> attempts'[p][h]]]
          /\ admitted' = [p \in Paths |-> [h \in Hosts |-> admitted'[p][h]]]
      BY DEF GateTick
    <2> QED BY <2>1, <2>2 DEF GateShape
  <1>6. UNCHANGED <<verdict, received>>
    BY DEF GateTick
  <1>7. GateTypeOK'
    BY <1>3, <1>6 DEF GateInv, GateTypeOK, Ages
  <1>8. PrunedIsAdmitted'
    BY <1>4 DEF PrunedIsAdmitted, InWindow, Ages
  <1> QED BY <1>5, <1>6, <1>7, <1>8 DEF GateInv, WindowExact

\* The steps that leave the lists alone.
LEMMA BodyKeeps ==
  ASSUME GateInv, TooLarge \/ (\E size \in Chunks : Receives(size)) \/ UNCHANGED gateVars
  PROVE  GateInv'
  <1>1. UNCHANGED <<attempts, admitted>>
    BY DEF TooLarge, Receives, gateVars
  <1>2. verdict' \in {verdict, NoVerdict}
    BY DEF TooLarge, Receives, gateVars
  <1>3. received' \in 0 .. MaxBody
    BY GatekeeperAssumption DEF TooLarge, Receives, Passes, gateVars, GateInv, GateTypeOK
  <1>4. GateShape' /\ PrunedIsAdmitted'
    <2>1. GateShape'
      BY <1>1 DEF GateInv, GateShape
    <2>2. \A q \in Paths, h \in Hosts : InWindow(q, attempts'[q][h]) = admitted'[q][h]
      BY <1>1 DEF GateInv, PrunedIsAdmitted
    <2> QED BY <2>1, <2>2 DEF PrunedIsAdmitted, InWindow, Ages
  <1>5. WindowExact'
    <2>1. verdict.refused = verdict.due
      BY DEF GateInv, WindowExact
    <2>2. NoVerdict.refused = NoVerdict.due
      BY DEF NoVerdict
    <2>3. verdict'.refused = verdict'.due
      BY <1>2, <2>1, <2>2
    <2> QED BY <2>3 DEF WindowExact
  <1>6. GateTypeOK'
    BY <1>1, <1>2, <1>3 DEF GateInv, GateTypeOK, Ages
  <1> QED BY <1>4, <1>5, <1>6 DEF GateInv

LEMMA GateInitKeeps == GateInit => GateInv
  <1> SUFFICES ASSUME GateInit PROVE GateInv
    OBVIOUS
  <1>1. \A p \in Paths : [a \in Ages(p) |-> 0] \in [Ages(p) -> Nat]
    OBVIOUS
  <1>2. \A p \in Paths : [a \in Ages(p) |-> 0] \in Windows
    BY <1>1 DEF Windows
  <1>3. GateShape
    BY <1>2 DEF GateInit, GateShape
  <1>4. GateTypeOK
    BY <1>1, GatekeeperAssumption DEF GateInit, GateTypeOK
  <1>5. PrunedIsAdmitted
    BY DEF GateInit, PrunedIsAdmitted, InWindow
  <1> QED BY <1>3, <1>4, <1>5 DEF GateInit, GateInv, WindowExact, NoVerdict

LEMMA GateKeeps == GateInv /\ [GateNext]_gateVars => GateInv'
  BY RequestKeeps, TickKeeps, BodyKeeps DEF GateNext

LEMMA GateInvariant == GateSpec => []GateInv
  BY GateInitKeeps, GateKeeps, PTL DEF GateSpec

\* The rate limiter keeps its types: among them, that no handler is given more of a
\* body than MaxBody, whatever length was announced (limited_receive).
THEOREM GateTyped == GateSpec => []GateTypeOK
  <1>1. GateInv => GateTypeOK
    BY DEF GateInv
  <1> QED BY <1>1, GateInvariant, PTL

\* A request is refused if and only if as many of its address as the limit allows
\* were admitted within the window, although the lists are pruned only when a
\* request of the address comes (security_middleware).
THEOREM WindowsSlideExactly == GateSpec => []WindowExact
  <1>1. GateInv => WindowExact
    BY DEF GateInv
  <1> QED BY <1>1, GateInvariant, PTL

-----------------------------------------------------------------------------
(* The composition.                                                        *)

\* A step of the service is a step of one part and none of the others.
LEMMA OnePartMoves ==
  [ServicesNext]_servicesVars =>
    /\ [RegistryNext]_registryVars /\ [ConfigNext]_configVars
    /\ [GateNext]_gateVars /\ [ContentNext]_contentVars
  BY DEF ServicesNext, servicesVars, RegistryMoves, ConfigMoves, GateMoves, ContentMoves

\* Each part of the sum runs as it would by itself, but for the fairness of the registry,
\* which only matters to its liveness.
LEMMA PartsRunAsAlone ==
  ServicesSpec =>
    /\ RegistryInit /\ [][RegistryNext]_registryVars
    /\ ConfigSpec /\ GateSpec /\ ContentSpec
  <1>1. ServicesInit => RegistryInit /\ ConfigInit /\ GateInit /\ ContentInit
    BY DEF ServicesInit
  <1> QED BY <1>1, OnePartMoves, PTL DEF ServicesSpec, ConfigSpec, GateSpec, ContentSpec

\* The service keeps the types of all its parts: among them, that memory and disk
\* agree while no request is at work (Config._save), that no handler is given more of a
\* body than the limit (limited_receive), and that everything sent upstream is made of
\* the conversation (map_claude_to_content, build_content_with_refs).
THEOREM ServicesTyped == ServicesSpec => []ServicesTypeOK
  <1>1. ServicesSpec => []RegistryInv
    BY PartsRunAsAlone, InitEstablishes, StepKeeps, PTL
  <1>2. RegistryInv => RegistryTypeOK
    BY DEF RegistryInv
  <1>3. RegistryTypeOK /\ ConfigTypeOK /\ GateTypeOK /\ ContentTypeOK => ServicesTypeOK
    BY DEF ServicesTypeOK
  <1> QED BY <1>1, <1>2, <1>3, PartsRunAsAlone, ConfigTyped, GateTyped, ContentTyped, PTL

\* What the parts promise holds of the service that is put together of them.
THEOREM ServicesKeepPromises ==
  ServicesSpec =>
    /\ [](TrustRunsOut /\ WindowExact)
    /\ [](SettingSurvives /\ SessionSurvives /\ LockedOutHalfWayOnly)
    /\ [](WithinGateway /\ TaskInContent)
    /\ Only503WhenNothing /\ KnownModelKept
  <1>1. ServicesSpec => []RegistryInv
    BY PartsRunAsAlone, InitEstablishes, StepKeeps, PTL
  <1>2. RegistryInv => TrustRunsOut
    BY DEF RegistryInv
  <1>3. ServicesSpec => Only503WhenNothing
    BY <1>1, PartsRunAsAlone, RefusalStep, PTL DEF Only503WhenNothing
  <1>4. ServicesSpec => KnownModelKept
    BY <1>1, PartsRunAsAlone, KnownStep, ListedNames, PTL DEF KnownModelKept
  <1> QED BY <1>1, <1>2, <1>3, <1>4, PartsRunAsAlone, WindowsSlideExactly, SettingsSurvive,
             SessionsSurvive, LockedOutOnlyHalfWay, RequestsFit, TaskIsSent, PTL
=============================================================================
