--------------------------- MODULE ModelRegistry ---------------------------
(***************************************************************************)
(* The list of models: core/model_registry.py, the requests that refresh   *)
(* or read it (GET /v1/models, the admin's refresh and diagnosis, the      *)
(* start of the service) and resolve_model of core/tabbit_client.py.       *)
(*                                                                         *)
(* A list is the set of the names it makes known; a list whose entries     *)
(* have no names is empty.  Refreshes overlap: each waits for its own      *)
(* answer of upstream, which may arrive late and then replaces whatever    *)
(* came before.                                                            *)
(***************************************************************************)
EXTENDS Integers, Sequences

CONSTANTS
  Models,        \* names of upstream's models
  NoList,        \* no list in memory, or none on disk
  Static,        \* the names MODEL_MAP knows
  ClaudeTarget,  \* CLAUDE_MODEL_MAP, from the names of the Claude families
  DefaultModels, \* <<the configured default model>>, or <<>>
  Boot,          \* the refresh of the start
  Callers,       \* requests that refresh
  Ttl, Grace,    \* MODEL_CACHE_TTL and STALE_CACHE_GRACE, in ticks of the clock
  MaxRestarts    \* bound

ASSUME RegistryAssumption ==
  /\ \A list \in SUBSET Models : NoList # list
  /\ Static \subseteq Models /\ DefaultModels \in Seq(Models)
  /\ Boot \notin Callers
  /\ Grace \in Nat \ {0} /\ Ttl \in Nat /\ Grace < Ttl
  /\ MaxRestarts \in Nat

VARIABLES
  cache,        \* _cache and _models_meta
  left,         \* ticks until _expires_at
  fromSnapshot, \* _from_snapshot
  snapshot,     \* the list in the snapshot file
  call,         \* the refresh each party runs
  reply,        \* what GET /v1/models last answered each of them
  past,         \* history: the list upstream last sent in this life of the process,
                \* for how long nothing was fetched and no refresh failed, and whether
                \* the snapshot could be read when one did just now
  restarts

registryVars == <<cache, left, fromSnapshot, snapshot, call, reply, past, restarts>>

Parties == Callers \cup {Boot}
Idle == [step |-> "idle", retries |-> 0, lists |-> FALSE, answer |-> NoList]
\* An attempt of a refresh with so many retries left; whether for GET /v1/models.
Attempt(retries, lists) ==
  [step |-> "asked", retries |-> retries, lists |-> lists, answer |-> NoList]
Asking(c, retries, lists) == [call EXCEPT ![c] = Attempt(retries, lists)]

\* Nothing was fetched yet, and no refresh failed; ages stop at what is long enough.
Seen(list, fetched, failed, read) ==
  [list |-> list, fetched |-> fetched, failed |-> failed, read |-> read]
NoPast == Seen(NoList, Ttl, Grace, TRUE)
Aged(age, enough) == IF age < enough THEN age + 1 ELSE enough

\* The lifespan task refreshes before the service serves.
Booting == [c \in Parties |-> IF c = Boot THEN Attempt(2, FALSE) ELSE Idle]

\* __init__ and the start of the service.
RegistryInit ==
  /\ cache = NoList
  /\ left = 0
  /\ fromSnapshot = FALSE
  /\ snapshot = NoList
  /\ call = Booting
  /\ reply = [c \in Callers |-> "none"]
  /\ past = NoPast
  /\ restarts = 0

Up == call[Boot].step = "idle"
Ready == cache # NoList /\ left > 0

-----------------------------------------------------------------------------
(* Reading.                                                                *)

\* Mutated has_alias: only a list that has not expired is looked at.
ReadyAlias(m) == Ready /\ m \in cache

\* has_alias
HasAlias(m) == cache # NoList /\ m \in cache

\* The names resolve_model tries, in order.
Wanted(m) ==
  <<m>> \o (IF m \in DOMAIN ClaudeTarget THEN <<ClaudeTarget[m]>> ELSE <<>>) \o DefaultModels

\* The first of the names that is known.
FirstIn(names, known) ==
  LET at == {i \in DOMAIN names : names[i] \in known}
  IN IF at = {} THEN "Default" ELSE names[CHOOSE i \in at : \A j \in at : i <= j]

StaticChoice(m) ==
  CASE m \in Static -> m
    [] m \notin Static /\ m \in DOMAIN ClaudeTarget -> FirstIn(<<ClaudeTarget[m]>>, Static)
    [] OTHER -> FirstIn(DefaultModels, Static)

\* resolve_model
ResolveModel(m) ==
  IF Ready \/ \E i \in DOMAIN Wanted(m) : HasAlias(Wanted(m)[i])
  THEN FirstIn(Wanted(m), {n \in Models : HasAlias(n)})
  ELSE StaticChoice(m)

\* list_models of the route, when it does not refresh or after it did.
Listing(list, lifetime) ==
  IF list # NoList /\ lifetime > 0 /\ list # {} THEN "list" ELSE "503"

-----------------------------------------------------------------------------
(* Refreshing.                                                             *)

\* GET /v1/models: answered at once, or after a refresh with one retry.
ListModels(c) ==
  /\ Up
  /\ call[c].step = "idle"
  /\ IF Ready
     THEN reply' = [reply EXCEPT ![c] = Listing(cache, left)] /\ UNCHANGED call
     ELSE reply' = [reply EXCEPT ![c] = "none"] /\ call' = Asking(c, 1, TRUE)
  /\ UNCHANGED <<cache, left, fromSnapshot, snapshot, past, restarts>>

\* refresh(force=True), by the admin.
ForceRefresh(c) ==
  /\ Up
  /\ call[c].step = "idle"
  /\ call' = Asking(c, 0, FALSE)
  /\ reply' = [reply EXCEPT ![c] = "none"]
  /\ UNCHANGED <<cache, left, fromSnapshot, snapshot, past, restarts>>

\* Upstream answers, with the models it has now: the list is on its way back.
UpstreamAnswers(c, list) ==
  /\ call[c].step = "asked"
  /\ call' = [call EXCEPT ![c].step = "answered", ![c].answer = list]
  /\ UNCHANGED <<cache, left, fromSnapshot, snapshot, reply, past, restarts>>

\* The refresh is over; a request for the list is answered in the same step.
Over(c) ==
  /\ call' = [call EXCEPT ![c] = Idle]
  /\ reply' = IF call[c].lists THEN [reply EXCEPT ![c] = Listing(cache', left')] ELSE reply

\* Mutated: any list is saved.
SavesHollow(list, saved) == snapshot' = IF saved THEN list ELSE snapshot

\* _save_snapshot: a list without names is not saved, and a save may fail.
Saves(list, saved) == snapshot' = IF saved /\ list # {} THEN list ELSE snapshot

\* _fetch_once succeeds.
FetchReturns(c, saved) ==
  /\ call[c].step = "answered"
  /\ cache' = call[c].answer
  /\ left' = Ttl
  /\ fromSnapshot' = FALSE
  /\ past' = Seen(call[c].answer, 0, past.failed, TRUE)
  /\ Saves(call[c].answer, saved)
  /\ Over(c)
  /\ UNCHANGED restarts

\* _fetch_once fails (no connection, a timeout, an error, an empty list) and is
\* tried again after a pause.
FetchFails(c) ==
  /\ call[c].step = "asked"
  /\ call[c].retries > 0
  /\ call' = [call EXCEPT ![c].step = "sleeping"]
  /\ UNCHANGED <<cache, left, fromSnapshot, snapshot, reply, past, restarts>>

\* Mutated: the attempts are not counted.
WakesUncounted(c) ==
  /\ call[c].step = "sleeping"
  /\ call' = Asking(c, call[c].retries, call[c].lists)
  /\ UNCHANGED <<cache, left, fromSnapshot, snapshot, reply, past, restarts>>

Wakes(c) ==
  /\ call[c].step = "sleeping"
  /\ call' = Asking(c, call[c].retries - 1, call[c].lists)
  /\ UNCHANGED <<cache, left, fromSnapshot, snapshot, reply, past, restarts>>

\* Mutated: the snapshot is trusted as long as a list that was fetched.
LoadFresh(readable) ==
  IF snapshot = NoList \/ ~readable THEN UNCHANGED <<cache, left, fromSnapshot>>
  ELSE cache' = snapshot /\ left' = Ttl /\ fromSnapshot' = TRUE

\* _load_snapshot: a file that cannot be read, or is not what was saved, is passed over.
LoadSnapshot(readable) ==
  IF snapshot = NoList \/ ~readable THEN UNCHANGED <<cache, left, fromSnapshot>>
  ELSE cache' = snapshot /\ left' = Grace /\ fromSnapshot' = TRUE

\* Mutated: a failed refresh drops the list that is left.
DropCache == cache' = NoList /\ left' = 0 /\ fromSnapshot' = FALSE

\* A list with names stays, for a while.
KeepCache == left' = Grace /\ UNCHANGED <<cache, fromSnapshot>>

\* The last attempt fails.
GivesUp(c, readable) ==
  /\ call[c].step = "asked"
  /\ call[c].retries = 0
  /\ IF cache \notin {NoList, {}} THEN KeepCache ELSE LoadSnapshot(readable)
  /\ past' = Seen(past.list, past.fetched, 0, readable)
  /\ Over(c)
  /\ UNCHANGED <<snapshot, restarts>>

Tick ==
  /\ left' = IF left = 0 THEN 0 ELSE left - 1
  /\ past' = Seen(past.list, Aged(past.fetched, Ttl), Aged(past.failed, Grace), TRUE)
  /\ UNCHANGED <<cache, fromSnapshot, snapshot, call, reply, restarts>>

\* The process ends and starts again with what the disk holds.
RegistryRestart ==
  /\ restarts < MaxRestarts
  /\ restarts' = restarts + 1
  /\ cache' = NoList
  /\ left' = 0
  /\ fromSnapshot' = FALSE
  /\ call' = Booting
  /\ reply' = [c \in Callers |-> "none"]
  /\ past' = NoPast
  /\ UNCHANGED snapshot

-----------------------------------------------------------------------------

\* What the time limits of the HTTP client and the event loop make happen.
Proceeds(c) ==
  \/ \E list \in SUBSET Models : UpstreamAnswers(c, list)
  \/ FetchFails(c) \/ Wakes(c)
  \/ \E saved \in BOOLEAN : FetchReturns(c, saved)
  \/ \E readable \in BOOLEAN : GivesUp(c, readable)

RegistryNext ==
  \/ \E c \in Callers : ListModels(c) \/ ForceRefresh(c)
  \/ \E c \in Parties : Proceeds(c)
  \/ Tick \/ RegistryRestart

RegistryFairness == \A c \in Parties : WF_registryVars(Proceeds(c))

RegistrySpec == RegistryInit /\ [][RegistryNext]_registryVars /\ RegistryFairness

-----------------------------------------------------------------------------
(* Properties.                                                             *)

Lists == {NoList} \cup SUBSET Models

RegistryTypeOK ==
  /\ cache \in Lists
  /\ left \in 0 .. Ttl
  /\ fromSnapshot \in BOOLEAN
  /\ snapshot \in Lists \ {{}}
  /\ call \in [Parties -> [step : {"idle", "asked", "sleeping", "answered"}, retries : 0 .. 2,
                           lists : BOOLEAN, answer : Lists]]
  /\ reply \in [Callers -> {"none", "list", "503"}]
  /\ past \in [list : Lists, fetched : 0 .. Ttl, failed : 0 .. Grace, read : BOOLEAN]
  /\ restarts \in 0 .. MaxRestarts

\* However refreshes overlap, fail and return late, the flag on the admin page tells a
\* list from disk from the one upstream last sent; and no list is taken for fresh but
\* one that was fetched within its TTL, or, from disk or not, within the grace period of
\* a refresh that failed (ready, snapshot_info).
TrustRunsOut ==
  /\ cache = IF fromSnapshot THEN snapshot ELSE past.list
  /\ left > 0 =>
       \/ ~fromSnapshot /\ past.fetched + left <= Ttl
       \/ past.failed + left <= Grace

\* GET /v1/models refuses a request in this step.
Refuses(c) == reply'[c] = "503" /\ reply[c] # "503"

\* The refresh failed, nothing is in memory, and no snapshot is there or can be read.
FoundNothing(c) ==
  /\ call[c].step = "asked" /\ cache \in {NoList, {}}
  /\ snapshot = NoList \/ ~past'.read

\* A request for the list is refused only if upstream fails and there is no snapshot or
\* none that can be read; or because of the last list that upstream sent, if no entry of
\* it has a name.  The docstring of list_models of the route knows the first reason only:
\* it puts the snapshot before a refusal.
Only503WhenNothing ==
  [][\A c \in Callers :
       Refuses(c) => FoundNothing(c) \/ (past'.list = {} /\ cache' = {})]_registryVars

\* Neither time nor failed refreshes change what a known model is resolved to:
\* only a list without it that upstream sent does, or a restart (resolve_model).
KnownModelKept ==
  [][\A m \in Models :
       HasAlias(m) /\ ResolveModel(m)' # ResolveModel(m) =>
         \/ restarts' # restarts
         \/ \E c \in Parties : call[c].step = "answered" /\ m \notin call[c].answer]_registryVars
=============================================================================
