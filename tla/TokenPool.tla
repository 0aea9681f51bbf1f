------------------------------ MODULE TokenPool ------------------------------
(***************************************************************************)
(* The token pool of core/token_manager.py: which account serves a request *)
(* and what its outcome does to the account, together with the admin       *)
(* operations of routes/admin_api.py and the requests of the chat routes   *)
(* that hold a token and its client across upstream calls.                 *)
(*                                                                         *)
(* Every method of TokenManager runs without suspending, so each is one    *)
(* step; what interleaves is the time a request is in flight.  The config  *)
(* is saved at the end of every method that changes it: what an entry      *)
(* holds is what the file holds, and a restart loses the rest.             *)
(*                                                                         *)
(* A deadline is kept as the time left, so that time needs no bound: 0 is  *)
(* a deadline that has passed and is still recorded, Absent is none.       *)
(***************************************************************************)
EXTENDS Integers, Sequences, FiniteSets

CONSTANTS
  Tokens,        \* bound: token ids ever drawn
  Requests,      \* requests and admin calls that can be in flight at once
  Creds,         \* token values
  MaxConsecutiveErrors,  \* MAX_CONSECUTIVE_ERRORS
  Transient,     \* TRANSIENT_COOLDOWN_SECONDS
  Cooldown,      \* COOLDOWN_SECONDS
  AuthCooldown,  \* AUTH_COOLDOWN_SECONDS
  Quota,         \* QUOTA_COOLDOWN_SECONDS
  MaxQuota,      \* MAX_QUOTA_COOLDOWN_SECONDS
  RetryAfters,   \* bound: Retry-After values upstream sends, 0 for none
  ErrorCap       \* bound: error counts above it are not told apart

ASSUME DurationsAssumption ==
  /\ {Transient, Cooldown, AuthCooldown, Quota, MaxQuota} \subseteq Nat \ {0}
  /\ RetryAfters \subseteq Nat

\* Ids are drawn and requests are in flight in finite number.
ASSUME FiniteAssumption == IsFiniteSet(Tokens) /\ IsFiniteSet(Requests)

\* Counts at or above the cap have the same effect.
ASSUME CapAssumption ==
  /\ {ErrorCap, MaxConsecutiveErrors} \subseteq Nat \ {0}
  /\ ErrorCap >= MaxConsecutiveErrors
  /\ Quota * 2 ^ (ErrorCap - 1) >= MaxQuota

Absent == -1
NoToken == "no token"
NoCred == "no credential"
Deadlines == {Absent} \cup Nat

\* One client object per token and per request is all that is ever in use.
Objects == 1 .. (Cardinality(Tokens) + Cardinality(Requests))
NoObject == 0

Statuses == {"unknown", "active", "error", "cooldown", "needs_login"}

\* What a failed call tells: its class and the Retry-After it came with.
Failures == [class : {"auth", "payment", "quota", "transient", "other"},
             retryAfter : RetryAfters]

VARIABLES
  \* config.json
  pool,        \* the order of config["tokens"]
  entry,       \* token -> enabled, status, errors, until, value
  \* TokenManager
  cooldowns,   \* _cooldowns
  clients,     \* _clients: token -> client object
  last,        \* _last_token_id
  store,       \* client objects: credential sent, credential in the cookie jar
  \* requests
  pc,          \* idle, serving (a client request), admin (a call with the
               \* token's client), testing (test_token)
  token,       \* the token a request holds
  holds,       \* the client object a request holds
  \* ids
  unused       \* token ids not drawn yet

configVars == <<pool, entry, unused>>
memoryVars == <<cooldowns, clients, last, store>>
requestVars == <<pc, token, holds>>
vars == <<configVars, memoryVars, requestVars>>

NewEntry(v, on) ==
  [enabled |-> on, status |-> "unknown", errors |-> 0, until |-> Absent, value |-> v]
NoClient == [sends |-> NoCred, jar |-> NoCred]

Init ==
  /\ pool = <<>>
  /\ entry = [t \in Tokens |-> NewEntry(NoCred, FALSE)]
  /\ cooldowns = [t \in Tokens |-> Absent]
  /\ clients = [t \in Tokens |-> NoObject]
  /\ last = NoToken
  /\ store = [o \in Objects |-> NoClient]
  /\ pc = [h \in Requests |-> "idle"]
  /\ token = [h \in Requests |-> NoToken]
  /\ holds = [h \in Requests |-> NoObject]
  /\ unused = Tokens

-----------------------------------------------------------------------------
(* Deadlines.                                                              *)

Pool == {pool[i] : i \in DOMAIN pool}

Later(a, b) == IF a >= b THEN a ELSE b

\* The later of the deadlines in memory and in the config.
Deadline(t) == Later(cooldowns[t], entry[t].until)

\* Mutated form: the deadline is cleared and the status is not.
KeepStatus(t) == [entry[t] EXCEPT !.errors = 0, !.until = Absent]

\* _clear_expired_cooldown
Cleared(t) == [entry[t] EXCEPT !.status = "unknown", !.errors = 0, !.until = Absent]

\* What memory holds of a deadline once it was looked at.
Remembered(t) == IF Deadline(t) = 0 THEN Absent ELSE Deadline(t)

\* What looking at the tokens of S does to their deadlines: one that has passed
\* is cleared, one that has not is remembered.
Look(S) ==
  /\ entry' = [t \in Tokens |->
                 IF t \in S /\ Deadline(t) = 0 THEN Cleared(t) ELSE entry[t]]
  /\ cooldowns' = [t \in Tokens |-> IF t \in S THEN Remembered(t) ELSE cooldowns[t]]

\* Time passes.
Left(d) == IF d > 0 THEN d - 1 ELSE d

Tick ==
  /\ \E t \in Tokens : cooldowns[t] > 0 \/ entry[t].until > 0
  /\ cooldowns' = [t \in Tokens |-> Left(cooldowns[t])]
  /\ entry' = [t \in Tokens |-> [entry[t] EXCEPT !.until = Left(@)]]
  /\ UNCHANGED <<pool, unused, clients, last, store, requestVars>>

-----------------------------------------------------------------------------
(* Client objects.                                                         *)

InUse == {clients[t] : t \in Tokens} \cup {holds[h] : h \in Requests}

\* The client objects become those of table; what nobody refers to is gone.
StoreIs(table) == store' = [o \in Objects |-> IF o \in InUse' THEN table[o] ELSE NoClient]

\* _get_client: the cached client, or a new one with the configured value.
FreeObject == CHOOSE o \in Objects \ InUse : TRUE
ClientOf(t) == IF clients[t] = NoObject THEN FreeObject ELSE clients[t]

\* Request h gets hold of token t and its client, for the given purpose.
Take(h, t, purpose) ==
  /\ pc' = [pc EXCEPT ![h] = purpose]
  /\ token' = [token EXCEPT ![h] = t]
  /\ holds' = [holds EXCEPT ![h] = ClientOf(t)]
  /\ clients' = [clients EXCEPT ![t] = ClientOf(t)]
  /\ StoreIs([store EXCEPT ![ClientOf(t)] =
                IF clients[t] = NoObject
                THEN [sends |-> entry[t].value, jar |-> NoCred] ELSE @])

\* Mutated form: a request that ended still refers to its client.
KeepClient(h) ==
  /\ pc' = [pc EXCEPT ![h] = "idle"]
  /\ token' = [token EXCEPT ![h] = NoToken]
  /\ UNCHANGED holds

Release(h) ==
  /\ pc' = [pc EXCEPT ![h] = "idle"]
  /\ token' = [token EXCEPT ![h] = NoToken]
  /\ holds' = [holds EXCEPT ![h] = NoObject]

\* Mutated form: the client outlives the value it was made from.
ForgetCooldownOnly(t) ==
  /\ UNCHANGED clients
  /\ cooldowns' = [cooldowns EXCEPT ![t] = Absent]

\* remove_client
RemoveClient(t) ==
  /\ clients' = [clients EXCEPT ![t] = NoObject]
  /\ cooldowns' = [cooldowns EXCEPT ![t] = Absent]

-----------------------------------------------------------------------------
(* Serving requests.                                                       *)

\* The tokens get_next looks at, and where those are that it can choose from.
Rotating == {t \in Pool : entry[t].enabled /\ entry[t].status # "needs_login"}
AvailableAt == {i \in DOMAIN pool : pool[i] \in Rotating /\ Deadline(pool[i]) <= 0}

\* The available tokens after the last one, none if that one is not available.
After == {i \in AvailableAt : \E j \in AvailableAt : j < i /\ pool[j] = last}

First(S) == CHOOSE i \in S : \A j \in S : i <= j

\* get_next serves a token.
Serve(h) ==
  /\ pc[h] = "idle"
  /\ AvailableAt # {}
  /\ LET t == pool[First(IF After # {} THEN After ELSE AvailableAt)] IN
       /\ last' = t
       /\ Take(h, t, "serving")
  /\ Look(Rotating)
  /\ UNCHANGED <<pool, unused>>

\* get_next finds every token cooling down: the request is answered with 503.
ServeNothing ==
  /\ Pool # {}
  /\ AvailableAt = {}
  /\ Look(Rotating)
  /\ UNCHANGED <<pool, unused, clients, last, store, requestVars>>

\* get_client_for_token, for an admin call that then talks to upstream.
AdminUses(h, t) ==
  /\ pc[h] = "idle"
  /\ t \in Pool
  /\ Take(h, t, "admin")
  /\ UNCHANGED <<configVars, cooldowns, last>>

\* Upstream replaces the session cookies of the client in use.
CookiesRotate(h, v) ==
  /\ pc[h] \in {"serving", "admin"}
  /\ store' = [store EXCEPT ![holds[h]].jar = v]
  /\ UNCHANGED <<configVars, cooldowns, clients, last, requestVars>>

\* update_token_cookies has something to write.
Refreshes(h) ==
  LET jar == store[holds[h]].jar IN
  token[h] \in Pool /\ jar # NoCred /\ jar # entry[token[h]].value

\* Mutated form: the refreshed value does not reach the cached client.
ValueOnly(h) == store

\* _sync_cached_client_value
Synced(h) ==
  LET o == clients[token[h]] IN
  IF o # NoObject THEN [store EXCEPT ![o].sends = store[holds[h]].jar] ELSE store

\* refresh_token_from_client in the middle of a request.
Refresh(h) ==
  /\ pc[h] \in {"serving", "admin"}
  /\ Refreshes(h)
  /\ entry' = [entry EXCEPT ![token[h]].value = store[holds[h]].jar]
  /\ store' = Synced(h)
  /\ UNCHANGED <<pool, unused, cooldowns, clients, last, requestVars>>

\* report_success, the last thing a served request does.
Succeeds(h) ==
  /\ pc[h] = "serving"
  /\ token[h] \in Pool
  /\ entry' = [entry EXCEPT ![token[h]].status = "active", ![token[h]].errors = 0,
                            ![token[h]].until = Absent]
  /\ cooldowns' = [cooldowns EXCEPT ![token[h]] = Absent]
  /\ Release(h)
  /\ UNCHANGED <<pool, unused, clients, last>>
  /\ StoreIs(store)

\* _cooldown_seconds_for_error, for the n-th error in a row.
CooldownFor(n, f) ==
  CASE f.retryAfter > 0 /\ f.class \in {"quota", "transient"} -> f.retryAfter
    [] f.retryAfter = 0 /\ f.class = "quota" ->
         LET backoff == Quota * 2 ^ (n - 1) IN
         IF backoff \in 0 .. MaxQuota THEN backoff ELSE MaxQuota
    [] f.retryAfter = 0 /\ f.class = "transient" -> Transient
    [] f.class = "payment" -> AuthCooldown
    [] f.class = "other" /\ n >= MaxConsecutiveErrors -> Cooldown
    [] OTHER -> 0

CountError(n) == IF n < ErrorCap THEN n + 1 ELSE n

\* report_error: what becomes of the status and of the two deadlines.  An error
\* without a cooldown clears the deadline of the config, not the one in memory.
Verdict(t, n, f) ==
  LET left == CooldownFor(n, f) IN
  CASE f.class = "auth" -> [status |-> "needs_login", until |-> Absent, memory |-> Absent]
    [] f.class # "auth" /\ left > 0 ->
         [status |-> "cooldown", until |-> left, memory |-> left]
    [] OTHER -> [status |-> "error", until |-> Absent, memory |-> cooldowns[t]]

Fails(h, f) ==
  /\ pc[h] = "serving"
  /\ token[h] \in Pool
  /\ LET t == token[h]
         n == CountError(entry[t].errors)
         verdict == Verdict(t, n, f)
     IN /\ entry' = [entry EXCEPT ![t].status = verdict.status, ![t].errors = n,
                                  ![t].until = verdict.until]
        /\ cooldowns' = [cooldowns EXCEPT ![t] = verdict.memory]
  /\ Release(h)
  /\ UNCHANGED <<pool, unused, clients, last>>
  /\ StoreIs(store)

\* A request ends without a report (an admin call, a client that left), or with
\* one about a token deleted meanwhile, which changes nothing.
Leaves(h) ==
  /\ pc[h] \in {"serving", "admin"}
  /\ Release(h)
  /\ UNCHANGED <<configVars, cooldowns, clients, last>>
  /\ StoreIs(store)

-----------------------------------------------------------------------------
(* Administration.                                                         *)

AddToken(t, v, on) ==
  /\ t \in unused
  /\ unused' = unused \ {t}
  /\ pool' = Append(pool, t)
  /\ entry' = [entry EXCEPT ![t] = NewEntry(v, on)]
  /\ UNCHANGED <<memoryVars, requestVars>>

\* update_token, with a new value or, with NoCred, without one: the status and
\* the deadline of the config stay.
UpdateToken(t, v, on) ==
  /\ t \in Pool
  /\ \/ /\ v # NoCred
        /\ entry' = [entry EXCEPT ![t].value = v, ![t].enabled = on]
        /\ RemoveClient(t)
     \/ /\ v = NoCred
        /\ entry' = [entry EXCEPT ![t].enabled = on]
        /\ UNCHANGED <<clients, cooldowns>>
  /\ UNCHANGED <<pool, unused, last, requestVars>>
  /\ StoreIs(store)

DeleteToken(t) ==
  /\ \E i \in DOMAIN pool :
       /\ pool[i] = t
       /\ pool' = SubSeq(pool, 1, i - 1) \o SubSeq(pool, i + 1, Len(pool))
  /\ entry' = [entry EXCEPT ![t] = NewEntry(NoCred, FALSE)]
  /\ RemoveClient(t)
  /\ UNCHANGED <<unused, last, requestVars>>
  /\ StoreIs(store)

\* test_token: a client of its own, and the entry it found before the call.
TestStarts(h, t) ==
  /\ pc[h] = "idle"
  /\ t \in Pool
  /\ pc' = [pc EXCEPT ![h] = "testing"]
  /\ token' = [token EXCEPT ![h] = t]
  /\ UNCHANGED <<configVars, memoryVars, holds>>

TestEnds(h, ok) ==
  /\ pc[h] = "testing"
  /\ LET t == token[h] IN
     entry' = CASE t \in Pool /\ ok -> [entry EXCEPT ![t].status = "active", ![t].errors = 0]
                [] t \in Pool /\ ~ok -> [entry EXCEPT ![t].status = "error"]
                [] OTHER -> entry
  /\ Release(h)
  /\ UNCHANGED <<pool, unused, memoryVars>>

\* list_tokens: get_token_status of every token.
ListTokens ==
  LET out == {t \in Pool : entry[t].status = "needs_login"} IN
  /\ Pool # {}
  /\ entry' = [t \in Tokens |->
                 CASE t \in out -> [entry[t] EXCEPT !.until = Absent]
                   [] t \in Pool \ out /\ Deadline(t) = 0 -> Cleared(t)
                   [] OTHER -> entry[t]]
  /\ cooldowns' = [t \in Tokens |->
                     CASE t \in out -> Absent
                       [] t \in Pool \ out -> Remembered(t)
                       [] OTHER -> cooldowns[t]]
  /\ UNCHANGED <<pool, unused, clients, last, store, requestVars>>

\* The process ends, with everything in flight, and starts again.
Restart ==
  /\ cooldowns' = [t \in Tokens |-> Absent]
  /\ clients' = [t \in Tokens |-> NoObject]
  /\ last' = NoToken
  /\ store' = [o \in Objects |-> NoClient]
  /\ pc' = [h \in Requests |-> "idle"]
  /\ token' = [h \in Requests |-> NoToken]
  /\ holds' = [h \in Requests |-> NoObject]
  /\ UNCHANGED <<configVars>>

-----------------------------------------------------------------------------

RequestStep(h) ==
  \/ Serve(h) \/ Refresh(h) \/ Succeeds(h) \/ Leaves(h)
  \/ \E f \in Failures : Fails(h, f)
  \/ \E v \in Creds : CookiesRotate(h, v)
  \/ \E t \in Tokens : AdminUses(h, t) \/ TestStarts(h, t)
  \/ \E ok \in BOOLEAN : TestEnds(h, ok)

AdminStep(t) ==
  \/ DeleteToken(t)
  \/ \E on \in BOOLEAN :
       \/ \E v \in Creds \cup {NoCred} : UpdateToken(t, v, on)
       \/ \E v \in Creds : AddToken(t, v, on)

Next ==
  \/ Tick \/ ServeNothing \/ ListTokens \/ Restart
  \/ \E h \in Requests : RequestStep(h)
  \/ \E t \in Tokens : AdminStep(t)

Spec == Init /\ [][Next]_vars

-----------------------------------------------------------------------------
(* Properties.                                                             *)

TypeOK ==
  /\ pool \in Seq(Tokens)
  /\ entry \in [Tokens -> [enabled : BOOLEAN, status : Statuses, errors : 0 .. ErrorCap,
                           until : Deadlines, value : Creds \cup {NoCred}]]
  /\ cooldowns \in [Tokens -> Deadlines]
  /\ clients \in [Tokens -> Objects \cup {NoObject}]
  /\ last \in Tokens \cup {NoToken}
  /\ store \in [Objects -> [sends : Creds \cup {NoCred}, jar : Creds \cup {NoCred}]]
  /\ pc \in [Requests -> {"idle", "serving", "admin", "testing"}]
  /\ token \in [Requests -> Tokens \cup {NoToken}]
  /\ holds \in [Requests -> Objects \cup {NoObject}]
  /\ \A h \in Requests : holds[h] # NoObject <=> pc[h] \in {"serving", "admin"}
  /\ unused \subseteq Tokens

\* The client the next request gets sends the credential the config holds,
\* however refreshes by older clients and new values from the admin interleave.
CachedClientCurrent ==
  \A t \in Tokens : clients[t] # NoObject => store[clients[t]].sends = entry[t].value

\* A late report or refresh of a request leaves nothing behind for a token that
\* was deleted meanwhile.
NothingKeptForDeleted ==
  \A t \in Tokens \ Pool :
    cooldowns[t] = Absent /\ clients[t] = NoObject

\* A status that keeps a token away names its way back: a cooling token has a
\* deadline on disk, a token that needs a login is not cooling as well.
StatusMatchesDeadline ==
  \A t \in Pool :
    /\ entry[t].status = "cooldown" => entry[t].until # Absent
    /\ entry[t].status = "needs_login" => Deadline(t) = Absent

\* The same token never serves twice in a row while another one is available.
NeverTwiceInARow ==
  [][\A h \in Requests :
       Serve(h) /\ (\E i \in AvailableAt : pool[i] # last) => last' # last]_vars

-----------------------------------------------------------------------------
(* What the documentation promises and the code does not keep.             *)

\* Token information survives a restart (README.md): the deadline that keeps a
\* token out of the rotation is the one in the config.
CooldownPersisted ==
  \A t \in Pool : cooldowns[t] > 0 => entry[t].until = cooldowns[t]

\* "Stable rotation: the position after the last token_id" (get_next): of the
\* available tokens the one that comes first after the last one is served.
Steps(i, j) == (j - i - 1) % Len(pool)

NextInRotation ==
  [][\A h \in Requests : Serve(h) =>
       \A i, j \in DOMAIN pool, k \in AvailableAt :
         pool[i] = last /\ pool[j] = last' => Steps(i, j) <= Steps(i, k)]_vars
=============================================================================
