---------------------------- MODULE ConfigStore ----------------------------
(***************************************************************************)
(* The configuration and what hangs on it: core/config.py, core/auth.py,   *)
(* the admin's login, settings and password of routes/admin_api.py and the *)
(* start of tabbit2api.py.                                                 *)
(*                                                                         *)
(* A save truncates config.json and then writes it, and a handler that     *)
(* changes several fields saves each of them: the process may be killed    *)
(* between any two of these steps.  The handlers do not yield, so that     *)
(* nothing else comes in between.                                          *)
(***************************************************************************)
EXTENDS Integers, Sequences

CONSTANTS
  Passwords,  \* passwords the admin chooses from
  Initial,    \* the password in the file or printed at the first start
  Values,     \* values of a setting
  MaxStarts   \* bound

ASSUME ConfigAssumption ==
  Initial \in Passwords /\ Values # {} /\ MaxStarts \in Nat

VARIABLES
  config,   \* ConfigManager.config
  file,     \* config.json: "missing", "torn" or "written"
  disk,     \* what was last written to it
  process,  \* "down", "making" (the first file), "starting", "printing", "up", "broken"
  todo,     \* the fields the handler has yet to set, in order
  session,  \* the secret that signed the admin's JWT, or NoSecret
  expected, \* what the admin may expect to be in force: what was last printed or
            \* acknowledged, and what requests that were cut short since asked for
  starts

configVars == <<config, file, disk, process, todo, session, expected, starts>>

NoSecret == 0
Hash(alg, password) == [alg |-> alg, password |-> password]

\* The fields the properties are about: jwt_secret, the password's hash and whether
\* salt is set, one setting, max_entries (whether it is negative).
Fields == {"secret", "hash", "salt", "setting", "negative"}

\* DEFAULT_CONFIG before its secrets are made.
DefaultConfig ==
  [secret |-> NoSecret, hash |-> Hash("bcrypt", Initial), salt |-> FALSE,
   setting |-> CHOOSE v \in Values : TRUE, negative |-> FALSE]
\* A file of an old version: no secret, and a salted SHA-256 hash.
OldConfig == [DefaultConfig EXCEPT !.hash = Hash("sha256", Initial), !.salt = TRUE]

ConfigInit ==
  /\ config = DefaultConfig
  /\ file \in {"missing", "written"}
  /\ disk = OldConfig
  /\ process = "down"
  /\ todo = <<>>
  /\ session = NoSecret
  /\ expected = [password |-> IF file = "missing" THEN {} ELSE {Initial},
                 setting |-> {DefaultConfig.setting}]
  /\ starts = 0

-----------------------------------------------------------------------------
(* Starting.                                                               *)

\* Mutated: a secret per process.
AlwaysFresh(c) == [c EXCEPT !.secret = starts + 1]

\* _ensure_admin_security: a secret is made if there is none.  The n-th start makes
\* secret n.
EnsureSecurity(c) == IF c.secret = NoSecret THEN [c EXCEPT !.secret = starts + 1] ELSE c

\* _load: a torn file cannot be parsed.  The salted hash is kept, the admin has to
\* change the password.
Start ==
  /\ process = "down"
  /\ starts < MaxStarts
  /\ starts' = starts + 1
  /\ IF file = "torn"
     THEN process' = "broken" /\ UNCHANGED <<config, file>>
     ELSE /\ config' = EnsureSecurity(IF file = "missing" THEN DefaultConfig ELSE disk)
          /\ file' = "torn"
          /\ process' = IF file = "missing" THEN "making" ELSE "starting"
  /\ UNCHANGED <<disk, todo, session, expected>>

\* LogStore is made with max_entries, which a deque refuses if negative.
Serves == process' = IF config.negative THEN "broken" ELSE "up"

\* The configuration is loaded and saved.
Started ==
  /\ process = "starting"
  /\ file' = "written"
  /\ disk' = config
  /\ Serves
  /\ UNCHANGED <<config, todo, session, expected, starts>>

\* The first one is saved, the hash of the random password in it ...
Made ==
  /\ process = "making"
  /\ file' = "written"
  /\ disk' = config
  /\ process' = "printing"
  /\ UNCHANGED <<config, todo, session, expected, starts>>

\* ... and then the password is printed, which no later start does.
Printed ==
  /\ process = "printing"
  /\ expected' = [expected EXCEPT !.password = {Initial}]
  /\ Serves
  /\ UNCHANGED <<config, file, disk, todo, session, starts>>

\* The process is killed, or its container stopped.
Killed ==
  /\ process \in {"making", "starting", "printing", "up"}
  /\ process' = "down"
  /\ todo' = <<>>
  /\ UNCHANGED <<config, file, disk, session, expected, starts>>

-----------------------------------------------------------------------------
(* Handlers.                                                               *)

\* No handler is at work.
Idling == process = "up" /\ todo = <<>>

\* verify_password
VerifyPassword(c, password) ==
  c.hash = Hash(IF c.salt THEN "sha256" ELSE "bcrypt", password)

\* verify_jwt, as require_admin demands it.
Admitted == session # NoSecret /\ session = config.secret

\* login, create_jwt: with a password the admin may expect to fit.
Login(password) ==
  /\ Idling
  /\ password \in expected.password
  /\ VerifyPassword(config, password)
  /\ session' = config.secret
  /\ UNCHANGED <<config, file, disk, process, todo, expected, starts>>

\* A JWT runs out after a day.
SessionExpires ==
  /\ session # NoSecret
  /\ session' = NoSecret
  /\ UNCHANGED <<config, file, disk, process, todo, expected, starts>>

Field(name, value) == [name |-> name, value |-> value]

\* Mutated update_password: the salt goes first.
SaltFirst(password) == <<Field("salt", FALSE), Field("hash", Hash("bcrypt", password))>>

\* update_password: two fields, saved one after the other.
PasswordFields(password) == <<Field("hash", Hash("bcrypt", password)), Field("salt", FALSE)>>

UpdatePassword(old, new) ==
  /\ Idling /\ Admitted
  /\ VerifyPassword(config, old)
  /\ todo' = PasswordFields(new)
  /\ expected' = [expected EXCEPT !.password = @ \cup {new}]
  /\ UNCHANGED <<config, file, disk, process, session, starts>>

\* update_settings: any of the fields; max_entries is the last.
SettingFields(value) ==
  {<<Field("setting", value)>>}
    \cup {<<Field("setting", value), Field("negative", b)>> : b \in BOOLEAN}

UpdateSettings(value) ==
  /\ Idling /\ Admitted
  /\ todo' \in SettingFields(value)
  /\ expected' = [expected EXCEPT !.setting = @ \cup {value}]
  /\ UNCHANGED <<config, file, disk, process, session, starts>>

\* set_val: the field changes in memory and the file is truncated ...
SetVal ==
  /\ process = "up" /\ todo # <<>> /\ file = "written"
  /\ config' = [config EXCEPT ![Head(todo).name] = Head(todo).value]
  /\ file' = "torn"
  /\ UNCHANGED <<disk, process, todo, session, expected, starts>>

\* Mutated set_val: the file is written before the field changes.
SaveFirst(c) == [c EXCEPT ![Head(todo).name] = disk[Head(todo).name]]

\* _save writes all of the configuration.
Save(c) == c

\* What the handler's answer after its last field acknowledges.  A negative
\* max_entries raises in LogStore.resize instead.
Acknowledged(field) ==
  CASE field.name = "salt" -> [expected EXCEPT !.password = {config.hash.password}]
    [] field.name = "setting" \/ field = Field("negative", FALSE) ->
         [expected EXCEPT !.setting = {config.setting}]
    [] OTHER -> expected

\* ... and written.
SaveEnds ==
  /\ process = "up" /\ file = "torn"
  /\ file' = "written"
  /\ disk' = Save(config)
  /\ todo' = Tail(todo)
  /\ expected' = IF Len(todo) = 1 THEN Acknowledged(Head(todo)) ELSE expected
  /\ UNCHANGED <<config, process, session, starts>>

-----------------------------------------------------------------------------

ConfigNext ==
  \/ Start \/ Started \/ Made \/ Printed \/ Killed \/ SessionExpires \/ SetVal \/ SaveEnds
  \/ \E password \in Passwords : Login(password)
  \/ \E old, new \in Passwords : UpdatePassword(old, new)
  \/ \E value \in Values : UpdateSettings(value)

ConfigSpec == ConfigInit /\ [][ConfigNext]_configVars

-----------------------------------------------------------------------------
(* Properties.                                                             *)

Configs ==
  [secret : 0 .. MaxStarts, hash : [alg : {"bcrypt", "sha256"}, password : Passwords],
   salt : BOOLEAN, setting : Values, negative : BOOLEAN]

ConfigTypeOK ==
  /\ config \in Configs
  /\ file \in {"missing", "torn", "written"}
  /\ disk \in Configs
  /\ process \in {"down", "making", "starting", "printing", "up", "broken"}
  /\ Len(todo) <= 2
  /\ \A i \in DOMAIN todo : todo[i].name \in Fields
  /\ process = "up" /\ todo = <<>> => file = "written" /\ disk = config
  /\ session \in 0 .. MaxStarts
  /\ expected \in [password : SUBSET Passwords, setting : SUBSET Values]
  /\ starts \in 0 .. MaxStarts

\* Whatever the process died of, a service that is up has the setting the admin was
\* last told of, or that of a request that was cut short since.
SettingSurvives == Idling => config.setting \in expected.setting

\* An admin stays logged in over restarts and migrations, until the JWT expires.
SessionSurvives == process = "up" /\ session # NoSecret => session = config.secret

\* A service that is up lets the admin in with the password last printed or acknowledged,
\* or with that of a change that was cut short, unless it was killed half-way through one
\* of two things: between the two saves of update_password, when a salted hash has been
\* replaced and the salt is still there, so that no password fits; or between the first
\* save of the file and the printing of the password in it, so that nobody knows it,
\* whatever README.md:140 says of the first start.
SplitChange == config.salt /\ config.hash.alg = "bcrypt"
NeverPrinted == expected.password = {}
LockedOutHalfWayOnly ==
  Idling =>
    \/ \E password \in expected.password : VerifyPassword(config, password)
    \/ SplitChange
    \/ NeverPrinted
=============================================================================
