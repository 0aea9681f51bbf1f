----------------------------- MODULE Gatekeeper -----------------------------
(***************************************************************************)
(* security_middleware of tabbit2api.py: whose address a request counts    *)
(* for, the sliding windows over the logins and over the API requests of   *)
(* an address, and the limit on the body as it is received.                *)
(*                                                                         *)
(* A list of times is kept as how many of them are how many ticks old;     *)
(* from the age Window on it no longer matters how old they are.           *)
(***************************************************************************)
EXTENDS Integers, Functions

CONSTANTS
  Hosts,    \* addresses requests come from
  Trusted,  \* trusted_proxies
  NoHost,   \* a request without forwarding headers
  Limit,    \* path -> RATE_LIMIT_LOGIN, RATE_LIMIT_API
  Window,   \* path -> RATE_LIMIT_LOGIN_WINDOW, RATE_LIMIT_API_WINDOW
  MaxBody,  \* MAX_BODY_SIZE
  Chunks    \* sizes a piece of a body may have

Paths == {"login", "api"}

ASSUME GatekeeperAssumption ==
  /\ Trusted \subseteq Hosts /\ NoHost \notin Hosts
  /\ Limit \in [Paths -> Nat \ {0}] /\ Window \in [Paths -> Nat \ {0}]
  /\ MaxBody \in Nat /\ Chunks \subseteq Nat

VARIABLES
  attempts,  \* login_attempts and api_requests, by path and address
  admitted,  \* the same requests, forgotten as soon as they leave the window
  verdict,   \* the last request: its path and address, whether it was refused, and
             \* whether it was due to be
  received   \* bytes of its body the handler was given

gateVars == <<attempts, admitted, verdict, received>>

NoVerdict == [path |-> "none", ip |-> NoHost, refused |-> FALSE, due |-> FALSE]

Ages(p) == 0 .. Window[p]

GateInit ==
  /\ attempts = [p \in Paths |-> [h \in Hosts |-> [a \in Ages(p) |-> 0]]]
  /\ admitted = attempts
  /\ verdict = NoVerdict
  /\ received = 0

\* client_ip_for_request: only a trusted proxy is believed.
ClientIp(direct, forwarded) ==
  IF direct \in Trusted /\ forwarded # NoHost THEN forwarded ELSE direct

\* Mutated: a request that was admitted a whole window ago, or before, still counts.
InWindowInclusive(p, times) == [a \in Ages(p) |-> IF a <= Window[p] THEN times[a] ELSE 0]

InWindow(p, times) == [a \in Ages(p) |-> IF a < Window[p] THEN times[a] ELSE 0]
WithNow(times) == [times EXCEPT ![0] = @ + 1]

\* An announced length beyond the limit is refused before anything is counted.
TooLarge ==
  /\ verdict' = NoVerdict
  /\ received' = 0
  /\ UNCHANGED <<attempts, admitted>>

\* security_middleware: a refused request is not counted.
Request(p, direct, forwarded) ==
  LET ip == ClientIp(direct, forwarded)
      recent == InWindow(p, attempts[p][ip])
      refused == SumFunction(recent) >= Limit[p]
  IN /\ attempts' = [attempts EXCEPT ![p][ip] = IF refused THEN recent ELSE WithNow(recent)]
     /\ admitted' = IF refused THEN admitted ELSE [admitted EXCEPT ![p][ip] = WithNow(@)]
     /\ verdict' = [path |-> p, ip |-> ip, refused |-> refused,
                    due |-> SumFunction(admitted[p][ip]) >= Limit[p]]
     /\ received' = 0

\* limited_receive: RequestBodyTooLarge is raised instead.
Passes(size) == received + size <= MaxBody

\* The handler reads a piece of the body; the announced length may have been wrong,
\* or missing.
Receives(size) ==
  /\ verdict.path # "none" /\ ~verdict.refused
  /\ IF Passes(size)
     THEN received' = received + size /\ UNCHANGED verdict
     ELSE verdict' = NoVerdict /\ UNCHANGED received
  /\ UNCHANGED <<attempts, admitted>>

Older(p, times) ==
  [a \in Ages(p) |-> (IF a > 0 THEN times[a - 1] ELSE 0) + (IF a = Window[p] THEN times[a] ELSE 0)]

GateTick ==
  /\ attempts' = [p \in Paths |-> [h \in Hosts |-> Older(p, attempts[p][h])]]
  /\ admitted' = [p \in Paths |-> [h \in Hosts |->
       [a \in Ages(p) |-> IF a < Window[p] THEN Older(p, admitted[p][h])[a] ELSE 0]]]
  /\ UNCHANGED <<verdict, received>>

GateNext ==
  \/ \E p \in Paths, direct \in Hosts, forwarded \in Hosts \cup {NoHost} :
       Request(p, direct, forwarded)
  \/ \E size \in Chunks : Receives(size)
  \/ TooLarge \/ GateTick

GateSpec == GateInit /\ [][GateNext]_gateVars

-----------------------------------------------------------------------------

\* Whatever length was announced, no handler is given more of a body than MaxBody.
GateTypeOK ==
  /\ \A p \in Paths, h \in Hosts :
       attempts[p][h] \in [Ages(p) -> Nat] /\ admitted[p][h] \in [Ages(p) -> Nat]
  /\ verdict \in [path : Paths, ip : Hosts, refused : BOOLEAN, due : BOOLEAN] \cup {NoVerdict}
  /\ received \in 0 .. MaxBody

\* The windows slide exactly: however requests of several addresses and refusals
\* are spread over time, one is refused if and only if Limit requests of its address
\* were admitted within the last Window ticks.
WindowExact == verdict.refused = verdict.due
=============================================================================
