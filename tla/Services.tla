------------------------------ MODULE Services ------------------------------
(***************************************************************************)
(* The parts of the service every request goes through beside the token    *)
(* pool and the bridge, as tabbit2api.py puts them together: the           *)
(* security middleware, the configuration, the list of models and the      *)
(* content of a request to upstream.                                       *)
(*                                                                         *)
(* They read each other's results as plain values and share no state, so   *)
(* that any of them behaves as if the others stood still.  A behaviour     *)
(* here is one of a single part, chosen at the start; the others keep      *)
(* their initial states.                                                   *)
(***************************************************************************)
EXTENDS ModelRegistry, ConfigStore, Gatekeeper, ContentBudget

VARIABLE part \* the part that moves

servicesVars == <<part, registryVars, configVars, gateVars, contentVars>>

ServicesInit ==
  /\ part \in {"registry", "config", "gate", "content"}
  /\ RegistryInit /\ ConfigInit /\ GateInit /\ ContentInit
  /\ part # "config" => file = "missing"

RegistryMoves ==
  part = "registry" /\ RegistryNext /\ UNCHANGED <<part, configVars, gateVars, contentVars>>
ConfigMoves ==
  part = "config" /\ ConfigNext /\ UNCHANGED <<part, registryVars, gateVars, contentVars>>
GateMoves ==
  part = "gate" /\ GateNext /\ UNCHANGED <<part, registryVars, configVars, contentVars>>
ContentMoves ==
  part = "content" /\ ContentNext /\ UNCHANGED <<part, registryVars, configVars, gateVars>>

ServicesNext == RegistryMoves \/ ConfigMoves \/ GateMoves \/ ContentMoves

\* The fairness of a registry that moves; the others need none.
RegistryProceeds(c) ==
  part = "registry" /\ Proceeds(c) /\ UNCHANGED <<part, configVars, gateVars, contentVars>>

ServicesFairness == \A c \in Parties : WF_servicesVars(RegistryProceeds(c))

ServicesSpec == ServicesInit /\ [][ServicesNext]_servicesVars /\ ServicesFairness

-----------------------------------------------------------------------------

\* Every part keeps its types.
ServicesTypeOK == RegistryTypeOK /\ ConfigTypeOK /\ GateTypeOK /\ ContentTypeOK

\* Every refresh ends, and with the first one the start of the service, also when
\* upstream never answers (refresh_with_retry).
RefreshEnds ==
  \A c \in Parties :
    part = "registry" /\ call[c].step # "idle" ~> call[c].step = "idle"
=============================================================================
