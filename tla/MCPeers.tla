------------------------------- MODULE MCPeers ------------------------------
(***************************************************************************)
(* Devices and the identities behind them, for TLC: two peer engines, and  *)
(* the registry that binds principals to profiles.  They share no state: a *)
(* behaviour takes one `part` and leaves the other at rest.                *)
(***************************************************************************)
EXTENDS PeerEngine, TLC

CONSTANTS near, far, Profiles, Principals, Owners, MaxWrites, MaxChanges, MaxTries

VARIABLES part, file, durable, audit, torn, holder, inv, cmd, prov, count

Registry == INSTANCE IdentityRegistry

ASSUME RegistryConstants == Registry!RegistryAssumption

\* One device sends to the other, which admits it.
MCReach == [d \in Devices |-> IF d = near THEN {far} ELSE {}]
MCRoster == [d \in Devices |-> IF d = far THEN {near} ELSE {}]

\* Attempts, ids and bodies are only compared for equality, and so are the
\* commands, profiles and principals of the registry, which stand for the same
\* values.
Symmetric == Permutations(Slots) \cup Permutations(Ids) \cup Permutations(Bodies)

registryVars == <<file, durable, audit, torn, holder, inv, cmd, prov, count>>

PeersInit ==
  /\ part \in {"engine", "registry"}
  /\ Init /\ Registry!RegistryInit
  /\ part # "registry" => \A p \in Profiles : inv[p] = Registry!Nobody

PeersNext ==
  \/ part = "engine" /\ Next /\ UNCHANGED <<part, registryVars>>
  \/ part = "registry" /\ Registry!RegistryNext /\ UNCHANGED <<part, vars>>

PeersSpec == PeersInit /\ [][PeersNext]_<<part, vars, registryVars>>

\* The audit log accounts for the registry through crashes and power losses, no
\* principal is bound to two profiles, and a cached snapshot that would be used
\* routes nothing to a revoked binding.
RegistryIsSound ==
  part = "registry" =>
    Registry!RegistryIsAudited /\ Registry!OneProfilePerPrincipal /\ Registry!CacheIsCurrent
=============================================================================
