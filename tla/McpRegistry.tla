---------------------------- MODULE McpRegistry -----------------------------
(***************************************************************************)
(* The allowlist of MCP servers: manifests that are registered for review, *)
(* approved and disabled, in memory and in the registry's file, and the    *)
(* catalog of their tools, which is in memory only.                        *)
(*                                                                         *)
(* Every operation changes the memory and then saves all of it; a save     *)
(* that fails is answered with an error and leaves the memory changed.     *)
(* Whether a manifest is valid (the hash of its command, the resolution of *)
(* its endpoint) is looked up each time and may change between two looks.  *)
(* A manifest never changes under its id, so that its fingerprint is the   *)
(* manifest itself and only an approval, or none, is kept of it.           *)
(***************************************************************************)
EXTENDS Integers, FiniteSets

CONSTANTS
  Server,
  Tool,
  ServerOf,      \* [Tool -> Server]
  MaxServers     \* EXTENSION_POLICY.max_mcp_servers

ASSUME RegistryAssumption == ServerOf \in [Tool -> Server] /\ MaxServers \in Nat

VARIABLES
  items,      \* [Server -> what the memory holds]
  stored,     \* [Server -> what the file holds]
  catalog,    \* [Tool -> whether it is known, and whether it needs a gate]
  valid,      \* the servers whose manifest is valid now
  revoked     \* history: disabled with success, and not approved since

registry == <<items, stored, catalog, valid, revoked>>

Manifest == {"absent", "review", "approved"}
Descriptor == {"none", "free", "gated"}

RegistryInit ==
  /\ items = [s \in Server |-> "absent"]
  /\ stored = items
  /\ catalog = [t \in Tool |-> "none"]
  /\ valid = Server
  /\ revoked = {}

Listed(list) == {s \in Server : list[s] # "absent"}

\* _save: all of the memory, or an error.
Saved(ok) == stored' = IF ok THEN items' ELSE stored

Register(s, ok) ==
  /\ Cardinality(Listed(items)) < MaxServers
  /\ s \in valid /\ items[s] = "absent"
  /\ items' = [items EXCEPT ![s] = "review"]
  /\ Saved(ok)
  /\ UNCHANGED <<catalog, valid, revoked>>

\* An approval takes effect in memory even if its request is answered with an
\* error because the save failed.
Approve(s, ok) ==
  /\ s \in Listed(items) \cap valid
  /\ items' = [items EXCEPT ![s] = "approved"]
  /\ Saved(ok)
  /\ revoked' = revoked \ {s}
  /\ UNCHANGED <<catalog, valid>>

\* Mutant: the file keeps the approval.
DisableUnsaved(s, ok) ==
  /\ s \in Listed(items) \cap valid
  /\ items' = [items EXCEPT ![s] = "review"]
  /\ revoked' = IF ok THEN revoked \cup {s} ELSE revoked
  /\ UNCHANGED <<stored, catalog, valid>>

\* A server whose manifest is not valid cannot be disabled.
Disable(s, ok) ==
  /\ s \in Listed(items) \cap valid
  /\ items' = [items EXCEPT ![s] = "review"]
  /\ Saved(ok)
  /\ revoked' = IF ok THEN revoked \cup {s} ELSE revoked
  /\ UNCHANGED <<catalog, valid>>

\* Whoever posts a tool says whether it needs a gate, again at any time.
RegisterTool(t, d) ==
  /\ ServerOf[t] \in Listed(items)
  /\ catalog' = [catalog EXCEPT ![t] = d]
  /\ UNCHANGED <<items, stored, valid, revoked>>

\* A command is edited, or a name resolves to another address.
Revalue(s) ==
  /\ valid' = IF s \in valid THEN valid \ {s} ELSE valid \cup {s}
  /\ UNCHANGED <<items, stored, catalog, revoked>>

\* A server that starts reads the file, and starts only if every manifest of
\* the file is valid.
Reload ==
  /\ Listed(stored) \subseteq valid
  /\ items' = stored
  /\ catalog' = [t \in Tool |-> "none"]
  /\ UNCHANGED <<stored, valid, revoked>>

RegistryNext ==
  \/ \E s \in Server, ok \in BOOLEAN : Register(s, ok) \/ Approve(s, ok) \/ Disable(s, ok)
  \/ \E t \in Tool, d \in {"free", "gated"} : RegisterTool(t, d)
  \/ \E s \in Server : Revalue(s)

-----------------------------------------------------------------------------
(* Properties                                                              *)

RegistryTypeOK ==
  /\ items \in [Server -> Manifest] /\ stored \in [Server -> Manifest]
  /\ catalog \in [Tool -> Descriptor]
  /\ valid \subseteq Server /\ revoked \subseteq Server

\* A server that was disabled stays so, in memory and on disk, until somebody
\* approves it again: no failed save, no save of another server's change and no
\* restart brings its approval back (registry.py, disable, _save and _load).
RevocationHolds ==
  \A s \in revoked : items[s] # "approved" /\ stored[s] # "approved"
=============================================================================
