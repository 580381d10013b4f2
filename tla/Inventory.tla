------------------------------- MODULE Inventory -------------------------------
(***************************************************************************)
(* The inventory of models and of their versions (models.py, class         *)
(* InventoryRegistry): what is registered under an identity is immutable   *)
(* and never removed.  One institution is modelled.  The digest of the     *)
(* whole inventory is modelled by the pair of its two sets.                *)
(***************************************************************************)
CONSTANTS
  ModelRecords,  \* the records callers present, several may share a modelId
  ModelVersions  \* the versions callers present, likewise

VARIABLES
  models,   \* _models
  versions  \* _versions

inventoryVars == <<models, versions>>

InventoryInit == models = {} /\ versions = {}

\* register_model.  A registered record presented again changes nothing, and
\* another content under its identity is refused.
RegisterModel(r) ==
  /\ \A m \in models : m.modelId # r.modelId
  /\ models' = models \cup {r}
  /\ UNCHANGED versions

\* register_version.
RegisterVersion(v) ==
  /\ \E m \in models : m.modelId = v.modelId
  /\ \A w \in versions : w.modelId # v.modelId \/ w.versionId # v.versionId
  /\ versions' = versions \cup {v}
  /\ UNCHANGED models

\* snapshot_digest.
InventorySnapshot == <<models, versions>>

InventoryNext ==
  \/ \E r \in ModelRecords : RegisterModel(r)
  \/ \E v \in ModelVersions : RegisterVersion(v)

InventorySpec == InventoryInit /\ [][InventoryNext]_inventoryVars

================================================================================
