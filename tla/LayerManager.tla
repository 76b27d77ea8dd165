---------------------------- MODULE LayerManager -----------------------------
(***************************************************************************)
(* The layer manager of one tenant (src/layer/manager.rs) over the tables  *)
(* it works on (src/storage/layer.rs, migration 003).                      *)
(*                                                                         *)
(* Every request is a sequence of SQL statements, each its own             *)
(* transaction; nothing holds a lock or a transaction across two of them.  *)
(* So a request is a program counter with its local variables, one action  *)
(* per statement, and any statements of other requests may come in         *)
(* between. A process that dies, a dropped future or a lost connection     *)
(* leaves what was done so far: Crash. The constraints of the schema       *)
(* (UNIQUE names, ON DELETE RESTRICT on parent and on the current layer)   *)
(* decide which statements the database refuses; a refused statement ends  *)
(* the request with an error.                                              *)
(***************************************************************************)
EXTENDS Integers, FiniteSets

CONSTANTS Clients,    \* concurrent requests: mounts, hooks, CLI processes
          Names,      \* names users give to layers
          Base,       \* the name "base" of initialize_base_layer
          Paths,      \* paths of changed files
          MaxLayers   \* bound: layers created in one run

ASSUME MaxLayersAssumption == MaxLayers \in Nat \ {0}
ASSUME BaseAssumption == Base \notin Names

LayerIds == 1..MaxLayers      \* identities in the order of created_at
NoLayer == 0
LayerNames == Names \cup {Base}

VARIABLES
    live,       \* rows of layers
    parent,     \* layers.parent_layer_id
    name,       \* layers.layer_name
    readonly,   \* layers with is_readonly
    entries,    \* layer_entries: the changed paths of each layer
    nextId,     \* the identity the next layer gets
    current,    \* tenant_current_layer.current_layer_id
    pc,         \* where each client's request stands
    at,         \* the layer the request works on
    todo,       \* the layers get_future_layers has read
    arg,        \* the name or the path the request is about
    mode        \* what get_future_layers is called for

tables == <<live, parent, name, readonly, entries, nextId>>
locals == <<pc, at, todo, arg, mode>>
vars == <<live, parent, name, readonly, entries, nextId, current,
          pc, at, todo, arg, mode>>

Labels == {"idle", "init_get", "init_create", "set_current",
           "cp_get", "list", "chain", "cp_delete", "cp_freeze", "cp_create",
           "del_current", "del_switch", "del_delete", "rec_get", "rec_add"}
Modes == {"none", "plain", "confirmed", "delete"}

Init ==
    /\ live = {}
    /\ parent = [l \in LayerIds |-> NoLayer]
    /\ name = [l \in LayerIds |-> Base]
    /\ readonly = {}
    /\ entries = [l \in LayerIds |-> {}]
    /\ nextId = 1
    /\ current = NoLayer
    /\ pc = [c \in Clients |-> "idle"]
    /\ at = [c \in Clients |-> NoLayer]
    /\ todo = [c \in Clients |-> {}]
    /\ arg = [c \in Clients |-> Base]
    /\ mode = [c \in Clients |-> "none"]

-----------------------------------------------------------------------------
(* Control: the first statement of a request, the next one, the return.    *)

Begin(c, label, l, a, m) ==
    /\ pc[c] = "idle"
    /\ pc' = [pc EXCEPT ![c] = label]
    /\ at' = [at EXCEPT ![c] = l]
    /\ arg' = [arg EXCEPT ![c] = a]
    /\ mode' = [mode EXCEPT ![c] = m]
    /\ UNCHANGED todo

Goto(c, label) ==
    /\ pc' = [pc EXCEPT ![c] = label]
    /\ UNCHANGED <<at, todo, arg, mode>>

Return(c) ==
    /\ pc' = [pc EXCEPT ![c] = "idle"]
    /\ at' = [at EXCEPT ![c] = NoLayer]
    /\ todo' = [todo EXCEPT ![c] = {}]
    /\ arg' = [arg EXCEPT ![c] = Base]
    /\ mode' = [mode EXCEPT ![c] = "none"]

-----------------------------------------------------------------------------
(* The statements of storage/layer.rs.                                     *)

CreateAllowedWithoutUnique(p, n) == p # NoLayer => p \in live

\* INSERT INTO layers is refused when the name is taken or the parent gone.
CreateAllowed(p, n) ==
    /\ p # NoLayer => p \in live
    /\ \A l \in live : name[l] # n

CreateRow(p, n) ==
    /\ live' = live \cup {nextId}
    /\ parent' = [parent EXCEPT ![nextId] = p]
    /\ name' = [name EXCEPT ![nextId] = n]
    /\ nextId' = nextId + 1
    /\ UNCHANGED <<readonly, entries, current>>

\* DELETE FROM layers is refused (RESTRICT) for the parent of a layer and
\* for the current layer; it removes nothing when the row is gone already.
DeletableIgnoringChildren(l) == l # current

DeletableIgnoringCurrent(l) == \A m \in live : parent[m] # l

Deletable(l) == l # current /\ \A m \in live : parent[m] # l

DeleteRow(l) ==
    /\ live' = live \ {l}
    /\ name' = [name EXCEPT ![l] = Base]
    /\ readonly' = readonly \ {l}
    /\ entries' = [entries EXCEPT ![l] = {}]
    /\ UNCHANGED <<parent, nextId, current>>

\* get_layer_chain: from l up to its root through the rows that exist.
Chain(l) ==
    LET up[k \in 0..MaxLayers] ==
            IF k \in live THEN {k} \cup up[parent[k]] ELSE {}
    IN  up[l]

-----------------------------------------------------------------------------
(* initialize_base_layer                                                   *)

InitializeGetCurrent(c) ==
    /\ Begin(c, IF current = NoLayer THEN "init_create" ELSE "init_get",
             current, Base, "none")
    /\ UNCHANGED <<tables, current>>

InitializeGet(c) ==
    /\ pc[c] = "init_get"
    /\ IF at[c] \in live THEN Return(c) ELSE Goto(c, "init_create")
    /\ UNCHANGED <<tables, current>>

InitializeCreate(c) ==
    /\ pc[c] = "init_create"
    /\ nextId \in LayerIds
    /\ IF CreateAllowed(NoLayer, Base)
       THEN /\ CreateRow(NoLayer, Base)
            /\ pc' = [pc EXCEPT ![c] = "set_current"]
            /\ at' = [at EXCEPT ![c] = nextId]
            /\ UNCHANGED <<todo, arg, mode>>
       ELSE Return(c) /\ UNCHANGED <<tables, current>>

\* The last statement of initialize, checkpoint and switch; the foreign key
\* refuses a layer that was deleted meanwhile.
SetCurrentUnchecked(c) ==
    /\ pc[c] = "set_current"
    /\ current' = at[c]
    /\ Return(c)
    /\ UNCHANGED tables

SetCurrent(c) ==
    /\ pc[c] = "set_current"
    /\ current' = IF at[c] \in live THEN at[c] ELSE current
    /\ Return(c)
    /\ UNCHANGED tables

-----------------------------------------------------------------------------
(* create_checkpoint_with_confirm; create_checkpoint is mode "plain"       *)

CheckpointGetCurrent(c, n, m) ==
    /\ current # NoLayer           \* otherwise NoCurrentLayer at once
    /\ Begin(c, "cp_get", current, n, m)
    /\ UNCHANGED <<tables, current>>

CheckpointGet(c) ==
    /\ pc[c] = "cp_get"
    /\ IF at[c] \in live THEN Goto(c, "list") ELSE Return(c)
    /\ UNCHANGED <<tables, current>>

\* get_future_layers, for a checkpoint and for delete_layer: list all layers,
\* then ask for the chain of each that has a parent. The chain of a layer
\* never changes while it exists, and deleting a layer that was deleted is
\* a no-op, so the chain queries are one step.
ListLayers(c) ==
    /\ pc[c] = "list"
    /\ todo' = [todo EXCEPT ![c] =
                    {l \in live : l # at[c] /\ parent[l] # NoLayer}]
    /\ pc' = [pc EXCEPT ![c] = "chain"]
    /\ UNCHANGED <<tables, current, at, arg, mode>>

GetFutureLayers(c) ==
    /\ pc[c] = "chain"
    /\ LET future == {l \in todo[c] : at[c] \in Chain(l)}
           next == IF future = {}
                   THEN IF mode[c] = "delete" THEN "del_current" ELSE "cp_freeze"
                   ELSE "cp_delete"
       IN  IF future # {} /\ mode[c] # "confirmed"
           THEN Return(c)          \* needs confirmation, or has children
           ELSE /\ todo' = [todo EXCEPT ![c] = future]
                /\ pc' = [pc EXCEPT ![c] = next]
                /\ UNCHANGED <<at, arg, mode>>
    /\ UNCHANGED <<tables, current>>

\* The confirmed deletion. The list is newest first (the sort by depth
\* compares the constant 0) and is walked in reverse: oldest first.
NextToDelete(c, l) == l \in todo[c] /\ \A m \in todo[c] : l <= m

DeleteFutureLayer(c, l) ==
    /\ pc[c] = "cp_delete"
    /\ NextToDelete(c, l)
    /\ Deletable(l)
    /\ DeleteRow(l)
    /\ todo' = [todo EXCEPT ![c] = todo[c] \ {l}]
    /\ pc' = [pc EXCEPT ![c] = IF todo[c] = {l} THEN "cp_freeze" ELSE "cp_delete"]
    /\ UNCHANGED <<at, arg, mode>>

DeleteFutureRefused(c, l) ==
    /\ pc[c] = "cp_delete"
    /\ NextToDelete(c, l)
    /\ l \in live /\ ~Deletable(l)
    /\ Return(c)
    /\ UNCHANGED <<tables, current>>

CheckpointFreezeSkipped(c) ==
    /\ pc[c] = "cp_freeze"
    /\ Goto(c, "cp_create")
    /\ UNCHANGED <<tables, current>>

CheckpointFreeze(c) ==
    /\ pc[c] = "cp_freeze"
    /\ readonly' = readonly \cup ({at[c]} \cap live)
    /\ Goto(c, "cp_create")
    /\ UNCHANGED <<live, parent, name, entries, nextId, current>>

CheckpointCreate(c) ==
    /\ pc[c] = "cp_create"
    /\ nextId \in LayerIds
    /\ IF CreateAllowed(at[c], arg[c])
       THEN /\ CreateRow(at[c], arg[c])
            /\ pc' = [pc EXCEPT ![c] = "set_current"]
            /\ at' = [at EXCEPT ![c] = nextId]
            /\ UNCHANGED <<todo, arg, mode>>
       ELSE Return(c) /\ UNCHANGED <<tables, current>>

-----------------------------------------------------------------------------
(* switch_to_layer                                                         *)

SwitchGet(c, l) ==
    /\ l \in live                  \* otherwise LayerNotFound at once
    /\ Begin(c, "set_current", l, Base, "none")
    /\ UNCHANGED <<tables, current>>

-----------------------------------------------------------------------------
(* delete_layer                                                            *)

DeleteGet(c, l) ==
    /\ l \in live                  \* otherwise LayerNotFound at once
    /\ Begin(c, "list", l, Base, "delete")
    /\ UNCHANGED <<tables, current>>

DeleteGetCurrent(c) ==
    /\ pc[c] = "del_current"
    /\ CASE current # at[c] -> Goto(c, "del_delete")
         [] current = at[c] /\ parent[at[c]] # NoLayer -> Goto(c, "del_switch")
         [] current = at[c] /\ parent[at[c]] = NoLayer -> Return(c)
    /\ UNCHANGED <<tables, current>>

DeleteSwitchToParent(c) ==
    /\ pc[c] = "del_switch"
    /\ IF parent[at[c]] \in live
       THEN current' = parent[at[c]] /\ Goto(c, "del_delete")
       ELSE Return(c) /\ UNCHANGED current
    /\ UNCHANGED tables

DeleteLayer(c) ==
    /\ pc[c] = "del_delete"
    /\ IF at[c] \in live /\ Deletable(at[c])
       THEN DeleteRow(at[c])
       ELSE UNCHANGED <<tables, current>>
    /\ Return(c)

-----------------------------------------------------------------------------
(* record_change                                                           *)

RecordGetCurrent(c, p) ==
    /\ current # NoLayer           \* otherwise NoCurrentLayer at once
    /\ Begin(c, "rec_get", current, p, "none")
    /\ UNCHANGED <<tables, current>>

RecordGet(c) ==
    /\ pc[c] = "rec_get"
    /\ IF at[c] \in live \ readonly THEN Goto(c, "rec_add") ELSE Return(c)
    /\ UNCHANGED <<tables, current>>

\* add_entry is an upsert on (layer_id, path).
RecordAddEntry(c) ==
    /\ pc[c] = "rec_add"
    /\ entries' = IF at[c] \in live
                  THEN [entries EXCEPT ![at[c]] = @ \cup {arg[c]}]
                  ELSE entries
    /\ Return(c)
    /\ UNCHANGED <<live, parent, name, readonly, nextId, current>>

-----------------------------------------------------------------------------

\* The request ends between two statements; what it wrote stays.
Crash(c) ==
    /\ pc[c] # "idle"
    /\ Return(c)
    /\ UNCHANGED <<tables, current>>

Next ==
    \E c \in Clients :
        \/ InitializeGetCurrent(c)
        \/ InitializeGet(c)
        \/ InitializeCreate(c)
        \/ SetCurrent(c)
        \/ \E n \in LayerNames, m \in {"plain", "confirmed"} :
              CheckpointGetCurrent(c, n, m)
        \/ CheckpointGet(c)
        \/ ListLayers(c)
        \/ GetFutureLayers(c)
        \/ \E l \in LayerIds : DeleteFutureLayer(c, l)
        \/ \E l \in LayerIds : DeleteFutureRefused(c, l)
        \/ CheckpointFreeze(c)
        \/ CheckpointCreate(c)
        \/ \E l \in LayerIds : SwitchGet(c, l)
        \/ \E l \in LayerIds : DeleteGet(c, l)
        \/ DeleteGetCurrent(c)
        \/ DeleteSwitchToParent(c)
        \/ DeleteLayer(c)
        \/ \E p \in Paths : RecordGetCurrent(c, p)
        \/ RecordGet(c)
        \/ RecordAddEntry(c)
        \/ Crash(c)

Spec == Init /\ [][Next]_vars

-----------------------------------------------------------------------------
(* Properties                                                              *)

\* Every variable ranges over what the tables and the locals can hold.
TypeOK ==
    /\ live \subseteq LayerIds
    /\ parent \in [LayerIds -> LayerIds \cup {NoLayer}]
    /\ name \in [LayerIds -> LayerNames]
    /\ readonly \subseteq live
    /\ entries \in [LayerIds -> SUBSET Paths]
    /\ nextId \in 1..(MaxLayers + 1)
    /\ current \in LayerIds \cup {NoLayer}
    /\ pc \in [Clients -> Labels]
    /\ at \in [Clients -> LayerIds \cup {NoLayer}]
    /\ todo \in [Clients -> SUBSET LayerIds]
    /\ arg \in [Clients -> LayerNames \cup Paths]
    /\ mode \in [Clients -> Modes]

\* The layers form a tree and the current layer is in it: no request, alone or
\* between the statements of others, deletes a layer that another layer or the
\* tenant's position stands on, and no chain of parents runs in a circle (the
\* recursive chain query ends).
TreeIntact ==
    /\ current \in live \cup {NoLayer}
    /\ \A l \in live : parent[l] \in live \cup {NoLayer} /\ parent[l] < l

\* Two requests that initialize the tenant at the same time, or a request
\* that retries after a crash, never leave it with two base layers; the root
\* is always the layer named "base".
OneBaseLayer ==
    \A l, m \in live :
        /\ parent[l] = NoLayer => name[l] = Base
        /\ parent[l] = NoLayer /\ parent[m] = NoLayer => l = m

\* A layer that another layer builds on is read-only, also when the checkpoint
\* that created the child crashed, raced a delete or a switch, or was refused
\* half way.
ParentsReadonly ==
    \A l \in live : parent[l] # NoLayer => parent[l] \in readonly

\* The layers that get_layer_chain finds for a layer are the same for as long as it
\* exists: whatever requests overlap or crash, none of its ancestors is taken away
\* or hung elsewhere, and none slips in.
ChainsFixed == [][\A l \in live \cap live' : Chain(l)' = Chain(l)]_vars

\* What the locals of a request say of the tables: its layer was created
\* before, its argument fits the statement to come, and a checkpoint that is
\* about to create the child has frozen the parent, unless the parent is gone.
\* With the three invariants above this is inductive.
RequestsOK ==
    /\ \A l \in live : l < nextId
    /\ \A c \in Clients :
        /\ at[c] < nextId
        /\ pc[c] \notin {"idle", "init_create"} => at[c] # NoLayer
        /\ pc[c] = "rec_add" => arg[c] \in Paths
        /\ pc[c] = "rec_get" => arg[c] \in Paths
        /\ pc[c] \notin {"rec_get", "rec_add"} => arg[c] \in LayerNames
        /\ pc[c] = "cp_create" /\ at[c] \in live => at[c] \in readonly

\* The requests implement the tree of LayerTree, statement by statement.
Tree == INSTANCE LayerTree
    WITH Ids <- LayerIds, None <- NoLayer,
         nodes <- live, up <- parent, frozen <- readonly, pos <- current
RefinesLayerTree == Tree!TreeSpec
==============================================================================
