----------------------------- MODULE MountLayers -----------------------------
(***************************************************************************)
(* The layer chains of the mounts: create_initial_layers, create_snapshot  *)
(* and batch_snapshot of src/storage/layer.rs, called by                   *)
(* src/composition/layer_chain.rs. The rows of mount_entries come and go   *)
(* as well, and take their layers with them; the module Composition says   *)
(* which requests do that.                                                 *)
(*                                                                         *)
(* A snapshot takes the working layer's mark away, gives it the snapshot's *)
(* name, and then inserts the next working layer: three statements without *)
(* a transaction. Two unique indexes stand guard, one on the names of a    *)
(* tenant's layers and one on the working layer of a mount.                *)
(***************************************************************************)
EXTENDS Integers, FiniteSets

CONSTANTS Clients,    \* concurrent requests
          Mounts,     \* identities of mount entries, each used once
          Owner,      \* the tenant each of them belongs to
          Names,      \* names users give to snapshots
          MaxLayers   \* bound: layers created in one run

ASSUME MaxLayersAssumption == MaxLayers \in Nat

LayerIds == 1..MaxLayers
NoLayer == 0
NoMount == "no mount"
NoName == "no name"

\* "base-<mount>" and "working-<mount>" hold a UUID: no user picks such a name.
BaseName(m) == <<"base", m>>
WorkingName(m) == <<"working", m>>
SnapshotName(n) == <<"snapshot", n>>
NoLayerName == <<>>

VARIABLES
    mounts,     \* rows of mount_entries
    used,       \* the identities given to a mount entry so far
    live,       \* rows of layers
    mount,      \* layers.mount_entry_id
    parent,     \* layers.parent_layer_id
    name,       \* layers.layer_name
    working,    \* layers with is_working
    nextId,     \* the identity the next layer gets
    pc, of, at, as

table == <<mounts, used, live, mount, parent, name, working, nextId>>
local == <<pc, of, at, as>>
vars == <<mounts, used, live, mount, parent, name, working, nextId, pc, of, at, as>>

Init ==
    /\ mounts = {}
    /\ used = {}
    /\ live = {}
    /\ mount = [l \in LayerIds |-> NoMount]
    /\ parent = [l \in LayerIds |-> NoLayer]
    /\ name = [l \in LayerIds |-> NoLayerName]
    /\ working = {}
    /\ nextId = 1
    /\ pc = [c \in Clients |-> "idle"]
    /\ of = [c \in Clients |-> NoMount]
    /\ at = [c \in Clients |-> NoLayer]
    /\ as = [c \in Clients |-> NoName]

Goto(c, label, l) ==
    /\ pc' = [pc EXCEPT ![c] = label]
    /\ at' = [at EXCEPT ![c] = l]
    /\ UNCHANGED <<of, as>>

Return(c) ==
    /\ pc' = [pc EXCEPT ![c] = "idle"]
    /\ of' = [of EXCEPT ![c] = NoMount]
    /\ at' = [at EXCEPT ![c] = NoLayer]
    /\ as' = [as EXCEPT ![c] = NoName]

\* INSERT INTO layers: refused when the mount or the parent is gone, by the unique
\* name within the tenant, or by the unique working layer of the mount.
CreateAllowed(m, p, n, isWorking) ==
    /\ m \in mounts
    /\ p # NoLayer => p \in live
    /\ \A l \in live : name[l] = n => Owner[mount[l]] # Owner[m]
    /\ isWorking => \A l \in working : mount[l] # m

Create(m, p, n, isWorking) ==
    /\ live' = live \cup {nextId}
    /\ mount' = [mount EXCEPT ![nextId] = m]
    /\ parent' = [parent EXCEPT ![nextId] = p]
    /\ name' = [name EXCEPT ![nextId] = n]
    /\ working' = IF isWorking THEN working \cup {nextId} ELSE working
    /\ nextId' = nextId + 1
    /\ UNCHANGED <<mounts, used>>

-----------------------------------------------------------------------------
(* create_initial_layers                                                   *)

InitialBase(c, m) ==
    /\ pc[c] = "idle"
    /\ nextId \in LayerIds
    /\ CreateAllowed(m, NoLayer, BaseName(m), FALSE)    \* otherwise an error
    /\ Create(m, NoLayer, BaseName(m), FALSE)
    /\ pc' = [pc EXCEPT ![c] = "initial"]
    /\ of' = [of EXCEPT ![c] = m]
    /\ at' = [at EXCEPT ![c] = nextId]
    /\ UNCHANGED as

InitialWorking(c) ==
    /\ pc[c] = "initial"
    /\ nextId \in LayerIds
    /\ IF CreateAllowed(of[c], at[c], WorkingName(of[c]), TRUE)
       THEN Create(of[c], at[c], WorkingName(of[c]), TRUE)
       ELSE UNCHANGED table
    /\ Return(c)

-----------------------------------------------------------------------------
(* create_snapshot                                                         *)

SnapshotGetAnyMount(c, m, n) ==
    /\ pc[c] = "idle"
    /\ \E l \in working : at' = [at EXCEPT ![c] = l]
    /\ pc' = [pc EXCEPT ![c] = "update"]
    /\ of' = [of EXCEPT ![c] = m]
    /\ as' = [as EXCEPT ![c] = n]
    /\ UNCHANGED table

\* batch_snapshot comes here never: it reads mount_entries.current_layer_id into
\* a value that cannot be NULL, and nothing sets that column.
SnapshotGet(c, m, n) ==
    /\ pc[c] = "idle"
    /\ \E l \in working :
        /\ mount[l] = m            \* otherwise "Working layer not found"
        /\ at' = [at EXCEPT ![c] = l]
    /\ pc' = [pc EXCEPT ![c] = "update"]
    /\ of' = [of EXCEPT ![c] = m]
    /\ as' = [as EXCEPT ![c] = n]
    /\ UNCHANGED table

SnapshotUpdateToggling(c) ==
    /\ pc[c] = "update"
    /\ LET taken == {l \in live \ {at[c]} : /\ name[l] = SnapshotName(as[c])
                                            /\ Owner[mount[l]] = Owner[of[c]]}
       IN IF at[c] \in live /\ taken # {}
          THEN Return(c) /\ UNCHANGED table
          ELSE /\ working' = (working \ {at[c]}) \cup ((live \cap {at[c]}) \ working)
               /\ name' = IF at[c] \in live
                          THEN [name EXCEPT ![at[c]] = SnapshotName(as[c])]
                          ELSE name
               /\ Goto(c, "create", at[c])
               /\ UNCHANGED <<mounts, used, live, mount, parent, nextId>>

\* Also when another request has turned the layer into a snapshot meanwhile. An
\* UPDATE that finds the layer deleted changes no row and is no error.
SnapshotUpdate(c) ==
    /\ pc[c] = "update"
    /\ LET taken == {l \in live \ {at[c]} : /\ name[l] = SnapshotName(as[c])
                                            /\ Owner[mount[l]] = Owner[of[c]]}
       IN IF at[c] \in live /\ taken # {}
          THEN Return(c) /\ UNCHANGED table
          ELSE /\ working' = working \ {at[c]}
               /\ name' = IF at[c] \in live
                          THEN [name EXCEPT ![at[c]] = SnapshotName(as[c])]
                          ELSE name
               /\ Goto(c, "create", at[c])
               /\ UNCHANGED <<mounts, used, live, mount, parent, nextId>>

SnapshotCreate(c) ==
    /\ pc[c] = "create"
    /\ nextId \in LayerIds
    /\ IF CreateAllowed(of[c], at[c], WorkingName(of[c]), TRUE)
       THEN Create(of[c], at[c], WorkingName(of[c]), TRUE)
       ELSE UNCHANGED table
    /\ Return(c)

\* The request ends between two statements; what it wrote stays.
Crash(c) ==
    /\ pc[c] # "idle"
    /\ Return(c)
    /\ UNCHANGED table

ChainStep(c) ==
    \/ \E m \in Mounts : InitialBase(c, m)
    \/ InitialWorking(c)
    \/ \E m \in Mounts, n \in Names : SnapshotGet(c, m, n)
    \/ SnapshotUpdate(c)
    \/ SnapshotCreate(c)
    \/ Crash(c)

-----------------------------------------------------------------------------
(* Rows that go away                                                       *)

DeleteLayers(S) ==
    /\ live' = live \ S
    /\ working' = working \ S
    /\ mount' = [l \in LayerIds |-> IF l \in S THEN NoMount ELSE mount[l]]
    /\ parent' = [l \in LayerIds |-> IF l \in S THEN NoLayer ELSE parent[l]]
    /\ name' = [l \in LayerIds |-> IF l \in S THEN NoLayerName ELSE name[l]]
    /\ UNCHANGED nextId

\* Rows of mount_entries are deleted and inserted; the layers of a deleted mount
\* are deleted by the foreign key.
ReplaceMounts(old, new) ==
    /\ old \subseteq mounts
    /\ new \subseteq Mounts \ used
    /\ mounts' = (mounts \ old) \cup new
    /\ used' = used \cup new
    /\ DeleteLayers({l \in live : mount[l] \in old})

\* LayerManager::delete_layer takes any layer that has no children, a mount's too.
DeleteLayer(l) ==
    /\ l \in live
    /\ \A k \in live : parent[k] # l
    /\ DeleteLayers({l})
    /\ UNCHANGED <<mounts, used>>

\* Requests of LayerManager other than the deletion are left out. A checkpoint of
\* it on a mount's layer adds a layer that belongs to no mount: all that does to
\* the chains is to refuse a deletion, or a name, that would else be accepted.
Next ==
    \/ \E c \in Clients : ChainStep(c)
    \/ \E old \in SUBSET mounts, new \in SUBSET (Mounts \ used) :
           ReplaceMounts(old, new) /\ UNCHANGED local
    \/ \E l \in LayerIds : DeleteLayer(l) /\ UNCHANGED local

Spec == Init /\ [][Next]_vars

-----------------------------------------------------------------------------
(* Properties                                                              *)

\* Every variable ranges over what the tables and the locals can hold, and a
\* tenant's layers have different names.
TypeOK ==
    /\ mounts \subseteq used
    /\ used \subseteq Mounts
    /\ nextId \in 1..(MaxLayers + 1)
    /\ live \subseteq 1..(nextId - 1)
    /\ mount \in [LayerIds -> Mounts \cup {NoMount}]
    /\ \A l \in live : mount[l] \in mounts
    /\ parent \in [LayerIds -> LayerIds \cup {NoLayer}]
    /\ name \in [LayerIds -> {NoLayerName} \cup {BaseName(m) : m \in Mounts}
                               \cup {WorkingName(m) : m \in Mounts}
                               \cup {SnapshotName(n) : n \in Names}]
    /\ working \subseteq live
    /\ \A l, k \in live :
          name[l] = name[k] /\ Owner[mount[l]] = Owner[mount[k]] => l = k
    /\ pc \in [Clients -> {"idle", "initial", "update", "create"}]
    /\ of \in [Clients -> Mounts \cup {NoMount}]
    /\ at \in [Clients -> LayerIds \cup {NoLayer}]
    /\ as \in [Clients -> Names \cup {NoName}]

\* A mount has at most one working layer, whatever snapshots, initialisations and
\* deletions of it overlap.
OneWorkingLayer ==
    \A l, k \in working : mount[l] = mount[k] => l = k

\* A snapshot is closed: the working layer, the only one that is written, is
\* never below another layer. Every chain stays inside its mount and starts at
\* the mount's base layer.
SnapshotsClosed ==
    \A l \in live :
        IF parent[l] = NoLayer THEN name[l] = BaseName(mount[l]) /\ l \notin working
        ELSE /\ parent[l] \in live \ working
             /\ parent[l] < l
             /\ mount[parent[l]] = mount[l]

\* The layer chain of a mount survives every overlap of requests: one working
\* layer at most, and closed snapshots below it.
ChainsIntact == OneWorkingLayer /\ SnapshotsClosed

\* A snapshot is final: for as long as it exists it is not written again and hangs
\* where it hung, whatever snapshots of the mount overlap, fail or crash. It also
\* keeps its name, unless a second snapshot had read the layer before the first
\* one closed it.
SnapshotsFinal ==
    [][\A l \in (live \cap live') \ working :
            /\ l \notin working'
            /\ mount'[l] = mount[l] /\ parent'[l] = parent[l]
            /\ name'[l] # name[l] => \E c \in Clients : pc[c] = "update" /\ at[c] = l]_vars
==============================================================================
