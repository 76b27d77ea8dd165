------------------------------ MODULE UnionView ------------------------------
(***************************************************************************)
(* The union view of src/layer/union_view.rs: what a file is, seen from a  *)
(* layer, is what the nearest layer on its chain recorded about it.        *)
(*                                                                         *)
(* lookup_file reads the entries of one layer after the other from the     *)
(* view's layer down to the base; list_directory reads them from the base  *)
(* up. Each layer is a statement of its own. Meanwhile record_change       *)
(* writes to the current layer, or late to one that a checkpoint has       *)
(* frozen since its check; checkpoints put new layers on top; a deleted    *)
(* inode takes its entries out of every layer. Layers of other branches    *)
(* are not on the chain of a view and are left out, and so is the deletion *)
(* of a view's own layer: its entries all go in one statement.             *)
(***************************************************************************)
EXTENDS Integers, FiniteSets, FiniteSetsExt

CONSTANTS Readers,    \* views that answer a request
          Files,      \* paths of one directory
          MaxLayers,  \* bound: length of the chain
          MaxInodes   \* bound: inodes created in one run

ASSUME BoundsAssumption == MaxLayers \in Nat \ {0} /\ MaxInodes \in Nat

LayerIds == 1..MaxLayers
InodeIds == 1..MaxInodes

\* A row of layer_entries, or none; FileState with the layer it comes from.
NoEntry == [type |-> "none", inode |-> 0]
Entries == [type : {"write", "delete"}, inode : InodeIds]
NotFound == [state |-> "not_found", layer |-> 0, inode |-> 0]

VARIABLES
    top,        \* the current layer; the chain of layer l is l, l - 1, ..., 1
    entry,      \* layer_entries, unique for a layer and a path
    inodeOf,    \* the inode a path has now, 0 for none
    nextInode,  \* the identity the next inode gets
    pc, view, path,
    layer,      \* the layer a reader reads next
    found,      \* what it has found so far, by path
    seen,       \* what was true of a path at some moment of the request
    disturbed   \* what reached below the current layer during the request

data == <<top, entry, inodeOf, nextInode>>
vars == <<top, entry, inodeOf, nextInode, pc, view, path, layer, found, seen,
          disturbed>>

\* Add and Modify read the same.
StateOf(l, e) ==
    CASE e.type = "none" -> NotFound
      [] e.type = "write" -> [state |-> "exists", layer |-> l, inode |-> e.inode]
      [] e.type = "delete" -> [state |-> "deleted", layer |-> l, inode |-> 0]

\* What a path is in the view from layer l: the word of the nearest layer.
Truth(l, p) ==
    LET said == {k \in 1..l : entry[k][p].type # "none"}
    IN  IF said = {} THEN NotFound ELSE StateOf(Max(said), entry[Max(said)][p])

Init ==
    /\ top = 1
    /\ entry = [l \in LayerIds |-> [p \in Files |-> NoEntry]]
    /\ inodeOf = [p \in Files |-> 0]
    /\ nextInode = 1
    /\ pc = [r \in Readers |-> "idle"]
    /\ view = [r \in Readers |-> 1]
    /\ path \in [Readers -> Files]
    /\ layer = [r \in Readers |-> 1]
    /\ found = [r \in Readers |-> [p \in Files |-> NotFound]]
    /\ seen = [r \in Readers |-> [p \in Files |-> {}]]
    /\ disturbed = [r \in Readers |-> {}]

\* Readers under way have seen what is true now, and what disturbed the layers.
Witness(what) ==
    LET reading == {r \in Readers : pc[r] \in {"lookup", "list"}}
    IN  /\ seen' = [r \in Readers |-> [p \in Files |->
                       IF r \in reading THEN seen[r][p] \cup {Truth(view[r], p)'}
                       ELSE seen[r][p]]]
        /\ disturbed' = [r \in Readers |->
                            IF r \in reading THEN disturbed[r] \cup what
                            ELSE disturbed[r]]

reader == <<pc, view, path, layer, found>>

-----------------------------------------------------------------------------
(* What happens to the layers                                              *)

CreateFile(p) ==
    /\ inodeOf[p] = 0 /\ nextInode \in InodeIds
    /\ inodeOf' = [inodeOf EXCEPT ![p] = nextInode]
    /\ nextInode' = nextInode + 1
    /\ UNCHANGED <<top, entry, reader>>
    /\ Witness({})

RecordChangeAbove(p, type, l) ==
    /\ inodeOf[p] # 0 /\ top + 1 \in LayerIds
    /\ entry' = [entry EXCEPT ![top + 1][p] = [type |-> type, inode |-> inodeOf[p]]]
    /\ UNCHANGED <<top, inodeOf, nextInode, reader>>
    /\ Witness({})

\* record_change: an upsert in the layer that was current and writable when the
\* request checked it.
RecordChange(p, type, l) ==
    /\ inodeOf[p] # 0
    /\ l <= top
    /\ entry' = [entry EXCEPT ![l][p] = [type |-> type, inode |-> inodeOf[p]]]
    /\ UNCHANGED <<top, inodeOf, nextInode, reader>>
    /\ Witness(IF l < top THEN {"late record"} ELSE {})

\* delete_file records nothing; the entries of all layers go with the inode.
DeleteFile(p) ==
    /\ inodeOf[p] # 0
    /\ inodeOf' = [inodeOf EXCEPT ![p] = 0]
    /\ entry' = [l \in LayerIds |-> [entry[l] EXCEPT ![p] = NoEntry]]
    /\ UNCHANGED <<top, nextInode, reader>>
    /\ Witness({"inode deleted"})

Checkpoint ==
    /\ top + 1 \in LayerIds
    /\ top' = top + 1
    /\ UNCHANGED <<entry, inodeOf, nextInode, reader>>
    /\ Witness({})

-----------------------------------------------------------------------------
(* from_layer, from_current, lookup_file and list_directory                *)

\* The view keeps the chain it reads here: LayerManager's ChainsFixed says that the
\* chain of a layer does not change while the layer exists.
FromLayer(r, l) ==
    /\ pc[r] = "idle"
    /\ view' = [view EXCEPT ![r] = l]
    /\ UNCHANGED <<data, pc, path, layer, found, seen, disturbed>>

\* A checkpoint between the two statements of from_current leaves the view on a
\* layer below the current one, as FromLayer does.
FromCurrent(r) == FromLayer(r, top)

Start(r, label, p, first) ==
    /\ pc[r] = "idle"
    /\ pc' = [pc EXCEPT ![r] = label]
    /\ path' = [path EXCEPT ![r] = p]
    /\ layer' = [layer EXCEPT ![r] = first]
    /\ found' = [found EXCEPT ![r] = [q \in Files |-> NotFound]]
    /\ seen' = [seen EXCEPT ![r] = [q \in Files |-> {Truth(view[r], q)}]]
    /\ UNCHANGED <<data, view, disturbed>>

LookupFile(r, p) == Start(r, "lookup", p, view[r])
ListDirectory(r) == Start(r, "list", path[r], 1)

\* The first layer that has an entry for the path decides.
LookupStepSkippingDeletes(r) ==
    /\ pc[r] = "lookup"
    /\ LET e == entry[layer[r]][path[r]]
       IN  /\ found' = [found EXCEPT ![r][path[r]] =
                           IF e.type = "delete" THEN NotFound ELSE StateOf(layer[r], e)]
           /\ pc' = [pc EXCEPT ![r] = IF e.type = "write" \/ layer[r] = 1
                                      THEN "looked" ELSE "lookup"]
           /\ layer' = [layer EXCEPT ![r] = IF layer[r] = 1 THEN 1 ELSE @ - 1]
    /\ UNCHANGED <<data, view, path, seen, disturbed>>

LookupStep(r) ==
    /\ pc[r] = "lookup"
    /\ LET e == entry[layer[r]][path[r]]
       IN  /\ found' = [found EXCEPT ![r][path[r]] = StateOf(layer[r], e)]
           /\ pc' = [pc EXCEPT ![r] = IF e.type # "none" \/ layer[r] = 1
                                      THEN "looked" ELSE "lookup"]
           /\ layer' = [layer EXCEPT ![r] = IF layer[r] = 1 THEN 1 ELSE @ - 1]
    /\ UNCHANGED <<data, view, path, seen, disturbed>>

\* Every layer overwrites what the ones below said; a delete removes the name.
MergeKeepingDeleted(r, p) ==
    LET e == entry[layer[r]][p]
    IN  IF e.type = "write" THEN StateOf(layer[r], e) ELSE found[r][p]

Merge(r, p) ==
    LET e == entry[layer[r]][p]
    IN  CASE e.type = "none" -> found[r][p]
          [] e.type = "write" -> StateOf(layer[r], e)
          [] e.type = "delete" -> NotFound

ListStep(r) ==
    /\ pc[r] = "list"
    /\ found' = [found EXCEPT ![r] = [p \in Files |-> Merge(r, p)]]
    /\ pc' = [pc EXCEPT ![r] = IF layer[r] = view[r] THEN "listed" ELSE "list"]
    /\ layer' = [layer EXCEPT ![r] = IF layer[r] = view[r] THEN @ ELSE @ + 1]
    /\ UNCHANGED <<data, view, path, seen, disturbed>>

\* The answer is delivered.
Answer(r) ==
    /\ pc[r] \in {"looked", "listed"}
    /\ pc' = [pc EXCEPT ![r] = "idle"]
    /\ layer' = [layer EXCEPT ![r] = 1]
    /\ found' = [found EXCEPT ![r] = [p \in Files |-> NotFound]]
    /\ seen' = [seen EXCEPT ![r] = [p \in Files |-> {}]]
    /\ disturbed' = [disturbed EXCEPT ![r] = {}]
    /\ UNCHANGED <<data, view, path>>

Next ==
    \/ \E p \in Files : CreateFile(p)
    \/ \E p \in Files, type \in {"write", "delete"}, l \in LayerIds : RecordChange(p, type, l)
    \/ \E p \in Files : DeleteFile(p)
    \/ Checkpoint
    \/ \E r \in Readers :
        \/ FromCurrent(r)
        \/ \E l \in 1..(top - 1) : FromLayer(r, l)
        \/ \E p \in Files : LookupFile(r, p)
        \/ ListDirectory(r)
        \/ LookupStep(r)
        \/ ListStep(r)
        \/ Answer(r)

Spec == Init /\ [][Next]_vars

-----------------------------------------------------------------------------
(* Properties                                                              *)

States == [state : {"exists", "deleted", "not_found"},
           layer : LayerIds \cup {0}, inode : InodeIds \cup {0}]

\* Every variable ranges over what the table and the locals can hold; nothing is
\* recorded above the current layer.
TypeOK ==
    /\ top \in LayerIds
    /\ entry \in [LayerIds -> [Files -> Entries \cup {NoEntry}]]
    /\ \A l \in LayerIds, p \in Files : l > top => entry[l][p] = NoEntry
    /\ inodeOf \in [Files -> InodeIds \cup {0}]
    /\ nextInode \in 1..(MaxInodes + 1)
    /\ pc \in [Readers -> {"idle", "lookup", "list", "looked", "listed"}]
    /\ view \in [Readers -> LayerIds]
    /\ path \in [Readers -> Files]
    /\ layer \in [Readers -> LayerIds]
    /\ \A r \in Readers : layer[r] <= view[r] /\ view[r] <= top
    /\ found \in [Readers -> [Files -> States]]
    /\ seen \in [Readers -> [Files -> SUBSET States]]
    /\ disturbed \in [Readers -> SUBSET {"late record", "inode deleted"}]

\* lookup_file is atomic although it reads layer by layer: what it answers was
\* true of the path at some moment of the request, also when changes were
\* recorded in the current layer, layers added or the inode deleted between two
\* of its reads. Only a change recorded late, in a frozen layer, can break this:
\* the lookup may meet it below a newer one that it came too early to see.
LookupAtomic ==
    \A r \in Readers : pc[r] = "looked" /\ "late record" \notin disturbed[r] =>
        found[r][path[r]] \in seen[r][path[r]]

\* list_directory tells the same of every single name: it is missing only if at
\* some moment it did not exist, and listed with an inode and a layer only if
\* lookup_file could have found it so during the request. It is exposed to a
\* second disturbance, an inode deleted meanwhile: from the base up, it has read
\* the lower entry and finds the one that hid it gone.
ListAtomicPerName ==
    \A r \in Readers, p \in Files : pc[r] = "listed" /\ disturbed[r] = {} =>
        IF found[r][p] = NotFound
        THEN \E s \in seen[r][p] : s.state # "exists"
        ELSE found[r][p] \in seen[r][p]
==============================================================================
