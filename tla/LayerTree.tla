------------------------------ MODULE LayerTree ------------------------------
(***************************************************************************)
(* What the layer manager promises of one tenant's layers, whatever the    *)
(* requests do and however their statements interleave: the layers form a  *)
(* tree with one root; a layer is frozen before it gets a child; only a    *)
(* leaf nobody is positioned at is removed; the tenant's position is       *)
(* always one of the layers.                                               *)
(***************************************************************************)
CONSTANTS Ids,      \* layer identities, each used at most once
          None      \* no layer: the parent of the root, the position at first

VARIABLES nodes,    \* the layers that exist
          up,       \* the parent of each layer
          frozen,   \* the layers marked read-only
          pos       \* the current layer

treeVars == <<nodes, up, frozen, pos>>

TreeInit ==
    /\ nodes = {}
    /\ up = [l \in Ids |-> None]
    /\ frozen = {}
    /\ pos = None

\* The first layer, or the first after a root that nobody used was removed.
AddRoot(l) ==
    /\ \A m \in nodes : up[m] # None
    /\ l \notin nodes
    /\ nodes' = nodes \cup {l}
    /\ up' = [up EXCEPT ![l] = None]
    /\ UNCHANGED <<frozen, pos>>

\* A child is only ever hung under a layer that can no longer be written.
AddChild(l, p) ==
    /\ p \in nodes \cap frozen
    /\ l \notin nodes
    /\ nodes' = nodes \cup {l}
    /\ up' = [up EXCEPT ![l] = p]
    /\ UNCHANGED <<frozen, pos>>

Freeze(l) ==
    /\ l \in nodes
    /\ frozen' = frozen \cup {l}
    /\ UNCHANGED <<nodes, up, pos>>

MoveTo(l) ==
    /\ l \in nodes
    /\ pos' = l
    /\ UNCHANGED <<nodes, up, frozen>>

\* Nothing that the position, or another layer, stands on is removed.
RemoveLeaf(l) ==
    /\ l \in nodes
    /\ l # pos
    /\ \A m \in nodes : up[m] # l
    /\ nodes' = nodes \ {l}
    /\ frozen' = frozen \ {l}
    /\ UNCHANGED <<up, pos>>

TreeNext ==
    \E l \in Ids :
        \/ AddRoot(l)
        \/ \E p \in Ids : AddChild(l, p)
        \/ Freeze(l)
        \/ MoveTo(l)
        \/ RemoveLeaf(l)

TreeSpec == TreeInit /\ [][TreeNext]_treeVars
==============================================================================
