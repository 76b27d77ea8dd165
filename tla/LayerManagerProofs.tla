-------------------------- MODULE LayerManagerProofs -------------------------
(***************************************************************************)
(* Proofs about LayerManager for any number of clients, names, paths and   *)
(* layers. IInv is inductive: RequestsOK says what the statements a        *)
(* request has already done guarantee to the ones to come.                 *)
(***************************************************************************)
EXTENDS LayerManager, WellFoundedInduction, TLAPS

IInv == TypeOK /\ TreeIntact /\ OneBaseLayer /\ ParentsReadonly /\ RequestsOK

\* The empty tables of a new tenant satisfy the invariant.
LEMMA InitIInv == Init => IInv
  BY MaxLayersAssumption
  DEF Init, IInv, TypeOK, TreeIntact, OneBaseLayer, ParentsReadonly, RequestsOK,
      LayerIds, NoLayer, LayerNames, Labels, Modes

-----------------------------------------------------------------------------
(* Steps that only move a request: it ends, starts, or goes on.            *)

\* A request that ends leaves the tables as they are.
LEMMA ReturnIInv ==
  ASSUME IInv, NEW c \in Clients, Return(c), UNCHANGED <<tables, current>>
  PROVE  IInv'
  BY MaxLayersAssumption
  DEF Return, tables, IInv, TypeOK, TreeIntact, OneBaseLayer, ParentsReadonly,
      RequestsOK, LayerIds, NoLayer, LayerNames, Labels, Modes

\* A request starts on a layer that exists, or on none, with a fitting argument.
LEMMA BeginIInv ==
  ASSUME IInv, NEW c \in Clients, NEW label \in Labels \ {"cp_create"},
         NEW l \in live \cup {NoLayer}, NEW a \in LayerNames \cup Paths,
         NEW m \in Modes,
         label \notin {"idle", "init_create"} => l # NoLayer,
         label \in {"rec_get", "rec_add"} => a \in Paths,
         label \notin {"rec_get", "rec_add"} => a \in LayerNames,
         Begin(c, label, l, a, m), UNCHANGED <<tables, current>>
  PROVE  IInv'
  <1> USE DEF IInv, tables
  <1>1. TypeOK'
    BY DEF Begin, TypeOK, LayerIds, NoLayer
  <1>2. TreeIntact' /\ OneBaseLayer' /\ ParentsReadonly'
    BY DEF TreeIntact, OneBaseLayer, ParentsReadonly
  <1>3. l < nextId
    BY MaxLayersAssumption DEF TypeOK, RequestsOK, LayerIds, NoLayer
  <1>4. RequestsOK'
    BY <1>3 DEF Begin, TypeOK, RequestsOK
  <1> QED BY <1>1, <1>2, <1>4

\* A request goes on to a statement that asks no more of its locals than the
\* one before, or to the creation of a child of a layer that is read-only.
LEMMA GotoIInv ==
  ASSUME IInv, NEW c \in Clients, NEW label \in Labels,
         Goto(c, label), UNCHANGED <<tables, current>>,
         label \notin {"idle", "init_create"} => at[c] # NoLayer,
         label \in {"rec_get", "rec_add"} => arg[c] \in Paths,
         label \notin {"rec_get", "rec_add"} => arg[c] \in LayerNames,
         label = "cp_create" /\ at[c] \in live => at[c] \in readonly
  PROVE  IInv'
  <1> USE DEF IInv, tables
  <1>1. TypeOK'
    BY DEF Goto, TypeOK
  <1>2. TreeIntact' /\ OneBaseLayer' /\ ParentsReadonly'
    BY DEF TreeIntact, OneBaseLayer, ParentsReadonly
  <1>3. RequestsOK'
    BY DEF Goto, TypeOK, RequestsOK
  <1> QED BY <1>1, <1>2, <1>3

\* The reads: every statement that changes no table.
LEMMA ReadsIInv ==
  ASSUME IInv, NEW c \in Clients,
         \/ InitializeGetCurrent(c) \/ InitializeGet(c)
         \/ \E n \in LayerNames, m \in {"plain", "confirmed"} :
               CheckpointGetCurrent(c, n, m)
         \/ CheckpointGet(c) \/ ListLayers(c) \/ GetFutureLayers(c)
         \/ \E l \in LayerIds : DeleteFutureRefused(c, l)
         \/ \E l \in LayerIds : SwitchGet(c, l)
         \/ \E l \in LayerIds : DeleteGet(c, l)
         \/ DeleteGetCurrent(c)
         \/ \E p \in Paths : RecordGetCurrent(c, p)
         \/ RecordGet(c) \/ Crash(c)
  PROVE  IInv'
  <1> USE DEF LayerNames, Labels, Modes
  <1>0. /\ current \in live \cup {NoLayer}
        /\ pc[c] \notin {"idle", "init_create"} => at[c] # NoLayer
        /\ pc[c] = "rec_get" => arg[c] \in Paths
        /\ pc[c] \notin {"rec_get", "rec_add"} => arg[c] \in LayerNames
    BY DEF IInv, TreeIntact, RequestsOK
  <1>1. CASE InitializeGetCurrent(c)
    <2>1. CASE current = NoLayer
      BY <1>0, <1>1, <2>1, BeginIInv DEF InitializeGetCurrent
    <2>2. CASE current # NoLayer
      BY <1>0, <1>1, <2>2, BeginIInv DEF InitializeGetCurrent
    <2> QED BY <2>1, <2>2
  <1>2. CASE InitializeGet(c)
    BY <1>0, <1>2, ReturnIInv, GotoIInv DEF InitializeGet
  <1>3. ASSUME NEW n \in LayerNames, NEW m \in {"plain", "confirmed"},
               CheckpointGetCurrent(c, n, m)
        PROVE  IInv'
    BY <1>0, <1>3, BeginIInv DEF CheckpointGetCurrent
  <1>4. CASE CheckpointGet(c)
    BY <1>0, <1>4, ReturnIInv, GotoIInv DEF CheckpointGet
  <1>5. CASE ListLayers(c)
    BY <1>5 DEF ListLayers, tables, IInv, TypeOK, TreeIntact, OneBaseLayer,
                ParentsReadonly, RequestsOK
  <1>6. CASE GetFutureLayers(c)
    <2> DEFINE future == {l \in todo[c] : at[c] \in Chain(l)}
    <2>1. CASE future # {} /\ mode[c] # "confirmed"
      BY <1>6, <2>1, ReturnIInv DEF GetFutureLayers
    <2>2. CASE ~(future # {} /\ mode[c] # "confirmed")
      <3>1. future \in SUBSET LayerIds
        BY DEF IInv, TypeOK
      <3>2. PICK label \in {"del_current", "cp_freeze", "cp_delete"} :
              /\ todo' = [todo EXCEPT ![c] = future]
              /\ pc' = [pc EXCEPT ![c] = label]
              /\ UNCHANGED <<at, arg, mode, tables, current>>
        BY <1>6, <2>2 DEF GetFutureLayers
      <3> HIDE DEF future
      <3> QED
        BY <1>0, <1>6, <3>1, <3>2
        DEF GetFutureLayers, tables, IInv, TypeOK, TreeIntact, OneBaseLayer,
            ParentsReadonly, RequestsOK
    <2> QED BY <2>1, <2>2
  <1>7. ASSUME NEW l \in LayerIds, DeleteFutureRefused(c, l)
        PROVE  IInv'
    BY <1>7, ReturnIInv DEF DeleteFutureRefused
  <1>8. ASSUME NEW l \in LayerIds, SwitchGet(c, l)
        PROVE  IInv'
    BY <1>0, <1>8, BeginIInv DEF SwitchGet, LayerIds, NoLayer
  <1>9. ASSUME NEW l \in LayerIds, DeleteGet(c, l)
        PROVE  IInv'
    BY <1>0, <1>9, BeginIInv DEF DeleteGet, LayerIds, NoLayer
  <1>10. CASE DeleteGetCurrent(c)
    <2>1. pc[c] = "del_current" /\ UNCHANGED <<tables, current>>
      BY <1>10 DEF DeleteGetCurrent
    <2>2. \/ Goto(c, "del_delete") \/ Goto(c, "del_switch") \/ Return(c)
      BY <1>10 DEF DeleteGetCurrent
    <2> QED BY <1>0, <2>1, <2>2, ReturnIInv, GotoIInv
  <1>11. ASSUME NEW p \in Paths, RecordGetCurrent(c, p)
         PROVE  IInv'
    BY <1>0, <1>11, BeginIInv DEF RecordGetCurrent
  <1>12. CASE RecordGet(c)
    BY <1>0, <1>12, ReturnIInv, GotoIInv DEF RecordGet
  <1>13. CASE Crash(c)
    BY <1>13, ReturnIInv DEF Crash
  <1> QED
    BY <1>1, <1>2, <1>3, <1>4, <1>5, <1>6, <1>7, <1>8, <1>9, <1>10, <1>11,
       <1>12, <1>13

-----------------------------------------------------------------------------
(* Statements that change the tables.                                      *)

\* A new layer, admitted by the constraints, under a live read-only parent or
\* as the only root: the step both creations have in common.
LEMMA CreateIInv ==
  ASSUME IInv, NEW c \in Clients, NEW p \in live \cup {NoLayer},
         NEW n \in LayerNames, nextId \in LayerIds,
         p # NoLayer => p \in readonly,
         p = NoLayer => n = Base,
         CreateAllowed(p, n), CreateRow(p, n),
         pc[c] \in {"init_create", "cp_create"},
         pc' = [pc EXCEPT ![c] = "set_current"],
         at' = [at EXCEPT ![c] = nextId],
         UNCHANGED <<todo, arg, mode>>
  PROVE  IInv'
  <1> USE MaxLayersAssumption DEF LayerIds, NoLayer
  <1>1. /\ live' = live \cup {nextId}
        /\ parent' = [parent EXCEPT ![nextId] = p]
        /\ name' = [name EXCEPT ![nextId] = n]
        /\ nextId' = nextId + 1
        /\ UNCHANGED <<readonly, entries, current>>
    BY DEF CreateRow
  <1>2. /\ nextId \notin live
        /\ p < nextId
        /\ \A l \in live : name[l] # n
    <2>1. nextId \notin live
      BY DEF IInv, TypeOK, RequestsOK
    <2>2. p < nextId
      BY DEF IInv, TypeOK, RequestsOK
    <2>3. \A l \in live : name[l] # n
      BY DEF CreateAllowed
    <2> QED BY <2>1, <2>2, <2>3
  <1>3. TypeOK'
    BY <1>1, <1>2 DEF IInv, TypeOK, Labels
  <1>4. TreeIntact'
    BY <1>1, <1>2 DEF IInv, TypeOK, TreeIntact
  <1>5. OneBaseLayer'
    BY <1>1, <1>2 DEF IInv, TypeOK, OneBaseLayer
  <1>6. ParentsReadonly'
    BY <1>1, <1>2 DEF IInv, TypeOK, ParentsReadonly
  <1>7. RequestsOK'
    BY <1>1, <1>2 DEF IInv, TypeOK, RequestsOK
  <1> QED BY <1>3, <1>4, <1>5, <1>6, <1>7 DEF IInv

\* What a checkpoint that is about to create the child knows of its parent.
LEMMA CheckpointParent ==
  ASSUME IInv, NEW c \in Clients, pc[c] = "cp_create",
         CreateAllowed(at[c], arg[c])
  PROVE  at[c] \in live /\ at[c] \in readonly /\ arg[c] \in LayerNames
                        /\ at[c] # NoLayer
  <1>1. at[c] # NoLayer /\ arg[c] \in LayerNames
    BY DEF IInv, RequestsOK
  <1>2. at[c] \in live
    BY <1>1 DEF CreateAllowed
  <1>3. at[c] \in readonly
    BY <1>2 DEF IInv, RequestsOK
  <1> QED BY <1>1, <1>2, <1>3

\* The row of a leaf that is not current is removed.
LEMMA DeleteRowTables ==
  ASSUME IInv, NEW l \in LayerIds, Deletable(l), DeleteRow(l)
  PROVE  /\ TreeIntact' /\ OneBaseLayer' /\ ParentsReadonly'
         /\ live' \subseteq live
         /\ readonly' \subseteq live' /\ readonly \cap live' \subseteq readonly'
         /\ name' \in [LayerIds -> LayerNames]
         /\ entries' \in [LayerIds -> SUBSET Paths]
  <1>1. TreeIntact'
    BY DEF Deletable, DeleteRow, IInv, TypeOK, TreeIntact
  <1>2. OneBaseLayer'
    BY DEF DeleteRow, IInv, TypeOK, OneBaseLayer
  <1>3. ParentsReadonly'
    BY DEF Deletable, DeleteRow, IInv, TypeOK, ParentsReadonly
  <1>4. /\ live' \subseteq live
        /\ readonly' \subseteq live' /\ readonly \cap live' \subseteq readonly'
    BY DEF DeleteRow, IInv, TypeOK
  <1>5. /\ name' \in [LayerIds -> LayerNames]
        /\ entries' \in [LayerIds -> SUBSET Paths]
    BY DEF DeleteRow, IInv, TypeOK, LayerNames
  <1> QED BY <1>1, <1>2, <1>3, <1>4, <1>5

\* The statements that write.
LEMMA WritesIInv ==
  ASSUME IInv, NEW c \in Clients,
         \/ InitializeCreate(c) \/ SetCurrent(c)
         \/ \E l \in LayerIds : DeleteFutureLayer(c, l)
         \/ CheckpointFreeze(c) \/ CheckpointCreate(c)
         \/ DeleteSwitchToParent(c) \/ DeleteLayer(c) \/ RecordAddEntry(c)
  PROVE  IInv'
  <1>1. CASE InitializeCreate(c)
    <2>1. CASE CreateAllowed(NoLayer, Base)
      BY <1>1, <2>1, CreateIInv DEF InitializeCreate, LayerNames
    <2>2. CASE ~CreateAllowed(NoLayer, Base)
      BY <1>1, <2>2, ReturnIInv DEF InitializeCreate
    <2> QED BY <2>1, <2>2
  <1>2. CASE SetCurrent(c)
    <2>1. TypeOK'
      BY <1>2 DEF SetCurrent, Return, tables, IInv, TypeOK, Labels, Modes,
                  LayerNames
    <2>2. TreeIntact'
      BY <1>2 DEF SetCurrent, tables, IInv, TreeIntact
    <2>3. OneBaseLayer' /\ ParentsReadonly'
      BY <1>2 DEF SetCurrent, tables, IInv, OneBaseLayer, ParentsReadonly
    <2>4. RequestsOK'
      BY <1>2, MaxLayersAssumption
      DEF SetCurrent, Return, tables, IInv, TypeOK, RequestsOK, NoLayer, LayerNames
    <2> QED BY <2>1, <2>2, <2>3, <2>4 DEF IInv
  <1>3. ASSUME NEW l \in LayerIds, DeleteFutureLayer(c, l)
        PROVE  IInv'
    <2>1. DeleteRow(l) /\ Deletable(l) /\ pc[c] = "cp_delete"
      BY <1>3 DEF DeleteFutureLayer
    <2>2. PICK label \in {"cp_freeze", "cp_delete"} :
             /\ pc' = [pc EXCEPT ![c] = label]
             /\ todo' = [todo EXCEPT ![c] = todo[c] \ {l}]
             /\ UNCHANGED <<at, arg, mode, parent, nextId, current>>
      BY <1>3 DEF DeleteFutureLayer, DeleteRow
    <2>3. TypeOK'
      BY <2>1, <2>2, DeleteRowTables DEF IInv, TypeOK, Labels
    <2>4. RequestsOK'
      BY <2>1, <2>2, DeleteRowTables DEF IInv, TypeOK, RequestsOK
    <2> QED BY <2>1, <2>3, <2>4, DeleteRowTables DEF IInv
  <1>4. CASE CheckpointFreeze(c)
    <2>1. TypeOK'
      BY <1>4 DEF CheckpointFreeze, Goto, IInv, TypeOK, Labels
    <2>2. TreeIntact' /\ OneBaseLayer' /\ ParentsReadonly'
      BY <1>4 DEF CheckpointFreeze, IInv, TreeIntact, OneBaseLayer, ParentsReadonly
    <2>3. RequestsOK'
      BY <1>4 DEF CheckpointFreeze, Goto, IInv, TypeOK, RequestsOK
    <2> QED BY <2>1, <2>2, <2>3 DEF IInv
  <1>5. CASE CheckpointCreate(c)
    <2>1. CASE CreateAllowed(at[c], arg[c])
      BY <1>5, <2>1, CreateIInv, CheckpointParent DEF CheckpointCreate
    <2>2. CASE ~CreateAllowed(at[c], arg[c])
      BY <1>5, <2>2, ReturnIInv DEF CheckpointCreate
    <2> QED BY <2>1, <2>2
  <1>6. CASE DeleteSwitchToParent(c)
    <2>1. CASE parent[at[c]] \in live
      <3>1. TypeOK'
        BY <1>6, <2>1 DEF DeleteSwitchToParent, Goto, tables, IInv, TypeOK, Labels
      <3>2. TreeIntact' /\ OneBaseLayer' /\ ParentsReadonly'
        BY <1>6, <2>1 DEF DeleteSwitchToParent, tables, IInv, TreeIntact,
                          OneBaseLayer, ParentsReadonly
      <3>3. RequestsOK'
        BY <1>6, <2>1 DEF DeleteSwitchToParent, Goto, tables, IInv, TypeOK, RequestsOK
      <3> QED BY <3>1, <3>2, <3>3 DEF IInv
    <2>2. CASE parent[at[c]] \notin live
      BY <1>6, <2>2, ReturnIInv DEF DeleteSwitchToParent
    <2> QED BY <2>1, <2>2
  <1>7. CASE DeleteLayer(c)
    <2>1. CASE at[c] \in live /\ Deletable(at[c])
      <3>1. at[c] \in LayerIds /\ DeleteRow(at[c]) /\ Return(c)
        BY <1>7, <2>1 DEF DeleteLayer, IInv, TypeOK
      <3>2. UNCHANGED <<parent, nextId, current>>
        BY <3>1 DEF DeleteRow
      <3>3. TypeOK'
        BY <2>1, <3>1, <3>2, DeleteRowTables
        DEF Return, IInv, TypeOK, Labels, Modes, LayerNames
      <3>4. RequestsOK'
        BY <2>1, <3>1, <3>2, DeleteRowTables, MaxLayersAssumption
        DEF Return, IInv, TypeOK, RequestsOK, NoLayer, LayerNames
      <3> QED BY <2>1, <3>1, <3>3, <3>4, DeleteRowTables DEF IInv
    <2>2. CASE ~(at[c] \in live /\ Deletable(at[c]))
      BY <1>7, <2>2, ReturnIInv DEF DeleteLayer
    <2> QED BY <2>1, <2>2
  <1>8. CASE RecordAddEntry(c)
    <2>1. arg[c] \in Paths
      BY <1>8 DEF RecordAddEntry, IInv, RequestsOK
    <2>2. entries' \in [LayerIds -> SUBSET Paths]
      BY <1>8, <2>1 DEF RecordAddEntry, IInv, TypeOK
    <2>3. TypeOK'
      BY <1>8, <2>2 DEF RecordAddEntry, Return, IInv, TypeOK, Labels, Modes,
                        LayerNames
    <2>4. TreeIntact' /\ OneBaseLayer' /\ ParentsReadonly'
      BY <1>8 DEF RecordAddEntry, IInv, TreeIntact, OneBaseLayer, ParentsReadonly
    <2>5. RequestsOK'
      BY <1>8, MaxLayersAssumption
      DEF RecordAddEntry, Return, IInv, TypeOK, RequestsOK, NoLayer, LayerNames
    <2> QED BY <2>3, <2>4, <2>5 DEF IInv
  <1> QED BY <1>1, <1>2, <1>3, <1>4, <1>5, <1>6, <1>7, <1>8

\* The invariant is inductive.
LEMMA NextIInv == IInv /\ [Next]_vars => IInv'
  <1> SUFFICES ASSUME IInv, [Next]_vars PROVE IInv'
    OBVIOUS
  <1>1. CASE Next
    BY <1>1, ReadsIInv, WritesIInv DEF Next
  <1>2. CASE UNCHANGED vars
    BY <1>2 DEF vars, IInv, TypeOK, TreeIntact, OneBaseLayer, ParentsReadonly,
                RequestsOK
  <1> QED BY <1>1, <1>2

\* The invariant holds in every reachable state.
LEMMA SpecIInv == Spec => []IInv
  BY InitIInv, NextIInv, PTL DEF Spec

-----------------------------------------------------------------------------

\* The tables and the locals of every request keep their types.
THEOREM TypeCorrect == Spec => []TypeOK
  BY SpecIInv, PTL DEF IInv

\* Whatever requests run, interleave and crash, the layers stay a tree that
\* holds the current layer.
THEOREM LayersFormATree == Spec => []TreeIntact
  BY SpecIInv, PTL DEF IInv

\* Racing and repeated initializations leave at most one root, named "base".
THEOREM BaseLayerUnique == Spec => []OneBaseLayer
  BY SpecIInv, PTL DEF IInv

\* A layer with a child is read-only at every moment.
THEOREM HistoryIsReadonly == Spec => []ParentsReadonly
  BY SpecIInv, PTL DEF IInv

-----------------------------------------------------------------------------
(* The refinement: every statement is a step of LayerTree, or changes      *)
(* nothing the tree shows.                                                 *)

\* Deleting the row of a leaf removes a node of the tree, if it was there.
LEMMA DeleteRowTree ==
  ASSUME IInv, NEW l \in LayerIds, Deletable(l), DeleteRow(l)
  PROVE  [Tree!TreeNext]_(Tree!treeVars)
  <1>1. CASE l \in live
    BY <1>1 DEF Deletable, DeleteRow, Tree!TreeNext, Tree!RemoveLeaf
  <1>2. CASE l \notin live
    BY <1>2 DEF DeleteRow, IInv, TypeOK, Tree!treeVars
  <1> QED BY <1>1, <1>2

\* The empty tables are the empty tree.
LEMMA InitTree == Init => Tree!TreeInit
  BY DEF Init, Tree!TreeInit

\* Every statement of a request is one step of the layer tree, or none.
LEMMA NextTree ==
  ASSUME IInv, [Next]_vars
  PROVE  [Tree!TreeNext]_(Tree!treeVars)
  <1>1. ASSUME NEW c \in Clients, InitializeCreate(c)
        PROVE  [Tree!TreeNext]_(Tree!treeVars)
    <2>1. CASE CreateAllowed(NoLayer, Base)
      <3>1. CreateRow(NoLayer, Base) /\ nextId \in LayerIds
        BY <1>1, <2>1 DEF InitializeCreate
      <3>2. nextId \notin live
        BY MaxLayersAssumption DEF IInv, TypeOK, RequestsOK, LayerIds
      <3>3. \A m \in live : parent[m] # NoLayer
        BY <2>1 DEF CreateAllowed, IInv, OneBaseLayer
      <3>4. Tree!AddRoot(nextId)
        BY <3>1, <3>2, <3>3 DEF CreateRow, Tree!AddRoot
      <3> QED BY <3>1, <3>4 DEF Tree!TreeNext
    <2>2. CASE ~CreateAllowed(NoLayer, Base)
      BY <1>1, <2>2 DEF InitializeCreate, tables, Tree!treeVars
    <2> QED BY <2>1, <2>2
  <1>2. ASSUME NEW c \in Clients, SetCurrent(c)
        PROVE  [Tree!TreeNext]_(Tree!treeVars)
    <2>1. CASE at[c] \in live
      <3>1. at[c] \in LayerIds /\ Tree!MoveTo(at[c])
        BY <1>2, <2>1 DEF SetCurrent, tables, IInv, TypeOK, Tree!MoveTo
      <3> QED BY <3>1 DEF Tree!TreeNext
    <2>2. CASE at[c] \notin live
      BY <1>2, <2>2 DEF SetCurrent, tables, Tree!treeVars
    <2> QED BY <2>1, <2>2
  <1>3. ASSUME NEW c \in Clients, NEW l \in LayerIds, DeleteFutureLayer(c, l)
        PROVE  [Tree!TreeNext]_(Tree!treeVars)
    BY <1>3, DeleteRowTree DEF DeleteFutureLayer
  <1>4. ASSUME NEW c \in Clients, CheckpointFreeze(c)
        PROVE  [Tree!TreeNext]_(Tree!treeVars)
    <2>1. CASE at[c] \in live
      <3>1. at[c] \in LayerIds /\ Tree!Freeze(at[c])
        BY <1>4, <2>1 DEF CheckpointFreeze, IInv, TypeOK, Tree!Freeze
      <3> QED BY <3>1 DEF Tree!TreeNext
    <2>2. CASE at[c] \notin live
      BY <1>4, <2>2 DEF CheckpointFreeze, Tree!treeVars
    <2> QED BY <2>1, <2>2
  <1>5. ASSUME NEW c \in Clients, CheckpointCreate(c)
        PROVE  [Tree!TreeNext]_(Tree!treeVars)
    <2>1. CASE CreateAllowed(at[c], arg[c])
      <3>1. CreateRow(at[c], arg[c]) /\ nextId \in LayerIds /\ pc[c] = "cp_create"
        BY <1>5, <2>1 DEF CheckpointCreate
      <3>2. nextId \notin live
        BY MaxLayersAssumption DEF IInv, TypeOK, RequestsOK, LayerIds
      <3>3. at[c] \in live /\ at[c] \in readonly /\ at[c] \in LayerIds
        BY <2>1, <3>1, CheckpointParent DEF IInv, TypeOK
      <3>4. Tree!AddChild(nextId, at[c])
        BY <3>1, <3>2, <3>3 DEF CreateRow, Tree!AddChild
      <3> QED BY <3>1, <3>3, <3>4 DEF Tree!TreeNext
    <2>2. CASE ~CreateAllowed(at[c], arg[c])
      BY <1>5, <2>2 DEF CheckpointCreate, tables, Tree!treeVars
    <2> QED BY <2>1, <2>2
  <1>6. ASSUME NEW c \in Clients, DeleteSwitchToParent(c)
        PROVE  [Tree!TreeNext]_(Tree!treeVars)
    <2>1. CASE parent[at[c]] \in live
      <3>1. parent[at[c]] \in LayerIds /\ Tree!MoveTo(parent[at[c]])
        BY <1>6, <2>1 DEF DeleteSwitchToParent, tables, IInv, TypeOK, Tree!MoveTo
      <3> QED BY <3>1 DEF Tree!TreeNext
    <2>2. CASE parent[at[c]] \notin live
      BY <1>6, <2>2 DEF DeleteSwitchToParent, tables, Tree!treeVars
    <2> QED BY <2>1, <2>2
  <1>7. ASSUME NEW c \in Clients, DeleteLayer(c)
        PROVE  [Tree!TreeNext]_(Tree!treeVars)
    <2>1. CASE at[c] \in live /\ Deletable(at[c])
      BY <1>7, <2>1, DeleteRowTree DEF DeleteLayer, IInv, TypeOK
    <2>2. CASE ~(at[c] \in live /\ Deletable(at[c]))
      BY <1>7, <2>2 DEF DeleteLayer, tables, Tree!treeVars
    <2> QED BY <2>1, <2>2
  <1>8. ASSUME NEW c \in Clients,
               \/ InitializeGetCurrent(c) \/ InitializeGet(c)
               \/ \E n \in LayerNames, m \in {"plain", "confirmed"} :
                     CheckpointGetCurrent(c, n, m)
               \/ CheckpointGet(c) \/ ListLayers(c) \/ GetFutureLayers(c)
               \/ \E l \in LayerIds : DeleteFutureRefused(c, l)
               \/ \E l \in LayerIds : SwitchGet(c, l)
               \/ \E l \in LayerIds : DeleteGet(c, l)
               \/ DeleteGetCurrent(c)
               \/ \E p \in Paths : RecordGetCurrent(c, p)
               \/ RecordGet(c) \/ RecordAddEntry(c) \/ Crash(c)
        PROVE  UNCHANGED Tree!treeVars
    BY <1>8 DEF InitializeGetCurrent, InitializeGet, CheckpointGetCurrent,
       CheckpointGet, ListLayers, GetFutureLayers, DeleteFutureRefused, SwitchGet,
       DeleteGet, DeleteGetCurrent, RecordGetCurrent, RecordGet, RecordAddEntry,
       Crash, tables, Tree!treeVars
  <1>9. CASE Next
    BY <1>1, <1>2, <1>3, <1>4, <1>5, <1>6, <1>7, <1>8, <1>9 DEF Next
  <1>10. CASE UNCHANGED vars
    BY <1>10 DEF vars, Tree!treeVars
  <1> QED BY <1>9, <1>10

\* Every behaviour of the requests is a behaviour of the layer tree.
THEOREM ImplementsLayerTree == Spec => RefinesLayerTree
  BY InitTree, NextTree, SpecIInv, PTL DEF Spec, RefinesLayerTree, Tree!TreeSpec

-----------------------------------------------------------------------------
(* The chain of a layer                                                    *)

\* Chain for any rows V with parents p, and by what function it is defined.
ChainOf(l, V, p) ==
    LET up[k \in 0..MaxLayers] == IF k \in V THEN {k} \cup up[p[k]] ELSE {}
    IN  up[l]

ClimbsBy(u, V, p) ==
    \A k \in 0..MaxLayers : u[k] = IF k \in V THEN {k} \cup u[p[k]] ELSE {}

\* The rows that whoever holds k and the parent of everything it holds must hold:
\* what the recursion computes, said without recursion.
Upward(S, V, p) == \A i \in S \cap V : p[i] \in S

Ancestors(k, V, p) ==
    {j \in V : \A S \in SUBSET (0..MaxLayers) : k \in S /\ Upward(S, V, p) => j \in S}

\* Rows whose parents are older.
Rooted(V, p) ==
    /\ V \subseteq 1..MaxLayers
    /\ \A k \in V : p[k] \in 0..MaxLayers /\ p[k] < k

LEMMA AncestorsStep ==
  ASSUME NEW V, NEW p, Rooted(V, p), NEW k \in 0..MaxLayers
  PROVE  Ancestors(k, V, p) = IF k \in V THEN {k} \cup Ancestors(p[k], V, p) ELSE {}
  <1>1. CASE k \notin V
    <2>1. {k} \in SUBSET (0..MaxLayers) /\ Upward({k}, V, p)
      BY <1>1 DEF Upward
    <2>2. \A j \in Ancestors(k, V, p) : j \in {k} /\ j \in V
      BY <2>1 DEF Ancestors
    <2> QED BY <1>1, <2>2
  <1>2. CASE k \in V
    <2>1. p[k] \in 0..MaxLayers
      BY <1>2 DEF Rooted
    <2>2. k \in Ancestors(k, V, p)
      BY <1>2 DEF Ancestors
    <2>3. ASSUME NEW j \in Ancestors(p[k], V, p) PROVE j \in Ancestors(k, V, p)
      <3>1. ASSUME NEW S \in SUBSET (0..MaxLayers), k \in S, Upward(S, V, p) PROVE j \in S
        <4>1. p[k] \in S
          BY <1>2, <3>1 DEF Upward
        <4> QED BY <3>1, <4>1 DEF Ancestors
      <3> QED BY <3>1 DEF Ancestors
    <2>4. ASSUME NEW j \in Ancestors(k, V, p), j # k PROVE j \in Ancestors(p[k], V, p)
      <3>1. ASSUME NEW S \in SUBSET (0..MaxLayers), p[k] \in S, Upward(S, V, p) PROVE j \in S
        <4>1. PICK T \in SUBSET (0..MaxLayers) : T = S \cup {k}
          OBVIOUS
        <4>2. Upward(T, V, p)
          BY <3>1, <4>1 DEF Upward
        <4>3. j \in T
          BY <4>1, <4>2 DEF Ancestors
        <4> QED BY <2>4, <4>1, <4>3
      <3> QED BY <3>1 DEF Ancestors
    <2> QED BY <1>2, <2>2, <2>3, <2>4
  <1> QED BY <1>1, <1>2

LEMMA SmallestOf ==
  ASSUME NEW S, S \subseteq Nat, S # {}
  PROVE  \E x \in S : \A y \in S : ~(y < x)
  <1>1. PICK R : R = OpToRel(<, Nat)
    OBVIOUS
  <1>2. IsWellFoundedOn(R, Nat)
    BY <1>1, NatLessThanWellFounded
  <1>3. PICK x \in S : \A y \in S : ~(<<y, x>> \in R)
    BY <1>2, WFMin
  <1>4. R = {ss \in Nat \X Nat : ss[1] < ss[2]}
    BY <1>1 DEF OpToRel
  <1>5. ASSUME NEW y \in S, y < x PROVE FALSE
    <2>1. <<y, x>> \in Nat \X Nat
      OBVIOUS
    <2>2. <<y, x>> \in R
      BY <1>4, <1>5, <2>1
    <2> QED BY <1>3, <2>2
  <1> QED BY <1>5

\* The recursion has a solution, and only one.
LEMMA ClimbingDetermined ==
  ASSUME NEW V, NEW p, Rooted(V, p), NEW u, ClimbsBy(u, V, p)
  PROVE  \A k \in 0..MaxLayers : u[k] = Ancestors(k, V, p)
  <1> DEFINE Bad == {k \in 0..MaxLayers : u[k] # Ancestors(k, V, p)}
  <1> SUFFICES ASSUME Bad # {} PROVE FALSE
    OBVIOUS
  <1>1. PICK x \in Bad : \A y \in Bad : ~(y < x)
    <2>1. Bad \subseteq Nat
      BY MaxLayersAssumption
    <2> HIDE DEF Bad
    <2> QED BY <2>1, SmallestOf
  <1>2. x \in 0..MaxLayers /\ u[x] # Ancestors(x, V, p)
    OBVIOUS
  <1>3. u[x] = IF x \in V THEN {x} \cup u[p[x]] ELSE {}
    BY <1>2 DEF ClimbsBy
  <1>4. Ancestors(x, V, p) = IF x \in V THEN {x} \cup Ancestors(p[x], V, p) ELSE {}
    BY <1>2, AncestorsStep
  <1>5. CASE x \in V
    <2>1. p[x] \in 0..MaxLayers /\ p[x] < x
      BY <1>5 DEF Rooted
    <2>2. u[p[x]] = Ancestors(p[x], V, p)
      BY <1>1, <2>1
    <2> QED BY <1>2, <1>3, <1>4, <1>5, <2>2
  <1>6. CASE x \notin V
    BY <1>2, <1>3, <1>4, <1>6
  <1> QED BY <1>5, <1>6

LEMMA ChainComputed ==
  ASSUME NEW V, NEW p, Rooted(V, p), NEW l \in 0..MaxLayers
  PROVE  ChainOf(l, V, p) = Ancestors(l, V, p)
  <1> DEFINE Def(u) == u = [k \in 0..MaxLayers |-> IF k \in V THEN {k} \cup u[p[k]] ELSE {}]
  <1>1. PICK j : j = CHOOSE u : Def(u)
    OBVIOUS
  <1>2. ChainOf(l, V, p) = j[l]
    BY <1>1 DEF ChainOf
  <1>3. PICK w : w = [k \in 0..MaxLayers |-> Ancestors(k, V, p)]
    OBVIOUS
  <1>4. ASSUME NEW k \in 0..MaxLayers
        PROVE  Ancestors(k, V, p) = IF k \in V THEN {k} \cup w[p[k]] ELSE {}
    <2>1. CASE k \in V
      <3>1. w[p[k]] = Ancestors(p[k], V, p)
        BY <1>3, <2>1 DEF Rooted
      <3> QED BY <2>1, <3>1, AncestorsStep
    <2>2. CASE k \notin V
      BY <2>2, AncestorsStep
    <2> QED BY <2>1, <2>2
  <1>5. Def(w)
    BY <1>3, <1>4
  <1>6. Def(j)
    <2> HIDE DEF Def
    <2> QED BY <1>1, <1>5
  <1>7. ClimbsBy(j, V, p)
    BY <1>6 DEF ClimbsBy
  <1> QED BY <1>2, <1>7, ClimbingDetermined

\* Rows that stay, with their parents, keep their ancestors.
LEMMA AncestorsKept ==
  ASSUME NEW V, NEW p, NEW W, NEW q, Rooted(V, p), Rooted(W, q), NEW l \in V \cap W,
         \A i \in V \cap W : q[i] = p[i] /\ p[i] \in (V \cap W) \cup {0}
  PROVE  Ancestors(l, V, p) \subseteq Ancestors(l, W, q)
  <1>1. PICK A : A = (V \cap W) \cup {0}
    OBVIOUS
  <1>2. A \in SUBSET (0..MaxLayers) /\ 0 \notin V /\ l \in A
    BY <1>1, MaxLayersAssumption DEF Rooted
  <1>3. Upward(A, V, p)
    BY <1>1, <1>2 DEF Upward
  <1> SUFFICES ASSUME NEW j \in Ancestors(l, V, p) PROVE j \in Ancestors(l, W, q)
    OBVIOUS
  <1>4. j \in V /\ j \in A
    BY <1>2, <1>3 DEF Ancestors
  <1>5. j \in W
    BY <1>1, <1>2, <1>4
  <1>6. ASSUME NEW S \in SUBSET (0..MaxLayers), l \in S, Upward(S, W, q) PROVE j \in S
    <2>1. PICK T \in SUBSET (0..MaxLayers) : T = S \cap A
      OBVIOUS
    <2>2. Upward(T, V, p)
      BY <1>1, <1>2, <1>6, <2>1 DEF Upward
    <2>3. j \in T
      BY <1>2, <1>6, <2>1, <2>2 DEF Ancestors
    <2> QED BY <2>1, <2>3
  <1> QED BY <1>5, <1>6 DEF Ancestors

\* No statement gives a layer that stays another parent.
LEMMA ParentsKept ==
  ASSUME IInv, [Next]_vars, NEW l \in live \cap live'
  PROVE  parent'[l] = parent[l]
  <1>1. [Tree!TreeNext]_(Tree!treeVars)
    BY NextTree
  <1>2. l \in LayerIds /\ parent \in [LayerIds -> LayerIds \cup {NoLayer}]
    BY DEF IInv, TypeOK
  <1> QED
    BY <1>1, <1>2 DEF Tree!TreeNext, Tree!treeVars, Tree!AddRoot, Tree!AddChild, Tree!Freeze,
       Tree!MoveTo, Tree!RemoveLeaf

LEMMA LayersRooted ==
  ASSUME IInv PROVE Rooted(live, parent)
  BY MaxLayersAssumption DEF IInv, TypeOK, TreeIntact, Rooted, LayerIds, NoLayer

\* Whatever requests overlap or crash, a layer reads through the same ancestors
\* for as long as it exists.
THEOREM ChainsStayFixed == Spec => ChainsFixed
  <1>1. ASSUME IInv, IInv', [Next]_vars, NEW l \in live \cap live'
        PROVE  Chain(l)' = Chain(l)
    <2>1. Rooted(live, parent) /\ l \in 0..MaxLayers
      BY <1>1, LayersRooted, MaxLayersAssumption DEF Rooted
    <2>2. Rooted(live', parent')
      BY <1>1, MaxLayersAssumption DEF IInv, TypeOK, TreeIntact, Rooted, LayerIds, NoLayer
    <2>3. /\ Chain(l) = Ancestors(l, live, parent)
          /\ Chain(l)' = Ancestors(l, live', parent')
      <3>1. Chain(l) = ChainOf(l, live, parent)
        BY DEF Chain, ChainOf
      <3>2. Chain(l)' = ChainOf(l, live', parent')
        BY DEF Chain, ChainOf
      <3> QED BY <2>1, <2>2, <3>1, <3>2, ChainComputed
    <2>4. ASSUME NEW i \in live \cap live'
          PROVE  parent'[i] = parent[i] /\ parent[i] \in (live \cap live') \cup {0}
      <3>1. parent'[i] = parent[i]
        BY <1>1, ParentsKept
      <3>2. parent[i] \in live \cup {0} /\ parent'[i] \in live' \cup {0}
        BY <1>1 DEF IInv, TreeIntact, NoLayer
      <3> QED BY <3>1, <3>2
    <2>5. Ancestors(l, live, parent) \subseteq Ancestors(l, live', parent')
      BY <1>1, <2>1, <2>2, <2>4, AncestorsKept
    <2>6. Ancestors(l, live', parent') \subseteq Ancestors(l, live, parent)
      BY <1>1, <2>1, <2>2, <2>4, AncestorsKept
    <2> QED BY <2>3, <2>5, <2>6
  <1>2. IInv /\ IInv' /\ [Next]_vars => [\A l \in live \cap live' : Chain(l)' = Chain(l)]_vars
    BY <1>1
  <1> QED BY <1>2, SpecIInv, PTL DEF Spec, ChainsFixed
==============================================================================
