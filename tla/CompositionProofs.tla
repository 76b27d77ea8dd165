-------------------------- MODULE CompositionProofs --------------------------
(***************************************************************************)
(* The layer chains of the mounts, for any number of clients, mounts,      *)
(* names and layers. The requests on mount entries and publications touch  *)
(* the chains only in the ways the module MountLayers allows: what is      *)
(* proved of them alone holds of the composed system. Then what the        *)
(* entries and the publications themselves promise, with the inductive     *)
(* invariant it takes: identities are not used twice, so that what a       *)
(* request remembers of a row holds for as long as the row is there.       *)
(***************************************************************************)
EXTENDS Composition, TLAPS

-----------------------------------------------------------------------------
(* The layer chains alone: the specification of MountLayers                *)

\* What a request remembers between its statements: the layer it read or created
\* is of its mount for as long as it is there; the base or the snapshot it is
\* about to build on is not the working layer; the layer it is about to turn into
\* a snapshot is not a base layer.
Remembered(c) ==
    /\ pc[c] # "idle" => of[c] \in Mounts /\ at[c] \in 1..(nextId - 1)
    /\ pc[c] # "idle" /\ at[c] \in live => mount[at[c]] = of[c]
    /\ pc[c] \in {"initial", "create"} => at[c] \notin working
    /\ pc[c] = "update" => as[c] \in Names /\ (at[c] \in live => parent[at[c]] # NoLayer)

IInv == TypeOK /\ OneWorkingLayer /\ SnapshotsClosed
            /\ \A c \in Clients : Remembered(c)

USE DEF LayerIds, NoLayer

\* The first state satisfies the inductive invariant.
LEMMA InitChains == Init => IInv
BY MaxLayersAssumption
   DEF Init, IInv, TypeOK, OneWorkingLayer, SnapshotsClosed, Remembered

\* A step that leaves the tables alone.
LEMMA SameTables ==
    ASSUME TypeOK, OneWorkingLayer, SnapshotsClosed, UNCHANGED table,
           pc' \in [Clients -> {"idle", "initial", "update", "create"}],
           of' \in [Clients -> Mounts \cup {NoMount}],
           at' \in [Clients -> LayerIds \cup {NoLayer}],
           as' \in [Clients -> Names \cup {NoName}]
    PROVE  TypeOK' /\ OneWorkingLayer' /\ SnapshotsClosed'
<1>1. /\ mounts' = mounts /\ used' = used /\ nextId' = nextId /\ live' = live
      /\ mount' = mount /\ parent' = parent /\ name' = name /\ working' = working
  BY DEF table
<1>2. TypeOK'
  BY <1>1, ZenonT(40) DEF TypeOK
<1>3. OneWorkingLayer'
  BY <1>1, Zenon DEF OneWorkingLayer
<1>4. SnapshotsClosed'
  BY <1>1, Zenon DEF SnapshotsClosed, BaseName
<1> QED
  BY <1>2, <1>3, <1>4

\* Inserting a layer that the foreign keys and the unique indexes accept keeps
\* the tables well-typed, and every chain closed.
LEMMA CreateKeeps ==
    ASSUME IInv, nextId \in LayerIds,
           NEW m \in Mounts, NEW p \in LayerIds \cup {NoLayer},
           NEW n \in {BaseName(k) : k \in Mounts} \cup {WorkingName(k) : k \in Mounts},
           NEW w \in BOOLEAN,
           CreateAllowed(m, p, n, w), Create(m, p, n, w),
           IF p = NoLayer THEN n = BaseName(m) /\ w = FALSE
           ELSE p \in 1..(nextId - 1) /\ p \notin working /\ mount[p] = m
    PROVE  /\ mounts' \subseteq used'
           /\ used' \subseteq Mounts
           /\ nextId' \in 1..(MaxLayers + 1)
           /\ live' \subseteq 1..(nextId' - 1)
           /\ mount' \in [LayerIds -> Mounts \cup {NoMount}]
           /\ \A l \in live' : mount'[l] \in mounts'
           /\ parent' \in [LayerIds -> LayerIds \cup {NoLayer}]
           /\ name' \in [LayerIds -> {NoLayerName} \cup {BaseName(k) : k \in Mounts}
                               \cup {WorkingName(k) : k \in Mounts}
                               \cup {SnapshotName(k) : k \in Names}]
           /\ working' \subseteq live'
           /\ \A l, k \in live' :
                 name'[l] = name'[k] /\ Owner[mount'[l]] = Owner[mount'[k]] => l = k
           /\ OneWorkingLayer'
           /\ SnapshotsClosed'
<1>1. TypeOK /\ OneWorkingLayer /\ SnapshotsClosed
  BY DEF IInv
<1>2. nextId \notin live /\ \A l \in live : l # nextId
  BY <1>1, MaxLayersAssumption DEF TypeOK
<1>3. /\ mount'[nextId] = m
      /\ parent'[nextId] = p
      /\ name'[nextId] = n
      /\ \A l \in live : mount'[l] = mount[l] /\ parent'[l] = parent[l] /\ name'[l] = name[l]
  BY <1>1, <1>2, MaxLayersAssumption DEF TypeOK, Create
<1>4. /\ mounts' \subseteq used'
      /\ used' \subseteq Mounts
      /\ nextId' \in 1..(MaxLayers + 1)
      /\ live' \subseteq 1..(nextId' - 1)
      /\ working' \subseteq live'
  BY <1>1, MaxLayersAssumption DEF TypeOK, Create
<1>5. mount' \in [LayerIds -> Mounts \cup {NoMount}] /\ parent' \in [LayerIds -> LayerIds \cup {NoLayer}]
  BY <1>1 DEF TypeOK, Create
<1>6. name' \in [LayerIds -> {NoLayerName} \cup {BaseName(k) : k \in Mounts}
                               \cup {WorkingName(k) : k \in Mounts}
                               \cup {SnapshotName(k) : k \in Names}]
  BY <1>1 DEF TypeOK, Create
<1>7. \A l \in live' : mount'[l] \in mounts'
  BY <1>1, <1>3 DEF TypeOK, Create, CreateAllowed
<1>8. \A l, k \in live' :
         name'[l] = name'[k] /\ Owner[mount'[l]] = Owner[mount'[k]] => l = k
  BY <1>1, <1>3 DEF TypeOK, Create, CreateAllowed
<1>9. OneWorkingLayer'
  BY <1>1, <1>3 DEF TypeOK, OneWorkingLayer, Create, CreateAllowed
<1>10. SnapshotsClosed'
  <2> SUFFICES ASSUME NEW l \in live'
               PROVE  IF parent'[l] = NoLayer
                      THEN name'[l] = BaseName(mount'[l]) /\ l \notin working'
                      ELSE /\ parent'[l] \in live' \ working'
                           /\ parent'[l] < l
                           /\ mount'[parent'[l]] = mount'[l]
    BY DEF SnapshotsClosed, BaseName
  <2>1. CASE l \in live
    BY <1>1, <1>2, <1>3, <2>1, MaxLayersAssumption
       DEF SnapshotsClosed, TypeOK, Create, CreateAllowed, BaseName
  <2>2. CASE l = nextId
    BY <1>1, <1>2, <1>3, <2>2, MaxLayersAssumption
       DEF TypeOK, Create, CreateAllowed, BaseName
  <2> QED
    BY <2>1, <2>2 DEF Create
<1> QED
  BY <1>4, <1>5, <1>6, <1>7, <1>8, <1>9, <1>10

\* No step of one request makes what another one remembers wrong.
LEMMA OthersRemember ==
    ASSUME IInv, NEW c \in Clients,
           pc'[c] = pc[c], of'[c] = of[c], at'[c] = at[c], as'[c] = as[c],
           nextId' \in {nextId, nextId + 1},
           \A l \in live' \cap live : mount'[l] = mount[l] /\ parent'[l] = parent[l],
           live' \cap 1..(nextId - 1) \subseteq live,
           working' \cap 1..(nextId - 1) \subseteq working
    PROVE  Remembered(c)'
<1>1. Remembered(c) /\ nextId \in Nat
  BY DEF IInv, TypeOK
<1>2. ASSUME pc[c] # "idle"
      PROVE  /\ of[c] \in Mounts /\ at[c] \in 1..(nextId - 1) /\ at[c] \in 1..(nextId' - 1)
             /\ at[c] \in live' => at[c] \in live
             /\ at[c] \in working' => at[c] \in working
  BY <1>1, <1>2 DEF Remembered
<1>3. pc[c] \in {"initial", "create", "update"} => pc[c] # "idle"
  OBVIOUS
<1>4. /\ pc'[c] # "idle" => of'[c] \in Mounts /\ at'[c] \in 1..(nextId' - 1)
      /\ pc'[c] # "idle" /\ at'[c] \in live' => mount'[at'[c]] = of'[c]
  BY <1>1, <1>2 DEF Remembered
<1>5. pc'[c] \in {"initial", "create"} => at'[c] \notin working'
  BY <1>1, <1>2, <1>3 DEF Remembered
<1>6. pc'[c] = "update" => as'[c] \in Names /\ (at'[c] \in live' => parent'[at'[c]] # NoLayer)
  BY <1>1, <1>2, <1>3 DEF Remembered
<1> QED
  BY <1>4, <1>5, <1>6 DEF Remembered

\* Every step of a request on a mount's chain keeps the inductive invariant.
LEMMA ChainStepKeeps ==
    ASSUME IInv, NEW c \in Clients, ChainStep(c)
    PROVE  IInv'
<1> USE MaxLayersAssumption
<1>1. /\ TypeOK /\ OneWorkingLayer /\ SnapshotsClosed
      /\ \A d \in Clients : Remembered(d)
  BY DEF IInv
<1>0. live \subseteq LayerIds /\ working \subseteq LayerIds
  BY <1>1 DEF TypeOK
<1>2. ASSUME NEW m \in Mounts, InitialBase(c, m)
      PROVE  IInv'
  <2>1. CreateAllowed(m, NoLayer, BaseName(m), FALSE) /\ Create(m, NoLayer, BaseName(m), FALSE)
    BY <1>2 DEF InitialBase
  <2>2. nextId \in LayerIds
    BY <1>2 DEF InitialBase
  <2>3. /\ pc' \in [Clients -> {"idle", "initial", "update", "create"}]
        /\ of' \in [Clients -> Mounts \cup {NoMount}]
        /\ at' \in [Clients -> LayerIds \cup {NoLayer}]
        /\ as' \in [Clients -> Names \cup {NoName}]
    BY <1>1, <1>2, <2>2 DEF InitialBase, TypeOK
  <2>4. TypeOK' /\ OneWorkingLayer' /\ SnapshotsClosed'
    BY <2>1, <2>2, <2>3, CreateKeeps DEF TypeOK
  <2>5. ASSUME NEW d \in Clients PROVE Remembered(d)'
    <3>1. CASE d = c
      BY <1>1, <1>2, <2>1, <2>2, <3>1 DEF InitialBase, Create, Remembered, TypeOK
    <3>2. CASE d # c
      <4>1. pc'[d] = pc[d] /\ of'[d] = of[d] /\ at'[d] = at[d] /\ as'[d] = as[d]
        BY <1>1, <1>2, <3>2 DEF InitialBase, TypeOK
      <4>2. /\ nextId' = nextId + 1
            /\ live' \cap 1..(nextId - 1) \subseteq live
            /\ working' \cap 1..(nextId - 1) \subseteq working
            /\ \A l \in live' \cap live : mount'[l] = mount[l] /\ parent'[l] = parent[l]
        BY <1>1, <2>1, <2>2 DEF Create, TypeOK
      <4> QED
        BY <4>1, <4>2, OthersRemember
    <3> QED
      BY <3>1, <3>2
  <2> QED
    BY <2>4, <2>5 DEF IInv
<1>3. ASSUME pc[c] \in {"initial", "create"}, nextId \in LayerIds, Return(c),
             IF CreateAllowed(of[c], at[c], WorkingName(of[c]), TRUE)
             THEN Create(of[c], at[c], WorkingName(of[c]), TRUE)
             ELSE UNCHANGED table
      PROVE  IInv'
  <2>1. /\ pc' \in [Clients -> {"idle", "initial", "update", "create"}]
        /\ of' \in [Clients -> Mounts \cup {NoMount}]
        /\ at' \in [Clients -> LayerIds \cup {NoLayer}]
        /\ as' \in [Clients -> Names \cup {NoName}]
        /\ pc'[c] = "idle"
        /\ \A d \in Clients : d # c =>
              pc'[d] = pc[d] /\ of'[d] = of[d] /\ at'[d] = at[d] /\ as'[d] = as[d]
    BY <1>1, <1>3 DEF Return, TypeOK
  <2>2. CASE UNCHANGED table
    <3>1. TypeOK' /\ OneWorkingLayer' /\ SnapshotsClosed'
      <4>1. TypeOK'
        BY <1>1, <2>1, <2>2 DEF TypeOK, table, BaseName
      <4>2. OneWorkingLayer'
        BY <1>1, <2>2 DEF OneWorkingLayer, table
      <4>3. SnapshotsClosed'
        BY <1>1, <2>2 DEF SnapshotsClosed, table
      <4> QED
        BY <4>1, <4>2, <4>3
    <3>2. ASSUME NEW d \in Clients PROVE Remembered(d)'
      BY <1>1, <2>1, <2>2 DEF table, Remembered
    <3> QED
      BY <3>1, <3>2 DEF IInv
  <2>3. CASE /\ CreateAllowed(of[c], at[c], WorkingName(of[c]), TRUE)
             /\ Create(of[c], at[c], WorkingName(of[c]), TRUE)
    <3>0. pc[c] # "idle"
      BY <1>3
    <3>1. /\ of[c] \in Mounts
          /\ at[c] \in 1..(nextId - 1)
          /\ at[c] \in LayerIds
          /\ at[c] # NoLayer
      <4>1. of[c] \in Mounts /\ at[c] \in 1..(nextId - 1)
        BY <1>1, <3>0 DEF Remembered
      <4>2. nextId \in 1..MaxLayers
        BY <1>3
      <4> QED
        BY <4>1, <4>2
    <3>2. at[c] \notin working /\ mount[at[c]] = of[c]
      BY <1>1, <1>3, <2>3, <3>0, <3>1 DEF Remembered, CreateAllowed
    <3>3. TypeOK' /\ OneWorkingLayer' /\ SnapshotsClosed'
      BY <1>3, <2>1, <2>3, <3>1, <3>2, CreateKeeps DEF TypeOK
    <3>4. /\ nextId' = nextId + 1
          /\ live' \cap 1..(nextId - 1) \subseteq live
          /\ working' \cap 1..(nextId - 1) \subseteq working
          /\ \A l \in live' \cap live : mount'[l] = mount[l] /\ parent'[l] = parent[l]
      BY <1>1, <1>3, <2>3 DEF Create, TypeOK
    <3>5. ASSUME NEW d \in Clients PROVE Remembered(d)'
      <4>1. CASE d = c
        BY <2>1, <4>1 DEF Remembered
      <4>2. CASE d # c
        BY <2>1, <3>4, <4>2, OthersRemember
      <4> QED
        BY <4>1, <4>2
    <3> QED
      BY <3>3, <3>5 DEF IInv
  <2> QED
    BY <1>3, <2>2, <2>3
<1>4. ASSUME NEW m \in Mounts, NEW n \in Names, SnapshotGet(c, m, n)
      PROVE  IInv'
  <2>1. PICK l \in working : mount[l] = m /\ at' = [at EXCEPT ![c] = l]
    BY <1>4 DEF SnapshotGet
  <2>2. l \in live /\ l \in LayerIds /\ l \in 1..(nextId - 1) /\ parent[l] # NoLayer
    BY <1>1, <2>1 DEF TypeOK, SnapshotsClosed
  <2>3. UNCHANGED table
    BY <1>4 DEF SnapshotGet
  <2>6. /\ pc' \in [Clients -> {"idle", "initial", "update", "create"}]
        /\ of' \in [Clients -> Mounts \cup {NoMount}]
        /\ at' \in [Clients -> LayerIds \cup {NoLayer}]
        /\ as' \in [Clients -> Names \cup {NoName}]
    BY <1>1, <1>4, <2>1, <2>2 DEF SnapshotGet, TypeOK
  <2>4. TypeOK' /\ OneWorkingLayer' /\ SnapshotsClosed'
    BY <1>1, <2>3, <2>6, SameTables
  <2>5. ASSUME NEW d \in Clients PROVE Remembered(d)'
    BY <1>1, <1>4, <2>1, <2>2, <2>3 DEF SnapshotGet, Remembered, TypeOK, table
  <2> QED
    BY <2>4, <2>5 DEF IInv
<1>5. ASSUME SnapshotUpdate(c)
      PROVE  IInv'
  <2> DEFINE taken == {l \in live \ {at[c]} : /\ name[l] = SnapshotName(as[c])
                                             /\ Owner[mount[l]] = Owner[of[c]]}
  <2>1. pc[c] = "update"
    BY <1>5 DEF SnapshotUpdate
  <2>2. CASE Return(c) /\ UNCHANGED table
    <3>1. TypeOK' /\ OneWorkingLayer' /\ SnapshotsClosed'
      <4>1. /\ pc' \in [Clients -> {"idle", "initial", "update", "create"}]
            /\ of' \in [Clients -> Mounts \cup {NoMount}]
            /\ at' \in [Clients -> LayerIds \cup {NoLayer}]
            /\ as' \in [Clients -> Names \cup {NoName}]
        BY <1>1, <2>2 DEF Return, TypeOK
      <4> QED
        BY <1>1, <2>2, <4>1, SameTables
    <3>2. ASSUME NEW d \in Clients PROVE Remembered(d)'
      BY <1>1, <2>2 DEF Return, table, Remembered, TypeOK
    <3> QED
      BY <3>1, <3>2 DEF IInv
  <2>3. CASE /\ ~(at[c] \in live /\ taken # {})
             /\ working' = working \ {at[c]}
             /\ name' = IF at[c] \in live
                        THEN [name EXCEPT ![at[c]] = SnapshotName(as[c])]
                        ELSE name
             /\ Goto(c, "create", at[c])
             /\ UNCHANGED <<mounts, used, live, mount, parent, nextId>>
    <3>1. as[c] \in Names /\ (at[c] \in live => parent[at[c]] # NoLayer /\ mount[at[c]] = of[c])
      BY <1>1, <2>1 DEF Remembered
    <3>2. name' \in [LayerIds -> {NoLayerName} \cup {BaseName(m) : m \in Mounts}
                               \cup {WorkingName(m) : m \in Mounts}
                               \cup {SnapshotName(n) : n \in Names}]
      BY <1>1, <2>3, <3>1 DEF TypeOK
    <3>3. \A l, k \in live' :
             name'[l] = name'[k] /\ Owner[mount'[l]] = Owner[mount'[k]] => l = k
      <4> SUFFICES ASSUME NEW l \in live, NEW k \in live,
                          name'[l] = name'[k], Owner[mount[l]] = Owner[mount[k]]
                   PROVE  l = k
        BY <2>3
      <4>0. DOMAIN name = LayerIds
        BY <1>1 DEF TypeOK
      <4>1. \A j \in live : j # at[c] => name'[j] = name[j]
        BY <1>0, <2>3, <4>0
      <4>2. at[c] \in live => name'[at[c]] = SnapshotName(as[c])
        BY <1>0, <2>3, <4>0
      <4>5. \A i, j \in live : name[i] = name[j] /\ Owner[mount[i]] = Owner[mount[j]] => i = j
        BY <1>1 DEF TypeOK
      <4>3. CASE at[c] \notin live
        BY <2>3, <4>3, <4>5
      <4>4. CASE at[c] \in live
        <5>1. taken = {} /\ mount[at[c]] = of[c]
          BY <2>3, <3>1, <4>4
        <5>2. \A j \in live : j # at[c] /\ Owner[mount[j]] = Owner[mount[at[c]]]
                                => name'[j] # name'[at[c]]
          BY <4>1, <4>2, <4>4, <5>1
        <5> QED
          BY <4>1, <4>5, <5>2
      <4> QED
        BY <4>3, <4>4
    <3>4. TypeOK'
      BY <1>1, <2>3, <3>2, <3>3 DEF TypeOK, Goto
    <3>5. OneWorkingLayer'
      BY <1>1, <2>3 DEF OneWorkingLayer
    <3>6. SnapshotsClosed'
      <4>1. \A l \in live : parent[l] = NoLayer => name'[l] = name[l]
        BY <1>0, <1>1, <2>3, <3>1 DEF TypeOK
      <4> QED
        BY <1>1, <2>3, <4>1 DEF SnapshotsClosed, BaseName
    <3>7. ASSUME NEW d \in Clients PROVE Remembered(d)'
      BY <1>1, <2>1, <2>3 DEF Remembered, Goto, TypeOK
    <3> QED
      BY <3>4, <3>5, <3>6, <3>7 DEF IInv
  <2> QED
    BY <1>5, <2>2, <2>3 DEF SnapshotUpdate
<1>6. ASSUME Crash(c)
      PROVE  IInv'
  <2>1. TypeOK' /\ OneWorkingLayer' /\ SnapshotsClosed'
    <3>1. /\ pc' \in [Clients -> {"idle", "initial", "update", "create"}]
          /\ of' \in [Clients -> Mounts \cup {NoMount}]
          /\ at' \in [Clients -> LayerIds \cup {NoLayer}]
          /\ as' \in [Clients -> Names \cup {NoName}]
      BY <1>1, <1>6 DEF Crash, Return, TypeOK
    <3>2. UNCHANGED table
      BY <1>6 DEF Crash
    <3> QED
      BY <1>1, <3>1, <3>2, SameTables
  <2>2. ASSUME NEW d \in Clients PROVE Remembered(d)'
    BY <1>1, <1>6 DEF Crash, Return, table, Remembered, TypeOK
  <2> QED
    BY <2>1, <2>2 DEF IInv
<1> QED
  BY <1>2, <1>3, <1>4, <1>5, <1>6 DEF ChainStep, InitialWorking, SnapshotCreate

\* Deleting layers, whole chains or single ones without children, keeps the
\* inductive invariant.
LEMMA DeleteLayersKeeps ==
    ASSUME IInv, NEW S \in SUBSET live, DeleteLayers(S), UNCHANGED local,
           \A l \in live \ S : parent[l] \notin S,
           mounts' \subseteq used', used' \subseteq Mounts,
           \A l \in live \ S : mount[l] \in mounts'
    PROVE  IInv'
<1> USE MaxLayersAssumption
<1>1. /\ TypeOK /\ OneWorkingLayer /\ SnapshotsClosed
      /\ \A d \in Clients : Remembered(d)
  BY DEF IInv
<1>0. live \subseteq LayerIds
  BY <1>1 DEF TypeOK
<1>2. /\ live' = live \ S /\ working' = working \ S /\ nextId' = nextId
      /\ \A l \in live' : mount'[l] = mount[l] /\ parent'[l] = parent[l] /\ name'[l] = name[l]
  BY <1>0 DEF DeleteLayers
<1>3. TypeOK'
  <2>1. mount' \in [LayerIds -> Mounts \cup {NoMount}] /\ parent' \in [LayerIds -> LayerIds \cup {NoLayer}]
    BY <1>1 DEF TypeOK, DeleteLayers
  <2>2. name' \in [LayerIds -> {NoLayerName} \cup {BaseName(m) : m \in Mounts}
                               \cup {WorkingName(m) : m \in Mounts}
                               \cup {SnapshotName(n) : n \in Names}]
    BY <1>1 DEF TypeOK, DeleteLayers
  <2>3. \A l \in live' : mount'[l] \in mounts'
    BY <1>2
  <2>6. \A l, k \in live' :
           name'[l] = name'[k] /\ Owner[mount'[l]] = Owner[mount'[k]] => l = k
    <3>1. \A l, k \in live :
             name[l] = name[k] /\ Owner[mount[l]] = Owner[mount[k]] => l = k
      BY <1>1 DEF TypeOK
    <3> QED
      BY <1>2, <3>1
  <2>4. /\ nextId' \in 1..(MaxLayers + 1)
        /\ live' \subseteq 1..(nextId' - 1)
        /\ working' \subseteq live'
    BY <1>1, <1>2 DEF TypeOK
  <2>5. /\ pc' \in [Clients -> {"idle", "initial", "update", "create"}]
        /\ of' \in [Clients -> Mounts \cup {NoMount}]
        /\ at' \in [Clients -> LayerIds \cup {NoLayer}]
        /\ as' \in [Clients -> Names \cup {NoName}]
    BY <1>1 DEF TypeOK, local
  <2> QED
    BY <2>1, <2>2, <2>3, <2>4, <2>5, <2>6 DEF TypeOK
<1>4. OneWorkingLayer'
  BY <1>1, <1>2 DEF OneWorkingLayer, TypeOK
<1>5. SnapshotsClosed'
  BY <1>1, <1>2 DEF SnapshotsClosed, TypeOK, BaseName
<1>6. ASSUME NEW d \in Clients PROVE Remembered(d)'
  BY <1>1, <1>2 DEF Remembered, local, TypeOK
<1> QED
  BY <1>3, <1>4, <1>5, <1>6 DEF IInv

\* Every step keeps the inductive invariant.
LEMMA NextChains == IInv /\ [Next]_vars => IInv'
<1> SUFFICES ASSUME IInv, [Next]_vars PROVE IInv'
  OBVIOUS
<1>1. /\ TypeOK /\ OneWorkingLayer /\ SnapshotsClosed
      /\ \A d \in Clients : Remembered(d)
  BY DEF IInv
<1>2. ASSUME NEW c \in Clients, ChainStep(c) PROVE IInv'
  BY <1>2, ChainStepKeeps
<1>3. ASSUME NEW old \in SUBSET mounts, NEW new \in SUBSET (Mounts \ used),
             ReplaceMounts(old, new), UNCHANGED local
      PROVE  IInv'
  <2> DEFINE S == {l \in live : mount[l] \in old}
  <2>1. S \in SUBSET live /\ DeleteLayers(S)
    BY <1>3 DEF ReplaceMounts
  <2>2. \A l \in live \ S : parent[l] \notin S
    BY <1>1 DEF SnapshotsClosed, TypeOK
  <2>3. mounts' \subseteq used' /\ used' \subseteq Mounts
    BY <1>1, <1>3 DEF ReplaceMounts, TypeOK
  <2>4. \A l \in live \ S : mount[l] \in mounts'
    BY <1>1, <1>3 DEF ReplaceMounts, TypeOK
  <2> HIDE DEF S
  <2> QED
    BY <1>3, <2>1, <2>2, <2>3, <2>4, DeleteLayersKeeps
<1>4. ASSUME NEW l \in LayerIds, DeleteLayer(l), UNCHANGED local
      PROVE  IInv'
  BY <1>1, <1>4, DeleteLayersKeeps DEF DeleteLayer, TypeOK
<1>5. CASE UNCHANGED vars
  <2>1. TypeOK' /\ OneWorkingLayer' /\ SnapshotsClosed'
    <3>1. /\ pc' \in [Clients -> {"idle", "initial", "update", "create"}]
          /\ of' \in [Clients -> Mounts \cup {NoMount}]
          /\ at' \in [Clients -> LayerIds \cup {NoLayer}]
          /\ as' \in [Clients -> Names \cup {NoName}]
      BY <1>1, <1>5 DEF vars, TypeOK
    <3>2. UNCHANGED table
      BY <1>5 DEF vars, table
    <3> QED
      BY <1>1, <3>1, <3>2, SameTables
  <2>2. ASSUME NEW d \in Clients PROVE Remembered(d)'
    BY <1>1, <1>5 DEF vars, Remembered
  <2> QED
    BY <2>1, <2>2 DEF IInv
<1> QED
  BY <1>2, <1>3, <1>4, <1>5 DEF Next

\* The inductive invariant holds in every reachable state.
LEMMA SpecChains == Spec => []IInv
BY InitChains, NextChains, PTL DEF Spec

\* The rows of mount_entries and layers and the locals of create_initial_layers
\* and create_snapshot stay well-typed, and the names of a tenant's layers
\* different, for any number of clients and mounts.
THEOREM ChainsTypeCorrect == Spec => []TypeOK
<1>1. IInv => TypeOK
  BY DEF IInv
<1> QED
  BY <1>1, SpecChains, PTL

\* A mount never has two working layers, and no layer that another builds on is
\* written: for any number of overlapping initialisations, snapshots, crashes and
\* deletions.
THEOREM ChainsStayIntact == Spec => []ChainsIntact
<1>1. IInv => ChainsIntact
  BY DEF IInv, ChainsIntact
<1> QED
  BY <1>1, SpecChains, PTL

\* What a step may do to a layer that stays and is not the working layer: give it
\* another name, when a snapshot that holds it as its working layer updates it.
FinalStep ==
    \A l \in (live \cap live') \ working :
        /\ l \notin working'
        /\ mount'[l] = mount[l] /\ parent'[l] = parent[l]
        /\ name'[l] # name[l] => \E c \in Clients : pc[c] = "update" /\ at[c] = l

\* A row that is inserted has a new identity, a row that is deleted does not stay,
\* and the UPDATE of create_snapshot only takes the working mark away.
LEMMA SnapshotsKept == IInv /\ [Next]_vars => FinalStep
<1> SUFFICES ASSUME IInv, [Next]_vars PROVE FinalStep
  OBVIOUS
<1>1. /\ nextId \notin live /\ live \subseteq LayerIds
      /\ mount \in [LayerIds -> Mounts \cup {NoMount}]
      /\ parent \in [LayerIds -> LayerIds \cup {NoLayer}]
      /\ DOMAIN name = LayerIds
  <2>1. /\ nextId \in 1..(MaxLayers + 1) /\ live \subseteq 1..(nextId - 1)
        /\ mount \in [LayerIds -> Mounts \cup {NoMount}]
        /\ parent \in [LayerIds -> LayerIds \cup {NoLayer}]
        /\ DOMAIN name = LayerIds
    BY DEF IInv, TypeOK
  <2> QED
    BY <2>1, MaxLayersAssumption
<1>2. ASSUME NEW S, DeleteLayers(S) PROVE FinalStep
  BY <1>1, <1>2 DEF DeleteLayers, FinalStep
<1>3. ASSUME NEW m, NEW p, NEW n, NEW w, Create(m, p, n, w) PROVE FinalStep
  BY <1>1, <1>3 DEF Create, FinalStep
<1>4. ASSUME UNCHANGED <<live, mount, parent, name, working>> PROVE FinalStep
  BY <1>4 DEF FinalStep
<1>5. ASSUME NEW c \in Clients, SnapshotUpdate(c) PROVE FinalStep
  <2>1. CASE UNCHANGED table
    BY <1>4, <2>1 DEF table
  <2>2. CASE /\ working' = working \ {at[c]}
             /\ name' = IF at[c] \in live
                        THEN [name EXCEPT ![at[c]] = SnapshotName(as[c])] ELSE name
             /\ UNCHANGED <<mounts, used, live, mount, parent, nextId>>
    <3>1. pc[c] = "update"
      BY <1>5 DEF SnapshotUpdate
    <3>2. ASSUME NEW l \in live, l # at[c] PROVE name'[l] = name[l]
      BY <1>1, <2>2, <3>2
    <3> QED
      BY <2>2, <3>1, <3>2 DEF FinalStep
  <2> QED
    BY <1>5, <2>1, <2>2 DEF SnapshotUpdate
<1>6. ASSUME NEW c \in Clients, ChainStep(c)
      PROVE  \/ \E m, p, n, w : Create(m, p, n, w)
             \/ SnapshotUpdate(c)
             \/ UNCHANGED <<live, mount, parent, name, working>>
  BY <1>6 DEF ChainStep, InitialBase, InitialWorking, SnapshotGet, SnapshotCreate, Crash, table
<1>7. CASE \E c \in Clients : ChainStep(c)
  BY <1>3, <1>4, <1>5, <1>6, <1>7
<1>8. CASE \E old \in SUBSET mounts, new \in SUBSET (Mounts \ used) :
             ReplaceMounts(old, new) /\ UNCHANGED local
  BY <1>2, <1>8 DEF ReplaceMounts
<1>9. CASE \E l \in LayerIds : DeleteLayer(l) /\ UNCHANGED local
  BY <1>2, <1>9 DEF DeleteLayer
<1>10. CASE UNCHANGED vars
  BY <1>4, <1>10 DEF vars
<1> QED
  BY <1>7, <1>8, <1>9, <1>10 DEF Next

\* A snapshot is final: create_snapshot, create_initial_layers and the deletions,
\* overlapping, refused or cut off by a crash, never make a closed layer the
\* working layer again nor hang it elsewhere, for any number of clients, mounts
\* and layers. Its name can still change, by a snapshot that had read the layer
\* before it was closed (the lost update of storage/layer.rs).
THEOREM SnapshotsStayFinal == Spec => SnapshotsFinal
<1>1. IInv /\ [Next]_vars => [FinalStep]_vars
  BY SnapshotsKept
<1> QED
  BY <1>1, SpecChains, PTL DEF Spec, SnapshotsFinal, FinalStep

HIDE DEF LayerIds, NoLayer

-----------------------------------------------------------------------------
(* The composed system                                                     *)

\* A step of the composed system is a step of the layer chains, or leaves them.
LEMMA StepOfChains == [CompositionNext]_compositionVars => [Next]_vars
<1> SUFFICES ASSUME [CompositionNext]_compositionVars PROVE [Next]_vars
  OBVIOUS
<1>1. ASSUME NEW old, NEW new, ReplaceEntries(old, new), UNCHANGED local
      PROVE  Next
  BY <1>1 DEF Next, ReplaceEntries, ReplaceMounts
<1>2. ASSUME NEW c \in Clients, NEW m \in Mounts, CreateInsert(c, m) PROVE Next
  BY <1>1, <1>2 DEF CreateInsert
<1>3. ASSUME NEW c \in Clients, NEW new, SetCommit(c, new) PROVE Next
  BY <1>1, <1>3 DEF SetCommit
<1>4. ASSUME NEW m \in Mounts, DeleteEntry(m) PROVE Next
  BY <1>1, <1>4 DEF DeleteEntry
<1>5. ASSUME NEW c \in Clients, LayerStep(c) PROVE Next
  BY <1>5 DEF LayerStep, Next
<1>6. ASSUME NEW l \in LayerIds, DropLayer(l) PROVE Next
  BY <1>6 DEF DropLayer, Next
<1>7. ASSUME NEW p \in published, NEW scope, SetScope(p, scope) PROVE UNCHANGED vars
  BY <1>7 DEF SetScope
<1>8. ASSUME NEW p \in published,
             \/ Unpublish(p) \/ UpdatePublish(p)
             \/ \E t \in Tenants \ {p.owner} : AddAllowedTenant(p, t)
             \/ \E t \in p.scope.tenants : RemoveAllowedTenant(p, t)
      PROVE  UNCHANGED vars
  BY <1>7, <1>8 DEF Unpublish, UpdatePublish, AddAllowedTenant, RemoveAllowedTenant
<1>9. ASSUME NEW c \in Clients,
             \/ \E t \in Owners, r \in Requests : CreateCheck(c, t, r)
             \/ \E t \in Owners : SetBegin(c, t)
             \/ \E m \in mounts, n \in PublishNames : PublishCheck(c, m, n)
             \/ \E t \in Owners, target \in {WorkingTarget} \cup Created :
                    \E scope \in Scopes(t) : PublishInsert(c, target, scope)
             \/ \E n \in PublishNames, t \in Tenants : ResolveCheck(c, n, t)
             \/ ResolveRead(c)
             \/ Leave(c)
      PROVE  UNCHANGED vars
  BY <1>9 DEF CreateCheck, SetBegin, PublishCheck, PublishInsert, ResolveCheck,
              ResolveRead, Leave
<1>10. CASE UNCHANGED compositionVars
  BY <1>10 DEF compositionVars
<1>11. CASE CompositionNext
  BY <1>2, <1>3, <1>4, <1>5, <1>6, <1>8, <1>9, <1>11 DEF CompositionNext
<1> QED
  BY <1>10, <1>11

\* Mount entries and publications, created, replaced, published and deleted by
\* any number of clients, use the layer chains as the module MountLayers says.
THEOREM CompositionUsesChains == CompositionSpec => Spec
<1>1. CompositionInit => Init
  BY DEF CompositionInit
<1> QED
  BY <1>1, StepOfChains, PTL DEF CompositionSpec, Spec

\* In the composed system, too, a mount never has two working layers and no layer
\* that another builds on is written.
THEOREM ComposedChainsStayIntact == CompositionSpec => []ChainsIntact
  BY CompositionUsesChains, ChainsStayIntact, PTL

\* In the composed system, too, a snapshot is final: replacing, publishing and
\* deleting mount entries does not reopen it.
THEOREM ComposedSnapshotsStayFinal == CompositionSpec => SnapshotsFinal
  BY CompositionUsesChains, SnapshotsStayFinal, PTL

\* In the composed system, too, the tables of the layer chains stay well-typed
\* and the names of a tenant's layers different.
THEOREM ComposedChainsTypeCorrect == CompositionSpec => []TypeOK
  BY CompositionUsesChains, ChainsTypeCorrect, PTL

-----------------------------------------------------------------------------
(* What the tables and the requests hold                                   *)

EntryRow ==
    [owner : Tenants, path : {s.path : s \in Shapes}, file : {s.file : s \in Shapes},
     kind : Kinds, source : Mounts \cup {NoMount}, seen : SUBSET Mounts]

Scope == [public : BOOLEAN, tenants : SUBSET Tenants]

PublishedRow ==
    [mount : Mounts, owner : Tenants, name : PublishNames,
     target : LayerIds \cup {NoLayer}, scope : Scope]

Resolving ==
    [do : {"resolve"}, tenant : Tenants, name : PublishNames, disturbed : BOOLEAN]

Jobs ==
    {Idle}
    \cup [do : {"insert"}, row : EntryRow]
    \cup [do : {"set"}, owner : Tenants, doomed : SUBSET Mounts]
    \cup [do : {"publish"}, mount : Mounts, name : PublishNames]
    \cup Resolving
    \cup [do : {"resolved"}, disturbed : BOOLEAN, inScope : BOOLEAN]

\* A row of mount_entries is its owner's, and saw only rows that were there
\* before it; no two of a tenant have the same text for a path.
EntriesSound ==
    /\ entry \in [Mounts -> EntryRow \cup {Idle}]
    /\ \A m \in mounts :
        entry[m] \in EntryRow /\ entry[m].owner = Owner[m] /\ entry[m].seen \subseteq used
    /\ \A m, k \in mounts :
        Owner[m] = Owner[k] /\ entry[m].path = entry[k].path => m = k

PublishedTyped == published \subseteq PublishedRow

\* The row a creation is about to insert is in conflict with none of the rows it
\* has seen that are still there; the mount a publication has checked is of kind
\* working_layer for as long as it is there; what a resolution has checked still
\* gives access, unless the publication has changed.
Expects(c) ==
    /\ job[c].do = "insert" =>
         /\ job[c].row.seen \subseteq used
         /\ \A m \in job[c].row.seen \cap mounts : ~Conflict(job[c].row, entry[m])
    /\ job[c].do = "publish" =>
         /\ job[c].mount \in used
         /\ job[c].mount \in mounts => entry[job[c].mount].kind = "working_layer"
    /\ job[c].do = "resolve" /\ ~job[c].disturbed =>
         \E p \in published : p.name = job[c].name /\ Accessible(p, job[c].tenant)

RequestsSound == job \in [Clients -> Jobs] /\ \A c \in Clients : Expects(c)

CompositionInv ==
    /\ IInv
    /\ EntriesSound
    /\ NestedOnlyUnseen
    /\ PublishedTyped
    /\ PublicationsSound
    /\ RequestsSound
    /\ ResolvedInScope

USE DEF LayerIds, NoLayer

\* What a step may do to the rows of mount_entries that were there: delete them.
EntriesStay ==
    /\ used \subseteq used'
    /\ \A m \in mounts' : m \in used =>
        /\ m \in mounts
        /\ entry'[m].owner = entry[m].owner
        /\ entry'[m].path = entry[m].path
        /\ entry'[m].file = entry[m].file
        /\ entry'[m].kind = entry[m].kind

\* Two rows that are in conflict stay in conflict: it is a matter of their paths
\* and of what is mounted there, and both ways round.
LEMMA ConflictOfRows ==
    ASSUME NEW a, NEW b, NEW x, NEW y,
           a.path = x.path, a.file = x.file, b.path = y.path, b.file = y.file
    PROVE  /\ Conflict(a, b) = Conflict(x, y)
           /\ Conflict(a, b) = Conflict(b, a)
BY DEF Conflict, SamePath, StartsWith

\* Replacing rows of mount_entries by new ones that do not have the path of a row
\* that stays, nor are in conflict with each other or with one they have seen.
LEMMA ReplaceEntriesKeeps ==
    ASSUME CompositionInv, NEW old, NEW new, ReplaceEntries(old, new),
           \A m \in DOMAIN new :
               /\ new[m] \in EntryRow
               /\ new[m].owner = Owner[m]
               /\ new[m].seen \subseteq used \cup DOMAIN new
               /\ \A k \in DOMAIN new : m # k => ~Conflict(new[m], new[k])
               /\ \A k \in mounts \ old :
                   /\ Owner[k] = Owner[m] => entry[k].path # new[m].path
                   /\ k \in new[m].seen => ~Conflict(new[m], entry[k])
    PROVE  EntriesSound' /\ NestedOnlyUnseen' /\ EntriesStay
<1> DEFINE ids == DOMAIN new
<1>1. /\ EntriesSound /\ NestedOnlyUnseen
      /\ mounts \subseteq used /\ used \subseteq Mounts
  BY DEF CompositionInv, IInv, TypeOK
<1>2. /\ old \subseteq mounts /\ ids \subseteq Mounts /\ ids \cap used = {}
      /\ mounts' = (mounts \ old) \cup ids
      /\ used' = used \cup ids
  BY DEF ReplaceEntries, ReplaceMounts
<1>3. \A m \in ids : entry'[m] = new[m]
  BY <1>1, <1>2 DEF ReplaceEntries
<1>4. ASSUME NEW m \in mounts \ old
      PROVE  /\ entry'[m] = [entry[m] EXCEPT !.seen = @ \ old]
             /\ m \notin ids /\ m \in Mounts /\ entry[m] \in EntryRow
  BY <1>1, <1>2, <1>4 DEF ReplaceEntries, EntriesSound
<1>5. ASSUME NEW m \in mounts \ old
      PROVE  /\ entry'[m] \in EntryRow
             /\ entry'[m].owner = entry[m].owner
             /\ entry'[m].path = entry[m].path
             /\ entry'[m].file = entry[m].file
             /\ entry'[m].kind = entry[m].kind
             /\ entry'[m].seen = entry[m].seen \ old
  <2>1. PICK r \in EntryRow : entry[m] = r /\ entry'[m] = [r EXCEPT !.seen = r.seen \ old]
    BY <1>4, <1>5
  <2>2. r.seen \ old \in SUBSET Mounts
    BY <2>1 DEF EntryRow
  <2> QED
    BY <2>1, <2>2 DEF EntryRow
<1>6. ASSUME NEW m \in Mounts, m \notin ids, m \notin mounts \ old
      PROVE  entry'[m] = Idle
  BY <1>6 DEF ReplaceEntries
<1>7. entry' \in [Mounts -> EntryRow \cup {Idle}]
  <2>1. entry' = [m \in Mounts |-> entry'[m]]
    BY DEF ReplaceEntries
  <2>2. \A m \in Mounts : entry'[m] \in EntryRow \cup {Idle}
    BY <1>3, <1>5, <1>6
  <2> QED
    BY <2>1, <2>2
<1>8. ASSUME NEW m \in mounts'
      PROVE  entry'[m] \in EntryRow /\ entry'[m].owner = Owner[m] /\ entry'[m].seen \subseteq used'
  BY <1>1, <1>2, <1>3, <1>5 DEF EntriesSound
<1>9. ASSUME NEW m \in mounts', NEW k \in mounts', m # k, Owner[m] = Owner[k]
      PROVE  entry'[m].path # entry'[k].path
  <2>1. CASE m \in ids /\ k \in ids
    BY <1>3, <1>9, <2>1 DEF Conflict, SamePath
  <2>2. CASE m \in ids /\ k \notin ids
    BY <1>2, <1>3, <1>5, <1>9, <2>2
  <2>3. CASE m \notin ids /\ k \in ids
    BY <1>2, <1>3, <1>5, <1>9, <2>3
  <2>4. CASE m \notin ids /\ k \notin ids
    BY <1>1, <1>2, <1>5, <1>9, <2>4 DEF EntriesSound
  <2> QED
    BY <2>1, <2>2, <2>3, <2>4
<1>10. ASSUME NEW m \in mounts', NEW k \in mounts', m # k, Owner[m] = Owner[k],
              Conflict(entry'[m], entry'[k])
       PROVE  k \notin entry'[m].seen
  <2>1. CASE m \in ids /\ k \in ids
    BY <1>3, <1>10, <2>1
  <2>2. CASE m \in ids /\ k \notin ids
    <3>1. k \in mounts \ old /\ Conflict(new[m], entry'[k]) = Conflict(new[m], entry[k])
      BY <1>2, <1>5, <2>2, ConflictOfRows
    <3> QED
      BY <1>3, <1>10, <2>2, <3>1
  <2>3. CASE m \notin ids /\ k \in ids
    BY <1>1, <1>2, <1>5, <2>3 DEF EntriesSound
  <2>4. CASE m \notin ids /\ k \notin ids
    <3>1. /\ m \in mounts \ old /\ k \in mounts \ old
          /\ Conflict(entry'[m], entry'[k]) = Conflict(entry[m], entry[k])
      BY <1>2, <1>5, <2>4, ConflictOfRows
    <3> QED
      BY <1>1, <1>5, <1>10, <3>1 DEF NestedOnlyUnseen
  <2> QED
    BY <2>1, <2>2, <2>3, <2>4
<1>11. EntriesSound'
  BY <1>7, <1>8, <1>9 DEF EntriesSound
<1>12. NestedOnlyUnseen'
  <2> SUFFICES ASSUME NEW m \in mounts', NEW k \in mounts', m # k, Owner[m] = Owner[k],
                      Conflict(entry'[m], entry'[k])
               PROVE  k \notin entry'[m].seen /\ m \notin entry'[k].seen
    BY DEF NestedOnlyUnseen, Conflict, SamePath, StartsWith
  <2>1. Conflict(entry'[k], entry'[m])
    BY ConflictOfRows
  <2> QED
    BY <1>10, <2>1
<1>13. EntriesStay
  BY <1>2, <1>5 DEF EntriesStay
<1> QED
  BY <1>11, <1>12, <1>13

\* A request that a step leaves alone, or a resolution that it disturbs, expects
\* nothing that the step has made wrong.
LEMMA RequestKept ==
    ASSUME CompositionInv, EntriesStay, NEW c \in Clients,
           \/ /\ job'[c] = job[c]
              /\ job[c].do = "resolve" =>
                   {p \in published' : p.name = job[c].name}
                     = {p \in published : p.name = job[c].name}
           \/ /\ job[c].do = "resolve"
              /\ job'[c] = [job[c] EXCEPT !.disturbed = TRUE]
    PROVE  job'[c] \in Jobs /\ Expects(c)'
<1>1. /\ RequestsSound /\ Expects(c) /\ job[c] \in Jobs
      /\ mounts \subseteq used
  BY DEF CompositionInv, RequestsSound, IInv, TypeOK
<1>2. CASE job'[c] = [job[c] EXCEPT !.disturbed = TRUE] /\ job[c].do = "resolve"
  <2>1. job[c] \in Resolving
    BY <1>1, <1>2 DEF Jobs, Idle
  <2>2. job'[c] \in Resolving /\ job'[c].do = "resolve" /\ job'[c].disturbed
    BY <1>2, <2>1 DEF Resolving
  <2> QED
    BY <2>2 DEF Jobs, Expects
<1>3. CASE /\ job'[c] = job[c]
           /\ job[c].do = "resolve" =>
                {p \in published' : p.name = job[c].name}
                  = {p \in published : p.name = job[c].name}
  <2>1. ASSUME job[c].do = "insert"
        PROVE  /\ job[c].row.seen \subseteq used'
               /\ \A m \in job[c].row.seen \cap mounts' : ~Conflict(job[c].row, entry'[m])
    <3>1. job[c].row.seen \subseteq used'
      BY <1>1, <2>1 DEF Expects, EntriesStay
    <3>2. ASSUME NEW m \in job[c].row.seen \cap mounts'
          PROVE  ~Conflict(job[c].row, entry'[m])
      <4>1. m \in used
        BY <1>1, <2>1 DEF Expects
      <4>2. m \in mounts /\ entry'[m].path = entry[m].path /\ entry'[m].file = entry[m].file
        BY <4>1 DEF EntriesStay
      <4>3. Conflict(job[c].row, entry'[m]) = Conflict(job[c].row, entry[m])
        BY <4>2, ConflictOfRows
      <4> QED
        BY <1>1, <2>1, <4>2, <4>3 DEF Expects
    <3> QED
      BY <3>1, <3>2
  <2>2. ASSUME job[c].do = "publish"
        PROVE  /\ job[c].mount \in used'
               /\ job[c].mount \in mounts' => entry'[job[c].mount].kind = "working_layer"
    BY <1>1, <2>2 DEF Expects, EntriesStay
  <2>3. ASSUME job[c].do = "resolve", ~job[c].disturbed
        PROVE  \E p \in published' : p.name = job[c].name /\ Accessible(p, job[c].tenant)
    BY <1>1, <1>3, <2>3 DEF Expects
  <2> QED
    BY <1>1, <1>3, <2>1, <2>2, <2>3 DEF Expects, Accessible
<1> QED
  BY <1>2, <1>3

\* Any change of the publications: a resolution of a name whose row changes is
\* told, the other requests go on as jobs says.
LEMMA PublicationsKeep ==
    ASSUME CompositionInv, EntriesStay, NEW new, NEW jobs, Publications(new, jobs),
           NEW d, jobs = [job EXCEPT ![d] = Idle] \/ jobs = job
    PROVE  RequestsSound' /\ ResolvedInScope'
<1>1. job \in [Clients -> Jobs] /\ ResolvedInScope
  BY DEF CompositionInv, RequestsSound
<1>2. job' = [c \in Clients |-> job'[c]]
  BY DEF Publications
<1>3. ASSUME NEW c \in Clients
      PROVE  /\ job'[c] \in Jobs /\ Expects(c)'
             /\ job'[c].do = "resolved" /\ ~job'[c].disturbed => job'[c].inScope
  <2>1. jobs[c] = Idle \/ jobs[c] = job[c]
    BY <1>1
  <2>2. CASE jobs[c] = Idle
    <3>1. job'[c] = Idle
      BY <2>2 DEF Publications, Idle
    <3> QED
      BY <3>1 DEF Jobs, Expects, Idle
  <2>3. CASE jobs[c] = job[c]
    <3> DEFINE same == {p \in published' : p.name = job[c].name}
                         = {p \in published : p.name = job[c].name}
    <3>1. job'[c] = IF job[c].do = "resolve" /\ ~same
                    THEN [job[c] EXCEPT !.disturbed = TRUE] ELSE job[c]
      BY <2>3 DEF Publications
    <3>2. CASE job[c].do = "resolve" /\ ~same
      <4>1. job'[c] \in Jobs /\ Expects(c)'
        BY <3>1, <3>2, RequestKept
      <4>2. job[c] \in Resolving
        BY <1>1, <3>2 DEF Jobs, Idle
      <4>3. job'[c].do = "resolve"
        BY <3>1, <3>2, <4>2 DEF Resolving
      <4> QED
        BY <4>1, <4>3
    <3>3. CASE ~(job[c].do = "resolve" /\ ~same)
      <4>1. job'[c] = job[c] /\ (job[c].do = "resolve" => same)
        BY <3>1, <3>3
      <4>2. job'[c] \in Jobs /\ Expects(c)'
        BY <4>1, RequestKept
      <4> QED
        BY <1>1, <4>1, <4>2 DEF ResolvedInScope
    <3> QED
      BY <3>2, <3>3
  <2> QED
    BY <2>1, <2>2, <2>3
<1>4. job' \in [Clients -> Jobs]
  BY <1>2, <1>3
<1> QED
  BY <1>3, <1>4 DEF RequestsSound, ResolvedInScope

\* One request goes on and the publications are left alone.
LEMMA RequestStep ==
    ASSUME CompositionInv, EntriesStay, UNCHANGED published,
           NEW c \in Clients, NEW what \in Jobs, Do(c, what), Expects(c)',
           what.do = "resolved" /\ ~what.disturbed => what.inScope
    PROVE  RequestsSound' /\ ResolvedInScope'
<1>1. job \in [Clients -> Jobs] /\ ResolvedInScope
  BY DEF CompositionInv, RequestsSound
<1>2. job'[c] = what /\ \A d \in Clients \ {c} : job'[d] = job[d]
  BY <1>1 DEF Do
<1>3. job' \in [Clients -> Jobs]
  BY <1>1 DEF Do
<1>4. ASSUME NEW d \in Clients \ {c} PROVE Expects(d)'
  BY <1>2, RequestKept
<1> QED
  BY <1>1, <1>2, <1>3, <1>4 DEF RequestsSound, ResolvedInScope

\* A publication goes with its mount, and nothing else of it changes.
LEMMA SurvivingKeep ==
    ASSUME CompositionInv, EntriesStay, NEW old, mounts \ old \subseteq mounts',
           published' = Surviving(old)
    PROVE  PublishedTyped' /\ PublicationsSound'
<1>1. PublicationsSound /\ PublishedTyped /\ mounts \subseteq used
  BY DEF CompositionInv, IInv, TypeOK
<1>2. published' \subseteq published /\ \A p \in published' : p.mount \notin old
  BY DEF Surviving
<1>3. ASSUME NEW p \in published'
      PROVE  /\ \A q \in published' : p.name = q.name \/ p.mount = q.mount => p = q
             /\ p.mount \in mounts'
             /\ entry'[p.mount].kind = "working_layer"
             /\ p.owner = entry'[p.mount].owner
  <2>1. p \in published /\ p.mount \in mounts' /\ p.mount \in used
    BY <1>1, <1>2 DEF PublicationsSound
  <2> QED
    BY <1>1, <1>2, <2>1 DEF PublicationsSound, EntriesStay
<1> QED
  BY <1>1, <1>2, <1>3 DEF PublishedTyped, PublicationsSound

\* A step that leaves mount_entries alone keeps what is said of its rows, and what
\* is said of the publications when it leaves them alone as well.
LEMMA RowsUnchanged ==
    ASSUME CompositionInv, UNCHANGED <<mounts, used, entry>>
    PROVE  /\ EntriesStay /\ EntriesSound' /\ NestedOnlyUnseen'
           /\ UNCHANGED published => PublishedTyped' /\ PublicationsSound'
<1>1. EntriesSound /\ NestedOnlyUnseen
  BY DEF CompositionInv
<1>2. EntriesStay
  BY DEF EntriesStay
<1>3. EntriesSound' /\ NestedOnlyUnseen'
  BY <1>1 DEF EntriesSound, NestedOnlyUnseen, Conflict, SamePath, StartsWith
<1>4. ASSUME UNCHANGED published PROVE published' = Surviving({}) /\ mounts \ {} \subseteq mounts'
  BY <1>4 DEF Surviving
<1> QED
  BY <1>2, <1>3, <1>4, SurvivingKeep

\* What a user asks for makes a well-typed row.
LEMMA RowOfRequest ==
    ASSUME CompositionInv, NEW t \in Tenants, NEW r \in Requests, NEW seen \in SUBSET Mounts
    PROVE  /\ Row(t, r, seen) \in EntryRow
           /\ Row(t, r, seen).owner = t /\ Row(t, r, seen).seen = seen
           /\ Row(t, r, seen).path = r.path /\ Row(t, r, seen).file = r.file
           /\ Row(t, r, seen).source = r.source
<1>1. mounts \subseteq Mounts
  BY DEF CompositionInv, IInv, TypeOK
<1>2. /\ r.path \in {s.path : s \in Shapes} /\ r.file \in {s.file : s \in Shapes}
      /\ r.kind \in Kinds /\ r.source \in Mounts \cup {NoMount}
  <2>1. CASE \E s \in Shapes, m \in mounts :
               r = [path |-> s.path, file |-> s.file, kind |-> s.kind, source |-> m]
    BY <1>1, <2>1, CompositionAssumption
  <2>2. CASE \E s \in Shapes :
               r = [path |-> s.path, file |-> s.file, kind |-> s.kind, source |-> NoMount]
    BY <2>2, CompositionAssumption
  <2> QED
    BY <2>1, <2>2 DEF Requests
<1> QED
  BY <1>2 DEF Row, EntryRow

\* create_mount_entry: the validation against the entries that are listed.
LEMMA CreateCheckKeeps ==
    ASSUME CompositionInv, NEW c \in Clients, NEW t \in Owners, NEW r \in Requests,
           CreateCheck(c, t, r)
    PROVE  RequestsSound' /\ ResolvedInScope'
<1> DEFINE row == Row(t, r, EntriesOf(t))
           what == [do |-> "insert", row |-> row]
<1>1. job \in [Clients -> Jobs] /\ mounts \subseteq used /\ used \subseteq Mounts /\ t \in Tenants
  BY CompositionAssumption DEF CompositionInv, RequestsSound, IInv, TypeOK, Owners
<1>2. EntriesOf(t) \subseteq mounts
  BY DEF EntriesOf
<1>3. /\ row \in EntryRow /\ row.seen = EntriesOf(t)
      /\ row.path = r.path /\ row.file = r.file
  BY <1>1, <1>2, RowOfRequest
<1>4. UNCHANGED <<mounts, used, entry, published>> /\ EntriesStay
  BY DEF CreateCheck, vars, EntriesStay
<1>5. ASSUME NEW m \in EntriesOf(t) PROVE ~Conflict(row, entry[m])
  <2>1. Conflict(row, entry[m]) = Conflict(r, entry[m])
    BY <1>3, ConflictOfRows
  <2> QED
    BY <2>1 DEF CreateCheck
<1> HIDE DEF row
<1>6. what \in Jobs /\ what.do = "insert" /\ what.row = row
  BY <1>3 DEF Jobs
<1>7. Do(c, what) /\ job'[c] = what
  BY <1>1 DEF CreateCheck, Do, row
<1>8. Expects(c)'
  BY <1>1, <1>2, <1>3, <1>4, <1>5, <1>6, <1>7 DEF Expects
<1> HIDE DEF what
<1> QED
  BY <1>4, <1>6, <1>7, <1>8, RequestStep

\* The other requests that only read: the first statement of a replacement, of a
\* publication and of a resolution, the second of a resolution, and the return.
LEMMA ReadersKeep ==
    ASSUME CompositionInv, NEW c \in Clients,
           \/ \E t \in Owners : SetBegin(c, t)
           \/ \E m \in mounts, n \in PublishNames : PublishCheck(c, m, n)
           \/ \E n \in PublishNames, t \in Tenants : ResolveCheck(c, n, t)
           \/ ResolveRead(c)
           \/ Leave(c)
    PROVE  RequestsSound' /\ ResolvedInScope'
<1>1. /\ job \in [Clients -> Jobs] /\ mounts \subseteq used /\ used \subseteq Mounts
      /\ RequestsSound /\ PublicationsSound
  BY DEF CompositionInv, RequestsSound, IInv, TypeOK
<1>2. ASSUME NEW what \in Jobs, Do(c, what), UNCHANGED <<vars, entry, published>>,
             Expects(c)', what.do = "resolved" /\ ~what.disturbed => what.inScope
      PROVE  RequestsSound' /\ ResolvedInScope'
  <2>1. EntriesStay
    BY <1>2 DEF vars, EntriesStay
  <2> QED
    BY <1>2, <2>1, RequestStep
<1>3. ASSUME NEW what, Do(c, what) PROVE job'[c] = what
  BY <1>1, <1>3 DEF Do
<1>4. ASSUME NEW t \in Owners, SetBegin(c, t) PROVE RequestsSound' /\ ResolvedInScope'
  <2> DEFINE what == [do |-> "set", owner |-> t, doomed |-> EntriesOf(t)]
  <2>1. t \in Tenants /\ EntriesOf(t) \subseteq Mounts
    BY <1>1, CompositionAssumption DEF Owners, EntriesOf
  <2>2. what \in Jobs /\ what.do = "set" /\ Do(c, what) /\ UNCHANGED <<vars, entry, published>>
    BY <1>4, <2>1 DEF SetBegin, Jobs
  <2> HIDE DEF what
  <2>3. Expects(c)'
    BY <1>3, <2>2 DEF Expects
  <2> QED
    BY <1>2, <2>2, <2>3
<1>5. ASSUME NEW m \in mounts, NEW n \in PublishNames, PublishCheck(c, m, n)
      PROVE  RequestsSound' /\ ResolvedInScope'
  <2> DEFINE what == [do |-> "publish", mount |-> m, name |-> n]
  <2>1. /\ what \in Jobs /\ what.do = "publish" /\ what.mount = m
        /\ Do(c, what) /\ UNCHANGED <<vars, entry, published>>
        /\ entry[m].kind = "working_layer"
    BY <1>1, <1>5 DEF PublishCheck, Jobs
  <2> HIDE DEF what
  <2>2. UNCHANGED <<mounts, used, entry>>
    BY <2>1 DEF vars
  <2>3. Expects(c)'
    BY <1>1, <1>3, <2>1, <2>2 DEF Expects
  <2> QED
    BY <1>2, <2>1, <2>3
<1>6. ASSUME NEW n \in PublishNames, NEW t \in Tenants, ResolveCheck(c, n, t)
      PROVE  RequestsSound' /\ ResolvedInScope'
  <2> DEFINE what == [do |-> "resolve", tenant |-> t, name |-> n, disturbed |-> FALSE]
  <2>1. /\ what \in Jobs /\ what.do = "resolve" /\ what.name = n /\ what.tenant = t
        /\ Do(c, what) /\ UNCHANGED <<vars, entry, published>>
    BY <1>6 DEF ResolveCheck, Jobs, Resolving
  <2>2. \E p \in published : p.name = n /\ Accessible(p, t)
    BY <1>6 DEF ResolveCheck
  <2> HIDE DEF what
  <2>3. Expects(c)'
    BY <1>3, <2>1, <2>2 DEF Expects, Accessible
  <2> QED
    BY <1>2, <2>1, <2>3
<1>7. ASSUME ResolveRead(c) PROVE RequestsSound' /\ ResolvedInScope'
  <2>1. job[c].do = "resolve" /\ job[c] \in Resolving /\ Expects(c)
    BY <1>1, <1>7 DEF ResolveRead, Jobs, Idle, RequestsSound
  <2>2. PICK p \in published :
          /\ p.name = job[c].name
          /\ Do(c, [do |-> "resolved", disturbed |-> job[c].disturbed,
                    inScope |-> Accessible(p, job[c].tenant)])
    BY <1>7 DEF ResolveRead
  <2> DEFINE inScope == Accessible(p, job[c].tenant)
             what == [do |-> "resolved", disturbed |-> job[c].disturbed, inScope |-> inScope]
  <2>3. inScope \in BOOLEAN
    BY DEF Accessible
  <2>4. ~job[c].disturbed => inScope
    BY <1>1, <2>1, <2>2 DEF Expects, PublicationsSound
  <2>5. Do(c, what)
    BY <2>2
  <2> HIDE DEF inScope
  <2>6. /\ what \in Jobs /\ what.do = "resolved"
        /\ ~what.disturbed => what.inScope
    BY <2>1, <2>3, <2>4 DEF Jobs, Resolving
  <2> HIDE DEF what
  <2>7. Expects(c)'
    BY <1>3, <2>5, <2>6 DEF Expects
  <2> QED
    BY <1>2, <1>7, <2>5, <2>6, <2>7 DEF ResolveRead
<1>8. ASSUME Leave(c) PROVE RequestsSound' /\ ResolvedInScope'
  <2>1. Idle \in Jobs /\ Idle.do = "nothing"
    BY DEF Jobs, Idle
  <2>2. Expects(c)'
    BY <1>3, <1>8, <2>1 DEF Expects, Leave
  <2> QED
    BY <1>2, <1>8, <2>1, <2>2 DEF Leave
<1> QED
  BY <1>4, <1>5, <1>6, <1>7, <1>8

\* All of the inductive invariant but what is said of the layer chains.
TablesAndRequests ==
    /\ EntriesSound
    /\ NestedOnlyUnseen
    /\ PublishedTyped
    /\ PublicationsSound
    /\ RequestsSound
    /\ ResolvedInScope

\* create_mount_entry: the INSERT, with other requests since the validation.
LEMMA CreateInsertKeeps ==
    ASSUME CompositionInv, NEW c \in Clients, NEW m \in Mounts, CreateInsert(c, m)
    PROVE  TablesAndRequests'
<1> DEFINE row == job[c].row
           new == [k \in {m} |-> row]
<1>1. /\ job \in [Clients -> Jobs] /\ Expects(c) /\ mounts \subseteq used
  BY DEF CompositionInv, RequestsSound, IInv, TypeOK
<1>2. /\ job[c].do = "insert" /\ Owner[m] = row.owner
      /\ ReplaceEntries({}, new)
      /\ Do(c, Idle) /\ UNCHANGED published
  BY DEF CreateInsert
<1>3. row \in EntryRow
  BY <1>1, <1>2 DEF Jobs, Idle, Resolving
<1>4. /\ row.seen \subseteq used
      /\ \A k \in row.seen \cap mounts : ~Conflict(row, entry[k])
  BY <1>1, <1>2 DEF Expects
<1>5. \A k \in mounts : Owner[k] = row.owner => entry[k].path # row.path
  BY DEF CreateInsert, InsertAllowed
<1>6. DOMAIN new = {m} /\ new[m] = row
  OBVIOUS
<1> HIDE DEF row, new
<1>7. EntriesSound' /\ NestedOnlyUnseen' /\ EntriesStay
  BY <1>2, <1>3, <1>4, <1>5, <1>6, ReplaceEntriesKeeps
<1>8. published' = Surviving({}) /\ mounts \ {} \subseteq mounts'
  BY <1>2 DEF Surviving, ReplaceEntries, ReplaceMounts
<1>9. PublishedTyped' /\ PublicationsSound'
  BY <1>7, <1>8, SurvivingKeep
<1>10. Idle \in Jobs /\ Idle.do = "nothing" /\ job'[c] = Idle
  BY <1>1, <1>2 DEF Jobs, Idle, Do
<1>11. Expects(c)'
  BY <1>10 DEF Expects
<1>12. RequestsSound' /\ ResolvedInScope'
  BY <1>2, <1>7, <1>10, <1>11, RequestStep
<1> QED
  BY <1>7, <1>9, <1>12 DEF TablesAndRequests

\* set_mount_entries commits: what its transaction found is deleted, what it was
\* given is inserted, and the rows that came in between stay.
LEMMA SetCommitKeeps ==
    ASSUME CompositionInv, NEW c \in Clients,
           NEW ids \in SUBSET (Mounts \ used), NEW new \in [ids -> Requests], SetCommit(c, new)
    PROVE  TablesAndRequests'
<1> DEFINE j == job[c]
           old == j.doomed \cap mounts
           rows == [m \in ids |-> Row(j.owner, new[m], ids)]
<1>1. job \in [Clients -> Jobs] /\ mounts \subseteq used /\ DOMAIN new = ids
  BY DEF CompositionInv, RequestsSound, IInv, TypeOK
<1>2. /\ j.do = "set"
      /\ \A m \in ids : Owner[m] = j.owner
      /\ \A m, k \in ids : m # k => ~Conflict(new[m], new[k])
      /\ \A m \in ids : InsertAllowed(Row(j.owner, new[m], {}), mounts \ old)
      /\ ReplaceEntries(old, rows)
      /\ Publications(Surviving(old), [job EXCEPT ![c] = Idle])
  BY <1>1 DEF SetCommit
<1>3. j.owner \in Tenants
  BY <1>1, <1>2 DEF Jobs, Idle, Resolving
<1>4. ASSUME NEW m \in ids
      PROVE  /\ rows[m] \in EntryRow /\ rows[m].owner = Owner[m] /\ rows[m].seen = ids
             /\ rows[m].path = new[m].path /\ rows[m].file = new[m].file
             /\ \A k \in mounts \ old : Owner[k] = Owner[m] => entry[k].path # rows[m].path
  <2>1. new[m] \in Requests /\ rows[m] = Row(j.owner, new[m], ids) /\ Owner[m] = j.owner
    BY <1>2, <1>4
  <2>2. /\ rows[m] \in EntryRow /\ rows[m].owner = Owner[m] /\ rows[m].seen = ids
        /\ rows[m].path = new[m].path /\ rows[m].file = new[m].file
    BY <1>3, <2>1, RowOfRequest
  <2>3. /\ Row(j.owner, new[m], {}).owner = j.owner
        /\ Row(j.owner, new[m], {}).path = new[m].path
    BY <1>3, <2>1, RowOfRequest
  <2> QED
    BY <1>2, <2>1, <2>2, <2>3 DEF InsertAllowed
<1>5. ASSUME NEW m \in ids, NEW k \in ids, m # k PROVE ~Conflict(rows[m], rows[k])
  <2>1. Conflict(rows[m], rows[k]) = Conflict(new[m], new[k])
    BY <1>4, ConflictOfRows
  <2> QED
    BY <1>2, <1>5, <2>1
<1>6. DOMAIN rows = ids
  OBVIOUS
<1>7. ids \cap mounts = {}
  BY <1>1
<1> HIDE DEF rows, old
<1>8. EntriesSound' /\ NestedOnlyUnseen' /\ EntriesStay
  BY <1>2, <1>4, <1>5, <1>6, <1>7, ReplaceEntriesKeeps
<1>9. published' = Surviving(old) /\ mounts \ old \subseteq mounts'
  BY <1>2 DEF Publications, ReplaceEntries, ReplaceMounts
<1>10. PublishedTyped' /\ PublicationsSound'
  BY <1>8, <1>9, SurvivingKeep
<1>11. RequestsSound' /\ ResolvedInScope'
  BY <1>2, <1>8, PublicationsKeep
<1> QED
  BY <1>8, <1>10, <1>11 DEF TablesAndRequests

\* delete_mount_entry.
LEMMA DeleteEntryKeeps ==
    ASSUME CompositionInv, NEW m \in Mounts, DeleteEntry(m)
    PROVE  TablesAndRequests'
<1>1. ReplaceEntries({m}, <<>>) /\ Publications(Surviving({m}), job)
  BY DEF DeleteEntry
<1>2. DOMAIN <<>> = {}
  OBVIOUS
<1>3. EntriesSound' /\ NestedOnlyUnseen' /\ EntriesStay
  BY <1>1, <1>2, ReplaceEntriesKeeps
<1>4. published' = Surviving({m}) /\ mounts \ {m} \subseteq mounts'
  BY <1>1 DEF Publications, ReplaceEntries, ReplaceMounts
<1>5. PublishedTyped' /\ PublicationsSound'
  BY <1>3, <1>4, SurvivingKeep
<1>6. RequestsSound' /\ ResolvedInScope'
  BY <1>1, <1>3, PublicationsKeep
<1> QED
  BY <1>3, <1>5, <1>6 DEF TablesAndRequests

\* publish: the INSERT, under the foreign key and the unique indexes.
LEMMA PublishInsertKeeps ==
    ASSUME CompositionInv, NEW c \in Clients, NEW t \in Owners,
           NEW target \in {WorkingTarget} \cup Created, NEW scope \in Scopes(t),
           PublishInsert(c, target, scope)
    PROVE  TablesAndRequests'
<1> DEFINE j == job[c]
           row == [mount |-> j.mount, owner |-> Owner[j.mount], name |-> j.name,
                   target |-> target, scope |-> scope]
<1>1. /\ job \in [Clients -> Jobs] /\ Expects(c) /\ mounts \subseteq used /\ used \subseteq Mounts
      /\ nextId \in 1..(MaxLayers + 1)
      /\ EntriesSound /\ PublicationsSound /\ PublishedTyped
  BY DEF CompositionInv, RequestsSound, IInv, TypeOK
<1>2. /\ j.do = "publish"
      /\ j.mount \in mounts
      /\ \A p \in published : p.name # j.name /\ p.mount # j.mount
      /\ Publications(published \cup {row}, [job EXCEPT ![c] = Idle])
      /\ UNCHANGED <<vars, entry>>
  BY DEF PublishInsert, PublishAllowed
<1>3. UNCHANGED <<mounts, used, entry>>
  BY <1>2 DEF vars
<1>4. EntriesStay /\ EntriesSound' /\ NestedOnlyUnseen'
  BY <1>3, RowsUnchanged
<1>5. scope \in Scope
  <2>1. CASE scope = Public
    BY <2>1 DEF Public, Scope
  <2>2. ASSUME NEW S \in SUBSET (Tenants \ {t}), scope = AllowList(S) PROVE scope \in Scope
    BY <2>2 DEF AllowList, Scope
  <2> QED
    BY <2>1, <2>2 DEF Scopes
<1>6. j.name \in PublishNames /\ j.mount \in Mounts
  BY <1>1, <1>2 DEF Jobs, Idle, Resolving
<1>7. target \in LayerIds \cup {NoLayer}
  BY <1>1, MaxLayersAssumption DEF WorkingTarget, Created
<1>8. /\ row \in PublishedRow /\ row.mount = j.mount /\ row.name = j.name
      /\ row.owner = Owner[j.mount]
  BY <1>5, <1>6, <1>7, CompositionAssumption DEF PublishedRow
<1>9. published' = published \cup {row}
  BY <1>2 DEF Publications
<1> HIDE DEF row
<1>10. PublishedTyped'
  BY <1>1, <1>8, <1>9 DEF PublishedTyped
<1>11. entry[j.mount].kind = "working_layer" /\ entry[j.mount].owner = Owner[j.mount]
  BY <1>1, <1>2 DEF Expects, EntriesSound
<1>12. PublicationsSound'
  <2>1. ASSUME NEW p \in published'
        PROVE  /\ p.mount \in mounts
               /\ entry[p.mount].kind = "working_layer"
               /\ p.owner = entry[p.mount].owner
    BY <1>1, <1>2, <1>8, <1>9, <1>11 DEF PublicationsSound
  <2>2. ASSUME NEW p \in published', NEW q \in published', p.name = q.name \/ p.mount = q.mount
        PROVE  p = q
    BY <1>1, <1>2, <1>8, <1>9, <2>2 DEF PublicationsSound
  <2> QED
    BY <1>3, <2>1, <2>2 DEF PublicationsSound
<1>13. RequestsSound' /\ ResolvedInScope'
  BY <1>2, <1>4, PublicationsKeep
<1> QED
  BY <1>4, <1>10, <1>12, <1>13 DEF TablesAndRequests

\* unpublish, and the changes of scope.
LEMMA PublishedKeep ==
    ASSUME CompositionInv, NEW p \in published,
           Unpublish(p) \/ \E scope \in Scope : SetScope(p, scope)
    PROVE  TablesAndRequests'
<1>1. PublicationsSound /\ PublishedTyped /\ p \in PublishedRow
  BY DEF CompositionInv, PublishedTyped
<1>2. UNCHANGED <<vars, entry>> /\ UNCHANGED <<mounts, used, entry>>
  BY DEF Unpublish, SetScope, vars
<1>3. EntriesStay /\ EntriesSound' /\ NestedOnlyUnseen'
  BY <1>2, RowsUnchanged
<1>4. RequestsSound' /\ ResolvedInScope'
  BY <1>3, PublicationsKeep DEF Unpublish, SetScope
<1>5. CASE Unpublish(p)
  <2>1. published' = published \ {p}
    BY <1>5 DEF Unpublish, Publications
  <2>2. PublishedTyped' /\ PublicationsSound'
    BY <1>1, <1>2, <2>1 DEF PublishedTyped, PublicationsSound
  <2> QED
    BY <1>3, <1>4, <2>2 DEF TablesAndRequests
<1>6. ASSUME NEW scope \in Scope, SetScope(p, scope) PROVE TablesAndRequests'
  <2> DEFINE q == [p EXCEPT !.scope = scope]
  <2>1. /\ q \in PublishedRow /\ q.mount = p.mount /\ q.name = p.name
        /\ q.owner = p.owner
    BY <1>1 DEF PublishedRow
  <2>2. published' = (published \ {p}) \cup {q}
    BY <1>6 DEF SetScope, Publications
  <2> HIDE DEF q
  <2>3. PublishedTyped'
    BY <1>1, <1>2, <2>1, <2>2 DEF PublishedTyped
  <2>4. PublicationsSound'
    BY <1>1, <1>2, <2>1, <2>2 DEF PublicationsSound
  <2> QED
    BY <1>3, <1>4, <2>3, <2>4 DEF TablesAndRequests
<1> QED
  BY <1>5, <1>6

\* Every step of the composed system keeps the inductive invariant.
LEMMA CompositionStep == CompositionInv /\ [CompositionNext]_compositionVars => CompositionInv'
<1> SUFFICES ASSUME CompositionInv, [CompositionNext]_compositionVars PROVE CompositionInv'
  OBVIOUS
<1>1. [Next]_vars
  BY StepOfChains
<1>2. IInv'
  BY <1>1, NextChains DEF CompositionInv
<1>3. ASSUME UNCHANGED <<mounts, used, entry, published, job>> PROVE TablesAndRequests'
  <2>1. EntriesStay /\ EntriesSound' /\ NestedOnlyUnseen' /\ PublishedTyped' /\ PublicationsSound'
    BY <1>3, RowsUnchanged
  <2>2. job \in [Clients -> Jobs] /\ ResolvedInScope
    BY DEF CompositionInv, RequestsSound
  <2>3. \A c \in Clients : Expects(c)'
    BY <1>3, <2>1, RequestKept
  <2> QED
    BY <1>3, <2>1, <2>2, <2>3 DEF TablesAndRequests, RequestsSound, ResolvedInScope
<1>4. ASSUME UNCHANGED <<vars, entry, published>>, RequestsSound', ResolvedInScope'
      PROVE  TablesAndRequests'
  <2>1. UNCHANGED <<mounts, used, entry>>
    BY <1>4 DEF vars
  <2> QED
    BY <1>4, <2>1, RowsUnchanged DEF TablesAndRequests
<1>5. ASSUME NEW c \in Clients, LayerStep(c) PROVE TablesAndRequests'
  <2>1. UNCHANGED <<mounts, used>>
    BY <1>5 DEF LayerStep, ChainStep, InitialBase, InitialWorking, SnapshotGet,
                SnapshotUpdate, SnapshotCreate, Crash, Create, table
  <2> QED
    BY <1>3, <1>5, <2>1 DEF LayerStep
<1>6. ASSUME NEW l \in LayerIds, DropLayer(l) PROVE TablesAndRequests'
  BY <1>3, <1>6 DEF DropLayer, DeleteLayer
<1>7. ASSUME NEW c \in Clients, NEW t \in Owners, NEW r \in Requests, CreateCheck(c, t, r)
      PROVE  TablesAndRequests'
  BY <1>4, <1>7, CreateCheckKeeps DEF CreateCheck
<1>8. ASSUME NEW c \in Clients,
             \/ \E t \in Owners : SetBegin(c, t)
             \/ \E m \in mounts, n \in PublishNames : PublishCheck(c, m, n)
             \/ \E n \in PublishNames, t \in Tenants : ResolveCheck(c, n, t)
             \/ ResolveRead(c)
             \/ Leave(c)
      PROVE  TablesAndRequests'
  <2>1. UNCHANGED <<vars, entry, published>>
    BY <1>8 DEF SetBegin, PublishCheck, ResolveCheck, ResolveRead, Leave
  <2> QED
    BY <1>4, <1>8, <2>1, ReadersKeep
<1>9. ASSUME NEW p \in published,
             \/ Unpublish(p) \/ UpdatePublish(p)
             \/ \E t \in Tenants \ {p.owner} : AddAllowedTenant(p, t)
             \/ \E t \in p.scope.tenants : RemoveAllowedTenant(p, t)
      PROVE  TablesAndRequests'
  <2>1. p \in PublishedRow
    BY DEF CompositionInv, PublishedTyped
  <2>2. p.scope \in Scope /\ p.scope.tenants \subseteq Tenants /\ p.owner \in Tenants
    BY <2>1 DEF PublishedRow, Scope
  <2>3. ASSUME NEW S \in SUBSET Tenants PROVE AllowList(S) \in Scope
    BY DEF AllowList, Scope
  <2>4. Scopes(p.owner) \subseteq Scope
    <3>1. Public \in Scope
      BY DEF Public, Scope
    <3> QED
      BY <2>3, <3>1 DEF Scopes
  <2>5. Unpublish(p) \/ \E scope \in Scope : SetScope(p, scope)
    BY <1>9, <2>2, <2>3, <2>4 DEF UpdatePublish, AddAllowedTenant, RemoveAllowedTenant
  <2> QED
    BY <2>5, PublishedKeep
<1>10. ASSUME UNCHANGED compositionVars PROVE TablesAndRequests'
  BY <1>3, <1>10 DEF compositionVars, vars
<1>11. ASSUME CompositionNext PROVE TablesAndRequests'
  <2>1. CASE \E c \in Clients, m \in Mounts : CreateInsert(c, m)
    BY <2>1, CreateInsertKeeps
  <2>2. CASE \E c \in Clients, ids \in SUBSET (Mounts \ used) :
               \E new \in [ids -> Requests] : SetCommit(c, new)
    BY <2>2, SetCommitKeeps
  <2>3. CASE \E m \in Mounts : DeleteEntry(m)
    BY <2>3, DeleteEntryKeeps
  <2>4. CASE \E c \in Clients, t \in Owners, target \in {WorkingTarget} \cup Created :
               \E scope \in Scopes(t) : PublishInsert(c, target, scope)
    BY <2>4, PublishInsertKeeps
  <2> QED
    BY <1>5, <1>6, <1>7, <1>8, <1>9, <1>11, <2>1, <2>2, <2>3, <2>4 DEF CompositionNext
<1> QED
  BY <1>2, <1>10, <1>11 DEF CompositionInv, TablesAndRequests

\* The inductive invariant holds in every reachable state of the composed system.
LEMMA SpecComposition == CompositionSpec => []CompositionInv
<1>1. CompositionInit => CompositionInv
  <2> SUFFICES ASSUME CompositionInit PROVE CompositionInv
    OBVIOUS
  <2>1. IInv
    BY InitChains DEF CompositionInit
  <2>2. mounts = {} /\ published = {} /\ entry = [m \in Mounts |-> Idle]
        /\ job = [c \in Clients |-> Idle]
    BY DEF CompositionInit, Init
  <2>3. Idle \in Jobs /\ Idle.do = "nothing"
    BY DEF Jobs, Idle
  <2>4. RequestsSound /\ ResolvedInScope
    BY <2>2, <2>3 DEF RequestsSound, ResolvedInScope, Expects
  <2>5. EntriesSound /\ NestedOnlyUnseen /\ PublishedTyped /\ PublicationsSound
    BY <2>2 DEF EntriesSound, NestedOnlyUnseen, PublishedTyped, PublicationsSound
  <2> QED
    BY <2>1, <2>4, <2>5 DEF CompositionInv
<1> QED
  BY <1>1, CompositionStep, PTL DEF CompositionSpec

-----------------------------------------------------------------------------
(* What the tables promise                                                 *)

\* Whatever publications, deletions, replacements and snapshots overlap, a name
\* and a mount are published once, and what is published is there and its owner's.
THEOREM PublicationsStaySound == CompositionSpec => []PublicationsSound
<1>1. CompositionInv => PublicationsSound
  BY DEF CompositionInv
<1> QED
  BY <1>1, SpecComposition, PTL

\* Between the two reads of resolve_published nothing but a change of that very
\* publication can give a tenant what it has no access to.
THEOREM ResolutionsStayInScope == CompositionSpec => []ResolvedInScope
<1>1. CompositionInv => ResolvedInScope
  BY DEF CompositionInv
<1> QED
  BY <1>1, SpecComposition, PTL

\* However creations and replacements of entries interleave with deletions, no
\* entry is in conflict with one that was there when it was validated.
THEOREM ConflictsOnlyUnseen == CompositionSpec => []NestedOnlyUnseen
<1>1. CompositionInv => NestedOnlyUnseen
  BY DEF CompositionInv
<1> QED
  BY <1>1, SpecComposition, PTL

\* Of two directories mounted above a path, one is above the other.
LEMMA PrefixesNest ==
    ASSUME NEW path \in Seq(STRING), NEW a \in Seq(STRING), NEW b \in Seq(STRING),
           IsPrefix(a, path), IsPrefix(b, path)
    PROVE  IsPrefix(a, b) \/ IsPrefix(b, a)
BY DEF IsPrefix

\* Where find_mount has two answers for a path, the requests that made them
\* overlapped, and the unique index had different texts to compare.
THEOREM AmbiguityOnlyUnseen == CompositionSpec => []AmbiguousOnlyUnseen
<1>1. CompositionInv => AmbiguousOnlyUnseen
  <2> SUFFICES ASSUME CompositionInv, NEW t \in Owners, NEW path \in VirtualPaths,
                      NEW m \in Matching(t, path), NEW k \in Matching(t, path), m # k
               PROVE  /\ entry[m].path # entry[k].path
                      /\ k \notin entry[m].seen /\ m \notin entry[k].seen
    BY DEF AmbiguousOnlyUnseen
  <2>1. EntriesSound /\ NestedOnlyUnseen
    BY DEF CompositionInv
  <2>2. m \in EntriesOf(t) /\ k \in EntriesOf(t)
    BY DEF Matching
  <2>3. /\ m \in mounts /\ k \in mounts /\ Owner[m] = Owner[k]
        /\ entry[m].path \in VirtualPaths /\ entry[k].path \in VirtualPaths
    <3>1. m \in mounts /\ k \in mounts /\ Owner[m] = Owner[k]
      BY <2>2 DEF EntriesOf
    <3>2. entry[m] \in EntryRow /\ entry[k] \in EntryRow
      BY <2>1, <3>1 DEF EntriesSound
    <3>3. {s.path : s \in Shapes} \subseteq VirtualPaths
      BY CompositionAssumption
    <3> QED
      BY <3>1, <3>2, <3>3 DEF EntryRow
  <2>4. Conflict(entry[m], entry[k])
    <3>1. CASE SamePath(entry[m].path, path) /\ SamePath(entry[k].path, path)
      BY <3>1 DEF Conflict, SamePath
    <3>2. CASE /\ ~entry[m].file /\ StartsWith(path, entry[m].path)
               /\ ~entry[k].file /\ StartsWith(path, entry[k].path)
      <4>1. /\ Components[path] \in Seq(STRING)
            /\ Components[entry[m].path] \in Seq(STRING)
            /\ Components[entry[k].path] \in Seq(STRING)
        BY <2>3, CompositionAssumption
      <4>2. \/ IsPrefix(Components[entry[m].path], Components[entry[k].path])
            \/ IsPrefix(Components[entry[k].path], Components[entry[m].path])
        BY <3>2, <4>1, PrefixesNest DEF StartsWith
      <4> QED
        BY <3>2, <4>2 DEF Conflict, StartsWith
    <3> QED
      BY <3>1, <3>2 DEF Matching
  <2>5. entry[m].path # entry[k].path
    BY <2>1, <2>3 DEF EntriesSound
  <2> QED
    BY <2>1, <2>3, <2>4, <2>5 DEF NestedOnlyUnseen
<1> QED
  BY <1>1, SpecComposition, PTL
==============================================================================
