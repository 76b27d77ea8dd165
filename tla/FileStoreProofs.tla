--------------------------- MODULE FileStoreProofs ---------------------------
(***************************************************************************)
(* The content of files, for any number of handles, files, layers and      *)
(* contents. What is acknowledged rests on an account of what each writer  *)
(* has stored so far, which holds while no other request works on the      *)
(* same rows.                                                              *)
(***************************************************************************)
EXTENDS FileStore, FiniteSetTheorems, TLAPS

Deleting(w) == pc[w] \in {"del_blocks", "del_inode"}
Writing(w) == Busy(w) /\ ~Deleting(w)
Recording(w) == pc[w] \in {"rec_get", "rec_add", "update"}

\* What a request is writing suits the statement it is at.
AtItsPlace(w) ==
    /\ Writing(w) => data[w] \in Contents
    /\ pc[w] \in {"unmap", "unmeta", "meta", "map"} => data[w] \in Texts
    /\ pc[w] \in {"clear", "put"} => data[w] \in Binaries
    /\ IF pc[w] = "put" THEN index[w] <= Len(data[w].chunks) ELSE index[w] = 1

\* Layers get identities nobody has used.
LayersFresh ==
    /\ nextLayer \in Nat
    /\ \A l \in nodes : l < nextLayer
    /\ \A w \in Writers : lay[w] < nextLayer
    /\ \A s \in Slots : acked[s] # NoRow => s[2] < nextLayer

NoOrphanRows ==
    /\ \A s \in Slots :
        /\ meta[s] # NoRow => s[1] \in files /\ s[2] \in nodes
        /\ map[s] # <<>> => meta[s] # NoRow
    /\ \A f \in Files \ files : \A i \in Indices : blocks[f][i] = NoRow

\* A writer that is alone shares the rows it works on with no other request.
Undisturbed(w) ==
    alone[w] /\ Writing(w) =>
        /\ file[w] \in files
        /\ \A v \in Writers \ {w} : ~Overlap(v, file[w], lay[w], data[w])

MetaOf(d) == [eol |-> d.eol, trailing |-> d.trailing]

\* The blocks of a file when the first n chunks of d are stored.
FirstChunks(d, n) == [i \in Indices |-> IF i <= n THEN d.chunks[i] ELSE NoRow]

\* What a writer that is alone has stored so far.
StoredSoFar(w) ==
    alone[w] =>
        /\ data[w] \in Texts /\ lay[w] \in nodes =>
             /\ pc[w] = "map" => meta[Slot(w)] = MetaOf(data[w]) /\ map[Slot(w)] = <<>>
             /\ Recording(w) => meta[Slot(w)] = MetaOf(data[w]) /\ map[Slot(w)] = data[w].lines
        /\ data[w] \in Binaries =>
             /\ pc[w] = "put" => blocks[file[w]] = FirstChunks(data[w], index[w] - 1)
             /\ Recording(w) => blocks[file[w]] = FirstChunks(data[w], Len(data[w].chunks))

\* An acknowledged content is stored, and no request works on its rows.
AckedStored(s) ==
    acked[s] # NoRow =>
        /\ \A v \in Writers : ~Overlap(v, s[1], s[2], acked[s])
        /\ acked[s] \in Texts /\ s[2] \in nodes =>
             meta[s] = MetaOf(acked[s]) /\ map[s] = acked[s].lines
        /\ acked[s] \in Binaries =>
             blocks[s[1]] = FirstChunks(acked[s], Len(acked[s].chunks))

StoreInv ==
    /\ TypeOK
    /\ \A w \in Writers : AtItsPlace(w)
    /\ LayersFresh
    /\ NoOrphanRows
    /\ \A w \in Writers : Undisturbed(w) /\ StoredSoFar(w)
    /\ \A s \in Slots : AckedStored(s)

-----------------------------------------------------------------------------
(* A request goes on                                                       *)

LayersTyped ==
    /\ nodes \subseteq LayerIds /\ frozen \subseteq nodes /\ pos \in nodes
    /\ up \in [LayerIds -> LayerIds \cup {None}]

RowsTyped ==
    /\ files \subseteq Files
    /\ meta \in [Slots -> MetaRows \cup {NoRow}]
    /\ map \in [Slots -> {<<>>} \cup {d.lines : d \in Texts}]
    /\ blocks \in [Files -> [Indices -> Chunks \cup {NoRow}]]

LocalsTyped ==
    /\ lay \in [Writers -> LayerIds]
    /\ pc \in [Writers -> Labels]
    /\ file \in [Writers -> Files]
    /\ data \in [Writers -> Contents \cup {Nothing}]
    /\ index \in [Writers -> Indices]
    /\ reclay \in [Writers -> LayerIds \cup {None}]
    /\ alone \in [Writers -> BOOLEAN]

\* The type invariant, part by part.
LEMMA TypesByPart ==
    TypeOK <=> /\ LayersTyped /\ RowsTyped /\ LocalsTyped
               /\ acked \in [Slots -> Contents \cup {NoRow}]
BY DEF TypeOK, LayersTyped, RowsTyped, LocalsTyped

\* A statement of a request that was under way: it goes on with its file and its
\* content, or ends.
Continues(w) ==
    /\ Busy(w)
    /\ UNCHANGED <<lay, file>>
    /\ \A v \in Writers \ {w} :
        /\ pc'[v] = pc[v] /\ data'[v] = data[v] /\ index'[v] = index[v]
        /\ alone'[v] = alone[v]
    /\ \/ pc'[w] = "idle"
       \/ data'[w] = data[w] /\ alone'[w] = alone[w] /\ (Deleting(w)' <=> Deleting(w))

\* The end of a request takes the mark of nobody else away.
LEMMA AloneReset ==
    ASSUME alone \in [Writers -> BOOLEAN], NEW w \in Writers,
           alone' = [alone EXCEPT ![w] = TRUE]
    PROVE  /\ alone' \in [Writers -> BOOLEAN]
           /\ \A v \in Writers \ {w} : alone'[v] = alone[v]
BY Zenon

\* Overlap, of the state after a step.
OverlapNext(v, f, l, d) ==
    /\ Busy(v)'
    /\ file'[v] = f
    /\ ~Deleting(v)' => lay'[v] = l \/ {data'[v], d} \subseteq Binaries

\* No request comes to work on more rows by going on.
LEMMA ContinueOverlaps ==
    ASSUME NEW w \in Writers, Continues(w), NEW v \in Writers, NEW f, NEW l, NEW d,
           OverlapNext(v, f, l, d)
    PROVE  Overlap(v, f, l, d)
<1>1. CASE v # w
  BY <1>1 DEF Continues, Overlap, OverlapNext, Busy, Deleting
<1>2. CASE v = w
  BY <1>2 DEF Continues, Overlap, OverlapNext, Busy, Deleting
<1> QED
  BY <1>1, <1>2

\* A writer that is alone stays so while requests go on.
LEMMA ContinueUndisturbed ==
    ASSUME StoreInv, NEW w \in Writers, Continues(w),
           files' = files \/ (Deleting(w) /\ files' = files \ {file[w]}),
           NEW v \in Writers
    PROVE  Undisturbed(v)'
<1> SUFFICES ASSUME alone'[v], Writing(v)'
             PROVE  /\ file'[v] \in files'
                    /\ \A x \in Writers \ {v} : ~OverlapNext(x, file'[v], lay'[v], data'[v])
  BY DEF Undisturbed, Overlap, OverlapNext, Busy, Deleting
<1>1. Writing(v) /\ data'[v] = data[v] /\ file'[v] = file[v] /\ lay'[v] = lay[v] /\ alone[v]
  BY DEF Continues, Writing, Busy, Deleting
<1>2. /\ file[v] \in files
      /\ \A x \in Writers \ {v} : ~Overlap(x, file[v], lay[v], data[v])
  BY <1>1 DEF StoreInv, Undisturbed
<1>3. file[v] \in files'
  <2>1. CASE files' = files
    BY <1>2, <2>1
  <2>2. CASE Deleting(w) /\ files' = files \ {file[w]}
    <3>1. v # w /\ Busy(w)
      BY <1>1, <2>2 DEF Writing, Deleting, Busy
    <3>2. file[w] # file[v]
      BY <1>2, <2>2, <3>1 DEF Overlap, Deleting
    <3> QED
      BY <1>2, <2>2, <3>2
  <2> QED
    BY <2>1, <2>2
<1>4. ASSUME NEW x \in Writers \ {v}, OverlapNext(x, file'[v], lay'[v], data'[v]) PROVE FALSE
  BY <1>1, <1>2, <1>4, ContinueOverlaps
<1> QED
  BY <1>1, <1>3, <1>4

\* A statement of one request changes no row that another one, alone at its work,
\* or an acknowledgement gives an account of.
LEMMA AccountsKept ==
    ASSUME StoreInv, NEW w \in Writers, Continues(w), UNCHANGED nodes,
           \A s \in Slots, d \in Texts :
               ~Overlap(w, s[1], s[2], d) => meta'[s] = meta[s] /\ map'[s] = map[s],
           \A s \in Slots, d \in Binaries :
               ~Overlap(w, s[1], s[2], d) => blocks'[s[1]] = blocks[s[1]]
    PROVE  /\ \A v \in Writers \ {w} : StoredSoFar(v)'
           /\ \A s \in Slots : acked'[s] = acked[s] => AckedStored(s)'
<1>1. LocalsTyped
  BY TypesByPart DEF StoreInv
<1>2. ASSUME NEW v \in Writers \ {w} PROVE StoredSoFar(v)'
  <2>1. /\ StoredSoFar(v) /\ Undisturbed(v) /\ Slot(v) \in Slots
        /\ Slot(v)[1] = file[v] /\ Slot(v)[2] = lay[v]
    BY <1>1, <1>2 DEF StoreInv, LocalsTyped, Slot, Slots
  <2>2. /\ pc'[v] = pc[v] /\ data'[v] = data[v] /\ index'[v] = index[v]
        /\ alone'[v] = alone[v] /\ file'[v] = file[v] /\ lay'[v] = lay[v]
        /\ Slot(v)' = Slot(v)
    BY <1>2 DEF Continues, Slot
  <2>3. Recording(v)' = Recording(v)
    BY <2>2 DEF Recording
  <2>4. ASSUME alone[v], pc[v] \in {"map", "put"} \/ Recording(v)
        PROVE  ~Overlap(w, file[v], lay[v], data[v])
    BY <1>2, <2>1, <2>4 DEF Undisturbed, Writing, Busy, Deleting, Recording
  <2>5. ASSUME alone[v], pc[v] = "map" \/ Recording(v), data[v] \in Texts
        PROVE  meta'[Slot(v)] = meta[Slot(v)] /\ map'[Slot(v)] = map[Slot(v)]
    BY <2>1, <2>4, <2>5
  <2>6. ASSUME alone[v], pc[v] = "put" \/ Recording(v), data[v] \in Binaries
        PROVE  blocks'[file[v]] = blocks[file[v]]
    BY <2>1, <2>4, <2>6
  <2> QED
    BY <2>1, <2>2, <2>3, <2>5, <2>6 DEF StoredSoFar
<1>3. ASSUME NEW s \in Slots, acked'[s] = acked[s] PROVE AckedStored(s)'
  <2> SUFFICES ASSUME acked[s] # NoRow
               PROVE  /\ \A v \in Writers : ~OverlapNext(v, s[1], s[2], acked[s])
                      /\ acked[s] \in Texts /\ s[2] \in nodes =>
                           meta'[s] = MetaOf(acked[s]) /\ map'[s] = acked[s].lines
                      /\ acked[s] \in Binaries =>
                           blocks'[s[1]] = FirstChunks(acked[s], Len(acked[s].chunks))
    BY <1>3 DEF AckedStored, Overlap, OverlapNext, Busy, Deleting, MetaOf, FirstChunks
  <2>1. AckedStored(s) /\ \A v \in Writers : ~Overlap(v, s[1], s[2], acked[s])
    BY DEF StoreInv, AckedStored
  <2>2. ASSUME NEW v \in Writers, OverlapNext(v, s[1], s[2], acked[s]) PROVE FALSE
    BY <2>1, <2>2, ContinueOverlaps
  <2>3. acked[s] \in Texts => meta'[s] = meta[s] /\ map'[s] = map[s]
    BY <2>1
  <2>4. acked[s] \in Binaries => blocks'[s[1]] = blocks[s[1]]
    BY <2>1
  <2> QED
    BY <2>1, <2>2, <2>3, <2>4 DEF AckedStored
<1> QED
  BY <1>2, <1>3

\* What is left to show of a statement of a request that goes on: that the rows it
\* changes are its own, and its own account of them.
LEMMA ContinueKeeps ==
    ASSUME StoreInv, NEW w \in Writers, Continues(w), UNCHANGED <<treeVars, nextLayer>>,
           files' = files \/ (Deleting(w) /\ files' = files \ {file[w]}),
           \A s \in Slots, d \in Texts :
               ~Overlap(w, s[1], s[2], d) => meta'[s] = meta[s] /\ map'[s] = map[s],
           \A s \in Slots, d \in Binaries :
               ~Overlap(w, s[1], s[2], d) => blocks'[s[1]] = blocks[s[1]],
           RowsTyped', LocalsTyped', NoOrphanRows', AtItsPlace(w)', StoredSoFar(w)',
           acked' \in [Slots -> Contents \cup {NoRow}],
           \A s \in Slots : acked'[s] = acked[s] \/ (AckedStored(s)' /\ s[2] < nextLayer)
    PROVE  StoreInv'
<1>1. UNCHANGED <<nodes, up, frozen, pos, nextLayer>>
  BY DEF treeVars
<1>2. LayersTyped'
  BY <1>1, TypesByPart DEF StoreInv, LayersTyped
<1>3. TypeOK'
  BY <1>2 DEF TypeOK, LayersTyped, RowsTyped, LocalsTyped
<1>4. ASSUME NEW v \in Writers \ {w} PROVE AtItsPlace(v)'
  <2>1. AtItsPlace(v) /\ pc'[v] = pc[v] /\ data'[v] = data[v] /\ index'[v] = index[v]
    BY <1>4 DEF StoreInv, Continues
  <2> QED
    BY <2>1 DEF AtItsPlace, Writing, Busy, Deleting
<1>5. LayersFresh'
  BY <1>1 DEF StoreInv, LayersFresh, Continues
<1>6. \A v \in Writers : Undisturbed(v)'
  BY ContinueUndisturbed
<1>7. /\ \A v \in Writers \ {w} : StoredSoFar(v)'
      /\ \A s \in Slots : acked'[s] = acked[s] => AckedStored(s)'
  BY <1>1, AccountsKept
<1>8. \A s \in Slots : AckedStored(s)'
  BY <1>7
<1> QED
  BY <1>3, <1>4, <1>5, <1>6, <1>7, <1>8 DEF StoreInv

\* Statements that change no row.
LEMMA QuietKeeps ==
    ASSUME StoreInv, NEW w \in Writers, Continues(w),
           UNCHANGED <<treeVars, nextLayer, rows, acked>>,
           LocalsTyped', AtItsPlace(w)', StoredSoFar(w)'
    PROVE  StoreInv'
<1>1. UNCHANGED <<nodes, files, meta, map, blocks, acked>>
  BY DEF treeVars, rows
<1>2. RowsTyped' /\ acked' \in [Slots -> Contents \cup {NoRow}]
  BY <1>1, TypesByPart DEF StoreInv, RowsTyped
<1>3. NoOrphanRows'
  BY <1>1 DEF StoreInv, NoOrphanRows
<1> QED
  BY <1>1, <1>2, <1>3, ContinueKeeps

\* A request that fails, is refused or dies leaves what it has written.
LEMMA FailKeeps ==
    ASSUME StoreInv, NEW w \in Writers, Busy(w), Fail(w), UNCHANGED <<treeVars, nextLayer, lay>>
    PROVE  StoreInv'
<1>1. LocalsTyped
  BY TypesByPart DEF StoreInv
<1>2. /\ pc' = [pc EXCEPT ![w] = "idle"] /\ data' = [data EXCEPT ![w] = Nothing]
      /\ index' = [index EXCEPT ![w] = 1] /\ reclay' = [reclay EXCEPT ![w] = None]
      /\ alone' = [alone EXCEPT ![w] = TRUE]
      /\ UNCHANGED <<file, rows, acked, lay>>
  BY DEF Fail, Done
<1>3. /\ pc'[w] = "idle" /\ index'[w] = 1
      /\ alone' \in [Writers -> BOOLEAN] /\ \A v \in Writers \ {w} : alone'[v] = alone[v]
  <2>1. alone \in [Writers -> BOOLEAN]
    BY <1>1 DEF LocalsTyped
  <2> QED
    BY <1>1, <1>2, <2>1, AloneReset DEF LocalsTyped
<1>4. Continues(w)
  BY <1>1, <1>2, <1>3 DEF Continues, LocalsTyped
<1>5. 1 \in Indices /\ "idle" \in Labels
  BY ContentsAssumption DEF Indices, Labels
<1>6. LocalsTyped'
  BY <1>1, <1>2, <1>3, <1>5 DEF LocalsTyped
<1>7. AtItsPlace(w)' /\ StoredSoFar(w)'
  BY <1>3 DEF AtItsPlace, StoredSoFar, Writing, Busy, Recording
<1> QED
  BY <1>2, <1>4, <1>6, <1>7, QuietKeeps

\* Reading the old content, and record_change.
LEMMA ControlKeeps ==
    ASSUME StoreInv, NEW w \in Writers,
           \/ ReadMeta(w) \/ ReadLines(w) \/ ReadBlocks(w)
           \/ TextReadFails(w) \/ BlocksReadFails(w)
           \/ RecordGet(w) \/ RecordAdd(w)
    PROVE  StoreInv'
<1>1. LocalsTyped /\ AtItsPlace(w) /\ StoredSoFar(w) /\ pos \in LayerIds
  BY TypesByPart DEF StoreInv, LayersTyped
<1>2. UNCHANGED <<treeVars, nextLayer, lay>> /\ Busy(w)
  BY DEF ReadMeta, ReadLines, ReadBlocks, TextReadFails, BlocksReadFails, RecordGet, RecordAdd, Busy
<1>3. CASE Fail(w)
  BY <1>2, <1>3, FailKeeps
<1>4. ASSUME NEW l \in Labels, NEW r \in LayerIds \cup {None}, pc' = [pc EXCEPT ![w] = l],
             reclay' = [reclay EXCEPT ![w] = r],
             UNCHANGED <<file, data, index, rows, ghosts>>,
             \/ pc[w] \in {"read", "read_lines", "read_blocks"}
                /\ \/ l \in {"read_lines", "read_blocks"}
                   \/ data[w] \in Binaries /\ l = "clear"
                   \/ data[w] \in Texts /\ l \in {"meta", "unmap"}
             \/ Recording(w) /\ l \in {"rec_get", "rec_add", "update"}
      PROVE  StoreInv'
  <2>1. /\ pc'[w] = l /\ l # "idle" /\ l # "put" /\ l # "map"
        /\ \A v \in Writers \ {w} : pc'[v] = pc[v]
        /\ index[w] = 1 /\ Writing(w) /\ data[w] \in Contents
    BY <1>1, <1>4 DEF LocalsTyped, AtItsPlace, Writing, Busy, Deleting, Recording
  <2>2. Continues(w)
    BY <1>2, <1>4, <2>1 DEF Continues, Deleting, ghosts, Recording
  <2>3. LocalsTyped'
    BY <1>1, <1>2, <1>4 DEF LocalsTyped, ghosts
  <2>4. AtItsPlace(w)'
    BY <1>1, <1>4, <2>1 DEF AtItsPlace, Writing, Busy, Deleting
  <2>5. StoredSoFar(w)'
    <3>1. UNCHANGED <<nodes, meta, map, blocks, alone, lay, file, data>> /\ Slot(w)' = Slot(w)
      BY <1>2, <1>4 DEF treeVars, rows, ghosts, Slot
    <3>2. Recording(w)' => Recording(w)
      BY <1>4, <2>1 DEF Recording
    <3> QED
      BY <1>1, <2>1, <3>1, <3>2 DEF StoredSoFar, FirstChunks
  <2> QED
    BY <1>2, <1>4, <2>2, <2>3, <2>4, <2>5, QuietKeeps DEF ghosts
<1>5. \A l \in {"read_lines", "read_blocks", "clear", "meta", "unmap", "rec_add", "update"} : l \in Labels
  BY DEF Labels
<1>6. ASSUME UNCHANGED reclay PROVE reclay' = [reclay EXCEPT ![w] = reclay[w]]
  BY <1>1, <1>6 DEF LocalsTyped
<1>7. reclay[w] \in LayerIds \cup {None}
  BY <1>1 DEF LocalsTyped
<1>8. CASE ReadMeta(w) \/ TextReadFails(w)
  <2>1. PICK l \in {"read_lines", "read_blocks"} : Goto(w, l)
    BY <1>8 DEF ReadMeta, TextReadFails
  <2>2. /\ pc' = [pc EXCEPT ![w] = l] /\ pc[w] \in {"read", "read_lines"} /\ l \in Labels
        /\ UNCHANGED <<file, data, index, reclay, rows, ghosts>>
    BY <1>5, <1>8, <2>1 DEF ReadMeta, TextReadFails, Goto
  <2>3. reclay' = [reclay EXCEPT ![w] = reclay[w]]
    BY <1>6, <2>2
  <2> QED
    BY <1>4, <1>7, <2>1, <2>2, <2>3
<1>9. CASE ReadLines(w) \/ ReadBlocks(w) \/ BlocksReadFails(w)
  <2>1. /\ data[w] \in Contents /\ pc[w] \in {"read_lines", "read_blocks"}
        /\ UNCHANGED <<rows, ghosts>>
    BY <1>1, <1>9 DEF ReadLines, ReadBlocks, BlocksReadFails, AtItsPlace, Writing, Busy, Deleting
  <2>2. ASSUME NEW new \in BOOLEAN, OldRead(w, new) PROVE StoreInv'
    <3>1. \/ data[w] \in Binaries /\ FirstStatement(w, new) = "clear"
          \/ data[w] \in Texts /\ FirstStatement(w, new) \in {"meta", "unmap"}
      BY <2>1, ContentsAssumption DEF FirstStatement, Contents
    <3>2. PICK l \in {"clear", "meta", "unmap"} : l = FirstStatement(w, new)
      BY <3>1
    <3>3. /\ pc' = [pc EXCEPT ![w] = l] /\ l \in Labels
          /\ UNCHANGED <<file, data, index, reclay, rows, ghosts>>
      BY <1>5, <2>1, <2>2, <3>2 DEF OldRead
    <3>4. reclay' = [reclay EXCEPT ![w] = reclay[w]]
      BY <1>6, <3>3
    <3> QED
      BY <1>4, <1>7, <2>1, <3>1, <3>2, <3>3, <3>4
  <2>3. CASE ReadLines(w)
    <3>1. CASE map[Slot(w)] \in {<<>>, <<Blank>>}
      <4>1. OldRead(w, TRUE)
        BY <2>3, <3>1 DEF ReadLines, OldRead, FirstStatement
      <4> QED
        BY <2>2, <4>1
    <3>2. CASE map[Slot(w)] \notin {<<>>, <<Blank>>}
      <4>1. OldRead(w, FALSE)
        BY <2>3, <3>2 DEF ReadLines, OldRead, FirstStatement
      <4> QED
        BY <2>2, <4>1
    <3> QED
      BY <3>1, <3>2
  <2>4. CASE ReadBlocks(w)
    <3>1. PICK new \in BOOLEAN : new = (ListBlocks(file[w]) = <<>>)
      BY Zenon
    <3> QED
      BY <2>2, <2>4, <3>1 DEF ReadBlocks
  <2>5. CASE BlocksReadFails(w)
    BY <2>2, <2>5 DEF BlocksReadFails
  <2> QED
    BY <1>9, <2>3, <2>4, <2>5
<1>10. CASE RecordGet(w)
  BY <1>1, <1>3, <1>4, <1>5, <1>10 DEF RecordGet, Recording
<1>11. CASE RecordAdd(w)
  BY <1>1, <1>3, <1>4, <1>5, <1>7, <1>11 DEF RecordAdd, Recording, Goto, LocalsTyped
<1> QED
  BY <1>8, <1>9, <1>10, <1>11

\* A statement of a text write changes the row of its own file and layer.
LEMMA TextStatementKeeps ==
    ASSUME StoreInv, NEW w \in Writers, pc[w] \in {"unmap", "unmeta", "meta", "map"},
           NEW l \in {"unmeta", "meta", "map", "rec_get"}, Goto(w, l),
           UNCHANGED <<treeVars, nextLayer, files, blocks, lay, ghosts>>,
           NEW m \in MetaRows \cup {NoRow}, NEW t \in {<<>>} \cup {d.lines : d \in Texts},
           meta' = [meta EXCEPT ![Slot(w)] = m], map' = [map EXCEPT ![Slot(w)] = t],
           m # NoRow => file[w] \in files /\ lay[w] \in nodes,
           t # <<>> => m # NoRow,
           alone[w] /\ lay[w] \in nodes =>
               /\ l = "map" => m = MetaOf(data[w]) /\ t = <<>>
               /\ l = "rec_get" => m = MetaOf(data[w]) /\ t = data[w].lines
    PROVE  StoreInv'
<1>1. /\ LocalsTyped /\ RowsTyped /\ NoOrphanRows /\ acked \in [Slots -> Contents \cup {NoRow}]
      /\ AtItsPlace(w)
  BY TypesByPart DEF StoreInv
<1>2. /\ UNCHANGED <<nodes, nextLayer, files, blocks, lay, alone, acked, file, data, index, reclay>>
      /\ pc' = [pc EXCEPT ![w] = l]
  BY DEF treeVars, ghosts, Goto
<1>3. /\ data[w] \in Texts /\ data[w] \notin Binaries /\ data[w] \in Contents
      /\ index[w] = 1 /\ Busy(w) /\ ~Deleting(w)
      /\ Slot(w) \in Slots /\ Slot(w)[1] = file[w] /\ Slot(w)[2] = lay[w]
  BY <1>1, ContentsAssumption
     DEF AtItsPlace, Contents, Busy, Deleting, Slot, Slots, LocalsTyped
<1>4. /\ pc'[w] = l /\ \A v \in Writers \ {w} : pc'[v] = pc[v]
      /\ l \in Labels /\ l \notin {"idle", "put", "del_blocks", "del_inode"}
  BY <1>1, <1>2 DEF LocalsTyped, Labels
<1>5. Continues(w)
  BY <1>2, <1>3, <1>4 DEF Continues, Deleting
<1>6. LocalsTyped'
  BY <1>1, <1>2, <1>4 DEF LocalsTyped
<1>7. /\ meta'[Slot(w)] = m /\ map'[Slot(w)] = t
      /\ \A s \in Slots : s # Slot(w) => meta'[s] = meta[s] /\ map'[s] = map[s]
      /\ RowsTyped'
  BY <1>1, <1>2, <1>3 DEF RowsTyped
<1>8. NoOrphanRows'
  BY <1>1, <1>2, <1>3, <1>7 DEF NoOrphanRows
<1>9. AtItsPlace(w)'
  BY <1>2, <1>3, <1>4 DEF AtItsPlace
<1>10. StoredSoFar(w)'
  <2>1. Slot(w)' = Slot(w)
    BY <1>2 DEF Slot
  <2>2. Recording(w)' => l = "rec_get"
    BY <1>4 DEF Recording
  <2> QED
    BY <1>2, <1>3, <1>4, <1>7, <2>1, <2>2 DEF StoredSoFar
<1>11. ASSUME NEW s \in Slots, NEW d, ~Overlap(w, s[1], s[2], d)
       PROVE  meta'[s] = meta[s] /\ map'[s] = map[s]
  <2>1. s # Slot(w)
    BY <1>3, <1>11 DEF Overlap
  <2> QED
    BY <1>7, <2>1
<1>12. \A s \in Slots : blocks'[s[1]] = blocks[s[1]] /\ acked'[s] = acked[s]
  BY <1>2
<1> QED
  BY <1>1, <1>2, <1>5, <1>6, <1>7, <1>8, <1>9, <1>10, <1>11, <1>12, ContinueKeeps

LEMMA TextKeeps ==
    ASSUME StoreInv, NEW w \in Writers,
           Unmap(w) \/ Unmeta(w) \/ CreateMeta(w) \/ InsertMap(w)
    PROVE  StoreInv'
<1>1. /\ LocalsTyped /\ RowsTyped /\ NoOrphanRows /\ AtItsPlace(w) /\ StoredSoFar(w)
  BY TypesByPart DEF StoreInv
<1>2. /\ Slot(w) \in Slots /\ Slot(w)[1] = file[w] /\ Slot(w)[2] = lay[w]
      /\ pc[w] \in {"unmap", "unmeta", "meta", "map"} /\ Busy(w)
      /\ UNCHANGED <<treeVars, nextLayer, lay>>
      /\ data[w] \in Texts
  BY <1>1 DEF Slot, Slots, LocalsTyped, Unmap, Unmeta, CreateMeta, InsertMap, Busy, AtItsPlace
<1>3. /\ meta[Slot(w)] \in MetaRows \cup {NoRow}
      /\ map[Slot(w)] \in {<<>>} \cup {d.lines : d \in Texts}
      /\ data[w].lines \in {<<>>} \cup {d.lines : d \in Texts}
      /\ meta[Slot(w)] # NoRow => file[w] \in files /\ lay[w] \in nodes
      /\ map[Slot(w)] # <<>> => meta[Slot(w)] # NoRow
      /\ meta = [meta EXCEPT ![Slot(w)] = meta[Slot(w)]]
      /\ map = [map EXCEPT ![Slot(w)] = map[Slot(w)]]
  BY <1>1, <1>2 DEF RowsTyped, NoOrphanRows
<1>4. MetaOf(data[w]) \in MetaRows /\ NoRow \notin MetaRows
  BY <1>2, ContentsAssumption DEF MetaOf, MetaRows, LineEndings
<1>5. CASE Fail(w)
  BY <1>2, <1>5, FailKeeps
<1>6. CASE Unmap(w)
  <2>1. /\ Goto(w, "unmeta") /\ UNCHANGED <<treeVars, nextLayer, files, blocks, lay, ghosts>>
        /\ meta' = [meta EXCEPT ![Slot(w)] = meta[Slot(w)]]
        /\ map' = [map EXCEPT ![Slot(w)] = <<>>]
    BY <1>3, <1>6 DEF Unmap
  <2> QED
    BY <1>2, <1>3, <2>1, TextStatementKeeps
<1>7. CASE Unmeta(w)
  <2>1. /\ Goto(w, "meta") /\ UNCHANGED <<treeVars, nextLayer, files, blocks, lay, ghosts>>
        /\ meta' = [meta EXCEPT ![Slot(w)] = NoRow]
        /\ map' = [map EXCEPT ![Slot(w)] = <<>>]
    BY <1>7 DEF Unmeta
  <2> QED
    BY <1>2, <1>3, <2>1, TextStatementKeeps
<1>8. CASE CreateMeta(w) /\ ~Fail(w)
  <2>1. /\ Goto(w, "map") /\ UNCHANGED <<treeVars, nextLayer, files, blocks, lay, ghosts>>
        /\ meta' = [meta EXCEPT ![Slot(w)] = MetaOf(data[w])]
        /\ map' = [map EXCEPT ![Slot(w)] = map[Slot(w)]]
        /\ MetaAllowed(w)
    BY <1>3, <1>8 DEF CreateMeta, MetaOf
  <2>2. file[w] \in files /\ lay[w] \in nodes /\ map[Slot(w)] = <<>>
    BY <1>3, <2>1 DEF MetaAllowed
  <2> QED
    BY <1>2, <1>3, <1>4, <2>1, <2>2, TextStatementKeeps
<1>9. CASE InsertMap(w) /\ ~Fail(w)
  <2> DEFINE t == IF data[w].lines = <<>> THEN map[Slot(w)] ELSE data[w].lines
  <2>1. /\ Goto(w, "rec_get") /\ UNCHANGED <<treeVars, nextLayer, files, blocks, lay, ghosts>>
        /\ meta' = [meta EXCEPT ![Slot(w)] = meta[Slot(w)]]
        /\ map' = [map EXCEPT ![Slot(w)] = t]
        /\ data[w].lines = <<>> \/ (meta[Slot(w)] # NoRow /\ map[Slot(w)] = <<>>)
        /\ pc[w] = "map"
    BY <1>3, <1>9 DEF InsertMap, MapAllowed
  <2>2. t \in {<<>>} \cup {d.lines : d \in Texts} /\ (t # <<>> => meta[Slot(w)] # NoRow)
    BY <1>3, <2>1
  <2>3. alone[w] /\ lay[w] \in nodes => meta[Slot(w)] = MetaOf(data[w]) /\ t = data[w].lines
    BY <1>1, <1>2, <2>1 DEF StoredSoFar
  <2> HIDE DEF t
  <2> QED
    BY <1>2, <1>3, <2>1, <2>2, <2>3, TextStatementKeeps
<1> QED
  BY <1>5, <1>6, <1>7, <1>8, <1>9
\* A statement of a binary write changes the blocks of its file.
LEMMA BinaryStatementKeeps ==
    ASSUME StoreInv, NEW w \in Writers, pc[w] \in {"clear", "put"},
           NEW l \in {"put", "rec_get"}, NEW k \in Indices,
           pc' = [pc EXCEPT ![w] = l], index' = [index EXCEPT ![w] = k],
           UNCHANGED <<file, data, reclay>>,
           UNCHANGED <<treeVars, nextLayer, files, meta, map, lay, ghosts>>,
           NEW b \in [Indices -> Chunks \cup {NoRow}],
           blocks' = [blocks EXCEPT ![file[w]] = b],
           file[w] \in files \/ (\A i \in Indices : b[i] = NoRow),
           l = "put" => k <= Len(data[w].chunks) /\ (alone[w] => b = FirstChunks(data[w], k - 1)),
           l = "rec_get" =>
               k = 1 /\ (alone[w] => b = FirstChunks(data[w], Len(data[w].chunks)))
    PROVE  StoreInv'
<1>1. /\ LocalsTyped /\ RowsTyped /\ NoOrphanRows /\ acked \in [Slots -> Contents \cup {NoRow}]
      /\ AtItsPlace(w)
  BY TypesByPart DEF StoreInv
<1>2. UNCHANGED <<nodes, nextLayer, files, meta, map, lay, alone, acked, file, data, reclay>>
  BY DEF treeVars, ghosts
<1>3. /\ data[w] \in Binaries /\ data[w] \notin Texts /\ data[w] \in Contents
      /\ Busy(w) /\ ~Deleting(w) /\ file[w] \in Files
  BY <1>1, ContentsAssumption DEF AtItsPlace, Contents, Busy, Deleting, LocalsTyped
<1>4. /\ pc'[w] = l /\ index'[w] = k
      /\ \A v \in Writers \ {w} : pc'[v] = pc[v] /\ index'[v] = index[v]
      /\ l \in Labels /\ l \notin {"idle", "del_blocks", "del_inode", "map"}
      /\ l \notin {"unmap", "unmeta", "meta"}
  BY <1>1 DEF LocalsTyped, Labels
<1>5. Continues(w)
  BY <1>2, <1>3, <1>4 DEF Continues, Deleting
<1>6. LocalsTyped'
  BY <1>1, <1>2, <1>4 DEF LocalsTyped
<1>7. /\ blocks'[file[w]] = b
      /\ \A f \in Files : f # file[w] => blocks'[f] = blocks[f]
      /\ RowsTyped'
  BY <1>1, <1>2, <1>3 DEF RowsTyped
<1>8. NoOrphanRows'
  BY <1>1, <1>2, <1>3, <1>7 DEF NoOrphanRows
<1>9. AtItsPlace(w)'
  BY <1>2, <1>3, <1>4 DEF AtItsPlace
<1>10. StoredSoFar(w)'
  <2>1. Recording(w)' => l = "rec_get"
    BY <1>4 DEF Recording
  <2> QED
    BY <1>2, <1>3, <1>4, <1>7, <2>1 DEF StoredSoFar, FirstChunks
<1>11. ASSUME NEW s \in Slots, NEW d \in Binaries, ~Overlap(w, s[1], s[2], d)
       PROVE  blocks'[s[1]] = blocks[s[1]]
  <2>1. s[1] # file[w] /\ s[1] \in Files
    BY <1>3, <1>11 DEF Overlap, Slots
  <2> QED
    BY <1>7, <2>1
<1>12. \A s \in Slots : meta'[s] = meta[s] /\ map'[s] = map[s] /\ acked'[s] = acked[s]
  BY <1>2
<1> QED
  BY <1>1, <1>2, <1>5, <1>6, <1>7, <1>8, <1>9, <1>10, <1>11, <1>12, ContinueKeeps

LEMMA BinaryKeeps ==
    ASSUME StoreInv, NEW w \in Writers, ClearBlocks(w) \/ PutBlock(w)
    PROVE  StoreInv'
<1>1. /\ LocalsTyped /\ RowsTyped /\ AtItsPlace(w) /\ StoredSoFar(w)
  BY TypesByPart DEF StoreInv
<1>2. /\ pc[w] \in {"clear", "put"} /\ Busy(w) /\ data[w] \in Binaries
      /\ UNCHANGED <<treeVars, nextLayer, lay>> /\ file[w] \in Files
  BY <1>1 DEF ClearBlocks, PutBlock, Busy, AtItsPlace, LocalsTyped
<1>3. /\ data[w].chunks \in Seq(Chunks) /\ Len(data[w].chunks) \in Indices
      /\ MaxChunks \in Nat \ {0} /\ index[w] \in Indices
      /\ \A i \in 1..Len(data[w].chunks) : data[w].chunks[i] \in Chunks
  BY <1>1, <1>2, ContentsAssumption DEF LocalsTyped
<1>4. CASE Fail(w)
  BY <1>2, <1>4, FailKeeps
<1>5. CASE ClearBlocks(w)
  <2>1. PICK b : b = [i \in Indices |-> NoRow]
    OBVIOUS
  <2>2. /\ b \in [Indices -> Chunks \cup {NoRow}] /\ \A i \in Indices : b[i] = NoRow
        /\ b = FirstChunks(data[w], 1 - 1)
    BY <2>1 DEF FirstChunks, Indices
  <2>3. /\ pc' = [pc EXCEPT ![w] = "put"] /\ index' = [index EXCEPT ![w] = 1]
        /\ UNCHANGED <<file, data, reclay>>
        /\ UNCHANGED <<treeVars, nextLayer, files, meta, map, lay, ghosts>>
        /\ blocks' = [blocks EXCEPT ![file[w]] = b]
    BY <1>1, <1>5, <2>1 DEF ClearBlocks, Goto, LocalsTyped, AtItsPlace
  <2>4. 1 \in Indices /\ 1 <= Len(data[w].chunks)
    BY <1>3 DEF Indices
  <2> QED
    BY <1>2, <2>2, <2>3, <2>4, BinaryStatementKeeps
<1>6. CASE PutBlock(w) /\ ~Fail(w)
  <2>1. PICK b : b = [blocks[file[w]] EXCEPT ![index[w]] = data[w].chunks[index[w]]]
    OBVIOUS
  <2>2. PICK l \in {"put", "rec_get"} : l = IF LastChunk(w) THEN "rec_get" ELSE "put"
    OBVIOUS
  <2>3. PICK k : k = IF LastChunk(w) THEN 1 ELSE index[w] + 1
    OBVIOUS
  <2>4. /\ pc[w] = "put" /\ file[w] \in files
        /\ pc' = [pc EXCEPT ![w] = l] /\ index' = [index EXCEPT ![w] = k]
        /\ UNCHANGED <<file, data, reclay>>
        /\ UNCHANGED <<treeVars, nextLayer, files, meta, map, lay, ghosts>>
        /\ blocks' = [blocks EXCEPT ![file[w]] = b]
    BY <1>1, <1>2, <1>6, <2>1, <2>2, <2>3 DEF PutBlock, LocalsTyped, RowsTyped
  <2>5. index[w] <= Len(data[w].chunks) /\ index[w] \in 1..Len(data[w].chunks)
    BY <1>1, <1>3, <2>4 DEF AtItsPlace, Indices
  <2>6. b \in [Indices -> Chunks \cup {NoRow}]
    BY <1>1, <1>2, <1>3, <2>1, <2>5 DEF RowsTyped
  <2>7. alone[w] => b = FirstChunks(data[w], index[w])
    <3>1. SUFFICES ASSUME alone[w] PROVE b = FirstChunks(data[w], index[w])
      OBVIOUS
    <3>2. blocks[file[w]] = FirstChunks(data[w], index[w] - 1)
      BY <1>1, <1>2, <2>4, <3>1 DEF StoredSoFar
    <3>3. \A i \in Indices : b[i] = FirstChunks(data[w], index[w])[i]
      BY <1>1, <1>2, <1>3, <2>1, <3>2 DEF FirstChunks, Indices, RowsTyped
    <3> QED
      BY <2>6, <3>3 DEF FirstChunks
  <2>8. CASE LastChunk(w)
    <3>1. l = "rec_get" /\ k = 1 /\ k \in Indices /\ index[w] = Len(data[w].chunks)
      BY <1>3, <2>2, <2>3, <2>8 DEF LastChunk, Indices
    <3> QED
      BY <1>2, <2>4, <2>6, <2>7, <3>1, BinaryStatementKeeps
  <2>9. CASE ~LastChunk(w)
    <3>1. /\ l = "put" /\ k = index[w] + 1 /\ k - 1 = index[w] /\ k \in Indices
          /\ k <= Len(data[w].chunks)
      BY <1>3, <2>2, <2>3, <2>5, <2>9 DEF LastChunk, Indices
    <3> QED
      BY <1>2, <2>4, <2>6, <2>7, <3>1, BinaryStatementKeeps
  <2> QED
    BY <2>8, <2>9
<1> QED
  BY <1>4, <1>5, <1>6
\* The acknowledgement: what the request wrote is stored, and it is done with it.
LEMMA UpdateInodeKeeps ==
    ASSUME StoreInv, NEW w \in Writers, UpdateInode(w)
    PROVE  StoreInv'
<1>1. /\ LocalsTyped /\ RowsTyped /\ NoOrphanRows /\ acked \in [Slots -> Contents \cup {NoRow}]
      /\ AtItsPlace(w) /\ StoredSoFar(w) /\ Undisturbed(w) /\ lay[w] < nextLayer
  BY TypesByPart DEF StoreInv, LayersFresh
<1>2. /\ Busy(w) /\ Recording(w) /\ Writing(w) /\ data[w] \in Contents
      /\ UNCHANGED <<treeVars, nextLayer, lay>>
  BY <1>1 DEF UpdateInode, Busy, Recording, Writing, Deleting, AtItsPlace
<1>3. CASE Fail(w)
  BY <1>2, <1>3, FailKeeps
<1>4. CASE ~Fail(w)
  <2>1. /\ acked' = IF alone[w] THEN [acked EXCEPT ![Slot(w)] = data[w]] ELSE acked
        /\ pc' = [pc EXCEPT ![w] = "idle"] /\ data' = [data EXCEPT ![w] = Nothing]
        /\ index' = [index EXCEPT ![w] = 1] /\ reclay' = [reclay EXCEPT ![w] = None]
        /\ alone' = [alone EXCEPT ![w] = TRUE]
        /\ UNCHANGED <<file, files, meta, map, blocks, nodes, nextLayer, lay>>
    BY <1>4 DEF UpdateInode, Done, rows, treeVars
  <2>2. /\ pc'[w] = "idle" /\ index'[w] = 1
        /\ alone' \in [Writers -> BOOLEAN] /\ \A v \in Writers \ {w} : alone'[v] = alone[v]
    <3>1. alone \in [Writers -> BOOLEAN]
      BY <1>1 DEF LocalsTyped
    <3> QED
      BY <1>1, <2>1, <3>1, AloneReset DEF LocalsTyped
  <2>3. Continues(w)
    BY <1>1, <1>2, <2>1, <2>2 DEF Continues, LocalsTyped
  <2>4. 1 \in Indices /\ "idle" \in Labels
    BY ContentsAssumption DEF Indices, Labels
  <2>5. LocalsTyped'
    BY <1>1, <2>1, <2>2, <2>4 DEF LocalsTyped
  <2>6. AtItsPlace(w)' /\ StoredSoFar(w)'
    BY <2>2 DEF AtItsPlace, StoredSoFar, Writing, Busy, Recording
  <2>7. RowsTyped' /\ NoOrphanRows'
    BY <1>1, <2>1 DEF RowsTyped, NoOrphanRows
  <2>8. Slot(w) \in Slots /\ Slot(w)[1] = file[w] /\ Slot(w)[2] = lay[w]
    BY <1>1 DEF Slot, Slots, LocalsTyped
  <2>9. /\ acked' \in [Slots -> Contents \cup {NoRow}]
        /\ \A s \in Slots : acked'[s] = acked[s] \/ (alone[w] /\ s = Slot(w) /\ acked'[s] = data[w])
    BY <1>1, <1>2, <2>1, <2>8
  <2>10. ASSUME NEW s \in Slots, alone[w], s = Slot(w), acked'[s] = data[w]
         PROVE  AckedStored(s)' /\ s[2] < nextLayer
    <3>1. ASSUME NEW v \in Writers, OverlapNext(v, file[w], lay[w], data[w]) PROVE FALSE
      <4>1. Overlap(v, file[w], lay[w], data[w]) /\ v # w
        BY <2>2, <2>3, <3>1, ContinueOverlaps DEF OverlapNext, Busy
      <4> QED
        BY <1>1, <1>2, <2>10, <4>1 DEF Undisturbed
    <3>2. /\ data[w] \in Texts /\ lay[w] \in nodes =>
                meta[Slot(w)] = MetaOf(data[w]) /\ map[Slot(w)] = data[w].lines
          /\ data[w] \in Binaries =>
                blocks[file[w]] = FirstChunks(data[w], Len(data[w].chunks))
      BY <1>1, <1>2, <2>10 DEF StoredSoFar
    <3>3. \A v \in Writers : ~Overlap(v, s[1], s[2], acked[s])'
      BY <2>1, <2>8, <2>10, <3>1 DEF OverlapNext, Overlap, Busy, Deleting
    <3> QED
      BY <1>1, <2>1, <2>8, <2>10, <3>2, <3>3 DEF AckedStored, FirstChunks, MetaOf
  <2>11. \A s \in Slots : acked'[s] = acked[s] \/ (AckedStored(s)' /\ s[2] < nextLayer)
    BY <2>9, <2>10
  <2> QED
    BY <1>2, <2>1, <2>3, <2>5, <2>6, <2>7, <2>9, <2>11, ContinueKeeps
<1> QED
  BY <1>3, <1>4

\* A deletion works on everything the file has.
LEMMA DeletionKeeps ==
    ASSUME StoreInv, NEW w \in Writers, DeleteBlocks(w) \/ DeleteInode(w)
    PROVE  StoreInv'
<1>1. /\ LocalsTyped /\ RowsTyped /\ NoOrphanRows /\ acked \in [Slots -> Contents \cup {NoRow}]
      /\ AtItsPlace(w)
  BY TypesByPart DEF StoreInv
<1>2. /\ Busy(w) /\ Deleting(w) /\ file[w] \in Files /\ index[w] = 1
      /\ UNCHANGED <<treeVars, nextLayer, nodes, lay, acked, file>>
  BY <1>1 DEF DeleteBlocks, DeleteInode, Busy, Deleting, AtItsPlace, LocalsTyped, treeVars, ghosts, Goto, Done
<1>3. \A s \in Slots : s \in Files \X LayerIds /\ s[1] \in Files
  BY DEF Slots
<1>4. ASSUME NEW s \in Slots, NEW d, ~Overlap(w, s[1], s[2], d) PROVE s[1] # file[w]
  BY <1>2, <1>4 DEF Overlap, Deleting
<1>5. /\ blocks' = [blocks EXCEPT ![file[w]] = [i \in Indices |-> NoRow]]
      /\ blocks' \in [Files -> [Indices -> Chunks \cup {NoRow}]]
      /\ \A i \in Indices : blocks'[file[w]][i] = NoRow
      /\ \A f \in Files : f # file[w] => blocks'[f] = blocks[f]
  BY <1>1, <1>2 DEF DeleteBlocks, DeleteInode, RowsTyped
<1>6. CASE DeleteBlocks(w)
  <2>1. /\ pc' = [pc EXCEPT ![w] = "del_inode"] /\ pc'[w] = "del_inode" /\ "del_inode" \in Labels
        /\ UNCHANGED <<data, index, reclay, files, meta, map, alone>>
    BY <1>1, <1>6 DEF DeleteBlocks, Goto, LocalsTyped, Labels, ghosts
  <2>2. Continues(w)
    BY <1>1, <1>2, <2>1 DEF Continues, LocalsTyped, Deleting
  <2>3. LocalsTyped'
    BY <1>1, <1>2, <2>1 DEF LocalsTyped
  <2>4. AtItsPlace(w)' /\ StoredSoFar(w)'
    BY <1>2, <2>1 DEF AtItsPlace, StoredSoFar, Writing, Busy, Recording, Deleting
  <2>5. RowsTyped' /\ NoOrphanRows'
    BY <1>1, <1>2, <1>5, <2>1 DEF RowsTyped, NoOrphanRows
  <2> QED
    BY <1>1, <1>2, <1>3, <1>4, <1>5, <2>1, <2>2, <2>3, <2>4, <2>5, ContinueKeeps
<1>7. CASE DeleteInode(w)
  <2>1. /\ pc' = [pc EXCEPT ![w] = "idle"] /\ data' = [data EXCEPT ![w] = Nothing]
        /\ index' = [index EXCEPT ![w] = 1] /\ reclay' = [reclay EXCEPT ![w] = None]
        /\ files' = files \ {file[w]}
        /\ meta' = [s \in Slots |-> IF s[1] = file[w] THEN NoRow ELSE meta[s]]
        /\ map' = [s \in Slots |-> IF s[1] = file[w] THEN <<>> ELSE map[s]]
        /\ alone' = [alone EXCEPT ![w] = TRUE]
    BY <1>7 DEF DeleteInode, Done
  <2>2. /\ pc'[w] = "idle" /\ index'[w] = 1 /\ 1 \in Indices /\ "idle" \in Labels
        /\ alone' \in [Writers -> BOOLEAN] /\ \A v \in Writers \ {w} : alone'[v] = alone[v]
    <3>1. alone \in [Writers -> BOOLEAN]
      BY <1>1 DEF LocalsTyped
    <3> QED
      BY <1>1, <2>1, <3>1, ContentsAssumption, AloneReset DEF LocalsTyped, Indices, Labels
  <2>3. Continues(w)
    BY <1>1, <1>2, <2>1, <2>2 DEF Continues, LocalsTyped
  <2>4. LocalsTyped'
    BY <1>1, <1>2, <2>1, <2>2 DEF LocalsTyped
  <2>5. AtItsPlace(w)' /\ StoredSoFar(w)'
    BY <2>2 DEF AtItsPlace, StoredSoFar, Writing, Busy, Recording
  <2>6. /\ \A s \in Slots : s[1] = file[w] => meta'[s] = NoRow /\ map'[s] = <<>>
        /\ \A s \in Slots : s[1] # file[w] => meta'[s] = meta[s] /\ map'[s] = map[s]
        /\ RowsTyped'
    BY <1>1, <1>5, <2>1 DEF RowsTyped
  <2>7. NoOrphanRows'
    BY <1>1, <1>2, <1>5, <2>1, <2>6 DEF NoOrphanRows
  <2> QED
    BY <1>1, <1>2, <1>3, <1>4, <1>5, <2>1, <2>3, <2>4, <2>5, <2>6, <2>7, ContinueKeeps
<1> QED
  BY <1>6, <1>7
-----------------------------------------------------------------------------
(* A request begins                                                        *)

\* A request that begins ends the account of everyone whose rows it may touch.
LEMMA BeginKeeps ==
    ASSUME StoreInv, NEW w \in Writers, pc[w] = "idle", NEW f \in files,
           NEW l \in {"read", "del_blocks"}, NEW d \in Contents \cup {Nothing},
           pc' = [pc EXCEPT ![w] = l], file' = [file EXCEPT ![w] = f],
           data' = [data EXCEPT ![w] = d],
           UNCHANGED <<treeVars, nextLayer, rows, lay, index, reclay>>,
           alone' \in [Writers -> BOOLEAN],
           l = "read" => d \in Contents,
           l = "read" /\ alone'[w] => \A x \in Writers \ {w} : ~Overlap(x, f, lay[w], d),
           \A v \in Writers \ {w} : alone'[v] =>
               alone[v] /\ (Writing(v) => ~OverlapNext(w, file[v], lay[v], data[v])),
           acked' \in [Slots -> Contents \cup {NoRow}],
           \A s \in Slots : acked'[s] # NoRow =>
               acked'[s] = acked[s] /\ ~OverlapNext(w, s[1], s[2], acked[s])
    PROVE  StoreInv'
<1>1. /\ LayersTyped /\ LocalsTyped /\ RowsTyped /\ NoOrphanRows /\ AtItsPlace(w)
  BY TypesByPart DEF StoreInv
<1>2. UNCHANGED <<nodes, up, frozen, pos, nextLayer, files, meta, map, blocks, lay, index, reclay>>
  BY DEF treeVars, rows
<1>3. /\ pc'[w] = l /\ file'[w] = f /\ data'[w] = d /\ index[w] = 1 /\ l \in Labels /\ f \in Files
      /\ \A v \in Writers \ {w} : pc'[v] = pc[v] /\ file'[v] = file[v] /\ data'[v] = data[v]
  BY <1>1 DEF LocalsTyped, RowsTyped, AtItsPlace, Labels
<1>4. TypeOK'
  BY <1>1, <1>2, <1>3 DEF TypeOK, LayersTyped, LocalsTyped, RowsTyped
<1>5. ASSUME NEW v \in Writers PROVE AtItsPlace(v)'
  <2>1. CASE v = w
    BY <1>2, <1>3, <2>1 DEF AtItsPlace, Writing, Busy, Deleting
  <2>2. CASE v # w
    <3>1. AtItsPlace(v)
      BY DEF StoreInv
    <3> QED
      BY <1>2, <1>3, <2>2, <3>1 DEF AtItsPlace, Writing, Busy, Deleting
  <2> QED
    BY <2>1, <2>2
<1>6. LayersFresh'
  BY <1>2 DEF StoreInv, LayersFresh
<1>7. NoOrphanRows'
  BY <1>1, <1>2 DEF NoOrphanRows
<1>8. ASSUME NEW x \in Writers \ {w}, NEW g, NEW m, NEW c, OverlapNext(x, g, m, c)
      PROVE  Overlap(x, g, m, c)
  BY <1>2, <1>3, <1>8 DEF Overlap, OverlapNext, Busy, Deleting
<1>9. ASSUME NEW v \in Writers PROVE Undisturbed(v)'
  <2> SUFFICES ASSUME alone'[v], Writing(v)'
               PROVE  /\ file'[v] \in files'
                      /\ \A x \in Writers \ {v} : ~OverlapNext(x, file'[v], lay'[v], data'[v])
    BY DEF Undisturbed, Overlap, OverlapNext, Busy, Deleting
  <2>1. CASE v = w
    <3>1. l = "read"
      BY <1>3, <2>1 DEF Writing, Deleting
    <3> QED
      BY <1>2, <1>3, <1>8, <2>1, <3>1
  <2>2. CASE v # w
    <3>1. /\ alone[v] /\ Writing(v) /\ ~OverlapNext(w, file[v], lay[v], data[v])
          /\ Undisturbed(v)
      BY <1>3, <2>2 DEF StoreInv, Writing, Busy, Deleting
    <3>2. /\ file[v] \in files
          /\ \A x \in Writers \ {v} : ~Overlap(x, file[v], lay[v], data[v])
      BY <3>1 DEF Undisturbed
    <3>3. ASSUME NEW x \in Writers \ {v} PROVE ~OverlapNext(x, file[v], lay[v], data[v])
      BY <1>8, <3>1, <3>2
    <3> QED
      BY <1>2, <1>3, <2>2, <3>2, <3>3
  <2> QED
    BY <2>1, <2>2
<1>10. ASSUME NEW v \in Writers PROVE StoredSoFar(v)'
  <2>1. CASE v = w
    BY <1>3, <2>1 DEF StoredSoFar, Recording
  <2>2. CASE v # w
    <3>1. StoredSoFar(v) /\ (alone'[v] => alone[v])
      BY <2>2 DEF StoreInv
    <3>2. Slot(v)' = Slot(v) /\ (Recording(v)' <=> Recording(v))
      BY <1>2, <1>3, <2>2 DEF Slot, Recording
    <3> QED
      BY <1>2, <1>3, <2>2, <3>1, <3>2 DEF StoredSoFar
  <2> QED
    BY <2>1, <2>2
<1>11. ASSUME NEW s \in Slots PROVE AckedStored(s)'
  <2> SUFFICES ASSUME acked'[s] # NoRow PROVE AckedStored(s)'
    BY DEF AckedStored
  <2>1. /\ acked'[s] = acked[s] /\ acked[s] # NoRow /\ ~OverlapNext(w, s[1], s[2], acked[s])
        /\ AckedStored(s)
    BY DEF StoreInv
  <2>2. ASSUME NEW v \in Writers PROVE ~OverlapNext(v, s[1], s[2], acked[s])
    BY <1>8, <2>1 DEF AckedStored
  <2>3. \A v \in Writers : ~Overlap(v, s[1], s[2], acked[s])'
    BY <2>1, <2>2 DEF OverlapNext, Overlap, Busy, Deleting
  <2> QED
    BY <1>2, <2>1, <2>3 DEF AckedStored
<1> QED
  BY <1>4, <1>5, <1>6, <1>7, <1>9, <1>10, <1>11 DEF StoreInv

LEMMA WriteKeeps ==
    ASSUME StoreInv, NEW w \in Writers, NEW f \in Files, NEW d \in Contents, Write(w, f, d)
    PROVE  StoreInv'
<1>1. LocalsTyped /\ RowsTyped /\ acked \in [Slots -> Contents \cup {NoRow}]
  BY TypesByPart DEF StoreInv
<1>2. /\ pc[w] = "idle" /\ f \in files
      /\ pc' = [pc EXCEPT ![w] = "read"] /\ file' = [file EXCEPT ![w] = f]
      /\ data' = [data EXCEPT ![w] = d]
      /\ UNCHANGED <<treeVars, nextLayer, rows, lay, index, reclay>>
      /\ UNCHANGED lay
  BY DEF Write
<1>3. pc'[w] = "read" /\ file'[w] = f /\ data'[w] = d
  BY <1>1, <1>2 DEF LocalsTyped
<1>4. /\ alone' \in [Writers -> BOOLEAN]
      /\ alone'[w] => \A x \in Writers \ {w} : ~Overlap(x, f, lay[w], d)
      /\ \A v \in Writers \ {w} : alone'[v] => alone[v] /\ ~Overlap(v, f, lay[w], d)
  <2>1. alone' = [v \in Writers |->
                   IF v = w THEN \A x \in Writers \ {w} : ~Overlap(x, f, lay[w], d)
                   ELSE alone[v] /\ ~Overlap(v, f, lay[w], d)]
    BY DEF Write
  <2>2. \A v \in Writers : alone[v] \in BOOLEAN
    BY <1>1 DEF LocalsTyped
  <2> QED
    BY <2>1, <2>2
<1>5. ASSUME NEW v \in Writers \ {w}, alone'[v], Writing(v)
      PROVE  ~OverlapNext(w, file[v], lay[v], data[v])
  BY <1>2, <1>3, <1>4, <1>5 DEF Overlap, OverlapNext, Writing, Deleting
<1>6. acked' = [s \in Slots |->
                   IF \/ s = <<f, lay[w]>>
                      \/ s[1] = f /\ {acked[s], d} \subseteq Binaries
                   THEN NoRow ELSE acked[s]]
  BY DEF Write
<1>7. acked' \in [Slots -> Contents \cup {NoRow}]
  BY <1>1, <1>6
<1>8. ASSUME NEW s \in Slots, acked'[s] # NoRow
      PROVE  acked'[s] = acked[s] /\ ~OverlapNext(w, s[1], s[2], acked[s])
  <2>1. /\ acked'[s] = acked[s] /\ s # <<f, lay[w]>>
        /\ ~(s[1] = f /\ {acked[s], d} \subseteq Binaries)
    BY <1>6, <1>8
  <2>2. s = <<s[1], s[2]>>
    BY DEF Slots
  <2> QED
    BY <1>2, <1>3, <2>1, <2>2 DEF OverlapNext, Deleting
<1> QED
  BY <1>2, <1>4, <1>5, <1>7, <1>8, BeginKeeps

LEMMA DeleteKeeps ==
    ASSUME StoreInv, NEW w \in Writers, NEW f \in Files, Delete(w, f)
    PROVE  StoreInv'
<1>1. LocalsTyped /\ RowsTyped /\ acked \in [Slots -> Contents \cup {NoRow}]
  BY TypesByPart DEF StoreInv
<1>2. /\ pc[w] = "idle" /\ f \in files
      /\ pc' = [pc EXCEPT ![w] = "del_blocks"] /\ file' = [file EXCEPT ![w] = f]
      /\ UNCHANGED <<treeVars, nextLayer, rows, lay, index, reclay>>
      /\ data[w] \in Contents \cup {Nothing} /\ data' = [data EXCEPT ![w] = data[w]]
  BY <1>1 DEF Delete, LocalsTyped
<1>3. pc'[w] = "del_blocks" /\ file'[w] = f
  BY <1>1, <1>2 DEF LocalsTyped
<1>4. /\ alone' \in [Writers -> BOOLEAN]
      /\ \A v \in Writers \ {w} : alone'[v] => alone[v] /\ (Busy(v) => file[v] # f)
  <2>1. alone' = [v \in Writers |-> alone[v] /\ (Busy(v) => file[v] # f)]
    BY DEF Delete
  <2>2. \A v \in Writers : alone[v] \in BOOLEAN
    BY <1>1 DEF LocalsTyped
  <2> QED
    BY <2>1, <2>2
<1>5. ASSUME NEW v \in Writers \ {w}, alone'[v], Writing(v)
      PROVE  ~OverlapNext(w, file[v], lay[v], data[v])
  BY <1>3, <1>4, <1>5 DEF OverlapNext, Writing
<1>6. /\ acked' \in [Slots -> Contents \cup {NoRow}]
      /\ \A s \in Slots : acked'[s] # NoRow =>
             acked'[s] = acked[s] /\ ~OverlapNext(w, s[1], s[2], acked[s])
  BY <1>1, <1>3 DEF Delete, OverlapNext
<1> QED
  BY <1>2, <1>4, <1>5, <1>6, BeginKeeps

LEMMA OpenKeeps ==
    ASSUME StoreInv, NEW w \in Writers, Open(w)
    PROVE  StoreInv'
<1>1. /\ LayersTyped /\ LocalsTyped /\ RowsTyped /\ NoOrphanRows
      /\ acked \in [Slots -> Contents \cup {NoRow}]
  BY TypesByPart DEF StoreInv
<1>2. /\ UNCHANGED <<nodes, up, frozen, pos, nextLayer, files, meta, map, blocks>>
      /\ UNCHANGED <<pc, file, data, index, reclay, alone, acked>>
      /\ lay' = [lay EXCEPT ![w] = pos] /\ pc[w] = "idle"
  BY DEF Open, treeVars, rows, request, ghosts
<1>3. \A v \in Writers \ {w} : lay'[v] = lay[v]
  BY <1>1, <1>2 DEF LocalsTyped
<1>4. TypeOK'
  BY <1>1, <1>2 DEF TypeOK, LayersTyped, LocalsTyped, RowsTyped
<1>5. \A v \in Writers : AtItsPlace(v)'
  BY <1>2 DEF StoreInv, AtItsPlace, Writing, Busy, Deleting
<1>6. LayersFresh'
  BY <1>1, <1>2 DEF StoreInv, LayersFresh, LocalsTyped, LayersTyped
<1>7. NoOrphanRows'
  BY <1>1, <1>2 DEF NoOrphanRows
<1>8. ASSUME NEW x \in Writers, NEW g, NEW m, NEW c, OverlapNext(x, g, m, c)
      PROVE  Overlap(x, g, m, c)
  BY <1>2, <1>3, <1>8 DEF Overlap, OverlapNext, Busy, Deleting
<1>9. ASSUME NEW v \in Writers PROVE Undisturbed(v)' /\ StoredSoFar(v)'
  <2>1. CASE v = w
    BY <1>2, <2>1 DEF Undisturbed, StoredSoFar, Writing, Busy, Recording
  <2>2. CASE v # w
    <3>1. Undisturbed(v) /\ StoredSoFar(v) /\ lay'[v] = lay[v]
      BY <1>3, <2>2 DEF StoreInv
    <3>2. Slot(v)' = Slot(v) /\ (Recording(v)' <=> Recording(v)) /\ (Writing(v)' <=> Writing(v))
      BY <1>2, <3>1 DEF Slot, Recording, Writing, Busy, Deleting
    <3>3. StoredSoFar(v)'
      BY <1>2, <3>1, <3>2 DEF StoredSoFar
    <3>4. alone[v] /\ Writing(v) =>
             \A x \in Writers \ {v} : ~OverlapNext(x, file[v], lay[v], data[v])
      BY <1>8, <3>1 DEF Undisturbed
    <3>5. Undisturbed(v)'
      BY <1>2, <3>1, <3>2, <3>4 DEF Undisturbed, Overlap, OverlapNext, Busy, Deleting
    <3> QED
      BY <3>3, <3>5
  <2> QED
    BY <2>1, <2>2
<1>10. ASSUME NEW s \in Slots PROVE AckedStored(s)'
  <2>1. AckedStored(s)
    BY DEF StoreInv
  <2>2. acked[s] # NoRow => \A v \in Writers : ~OverlapNext(v, s[1], s[2], acked[s])
    BY <1>8, <2>1 DEF AckedStored
  <2>3. acked[s] # NoRow => \A v \in Writers : ~Overlap(v, s[1], s[2], acked[s])'
    BY <1>2, <2>2 DEF OverlapNext, Overlap, Busy, Deleting
  <2> QED
    BY <1>2, <2>1, <2>3 DEF AckedStored
<1> QED
  BY <1>4, <1>5, <1>6, <1>7, <1>9, <1>10 DEF StoreInv
-----------------------------------------------------------------------------
(* The layers move                                                         *)

\* An identity is never used again, so a layer that exists after a step and is
\* known to a handle or an acknowledgement is the one it knows.
LEMMA LayersMoveKeeps ==
    ASSUME StoreInv, UNCHANGED <<files, blocks, lay, request, alone>>,
           LayersTyped', RowsTyped', acked' \in [Slots -> Contents \cup {NoRow}],
           LayersFresh', NoOrphanRows',
           \A s \in Slots : s[2] \in nodes' /\ s[2] < nextLayer =>
               s[2] \in nodes /\ meta'[s] = meta[s] /\ map'[s] = map[s],
           \A s \in Slots : acked'[s] = acked[s] \/ acked'[s] = NoRow
    PROVE  StoreInv'
<1>1. LocalsTyped /\ LayersFresh
  BY TypesByPart DEF StoreInv
<1>2. UNCHANGED <<files, blocks, lay, pc, file, data, index, reclay, alone>>
  BY DEF request
<1>3. TypeOK'
  BY <1>1, <1>2 DEF TypeOK, LayersTyped, RowsTyped, LocalsTyped
<1>4. ASSUME NEW v \in Writers PROVE AtItsPlace(v)' /\ Undisturbed(v)' /\ StoredSoFar(v)'
  <2>1. /\ AtItsPlace(v) /\ Undisturbed(v) /\ StoredSoFar(v) /\ lay[v] < nextLayer
        /\ Slot(v) \in Slots /\ Slot(v)[2] = lay[v]
    BY <1>1 DEF StoreInv, LayersFresh, LocalsTyped, Slot, Slots
  <2>2. AtItsPlace(v)'
    BY <1>2, <2>1 DEF AtItsPlace, Writing, Busy, Deleting
  <2>3. Undisturbed(v)'
    BY <1>2, <2>1 DEF Undisturbed, Overlap, Writing, Busy, Deleting
  <2>4. Slot(v)' = Slot(v) /\ (Recording(v)' <=> Recording(v))
    BY <1>2 DEF Slot, Recording
  <2>5. lay[v] \in nodes' =>
          lay[v] \in nodes /\ meta'[Slot(v)] = meta[Slot(v)] /\ map'[Slot(v)] = map[Slot(v)]
    BY <2>1
  <2>6. StoredSoFar(v)'
    BY <1>2, <2>1, <2>4, <2>5 DEF StoredSoFar
  <2> QED
    BY <2>2, <2>3, <2>6
<1>5. ASSUME NEW s \in Slots, acked'[s] # NoRow PROVE AckedStored(s)'
  <2>1. AckedStored(s) /\ acked'[s] = acked[s] /\ s[2] < nextLayer
    BY <1>1, <1>5 DEF StoreInv, LayersFresh
  <2>2. \A v \in Writers : ~Overlap(v, s[1], s[2], acked[s])'
    BY <1>2, <1>5, <2>1 DEF AckedStored, Overlap, Busy
  <2>3. s[2] \in nodes' => s[2] \in nodes /\ meta'[s] = meta[s] /\ map'[s] = map[s]
    BY <2>1
  <2> QED
    BY <1>2, <1>5, <2>1, <2>2, <2>3 DEF AckedStored
<1>6. \A s \in Slots : AckedStored(s)'
  BY <1>5 DEF AckedStored
<1> QED
  BY <1>3, <1>4, <1>6 DEF StoreInv

LEMMA LayerStepKeeps ==
    ASSUME StoreInv, NEW l \in LayerIds,
           NewLayer(l) \/ FreezeLayer(l) \/ SwitchLayer(l) \/ DropLayer(l)
    PROVE  StoreInv'
<1>1. /\ LayersTyped /\ RowsTyped /\ acked \in [Slots -> Contents \cup {NoRow}]
      /\ LayersFresh /\ NoOrphanRows
  BY TypesByPart DEF StoreInv
<1>2. UNCHANGED <<files, blocks, lay, request, alone>>
  BY DEF NewLayer, FreezeLayer, SwitchLayer, DropLayer, rows, ghosts
<1>3. \A k \in LayerIds : k \in Nat
  BY LayersAssumption DEF LayerIds
<1>4. ASSUME UNCHANGED <<rows, ghosts>>, nodes \subseteq nodes', LayersTyped', LayersFresh',
             \A k \in nodes' : k \in nodes \/ k = nextLayer
      PROVE  StoreInv'
  <2>1. UNCHANGED <<meta, map, blocks, files, acked>>
    BY <1>4 DEF rows, ghosts
  <2>2. RowsTyped' /\ NoOrphanRows' /\ acked' \in [Slots -> Contents \cup {NoRow}]
    BY <1>1, <1>4, <2>1 DEF RowsTyped, NoOrphanRows
  <2>3. \A s \in Slots : s[2] \in nodes' /\ s[2] < nextLayer => s[2] \in nodes
    BY <1>1, <1>3, <1>4 DEF Slots, LayersFresh
  <2> QED
    BY <1>2, <1>4, <2>1, <2>2, <2>3, LayersMoveKeeps
<1>5. CASE NewLayer(l)
  <2>1. /\ nextLayer \in LayerIds /\ nodes' = nodes \cup {nextLayer} /\ l \in nodes
        /\ up' = [up EXCEPT ![nextLayer] = l] /\ UNCHANGED <<frozen, pos>>
        /\ nextLayer' = nextLayer + 1 /\ UNCHANGED <<rows, lay, ghosts>>
    BY <1>5 DEF NewLayer, AddChild
  <2>2. LayersTyped'
    BY <1>1, <2>1 DEF LayersTyped
  <2>3. UNCHANGED acked
    BY <2>1 DEF ghosts
  <2>4. LayersFresh'
    <3>1. nextLayer \in Nat /\ nextLayer' = nextLayer + 1
      BY <1>3, <2>1
    <3>2. \A k \in nodes' : k < nextLayer'
      BY <1>1, <1>3, <2>1, <3>1 DEF LayersFresh, LayersTyped
    <3>3. \A w \in Writers : lay'[w] < nextLayer'
      <4>1. \A w \in Writers : lay[w] \in Nat
        BY <1>3, TypesByPart DEF StoreInv, LocalsTyped
      <4> QED
        BY <1>1, <2>1, <3>1, <4>1 DEF LayersFresh
    <3>4. \A s \in Slots : acked'[s] # NoRow => s[2] < nextLayer'
      BY <1>1, <1>3, <2>3, <3>1 DEF LayersFresh, Slots
    <3> QED
      BY <3>1, <3>2, <3>3, <3>4 DEF LayersFresh
  <2> QED
    BY <1>4, <2>1, <2>2, <2>4
<1>6. CASE FreezeLayer(l) \/ SwitchLayer(l)
  <2>1. /\ UNCHANGED <<nodes, up, nextLayer, rows, lay, ghosts>> /\ l \in nodes
        /\ frozen' \subseteq frozen \cup {l} /\ pos' \in {l, pos}
    BY <1>6 DEF FreezeLayer, SwitchLayer, Freeze, MoveTo
  <2>2. LayersTyped' /\ LayersFresh'
    BY <1>1, <2>1 DEF LayersTyped, LayersFresh, ghosts
  <2> QED
    BY <1>4, <2>1, <2>2
<1>7. CASE DropLayer(l)
  <2>1. /\ nodes' = nodes \ {l} /\ frozen' = frozen \ {l} /\ l # pos /\ UNCHANGED <<up, pos>>
        /\ meta' = [s \in Slots |-> IF s[2] = l THEN NoRow ELSE meta[s]]
        /\ map' = [s \in Slots |-> IF s[2] = l THEN <<>> ELSE map[s]]
        /\ acked' = [s \in Slots |-> IF s[2] = l THEN NoRow ELSE acked[s]]
        /\ UNCHANGED <<nextLayer, files, blocks, lay>>
    BY <1>7 DEF DropLayer, RemoveLeaf
  <2>2. LayersTyped'
    BY <1>1, <2>1 DEF LayersTyped
  <2>3. RowsTyped' /\ acked' \in [Slots -> Contents \cup {NoRow}]
    BY <1>1, <2>1 DEF RowsTyped
  <2>4. LayersFresh'
    BY <1>1, <2>1 DEF LayersFresh
  <2>5. NoOrphanRows'
    BY <1>1, <2>1 DEF NoOrphanRows
  <2>6. \A s \in Slots : s[2] \in nodes' =>
            s[2] \in nodes /\ meta'[s] = meta[s] /\ map'[s] = map[s]
    BY <2>1
  <2>7. \A s \in Slots : acked'[s] = acked[s] \/ acked'[s] = NoRow
    BY <2>1
  <2> QED
    BY <1>2, <2>2, <2>3, <2>4, <2>5, <2>6, <2>7, LayersMoveKeeps
<1> QED
  BY <1>5, <1>6, <1>7

-----------------------------------------------------------------------------
(* The invariant                                                           *)

LEMMA StoreInit == Init => StoreInv
<1> SUFFICES ASSUME Init PROVE StoreInv
  OBVIOUS
<1>1. /\ 1 \in LayerIds /\ 1 \in Indices /\ "idle" \in Labels
      /\ Nothing \in Contents \cup {Nothing} /\ NoRow \in Chunks \cup {NoRow}
  BY LayersAssumption, ContentsAssumption DEF LayerIds, Indices, Labels
<1>2. TypeOK
  BY <1>1 DEF Init, TypeOK
<1>3. \A w \in Writers : pc[w] = "idle" /\ index[w] = 1 /\ lay[w] = 1
  BY DEF Init
<1>4. \A w \in Writers : AtItsPlace(w) /\ Undisturbed(w) /\ StoredSoFar(w)
  BY <1>3 DEF AtItsPlace, Undisturbed, StoredSoFar, Writing, Busy, Recording
<1>5. \A s \in Slots : acked[s] = NoRow /\ meta[s] = NoRow /\ map[s] = <<>>
  BY DEF Init
<1>6. LayersFresh
  BY <1>3, <1>5 DEF Init, LayersFresh
<1>7. NoOrphanRows
  BY <1>5 DEF Init, NoOrphanRows
<1> QED
  BY <1>2, <1>4, <1>5, <1>6, <1>7 DEF StoreInv, AckedStored

LEMMA StoreStep == StoreInv /\ [Next]_vars => StoreInv'
<1> SUFFICES ASSUME StoreInv, [Next]_vars PROVE StoreInv'
  OBVIOUS
<1>1. ASSUME NEW w \in Writers, WriterStep(w) PROVE StoreInv'
  <2>1. CASE Open(w)
    BY <2>1, OpenKeeps
  <2>2. ASSUME NEW f \in Files, NEW d \in Contents, Write(w, f, d) PROVE StoreInv'
    BY <2>2, WriteKeeps
  <2>3. CASE \/ ReadMeta(w) \/ ReadLines(w) \/ ReadBlocks(w)
             \/ TextReadFails(w) \/ BlocksReadFails(w)
             \/ RecordGet(w) \/ RecordAdd(w)
    BY <2>3, ControlKeeps
  <2>4. CASE Unmap(w) \/ Unmeta(w) \/ CreateMeta(w) \/ InsertMap(w)
    BY <2>4, TextKeeps
  <2>5. CASE ClearBlocks(w) \/ PutBlock(w)
    BY <2>5, BinaryKeeps
  <2>6. CASE UpdateInode(w)
    BY <2>6, UpdateInodeKeeps
  <2>7. ASSUME NEW f \in Files, Delete(w, f) PROVE StoreInv'
    BY <2>7, DeleteKeeps
  <2>8. CASE DeleteBlocks(w) \/ DeleteInode(w)
    BY <2>8, DeletionKeeps
  <2>9. CASE Crash(w)
    BY <2>9, FailKeeps DEF Crash
  <2> QED
    BY <1>1, <2>1, <2>2, <2>3, <2>4, <2>5, <2>6, <2>7, <2>8, <2>9 DEF WriterStep
<1>2. CASE LayerStep
  BY <1>2, LayerStepKeeps DEF LayerStep
<1>3. CASE UNCHANGED vars
  <2>1. /\ UNCHANGED <<nodes, up, frozen, pos, nextLayer, files, meta, map, blocks>>
        /\ UNCHANGED <<lay, pc, file, data, index, reclay, alone, acked>>
    BY <1>3 DEF vars
  <2>2. TypeOK' /\ LayersFresh' /\ NoOrphanRows'
    BY <2>1 DEF StoreInv, TypeOK, LayersFresh, NoOrphanRows
  <2>3. LayersTyped' /\ RowsTyped' /\ acked' \in [Slots -> Contents \cup {NoRow}]
    BY <2>2 DEF TypeOK, LayersTyped, RowsTyped
  <2> QED
    BY <2>1, <2>2, <2>3, LayersMoveKeeps DEF request
<1> QED
  BY <1>1, <1>2, <1>3 DEF Next
LEMMA StoreInvariant == Spec => []StoreInv
BY StoreInit, StoreStep, PTL DEF Spec

-----------------------------------------------------------------------------
(* What readers see of the rows                                            *)

\* A file without blocks reads as nothing.
LEMMA NoBlocksListed ==
    ASSUME NEW f, \A i \in Indices : blocks[f][i] = NoRow
    PROVE  ListBlocks(f) = <<>>
<1> DEFINE kept == {i \in Indices : blocks[f][i] # NoRow}
           nth(k) == CHOOSE i \in kept : Cardinality({j \in kept : j <= i}) = k
           listed == [k \in 1..Cardinality(kept) |-> blocks[f][nth(k)]]
<1>1. kept = {}
  OBVIOUS
<1>2. Cardinality(kept) = 0
  BY <1>1, FS_EmptySet
<1> HIDE DEF kept, nth
<1>3. listed = <<>>
  BY <1>2
<1> QED
  BY <1>3 DEF ListBlocks, kept, nth

\* The blocks in the order of their index, when the first n are stored.
LEMMA FirstBlocksListed ==
    ASSUME NEW f, NEW d \in Binaries, blocks[f] = FirstChunks(d, Len(d.chunks))
    PROVE  ListBlocks(f) = d.chunks
<1> DEFINE kept == {i \in Indices : blocks[f][i] # NoRow}
           nth(k) == CHOOSE i \in kept : Cardinality({j \in kept : j <= i}) = k
           listed == [k \in 1..Cardinality(kept) |-> blocks[f][nth(k)]]
<1>1. PICK n : n = Len(d.chunks)
  OBVIOUS
<1>2. /\ d.chunks \in Seq(Chunks) /\ n \in Nat /\ n \in Indices /\ NoRow \notin Chunks
      /\ MaxChunks \in Nat
  BY <1>1, ContentsAssumption
<1>3. /\ \A i \in 1..n : i \in Indices /\ d.chunks[i] \in Chunks
      /\ d.chunks = [i \in 1..n |-> d.chunks[i]]
  BY <1>1, <1>2 DEF Indices
<1>4. kept = 1..n /\ \A i \in 1..n : blocks[f][i] = d.chunks[i]
  BY <1>1, <1>2, <1>3 DEF FirstChunks, Indices
<1> HIDE DEF kept
<1>5. ASSUME NEW i \in Nat PROVE Cardinality(1..i) = i
  <2>1. 1 \in Int /\ i \in Int
    OBVIOUS
  <2>2. Cardinality(1..i) = IF 1 > i THEN 0 ELSE i - 1 + 1
    BY <2>1, FS_Interval
  <2> QED
    BY <2>2
<1>6. ASSUME NEW i \in 1..n PROVE Cardinality({j \in kept : j <= i}) = i
  <2>1. {j \in kept : j <= i} = 1..i /\ i \in Nat
    BY <1>2, <1>4, <1>6
  <2> QED
    BY <1>5, <2>1
<1>7. ASSUME NEW k \in 1..n PROVE nth(k) = k
  BY <1>4, <1>6, <1>7
<1>8. Cardinality(kept) = n
  BY <1>2, <1>4, <1>5
<1> HIDE DEF nth
<1>9. listed = d.chunks
  BY <1>3, <1>4, <1>7, <1>8
<1> QED
  BY <1>9 DEF ListBlocks, kept, nth

-----------------------------------------------------------------------------

\* The tables and the locals of every request stay what the code can hold.
THEOREM StoreTypeCorrect == Spec => []TypeOK
<1>1. StoreInv => TypeOK
  BY DEF StoreInv
<1> QED
  BY <1>1, StoreInvariant, PTL

\* delete_file and the removal of a layer leave no rows behind, whatever writes
\* of the same file and layer are under way or were cut short.
THEOREM NothingOutlives == Spec => []NoOrphans
<1>1. StoreInv => NoOrphans
  BY NoBlocksListed DEF StoreInv, NoOrphanRows, NoOrphans
<1> QED
  BY <1>1, StoreInvariant, PTL

\* A text that write_file acknowledged reads back through its layer until the
\* next write through that layer begins.
THEOREM AcknowledgedTextsRead == Spec => []AckedTextReads
<1>1. ASSUME StoreInv PROVE AckedTextReads
  <2> SUFFICES ASSUME NEW s \in Slots, acked[s] \in Texts, s[2] \in nodes
               PROVE  LET d == acked[s]
                          r == Read(s[1], s[2])
                      IN  IF d.lines \in {<<>>, <<Blank>>} THEN r = Nothing
                          ELSE r.lines = d.lines /\ r.trailing = d.trailing
    BY DEF AckedTextReads
  <2>1. PICK d \in Texts : d = acked[s]
    OBVIOUS
  <2>2. acked[s] # NoRow /\ MetaOf(d) # NoRow
    BY <2>1, ContentsAssumption DEF Contents, MetaOf, MetaRows
  <2>3. meta[s] = MetaOf(d) /\ map[s] = d.lines
    BY <1>1, <2>1, <2>2 DEF StoreInv, AckedStored
  <2>4. s = <<s[1], s[2]>>
    BY DEF Slots
  <2>5. Read(s[1], s[2]) = Join(MetaOf(d), d.lines)
    BY <2>2, <2>3, <2>4 DEF Read
  <2>6. MetaOf(d).trailing = d.trailing
    BY DEF MetaOf
  <2> QED
    BY <2>1, <2>5, <2>6 DEF Join
<1> QED
  BY <1>1, StoreInvariant, PTL

\* A binary content that write_file acknowledged is stored whole and in order until
\* the next binary write of the file begins.
THEOREM AcknowledgedBinariesStored == Spec => []AckedBinaryStored
<1>1. ASSUME StoreInv, NEW s \in Slots, acked[s] \in Binaries
      PROVE  ListBlocks(s[1]) = acked[s].chunks
  <2>1. acked[s] # NoRow
    BY <1>1, ContentsAssumption DEF Contents
  <2>2. blocks[s[1]] = FirstChunks(acked[s], Len(acked[s].chunks))
    BY <1>1, <2>1 DEF StoreInv, AckedStored
  <2> QED
    BY <1>1, <2>2, FirstBlocksListed
<1>2. StoreInv => AckedBinaryStored
  BY <1>1 DEF AckedBinaryStored
<1> QED
  BY <1>2, StoreInvariant, PTL

-----------------------------------------------------------------------------
(* The rows of texts move as the table of texts allows                     *)

\* The slots of a file, and those of a layer.
LEMMA SlotsOfOne ==
    /\ \A f \in Files : \A s \in Slots : s \in {f} \X LayerIds <=> s[1] = f
    /\ \A l \in LayerIds : \A s \in Slots : s \in Files \X {l} <=> s[2] = l
BY DEF Slots

\* A cascade takes the metadata and the lines of the same slots.
LEMMA CascadeIsRemoval ==
    ASSUME NEW S \in Cascades,
           meta' = [s \in Slots |-> IF s \in S THEN NoRow ELSE meta[s]],
           map' = [s \in Slots |-> IF s \in S THEN <<>> ELSE map[s]]
    PROVE  Table!RowsNext
<1>1. WithMeta' = WithMeta \ S
  BY DEF WithMeta
<1>2. Table!RemoveMeta(S)
  BY <1>1 DEF Table!RemoveMeta
<1> QED
  BY <1>2 DEF Table!RowsNext

\* The statements of write_text_file.
LEMMA TextStatementRows ==
    ASSUME StoreInv, NEW w \in Writers,
           Unmap(w) \/ Unmeta(w) \/ CreateMeta(w) \/ InsertMap(w)
    PROVE  Table!RowsNext \/ UNCHANGED <<meta, map>>
<1>1. /\ LocalsTyped /\ RowsTyped /\ AtItsPlace(w)
  BY TypesByPart DEF StoreInv
<1>2. PICK s \in Slots : s = Slot(w)
  BY <1>1 DEF Slot, Slots, LocalsTyped
<1>3. meta \in [Slots -> MetaRows \cup {NoRow}] /\ DOMAIN map = Slots
  BY <1>1 DEF RowsTyped
<1>4. CASE Unmap(w)
  <2>1. map' = [map EXCEPT ![s] = <<>>] /\ UNCHANGED meta
    BY <1>2, <1>4 DEF Unmap
  <2>2. Table!HideText(s)
    BY <2>1 DEF Table!HideText, WithMeta
  <2> QED
    BY <2>2 DEF Table!RowsNext
<1>5. CASE Unmeta(w)
  <2>1. meta' = [meta EXCEPT ![s] = NoRow] /\ map' = [map EXCEPT ![s] = <<>>]
    BY <1>2, <1>5 DEF Unmeta
  <2>2. /\ meta' = [t \in Slots |-> IF t \in {s} THEN NoRow ELSE meta[t]]
        /\ map' = [t \in Slots |-> IF t \in {s} THEN <<>> ELSE map[t]]
    BY <1>3, <2>1
  <2>3. {s} \in Cascades
    BY DEF Cascades
  <2> QED
    BY <2>2, <2>3, CascadeIsRemoval
<1>6. CASE CreateMeta(w)
  <2>1. CASE MetaAllowed(w)
    <3>1. data[w] \in Texts
      BY <1>1, <1>6 DEF AtItsPlace, CreateMeta
    <3>2. PICK r : r = MetaOf(data[w])
      OBVIOUS
    <3>3. r # NoRow
      BY <3>1, <3>2, ContentsAssumption DEF MetaOf, MetaRows
    <3>4. meta' = [meta EXCEPT ![s] = r] /\ UNCHANGED map /\ meta[s] = NoRow
      BY <1>2, <1>6, <2>1, <3>2 DEF CreateMeta, MetaAllowed, MetaOf
    <3>5. WithMeta' = WithMeta \cup {s} /\ s \notin WithMeta
      BY <1>3, <3>3, <3>4 DEF WithMeta
    <3>6. Table!AddMeta(s)
      BY <3>4, <3>5 DEF Table!AddMeta
    <3> QED
      BY <3>6 DEF Table!RowsNext
  <2>2. CASE ~MetaAllowed(w)
    BY <1>6, <2>2 DEF CreateMeta, Fail, rows
  <2> QED
    BY <2>1, <2>2
<1>7. CASE InsertMap(w)
  <2>1. CASE data[w].lines # <<>> /\ MapAllowed(w)
    <3>1. PICK t : t = data[w].lines
      OBVIOUS
    <3>2. t \in LinesOfTexts /\ t # <<>>
      BY <1>1, <1>7, <2>1, <3>1 DEF AtItsPlace, InsertMap, LinesOfTexts
    <3>3. /\ map' = [map EXCEPT ![s] = t] /\ UNCHANGED meta
          /\ meta[s] # NoRow /\ map[s] = <<>>
      BY <1>2, <1>7, <2>1, <3>1 DEF InsertMap, MapAllowed
    <3>4. WithMeta' = WithMeta /\ s \in WithMeta
      BY <3>3 DEF WithMeta
    <3>5. Table!ShowText(s, t)
      BY <3>2, <3>3, <3>4 DEF Table!ShowText
    <3> QED
      BY <3>2, <3>5 DEF Table!RowsNext
  <2>2. CASE ~(data[w].lines # <<>> /\ MapAllowed(w))
    BY <1>7, <2>2 DEF InsertMap, Fail, rows
  <2> QED
    BY <2>1, <2>2
<1> QED
  BY <1>4, <1>5, <1>6, <1>7

\* Every step is one of the table of texts, or leaves the rows of texts alone.
LEMMA StoreNextRows ==
    ASSUME StoreInv, [Next]_vars
    PROVE  [Table!RowsNext]_(Table!rowsVars)
<1>1. ASSUME UNCHANGED <<meta, map>> PROVE UNCHANGED Table!rowsVars
  BY <1>1 DEF Table!rowsVars, WithMeta
<1>2. file \in [Writers -> Files]
  BY DEF StoreInv, TypeOK
<1>3. ASSUME NEW w \in Writers, DeleteInode(w) PROVE Table!RowsNext
  <2>1. PICK f \in Files : f = file[w]
    BY <1>2
  <2>2. PICK S \in Cascades : S = {f} \X LayerIds
    BY DEF Cascades
  <2>3. \A s \in Slots : s \in S <=> s[1] = f
    BY <2>2, SlotsOfOne
  <2>4. /\ meta' = [s \in Slots |-> IF s[1] = f THEN NoRow ELSE meta[s]]
        /\ map' = [s \in Slots |-> IF s[1] = f THEN <<>> ELSE map[s]]
    BY <1>3, <2>1 DEF DeleteInode
  <2>5. /\ meta' = [s \in Slots |-> IF s \in S THEN NoRow ELSE meta[s]]
        /\ map' = [s \in Slots |-> IF s \in S THEN <<>> ELSE map[s]]
    BY <2>3, <2>4
  <2> QED
    BY <2>5, CascadeIsRemoval
<1>4. ASSUME NEW l \in LayerIds, DropLayer(l) PROVE Table!RowsNext
  <2>1. PICK S \in Cascades : S = Files \X {l}
    BY DEF Cascades
  <2>2. \A s \in Slots : s \in S <=> s[2] = l
    BY <2>1, SlotsOfOne
  <2>3. /\ meta' = [s \in Slots |-> IF s[2] = l THEN NoRow ELSE meta[s]]
        /\ map' = [s \in Slots |-> IF s[2] = l THEN <<>> ELSE map[s]]
    BY <1>4 DEF DropLayer
  <2>4. /\ meta' = [s \in Slots |-> IF s \in S THEN NoRow ELSE meta[s]]
        /\ map' = [s \in Slots |-> IF s \in S THEN <<>> ELSE map[s]]
    BY <2>2, <2>3
  <2> QED
    BY <2>4, CascadeIsRemoval
<1>5. ASSUME NEW w \in Writers,
             \/ Open(w)
             \/ \E f \in Files, d \in Contents : Write(w, f, d)
             \/ ReadMeta(w) \/ ReadLines(w) \/ ReadBlocks(w)
             \/ TextReadFails(w) \/ BlocksReadFails(w)
             \/ ClearBlocks(w) \/ PutBlock(w)
             \/ RecordGet(w) \/ RecordAdd(w) \/ UpdateInode(w)
             \/ \E f \in Files : Delete(w, f)
             \/ DeleteBlocks(w) \/ Crash(w)
      PROVE  UNCHANGED <<meta, map>>
  BY <1>5 DEF Open, Write, ReadMeta, ReadLines, ReadBlocks, TextReadFails, BlocksReadFails, ClearBlocks, PutBlock, RecordGet,
     RecordAdd, UpdateInode, Delete, DeleteBlocks, Crash, Fail, rows
<1>6. ASSUME NEW w \in Writers, WriterStep(w) PROVE Table!RowsNext \/ UNCHANGED <<meta, map>>
  <2>1. CASE Unmap(w) \/ Unmeta(w) \/ CreateMeta(w) \/ InsertMap(w)
    BY <2>1, TextStatementRows
  <2>2. CASE DeleteInode(w)
    BY <1>3, <2>2
  <2> QED
    BY <1>5, <1>6, <2>1, <2>2 DEF WriterStep
<1>7. ASSUME LayerStep PROVE Table!RowsNext \/ UNCHANGED <<meta, map>>
  <2>1. PICK l \in LayerIds : NewLayer(l) \/ FreezeLayer(l) \/ SwitchLayer(l) \/ DropLayer(l)
    BY <1>7 DEF LayerStep
  <2>2. CASE DropLayer(l)
    BY <1>4, <2>2
  <2>3. CASE NewLayer(l) \/ FreezeLayer(l) \/ SwitchLayer(l)
    BY <2>3 DEF NewLayer, FreezeLayer, SwitchLayer, rows
  <2> QED
    BY <2>1, <2>2, <2>3
<1>8. CASE UNCHANGED vars
  BY <1>1, <1>8 DEF vars
<1>9. CASE Next
  BY <1>1, <1>6, <1>7, <1>9 DEF Next
<1> QED
  BY <1>8, <1>9

\* Whatever handles write, overwrite and delete through whichever layers, the texts
\* move as the table of texts does, which the block store implements in turn.
THEOREM StoreUsesTexts == Spec => RefinesTextRows
<1>1. Init => Table!RowsInit
  <2> SUFFICES ASSUME Init PROVE Table!RowsInit
    OBVIOUS
  <2>1. meta = [s \in Slots |-> NoRow] /\ map = [s \in Slots |-> <<>>]
    BY DEF Init
  <2>2. WithMeta = {}
    BY <2>1 DEF WithMeta
  <2> QED
    BY <2>1, <2>2 DEF Table!RowsInit
<1> QED
  BY <1>1, StoreNextRows, StoreInvariant, PTL DEF Spec, RefinesTextRows, Table!RowsSpec
==============================================================================
