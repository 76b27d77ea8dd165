------------------------------ MODULE FileStore ------------------------------
(***************************************************************************)
(* The content of files: FileSystem::write_file and delete_file            *)
(* (src/fs/operations.rs) with the copy-on-write handler they call         *)
(* (src/layer/cow.rs) over the tables for text (one row set per file and   *)
(* layer) and for binary blocks (one row set per file).                    *)
(*                                                                         *)
(* A FileSystem caches the current layer when it is opened and writes      *)
(* through it; record_change asks for the current layer again. A write is  *)
(* up to a dozen statements, each its own transaction. The layers          *)
(* underneath move as LayerTree allows, which LayerManager implements.     *)
(***************************************************************************)
EXTENDS LayerTree, Integers, Sequences, FiniteSets

CONSTANTS Writers,    \* FileSystem values, each serving one request at a time
          Files,      \* inodes of regular files
          Texts,      \* contents the detector calls text
          Binaries    \* contents it calls binary

(* A text is [lines, eol, trailing]: what str::lines yields, the detected  *)
(* line ending and whether it ends in one. A binary is [chunks]: its data  *)
(* in pieces of BLOCK_SIZE. Blank is the line without characters.          *)
CONSTANTS Blank, NoRow, MaxChunks,
          Crashing    \* whether requests may be cut short and reads may fail

Contents == Texts \cup Binaries
LayerIds == Ids
Indices == 1..MaxChunks
Nothing == [lines |-> <<>>, eol |-> "LF", trailing |-> FALSE]
Chunks == UNION {{d.chunks[i] : i \in DOMAIN d.chunks} : d \in Binaries}
LineEndings == {"LF", "CRLF", "CR"}     \* LineEnding as it is stored
MetaRows == [eol : LineEndings, trailing : BOOLEAN]

ASSUME LayersAssumption == Ids \subseteq Nat /\ 1 \in Ids

\* A content is a text or a binary; an empty one is a text.
ASSUME ContentsAssumption ==
    /\ \A d \in Texts : d.eol \in LineEndings /\ d.trailing \in BOOLEAN
    /\ \A d \in Binaries : d.chunks \in Seq(Chunks) /\ Len(d.chunks) \in Indices
    /\ Texts \cap Binaries = {}
    /\ NoRow \notin Contents /\ NoRow \notin Chunks /\ NoRow \notin MetaRows
    /\ MaxChunks \in Nat \ {0}

VARIABLES
    nextLayer,  \* the identity the next layer gets
    files,      \* rows of inodes
    meta,       \* text_file_metadata of a file in a layer, or NoRow
    map,        \* text_line_map: the lines of a file in a layer
    blocks,     \* data_blocks: the chunks of a file by block_index
    lay,        \* current_layer_id of each FileSystem
    pc,         \* where its request stands
    file,       \* the file the request is about
    data,       \* the content to write
    index,      \* the block_index to write next
    reclay,     \* the layer record_change writes to
    alone,      \* no other write to the same file and layer overlapped so far,
                \* TRUE without a request
    acked       \* the last acknowledged content of a file in a layer, NoRow
                \* from the moment somebody starts to write it again

rows == <<files, meta, map, blocks>>
request == <<pc, file, data, index, reclay>>
ghosts == <<alone, acked>>
vars == <<nodes, up, frozen, pos, nextLayer, files, meta, map, blocks, lay, pc, file, data, index, reclay, alone, acked>>

Slots == Files \X LayerIds

Init ==
    /\ nodes = {1} /\ up = [l \in LayerIds |-> None]
    /\ frozen = {} /\ pos = 1 /\ nextLayer = 2
    /\ files = Files
    /\ meta = [s \in Slots |-> NoRow]
    /\ map = [s \in Slots |-> <<>>]
    /\ blocks = [f \in Files |-> [i \in Indices |-> NoRow]]
    /\ lay = [w \in Writers |-> 1]
    /\ pc = [w \in Writers |-> "idle"]
    /\ file \in [Writers -> Files]
    /\ data = [w \in Writers |-> Nothing]
    /\ index = [w \in Writers |-> 1]
    /\ reclay = [w \in Writers |-> None]
    /\ alone = [w \in Writers |-> TRUE]
    /\ acked = [s \in Slots |-> NoRow]

-----------------------------------------------------------------------------
(* Reading                                                                 *)

\* read_text_file: the lines joined. The metadata says "LF", "CRLF" or "CR" but
\* the match looks for "crlf" and "cr", so every text is joined with LF; the trailing
\* newline is only added to a result that is not empty.
Join(m, ls) ==
    IF ls \in {<<>>, <<Blank>>} THEN Nothing
    ELSE [lines |-> ls, eol |-> "LF", trailing |-> m.trailing]

\* read_file: the text rows of the cached layer, else the file's blocks in
\* the order of their index.
ListBlocks(f) ==
    LET kept == {i \in Indices : blocks[f][i] # NoRow}
        nth(k) == CHOOSE i \in kept : Cardinality({j \in kept : j <= i}) = k
    IN  [k \in 1..Cardinality(kept) |-> blocks[f][nth(k)]]

Read(f, l) ==
    CASE meta[f, l] # NoRow -> Join(meta[f, l], map[f, l])
      [] meta[f, l] = NoRow /\ ListBlocks(f) # <<>> -> [chunks |-> ListBlocks(f)]
      [] meta[f, l] = NoRow /\ ListBlocks(f) = <<>> -> Nothing

-----------------------------------------------------------------------------
(* Control of a request                                                    *)

Slot(w) == <<file[w], lay[w]>>
Busy(w) == pc[w] # "idle"

Goto(w, label) ==
    /\ pc' = [pc EXCEPT ![w] = label]
    /\ UNCHANGED <<file, data, index, reclay>>

Done(w) ==
    /\ pc' = [pc EXCEPT ![w] = "idle"]
    /\ data' = [data EXCEPT ![w] = Nothing]
    /\ index' = [index EXCEPT ![w] = 1]
    /\ reclay' = [reclay EXCEPT ![w] = None]
    /\ alone' = [alone EXCEPT ![w] = TRUE]
    /\ UNCHANGED file

Fail(w) == Done(w) /\ UNCHANGED <<rows, acked>>

\* FileSystem::new: the layer of all later requests is the current one.
Open(w) ==
    /\ pc[w] = "idle"
    /\ lay' = [lay EXCEPT ![w] = pos]
    /\ UNCHANGED <<treeVars, nextLayer, rows, request, ghosts>>

-----------------------------------------------------------------------------
(* write_file: resolve the path, read the old content                      *)

\* A request under way that works on the rows a write of d to f would use.
Overlap(v, f, l, d) ==
    /\ Busy(v)
    /\ file[v] = f
    /\ pc[v] \notin {"del_blocks", "del_inode"} =>
            lay[v] = l \/ {data[v], d} \subseteq Binaries

Write(w, f, d) ==
    /\ pc[w] = "idle"
    /\ f \in files                 \* otherwise PathNotFound at once
    /\ pc' = [pc EXCEPT ![w] = "read"]
    /\ file' = [file EXCEPT ![w] = f]
    /\ data' = [data EXCEPT ![w] = d]
    /\ UNCHANGED <<index, reclay>>
    /\ alone' = [v \in Writers |->
                   IF v = w THEN \A x \in Writers \ {w} : ~Overlap(x, f, lay[w], d)
                   ELSE alone[v] /\ ~Overlap(v, f, lay[w], d)]
    /\ acked' = [s \in Slots |->
                   IF \/ s = <<f, lay[w]>>
                      \/ s[1] = f /\ {acked[s], d} \subseteq Binaries
                   THEN NoRow ELSE acked[s]]
    /\ UNCHANGED <<treeVars, nextLayer, rows, lay>>

\* The first statement of the copy-on-write handler: an overwritten text
\* loses its rows first, a new one starts with its metadata.
FirstStatement(w, new) ==
    CASE data[w] \in Binaries -> "clear"
      [] data[w] \in Texts /\ new -> "meta"
      [] data[w] \in Texts /\ ~new -> "unmap"

OldRead(w, new) ==
    /\ pc' = [pc EXCEPT ![w] = FirstStatement(w, new)]
    /\ UNCHANGED <<file, data, index, reclay>>

ReadMeta(w) ==
    /\ pc[w] = "read"
    /\ Goto(w, IF meta[Slot(w)] # NoRow THEN "read_lines" ELSE "read_blocks")
    /\ UNCHANGED <<treeVars, nextLayer, rows, lay, ghosts>>

ReadLines(w) ==
    /\ pc[w] = "read_lines"
    /\ OldRead(w, map[Slot(w)] \in {<<>>, <<Blank>>})
    /\ UNCHANGED <<treeVars, nextLayer, rows, lay, ghosts>>

ReadBlocks(w) ==
    /\ pc[w] = "read_blocks"
    /\ OldRead(w, ListBlocks(file[w]) = <<>>)
    /\ UNCHANGED <<treeVars, nextLayer, rows, lay, ghosts>>

\* A read of the old content that fails is no failure of the write: after an error
\* on the text the blocks are tried, and after one on these the file counts as new.
TextReadFails(w) ==
    /\ Crashing
    /\ pc[w] \in {"read", "read_lines"}
    /\ Goto(w, "read_blocks")
    /\ UNCHANGED <<treeVars, nextLayer, rows, lay, ghosts>>

BlocksReadFails(w) ==
    /\ Crashing
    /\ pc[w] = "read_blocks"
    /\ OldRead(w, TRUE)
    /\ UNCHANGED <<treeVars, nextLayer, rows, lay, ghosts>>

-----------------------------------------------------------------------------
(* write_text_file                                                         *)

UnmapEveryLayer(w) ==
    /\ pc[w] = "unmap"
    /\ map' = [s \in Slots |-> IF s[1] = file[w] THEN <<>> ELSE map[s]]
    /\ Goto(w, "unmeta")
    /\ UNCHANGED <<treeVars, nextLayer, files, meta, blocks, lay, ghosts>>

Unmap(w) ==
    /\ pc[w] = "unmap"
    /\ map' = [map EXCEPT ![Slot(w)] = <<>>]
    /\ Goto(w, "unmeta")
    /\ UNCHANGED <<treeVars, nextLayer, files, meta, blocks, lay, ghosts>>

\* The line map goes with its metadata (ON DELETE CASCADE).
Unmeta(w) ==
    /\ pc[w] = "unmeta"
    /\ meta' = [meta EXCEPT ![Slot(w)] = NoRow]
    /\ map' = [map EXCEPT ![Slot(w)] = <<>>]
    /\ Goto(w, "meta")
    /\ UNCHANGED <<treeVars, nextLayer, files, blocks, lay,
                   ghosts>>

MetaAllowedWithoutLayer(w) == meta[Slot(w)] = NoRow /\ file[w] \in files

\* create_metadata is refused when the row exists (primary key), or the file
\* or the layer is gone (foreign keys).
MetaAllowed(w) ==
    /\ meta[Slot(w)] = NoRow
    /\ file[w] \in files
    /\ lay[w] \in nodes

CreateMeta(w) ==
    /\ pc[w] = "meta"
    /\ IF MetaAllowed(w)
       THEN /\ meta' = [meta EXCEPT ![Slot(w)] =
                            [eol |-> data[w].eol, trailing |-> data[w].trailing]]
            /\ Goto(w, "map")
            /\ UNCHANGED <<files, map, blocks, ghosts>>
       ELSE Fail(w)
    /\ UNCHANGED <<treeVars, nextLayer, lay>>

\* create_line_mappings is one transaction, and nothing for an empty text; it
\* is refused when the metadata is gone or a line number is taken. TextBlocks
\* models the blocks the lines are stored in.
MapAllowedOverLines(w) == meta[Slot(w)] # NoRow

MapAllowed(w) == meta[Slot(w)] # NoRow /\ map[Slot(w)] = <<>>

InsertMap(w) ==
    /\ pc[w] = "map"
    /\ IF data[w].lines = <<>> \/ MapAllowed(w)
       THEN /\ map' = IF data[w].lines = <<>> THEN map
                      ELSE [map EXCEPT ![Slot(w)] = data[w].lines]
            /\ Goto(w, "rec_get")
            /\ UNCHANGED <<files, meta, blocks, ghosts>>
       ELSE Fail(w)
    /\ UNCHANGED <<treeVars, nextLayer, lay>>

-----------------------------------------------------------------------------
(* write_binary_file                                                       *)

ClearBlocks(w) ==
    /\ pc[w] = "clear"
    /\ blocks' = [blocks EXCEPT ![file[w]] = [i \in Indices |-> NoRow]]
    /\ Goto(w, "put")
    /\ UNCHANGED <<treeVars, nextLayer, files, meta, map, lay,
                   ghosts>>

\* Chunk after chunk. Blocks are keyed by file and index, so the index that
\* another write has stored meanwhile is refused.
LastChunkLost(w) == index[w] + 1 >= Len(data[w].chunks)

LastChunk(w) == index[w] = Len(data[w].chunks)

PutBlock(w) ==
    /\ pc[w] = "put"
    /\ IF file[w] \in files /\ blocks[file[w]][index[w]] = NoRow
       THEN /\ blocks' = [blocks EXCEPT ![file[w]][index[w]] =
                              data[w].chunks[index[w]]]
            /\ pc' = [pc EXCEPT ![w] = IF LastChunk(w) THEN "rec_get" ELSE "put"]
            /\ index' = [index EXCEPT ![w] = IF LastChunk(w) THEN 1 ELSE @ + 1]
            /\ UNCHANGED <<file, data, reclay, files, meta, map, ghosts>>
       ELSE Fail(w)
    /\ UNCHANGED <<treeVars, nextLayer, lay>>

-----------------------------------------------------------------------------
(* record_change and the update of the inode, after either kind of write   *)

\* The layer is the current one of now, not the cached one. (LayerManager has
\* these statements one by one, and the entries they write.)
RecordGet(w) ==
    /\ pc[w] = "rec_get"
    /\ IF pos \notin frozen
       THEN /\ reclay' = [reclay EXCEPT ![w] = pos]
            /\ pc' = [pc EXCEPT ![w] = "rec_add"]
            /\ UNCHANGED <<file, data, index, rows, ghosts>>
       ELSE Fail(w)                \* LayerReadonly
    /\ UNCHANGED <<treeVars, nextLayer, lay>>

RecordAdd(w) ==
    /\ pc[w] = "rec_add"
    /\ IF reclay[w] \in nodes /\ file[w] \in files
       THEN /\ reclay' = [reclay EXCEPT ![w] = None]
            /\ pc' = [pc EXCEPT ![w] = "update"]
            /\ UNCHANGED <<file, data, index, rows, ghosts>>
       ELSE Fail(w)
    /\ UNCHANGED <<treeVars, nextLayer, lay>>

\* The update of size and mtime; for a deleted inode it returns no row and fails.
UpdateInode(w) ==
    /\ pc[w] = "update"
    /\ IF file[w] \in files
       THEN /\ acked' = IF alone[w] THEN [acked EXCEPT ![Slot(w)] = data[w]]
                        ELSE acked
            /\ Done(w)
            /\ UNCHANGED rows
       ELSE Fail(w)
    /\ UNCHANGED <<treeVars, nextLayer, lay>>

-----------------------------------------------------------------------------
(* delete_file                                                             *)

Delete(w, f) ==
    /\ pc[w] = "idle"
    /\ f \in files
    /\ pc' = [pc EXCEPT ![w] = "del_blocks"]
    /\ file' = [file EXCEPT ![w] = f]
    /\ acked' = [s \in Slots |-> IF s[1] = f THEN NoRow ELSE acked[s]]
    /\ alone' = [v \in Writers |-> alone[v] /\ (Busy(v) => file[v] # f)]
    /\ UNCHANGED <<treeVars, nextLayer, rows, lay, data, index, reclay>>

DeleteBlocks(w) ==
    /\ pc[w] = "del_blocks"
    /\ blocks' = [blocks EXCEPT ![file[w]] = [i \in Indices |-> NoRow]]
    /\ Goto(w, "del_inode")
    /\ UNCHANGED <<treeVars, nextLayer, files, meta, map, lay,
                   ghosts>>

\* The rows that refer to the inode go with it: the text of every layer, the
\* blocks stored since, and what the layers recorded about the file.
DeleteInode(w) ==
    /\ pc[w] = "del_inode"
    /\ files' = files \ {file[w]}
    /\ meta' = [s \in Slots |-> IF s[1] = file[w] THEN NoRow ELSE meta[s]]
    /\ map' = [s \in Slots |-> IF s[1] = file[w] THEN <<>> ELSE map[s]]
    /\ blocks' = [blocks EXCEPT ![file[w]] = [i \in Indices |-> NoRow]]
    /\ Done(w)
    /\ UNCHANGED <<treeVars, nextLayer, lay, acked>>

\* The request ends between two statements; what it wrote stays.
Crash(w) ==
    /\ Crashing
    /\ Busy(w)
    /\ Fail(w)
    /\ UNCHANGED <<treeVars, nextLayer, lay>>

-----------------------------------------------------------------------------
(* The layers, statement by statement of the requests of LayerManager      *)

NewLayer(p) ==
    /\ nextLayer \in LayerIds
    /\ AddChild(nextLayer, p)
    /\ nextLayer' = nextLayer + 1
    /\ UNCHANGED <<rows, lay, request, ghosts>>

\* A checkpoint freezes the current layer. (A switch between reading it and
\* freezing it commutes: only the current layer is ever asked for is_readonly.)
FreezeLayer(l) ==
    /\ l = pos
    /\ Freeze(l)
    /\ UNCHANGED <<nextLayer, rows, lay, request, ghosts>>

SwitchLayer(l) == MoveTo(l) /\ UNCHANGED <<nextLayer, rows, lay, request, ghosts>>

\* What a layer holds goes with it.
DropLayer(l) ==
    /\ RemoveLeaf(l)
    /\ meta' = [s \in Slots |-> IF s[2] = l THEN NoRow ELSE meta[s]]
    /\ map' = [s \in Slots |-> IF s[2] = l THEN <<>> ELSE map[s]]
    /\ acked' = [s \in Slots |-> IF s[2] = l THEN NoRow ELSE acked[s]]
    /\ UNCHANGED <<nextLayer, files, blocks, lay, request, alone>>

-----------------------------------------------------------------------------

WriterStep(w) ==
    \/ Open(w)
    \/ \E f \in Files, d \in Contents : Write(w, f, d)
    \/ ReadMeta(w)
    \/ ReadLines(w)
    \/ ReadBlocks(w)
    \/ TextReadFails(w)
    \/ BlocksReadFails(w)
    \/ Unmap(w)
    \/ Unmeta(w)
    \/ CreateMeta(w)
    \/ InsertMap(w)
    \/ ClearBlocks(w)
    \/ PutBlock(w)
    \/ RecordGet(w)
    \/ RecordAdd(w)
    \/ UpdateInode(w)
    \/ \E f \in Files : Delete(w, f)
    \/ DeleteBlocks(w)
    \/ DeleteInode(w)
    \/ Crash(w)

LayerStep ==
    \E l \in LayerIds :
        \/ NewLayer(l)
        \/ FreezeLayer(l)
        \/ SwitchLayer(l)
        \/ DropLayer(l)

Next == (\E w \in Writers : WriterStep(w)) \/ LayerStep

Spec == Init /\ [][Next]_vars

-----------------------------------------------------------------------------
(* Properties                                                              *)

Labels == {"idle", "read", "read_lines", "read_blocks", "unmap", "unmeta", "meta",
           "map", "clear", "put", "rec_get", "rec_add", "update",
           "del_blocks", "del_inode"}

\* Every variable ranges over what the tables and the locals can hold.
TypeOK ==
    /\ nodes \subseteq LayerIds /\ frozen \subseteq nodes /\ pos \in nodes
    /\ up \in [LayerIds -> LayerIds \cup {None}]
    /\ files \subseteq Files
    /\ meta \in [Slots -> MetaRows \cup {NoRow}]
    /\ map \in [Slots -> {<<>>} \cup {d.lines : d \in Texts}]
    /\ acked \in [Slots -> Contents \cup {NoRow}]
    /\ blocks \in [Files -> [Indices -> Chunks \cup {NoRow}]]
    /\ lay \in [Writers -> LayerIds]
    /\ pc \in [Writers -> Labels]
    /\ file \in [Writers -> Files]
    /\ data \in [Writers -> Contents \cup {Nothing}]
    /\ index \in [Writers -> Indices]
    /\ reclay \in [Writers -> LayerIds \cup {None}]
    /\ alone \in [Writers -> BOOLEAN]

\* No row outlives what it belongs to: a file or a layer that is deleted in the
\* middle of a write leaves neither text nor blocks behind, and no later
\* statement of that write brings some back.
NoOrphans ==
    /\ \A s \in Slots :
        /\ meta[s] # NoRow => s[1] \in files /\ s[2] \in nodes
        /\ map[s] # <<>> => meta[s] # NoRow
    /\ \A f \in Files \ files : ListBlocks(f) = <<>>

\* A text that write_file acknowledged reads back through its layer, up to the
\* line ending, until the next write through that layer begins: whatever other
\* handles write through other layers, and whichever layers are created,
\* frozen, dropped or switched to meanwhile.
AckedTextReads ==
    \A s \in Slots : acked[s] \in Texts /\ s[2] \in nodes =>
        LET d == acked[s]
            r == Read(s[1], s[2])
        IN  IF d.lines \in {<<>>, <<Blank>>} THEN r = Nothing
            ELSE r.lines = d.lines /\ r.trailing = d.trailing

\* A binary content that was acknowledged is stored whole, in order and without
\* chunks of an earlier content, until the next binary write of the file begins.
AckedBinaryStored ==
    \A s \in Slots : acked[s] \in Binaries => ListBlocks(s[1]) = acked[s].chunks

LinesOfTexts == {d.lines : d \in Texts}
Cascades == {{s} : s \in Slots} \cup {{f} \X LayerIds : f \in Files}
                \cup {Files \X {l} : l \in LayerIds}
WithMeta == {s \in Slots : meta[s] # NoRow}

Table == INSTANCE TextRows WITH
    Texts <- LinesOfTexts, Together <- Cascades, present <- WithMeta, shown <- map

\* The rows of texts move as TextRows allows, which TextBlocks implements: a reader
\* of a layer sees no lines or one whole text, and no write, also of two that
\* overlap, replaces the lines of another without their having been deleted.
RefinesTextRows == Table!RowsSpec

\* In a writable layer, a write that no other request on the file overlaps finds
\* the place for its metadata free: the rows of the text it overwrites are gone.
OverwriteAccepted ==
    \A w \in Writers :
        pc[w] = "meta" /\ alone[w] /\ frozen = {} => meta[Slot(w)] = NoRow

\* A new layer starts with the content of the layer it is created from: every
\* acknowledged write reads the same in both.
CheckpointKeepsContent ==
    [][\A l \in nodes' \ nodes, f \in files :
            acked[f, up'[l]] # NoRow => Read(f, l)' = Read(f, up'[l])]_vars
==============================================================================
