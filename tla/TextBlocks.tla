------------------------------ MODULE TextBlocks -----------------------------
(***************************************************************************)
(* The content-addressed store of text lines (src/storage/text.rs and      *)
(* migration 004), written by write_text_file of src/layer/cow.rs.         *)
(*                                                                         *)
(* A block holds one line and is shared by every file and layer that has   *)
(* this line. Triggers count its rows in text_line_map; a maintenance      *)
(* function deletes blocks that are counted zero and old. A writer looks   *)
(* its lines up one by one, and maps them all at the end: in between it    *)
(* holds block identities that no count knows of.                          *)
(***************************************************************************)
EXTENDS Integers, Sequences, FiniteSets

CONSTANTS Writers,    \* writes under way
          Slots,      \* pairs of a file and a layer
          Lines,      \* what a line can be
          Blank,      \* the line without characters
          Texts,      \* the texts that are written: sequences of lines
          MaxBlocks   \* bound: blocks inserted in one run

ASSUME TextsAssumption == Blank \in Lines /\ Texts \subseteq Seq(Lines)
ASSUME MaxBlocksAssumption == MaxBlocks \in Nat

BlockIds == 1..MaxBlocks

VARIABLES
    stored,     \* rows of text_blocks
    content,    \* text_blocks.content, unique among the rows (content_hash)
    refCount,   \* text_blocks.ref_count
    old,        \* blocks whose last_accessed_at is max_age_days ago
    nextBlock,  \* the identity the next block gets
    meta,       \* slots with a row of text_file_metadata
    map,        \* text_line_map: the blocks of a slot's lines
    pc, slot, text,
    ids         \* the blocks a writer has found or inserted so far

blockVars == <<stored, content, refCount, old, nextBlock>>
vars == <<stored, content, refCount, old, nextBlock, meta, map,
          pc, slot, text, ids>>

Init ==
    /\ stored = {}
    /\ content = [b \in BlockIds |-> Blank]
    /\ refCount = [b \in BlockIds |-> 0]
    /\ old = {}
    /\ nextBlock = 1
    /\ meta = {}
    /\ map = [s \in Slots |-> <<>>]
    /\ pc = [w \in Writers |-> "idle"]
    /\ slot \in [Writers -> Slots]
    /\ text = [w \in Writers |-> <<>>]
    /\ ids = [w \in Writers |-> <<>>]

-----------------------------------------------------------------------------
(* The triggers on text_line_map, one call per row                         *)

RowsOnce(rows, b) == IF \E i \in DOMAIN rows : rows[i] = b THEN 1 ELSE 0

Rows(rows, b) == Cardinality({i \in DOMAIN rows : rows[i] = b})

Inserted(rows) == [b \in BlockIds |-> refCount[b] + Rows(rows, b)]

Deleted(rows) ==
    [b \in BlockIds |-> IF Rows(rows, b) > refCount[b] THEN 0
                        ELSE refCount[b] - Rows(rows, b)]

DeleteRows(s) ==
    /\ map' = [map EXCEPT ![s] = <<>>]
    /\ refCount' = Deleted(map[s])
    /\ UNCHANGED <<stored, content, old, nextBlock>>

-----------------------------------------------------------------------------
(* write_text_file                                                         *)

Goto(w, label) ==
    /\ pc' = [pc EXCEPT ![w] = label]
    /\ UNCHANGED <<slot, text, ids>>

End(w) ==
    /\ pc' = [pc EXCEPT ![w] = "idle"]
    /\ text' = [text EXCEPT ![w] = <<>>]
    /\ ids' = [ids EXCEPT ![w] = <<>>]
    /\ UNCHANGED slot

\* The rows of the text that is overwritten go first, unless the content before
\* was empty.
Write(w, s, t, isNew) ==
    /\ pc[w] = "idle"
    /\ pc' = [pc EXCEPT ![w] = IF isNew THEN "meta" ELSE "unmap"]
    /\ slot' = [slot EXCEPT ![w] = s]
    /\ text' = [text EXCEPT ![w] = t]
    /\ UNCHANGED <<blockVars, meta, map, ids>>

Unmap(w) ==
    /\ pc[w] = "unmap"
    /\ DeleteRows(slot[w])
    /\ Goto(w, "unmeta")
    /\ UNCHANGED meta

\* Rows that another write has mapped meanwhile go with the metadata.
Unmeta(w) ==
    /\ pc[w] = "unmeta"
    /\ DeleteRows(slot[w])
    /\ meta' = meta \ {slot[w]}
    /\ Goto(w, "meta")

CreateMeta(w) ==
    /\ pc[w] = "meta"
    /\ IF slot[w] \in meta THEN End(w) /\ UNCHANGED meta
       ELSE meta' = meta \cup {slot[w]} /\ Goto(w, "find")
    /\ UNCHANGED <<blockVars, map>>

\* The hash write_text_file looks a line up by is not the one blocks are stored
\* under, so only the look-up inside create_block can find it.
NextLine(w) == text[w][Len(ids[w]) + 1]

FindBlock(w) ==
    /\ pc[w] = "find"
    /\ Len(ids[w]) < Len(text[w])
    /\ IF \E b \in stored : content[b] = NextLine(w)
       THEN \E b \in stored :
               /\ content[b] = NextLine(w)
               /\ ids' = [ids EXCEPT ![w] = Append(@, b)]
               /\ UNCHANGED <<pc, slot, text>>
       ELSE Goto(w, "insert")
    /\ UNCHANGED <<blockVars, meta, map>>

\* Refused when somebody else has inserted the same line since.
UniqueUnchecked(w) == TRUE

Unique(w) == \A b \in stored : content[b] # NextLine(w)

InsertBlock(w) ==
    /\ pc[w] = "insert"
    /\ nextBlock \in BlockIds
    /\ IF Unique(w)
       THEN /\ stored' = stored \cup {nextBlock}
            /\ content' = [content EXCEPT ![nextBlock] = NextLine(w)]
            /\ nextBlock' = nextBlock + 1
            /\ ids' = [ids EXCEPT ![w] = Append(@, nextBlock)]
            /\ pc' = [pc EXCEPT ![w] = "find"]
            /\ UNCHANGED <<refCount, old, slot, text>>
       ELSE End(w) /\ UNCHANGED blockVars
    /\ UNCHANGED <<meta, map>>

SomeLinesFound(w) == ids[w] # <<>>

\* One transaction: refused as a whole when a block or the metadata is gone, or
\* a line number is taken. The triggers count the rows and touch the blocks.
MapAllowedWithoutBlocks(w) == slot[w] \in meta /\ map[slot[w]] = <<>>

MapAllowed(w) ==
    /\ \A i \in DOMAIN ids[w] : ids[w][i] \in stored
    /\ slot[w] \in meta
    /\ map[slot[w]] = <<>>

AllLinesFound(w) == Len(ids[w]) = Len(text[w])

CreateLineMappings(w) ==
    /\ pc[w] = "find"
    /\ AllLinesFound(w)
    /\ IF ids[w] # <<>> /\ MapAllowed(w)
       THEN /\ map' = [map EXCEPT ![slot[w]] = ids[w]]
            /\ refCount' = Inserted(ids[w])
            /\ old' = old \ {ids[w][i] : i \in DOMAIN ids[w]}
            /\ UNCHANGED <<stored, content, nextBlock>>
       ELSE UNCHANGED <<map, blockVars>>
    /\ End(w)
    /\ UNCHANGED meta

Crash(w) ==
    /\ pc[w] # "idle"
    /\ End(w)
    /\ UNCHANGED <<blockVars, meta, map>>

-----------------------------------------------------------------------------
(* What happens to the tables besides                                      *)

\* The file or the layer is deleted: metadata and line map cascade.
Drop(s) ==
    /\ s \in meta
    /\ meta' = meta \ {s}
    /\ DeleteRows(s)
    /\ UNCHANGED <<pc, slot, text, ids>>

Age(b) ==
    /\ b \in stored
    /\ old' = old \cup {b}
    /\ UNCHANGED <<stored, content, refCount, nextBlock, meta, map,
                   pc, slot, text, ids>>

\* cleanup_unused_text_blocks, one statement; ON DELETE RESTRICT refuses all of
\* it when one of the blocks is still mapped.
Unused == {b \in stored \cap old : refCount[b] = 0}
Mapped == {b \in BlockIds : \E s \in Slots : Rows(map[s], b) > 0}

Cleanup ==
    /\ Unused \cap Mapped = {}
    /\ stored' = stored \ Unused
    /\ old' = old \ Unused
    /\ UNCHANGED <<content, refCount, nextBlock, meta, map, pc, slot, text, ids>>

-----------------------------------------------------------------------------

Next ==
    \/ \E w \in Writers :
        \/ \E s \in Slots, t \in Texts, isNew \in BOOLEAN : Write(w, s, t, isNew)
        \/ Unmap(w)
        \/ Unmeta(w)
        \/ CreateMeta(w)
        \/ FindBlock(w)
        \/ InsertBlock(w)
        \/ CreateLineMappings(w)
        \/ Crash(w)
    \/ \E s \in Slots : Drop(s)
    \/ \E b \in BlockIds : Age(b)
    \/ Cleanup

Spec == Init /\ [][Next]_vars

-----------------------------------------------------------------------------
(* Properties                                                              *)

Labels == {"idle", "unmap", "unmeta", "meta", "find", "insert"}

\* Every variable ranges over what the tables and the locals can hold; a line
\* is stored at most once (content_hash is unique) under an identity that is
\* never used again.
TypeOK ==
    /\ stored \subseteq 1..(nextBlock - 1)
    /\ content \in [BlockIds -> Lines]
    /\ \A a, b \in stored : content[a] = content[b] => a = b
    /\ refCount \in [BlockIds -> Nat]
    /\ old \subseteq stored
    /\ nextBlock \in 1..(MaxBlocks + 1)
    /\ meta \subseteq Slots
    /\ map \in [Slots -> Seq(BlockIds)]
    /\ pc \in [Writers -> Labels]
    /\ slot \in [Writers -> Slots]
    /\ text \in [Writers -> Texts \cup {<<>>}]
    /\ ids \in [Writers -> Seq(BlockIds)]

\* The count of a block is the number of lines that use it, over all files and
\* layers, after any interleaving of writes, overwrites, cascades and cleanups,
\* and with a line that occurs twice in a text.
RefCountExact ==
    \A b \in stored :
        refCount[b] = Cardinality(UNION {{<<s, i>> : i \in
                            {j \in DOMAIN map[s] : map[s][j] = b}} : s \in Slots})

\* A mapped line never loses its block: a cleanup that runs while a writer holds
\* blocks it has not mapped yet cannot leave a line without content.
NoDanglingLine ==
    \A s \in Slots : \A i \in DOMAIN map[s] : map[s][i] \in stored

\* What a slot maps is always the whole of one text that was written, never a
\* mixture of two writes or a part of one, although blocks are inserted, found,
\* cleaned up and inserted again under other identities meanwhile.
WholeTexts ==
    \A s \in Slots : map[s] # <<>> =>
        s \in meta /\ [i \in DOMAIN map[s] |-> content[map[s][i]]] \in Texts

\* The lines that the blocks of a slot stand for.
ShownLines(m, c) == [s \in Slots |-> [i \in DOMAIN m[s] |-> c[m[s][i]]]]

Table == INSTANCE TextRows WITH
    Together <- {{s} : s \in Slots}, present <- meta, shown <- ShownLines(map, content)

\* Through the blocks, which slots share, the statements of the writers act on the
\* texts of single slots: no insert, cleanup or overwrite of another slot changes
\* what a slot shows, and it never goes from one text to another at once.
RefinesTextRows == Table!RowsSpec
==============================================================================
