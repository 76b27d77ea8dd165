------------------------------ MODULE TextProofs -----------------------------
(***************************************************************************)
(* The texts, for every value of the constants: first the store of lines,  *)
(* then, from the second banner on, what becomes of the content.           *)
(***************************************************************************)
EXTENDS TextBlocks, TextContent, FiniteSetTheorems, SequenceTheorems,
        WellFoundedInduction, TLAPS

(***************************************************************************)
(* The store of text lines, for any number of writers, files, layers,      *)
(* texts and blocks.                                                       *)
(***************************************************************************)

\* The rows of text_line_map in which slot s has block b.
Placed(s, rows, b) == {<<s, i>> : i \in {j \in DOMAIN rows : rows[j] = b}}

Uses(m, b) == UNION {Placed(s, m[s], b) : s \in Slots}

\* The triggers have counted every row, also of blocks that are gone.
Counted ==
    \A b \in BlockIds :
        IsFiniteSet(Uses(map, b)) /\ refCount[b] = Cardinality(Uses(map, b))

\* A writer holds the blocks of the beginning of its text. They may be gone from
\* the table by now, but no other line has taken their identity.
Holds(w) ==
    /\ pc[w] # "idle" => text[w] \in Texts
    /\ IF pc[w] \in {"find", "insert"} THEN Len(ids[w]) <= Len(text[w])
       ELSE ids[w] = <<>>
    /\ pc[w] = "insert" => Len(ids[w]) < Len(text[w])
    /\ \A i \in DOMAIN ids[w] :
         ids[w][i] < nextBlock /\ content[ids[w][i]] = text[w][i]

TablesOK ==
    /\ stored \subseteq 1..(nextBlock - 1)
    /\ content \in [BlockIds -> Lines]
    /\ \A a, b \in stored : content[a] = content[b] => a = b
    /\ refCount \in [BlockIds -> Nat]
    /\ old \subseteq stored
    /\ nextBlock \in 1..(MaxBlocks + 1)
    /\ meta \subseteq Slots
    /\ map \in [Slots -> Seq(BlockIds)]
    /\ NoDanglingLine
    /\ WholeTexts
    /\ Counted

LocalsOK ==
    /\ pc \in [Writers -> Labels]
    /\ slot \in [Writers -> Slots]
    /\ text \in [Writers -> Texts \cup {<<>>}]
    /\ ids \in [Writers -> Seq(BlockIds)]
    /\ \A w \in Writers : Holds(w)

BlocksInv == TablesOK /\ LocalsOK

-----------------------------------------------------------------------------
(* Counting rows                                                           *)

\* A slot has as many rows of a block as the triggers count for it.
LEMMA PlacedCount ==
    ASSUME NEW s, NEW rows \in Seq(BlockIds), NEW b
    PROVE  /\ IsFiniteSet(Placed(s, rows, b))
           /\ Cardinality(Placed(s, rows, b)) = Rows(rows, b)
           /\ Rows(rows, b) \in Nat
           /\ Rows(rows, b) = 0 => \A i \in DOMAIN rows : rows[i] # b
<1> DEFINE J == {j \in DOMAIN rows : rows[j] = b}
           f == [i \in J |-> <<s, i>>]
<1>1. IsFiniteSet(J)
  <2>1. Len(rows) \in Nat /\ DOMAIN rows = 1..Len(rows)
    BY LenProperties
  <2>2. IsFiniteSet(1..Len(rows))
    BY <2>1, FS_Interval
  <2> QED
    BY <2>1, <2>2, FS_Subset
<1>2. f \in Bijection(J, Placed(s, rows, b))
  BY DEF Placed, Bijection, Injection, Surjection, IsInjective
<1>3. ExistsBijection(J, Placed(s, rows, b))
  BY <1>2 DEF ExistsBijection
<1>4. IsFiniteSet(Placed(s, rows, b)) /\ Cardinality(Placed(s, rows, b)) = Cardinality(J)
  BY <1>1, <1>3, FS_Bijection
<1>5. Cardinality(J) \in Nat /\ (Cardinality(J) = 0 => J = {})
  BY <1>1, FS_CardinalityType, FS_EmptySet
<1> QED
  BY <1>4, <1>5 DEF Rows

\* Rows of a slot that had none add to the uses of a block what is counted.
LEMMA UsesAdded ==
    ASSUME NEW m \in [Slots -> Seq(BlockIds)], NEW s \in Slots, NEW rows \in Seq(BlockIds),
           NEW b, m[s] = <<>>, IsFiniteSet(Uses(m, b))
    PROVE  LET n == [m EXCEPT ![s] = rows]
           IN  /\ IsFiniteSet(Uses(n, b))
               /\ Cardinality(Uses(n, b)) = Cardinality(Uses(m, b)) + Rows(rows, b)
<1> DEFINE n == [m EXCEPT ![s] = rows]
           P == Placed(s, rows, b)
<1>1. /\ n[s] = rows
      /\ \A t \in Slots \ {s} : n[t] = m[t]
  OBVIOUS
<1>2. \A t, q : Placed(t, <<>>, q) = {}
  BY DEF Placed
<1>3. Uses(n, b) = Uses(m, b) \cup P
  BY <1>1, <1>2 DEF Uses
<1>4. Uses(m, b) \cap P = {}
  <2> SUFFICES ASSUME NEW x \in Uses(m, b), x \in P PROVE FALSE
    OBVIOUS
  <2>1. PICK t \in Slots : x \in Placed(t, m[t], b)
    BY DEF Uses
  <2>2. t = s
    BY <2>1 DEF Placed
  <2> QED
    BY <1>2, <2>1, <2>2
<1>5. IsFiniteSet(P) /\ Cardinality(P) = Rows(rows, b) /\ Rows(rows, b) \in Nat
  BY PlacedCount
<1>6. /\ IsFiniteSet(Uses(m, b) \cup P)
      /\ Cardinality(Uses(m, b) \cup P)
           = Cardinality(Uses(m, b)) + Cardinality(P) - Cardinality(Uses(m, b) \cap P)
  BY <1>5, FS_Union
<1>7. Cardinality({}) = 0 /\ Cardinality(Uses(m, b)) \in Nat
  BY FS_EmptySet, FS_CardinalityType
<1>8. Cardinality(Uses(m, b) \cap P) = 0
  BY <1>4, <1>7
<1> HIDE DEF P, n
<1>9. Cardinality(Uses(n, b)) = Cardinality(Uses(m, b)) + Rows(rows, b)
  BY <1>3, <1>5, <1>6, <1>7, <1>8
<1> QED
  BY <1>3, <1>6, <1>9 DEF n

\* A slot that loses its rows takes away from the uses of a block what is counted.
LEMMA UsesRemoved ==
    ASSUME NEW m \in [Slots -> Seq(BlockIds)], NEW s \in Slots, NEW b, IsFiniteSet(Uses(m, b))
    PROVE  LET n == [m EXCEPT ![s] = <<>>]
           IN  /\ IsFiniteSet(Uses(n, b))
               /\ Cardinality(Uses(n, b)) = Cardinality(Uses(m, b)) - Rows(m[s], b)
               /\ Rows(m[s], b) <= Cardinality(Uses(m, b))
<1> DEFINE n == [m EXCEPT ![s] = <<>>]
           P == Placed(s, m[s], b)
<1>1. /\ n[s] = <<>>
      /\ \A t \in Slots \ {s} : n[t] = m[t]
  OBVIOUS
<1>2. \A t, q : Placed(t, <<>>, q) = {}
  BY DEF Placed
<1>3. P \subseteq Uses(m, b)
  BY DEF Uses
<1>4. \A t \in Slots \ {s} : Placed(t, m[t], b) \cap P = {}
  BY DEF Placed
<1>5. Uses(n, b) = Uses(m, b) \ P
  BY <1>1, <1>2, <1>4 DEF Uses
<1>6. IsFiniteSet(P) /\ Cardinality(P) = Rows(m[s], b) /\ Rows(m[s], b) \in Nat
  BY PlacedCount
<1>7. /\ IsFiniteSet(Uses(m, b) \ P)
      /\ Cardinality(Uses(m, b) \ P) = Cardinality(Uses(m, b)) - Cardinality(Uses(m, b) \cap P)
  BY FS_Difference
<1>8. Uses(m, b) \cap P = P
  BY <1>3
<1>9. Cardinality(P) <= Cardinality(Uses(m, b))
  BY <1>3, FS_Subset
<1> QED
  BY <1>5, <1>6, <1>7, <1>8, <1>9

-----------------------------------------------------------------------------
(* The tables                                                              *)

\* The rows of a slot go, and the triggers count them down.
LEMMA DeleteRowsKeeps ==
    ASSUME TablesOK, NEW s \in Slots, DeleteRows(s), meta' \in {meta, meta \ {s}}
    PROVE  TablesOK'
<1> USE DEF BlockIds
<1>1. /\ map \in [Slots -> Seq(BlockIds)] /\ refCount \in [BlockIds -> Nat]
      /\ Counted /\ NoDanglingLine /\ WholeTexts
  BY DEF TablesOK
<1>2. /\ map' = [map EXCEPT ![s] = <<>>] /\ refCount' = Deleted(map[s])
      /\ UNCHANGED <<stored, content, old, nextBlock>>
  BY DEF DeleteRows
<1>3. <<>> \in Seq(BlockIds)
  BY EmptySeq
<1>4. /\ map' \in [Slots -> Seq(BlockIds)] /\ map'[s] = <<>>
      /\ \A t \in Slots \ {s} : map'[t] = map[t]
  BY <1>1, <1>2, <1>3
<1>5. ASSUME NEW b \in BlockIds
      PROVE  /\ IsFiniteSet(Uses(map', b)) /\ refCount'[b] = Cardinality(Uses(map', b))
             /\ refCount'[b] \in Nat
  <2>1. IsFiniteSet(Uses(map, b)) /\ refCount[b] = Cardinality(Uses(map, b)) /\ refCount[b] \in Nat
    BY <1>1 DEF Counted
  <2>2. /\ IsFiniteSet(Uses(map', b))
        /\ Cardinality(Uses(map', b)) = Cardinality(Uses(map, b)) - Rows(map[s], b)
        /\ Rows(map[s], b) <= Cardinality(Uses(map, b))
    BY <1>1, <1>2, <2>1, UsesRemoved
  <2>3. Rows(map[s], b) \in Nat
    BY <1>1, PlacedCount
  <2>4. refCount'[b] = IF Rows(map[s], b) > refCount[b] THEN 0 ELSE refCount[b] - Rows(map[s], b)
    BY <1>2 DEF Deleted
  <2> QED
    BY <2>1, <2>2, <2>3, <2>4
<1>6. refCount' \in [BlockIds -> Nat] /\ Counted'
  BY <1>2, <1>5 DEF Counted, Deleted
<1>7. NoDanglingLine'
  BY <1>1, <1>2, <1>4 DEF NoDanglingLine
<1>8. WholeTexts'
  <2> SUFFICES ASSUME NEW t \in Slots, map'[t] # <<>>
               PROVE  t \in meta' /\ [i \in DOMAIN map'[t] |-> content'[map'[t][i]]] \in Texts
    BY DEF WholeTexts
  <2>1. t # s /\ map'[t] = map[t]
    BY <1>4
  <2> QED
    BY <1>1, <1>2, <2>1 DEF WholeTexts
<1> QED
  BY <1>2, <1>4, <1>6, <1>7, <1>8 DEF TablesOK

\* A writer whose locals a step leaves alone keeps what it holds.
LEMMA HoldsKept ==
    ASSUME BlocksInv, NEW w \in Writers,
           pc'[w] = pc[w], slot'[w] = slot[w], text'[w] = text[w], ids'[w] = ids[w],
           nextBlock' \in {nextBlock, nextBlock + 1},
           \A b \in BlockIds : b < nextBlock => content'[b] = content[b]
    PROVE  Holds(w)'
<1>1. /\ Holds(w) /\ nextBlock \in Nat /\ ids[w] \in Seq(BlockIds)
  BY MaxBlocksAssumption DEF BlocksInv, TablesOK, LocalsOK
<1>2. \A i \in DOMAIN ids[w] : ids[w][i] \in BlockIds /\ ids[w][i] \in Nat
  BY <1>1, LenProperties, ElementOfSeq, MaxBlocksAssumption DEF BlockIds
<1>3. \A i \in DOMAIN ids'[w] : ids'[w][i] < nextBlock' /\ content'[ids'[w][i]] = text'[w][i]
  BY <1>1, <1>2 DEF Holds
<1> QED
  BY <1>1, <1>3 DEF Holds

\* One writer goes on.
LEMMA WriterStep ==
    ASSUME BlocksInv, NEW w \in Writers,
           NEW l \in Labels, NEW s \in Slots, NEW t \in Texts \cup {<<>>},
           NEW new \in Seq(BlockIds),
           pc' = [pc EXCEPT ![w] = l], slot' = [slot EXCEPT ![w] = s],
           text' = [text EXCEPT ![w] = t], ids' = [ids EXCEPT ![w] = new],
           nextBlock' \in {nextBlock, nextBlock + 1},
           \A b \in BlockIds : b < nextBlock => content'[b] = content[b],
           l # "idle" => t \in Texts,
           IF l \in {"find", "insert"} THEN Len(new) <= Len(t) ELSE new = <<>>,
           l = "insert" => Len(new) < Len(t),
           \A i \in DOMAIN new : new[i] < nextBlock' /\ content'[new[i]] = t[i]
    PROVE  LocalsOK'
<1>1. /\ pc \in [Writers -> Labels] /\ slot \in [Writers -> Slots]
      /\ text \in [Writers -> Texts \cup {<<>>}] /\ ids \in [Writers -> Seq(BlockIds)]
  BY DEF BlocksInv, LocalsOK
<1>2. pc' \in [Writers -> Labels] /\ slot' \in [Writers -> Slots]
  BY <1>1
<1>3. text' \in [Writers -> Texts \cup {<<>>}] /\ ids' \in [Writers -> Seq(BlockIds)]
  BY <1>1
<1>4. ASSUME NEW v \in Writers, v # w PROVE Holds(v)'
  BY <1>1, <1>4, HoldsKept
<1>5. Holds(w)'
  BY <1>1 DEF Holds
<1> QED
  BY <1>2, <1>3, <1>4, <1>5 DEF LocalsOK

\* A writer that ends, with its work done, refused or cut short.
LEMMA EndKeeps ==
    ASSUME BlocksInv, NEW w \in Writers, End(w), UNCHANGED <<content, nextBlock>>
    PROVE  LocalsOK'
<1>1. slot \in [Writers -> Slots]
  BY DEF BlocksInv, LocalsOK
<1>2. slot[w] \in Slots /\ slot' = [slot EXCEPT ![w] = slot[w]]
  BY <1>1 DEF End
<1>3. <<>> \in Seq(BlockIds) /\ DOMAIN <<>> = {} /\ "idle" \in Labels
  BY EmptySeq DEF Labels
<1> QED
  BY <1>2, <1>3, WriterStep DEF End

\* A writer that goes on to its next statement with the blocks it has.
LEMMA GotoKeeps ==
    ASSUME BlocksInv, NEW w \in Writers, NEW l \in Labels, Goto(w, l), pc[w] # "idle",
           UNCHANGED <<content, nextBlock>>,
           \/ l \in {"unmap", "unmeta", "meta"} /\ pc[w] \in {"unmap", "unmeta", "meta"}
           \/ l = "find" /\ pc[w] = "meta"
           \/ l = "insert" /\ pc[w] = "find" /\ Len(ids[w]) < Len(text[w])
    PROVE  LocalsOK'
<1>1. /\ slot \in [Writers -> Slots] /\ text \in [Writers -> Texts \cup {<<>>}]
      /\ ids \in [Writers -> Seq(BlockIds)] /\ Holds(w)
  BY DEF BlocksInv, LocalsOK
<1>2. /\ slot[w] \in Slots /\ slot' = [slot EXCEPT ![w] = slot[w]]
      /\ text[w] \in Texts /\ text' = [text EXCEPT ![w] = text[w]]
      /\ ids[w] \in Seq(BlockIds) /\ ids' = [ids EXCEPT ![w] = ids[w]]
      /\ pc' = [pc EXCEPT ![w] = l]
  BY <1>1 DEF Goto, Holds
<1>3. Len(ids[w]) <= Len(text[w]) \/ l \notin {"find", "insert"}
  <2>1. CASE l = "find"
    <3>1. ids[w] = <<>> /\ Len(<<>>) = 0
      BY <1>1, <2>1 DEF Holds
    <3>2. Len(text[w]) \in Nat
      BY <1>2, TextsAssumption, LenProperties
    <3> QED
      BY <3>1, <3>2
  <2>2. CASE l = "insert"
    BY <1>1, <2>2 DEF Holds
  <2> QED
    BY <2>1, <2>2
<1>4. l \notin {"find", "insert"} => ids[w] = <<>>
  BY <1>1 DEF Holds
<1>5. \A i \in DOMAIN ids[w] : ids[w][i] < nextBlock' /\ content'[ids[w][i]] = text[w][i]
  BY <1>1 DEF Holds
<1>6. PICK s \in Slots, t \in Texts, new \in Seq(BlockIds) :
          s = slot[w] /\ t = text[w] /\ new = ids[w]
  BY <1>2
<1>7. IF l \in {"find", "insert"} THEN Len(new) <= Len(t) ELSE new = <<>>
  BY <1>3, <1>4, <1>6
<1>8. l = "insert" => Len(new) < Len(t)
  BY <1>6
<1>9. \A i \in DOMAIN new : new[i] < nextBlock' /\ content'[new[i]] = t[i]
  BY <1>5, <1>6
<1>10. /\ pc' = [pc EXCEPT ![w] = l] /\ slot' = [slot EXCEPT ![w] = s]
       /\ text' = [text EXCEPT ![w] = t] /\ ids' = [ids EXCEPT ![w] = new]
       /\ nextBlock' \in {nextBlock, nextBlock + 1}
       /\ \A b \in BlockIds : b < nextBlock => content'[b] = content[b]
  BY <1>2, <1>6
<1>11. t \in Texts \cup {<<>>} /\ (l # "idle" => t \in Texts)
  OBVIOUS
<1> QED
  BY <1>7, <1>8, <1>9, <1>10, <1>11, WriterStep, Zenon

\* Steps that leave the tables alone.
LEMMA TablesUnchanged ==
    ASSUME TablesOK, UNCHANGED <<blockVars, map>>, meta' \subseteq Slots, meta \subseteq meta'
    PROVE  TablesOK'
<1>1. NoDanglingLine' /\ Counted'
  BY DEF TablesOK, NoDanglingLine, Counted, blockVars
<1>2. WholeTexts'
  BY DEF TablesOK, WholeTexts, blockVars
<1> QED
  BY <1>1, <1>2 DEF TablesOK, blockVars

\* A writer adds the block of the next line of its text.
LEMMA LineFound ==
    ASSUME BlocksInv, NEW w \in Writers, pc[w] \in {"find", "insert"}, Len(ids[w]) < Len(text[w]),
           NEW b \in BlockIds,
           pc' = [pc EXCEPT ![w] = "find"], ids' = [ids EXCEPT ![w] = Append(ids[w], b)],
           UNCHANGED <<slot, text>>,
           nextBlock' \in {nextBlock, nextBlock + 1},
           \A k \in BlockIds : k < nextBlock => content'[k] = content[k],
           b < nextBlock', content'[b] = NextLine(w)
    PROVE  LocalsOK'
<1>1. /\ slot \in [Writers -> Slots] /\ text \in [Writers -> Texts \cup {<<>>}]
      /\ ids[w] \in Seq(BlockIds) /\ Holds(w) /\ nextBlock \in Nat
  BY MaxBlocksAssumption DEF BlocksInv, LocalsOK, TablesOK
<1>2. text[w] \in Texts /\ text[w] \in Seq(Lines)
  BY <1>1, TextsAssumption DEF Holds
<1>3. Len(text[w]) \in Nat /\ Len(ids[w]) \in Nat
  BY <1>1, <1>2, LenProperties
<1>0. PICK new \in Seq(BlockIds) : new = Append(ids[w], b)
  BY <1>1, AppendProperties
<1>4. /\ Len(new) = Len(ids[w]) + 1 /\ DOMAIN new = 1..(Len(ids[w]) + 1)
      /\ \A i \in 1..Len(ids[w]) : new[i] = ids[w][i]
      /\ new[Len(ids[w]) + 1] = b
  BY <1>0, <1>1, AppendProperties, LenProperties
<1>5. \A i \in 1..Len(ids[w]) :
         ids[w][i] \in BlockIds /\ ids[w][i] < nextBlock /\ content[ids[w][i]] = text[w][i]
  BY <1>1, LenProperties, ElementOfSeq DEF Holds
<1>6. ASSUME NEW i \in DOMAIN new PROVE new[i] < nextBlock' /\ content'[new[i]] = text[w][i]
  <2>1. CASE i \in 1..Len(ids[w])
    <3>1. ids[w][i] \in Nat
      BY <1>5, <2>1, MaxBlocksAssumption DEF BlockIds
    <3> QED
      BY <1>1, <1>4, <1>5, <2>1, <3>1
  <2>2. CASE i = Len(ids[w]) + 1
    BY <1>4, <2>2 DEF NextLine
  <2> QED
    BY <1>3, <1>4, <2>1, <2>2
<1>7. /\ pc \in [Writers -> Labels] /\ ids \in [Writers -> Seq(BlockIds)] /\ "find" \in Labels
  BY DEF BlocksInv, LocalsOK, Labels
<1>8. /\ pc' \in [Writers -> Labels] /\ ids' \in [Writers -> Seq(BlockIds)]
      /\ pc'[w] = "find" /\ ids'[w] = new
      /\ \A v \in Writers \ {w} : pc'[v] = pc[v] /\ ids'[v] = ids[v]
  BY <1>0, <1>7
<1>9. Len(new) <= Len(text[w])
  BY <1>3, <1>4
<1>10. Holds(w)'
  BY <1>2, <1>6, <1>8, <1>9 DEF Holds
<1>11. ASSUME NEW v \in Writers, v # w PROVE Holds(v)'
  BY <1>8, <1>11, HoldsKept
<1> QED
  BY <1>1, <1>8, <1>10, <1>11 DEF LocalsOK

\* create_block: a line that is found, or a new block for it, or a refusal.
LEMMA FindAndInsertKeep ==
    ASSUME BlocksInv, NEW w \in Writers, FindBlock(w) \/ InsertBlock(w)
    PROVE  BlocksInv'
<1>1. /\ TablesOK /\ LocalsOK /\ Holds(w) /\ pc \in [Writers -> Labels]
      /\ ids \in [Writers -> Seq(BlockIds)] /\ text \in [Writers -> Texts \cup {<<>>}]
      /\ stored \subseteq 1..(nextBlock - 1) /\ nextBlock \in 1..(MaxBlocks + 1)
  BY DEF BlocksInv, LocalsOK, TablesOK
<1>2. CASE FindBlock(w)
  <2>1. /\ pc[w] = "find" /\ Len(ids[w]) < Len(text[w])
        /\ UNCHANGED <<blockVars, meta, map>>
    BY <1>2 DEF FindBlock
  <2>2. TablesOK'
    BY <1>1, <2>1, TablesUnchanged DEF TablesOK
  <2>3. UNCHANGED <<content, nextBlock>>
    BY <2>1 DEF blockVars
  <2>4. CASE Goto(w, "insert")
    <3>1. "insert" \in Labels
      BY DEF Labels
    <3> QED
      BY <2>1, <2>2, <2>3, <2>4, <3>1, GotoKeeps DEF BlocksInv
  <2>5. ASSUME NEW b \in stored, content[b] = NextLine(w),
               ids' = [ids EXCEPT ![w] = Append(@, b)], UNCHANGED <<pc, slot, text>>
        PROVE  BlocksInv'
    <3>1. b \in BlockIds /\ b < nextBlock
      BY <1>1, MaxBlocksAssumption DEF BlockIds
    <3>2. pc' = [pc EXCEPT ![w] = "find"]
      BY <1>1, <2>1, <2>5
    <3>3. LocalsOK'
      BY <2>1, <2>3, <2>5, <3>1, <3>2, LineFound
    <3> QED
      BY <2>2, <3>3 DEF BlocksInv
  <2> QED
    BY <1>2, <2>4, <2>5 DEF FindBlock
<1>3. CASE InsertBlock(w)
  <2>1. /\ pc[w] = "insert" /\ nextBlock \in BlockIds /\ UNCHANGED <<meta, map>>
        /\ Len(ids[w]) < Len(text[w])
    BY <1>1, <1>3 DEF InsertBlock, Holds
  <2>2. CASE ~Unique(w)
    <3>1. End(w) /\ UNCHANGED blockVars
      BY <1>3, <2>2 DEF InsertBlock
    <3>2. TablesOK' /\ UNCHANGED <<content, nextBlock>>
      BY <1>1, <2>1, <3>1, TablesUnchanged DEF TablesOK, blockVars
    <3> QED
      BY <3>1, <3>2, EndKeeps DEF BlocksInv
  <2>3. CASE Unique(w)
    <3> DEFINE b == nextBlock
    <3>1. /\ stored' = stored \cup {b}
          /\ content' = [content EXCEPT ![b] = NextLine(w)]
          /\ nextBlock' = b + 1
          /\ ids' = [ids EXCEPT ![w] = Append(@, b)]
          /\ pc' = [pc EXCEPT ![w] = "find"]
          /\ UNCHANGED <<refCount, old, slot, text>>
      BY <1>3, <2>3 DEF InsertBlock
    <3>2. /\ content \in [BlockIds -> Lines]
          /\ \A a, c \in stored : content[a] = content[c] => a = c
          /\ old \subseteq stored /\ b \in Nat /\ b \notin stored
          /\ \A a \in stored : a \in BlockIds /\ a # b
          /\ map \in [Slots -> Seq(BlockIds)] /\ NoDanglingLine /\ WholeTexts /\ Counted
      BY <1>1, MaxBlocksAssumption DEF TablesOK, BlockIds
    <3>3. NextLine(w) \in Lines
      <4>1. text[w] \in Seq(Lines) /\ ids[w] \in Seq(BlockIds)
        BY <1>1, <2>1, TextsAssumption DEF Holds
      <4>2. Len(ids[w]) + 1 \in 1..Len(text[w])
        BY <2>1, <4>1, LenProperties
      <4> QED
        BY <4>1, <4>2, ElementOfSeq DEF NextLine
    <3>4. /\ content' \in [BlockIds -> Lines] /\ content'[b] = NextLine(w)
          /\ \A k \in BlockIds : k # b => content'[k] = content[k]
      BY <2>1, <3>1, <3>2, <3>3
    <3>5. LocalsOK'
      <4>1. \A k \in BlockIds : k < nextBlock => k # b
        BY <3>2, MaxBlocksAssumption DEF BlockIds
      <4>2. b < nextBlock' /\ b \in BlockIds
        BY <2>1, <3>1, <3>2
      <4> QED
        BY <2>1, <3>1, <3>4, <4>1, <4>2, LineFound
    <3>6. \A a, c \in stored' : content'[a] = content'[c] => a = c
      BY <2>3, <3>1, <3>2, <3>4 DEF Unique
    <3>7. stored' \subseteq 1..(nextBlock' - 1) /\ nextBlock' \in 1..(MaxBlocks + 1)
      BY <1>1, <2>1, <3>1, MaxBlocksAssumption DEF BlockIds
    <3>8. NoDanglingLine'
      BY <2>1, <3>1, <3>2 DEF NoDanglingLine
    <3>9. WholeTexts'
      <4> SUFFICES ASSUME NEW s \in Slots, map[s] # <<>>
                   PROVE  s \in meta /\ [i \in DOMAIN map[s] |-> content'[map[s][i]]] \in Texts
        BY <2>1 DEF WholeTexts
      <4>1. \A i \in DOMAIN map[s] : content'[map[s][i]] = content[map[s][i]]
        BY <3>2, <3>4 DEF NoDanglingLine
      <4>2. [i \in DOMAIN map[s] |-> content'[map[s][i]]] = [i \in DOMAIN map[s] |-> content[map[s][i]]]
        BY <4>1
      <4> QED
        BY <3>2, <4>2 DEF WholeTexts
    <3>10. Counted'
      BY <2>1, <3>1, <3>2 DEF Counted
    <3>11. TablesOK'
      BY <1>1, <2>1, <3>1, <3>2, <3>4, <3>6, <3>7, <3>8, <3>9, <3>10 DEF TablesOK
    <3> QED
      BY <3>5, <3>11 DEF BlocksInv
  <2> QED
    BY <2>2, <2>3
<1> QED
  BY <1>2, <1>3

\* What is mapped at the end is the text the writer was given.
LEMMA MappedText ==
    ASSUME BlocksInv, NEW w \in Writers, pc[w] = "find", AllLinesFound(w)
    PROVE  [i \in DOMAIN ids[w] |-> content[ids[w][i]]] = text[w] /\ text[w] \in Texts
<1>1. Holds(w) /\ ids[w] \in Seq(BlockIds) /\ Len(ids[w]) = Len(text[w])
  BY DEF BlocksInv, LocalsOK, AllLinesFound
<1>2. text[w] \in Texts /\ text[w] \in Seq(Lines)
  BY <1>1, TextsAssumption DEF Holds
<1>3. DOMAIN ids[w] = 1..Len(ids[w]) /\ text[w] \in [1..Len(ids[w]) -> Lines]
  BY <1>1, <1>2, LenProperties
<1>4. \A i \in 1..Len(ids[w]) : content[ids[w][i]] = text[w][i]
  BY <1>1, <1>3 DEF Holds
<1> QED
  BY <1>2, <1>3, <1>4

\* create_line_mappings: what is mapped is the text the writer was given, and the
\* triggers count it.
LEMMA MappingKeeps ==
    ASSUME BlocksInv, NEW w \in Writers, CreateLineMappings(w)
    PROVE  BlocksInv'
<1>1. /\ TablesOK /\ Holds(w) /\ slot[w] \in Slots /\ ids[w] \in Seq(BlockIds)
      /\ map \in [Slots -> Seq(BlockIds)] /\ NoDanglingLine /\ WholeTexts /\ Counted
      /\ refCount \in [BlockIds -> Nat]
  BY DEF BlocksInv, LocalsOK, TablesOK
<1>2. pc[w] = "find" /\ Len(ids[w]) = Len(text[w]) /\ End(w) /\ UNCHANGED meta
  BY DEF CreateLineMappings, AllLinesFound
<1>3. UNCHANGED <<stored, content, nextBlock>>
  BY DEF CreateLineMappings, blockVars
<1>4. LocalsOK'
  BY <1>2, <1>3, EndKeeps
<1>5. CASE UNCHANGED <<map, blockVars>>
  BY <1>1, <1>2, <1>4, <1>5, TablesUnchanged DEF BlocksInv, TablesOK
<1>6. ASSUME ids[w] # <<>>, MapAllowed(w),
             map' = [map EXCEPT ![slot[w]] = ids[w]], refCount' = Inserted(ids[w]),
             old' = old \ {ids[w][i] : i \in DOMAIN ids[w]}
      PROVE  BlocksInv'
  <2> DEFINE s == slot[w]
  <2>1. /\ \A i \in DOMAIN ids[w] : ids[w][i] \in stored
        /\ s \in meta /\ map[s] = <<>>
    BY <1>6 DEF MapAllowed
  <2>2. /\ map' \in [Slots -> Seq(BlockIds)] /\ map'[s] = ids[w]
        /\ \A t \in Slots \ {s} : map'[t] = map[t]
    BY <1>1, <1>6
  <2>3. NoDanglingLine'
    BY <1>1, <1>3, <2>1, <2>2 DEF NoDanglingLine
  <2>4. [i \in DOMAIN ids[w] |-> content[ids[w][i]]] = text[w] /\ text[w] \in Texts
    BY <1>2, MappedText DEF AllLinesFound
  <2>5. WholeTexts'
    <3> SUFFICES ASSUME NEW t \in Slots, map'[t] # <<>>
                 PROVE  t \in meta' /\ [i \in DOMAIN map'[t] |-> content'[map'[t][i]]] \in Texts
      BY DEF WholeTexts
    <3>1. CASE t = s
      BY <1>2, <1>3, <2>1, <2>2, <2>4, <3>1
    <3>2. CASE t # s
      BY <1>1, <1>2, <1>3, <2>2, <3>2 DEF WholeTexts
    <3> QED
      BY <3>1, <3>2
  <2>6. ASSUME NEW b \in BlockIds
        PROVE  /\ IsFiniteSet(Uses(map', b)) /\ refCount'[b] = Cardinality(Uses(map', b))
               /\ refCount'[b] \in Nat
    <3>1. IsFiniteSet(Uses(map, b)) /\ refCount[b] = Cardinality(Uses(map, b)) /\ refCount[b] \in Nat
      BY <1>1 DEF Counted
    <3>2. /\ IsFiniteSet(Uses(map', b))
          /\ Cardinality(Uses(map', b)) = Cardinality(Uses(map, b)) + Rows(ids[w], b)
      BY <1>1, <1>6, <2>1, <3>1, UsesAdded
    <3>3. Rows(ids[w], b) \in Nat
      BY <1>1, PlacedCount
    <3>4. refCount'[b] = refCount[b] + Rows(ids[w], b)
      BY <1>6 DEF Inserted
    <3> QED
      BY <3>1, <3>2, <3>3, <3>4
  <2>7. refCount' \in [BlockIds -> Nat] /\ Counted'
    BY <1>6, <2>6 DEF Counted, Inserted
  <2>8. old' \subseteq stored'
    BY <1>1, <1>3, <1>6 DEF TablesOK
  <2>9. TablesOK'
    BY <1>1, <1>2, <1>3, <2>2, <2>3, <2>5, <2>7, <2>8 DEF TablesOK
  <2> QED
    BY <1>4, <2>9 DEF BlocksInv
<1> QED
  BY <1>5, <1>6 DEF CreateLineMappings

\* cleanup_unused_text_blocks: a block that is counted zero is not mapped.
LEMMA CleanupKeeps ==
    ASSUME BlocksInv, Cleanup
    PROVE  BlocksInv'
<1>1. /\ TablesOK /\ LocalsOK /\ NoDanglingLine /\ WholeTexts /\ Counted
      /\ map \in [Slots -> Seq(BlockIds)]
  BY DEF BlocksInv, TablesOK
<1>2. /\ stored' = stored \ Unused /\ old' = old \ Unused /\ Unused \cap Mapped = {}
      /\ UNCHANGED <<content, refCount, nextBlock, meta, map, pc, slot, text, ids>>
  BY DEF Cleanup
<1>3. ASSUME NEW s \in Slots, NEW i \in DOMAIN map[s] PROVE map[s][i] \in stored'
  <2>1. map[s][i] \in stored /\ map[s] \in Seq(BlockIds)
    BY <1>1 DEF NoDanglingLine
  <2>2. map[s][i] \in BlockIds
    BY <2>1, LenProperties, ElementOfSeq
  <2>3. Rows(map[s], map[s][i]) > 0
    <3>1. ASSUME NEW b
          PROVE  /\ Rows(map[s], b) \in Nat
                 /\ Rows(map[s], b) = 0 => \A k \in DOMAIN map[s] : map[s][k] # b
      BY <2>1, PlacedCount
    <3> QED
      BY <3>1
  <2>4. map[s][i] \in Mapped
    BY <2>2, <2>3 DEF Mapped
  <2> QED
    BY <1>2, <2>1, <2>4
<1>4. NoDanglingLine'
  BY <1>2, <1>3 DEF NoDanglingLine
<1>5. WholeTexts' /\ Counted'
  BY <1>1, <1>2 DEF WholeTexts, Counted
<1>6. TablesOK'
  BY <1>1, <1>2, <1>4, <1>5 DEF TablesOK
<1>7. \A w \in Writers : Holds(w)'
  BY <1>1, <1>2 DEF LocalsOK, Holds
<1> QED
  BY <1>1, <1>2, <1>6, <1>7 DEF BlocksInv, LocalsOK

\* Every step keeps the inductive invariant.
LEMMA BlocksStep == BlocksInv /\ [Next]_vars => BlocksInv'
<1> SUFFICES ASSUME BlocksInv, [Next]_vars PROVE BlocksInv'
  OBVIOUS
<1>1. /\ TablesOK /\ LocalsOK /\ slot \in [Writers -> Slots] /\ ids \in [Writers -> Seq(BlockIds)]
      /\ meta \subseteq Slots /\ \A w \in Writers : Holds(w)
      /\ pc \in [Writers -> Labels]
  BY DEF BlocksInv, LocalsOK, TablesOK
<1>2. /\ "unmap" \in Labels /\ "unmeta" \in Labels /\ "meta" \in Labels /\ "find" \in Labels
  BY DEF Labels
<1>3. ASSUME NEW w \in Writers, NEW s \in Slots, NEW t \in Texts, NEW isNew \in BOOLEAN,
             Write(w, s, t, isNew)
      PROVE  BlocksInv'
  <2> DEFINE l == IF isNew THEN "meta" ELSE "unmap"
  <2>1. /\ pc[w] = "idle" /\ pc' = [pc EXCEPT ![w] = l] /\ slot' = [slot EXCEPT ![w] = s]
        /\ text' = [text EXCEPT ![w] = t] /\ UNCHANGED <<blockVars, meta, map, ids>>
    BY <1>3 DEF Write
  <2>2. ids[w] = <<>> /\ ids[w] \in Seq(BlockIds) /\ ids' = [ids EXCEPT ![w] = ids[w]]
    BY <1>1, <2>1 DEF Holds
  <2>3. DOMAIN ids[w] = {} /\ l \in Labels /\ l \notin {"find", "insert"}
    BY <1>2, <2>2
  <2>4. TablesOK' /\ UNCHANGED <<content, nextBlock>>
    BY <1>1, <2>1, TablesUnchanged DEF blockVars
  <2> HIDE DEF l
  <2>5. LocalsOK'
    BY <2>1, <2>2, <2>3, <2>4, WriterStep
  <2> QED
    BY <2>4, <2>5 DEF BlocksInv
<1>4. ASSUME NEW w \in Writers, Unmap(w) \/ Unmeta(w) PROVE BlocksInv'
  <2>1. slot[w] \in Slots /\ DeleteRows(slot[w]) /\ meta' \in {meta, meta \ {slot[w]}}
    BY <1>1, <1>4 DEF Unmap, Unmeta
  <2>2. TablesOK' /\ UNCHANGED <<content, nextBlock>>
    BY <1>1, <2>1, DeleteRowsKeeps DEF DeleteRows
  <2>3. LocalsOK'
    BY <1>2, <1>4, <2>2, GotoKeeps DEF Unmap, Unmeta
  <2> QED
    BY <2>2, <2>3 DEF BlocksInv
<1>5. ASSUME NEW w \in Writers, CreateMeta(w) PROVE BlocksInv'
  <2>1. /\ pc[w] = "meta" /\ UNCHANGED <<blockVars, map>>
        /\ meta' \subseteq Slots /\ meta \subseteq meta'
        /\ End(w) \/ Goto(w, "find")
    BY <1>1, <1>5 DEF CreateMeta
  <2>2. TablesOK' /\ UNCHANGED <<content, nextBlock>>
    BY <1>1, <2>1, TablesUnchanged DEF blockVars
  <2>3. LocalsOK'
    BY <1>2, <2>1, <2>2, GotoKeeps, EndKeeps
  <2> QED
    BY <2>2, <2>3 DEF BlocksInv
<1>6. ASSUME NEW w \in Writers, Crash(w) PROVE BlocksInv'
  <2>1. TablesOK' /\ UNCHANGED <<content, nextBlock>>
    BY <1>1, <1>6, TablesUnchanged DEF Crash, blockVars
  <2> QED
    BY <1>6, <2>1, EndKeeps DEF Crash, BlocksInv
<1>7. ASSUME TablesOK', UNCHANGED <<content, nextBlock, pc, slot, text, ids>> PROVE BlocksInv'
  <2>1. \A w \in Writers : Holds(w)'
    BY <1>7, HoldsKept
  <2> QED
    BY <1>1, <1>7, <2>1 DEF BlocksInv, LocalsOK
<1>8. ASSUME NEW s \in Slots, Drop(s) PROVE BlocksInv'
  <2>1. TablesOK' /\ UNCHANGED <<content, nextBlock, pc, slot, text, ids>>
    BY <1>1, <1>8, DeleteRowsKeeps DEF Drop, DeleteRows
  <2> QED
    BY <1>7, <2>1
<1>9. ASSUME NEW b \in BlockIds, Age(b) PROVE BlocksInv'
  <2>1. NoDanglingLine' /\ Counted' /\ WholeTexts'
    BY <1>1, <1>9 DEF Age, TablesOK, NoDanglingLine, Counted, WholeTexts
  <2>2. TablesOK'
    BY <1>1, <1>9, <2>1 DEF Age, TablesOK
  <2> QED
    BY <1>7, <1>9, <2>2 DEF Age
<1>10. CASE UNCHANGED vars
  <2>1. TablesOK'
    BY <1>1, <1>10, TablesUnchanged DEF vars, blockVars
  <2> QED
    BY <1>7, <1>10, <2>1 DEF vars
<1> QED
  BY <1>3, <1>4, <1>5, <1>6, <1>8, <1>9, <1>10, FindAndInsertKeep, MappingKeeps, CleanupKeeps
     DEF Next

\* The inductive invariant holds in every reachable state.
LEMMA SpecBlocks == Spec => []BlocksInv
<1>1. Init => BlocksInv
  <2> SUFFICES ASSUME Init PROVE BlocksInv
    OBVIOUS
  <2>1. <<>> \in Seq(BlockIds) /\ DOMAIN <<>> = {} /\ "idle" \in Labels
    BY EmptySeq DEF Labels
  <2>2. \A b \in BlockIds : Uses(map, b) = {}
    BY DEF Init, Uses, Placed
  <2>3. Counted
    BY <2>2, FS_EmptySet DEF Init, Counted
  <2>4. TablesOK
    BY <2>1, <2>3, TextsAssumption, MaxBlocksAssumption
       DEF Init, TablesOK, NoDanglingLine, WholeTexts
  <2>5. LocalsOK
    BY <2>1 DEF Init, LocalsOK, Holds
  <2> QED
    BY <2>4, <2>5 DEF BlocksInv
<1> QED
  BY <1>1, BlocksStep, PTL DEF Spec

-----------------------------------------------------------------------------
(* What the store promises                                                 *)

\* The tables and the locals of any number of writers keep their types; a line is
\* stored once, under an identity that is not used again.
THEOREM BlocksTypeCorrect == Spec => []TypeOK
<1>1. BlocksInv => TypeOK
  BY DEF BlocksInv, TablesOK, LocalsOK, TypeOK
<1> QED
  BY <1>1, SpecBlocks, PTL

\* However writes, overwrites, deletions, crashes and cleanups interleave, the
\* reference count of a block is the number of lines that use it.
THEOREM RefCountsAreExact == Spec => []RefCountExact
<1>1. BlocksInv => RefCountExact
  <2> SUFFICES ASSUME BlocksInv, NEW b \in stored
               PROVE  refCount[b] = Cardinality(Uses(map, b))
    BY DEF RefCountExact, Uses, Placed
  <2>1. b \in BlockIds
    BY MaxBlocksAssumption DEF BlocksInv, TablesOK, BlockIds
  <2> QED
    BY <2>1 DEF BlocksInv, TablesOK, Counted
<1> QED
  BY <1>1, SpecBlocks, PTL

\* No cleanup takes a block away from a line that is mapped.
THEOREM NoLineDangles == Spec => []NoDanglingLine
<1>1. BlocksInv => NoDanglingLine
  BY DEF BlocksInv, TablesOK
<1> QED
  BY <1>1, SpecBlocks, PTL

\* What a file has in a layer is the whole of one text that was written, whatever
\* writes of the same file overlap and wherever they crash.
THEOREM TextsStayWhole == Spec => []WholeTexts
<1>1. BlocksInv => WholeTexts
  BY DEF BlocksInv, TablesOK
<1> QED
  BY <1>1, SpecBlocks, PTL

-----------------------------------------------------------------------------
(* The store implements the table of texts                                 *)

\* Without rows there are no lines.
LEMMA NothingShown ==
    ASSUME NEW m, NEW c, NEW s \in Slots, m[s] = <<>>
    PROVE  ShownLines(m, c)[s] = <<>>
<1>1. [i \in DOMAIN <<>> |-> c[m[s][i]]] = <<>>
  OBVIOUS
<1> QED
  BY <1>1 DEF ShownLines

\* Blocks that nobody maps do not matter to what is shown.
LEMMA ShownSame ==
    ASSUME NEW m, NEW c, NEW d,
           \A s \in Slots : \A i \in DOMAIN m[s] : d[m[s][i]] = c[m[s][i]]
    PROVE  ShownLines(m, d) = ShownLines(m, c)
BY DEF ShownLines

\* A slot without rows shows nothing, and the others what they showed.
LEMMA ShownCleared ==
    ASSUME NEW m \in [Slots -> Seq(BlockIds)], NEW c, NEW s \in Slots, NEW n,
           n = [m EXCEPT ![s] = <<>>]
    PROVE  ShownLines(n, c) = [ShownLines(m, c) EXCEPT ![s] = <<>>]
<1>1. n[s] = <<>> /\ \A t \in Slots \ {s} : n[t] = m[t]
  OBVIOUS
<1>2. ShownLines(n, c)[s] = <<>>
  <2>1. [i \in DOMAIN n[s] |-> c[n[s][i]]] = <<>>
    BY <1>1
  <2> QED
    BY <2>1 DEF ShownLines
<1>3. \A t \in Slots \ {s} : ShownLines(n, c)[t] = ShownLines(m, c)[t]
  BY <1>1 DEF ShownLines
<1> QED
  BY <1>2, <1>3 DEF ShownLines

\* The empty tables show nothing.
LEMMA InitRows == Init => Table!RowsInit
<1> SUFFICES ASSUME Init PROVE Table!RowsInit
  OBVIOUS
<1>1. meta = {} /\ \A s \in Slots : map[s] = <<>>
  BY DEF Init
<1>2. \A s \in Slots : ShownLines(map, content)[s] = <<>>
  BY <1>1, NothingShown
<1>3. ShownLines(map, content) = [s \in Slots |-> <<>>]
  BY <1>2 DEF ShownLines
<1> QED
  BY <1>1, <1>3 DEF Table!RowsInit

\* Every statement is one step of the table of texts, or none.
LEMMA NextRows ==
    ASSUME BlocksInv, [Next]_vars
    PROVE  [Table!RowsNext]_(Table!rowsVars)
<1>1. /\ map \in [Slots -> Seq(BlockIds)] /\ slot \in [Writers -> Slots] /\ NoDanglingLine
      /\ stored \subseteq 1..(nextBlock - 1) /\ content \in [BlockIds -> Lines]
      /\ nextBlock \in Nat
  BY MaxBlocksAssumption DEF BlocksInv, TablesOK, LocalsOK
<1>2. ASSUME UNCHANGED <<meta, map, content>> PROVE UNCHANGED Table!rowsVars
  BY <1>2 DEF Table!rowsVars
<1>3. ASSUME NEW w \in Writers, Unmap(w) PROVE Table!RowsNext
  <2>1. /\ slot[w] \in Slots /\ map' = [map EXCEPT ![slot[w]] = <<>>]
        /\ UNCHANGED <<content, meta>>
    BY <1>1, <1>3 DEF Unmap, DeleteRows
  <2>2. ShownLines(map, content)' = [ShownLines(map, content) EXCEPT ![slot[w]] = <<>>]
    BY <1>1, <2>1, ShownCleared
  <2>3. Table!HideText(slot[w])
    BY <2>1, <2>2 DEF Table!HideText
  <2> QED
    BY <2>1, <2>3 DEF Table!RowsNext
<1>4. ASSUME NEW s \in Slots, DeleteRows(s), meta' = meta \ {s} PROVE Table!RowsNext
  <2>1. map' = [map EXCEPT ![s] = <<>>] /\ UNCHANGED content
    BY <1>4 DEF DeleteRows
  <2>2. ShownLines(map, content)' = [ShownLines(map, content) EXCEPT ![s] = <<>>]
    BY <1>1, <2>1, ShownCleared
  <2>3. [ShownLines(map, content) EXCEPT ![s] = <<>>]
          = [t \in Slots |-> IF t \in {s} THEN <<>> ELSE ShownLines(map, content)[t]]
    BY DEF ShownLines
  <2>4. Table!RemoveMeta({s})
    BY <1>4, <2>2, <2>3 DEF Table!RemoveMeta
  <2> QED
    BY <2>4 DEF Table!RowsNext
<1>5. ASSUME NEW w \in Writers, CreateMeta(w)
      PROVE  Table!RowsNext \/ UNCHANGED Table!rowsVars
  <2>1. slot[w] \in Slots /\ UNCHANGED <<content, map>>
    BY <1>1, <1>5 DEF CreateMeta, blockVars
  <2>2. CASE slot[w] \in meta
    BY <1>2, <1>5, <2>1, <2>2 DEF CreateMeta
  <2>3. CASE slot[w] \notin meta
    <3>1. Table!AddMeta(slot[w])
      BY <1>5, <2>1, <2>3 DEF CreateMeta, Table!AddMeta
    <3> QED
      BY <2>1, <3>1 DEF Table!RowsNext
  <2> QED
    BY <2>2, <2>3
<1>6. ASSUME NEW w \in Writers, InsertBlock(w) PROVE UNCHANGED Table!rowsVars
  <2>1. UNCHANGED <<meta, map>> /\ nextBlock \in BlockIds
    BY <1>6 DEF InsertBlock
  <2>2. ASSUME NEW b \in stored PROVE content'[b] = content[b]
    <3>1. b \in BlockIds /\ b # nextBlock
      BY <1>1, <2>1, MaxBlocksAssumption DEF BlockIds
    <3> QED
      BY <1>1, <1>6, <3>1 DEF InsertBlock, blockVars
  <2>3. \A s \in Slots : \A i \in DOMAIN map[s] : content'[map[s][i]] = content[map[s][i]]
    BY <1>1, <2>2 DEF NoDanglingLine
  <2>4. ShownLines(map, content') = ShownLines(map, content)
    BY <2>3, ShownSame
  <2> QED
    BY <2>1, <2>4 DEF Table!rowsVars
<1>7. ASSUME NEW w \in Writers, CreateLineMappings(w)
      PROVE  Table!RowsNext \/ UNCHANGED Table!rowsVars
  <2>1. /\ slot[w] \in Slots /\ pc[w] = "find" /\ AllLinesFound(w) /\ UNCHANGED <<content, meta>>
    BY <1>1, <1>7 DEF CreateLineMappings, blockVars
  <2>2. CASE ~(ids[w] # <<>> /\ MapAllowed(w))
    BY <1>2, <1>7, <2>1, <2>2 DEF CreateLineMappings
  <2>3. CASE ids[w] # <<>> /\ MapAllowed(w)
    <3>1. map' = [map EXCEPT ![slot[w]] = ids[w]] /\ slot[w] \in meta /\ map[slot[w]] = <<>>
      BY <1>7, <2>3 DEF CreateLineMappings, MapAllowed
    <3>2. [i \in DOMAIN ids[w] |-> content[ids[w][i]]] = text[w] /\ text[w] \in Texts
      BY <2>1, MappedText
    <3>3. ShownLines(map, content)' = [ShownLines(map, content) EXCEPT ![slot[w]] = text[w]]
      <4>1. map'[slot[w]] = ids[w] /\ \A t \in Slots \ {slot[w]} : map'[t] = map[t]
        BY <1>1, <2>1, <3>1
      <4>2. ShownLines(map', content)[slot[w]] = text[w]
        BY <2>1, <3>2, <4>1 DEF ShownLines
      <4>3. \A t \in Slots \ {slot[w]} : ShownLines(map', content)[t] = ShownLines(map, content)[t]
        BY <4>1 DEF ShownLines
      <4>4. ShownLines(map', content) = [ShownLines(map, content) EXCEPT ![slot[w]] = text[w]]
        BY <2>1, <4>2, <4>3 DEF ShownLines
      <4> QED
        BY <2>1, <4>4
    <3>4. text[w] # <<>>
      <4>1. ids[w] \in Seq(BlockIds) /\ Len(ids[w]) = Len(text[w])
        BY <2>1 DEF BlocksInv, LocalsOK, AllLinesFound
      <4>2. Len(ids[w]) # 0 /\ Len(<<>>) = 0
        BY <2>3, <4>1, EmptySeq
      <4> QED
        BY <4>1, <4>2
    <3>5. ShownLines(map, content)[slot[w]] = <<>>
      BY <2>1, <3>1, NothingShown
    <3>6. Table!ShowText(slot[w], text[w])
      BY <2>1, <3>1, <3>3, <3>4, <3>5 DEF Table!ShowText
    <3> QED
      BY <2>1, <3>2, <3>6 DEF Table!RowsNext
  <2> QED
    BY <2>2, <2>3
<1>8. ASSUME NEW w \in Writers, Unmeta(w) PROVE Table!RowsNext
  BY <1>1, <1>4, <1>8 DEF Unmeta
<1>9. ASSUME NEW s \in Slots, Drop(s) PROVE Table!RowsNext
  BY <1>4, <1>9 DEF Drop
<1>10. ASSUME \/ \E w \in Writers :
                   \/ \E s \in Slots, t \in Texts, isNew \in BOOLEAN : Write(w, s, t, isNew)
                   \/ FindBlock(w) \/ Crash(w)
              \/ \E b \in BlockIds : Age(b)
              \/ Cleanup
              \/ UNCHANGED vars
       PROVE  UNCHANGED <<meta, map, content>>
  BY <1>10 DEF Write, FindBlock, Crash, Age, Cleanup, vars, blockVars
<1> QED
  BY <1>2, <1>3, <1>5, <1>6, <1>7, <1>8, <1>9, <1>10 DEF Next

\* Behind the blocks that files and layers share, each of them has its own text:
\* every behaviour of writers, cascades and cleanups is one of the table of texts.
THEOREM BlocksImplementTexts == Spec => RefinesTextRows
BY InitRows, NextRows, SpecBlocks, PTL DEF Spec, RefinesTextRows, Table!RowsSpec

(***************************************************************************)
(* Storing and reading a content of any length.                            *)
(*                                                                         *)
(* The scan and the join are recursive functions. That they exist is       *)
(* proved by counting up; what they compute, by building a sequence up     *)
(* token by token, each time with the claim as a set. Then the detector    *)
(* needs no look inside: whatever it answers, a text comes back without    *)
(* the CRs before its LFs, and blocks come back as they were.              *)
(***************************************************************************)

-----------------------------------------------------------------------------
(* Induction, with the claim as a set                                      *)

LEMMA SmallestOf ==
    ASSUME NEW S, S \subseteq Nat, S # {}
    PROVE  \E x \in S : \A y \in S : ~(y < x)
<1>1. PICK R : R = OpToRel(<, Nat)
  OBVIOUS
<1>2. IsWellFoundedOn(R, Nat)
  BY <1>1, NatLessThanWellFounded
<1>3. \E x \in S : \A y \in S : ~(<<y, x>> \in R)
  BY <1>2, WFMin
<1>4. R = {ss \in Nat \X Nat : ss[1] < ss[2]}
  BY <1>1 DEF OpToRel
<1>5. PICK x \in S : \A y \in S : ~(<<y, x>> \in R)
  BY <1>3
<1>6. ASSUME NEW y \in S, y < x PROVE FALSE
  <2>1. <<y, x>> \in Nat \X Nat
    OBVIOUS
  <2>2. <<y, x>> \in R
    BY <1>4, <1>6, <2>1
  <2> QED
    BY <1>5, <2>2
<1> QED
  BY <1>5, <1>6

\* What holds of 0 and passes from k to k + 1 below n holds up to n.
LEMMA CountUp ==
    ASSUME NEW n \in Nat, NEW S, 0 \in S,
           \A k \in 0..(n - 1) : k \in S => k + 1 \in S
    PROVE  \A k \in 0..n : k \in S
<1> SUFFICES ASSUME {k \in 0..n : k \notin S} # {} PROVE FALSE
  OBVIOUS
<1>1. PICK x \in {k \in 0..n : k \notin S} :
          \A y \in {k \in 0..n : k \notin S} : ~(y < x)
  <2>1. {k \in 0..n : k \notin S} \subseteq Nat
    OBVIOUS
  <2> QED
    BY <2>1, SmallestOf
<1>2. x \in 1..n /\ x \notin S
  BY <1>1
<1>3. x - 1 \in 0..(n - 1) /\ x - 1 < x /\ (x - 1) + 1 = x
  BY <1>2
<1>4. x - 1 \in S
  BY <1>1, <1>3
<1> QED
  BY <1>2, <1>3, <1>4

LEMMA BuildUp ==
    ASSUME NEW C, NEW P, <<>> \in P,
           \A s \in Seq(C), e \in C : s \in P => Append(s, e) \in P
    PROVE  \A s \in Seq(C) : s \in P
<1> SUFFICES ASSUME NEW seq \in Seq(C) PROVE seq \in P
  OBVIOUS
<1>1. Len(seq) \in Nat
  BY LenProperties
<1> DEFINE S == {k \in Nat : k <= Len(seq) => SubSeq(seq, 1, k) \in P}
<1>2. 0 \in S
  <2>1. SubSeq(seq, 1, 0) = <<>>
    BY SubSeqEmpty
  <2> QED
    BY <2>1
<1>3. ASSUME NEW k \in 0..(Len(seq) - 1), k \in S PROVE k + 1 \in S
  <2>1. PICK t \in Seq(C) : t = SubSeq(seq, 1, k)
    <3>1. \A i \in 1..k : seq[i] \in C
      BY <1>1, ElementOfSeq
    <3>2. SubSeq(seq, 1, k) \in Seq(C)
      BY <3>1, SubSeqProperties
    <3> QED
      BY <3>2
  <2>2. seq[k + 1] \in C
    BY <1>1, ElementOfSeq
  <2>3. SubSeq(seq, 1, k + 1) = t \o <<seq[k + 1]>>
    <3>1. 1 \in 1..Len(seq) /\ k + 1 \in 1..Len(seq) /\ (k + 1) - 1 = k
      BY <1>1
    <3> QED
      BY <2>1, <3>1, SubSeqRecursiveSecond
  <2>4. SubSeq(seq, 1, k + 1) = Append(t, seq[k + 1])
    BY <2>2, <2>3, AppendIsConcat
  <2>5. t \in P
    BY <1>1, <1>3, <2>1
  <2> QED
    <3>1. Append(t, seq[k + 1]) \in P
      BY <2>1, <2>2, <2>5
    <3>2. SubSeq(seq, 1, k + 1) \in P
      BY <2>4, <3>1, Zenon
    <3>3. k + 1 \in Nat
      OBVIOUS
    <3> QED
      BY <3>2, <3>3
<1>4. Len(seq) \in S
  <2>1. PICK n \in Nat : n = Len(seq)
    BY <1>1
  <2> HIDE DEF S
  <2>2. \A k \in 0..(n - 1) : k \in S => k + 1 \in S
    BY <1>3, <2>1
  <2>3. \A k \in 0..n : k \in S
    BY <1>2, <2>2, CountUp
  <2> QED
    BY <2>1, <2>3
<1>5. SubSeq(seq, 1, Len(seq)) \in P
  BY <1>1, <1>4
<1> QED
  BY <1>5, SubSeqFull

-----------------------------------------------------------------------------
(* What Join and Scan compute: their recursive functions exist             *)

\* One step of Join; u is the function by which it is defined, up to n.
Joined(x, k, sep, p) == x \o (IF k = 1 THEN <<>> ELSE sep) \o p

Joining(u, parts, sep, n) ==
    /\ u[0] = <<>>
    /\ \A k \in 1..n : u[k] = Joined(u[k - 1], k, sep, parts[k])

LEMMA JoiningExists ==
    ASSUME NEW parts, NEW sep, NEW n \in Nat
    PROVE  \E u : /\ u = [k \in 0..n |-> IF k = 0 THEN <<>>
                                           ELSE Joined(u[k - 1], k, sep, parts[k])]
                  /\ Joining(u, parts, sep, n)
<1> DEFINE Step(x, k) == Joined(x, k, sep, parts[k])
<1> DEFINE S == {m \in Nat : \E u : DOMAIN u = 0..m /\ Joining(u, parts, sep, m)}
<1>1. 0 \in S
  <2>1. PICK u : u = [k \in 0..0 |-> <<>>]
    OBVIOUS
  <2>2. DOMAIN u = 0..0 /\ u[0] = <<>>
    BY <2>1
  <2>3. Joining(u, parts, sep, 0)
    BY <2>2 DEF Joining
  <2> QED
    BY <2>2, <2>3
<1>2. ASSUME NEW m \in 0..(n - 1), m \in S PROVE m + 1 \in S
  <2>1. PICK u : DOMAIN u = 0..m /\ Joining(u, parts, sep, m)
    BY <1>2
  <2>2. PICK v : v = [k \in 0..(m + 1) |-> IF k = m + 1 THEN Step(u[m], k) ELSE u[k]]
    OBVIOUS
  <2> HIDE DEF Step
  <2>3. DOMAIN v = 0..(m + 1)
    BY <2>2
  <2>4. v[0] = u[0] /\ v[m + 1] = Step(u[m], m + 1) /\ \A k \in 0..m : v[k] = u[k]
    BY <2>2
  <2>5. u[0] = <<>> /\ \A k \in 1..m : u[k] = Step(u[k - 1], k)
    BY <2>1 DEF Joining, Step
  <2>6. ASSUME NEW k \in 1..(m + 1) PROVE v[k] = Step(v[k - 1], k)
    <3>1. k - 1 \in 0..m
      OBVIOUS
    <3>2. v[k - 1] = u[k - 1]
      BY <2>4, <3>1
    <3>3. CASE k = m + 1
      BY <2>4, <3>2, <3>3
    <3>4. CASE k \in 1..m
      BY <2>4, <2>5, <3>2, <3>4
    <3> QED
      BY <3>3, <3>4
  <2>7. Joining(v, parts, sep, m + 1)
    BY <2>4, <2>5, <2>6 DEF Joining, Step
  <2> QED
    BY <2>3, <2>7
<1>3. n \in S
  <2> HIDE DEF S
  <2> QED
    BY <1>1, <1>2, CountUp
<1>4. PICK w : DOMAIN w = 0..n /\ Joining(w, parts, sep, n)
  BY <1>3
<1>5. PICK u : u = [k \in 0..n |-> w[k]]
  OBVIOUS
<1>6. \A k \in 0..n : u[k] = w[k]
  BY <1>5
<1>7. w[0] = <<>> /\ \A k \in 1..n : w[k] = Step(w[k - 1], k)
  BY <1>4 DEF Joining
<1> HIDE DEF Step
<1>8. u[0] = <<>> /\ \A k \in 1..n : u[k] = Step(u[k - 1], k)
  BY <1>6, <1>7
<1>9. u = [k \in 0..n |-> IF k = 0 THEN <<>> ELSE Step(u[k - 1], k)]
  <2>1. ASSUME NEW k \in 0..n PROVE w[k] = IF k = 0 THEN <<>> ELSE Step(u[k - 1], k)
    <3>1. k # 0 => k \in 1..n
      OBVIOUS
    <3> QED
      BY <1>6, <1>8, <3>1
  <2> QED
    BY <1>5, <2>1
<1>10. Joining(u, parts, sep, n)
  BY <1>8 DEF Joining, Step
<1> QED
  BY <1>9, <1>10 DEF Step

LEMMA JoinComputed ==
    ASSUME NEW C, NEW parts \in Seq(Seq(C)), NEW sep \in Seq(C)
    PROVE  \E u : /\ Joining(u, parts, sep, Len(parts))
                  /\ \A k \in 0..Len(parts) : u[k] \in Seq(C)
                  /\ Join(parts, sep) = u[Len(parts)]
<1>1. PICK n \in Nat : n = Len(parts)
  BY LenProperties
<1> DEFINE Def(u) == u = [k \in 0..n |-> IF k = 0 THEN <<>>
                                         ELSE Joined(u[k - 1], k, sep, parts[k])]
<1>2. PICK j : j = CHOOSE u : Def(u)
  OBVIOUS
<1>3. Join(parts, sep) = j[n]
  BY <1>1, <1>2 DEF Join, Joined
<1>4. \E u : Def(u)
  <2>1. PICK u : /\ u = [k \in 0..n |-> IF k = 0 THEN <<>>
                                         ELSE Joined(u[k - 1], k, sep, parts[k])]
                 /\ Joining(u, parts, sep, n)
    BY JoiningExists, Zenon
  <2>2. Def(u)
    BY <2>1
  <2> HIDE DEF Def
  <2> QED
    BY <2>2
<1>5. Def(j)
  <2> HIDE DEF Def
  <2> QED
    BY <1>2, <1>4
<1>6. Joining(j, parts, sep, n)
  BY <1>5 DEF Joining
<1> DEFINE S == {k \in 0..n : j[k] \in Seq(C)}
<1>7. 0 \in S
  <2>1. j[0] = <<>>
    BY <1>6 DEF Joining
  <2>2. j[0] \in Seq(C)
    BY <2>1, EmptySeq
  <2> QED
    BY <2>2
<1>8. ASSUME NEW k \in 0..(n - 1), k \in S PROVE k + 1 \in S
  <2>1. k + 1 \in 1..n /\ (k + 1) - 1 = k /\ j[k] \in Seq(C)
    BY <1>8
  <2>2. PICK q \in Seq(C) : q = IF k + 1 = 1 THEN <<>> ELSE sep
    BY EmptySeq
  <2>3. parts[k + 1] \in Seq(C)
    BY <1>1, <2>1, ElementOfSeq
  <2>4. j[k + 1] = Joined(j[k], k + 1, sep, parts[k + 1])
    BY <1>6, <2>1 DEF Joining
  <2>6. j[k + 1] = j[k] \o q \o parts[k + 1]
    BY <2>2, <2>4, Zenon DEF Joined
  <2>5. j[k] \o q \o parts[k + 1] \in Seq(C)
    BY <2>1, <2>2, <2>3, ConcatProperties
  <2> QED
    <3>1. j[k + 1] \in Seq(C)
      BY <2>5, <2>6, Zenon
    <3>2. k + 1 \in 0..n
      BY <2>1
    <3> QED
      BY <3>1, <3>2
<1>9. \A k \in 0..n : k \in S
  <2> HIDE DEF S
  <2> QED
    BY <1>7, <1>8, CountUp
<1>10. \A k \in 0..n : j[k] \in Seq(C)
  BY <1>9
<1> QED
  BY <1>1, <1>3, <1>6, <1>10

LEMMA JoiningDetermined ==
    ASSUME NEW u, NEW v, NEW parts, NEW others, NEW sep, NEW n \in Nat,
           Joining(u, parts, sep, n), Joining(v, others, sep, n),
           \A k \in 1..n : parts[k] = others[k]
    PROVE  u[n] = v[n]
<1> DEFINE S == {k \in 0..n : u[k] = v[k]}
<1>1. 0 \in S
  BY DEF Joining
<1>2. ASSUME NEW k \in 0..(n - 1), k \in S PROVE k + 1 \in S
  <2>1. k + 1 \in 1..n /\ (k + 1) - 1 = k /\ u[k] = v[k]
    BY <1>2
  <2>2. u[k + 1] = v[k + 1]
    BY <2>1 DEF Joining
  <2> QED
    BY <2>1, <2>2
<1>3. n \in S
  <2> HIDE DEF S
  <2> QED
    BY <1>1, <1>2, CountUp
<1> QED
  BY <1>3

\* The join of nothing, and of one part more.
LEMMA JoinNothing ==
    ASSUME NEW C, NEW sep \in Seq(C)
    PROVE  Join(<<>>, sep) = <<>>
<1>1. <<>> \in Seq(Seq(C)) /\ Len(<<>>) = 0
  BY EmptySeq
<1>2. PICK u : Joining(u, <<>>, sep, 0) /\ Join(<<>>, sep) = u[0]
  BY <1>1, JoinComputed
<1> QED
  BY <1>2 DEF Joining

LEMMA JoinType ==
    ASSUME NEW C, NEW parts \in Seq(Seq(C)), NEW sep \in Seq(C)
    PROVE  Join(parts, sep) \in Seq(C)
<1>1. Len(parts) \in 0..Len(parts)
  BY LenProperties
<1> QED
  BY <1>1, JoinComputed

LEMMA JoinOneMore ==
    ASSUME NEW C, NEW parts \in Seq(Seq(C)), NEW p \in Seq(C), NEW sep \in Seq(C)
    PROVE  Join(Append(parts, p), sep) =
               IF parts = <<>> THEN p ELSE Join(parts, sep) \o sep \o p
<1>1. PICK n \in Nat : n = Len(parts)
  BY LenProperties
<1>2. PICK all \in Seq(Seq(C)) :
          /\ all = Append(parts, p)
          /\ Len(all) = n + 1
          /\ \A i \in 1..n : all[i] = parts[i]
          /\ all[n + 1] = p
  BY <1>1, AppendProperties
<1>3. PICK u : Joining(u, parts, sep, n) /\ Join(parts, sep) = u[n] /\ u[n] \in Seq(C)
  <2>1. n \in 0..n
    OBVIOUS
  <2> QED
    BY <1>1, <2>1, JoinComputed
<1>4. PICK v : Joining(v, all, sep, n + 1) /\ Join(all, sep) = v[n + 1]
  <2>1. PICK v : Joining(v, all, sep, Len(all)) /\ Join(all, sep) = v[Len(all)]
    BY JoinComputed
  <2> QED
    BY <1>2, <2>1
<1>5. Joining(v, all, sep, n)
  BY <1>4 DEF Joining
<1>6. v[n] = u[n]
  BY <1>2, <1>3, <1>5, JoiningDetermined
<1>7. n + 1 \in 1..(n + 1) /\ (n + 1) - 1 = n
  OBVIOUS
<1>8. v[n + 1] = Joined(u[n], n + 1, sep, p)
  BY <1>2, <1>4, <1>6, <1>7 DEF Joining
<1>9. CASE parts = <<>>
  <2>1. n = 0
    BY <1>1, <1>9, EmptySeq
  <2>2. v[n + 1] = <<>> \o <<>> \o p
    <3>1. u[n] = <<>>
      BY <1>3, <2>1 DEF Joining
    <3>2. n + 1 = 1
      BY <2>1
    <3>3. v[n + 1] = Joined(<<>>, 1, sep, p)
      BY <1>8, <3>1, <3>2, Zenon
    <3> QED
      BY <3>3, Zenon DEF Joined
  <2> QED
    BY <1>2, <1>4, <1>9, <2>2, ConcatEmptySeq, EmptySeq
<1>10. CASE parts # <<>>
  <2>1. n # 0
    BY <1>1, <1>10, EmptySeq
  <2>2. v[n + 1] = u[n] \o sep \o p
    <3>1. n + 1 # 1
      BY <2>1
    <3> QED
      BY <1>8, <3>1, Zenon DEF Joined
  <2> QED
    BY <1>2, <1>3, <1>4, <1>10, <2>2
<1> QED
  BY <1>9, <1>10

\* u is the function by which Scan is defined, up to n.
Nothing == [done |-> <<>>, open |-> <<>>]

Scanning(u, s, n) ==
    /\ u[0] = Nothing
    /\ \A k \in 1..n : u[k] = ScanToken(u[k - 1], s[k])

LEMMA ScanningExists ==
    ASSUME NEW s, NEW n \in Nat
    PROVE  \E u : /\ u = [k \in 0..n |-> IF k = 0 THEN Nothing
                                         ELSE ScanToken(u[k - 1], s[k])]
                  /\ Scanning(u, s, n)
<1> DEFINE S == {m \in Nat : \E u : DOMAIN u = 0..m /\ Scanning(u, s, m)}
<1>1. 0 \in S
  <2>1. PICK u : u = [k \in 0..0 |-> Nothing]
    OBVIOUS
  <2>2. DOMAIN u = 0..0 /\ u[0] = Nothing
    BY <2>1
  <2>3. Scanning(u, s, 0)
    BY <2>2 DEF Scanning
  <2> QED
    BY <2>2, <2>3
<1>2. ASSUME NEW m \in 0..(n - 1), m \in S PROVE m + 1 \in S
  <2>1. PICK u : DOMAIN u = 0..m /\ Scanning(u, s, m)
    BY <1>2
  <2>2. PICK v : v = [k \in 0..(m + 1) |-> IF k = m + 1 THEN ScanToken(u[m], s[k]) ELSE u[k]]
    OBVIOUS
  <2>3. DOMAIN v = 0..(m + 1)
    BY <2>2
  <2>4. v[0] = u[0] /\ v[m + 1] = ScanToken(u[m], s[m + 1]) /\ \A k \in 0..m : v[k] = u[k]
    BY <2>2
  <2>5. u[0] = Nothing /\ \A k \in 1..m : u[k] = ScanToken(u[k - 1], s[k])
    BY <2>1 DEF Scanning
  <2>6. ASSUME NEW k \in 1..(m + 1) PROVE v[k] = ScanToken(v[k - 1], s[k])
    <3>1. k - 1 \in 0..m
      OBVIOUS
    <3>2. v[k - 1] = u[k - 1]
      BY <2>4, <3>1
    <3>3. CASE k = m + 1
      BY <2>4, <3>2, <3>3
    <3>4. CASE k \in 1..m
      BY <2>4, <2>5, <3>2, <3>4
    <3> QED
      BY <3>3, <3>4
  <2>7. Scanning(v, s, m + 1)
    BY <2>4, <2>5, <2>6 DEF Scanning
  <2> QED
    BY <2>3, <2>7
<1>3. n \in S
  <2> HIDE DEF S
  <2> QED
    BY <1>1, <1>2, CountUp
<1>4. PICK w : DOMAIN w = 0..n /\ Scanning(w, s, n)
  BY <1>3
<1>5. PICK u : u = [k \in 0..n |-> w[k]]
  OBVIOUS
<1>6. \A k \in 0..n : u[k] = w[k]
  BY <1>5
<1>7. w[0] = Nothing /\ \A k \in 1..n : w[k] = ScanToken(w[k - 1], s[k])
  BY <1>4 DEF Scanning
<1>8. u[0] = Nothing /\ \A k \in 1..n : u[k] = ScanToken(u[k - 1], s[k])
  BY <1>6, <1>7
<1>9. u = [k \in 0..n |-> IF k = 0 THEN Nothing ELSE ScanToken(u[k - 1], s[k])]
  <2>1. ASSUME NEW k \in 0..n
        PROVE  w[k] = IF k = 0 THEN Nothing ELSE ScanToken(u[k - 1], s[k])
    <3>1. k # 0 => k \in 1..n
      OBVIOUS
    <3> QED
      BY <1>6, <1>8, <3>1
  <2> QED
    BY <1>5, <2>1
<1>10. Scanning(u, s, n)
  BY <1>8 DEF Scanning
<1> QED
  BY <1>9, <1>10

LEMMA ScanComputed ==
    ASSUME NEW C, NEW s \in Seq(C)
    PROVE  \E u : Scanning(u, s, Len(s)) /\ Scan(s) = u[Len(s)]
<1>1. PICK n \in Nat : n = Len(s)
  BY LenProperties
<1> DEFINE Def(u) == u = [k \in 0..n |-> IF k = 0 THEN Nothing ELSE ScanToken(u[k - 1], s[k])]
<1>2. PICK j : j = CHOOSE u : Def(u)
  OBVIOUS
<1>3. Scan(s) = j[n]
  BY <1>1, <1>2 DEF Scan, Nothing
<1>4. \E u : Def(u)
  <2>1. PICK u : /\ u = [k \in 0..n |-> IF k = 0 THEN Nothing
                                         ELSE ScanToken(u[k - 1], s[k])]
                 /\ Scanning(u, s, n)
    BY ScanningExists, Zenon
  <2>2. Def(u)
    BY <2>1
  <2> HIDE DEF Def
  <2> QED
    BY <2>2
<1>5. Def(j)
  <2> HIDE DEF Def
  <2> QED
    BY <1>2, <1>4
<1>6. Scanning(j, s, n)
  BY <1>5 DEF Scanning
<1> QED
  BY <1>1, <1>3, <1>6

LEMMA ScanNothing == Scan(<<>>) = Nothing
<1>1. <<>> \in Seq({}) /\ Len(<<>>) = 0
  BY EmptySeq
<1>2. PICK u : Scanning(u, <<>>, 0) /\ Scan(<<>>) = u[0]
  BY <1>1, ScanComputed
<1> QED
  BY <1>2 DEF Scanning

\* One token more is scanned from where the tokens before it have led.
LEMMA ScanOneMore ==
    ASSUME NEW C, NEW s \in Seq(C), NEW t \in C
    PROVE  Scan(Append(s, t)) = ScanToken(Scan(s), t)
<1>1. PICK n \in Nat : n = Len(s)
  BY LenProperties
<1>2. PICK all \in Seq(C) :
          /\ all = Append(s, t)
          /\ Len(all) = n + 1
          /\ \A i \in 1..n : all[i] = s[i]
          /\ all[n + 1] = t
  BY <1>1, AppendProperties
<1>3. PICK u : Scanning(u, s, n) /\ Scan(s) = u[n]
  <2>1. PICK u : Scanning(u, s, Len(s)) /\ Scan(s) = u[Len(s)]
    BY ScanComputed
  <2> QED
    BY <1>1, <2>1
<1>4. PICK v : Scanning(v, all, n + 1) /\ Scan(all) = v[n + 1]
  <2>1. PICK v : Scanning(v, all, Len(all)) /\ Scan(all) = v[Len(all)]
    BY ScanComputed
  <2> QED
    BY <1>2, <2>1
<1> DEFINE S == {k \in 0..n : u[k] = v[k]}
<1>5. 0 \in S
  BY <1>3, <1>4 DEF Scanning
<1>6. ASSUME NEW k \in 0..(n - 1), k \in S PROVE k + 1 \in S
  <2>1. k + 1 \in 1..n /\ k + 1 \in 1..(n + 1) /\ (k + 1) - 1 = k /\ u[k] = v[k]
    BY <1>6
  <2>2. u[k + 1] = v[k + 1]
    BY <1>2, <1>3, <1>4, <2>1 DEF Scanning
  <2> QED
    BY <2>1, <2>2
<1>7. n \in S
  <2> HIDE DEF S
  <2>1. \A k \in 0..(n - 1) : k \in S => k + 1 \in S
    BY <1>6
  <2>2. \A k \in 0..n : k \in S
    BY <1>5, <2>1, CountUp
  <2> QED
    BY <2>2
<1>8. n + 1 \in 1..(n + 1) /\ (n + 1) - 1 = n /\ u[n] = v[n]
  BY <1>7
<1>9. v[n + 1] = ScanToken(v[n], all[n + 1])
  BY <1>4, <1>8 DEF Scanning
<1> QED
  BY <1>2, <1>3, <1>4, <1>8, <1>9

-----------------------------------------------------------------------------
(* A binary content: the blocks one after the other are the content        *)

Char == Tokens
Data == Seq(Char)

LEMMA MinOfTwo ==
    ASSUME NEW a \in Int, NEW b \in Int
    PROVE  Min({a, b}) = IF a <= b THEN a ELSE b
  BY DEF Min

LEMMA BlockCount ==
    ASSUME NEW n \in Nat
    PROVE  /\ (n + BlockSize - 1) \div BlockSize \in Nat
           /\ \A k \in 1..((n + BlockSize - 1) \div BlockSize) : (k - 1) * BlockSize < n
           /\ n <= ((n + BlockSize - 1) \div BlockSize) * BlockSize
<1>1. PICK B \in Nat \ {0} : B = BlockSize
  BY ContentAssumption
<1>2. (n + B - 1) \div B \in Nat
  OBVIOUS
<1>3. ASSUME NEW k \in 1..((n + B - 1) \div B) PROVE (k - 1) * B < n
  OBVIOUS
<1>4. n <= ((n + B - 1) \div B) * B
  OBVIOUS
<1> QED
  BY <1>1, <1>2, <1>3, <1>4

LEMMA BlocksJoin ==
    ASSUME NEW s \in Data
    PROVE  Join(Chunks(s), <<>>) = s
<1>1. PICK n \in Nat : n = Len(s)
  BY LenProperties DEF Data
<1>2. PICK B \in Nat \ {0} : B = BlockSize
  BY ContentAssumption
<1>3. PICK m \in Nat : /\ m = (n + B - 1) \div B
                       /\ \A k \in 1..m : (k - 1) * B < n
                       /\ n <= m * B
  BY <1>2, BlockCount
<1> DEFINE Upto(k) == IF k * B <= n THEN k * B ELSE n
<1>4. \A k \in 0..m : Upto(k) \in 0..n
  OBVIOUS
<1>5. PICK c : c = [k \in 1..m |-> SubSeq(s, (k - 1) * B + 1, Upto(k))]
  OBVIOUS
<1>6. Chunks(s) = c
  <2>1. \A k \in 1..m : Min({k * B, n}) = Upto(k)
    BY MinOfTwo
  <2> HIDE DEF Upto
  <2> QED
    BY <1>1, <1>2, <1>3, <1>5, <2>1 DEF Chunks
<1>7. ASSUME NEW a \in Nat, NEW b \in 0..n PROVE SubSeq(s, a + 1, b) \in Data
  <2>1. \A i \in (a + 1)..b : s[i] \in Char
    BY <1>1, ElementOfSeq DEF Data
  <2> QED
    BY <2>1, SubSeqProperties DEF Data
<1>8. \A k \in 1..m : c[k] \in Data /\ c[k] = SubSeq(s, (k - 1) * B + 1, Upto(k))
  <2> SUFFICES ASSUME NEW k \in 1..m PROVE c[k] \in Data /\ c[k] = SubSeq(s, (k - 1) * B + 1, Upto(k))
    OBVIOUS
  <2>1. (k - 1) * B \in Nat /\ Upto(k) \in 0..n
    BY <1>4
  <2> HIDE DEF Upto
  <2>2. c[k] = SubSeq(s, (k - 1) * B + 1, Upto(k))
    BY <1>5
  <2> QED
    BY <1>7, <2>1, <2>2
<1>9. c \in Seq(Data) /\ Len(c) = m
  <2>1. c \in [1..m -> Data]
    BY <1>5, <1>8
  <2> QED
    BY <2>1
<1>10. <<>> \in Seq(Char)
  BY EmptySeq
<1>11. PICK u : /\ Joining(u, c, <<>>, m)
                /\ \A k \in 0..m : u[k] \in Seq(Char)
                /\ Join(c, <<>>) = u[m]
  <2>1. PICK u : /\ Joining(u, c, <<>>, Len(c))
                 /\ \A k \in 0..Len(c) : u[k] \in Seq(Char)
                 /\ Join(c, <<>>) = u[Len(c)]
    BY <1>9, <1>10, JoinComputed DEF Data
  <2> QED
    BY <1>9, <2>1
<1> DEFINE S == {k \in 0..m : u[k] = SubSeq(s, 1, Upto(k))}
<1>12. 0 \in S
  <2>1. Upto(0) = 0 /\ 0 < 1
    OBVIOUS
  <2>2. SubSeq(s, 1, 0) = <<>>
    BY SubSeqEmpty
  <2>3. u[0] = SubSeq(s, 1, Upto(0))
    BY <1>11, <2>1, <2>2 DEF Joining
  <2> QED
    BY <2>3
<1>13. ASSUME NEW k \in 0..(m - 1), k \in S PROVE k + 1 \in S
  <2>1. k + 1 \in 1..m /\ (k + 1) - 1 = k
    OBVIOUS
  <2>2. k * B < n /\ k * B \in 0..n
    BY <1>3, <2>1
  <2>3. Upto(k) = k * B
    BY <2>2
  <2>4. (k + 1) * B = k * B + B
    OBVIOUS
  <2>5. PICK e : e = Upto(k + 1)
    OBVIOUS
  <2>6. e \in (k * B)..n
    BY <2>2, <2>4, <2>5
  <2>7. u[k] = SubSeq(s, 1, k * B) /\ u[k] \in Seq(Char)
    BY <1>11, <1>13, <2>3
  <2>8. c[k + 1] = SubSeq(s, k * B + 1, e) /\ c[k + 1] \in Seq(Char)
    BY <1>8, <2>1, <2>5 DEF Data
  <2>9. u[k + 1] = Joined(u[k], k + 1, <<>>, c[k + 1])
    BY <1>11, <2>1 DEF Joining
  <2>10. u[k + 1] = u[k] \o <<>> \o c[k + 1]
    BY <2>9, Zenon DEF Joined
  <2>11. u[k] \o <<>> = u[k]
    BY <2>7, ConcatEmptySeq
  <2>12. SubSeq(s, 1, k * B) \o SubSeq(s, k * B + 1, e) = SubSeq(s, 1, e)
    <3>1. PICK a \in 0..n : a = k * B
      BY <2>2
    <3>2. e \in a..n /\ a \in (1 - 1)..n /\ 1 \in 1..(n + 1)
      BY <2>6, <3>1
    <3>3. SubSeq(s, 1, a) \o SubSeq(s, a + 1, e) = SubSeq(s, 1, e)
      BY <1>1, <3>2, ConcatAdjacentSubSeq DEF Data
    <3> QED
      BY <3>1, <3>3
  <2>13. u[k + 1] = SubSeq(s, 1, e)
    BY <2>7, <2>8, <2>10, <2>11, <2>12, Zenon
  <2> HIDE DEF Upto
  <2>14. k + 1 \in 0..m
    BY <2>1
  <2> QED
    BY <2>5, <2>13, <2>14
<1>14. m \in S
  <2> HIDE DEF S
  <2>1. \A k \in 0..(m - 1) : k \in S => k + 1 \in S
    BY <1>13
  <2>2. \A k \in 0..m : k \in S
    BY <1>12, <2>1, CountUp
  <2> QED
    BY <2>2
<1>15. u[m] = SubSeq(s, 1, Upto(m)) /\ Upto(m) = n
  BY <1>3, <1>14
<1> HIDE DEF Upto, S
<1>16. SubSeq(s, 1, n) = s
  BY <1>1, SubSeqFull DEF Data
<1> QED
  BY <1>6, <1>11, <1>15, <1>16

-----------------------------------------------------------------------------
(* A text: what is left of it once it is cut into lines                    *)

LEMMA AppendedData ==
    ASSUME NEW s \in Data, NEW t \in Char
    PROVE  /\ Append(s, t) \in Data /\ Append(s, t) # <<>>
           /\ Len(Append(s, t)) = Len(s) + 1
           /\ Last(Append(s, t)) = t
           /\ Front(Append(s, t)) = s
<1>1. PICK n \in Nat : n = Len(s)
  BY LenProperties DEF Data
<1>2. PICK a \in Seq(Char) : /\ a = Append(s, t) /\ a # <<>> /\ Len(a) = n + 1
                             /\ \A i \in 1..n : a[i] = s[i]
                             /\ a[n + 1] = t
  BY <1>1, AppendProperties DEF Data
<1>3. Last(a) = t
  BY <1>2 DEF Last
<1>4. Front(a) = SubSeq(a, 1, n)
  <2>1. Len(a) - 1 = n
    BY <1>2
  <2> QED
    BY <2>1, Zenon DEF Front
<1>5. /\ SubSeq(a, 1, n) \in Seq(Char) /\ Len(SubSeq(a, 1, n)) = n
      /\ \A i \in 1..n : SubSeq(a, 1, n)[i] = a[i]
  <2>1. \A i \in 1..n : a[i] \in Char
    BY <1>2, ElementOfSeq
  <2>2. /\ SubSeq(a, 1, n) \in Seq(Char)
        /\ Len(SubSeq(a, 1, n)) = IF 1 <= n THEN n - 1 + 1 ELSE 0
        /\ \A i \in 1..(n - 1 + 1) : SubSeq(a, 1, n)[i] = a[1 + i - 1]
    BY <2>1, SubSeqProperties
  <2> QED
    BY <2>2
<1>6. PICK b \in Seq(Char) : b = SubSeq(a, 1, n) /\ Len(b) = n /\ \A i \in 1..n : b[i] = s[i]
  BY <1>2, <1>5
<1>7. b = s
  BY <1>1, <1>6, SeqEqual DEF Data
<1> QED
  BY <1>1, <1>2, <1>3, <1>4, <1>6, <1>7 DEF Data

LEMMA SplitData ==
    ASSUME NEW s \in Data, s # <<>>
    PROVE  Front(s) \in Data /\ Last(s) \in Char /\ s = Append(Front(s), Last(s))
<1>1. PICK r \in Seq(Char), e \in Char : s = Append(r, e)
  BY SequenceEmptyOrAppend DEF Data
<1>2. r \in Data
  BY DEF Data
<1>3. Last(s) = e /\ Front(s) = r
  BY <1>1, <1>2, AppendedData
<1> QED
  BY <1>1, <1>2, <1>3

\* What is left of a text that is cut into lines and a rest.
Left(done, open) ==
    IF done = <<>> THEN open ELSE Join(done, <<"LF">>) \o <<"LF">> \o open

Reduced(s) == Left(Scan(s).done, Scan(s).open)

EndsInCr(s) == s # <<>> /\ Last(s) = "CR"

\* The scan keeps the end of the text in its open line.
ScanOK(s, sofar) ==
    /\ sofar = [done |-> sofar.done, open |-> sofar.open]
    /\ sofar.done \in Seq(Data) /\ sofar.open \in Data
    /\ sofar.open = <<>> <=> s = <<>> \/ Last(s) = "LF"
    /\ sofar.open # <<>> => Last(sofar.open) = Last(s)
    /\ sofar.open = <<>> /\ sofar.done = <<>> => s = <<>>

LEMMA WithoutCrData ==
    ASSUME NEW line \in Data
    PROVE  WithoutCr(line) \in Data
  BY SplitData DEF WithoutCr

LEMMA LfChar == "LF" \in Char /\ <<"LF">> \in Data /\ <<>> \in Data
<1>1. "LF" \in Char
  BY DEF Char, Tokens
<1>2. <<"LF">> \in Seq(Char) /\ <<>> \in Seq(Char)
  BY <1>1
<1> QED
  BY <1>1, <1>2 DEF Data

LEMMA ScanTokenOK ==
    ASSUME NEW s \in Data, NEW t \in Char, NEW p, ScanOK(s, p)
    PROVE  ScanOK(Append(s, t), ScanToken(p, t))
<1>1. p.done \in Seq(Data) /\ p.open \in Data
  BY DEF ScanOK
<1>2. Append(s, t) # <<>> /\ Last(Append(s, t)) = t
  BY AppendedData
<1>3. CASE t = "LF"
  <2>1. PICK w \in Data : w = WithoutCr(p.open)
    BY <1>1, WithoutCrData
  <2>2. PICK d \in Seq(Data) : d = Append(p.done, w) /\ d # <<>>
    BY <1>1, <2>1, AppendProperties
  <2>3. ScanToken(p, t) = [done |-> d, open |-> <<>>]
    BY <1>3, <2>1, <2>2 DEF ScanToken
  <2>4. ScanOK(Append(s, t), [done |-> d, open |-> <<>>])
    BY <1>2, <1>3, <2>2, LfChar DEF ScanOK
  <2> QED
    BY <2>3, <2>4
<1>4. CASE t # "LF"
  <2>1. PICK o \in Data : o = Append(p.open, t) /\ o # <<>> /\ Last(o) = t
    BY <1>1, AppendedData
  <2>2. PICK d \in Seq(Data) : d = p.done
    BY <1>1
  <2>3. ScanToken(p, t) = [done |-> d, open |-> o]
    BY <1>4, <2>1, <2>2 DEF ScanToken
  <2>4. ScanOK(Append(s, t), [done |-> d, open |-> o])
    BY <1>2, <1>4, <2>1, <2>2 DEF ScanOK
  <2> QED
    BY <2>3, <2>4
<1> QED
  BY <1>3, <1>4

LEMMA ScanIsOK == \A s \in Data : ScanOK(s, Scan(s))
<1> DEFINE P == {s \in Data : ScanOK(s, Scan(s))}
<1>1. <<>> \in P
  <2>1. <<>> \in Data /\ <<>> \in Seq(Data)
    BY EmptySeq DEF Data
  <2>2. ScanOK(<<>>, Nothing)
    BY <2>1 DEF ScanOK, Nothing
  <2>3. ScanOK(<<>>, Scan(<<>>))
    BY <2>2, ScanNothing
  <2> QED
    BY <2>1, <2>3
<1>2. ASSUME NEW s \in Seq(Char), NEW e \in Char, s \in P PROVE Append(s, e) \in P
  <2>1. s \in Data /\ ScanOK(s, Scan(s))
    BY <1>2
  <2>2. Scan(Append(s, e)) = ScanToken(Scan(s), e)
    BY ScanOneMore
  <2>3. ScanOK(Append(s, e), Scan(Append(s, e))) /\ Append(s, e) \in Data
    BY <2>1, <2>2, ScanTokenOK, AppendedData
  <2> QED
    BY <2>3
<1>3. \A s \in Seq(Char) : s \in P
  <2> HIDE DEF P
  <2> QED
    BY <1>1, <1>2, BuildUp
<1> QED
  BY <1>3 DEF Data

LEMMA AppendToRight ==
    ASSUME NEW a \in Data, NEW b \in Data, NEW t \in Char
    PROVE  a \o Append(b, t) = Append(a \o b, t)
<1>1. <<t>> \in Seq(Char)
  OBVIOUS
<1>2. Append(b, t) = b \o <<t>>
  BY AppendIsConcat DEF Data
<1>3. PICK c \in Seq(Char) : c = a \o b
  BY ConcatProperties DEF Data
<1>4. Append(c, t) = c \o <<t>>
  BY AppendIsConcat
<1>5. (a \o b) \o <<t>> = a \o (b \o <<t>>)
  BY <1>1, ConcatAssociative DEF Data
<1> QED
  BY <1>2, <1>3, <1>4, <1>5

LEMMA LeftData ==
    ASSUME NEW d \in Seq(Data), NEW o \in Data
    PROVE  /\ Left(d, o) \in Data
           /\ d # <<>> => \E h \in Data : \A x : Left(d, x) = h \o x
<1>1. Join(d, <<"LF">>) \in Data
  BY LfChar, JoinType DEF Data
<1>2. PICK h \in Data : h = Join(d, <<"LF">>) \o <<"LF">>
  <2>1. Join(d, <<"LF">>) \o <<"LF">> \in Data
    BY <1>1, LfChar, ConcatProperties DEF Data
  <2> QED
    BY <2>1
<1>3. h \o o \in Data
  BY ConcatProperties DEF Data
<1>4. d # <<>> => \A x : Left(d, x) = h \o x
  BY <1>2 DEF Left
<1> QED
  BY <1>3, <1>4 DEF Left

LEMMA LeftAppend ==
    ASSUME NEW d \in Seq(Data), NEW o \in Data, NEW t \in Char
    PROVE  Left(d, Append(o, t)) = Append(Left(d, o), t)
<1>1. CASE d = <<>>
  BY <1>1 DEF Left
<1>2. CASE d # <<>>
  <2>1. PICK h \in Data : \A x : Left(d, x) = h \o x
    BY <1>2, LeftData
  <2>2. h \o Append(o, t) = Append(h \o o, t)
    BY AppendToRight
  <2> QED
    BY <2>1, <2>2
<1> QED
  BY <1>1, <1>2

\* What is left is the join of the lines, the one begun included.
LEMMA JoinWithOpen ==
    ASSUME NEW d \in Seq(Data), NEW w \in Data
    PROVE  Join(Append(d, w), <<"LF">>) = Left(d, w)
<1>1. PICK sep \in Seq(Char) : sep = <<"LF">>
  BY LfChar DEF Data
<1>2. d \in Seq(Seq(Char)) /\ w \in Seq(Char)
  BY DEF Data
<1>3. Join(Append(d, w), sep) = IF d = <<>> THEN w ELSE Join(d, sep) \o sep \o w
  BY <1>2, JoinOneMore
<1> QED
  BY <1>1, <1>3, Zenon DEF Left

\* A line is closed with an LF after what was left before.
LEMMA LeftClosed ==
    ASSUME NEW d \in Seq(Data), NEW w \in Data
    PROVE  Left(Append(d, w), <<>>) = Append(Left(d, w), "LF")
<1>1. Append(d, w) # <<>> /\ Append(d, w) \in Seq(Data)
  BY AppendProperties
<1>2. Join(Append(d, w), <<"LF">>) = Left(d, w)
  BY JoinWithOpen
<1>3. Left(d, w) \in Data
  BY LeftData
<1>4. PICK x \in Seq(Char) : x = Left(d, w)
  BY <1>3 DEF Data
<1>5. x \o <<"LF">> = Append(x, "LF")
  BY LfChar, AppendIsConcat
<1>6. Append(x, "LF") \in Seq(Char)
  BY LfChar, AppendProperties
<1>7. x \o <<"LF">> \o <<>> = Append(x, "LF")
  BY <1>5, <1>6, ConcatEmptySeq
<1> QED
  BY <1>1, <1>2, <1>4, <1>7 DEF Left

\* Cutting into lines loses nothing but a CR before an LF.
LEMMA LeftOneMore ==
    ASSUME NEW s \in Data, NEW t \in Char, NEW p, ScanOK(s, p)
    PROVE  Left(ScanToken(p, t).done, ScanToken(p, t).open) =
             IF t = "LF" /\ EndsInCr(s) THEN Append(Front(Left(p.done, p.open)), "LF")
             ELSE Append(Left(p.done, p.open), t)
<1>1. PICK d \in Seq(Data), o \in Data : d = p.done /\ o = p.open
  BY DEF ScanOK
<1>2. CASE t # "LF"
  <2>1. ScanToken(p, t).done = d /\ ScanToken(p, t).open = Append(o, t)
    BY <1>1, <1>2 DEF ScanToken
  <2> QED
    BY <1>1, <1>2, <2>1, LeftAppend
<1>3. CASE t = "LF"
  <2>1. PICK w \in Data : w = WithoutCr(o)
    BY WithoutCrData
  <2>2. ScanToken(p, t).done = Append(d, w) /\ ScanToken(p, t).open = <<>>
    BY <1>1, <1>3, <2>1 DEF ScanToken
  <2>3. Left(Append(d, w), <<>>) = Append(Left(d, w), "LF")
    BY LeftClosed
  <2>4. CASE EndsInCr(s)
    <3>1. o # <<>> /\ Last(o) = "CR"
      BY <1>1, <2>4 DEF ScanOK, EndsInCr
    <3>2. w = Front(o) /\ o = Append(w, "CR") /\ "CR" \in Char
      BY <2>1, <3>1, SplitData DEF WithoutCr
    <3>3. Left(d, o) = Append(Left(d, w), "CR")
      BY <3>2, LeftAppend
    <3>4. Left(d, w) \in Data
      BY LeftData
    <3>5. Front(Left(d, o)) = Left(d, w)
      BY <3>2, <3>3, <3>4, AppendedData
    <3> QED
      BY <1>1, <1>3, <2>2, <2>3, <2>4, <3>5
  <2>5. CASE ~EndsInCr(s)
    <3>1. o = <<>> \/ Last(o) # "CR"
      BY <1>1, <2>5 DEF ScanOK, EndsInCr
    <3>2. w = o
      BY <2>1, <3>1 DEF WithoutCr
    <3> QED
      BY <1>1, <1>3, <2>2, <2>3, <2>5, <3>2
  <2> QED
    BY <2>4, <2>5
<1> QED
  BY <1>2, <1>3

LEMMA ReducedOneMore ==
    ASSUME NEW s \in Data, NEW t \in Char
    PROVE  Reduced(Append(s, t)) =
             IF t = "LF" /\ EndsInCr(s) THEN Append(Front(Reduced(s)), "LF")
             ELSE Append(Reduced(s), t)
<1>1. Scan(Append(s, t)) = ScanToken(Scan(s), t)
  BY ScanOneMore DEF Data
<1>2. ScanOK(s, Scan(s))
  BY ScanIsOK
<1> QED
  BY <1>1, <1>2, LeftOneMore DEF Reduced

LEMMA ReducedNothing == Reduced(<<>>) = <<>>
  BY ScanNothing DEF Reduced, Nothing, Left

LEMMA ReducedData == \A s \in Data : Reduced(s) \in Data
  BY ScanIsOK, LeftData DEF ScanOK, Reduced

-----------------------------------------------------------------------------
(* What the reduced text looks like                                        *)

NoCrLf(s) == \A i \in 1..(Len(s) - 1) : ~(s[i] = "CR" /\ s[i + 1] = "LF")

NoCrCrLf(s) ==
    \A i \in 1..(Len(s) - 2) : ~(s[i] = "CR" /\ s[i + 1] = "CR" /\ s[i + 2] = "LF")

\* Both halves of every two-byte character, except perhaps at the end.
Halves(s) ==
    /\ s # <<>> => s[1] # "CONT"
    /\ \A i \in 1..(Len(s) - 1) : s[i] = "LEAD" <=> s[i + 1] = "CONT"

Fits(s, t) == IF s = <<>> THEN t # "CONT" ELSE Last(s) = "LEAD" <=> t = "CONT"

LEMMA LengthOfData ==
    ASSUME NEW s \in Data
    PROVE  /\ Len(s) \in Nat
           /\ s = <<>> <=> Len(s) = 0
           /\ Last(s) = s[Len(s)]
  BY LenProperties, EmptySeq DEF Data, Last

LEMMA PairsOneMore ==
    ASSUME NEW s \in Data, NEW t \in Char
    PROVE  /\ NoCrLf(Append(s, t)) <=> NoCrLf(s) /\ ~(t = "LF" /\ EndsInCr(s))
           /\ Halves(Append(s, t)) <=> Halves(s) /\ Fits(s, t)
<1>1. PICK n \in Nat : n = Len(s) /\ (s = <<>> <=> n = 0) /\ Last(s) = s[n]
  BY LengthOfData
<1>2. PICK a \in Seq(Char) : /\ a = Append(s, t) /\ a # <<>> /\ Len(a) = n + 1
                             /\ \A i \in 1..n : a[i] = s[i]
                             /\ a[n + 1] = t
  <2>1. n = Len(s)
    BY <1>1
  <2> QED
    BY <2>1, AppendProperties DEF Data
<1>3. NoCrLf(a) <=> \A i \in 1..n : ~(a[i] = "CR" /\ a[i + 1] = "LF")
  BY <1>2 DEF NoCrLf
<1>4. NoCrLf(s) <=> \A i \in 1..(n - 1) : ~(a[i] = "CR" /\ a[i + 1] = "LF")
  BY <1>1, <1>2 DEF NoCrLf
<1>5. EndsInCr(s) <=> n # 0 /\ a[n] = "CR"
  BY <1>1, <1>2 DEF EndsInCr
<1>6. NoCrLf(a) <=> NoCrLf(s) /\ ~(t = "LF" /\ EndsInCr(s))
  BY <1>2, <1>3, <1>4, <1>5
<1>7. Halves(a) <=> a[1] # "CONT" /\ \A i \in 1..n : a[i] = "LEAD" <=> a[i + 1] = "CONT"
  BY <1>2 DEF Halves
<1>8. Halves(s) <=> /\ n # 0 => a[1] # "CONT"
                    /\ \A i \in 1..(n - 1) : a[i] = "LEAD" <=> a[i + 1] = "CONT"
  BY <1>1, <1>2 DEF Halves
<1>9. Fits(s, t) <=> IF n = 0 THEN a[1] # "CONT" ELSE a[n] = "LEAD" <=> a[n + 1] = "CONT"
  BY <1>1, <1>2 DEF Fits
<1>10. Halves(a) <=> Halves(s) /\ Fits(s, t)
  BY <1>7, <1>8, <1>9
<1> QED
  BY <1>2, <1>6, <1>10

LEMMA CrCrLfOneMore ==
    ASSUME NEW s \in Data, NEW t \in Char, NoCrCrLf(Append(s, t))
    PROVE  /\ NoCrCrLf(s)
           /\ \A r \in Data : t = "LF" /\ s = Append(r, "CR") => ~EndsInCr(r)
<1>1. PICK n \in Nat : n = Len(s)
  BY LengthOfData
<1>2. PICK a \in Seq(Char) : /\ a = Append(s, t) /\ a # <<>> /\ Len(a) = n + 1
                             /\ \A i \in 1..n : a[i] = s[i]
                             /\ a[n + 1] = t
  BY <1>1, AppendProperties DEF Data
<1>3. \A i \in 1..(n - 1) : ~(a[i] = "CR" /\ a[i + 1] = "CR" /\ a[i + 2] = "LF")
  BY <1>2 DEF NoCrCrLf
<1>4. NoCrCrLf(s)
  BY <1>1, <1>2, <1>3 DEF NoCrCrLf
<1>5. ASSUME NEW r \in Data, t = "LF", s = Append(r, "CR"), EndsInCr(r) PROVE FALSE
  <2>1. "CR" \in Char
    BY DEF Char, Tokens
  <2>2. PICK m \in Nat : m = Len(r) /\ (r = <<>> <=> m = 0) /\ Last(r) = r[m]
    BY LengthOfData
  <2>3. /\ Len(s) = m + 1
        /\ \A i \in 1..m : s[i] = r[i]
        /\ s[m + 1] = "CR"
    BY <1>5, <2>1, <2>2, AppendProperties DEF Data
  <2>4. m # 0 /\ r[m] = "CR" /\ n = m + 1
    BY <1>1, <1>5, <2>2, <2>3 DEF EndsInCr
  <2>5. m \in 1..(n - 1) /\ m \in 1..m /\ m \in 1..n /\ m + 1 \in 1..n
    BY <2>4
  <2>6. a[m] = "CR" /\ a[m + 1] = "CR" /\ a[m + 2] = "LF"
    BY <1>2, <1>5, <2>3, <2>4, <2>5
  <2> QED
    BY <1>3, <2>5, <2>6
<1> QED
  BY <1>4, <1>5

\* The reduced text ends like the text. Without a CRLF it is the text; with one
\* it is shorter.
ReducedFits(s) ==
    /\ Len(Reduced(s)) <= Len(s)
    /\ s # <<>> => Reduced(s) # <<>> /\ Last(Reduced(s)) = Last(s)
    /\ IF NoCrLf(s) THEN Reduced(s) = s ELSE Len(Reduced(s)) < Len(s)

LEMMA ReducedIsFit == \A s \in Data : ReducedFits(s)
<1> DEFINE P == {s \in Data : ReducedFits(s)}
<1>1. <<>> \in P
  <2>1. <<>> \in Data /\ Len(<<>>) = 0
    BY EmptySeq DEF Data
  <2>2. NoCrLf(<<>>)
    BY <2>1 DEF NoCrLf
  <2>3. ReducedFits(<<>>)
    BY <2>1, <2>2, ReducedNothing DEF ReducedFits
  <2> QED
    BY <2>1, <2>3
<1>2. ASSUME NEW s \in Seq(Char), NEW t \in Char, s \in P PROVE Append(s, t) \in P
  <2>1. s \in Data /\ ReducedFits(s)
    BY <1>2
  <2>2. PICK a \in Data : a = Append(s, t) /\ a # <<>> /\ Last(a) = t /\ Len(a) = Len(s) + 1
    BY <2>1, AppendedData
  <2>3. PICK r \in Data : r = Reduced(s)
    BY <2>1, ReducedData
  <2>4. Len(s) \in Nat /\ Len(r) \in Nat
    BY <2>1, LengthOfData
  <2>5. Len(r) <= Len(s) /\ (IF NoCrLf(s) THEN r = s ELSE Len(r) < Len(s))
    BY <2>1, <2>3 DEF ReducedFits
  <2>6. NoCrLf(a) <=> NoCrLf(s) /\ ~(t = "LF" /\ EndsInCr(s))
    BY <2>1, <2>2, PairsOneMore
  <2>7. CASE t = "LF" /\ EndsInCr(s)
    <3>1. r # <<>>
      BY <2>1, <2>3, <2>7 DEF EndsInCr, ReducedFits
    <3>2. PICK f \in Data : f = Front(r) /\ Len(r) = Len(f) + 1
      BY <3>1, SplitData, AppendedData
    <3>3. Reduced(a) = Append(f, "LF")
      BY <2>1, <2>2, <2>3, <2>7, <3>2, ReducedOneMore
    <3>4. Reduced(a) # <<>> /\ Last(Reduced(a)) = "LF" /\ Len(Reduced(a)) = Len(r)
      BY <3>2, <3>3, LfChar, AppendedData
    <3>5. ReducedFits(a)
      BY <2>2, <2>4, <2>5, <2>6, <2>7, <3>4 DEF ReducedFits
    <3> QED
      BY <2>2, <3>5
  <2>8. CASE ~(t = "LF" /\ EndsInCr(s))
    <3>1. Reduced(a) = Append(r, t)
      BY <2>1, <2>2, <2>3, <2>8, ReducedOneMore
    <3>2. Reduced(a) # <<>> /\ Last(Reduced(a)) = t /\ Len(Reduced(a)) = Len(r) + 1
      BY <3>1, AppendedData
    <3>3. r = s => Reduced(a) = a
      BY <2>2, <3>1
    <3>4. ReducedFits(a)
      BY <2>2, <2>4, <2>5, <2>6, <2>8, <3>2, <3>3 DEF ReducedFits
    <3> QED
      BY <2>2, <3>4
  <2> QED
    BY <2>7, <2>8
<1>3. \A s \in Seq(Char) : s \in P
  <2> HIDE DEF P
  <2> QED
    BY <1>1, <1>2, BuildUp
<1> QED
  BY <1>3 DEF Data

\* The reduced text has a CRLF only where the text had a CR before one, and no
\* half of a character where the text had none.
ReducedSound(s) ==
    /\ NoCrCrLf(s) => NoCrLf(Reduced(s))
    /\ Halves(s) => Halves(Reduced(s))

LEMMA ReducedIsSound == \A s \in Data : ReducedSound(s)
<1> DEFINE P == {s \in Data : ReducedSound(s)}
<1>1. <<>> \in P
  <2>1. <<>> \in Data /\ Len(<<>>) = 0
    BY EmptySeq DEF Data
  <2>2. NoCrLf(<<>>) /\ Halves(<<>>)
    BY <2>1 DEF NoCrLf, Halves
  <2>3. ReducedSound(<<>>)
    BY <2>2, ReducedNothing DEF ReducedSound
  <2> QED
    BY <2>1, <2>3
<1>2. ASSUME NEW s \in Seq(Char), NEW t \in Char, s \in P PROVE Append(s, t) \in P
  <2>1. s \in Data /\ ReducedSound(s)
    BY <1>2
  <2>2. PICK a \in Data : a = Append(s, t)
    BY <2>1, AppendedData
  <2>3. PICK r \in Data : r = Reduced(s)
    BY <2>1, ReducedData
  <2>4. /\ NoCrCrLf(a) => NoCrCrLf(s) /\ NoCrLf(r)
        /\ Halves(a) => Halves(s) /\ Fits(s, t) /\ Halves(r)
    BY <2>1, <2>2, <2>3, CrCrLfOneMore, PairsOneMore DEF ReducedSound
  <2>5. /\ s = <<>> => r = <<>>
        /\ s # <<>> => r # <<>> /\ Last(r) = Last(s)
    BY <2>1, <2>3, ReducedIsFit, ReducedNothing DEF ReducedFits
  <2>6. CASE t = "LF" /\ EndsInCr(s)
    <3>1. PICK b \in Data : s = Append(b, "CR") /\ "CR" \in Char
      BY <2>1, <2>6, SplitData DEF EndsInCr
    <3>2. PICK f \in Data : f = Reduced(b)
      BY <3>1, ReducedData
    <3>3. r = Append(f, "CR")
      BY <2>3, <3>1, <3>2, ReducedOneMore
    <3>4. Front(r) = f
      BY <3>1, <3>3, AppendedData
    <3>5. Reduced(a) = Append(f, "LF")
      BY <2>1, <2>2, <2>3, <2>6, <3>4, LfChar, ReducedOneMore
    <3>6. /\ b = <<>> => f = <<>>
          /\ b # <<>> => f # <<>> /\ Last(f) = Last(b)
      BY <3>2, ReducedIsFit, ReducedNothing DEF ReducedFits
    <3>7. NoCrCrLf(a) => NoCrLf(Append(f, "LF"))
      <4> SUFFICES ASSUME NoCrCrLf(a) PROVE NoCrLf(Append(f, "LF"))
        OBVIOUS
      <4>1. ~EndsInCr(b)
        BY <2>1, <2>2, <2>6, <3>1, CrCrLfOneMore
      <4>2. ~EndsInCr(f)
        BY <3>6, <4>1 DEF EndsInCr
      <4>3. NoCrLf(f)
        BY <2>4, <3>1, <3>3, PairsOneMore
      <4> QED
        BY <4>2, <4>3, LfChar, PairsOneMore
    <3>8. Halves(a) => Halves(Append(f, "LF"))
      <4> SUFFICES ASSUME Halves(a) PROVE Halves(Append(f, "LF"))
        OBVIOUS
      <4>1. Halves(f)
        BY <2>4, <3>1, <3>3, PairsOneMore
      <4>2. Fits(b, "CR")
        BY <2>4, <3>1, PairsOneMore
      <4>3. Fits(f, "LF")
        BY <3>6, <4>2 DEF Fits
      <4> QED
        BY <4>1, <4>3, LfChar, PairsOneMore
    <3> QED
      BY <2>2, <3>5, <3>7, <3>8 DEF ReducedSound
  <2>7. CASE ~(t = "LF" /\ EndsInCr(s))
    <3>1. Reduced(a) = Append(r, t)
      BY <2>1, <2>2, <2>3, <2>7, ReducedOneMore
    <3>2. NoCrCrLf(a) => NoCrLf(Append(r, t))
      BY <2>4, <2>5, <2>7, PairsOneMore DEF EndsInCr
    <3>3. Halves(a) => Halves(Append(r, t))
      BY <2>4, <2>5, PairsOneMore DEF Fits
    <3> QED
      BY <2>2, <3>1, <3>2, <3>3 DEF ReducedSound
  <2> QED
    BY <2>6, <2>7
<1>3. \A s \in Seq(Char) : s \in P
  <2> HIDE DEF P
  <2> QED
    BY <1>1, <1>2, BuildUp
<1> QED
  BY <1>3 DEF Data

-----------------------------------------------------------------------------
(* Lossy decoding and the patterns of the properties                       *)

LEMMA Utf8Halves ==
    ASSUME NEW s \in Data
    PROVE  Utf8(s) <=> Halves(s) /\ (s # <<>> => Last(s) # "LEAD")
<1>1. PICK n \in Nat : /\ n = Len(s) /\ (s = <<>> <=> n = 0) /\ Last(s) = s[n]
                       /\ DOMAIN s = 1..n
  BY LengthOfData, LenProperties DEF Data
<1>2. Utf8(s) <=> \A i \in 1..n :
                    /\ s[i] = "LEAD" => i < n /\ s[i + 1] = "CONT"
                    /\ s[i] = "CONT" => i > 1 /\ s[i - 1] = "LEAD"
  BY <1>1 DEF Utf8, Alone
<1>3. Halves(s) <=> /\ n # 0 => s[1] # "CONT"
                    /\ \A i \in 1..(n - 1) : s[i] = "LEAD" <=> s[i + 1] = "CONT"
  BY <1>1 DEF Halves
<1>4. ASSUME Utf8(s) PROVE Halves(s) /\ (s # <<>> => Last(s) # "LEAD")
  <2>1. n # 0 => s[1] # "CONT"
    BY <1>2, <1>4
  <2>2. ASSUME NEW i \in 1..(n - 1) PROVE s[i] = "LEAD" <=> s[i + 1] = "CONT"
    <3>1. i \in 1..n /\ i + 1 \in 1..n /\ (i + 1) - 1 = i
      OBVIOUS
    <3> QED
      BY <1>2, <1>4, <3>1
  <2>3. n # 0 => s[n] # "LEAD"
    BY <1>2, <1>4
  <2> QED
    BY <1>1, <1>3, <2>1, <2>2, <2>3
<1>5. ASSUME Halves(s), s # <<>> => Last(s) # "LEAD" PROVE Utf8(s)
  <2> SUFFICES ASSUME NEW i \in 1..n
               PROVE  /\ s[i] = "LEAD" => i < n /\ s[i + 1] = "CONT"
                      /\ s[i] = "CONT" => i > 1 /\ s[i - 1] = "LEAD"
    BY <1>2
  <2>1. i # 1 => i - 1 \in 1..(n - 1) /\ (i - 1) + 1 = i
    OBVIOUS
  <2>2. i # n => i \in 1..(n - 1)
    OBVIOUS
  <2> QED
    BY <1>1, <1>3, <1>5, <2>1, <2>2
<1> QED
  BY <1>4, <1>5

LEMMA LossyIsUtf8 ==
    ASSUME NEW s \in Data
    PROVE  /\ Lossy(s) \in Data /\ Len(Lossy(s)) = Len(s)
           /\ Utf8(Lossy(s))
           /\ Utf8(s) <=> Lossy(s) = s
           /\ \A i \in 1..Len(s) : /\ Lossy(s)[i] = "LF" <=> s[i] = "LF"
                                   /\ Lossy(s)[i] = "CR" <=> s[i] = "CR"
<1>1. PICK n \in Nat : n = Len(s) /\ DOMAIN s = 1..n
  BY LenProperties DEF Data
<1>2. \A i \in 1..n : s[i] \in Char
  BY <1>1, ElementOfSeq DEF Data
<1>3. PICK l : l = [i \in 1..n |-> IF Alone(s, i) THEN "REPL" ELSE s[i]]
  OBVIOUS
<1>4. Lossy(s) = l
  BY <1>1, <1>3 DEF Lossy
<1>5. \A i \in 1..n : l[i] = IF Alone(s, i) THEN "REPL" ELSE s[i]
  BY <1>3
<1>6. l \in Seq(Char) /\ Len(l) = n /\ DOMAIN l = 1..n
  <2>1. "REPL" \in Char
    BY DEF Char, Tokens
  <2>2. \A i \in 1..n : (IF Alone(s, i) THEN "REPL" ELSE s[i]) \in Char
    BY <1>2, <2>1
  <2>3. l \in [1..n -> Char]
    BY <1>3, <2>2
  <2> QED
    BY <2>3
<1>7. \A i \in 1..n : Alone(s, i) => s[i] \in {"LEAD", "CONT"}
  BY DEF Alone
<1>8. \A i \in 1..n : /\ l[i] = "LF" <=> s[i] = "LF"
                      /\ l[i] = "CR" <=> s[i] = "CR"
  BY <1>5, <1>7
<1>9. ASSUME NEW i \in 1..n PROVE ~Alone(l, i)
  <2>1. ASSUME l[i] = "LEAD" PROVE i < n /\ l[i + 1] = "CONT"
    <3>1. s[i] = "LEAD" /\ ~Alone(s, i)
      BY <1>5, <2>1
    <3>2. i < n /\ s[i + 1] = "CONT"
      BY <1>1, <3>1 DEF Alone
    <3>3. i + 1 \in 1..n /\ i + 1 > 1 /\ (i + 1) - 1 = i
      BY <3>2
    <3>4. ~Alone(s, i + 1)
      BY <3>1, <3>2, <3>3 DEF Alone
    <3> QED
      BY <1>5, <3>2, <3>3, <3>4
  <2>2. ASSUME l[i] = "CONT" PROVE i > 1 /\ l[i - 1] = "LEAD"
    <3>1. s[i] = "CONT" /\ ~Alone(s, i)
      BY <1>5, <2>2
    <3>2. i > 1 /\ s[i - 1] = "LEAD"
      BY <3>1 DEF Alone
    <3>3. i - 1 \in 1..n /\ i - 1 < n /\ (i - 1) + 1 = i
      BY <3>2
    <3>4. ~Alone(s, i - 1)
      BY <1>1, <3>1, <3>2, <3>3 DEF Alone
    <3> QED
      BY <1>5, <3>2, <3>3, <3>4
  <2> QED
    BY <1>6, <2>1, <2>2 DEF Alone
<1>10. Utf8(l)
  BY <1>6, <1>9 DEF Utf8
<1>11. Utf8(s) => l = s
  <2> SUFFICES ASSUME Utf8(s) PROVE l = s
    OBVIOUS
  <2>1. \A i \in 1..n : l[i] = s[i]
    BY <1>1, <1>5 DEF Utf8
  <2> QED
    BY <1>1, <1>6, <2>1, SeqEqual DEF Data
<1> QED
  BY <1>1, <1>4, <1>6, <1>8, <1>10, <1>11 DEF Data

LEMMA LossyKeepsLineEnds ==
    ASSUME NEW s \in Data
    PROVE  /\ NoCrLf(Lossy(s)) <=> NoCrLf(s)
           /\ NoCrCrLf(Lossy(s)) <=> NoCrCrLf(s)
           /\ (Lossy(s) # <<>> /\ Last(Lossy(s)) = "LF") <=> (s # <<>> /\ Last(s) = "LF")
<1>1. PICK n \in Nat : n = Len(s) /\ (s = <<>> <=> n = 0) /\ Last(s) = s[n]
  BY LengthOfData
<1>2. PICK l \in Data : l = Lossy(s) /\ Len(l) = n
  BY <1>1, LossyIsUtf8
<1>3. \A i \in 1..n : (l[i] = "LF" <=> s[i] = "LF") /\ (l[i] = "CR" <=> s[i] = "CR")
  BY <1>1, <1>2, LossyIsUtf8
<1>4. (l = <<>> <=> n = 0) /\ Last(l) = l[n]
  BY <1>2, LengthOfData
<1>5. NoCrLf(l) <=> NoCrLf(s)
  <2>1. \A i \in 1..(n - 1) : i \in 1..n /\ i + 1 \in 1..n
    OBVIOUS
  <2> QED
    BY <1>1, <1>2, <1>3, <2>1 DEF NoCrLf
<1>6. NoCrCrLf(l) <=> NoCrCrLf(s)
  <2>1. \A i \in 1..(n - 2) : i \in 1..n /\ i + 1 \in 1..n /\ i + 2 \in 1..n
    OBVIOUS
  <2> QED
    BY <1>1, <1>2, <1>3, <2>1 DEF NoCrCrLf
<1>7. (l # <<>> /\ Last(l) = "LF") <=> (s # <<>> /\ Last(s) = "LF")
  BY <1>1, <1>3, <1>4
<1> QED
  BY <1>2, <1>5, <1>6, <1>7

\* A pattern occurs where its characters stand.
LEMMA OccursAt ==
    ASSUME NEW s \in Data, NEW p \in Data, p # <<>>
    PROVE  Occurs(p, s) <=> \E i \in 1..(Len(s) - Len(p) + 1) :
                               \A j \in 1..Len(p) : p[j] = s[i + j - 1]
<1>1. PICK n \in Nat : n = Len(s) /\ DOMAIN s = 1..n
  BY LenProperties DEF Data
<1>2. PICK k \in Nat \ {0} : k = Len(p)
  BY EmptySeq DEF Data
<1>3. ASSUME NEW i \in 1..n
      PROVE  IsPrefix(p, SubSeq(s, i, n)) <=>
               i <= n - k + 1 /\ \A j \in 1..k : p[j] = s[i + j - 1]
  <2>1. \A x \in i..n : s[x] \in Char
    BY <1>1, ElementOfSeq DEF Data
  <2>2. PICK q \in Seq(Char) : /\ q = SubSeq(s, i, n) /\ Len(q) = n - i + 1
                               /\ \A x \in 1..(n - i + 1) : q[x] = s[i + x - 1]
    <3>1. /\ SubSeq(s, i, n) \in Seq(Char)
          /\ Len(SubSeq(s, i, n)) = IF i <= n THEN n - i + 1 ELSE 0
          /\ \A x \in 1..(n - i + 1) : SubSeq(s, i, n)[x] = s[i + x - 1]
      BY <2>1, SubSeqProperties
    <3>2. i <= n
      OBVIOUS
    <3> QED
      BY <3>1, <3>2
  <2>3. SubSeq(p, 1, k) = p
    BY <1>2, SubSeqFull DEF Data
  <2>4. IsPrefix(p, q) <=> k <= n - i + 1 /\ p = SubSeq(q, 1, k)
    BY <1>2, <2>2, <2>3 DEF IsPrefix
  <2>5. ASSUME k <= n - i + 1
        PROVE  p = SubSeq(q, 1, k) <=> \A j \in 1..k : p[j] = q[j]
    <3>1. \A x \in 1..k : q[x] \in Char
      BY <2>2, <2>5, ElementOfSeq
    <3>2. PICK h \in Seq(Char) : /\ h = SubSeq(q, 1, k) /\ Len(h) = k
                                 /\ \A x \in 1..k : h[x] = q[x]
      <4>1. /\ SubSeq(q, 1, k) \in Seq(Char)
            /\ Len(SubSeq(q, 1, k)) = IF 1 <= k THEN k - 1 + 1 ELSE 0
            /\ \A x \in 1..(k - 1 + 1) : SubSeq(q, 1, k)[x] = q[1 + x - 1]
        BY <3>1, SubSeqProperties
      <4>2. k - 1 + 1 = k /\ 1 <= k /\ \A x \in 1..k : 1 + x - 1 = x
        OBVIOUS
      <4> QED
        BY <4>1, <4>2
    <3>3. (\A j \in 1..k : p[j] = q[j]) => p = h
      BY <1>2, <3>2, SeqEqual DEF Data
    <3> QED
      BY <3>2, <3>3
  <2>6. ASSUME k <= n - i + 1
        PROVE  (\A j \in 1..k : p[j] = q[j]) <=> \A j \in 1..k : p[j] = s[i + j - 1]
    BY <2>2, <2>6
  <2>7. k <= n - i + 1 <=> i <= n - k + 1
    OBVIOUS
  <2> QED
    BY <2>2, <2>4, <2>5, <2>6, <2>7
<1>4. Occurs(p, s) <=> \E i \in 1..n : IsPrefix(p, SubSeq(s, i, n))
  BY <1>1 DEF Occurs
<1>5. \A i \in 1..(n - k + 1) : i \in 1..n
  BY <1>2
<1>6. Occurs(p, s) <=> \E i \in 1..(n - k + 1) : \A j \in 1..k : p[j] = s[i + j - 1]
  BY <1>3, <1>4, <1>5
<1> QED
  BY <1>1, <1>2, <1>6

LEMMA PatternsOccur ==
    ASSUME NEW s \in Data
    PROVE  /\ ~Occurs(<<"CR", "LF">>, s) <=> NoCrLf(s)
           /\ ~Occurs(<<"CR", "CR", "LF">>, s) <=> NoCrCrLf(s)
<1>1. PICK n \in Nat : n = Len(s)
  BY LengthOfData
<1>2. "CR" \in Char /\ "LF" \in Char
  BY DEF Char, Tokens
<1>3. PICK p \in Data : /\ p = <<"CR", "LF">> /\ Len(p) = 2 /\ p # <<>>
                        /\ p[1] = "CR" /\ p[2] = "LF"
  <2>1. <<"CR", "LF">> \in Seq(Char)
    BY <1>2
  <2> QED
    BY <2>1 DEF Data
<1>4. PICK q \in Data : /\ q = <<"CR", "CR", "LF">> /\ Len(q) = 3 /\ q # <<>>
                        /\ q[1] = "CR" /\ q[2] = "CR" /\ q[3] = "LF"
  <2>1. <<"CR", "CR", "LF">> \in Seq(Char)
    BY <1>2
  <2> QED
    BY <2>1 DEF Data
<1>5. Occurs(p, s) <=> \E i \in 1..(n - 2 + 1) : \A j \in 1..2 : p[j] = s[i + j - 1]
  BY <1>1, <1>3, OccursAt
<1>6. Occurs(q, s) <=> \E i \in 1..(n - 3 + 1) : \A j \in 1..3 : q[j] = s[i + j - 1]
  BY <1>1, <1>4, OccursAt
<1>7. ASSUME NEW i \in 1..(n - 1)
      PROVE  (\A j \in 1..2 : p[j] = s[i + j - 1]) <=> s[i] = "CR" /\ s[i + 1] = "LF"
  <2>1. i + 1 - 1 = i /\ i + 2 - 1 = i + 1 /\ \A j \in 1..2 : j = 1 \/ j = 2
    OBVIOUS
  <2> QED
    BY <1>3, <2>1
<1>8. ASSUME NEW i \in 1..(n - 2)
      PROVE  (\A j \in 1..3 : q[j] = s[i + j - 1]) <=>
                 s[i] = "CR" /\ s[i + 1] = "CR" /\ s[i + 2] = "LF"
  <2>1. /\ i + 1 - 1 = i /\ i + 2 - 1 = i + 1 /\ i + 3 - 1 = i + 2
        /\ \A j \in 1..3 : j = 1 \/ j = 2 \/ j = 3
    OBVIOUS
  <2> QED
    BY <1>4, <2>1
<1>9. n - 2 + 1 = n - 1 /\ n - 3 + 1 = n - 2
  OBVIOUS
<1> QED
  BY <1>1, <1>3, <1>4, <1>5, <1>6, <1>7, <1>8, <1>9 DEF NoCrLf, NoCrCrLf

-----------------------------------------------------------------------------
(* Reading what was stored                                                 *)

Shown(r) == IF r = <<"LF">> THEN <<>> ELSE r

LEMMA LinesShown ==
    ASSUME NEW s \in Data, NEW trailing, trailing <=> s # <<>> /\ Last(s) = "LF"
    PROVE  JoinLines(LinesOf(s), trailing) = Shown(Reduced(s))
<1>1. ScanOK(s, Scan(s))
  BY ScanIsOK
<1>2. PICK d \in Seq(Data), o \in Data : d = Scan(s).done /\ o = Scan(s).open
  BY <1>1 DEF ScanOK
<1>3. /\ o = <<>> <=> s = <<>> \/ Last(s) = "LF"
      /\ o # <<>> => Last(o) = Last(s)
      /\ o = <<>> /\ d = <<>> => s = <<>>
  BY <1>1, <1>2 DEF ScanOK
<1>4. Reduced(s) = Left(d, o)
  BY <1>2 DEF Reduced
<1>5. LinesOf(s) = IF o = <<>> THEN d ELSE Append(d, o)
  BY <1>2 DEF LinesOf
<1>6. CASE o # <<>>
  <2>1. ~trailing
    BY <1>3, <1>6
  <2>2. Join(Append(d, o), <<"LF">>) = Left(d, o)
    BY JoinWithOpen
  <2>3. Left(d, o) # <<"LF">>
    <3>1. Last(o) # "LF"
      BY <1>3, <1>6
    <3>2. s # <<>> /\ Last(Reduced(s)) = Last(s)
      BY <1>3, <1>6, ReducedIsFit DEF ReducedFits
    <3>3. Last(<<"LF">>) = "LF"
      BY DEF Last
    <3> QED
      BY <1>3, <1>4, <1>6, <3>1, <3>2, <3>3
  <2> QED
    BY <1>4, <1>5, <1>6, <2>1, <2>2, <2>3 DEF JoinLines, Shown
<1>7. CASE o = <<>> /\ d = <<>>
  <2>1. s = <<>> /\ ~trailing
    BY <1>3, <1>7
  <2>2. Join(<<>>, <<"LF">>) = <<>>
    BY LfChar, JoinNothing DEF Data
  <2>3. Reduced(s) = <<>> /\ <<>> # <<"LF">>
    BY <2>1, ReducedNothing
  <2> QED
    BY <1>5, <1>7, <2>1, <2>2, <2>3 DEF JoinLines, Shown
<1>8. CASE o = <<>> /\ d # <<>>
  <2>1. PICK j \in Data : j = Join(d, <<"LF">>)
    BY LfChar, JoinType DEF Data
  <2>2. Left(d, o) = j \o <<"LF">> \o <<>>
    BY <1>8, <2>1 DEF Left
  <2>3. j \o <<"LF">> = Append(j, "LF") /\ Append(j, "LF") \in Seq(Char)
    BY LfChar, AppendIsConcat, AppendProperties DEF Data
  <2>4. Left(d, o) = Append(j, "LF")
    BY <2>2, <2>3, ConcatEmptySeq
  <2>5. s # <<>>
    <3>1. Left(d, o) # <<>>
      BY <2>4, LfChar, AppendedData
    <3> QED
      BY <1>4, <3>1, ReducedNothing
  <2>6. trailing
    BY <1>3, <1>8, <2>5
  <2>7. j = <<>> <=> Append(j, "LF") = <<"LF">>
    <3>1. <<>> \in Seq(Char) /\ Append(<<>>, "LF") = <<"LF">>
      BY LfChar DEF Data
    <3>2. \A x, y \in Seq(Char) : Append(x, "LF") = Append(y, "LF") <=> x = y
      BY LfChar, AppendInjective
    <3>3. j \in Seq(Char)
      BY DEF Data
    <3>4. Append(j, "LF") = Append(<<>>, "LF") <=> j = <<>>
      BY <3>1, <3>2, <3>3
    <3> QED
      BY <3>1, <3>4
  <2> QED
    BY <1>4, <1>5, <1>8, <2>1, <2>4, <2>6, <2>7 DEF JoinLines, Shown
<1> QED
  BY <1>6, <1>7, <1>8

LEMMA ReadOfStore ==
    ASSUME NEW s \in Data
    PROVE  ReadFile(Store(s)) = IF DetectText(s) THEN Shown(Reduced(Lossy(s))) ELSE s
<1>1. CASE DetectText(s)
  <2>1. PICK t \in Data : t = Lossy(s)
    BY LossyIsUtf8
  <2>2. PICK e : e = (s # <<>> /\ Last(s) = "LF")
    OBVIOUS
  <2>3. e <=> t # <<>> /\ Last(t) = "LF"
    BY <2>1, <2>2, LossyKeepsLineEnds
  <2>4. Store(s) = [kind |-> "text", parts |-> LinesOf(t), trailing |-> e]
    BY <1>1, <2>1, <2>2 DEF Store
  <2>5. ReadFile(Store(s)) = JoinLines(LinesOf(t), e)
    BY <2>4 DEF ReadFile
  <2> QED
    BY <1>1, <2>1, <2>3, <2>5, LinesShown
<1>2. CASE ~DetectText(s)
  <2>1. Store(s) = [kind |-> "binary", parts |-> Chunks(s), trailing |-> FALSE]
    BY <1>2 DEF Store
  <2>2. ReadFile(Store(s)) = Join(Chunks(s), <<>>)
    BY <2>1 DEF ReadFile
  <2> QED
    BY <1>2, <2>2, BlocksJoin
<1> QED
  BY <1>1, <1>2

LEMMA ReadData == \A s \in Data : ReadFile(Store(s)) \in Data
<1> SUFFICES ASSUME NEW s \in Data PROVE ReadFile(Store(s)) \in Data
  OBVIOUS
<1>1. Reduced(Lossy(s)) \in Data
  BY LossyIsUtf8, ReducedData
<1> QED
  BY <1>1, ReadOfStore, LfChar DEF Shown

LEMMA LosslessReadsBack ==
    ASSUME NEW s \in Data, Lossless(s)
    PROVE  ReadFile(Store(s)) = s
<1>1. CASE ~DetectText(s)
  BY <1>1, ReadOfStore
<1>2. CASE DetectText(s)
  <2>1. NoCrLf(s) /\ s # <<"LF">> /\ Lossy(s) = s
    BY <1>2, PatternsOccur, LossyIsUtf8 DEF Lossless
  <2>2. Reduced(s) = s
    BY <2>1, ReducedIsFit DEF ReducedFits
  <2> QED
    BY <1>2, <2>1, <2>2, ReadOfStore DEF Shown
<1> QED
  BY <1>1, <1>2

LEMMA CopyIsStable ==
    ASSUME NEW s \in Data, NoCrCrLf(s)
    PROVE  ReadFile(Store(ReadFile(Store(s)))) = ReadFile(Store(s))
<1>1. PICK c \in Data : c = ReadFile(Store(s))
  BY ReadData
<1>2. CASE ~DetectText(s)
  <2>1. c = s
    BY <1>1, <1>2, ReadOfStore
  <2> QED
    BY <1>1, <2>1
<1>3. CASE DetectText(s)
  <2>1. PICK t \in Data : t = Lossy(s)
    BY LossyIsUtf8
  <2>2. Utf8(t) /\ NoCrCrLf(t)
    BY <2>1, LossyIsUtf8, LossyKeepsLineEnds
  <2>3. PICK r \in Data : r = Reduced(t)
    BY ReducedData
  <2>4. c = Shown(r)
    BY <1>1, <1>3, <2>1, <2>3, ReadOfStore
  <2>5. Halves(t) /\ (t # <<>> => Last(t) # "LEAD")
    BY <2>2, Utf8Halves
  <2>6. NoCrLf(r) /\ Halves(r)
    BY <2>2, <2>3, <2>5, ReducedIsSound DEF ReducedSound
  <2>7. r # <<>> => Last(r) # "LEAD"
    BY <2>3, <2>5, ReducedNothing, ReducedIsFit DEF ReducedFits
  <2>8. Utf8(r)
    BY <2>6, <2>7, Utf8Halves
  <2>9. Utf8(<<>>) /\ NoCrLf(<<>>) /\ <<>> # <<"LF">> /\ <<>> \in Data
    <3>1. <<>> \in Data /\ Len(<<>>) = 0 /\ Len(<<"LF">>) = 1
      BY LfChar
    <3> QED
      BY <3>1, Utf8Halves DEF Halves, NoCrLf
  <2>10. Utf8(c) /\ NoCrLf(c) /\ c # <<"LF">>
    BY <2>4, <2>6, <2>8, <2>9 DEF Shown
  <2>11. Lossless(c)
    BY <2>10, PatternsOccur DEF Lossless
  <2> QED
    BY <1>1, <2>11, LosslessReadsBack
<1> QED
  BY <1>2, <1>3

\* The rows are those of the last content written.
ContentInv == written \in Data /\ storedAs = Store(written)

LEMMA ContentInvariant == ContentSpec => []ContentInv
<1>1. ContentInit => ContentInv
  BY LfChar DEF ContentInit, ContentInv
<1>2. ContentInv /\ [ContentNext]_contentVars => ContentInv'
  <2> SUFFICES ASSUME ContentInv, [ContentNext]_contentVars PROVE ContentInv'
    OBVIOUS
  <2>1. ASSUME NEW t \in Tokens, Extend(t) PROVE ContentInv'
    <3>1. t \in Char
      BY DEF Char
    <3>2. Append(written, t) \in Data
      BY <3>1, AppendedData DEF ContentInv
    <3> QED
      BY <2>1, <3>2 DEF Extend, WriteFile, ContentInv
  <2>2. CASE Copy
    <3>1. ReadFile(storedAs) \in Data
      BY ReadData DEF ContentInv
    <3> QED
      BY <2>2, <3>1 DEF Copy, WriteFile, ContentInv
  <2>3. CASE UNCHANGED contentVars
    BY <2>3 DEF contentVars, ContentInv
  <2> QED
    BY <2>1, <2>2, <2>3 DEF ContentNext
<1> QED
  BY <1>1, <1>2, PTL DEF ContentSpec

\* A content of any length reads back as it was written, if it is stored in blocks,
\* or is valid UTF-8 without a CRLF and not a lone newline.
THEOREM ContentReadsBack == ContentSpec => []ReadsBack
<1>1. ContentInv => ReadsBack
  BY LosslessReadsBack DEF ContentInv, ReadsBack
<1> QED
  BY <1>1, ContentInvariant, PTL

\* A copy of a copy of a content of any length is like the copy, unless the content
\* has a CR before a CRLF.
THEOREM CopiesAreStable == ContentSpec => []CopyStable
<1>1. ContentInv => CopyStable
  BY CopyIsStable, PatternsOccur DEF ContentInv, CopyStable
<1> QED
  BY <1>1, ContentInvariant, PTL
==============================================================================
