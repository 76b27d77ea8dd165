--------------------------- MODULE UnionViewProofs ---------------------------
(***************************************************************************)
(* For every number of layers, files, inodes and views under way: a lookup *)
(* answers what was true of its path at some moment of the request, and a  *)
(* listing does so for every name.                                         *)
(*                                                                         *)
(* A lookup on its way down keeps this promise because what the rest of    *)
(* the chain says about its path was the truth of the view at some moment; *)
(* a listing on its way up because it holds what the layers below it say   *)
(* now.                                                                    *)
(***************************************************************************)
EXTENDS UnionView, TLAPS, WellFoundedInduction

\* Truth as a function of the table, so that it can be told for two of them.
Said(E, l, p) == {k \in 1..l : E[k][p].type # "none"}
TruthIn(E, l, p) ==
    IF Said(E, l, p) = {} THEN NotFound
    ELSE StateOf(Max(Said(E, l, p)), E[Max(Said(E, l, p))][p])

\* How a listing shows a state: what is deleted is not there.
Shown(s) == IF s.state = "exists" THEN s ELSE NotFound

ReaderOK(r) ==
    /\ pc[r] = "idle" => layer[r] = 1
    /\ pc[r] \in {"lookup", "list"} =>
        \A p \in Files : TruthIn(entry, view[r], p) \in seen[r][p]
    /\ pc[r] = "lookup" /\ "late record" \notin disturbed[r] =>
        TruthIn(entry, layer[r], path[r]) \in seen[r][path[r]]
    /\ pc[r] = "list" /\ disturbed[r] = {} =>
        \A p \in Files : found[r][p] = Shown(TruthIn(entry, layer[r] - 1, p))
    /\ pc[r] = "looked" /\ "late record" \notin disturbed[r] =>
        found[r][path[r]] \in seen[r][path[r]]
    /\ pc[r] = "listed" /\ disturbed[r] = {} =>
        \A p \in Files : \E s \in seen[r][p] : found[r][p] = Shown(s)

ViewInv == TypeOK /\ \A r \in Readers : ReaderOK(r)

Tables == [LayerIds -> [Files -> Entries \cup {NoEntry}]]

-----------------------------------------------------------------------------
(* What the layers of a chain say                                          *)

LEMMA LayersAreNumbers ==
    /\ LayerIds \subseteq Nat \ {0}
    /\ 1 \in LayerIds
    /\ \A l \in LayerIds : 1..l \subseteq LayerIds
  BY BoundsAssumption DEF LayerIds

\* An entry is a write, a delete or missing, and each makes a state of a file.
LEMMA EntryMeans ==
    ASSUME NEW l \in LayerIds, NEW e \in Entries \cup {NoEntry}
    PROVE  /\ e.type \in {"none", "write", "delete"}
           /\ e.type = "none" => StateOf(l, e) = NotFound
           /\ e.type = "write" =>
                StateOf(l, e) = [state |-> "exists", layer |-> l, inode |-> e.inode]
           /\ e.type = "delete" =>
                StateOf(l, e) = [state |-> "deleted", layer |-> l, inode |-> 0]
           /\ StateOf(l, e) \in States
<1>1. CASE e = NoEntry
  <2>1. e.type = "none"
    BY <1>1 DEF NoEntry
  <2>2. StateOf(l, e) = NotFound
    BY <2>1 DEF StateOf
  <2>3. NotFound \in States
    BY DEF NotFound, States
  <2> QED
    BY <2>1, <2>2, <2>3
<1>2. CASE e \in Entries
  <2>1. e.type \in {"write", "delete"} /\ e.inode \in InodeIds
    BY <1>2 DEF Entries
  <2>2. CASE e.type = "write"
    <3>1. StateOf(l, e) = [state |-> "exists", layer |-> l, inode |-> e.inode]
      BY <2>2 DEF StateOf
    <3> QED
      BY <2>1, <2>2, <3>1 DEF States
  <2>3. CASE e.type = "delete"
    <3>1. StateOf(l, e) = [state |-> "deleted", layer |-> l, inode |-> 0]
      BY <2>3 DEF StateOf
    <3> QED
      BY <2>3, <3>1 DEF States
  <2> QED
    BY <2>1, <2>2, <2>3
<1> QED
  BY <1>1, <1>2

\* A set of layers has a topmost one: the least number that bounds it is in it.
LEMMA TopmostExists ==
    ASSUME NEW l \in Nat, NEW S, S \subseteq 1..l, S # {}
    PROVE  Max(S) \in S /\ \A y \in S : y <= Max(S)
<1>1. PICK R : R = OpToRel(<, Nat)
  OBVIOUS
<1>2. IsWellFoundedOn(R, Nat)
  BY <1>1, NatLessThanWellFounded
<1>3. PICK B : B = {n \in Nat : \A y \in S : y <= n}
  OBVIOUS
<1>4. B \subseteq Nat /\ B # {}
  <2>1. l \in B
    BY <1>3
  <2> QED
    BY <1>3, <2>1
<1>5. PICK n \in B : \A m \in B : ~(<<m, n>> \in R)
  BY <1>2, <1>4, WFMin
<1>6. R = {ss \in Nat \X Nat : ss[1] < ss[2]}
  BY <1>1 DEF OpToRel
<1>7. n \in S
  <2> SUFFICES ASSUME n \notin S PROVE FALSE
    OBVIOUS
  <2>1. PICK y0 \in S : TRUE
    OBVIOUS
  <2>2. n \in Nat /\ y0 \in Nat \ {0} /\ y0 <= n
    BY <1>3, <1>5, <2>1
  <2>3. n - 1 \in Nat /\ n - 1 < n
    BY <2>2
  <2>4. ASSUME NEW y \in S PROVE y <= n - 1
    <3>1. y \in Nat /\ y <= n /\ y # n
      BY <1>3, <1>5
    <3> QED
      BY <2>2, <3>1
  <2>5. n - 1 \in B
    BY <1>3, <2>3, <2>4
  <2>6. <<n - 1, n>> \in R
    BY <1>6, <2>2, <2>3
  <2> QED
    BY <1>5, <2>5, <2>6
<1>8. \A y \in S : n >= y
  BY <1>3, <1>5
<1>9. \E x \in S : \A y \in S : x >= y
  BY <1>7, <1>8
<1>10. Max(S) \in S /\ \A y \in S : Max(S) >= y
  BY <1>9 DEF Max
<1> QED
  BY <1>10

\* The truth is always a state of a file, and the base has nothing below it.
LEMMA TruthType ==
    ASSUME NEW E \in Tables, NEW l \in LayerIds \cup {0}, NEW p \in Files
    PROVE  TruthIn(E, l, p) \in States /\ TruthIn(E, 0, p) = NotFound
<1>1. TruthIn(E, 0, p) = NotFound
  <2>1. Said(E, 0, p) = {}
    BY DEF Said
  <2> QED
    BY <2>1 DEF TruthIn
<1>2. NotFound \in States
  BY DEF NotFound, States
<1>3. ASSUME Said(E, l, p) # {} PROVE TruthIn(E, l, p) \in States
  <2>1. PICK S : S = Said(E, l, p)
    OBVIOUS
  <2>2. S \subseteq 1..l /\ S # {} /\ l \in Nat
    BY <1>3, <2>1, LayersAreNumbers DEF Said
  <2>3. PICK m : m = Max(S)
    OBVIOUS
  <2>4. m \in LayerIds
    <3>1. m \in 1..l
      BY <2>2, <2>3, TopmostExists
    <3>2. l # 0
      BY <3>1
    <3> QED
      BY <3>1, <3>2, LayersAreNumbers
  <2>5. E[m][p] \in Entries \cup {NoEntry}
    BY <2>4 DEF Tables
  <2>6. TruthIn(E, l, p) = StateOf(m, E[m][p])
    BY <1>3, <2>1, <2>3 DEF TruthIn
  <2> QED
    BY <2>4, <2>5, <2>6, EntryMeans
<1>4. ASSUME Said(E, l, p) = {} PROVE TruthIn(E, l, p) \in States
  BY <1>2, <1>4 DEF TruthIn
<1> QED
  BY <1>1, <1>3, <1>4

\* The word of a layer decides; without one, that of the layers below it.
LEMMA TruthStep ==
    ASSUME NEW E \in Tables, NEW l \in LayerIds, NEW p \in Files
    PROVE  TruthIn(E, l, p) = IF E[l][p].type = "none" THEN TruthIn(E, l - 1, p)
                              ELSE StateOf(l, E[l][p])
<1>1. l \in Nat \ {0}
  BY LayersAreNumbers
<1>2. ASSUME E[l][p].type = "none" PROVE TruthIn(E, l, p) = TruthIn(E, l - 1, p)
  <2>1. Said(E, l, p) = Said(E, l - 1, p)
    BY <1>1, <1>2 DEF Said
  <2> QED
    BY <2>1 DEF TruthIn
<1>3. ASSUME E[l][p].type # "none" PROVE TruthIn(E, l, p) = StateOf(l, E[l][p])
  <2>1. PICK S : S = Said(E, l, p)
    OBVIOUS
  <2>2. l \in S /\ S \subseteq 1..l
    BY <1>1, <1>3, <2>1 DEF Said
  <2>3. PICK m : m = Max(S)
    OBVIOUS
  <2>4. m \in 1..l /\ l <= m
    BY <1>1, <2>2, <2>3, TopmostExists
  <2>5. m = l
    BY <1>1, <2>4
  <2> QED
    BY <2>1, <2>2, <2>3, <2>5 DEF TruthIn
<1> QED
  BY <1>2, <1>3

\* It depends on the layers of the chain alone.
LEMMA TruthKept ==
    ASSUME NEW E, NEW F, NEW l \in Nat, NEW p,
           \A k \in 1..l : F[k][p] = E[k][p]
    PROVE  TruthIn(F, l, p) = TruthIn(E, l, p)
<1>1. Said(F, l, p) = Said(E, l, p)
  BY DEF Said
<1>2. CASE Said(E, l, p) = {}
  BY <1>1, <1>2 DEF TruthIn
<1>3. CASE Said(E, l, p) # {}
  <2>1. PICK S : S = Said(E, l, p)
    OBVIOUS
  <2>2. PICK m : m = Max(S)
    OBVIOUS
  <2>3. S \subseteq 1..l /\ S # {}
    BY <1>3, <2>1 DEF Said
  <2>4. m \in 1..l
    BY <1>3, <2>2, <2>3, TopmostExists
  <2> QED
    BY <1>1, <1>3, <2>1, <2>2, <2>4 DEF TruthIn
<1> QED
  BY <1>2, <1>3
-----------------------------------------------------------------------------
(* A step on the layers                                                    *)

\* What Witness does, told with the truth of the table after the step.
LEMMA WitnessMeans ==
    ASSUME TypeOK, NEW what, Witness(what), UNCHANGED view,
           NEW r \in Readers
    PROVE  /\ pc[r] \in {"lookup", "list"} =>
               /\ \A p \in Files : seen'[r][p] =
                      seen[r][p] \cup {TruthIn(entry', view[r], p)}
               /\ disturbed'[r] = disturbed[r] \cup what
           /\ pc[r] \notin {"lookup", "list"} =>
               seen'[r] = seen[r] /\ disturbed'[r] = disturbed[r]
<1>1. ASSUME NEW p \in Files
      PROVE  seen'[r][p] = IF pc[r] \in {"lookup", "list"}
                           THEN seen[r][p] \cup {TruthIn(entry', view[r], p)}
                           ELSE seen[r][p]
  <2>1. Truth(view[r], p)' = TruthIn(entry', view[r], p)
    BY Zenon DEF Truth, TruthIn, Said
  <2> QED
    BY <2>1, Zenon DEF Witness
<1>2. disturbed'[r] = IF pc[r] \in {"lookup", "list"} THEN disturbed[r] \cup what
                      ELSE disturbed[r]
  BY Zenon DEF Witness
<1>3. ASSUME pc[r] \notin {"lookup", "list"} PROVE seen'[r] = seen[r]
  <2>1. seen'[r] = [p \in Files |-> seen[r][p]]
    BY <1>3, Zenon DEF Witness
  <2>2. seen[r] = [p \in Files |-> seen[r][p]]
    BY DEF TypeOK
  <2> QED
    BY <2>1, <2>2
<1> QED
  BY <1>1, <1>2, <1>3

LEMMA WitnessTypes ==
    ASSUME TypeOK, NEW what \in SUBSET {"late record", "inode deleted"},
           Witness(what), UNCHANGED view, entry' \in Tables
    PROVE  /\ seen' \in [Readers -> [Files -> SUBSET States]]
           /\ disturbed' \in [Readers -> SUBSET {"late record", "inode deleted"}]
<1>1. ASSUME NEW r \in Readers, NEW p \in Files
      PROVE  seen'[r][p] \in SUBSET States
  <2>1. TruthIn(entry', view[r], p) \in States
    BY TruthType, view[r] \in LayerIds DEF TypeOK
  <2>2. seen[r][p] \in SUBSET States
    <3>1. seen \in [Readers -> [Files -> SUBSET States]]
      BY DEF TypeOK
    <3> QED
      BY <3>1, Zenon
  <2>3. CASE pc[r] \in {"lookup", "list"}
    <3>1. seen'[r][p] = seen[r][p] \cup {TruthIn(entry', view[r], p)}
      BY <2>3, WitnessMeans
    <3> QED
      BY <2>1, <2>2, <3>1
  <2>4. CASE pc[r] \notin {"lookup", "list"}
    BY <2>2, <2>4, WitnessMeans
  <2> QED
    BY <2>3, <2>4
<1>2. seen' = [r \in Readers |-> [p \in Files |-> seen'[r][p]]]
  BY DEF Witness
<1>3. seen' \in [Readers -> [Files -> SUBSET States]]
  BY <1>1, <1>2, Zenon
<1>4. ASSUME NEW r \in Readers
      PROVE  disturbed'[r] \in SUBSET {"late record", "inode deleted"}
  <2>1. disturbed[r] \in SUBSET {"late record", "inode deleted"}
    BY DEF TypeOK
  <2>2. disturbed'[r] = disturbed[r] \/ disturbed'[r] = disturbed[r] \cup what
    BY WitnessMeans
  <2> QED
    BY <2>1, <2>2
<1>5. disturbed' = [r \in Readers |-> disturbed'[r]]
  BY DEF Witness
<1> QED
  BY <1>3, <1>4, <1>5

LEMMA ReaderPlaces ==
    ASSUME TypeOK, NEW r \in Readers
    PROVE  /\ top \in Nat \ {0} /\ view[r] \in 1..top /\ layer[r] \in 1..view[r]
           /\ path[r] \in Files /\ layer[r] - 1 \in 0..(top - 1)
<1>1. /\ top \in LayerIds /\ view[r] \in LayerIds /\ layer[r] \in LayerIds
      /\ layer[r] <= view[r] /\ view[r] <= top /\ path[r] \in Files
  BY DEF TypeOK
<1>2. top \in Nat \ {0} /\ view[r] \in Nat \ {0} /\ layer[r] \in Nat \ {0}
  BY <1>1, LayersAreNumbers
<1> QED
  BY <1>1, <1>2

\* What a step on the layers makes of a lower part of a chain, unless recorded
\* late, it makes of the whole.
ReachesTheTop(what) ==
    "late record" \notin what =>
        \A v \in 1..top : \A l \in 1..v : \A p \in Files :
            \/ TruthIn(entry', l, p) = TruthIn(entry, l, p)
            \/ TruthIn(entry', l, p) = TruthIn(entry', v, p)

\* It changes nothing below the current layer that it does not own up to.
KeepsBelow(what) ==
    what = {} => \A l \in 0..(top - 1) : \A p \in Files :
                     TruthIn(entry', l, p) = TruthIn(entry, l, p)

\* Such a step leaves every reader with a promise it can keep.
LEMMA LayerStep ==
    ASSUME ViewInv, NEW what, Witness(what), UNCHANGED <<pc, view, path, layer, found>>,
           ReachesTheTop(what), KeepsBelow(what)
    PROVE  \A r \in Readers : ReaderOK(r)'
<1> SUFFICES ASSUME NEW r \in Readers PROVE ReaderOK(r)'
  OBVIOUS
<1>1. TypeOK /\ ReaderOK(r)
  BY DEF ViewInv
<1>2. UNCHANGED view
  OBVIOUS
<1>3. /\ pc'[r] = pc[r] /\ view'[r] = view[r] /\ path'[r] = path[r]
      /\ layer'[r] = layer[r] /\ found'[r] = found[r]
  OBVIOUS
<1>4. /\ top \in Nat /\ view[r] \in 1..top /\ layer[r] \in 1..view[r]
      /\ path[r] \in Files /\ layer[r] - 1 \in 0..(top - 1)
  BY <1>1, ReaderPlaces
<1>5. pc[r] \in {"idle", "lookup", "list", "looked", "listed"}
  BY <1>1 DEF TypeOK
<1>6. CASE pc[r] = "lookup"
  <2>1. /\ \A p \in Files : seen'[r][p] = seen[r][p] \cup {TruthIn(entry', view[r], p)}
        /\ disturbed'[r] = disturbed[r] \cup what
    BY <1>1, <1>2, <1>6, WitnessMeans
  <2>2. ASSUME "late record" \notin disturbed'[r]
        PROVE  TruthIn(entry', layer[r], path[r]) \in seen'[r][path[r]]
    <3>1. "late record" \notin what /\ "late record" \notin disturbed[r]
      BY <2>1, <2>2
    <3>2. TruthIn(entry, layer[r], path[r]) \in seen[r][path[r]]
      BY <1>1, <1>6, <3>1 DEF ReaderOK
    <3>3. \/ TruthIn(entry', layer[r], path[r]) = TruthIn(entry, layer[r], path[r])
          \/ TruthIn(entry', layer[r], path[r]) = TruthIn(entry', view[r], path[r])
      BY <1>4, <3>1 DEF ReachesTheTop
    <3> QED
      BY <1>4, <2>1, <3>2, <3>3
  <2> QED
    BY <1>3, <1>6, <2>1, <2>2 DEF ReaderOK
<1>7. CASE pc[r] = "list"
  <2>1. /\ \A p \in Files : seen'[r][p] = seen[r][p] \cup {TruthIn(entry', view[r], p)}
        /\ disturbed'[r] = disturbed[r] \cup what
    BY <1>1, <1>2, <1>7, WitnessMeans
  <2>2. ASSUME disturbed'[r] = {}, NEW p \in Files
        PROVE  found[r][p] = Shown(TruthIn(entry', layer[r] - 1, p))
    <3>1. what = {} /\ disturbed[r] = {}
      BY <2>1, <2>2
    <3>2. found[r][p] = Shown(TruthIn(entry, layer[r] - 1, p))
      BY <1>1, <1>7, <3>1 DEF ReaderOK
    <3>3. PICK l : l = layer[r] - 1
      OBVIOUS
    <3>4. l \in 0..(top - 1)
      BY <1>4, <3>3
    <3>5. TruthIn(entry', l, p) = TruthIn(entry, l, p)
      BY <3>1, <3>4 DEF KeepsBelow
    <3> QED
      BY <3>2, <3>3, <3>5
  <2> QED
    BY <1>3, <1>7, <2>1, <2>2 DEF ReaderOK
<1>8. CASE pc[r] \in {"idle", "looked", "listed"}
  <2>1. seen'[r] = seen[r] /\ disturbed'[r] = disturbed[r]
    BY <1>1, <1>2, <1>8, WitnessMeans
  <2> QED
    BY <1>1, <1>3, <1>8, <2>1 DEF ReaderOK
<1> QED
  BY <1>5, <1>6, <1>7, <1>8
LEMMA BelowTheTop ==
    ASSUME NEW n \in Nat, NEW v \in 1..n, NEW k \in 1..v, k # v
    PROVE  k \in 0..(n - 1)
  OBVIOUS

LEMMA SameTable ==
    ASSUME NEW what, UNCHANGED entry
    PROVE  ReachesTheTop(what) /\ KeepsBelow(what)
  BY DEF ReachesTheTop, KeepsBelow

LEMMA CreateFileKeeps ==
    ASSUME ViewInv, NEW p \in Files, CreateFile(p)
    PROVE  ViewInv'
<1>1. TypeOK
  BY DEF ViewInv
<1>2. /\ Witness({}) /\ UNCHANGED <<top, entry, pc, view, path, layer, found>>
      /\ inodeOf' = [inodeOf EXCEPT ![p] = nextInode]
      /\ nextInode \in InodeIds /\ nextInode' = nextInode + 1
  BY DEF CreateFile, reader
<1>3. entry' \in Tables
  BY <1>1, <1>2 DEF TypeOK, Tables
<1>4. /\ seen' \in [Readers -> [Files -> SUBSET States]]
      /\ disturbed' \in [Readers -> SUBSET {"late record", "inode deleted"}]
  BY <1>1, <1>2, <1>3, WitnessTypes
<1>5. inodeOf' \in [Files -> InodeIds \cup {0}] /\ nextInode' \in 1..(MaxInodes + 1)
  <2>1. inodeOf \in [Files -> InodeIds \cup {0}]
    BY <1>1 DEF TypeOK
  <2>2. inodeOf' \in [Files -> InodeIds \cup {0}]
    BY <1>2, <2>1
  <2>3. nextInode \in 1..MaxInodes /\ MaxInodes \in Nat
    BY <1>2, BoundsAssumption DEF InodeIds
  <2>4. nextInode + 1 \in 1..(MaxInodes + 1)
    BY <2>3
  <2> QED
    BY <1>2, <2>2, <2>4
<1>6. TypeOK'
  BY <1>1, <1>2, <1>4, <1>5 DEF TypeOK
<1>7. \A r \in Readers : ReaderOK(r)'
  BY <1>2, SameTable, LayerStep
<1> QED
  BY <1>6, <1>7 DEF ViewInv

LEMMA CheckpointKeeps ==
    ASSUME ViewInv, Checkpoint
    PROVE  ViewInv'
<1>1. TypeOK
  BY DEF ViewInv
<1>2. /\ Witness({}) /\ UNCHANGED <<entry, inodeOf, nextInode, pc, view, path, layer, found>>
      /\ top + 1 \in LayerIds /\ top' = top + 1
  BY DEF Checkpoint, reader
<1>3. entry' \in Tables
  BY <1>1, <1>2 DEF TypeOK, Tables
<1>4. /\ seen' \in [Readers -> [Files -> SUBSET States]]
      /\ disturbed' \in [Readers -> SUBSET {"late record", "inode deleted"}]
  BY <1>1, <1>2, <1>3, WitnessTypes
<1>5. top \in Nat /\ LayerIds \subseteq Nat
  BY <1>1, LayersAreNumbers DEF TypeOK
<1>6. ASSUME NEW l \in LayerIds, NEW p \in Files, l > top' PROVE entry'[l][p] = NoEntry
  <2>1. l > top
    BY <1>2, <1>5, <1>6
  <2> QED
    BY <1>1, <1>2, <2>1 DEF TypeOK
<1>7. ASSUME NEW r \in Readers PROVE layer'[r] <= view'[r] /\ view'[r] <= top'
  <2>1. layer[r] <= view[r] /\ view[r] <= top /\ view[r] \in LayerIds
    BY <1>1 DEF TypeOK
  <2>2. view'[r] = view[r] /\ layer'[r] = layer[r] /\ top' = top + 1
    BY <1>2
  <2>3. view[r] \in Nat /\ top \in Nat
    BY <1>5, <2>1
  <2>4. view[r] <= top + 1
    BY <2>1, <2>3
  <2> QED
    BY <2>1, <2>2, <2>4
<1>8. TypeOK'
  BY <1>1, <1>2, <1>4, <1>6, <1>7 DEF TypeOK
<1>9. \A r \in Readers : ReaderOK(r)'
  BY <1>2, SameTable, LayerStep
<1> QED
  BY <1>8, <1>9 DEF ViewInv

\* A record in the current layer says nothing of the chains below it; one that is
\* late is owned up to.
LEMMA RecordChangeKeeps ==
    ASSUME ViewInv, NEW p \in Files, NEW type \in {"write", "delete"},
           NEW l \in LayerIds, RecordChange(p, type, l)
    PROVE  ViewInv'
<1>1. TypeOK
  BY DEF ViewInv
<1>2. PICK what : what = IF l < top THEN {"late record"} ELSE {}
  OBVIOUS
<1>3. PICK e : e = [type |-> type, inode |-> inodeOf[p]]
  OBVIOUS
<1>4. /\ Witness(what) /\ UNCHANGED <<top, inodeOf, nextInode, pc, view, path, layer, found>>
      /\ entry' = [entry EXCEPT ![l][p] = e] /\ l <= top /\ inodeOf[p] # 0
  BY <1>2, <1>3 DEF RecordChange, reader
<1>5. e \in Entries
  <2>1. inodeOf[p] \in InodeIds
    BY <1>1, <1>4 DEF TypeOK
  <2> QED
    BY <1>3, <2>1 DEF Entries
<1>6. entry \in Tables
  BY <1>1 DEF TypeOK, Tables
<1>7. entry' \in Tables
  BY <1>4, <1>5, <1>6 DEF Tables
<1>8. ASSUME NEW k \in LayerIds, NEW q \in Files, k # l
      PROVE  entry'[k][q] = entry[k][q]
  BY <1>4, <1>6, <1>8 DEF Tables
<1>9. top \in Nat /\ l \in Nat /\ LayerIds \subseteq Nat
  BY <1>1, LayersAreNumbers DEF TypeOK
<1>10. what \in SUBSET {"late record", "inode deleted"}
  BY <1>2
<1>11. /\ seen' \in [Readers -> [Files -> SUBSET States]]
       /\ disturbed' \in [Readers -> SUBSET {"late record", "inode deleted"}]
  <2>1. UNCHANGED view
    BY <1>4
  <2> QED
    BY <1>1, <1>4, <1>7, <1>10, <2>1, WitnessTypes
<1>12. ASSUME NEW k \in LayerIds, NEW q \in Files, k > top' PROVE entry'[k][q] = NoEntry
  <2>1. k > top /\ k # l
    BY <1>4, <1>9, <1>12
  <2> QED
    BY <1>1, <1>8, <2>1 DEF TypeOK
<1>13. TypeOK'
  <2>1. entry' \in [LayerIds -> [Files -> Entries \cup {NoEntry}]]
    BY <1>7 DEF Tables
  <2> QED
    BY <1>1, <1>4, <1>11, <1>12, <2>1 DEF TypeOK
<1>14. ASSUME what = {} PROVE l = top
  <2>1. ~(l < top)
    BY <1>2, <1>14
  <2> QED
    BY <1>4, <1>9, <2>1
<1>15. ASSUME what = {}, NEW k \in 0..(top - 1), NEW q \in Files
       PROVE  TruthIn(entry', k, q) = TruthIn(entry, k, q)
  <2>1. k \in Nat
    BY <1>9
  <2>2. ASSUME NEW j \in 1..k PROVE entry'[j][q] = entry[j][q]
    <3>1. j \in 1..top /\ j # l
      BY <1>9, <1>14, <1>15
    <3>2. j \in LayerIds
      BY <1>1, <3>1, LayersAreNumbers DEF TypeOK
    <3> QED
      BY <1>8, <3>1, <3>2
  <2> QED
    BY <2>1, <2>2, TruthKept
<1>16. KeepsBelow(what)
  BY <1>15 DEF KeepsBelow
<1>17. ReachesTheTop(what)
  <2> SUFFICES ASSUME "late record" \notin what, NEW v \in 1..top, NEW k \in 1..v, NEW q \in Files
               PROVE  \/ TruthIn(entry', k, q) = TruthIn(entry, k, q)
                      \/ TruthIn(entry', k, q) = TruthIn(entry', v, q)
    BY DEF ReachesTheTop
  <2>1. what = {}
    BY <1>2
  <2>2. CASE k = v
    BY <2>2
  <2>3. CASE k # v
    <3>1. k \in 0..(top - 1)
      <4>1. top \in Nat
        BY <1>9
      <4> QED
        BY <2>3, <4>1, BelowTheTop
    <3> QED
      BY <1>15, <2>1, <3>1
  <2> QED
    BY <2>2, <2>3
<1>18. \A r \in Readers : ReaderOK(r)'
  BY <1>4, <1>16, <1>17, LayerStep
<1> QED
  BY <1>13, <1>18 DEF ViewInv

\* Without its entries a file is not found from any layer.
LEMMA DeleteFileKeeps ==
    ASSUME ViewInv, NEW p \in Files, DeleteFile(p)
    PROVE  ViewInv'
<1>1. TypeOK
  BY DEF ViewInv
<1>2. PICK what : what = {"inode deleted"}
  OBVIOUS
<1>3. /\ Witness(what) /\ UNCHANGED <<top, nextInode, pc, view, path, layer, found>>
      /\ inodeOf' = [inodeOf EXCEPT ![p] = 0]
      /\ entry' = [l \in LayerIds |-> [entry[l] EXCEPT ![p] = NoEntry]]
  BY <1>2 DEF DeleteFile, reader
<1>4. entry \in Tables
  BY <1>1 DEF TypeOK, Tables
<1>5. entry' \in Tables
  BY <1>3, <1>4 DEF Tables
<1>6. \A k \in LayerIds : \A q \in Files :
          entry'[k][q] = IF q = p THEN NoEntry ELSE entry[k][q]
  BY <1>3, <1>4 DEF Tables
<1>7. what \in SUBSET {"late record", "inode deleted"}
  BY <1>2
<1>8. /\ seen' \in [Readers -> [Files -> SUBSET States]]
      /\ disturbed' \in [Readers -> SUBSET {"late record", "inode deleted"}]
  <2>1. UNCHANGED view
    BY <1>3
  <2> QED
    BY <1>1, <1>3, <1>5, <1>7, <2>1, WitnessTypes
<1>9. inodeOf' \in [Files -> InodeIds \cup {0}]
  BY <1>1, <1>3 DEF TypeOK
<1>10. TypeOK'
  <2>1. entry' \in [LayerIds -> [Files -> Entries \cup {NoEntry}]]
    BY <1>5 DEF Tables
  <2>2. \A k \in LayerIds, q \in Files : k > top' => entry'[k][q] = NoEntry
    <3>1. \A k \in LayerIds, q \in Files : k > top => entry[k][q] = NoEntry
      BY <1>1 DEF TypeOK
    <3>2. top' = top
      BY <1>3
    <3> QED
      BY <1>6, <3>1, <3>2, Zenon
  <2> QED
    BY <1>1, <1>3, <1>8, <1>9, <2>1, <2>2 DEF TypeOK
<1>11. ASSUME NEW k \in 1..top, NEW q \in Files
       PROVE  TruthIn(entry', k, q) = IF q = p THEN NotFound ELSE TruthIn(entry, k, q)
  <2>1. k \in Nat /\ 1..k \subseteq LayerIds
    BY <1>1, LayersAreNumbers DEF TypeOK
  <2>2. CASE q = p
    <3>1. \A j \in 1..k : entry'[j][q].type = "none"
      BY <1>6, <2>1, <2>2 DEF NoEntry
    <3>2. Said(entry', k, q) = {}
      BY <3>1 DEF Said
    <3> QED
      BY <2>2, <3>2 DEF TruthIn
  <2>3. CASE q # p
    <3>1. \A j \in 1..k : entry'[j][q] = entry[j][q]
      BY <1>6, <2>1, <2>3
    <3> QED
      BY <2>1, <2>3, <3>1, TruthKept
  <2> QED
    BY <2>2, <2>3
<1>12. KeepsBelow(what)
  BY <1>2 DEF KeepsBelow
<1>13. ReachesTheTop(what)
  <2> SUFFICES ASSUME NEW v \in 1..top, NEW k \in 1..v, NEW q \in Files
               PROVE  \/ TruthIn(entry', k, q) = TruthIn(entry, k, q)
                      \/ TruthIn(entry', k, q) = TruthIn(entry', v, q)
    BY DEF ReachesTheTop
  <2>1. top \in Nat
    BY <1>1, LayersAreNumbers DEF TypeOK
  <2>2. k \in 1..top
    BY <2>1
  <2> QED
    BY <1>11, <2>2
<1>14. \A r \in Readers : ReaderOK(r)'
  BY <1>3, <1>12, <1>13, LayerStep
<1> QED
  BY <1>10, <1>14 DEF ViewInv
-----------------------------------------------------------------------------
(* A step of a reader                                                      *)

\* A reader that has nothing to do with the step is as it was.
LEMMA OtherReader ==
    ASSUME NEW q \in Readers, ReaderOK(q), UNCHANGED entry,
           pc'[q] = pc[q], view'[q] = view[q], path'[q] = path[q],
           layer'[q] = layer[q], found'[q] = found[q], seen'[q] = seen[q],
           disturbed'[q] = disturbed[q]
    PROVE  ReaderOK(q)'
  BY DEF ReaderOK

LEMMA FromLayerKeeps ==
    ASSUME ViewInv, NEW r \in Readers, NEW l \in 1..top, FromLayer(r, l)
    PROVE  ViewInv'
<1>1. TypeOK
  BY DEF ViewInv
<1>2. /\ UNCHANGED <<top, entry, inodeOf, nextInode, pc, path, layer, found, seen, disturbed>>
      /\ pc[r] = "idle" /\ view' = [view EXCEPT ![r] = l]
  BY DEF FromLayer, data
<1>3. l \in LayerIds /\ l \in Nat /\ 1 <= l /\ l <= top
  <2>1. top \in LayerIds
    BY <1>1 DEF TypeOK
  <2> QED
    BY <2>1, LayersAreNumbers
<1>4. ASSUME NEW q \in Readers
      PROVE  ReaderOK(q)' /\ layer'[q] <= view'[q] /\ view'[q] <= top'
  <2>1. ReaderOK(q) /\ layer[q] <= view[q] /\ view[q] <= top
    BY <1>1 DEF ViewInv, TypeOK
  <2>2. CASE q = r
    <3>1. view'[q] = l /\ layer'[q] = 1
      BY <1>1, <1>2, <2>1, <2>2 DEF TypeOK, ReaderOK
    <3>2. ReaderOK(q)'
      BY <1>2, <2>2, <3>1 DEF ReaderOK
    <3> QED
      BY <1>2, <1>3, <3>1, <3>2
  <2>3. CASE q # r
    <3>1. view'[q] = view[q]
      BY <1>1, <1>2, <2>3 DEF TypeOK
    <3>2. ReaderOK(q)'
      BY <1>2, <2>1, <3>1, OtherReader
    <3> QED
      BY <1>2, <2>1, <3>1, <3>2
  <2> QED
    BY <2>2, <2>3
<1>5. view' \in [Readers -> LayerIds]
  BY <1>1, <1>2, <1>3 DEF TypeOK
<1>6. TypeOK'
  BY <1>1, <1>2, <1>4, <1>5 DEF TypeOK
<1> QED
  BY <1>4, <1>6 DEF ViewInv

\* A request starts with what is true now, at the top of the chain or at its base.
LEMMA StartKeeps ==
    ASSUME ViewInv, NEW r \in Readers, NEW label \in {"lookup", "list"}, NEW p \in Files,
           NEW first, Start(r, label, p, first),
           \/ label = "lookup" /\ first = view[r]
           \/ label = "list" /\ first = 1
    PROVE  ViewInv'
<1>1. TypeOK /\ entry \in Tables
  BY DEF ViewInv, TypeOK, Tables
<1>2. /\ UNCHANGED <<top, entry, inodeOf, nextInode, view, disturbed>>
      /\ pc' = [pc EXCEPT ![r] = label]
      /\ path' = [path EXCEPT ![r] = p]
      /\ layer' = [layer EXCEPT ![r] = first]
      /\ found' = [found EXCEPT ![r] = [q \in Files |-> NotFound]]
  BY DEF Start, data
<1>3. seen' = [seen EXCEPT ![r] = [q \in Files |-> {TruthIn(entry, view[r], q)}]]
  <2>1. ASSUME NEW q \in Files PROVE Truth(view[r], q) = TruthIn(entry, view[r], q)
    BY Zenon DEF Truth, TruthIn, Said
  <2>2. [q \in Files |-> {Truth(view[r], q)}] = [q \in Files |-> {TruthIn(entry, view[r], q)}]
    BY <2>1
  <2>3. seen' = [seen EXCEPT ![r] = [q \in Files |-> {Truth(view[r], q)}]]
    BY DEF Start
  <2> QED
    BY <2>2, <2>3
<1>4. /\ view[r] \in LayerIds /\ view[r] <= top /\ top \in LayerIds /\ LayerIds \subseteq Nat \ {0}
      /\ 1 \in LayerIds
  BY <1>1, LayersAreNumbers DEF TypeOK
<1>5. first \in LayerIds /\ first <= view[r]
  <2>1. PICK n \in LayerIds : n = view[r]
    BY <1>4
  <2>2. 1 <= n /\ n <= n
    BY ONLY <1>4, <2>1, LayersAreNumbers
  <2> QED
    BY <1>4, <2>1, <2>2, Zenon
<1>6. NotFound \in States
  BY DEF NotFound, States
<1>7. ASSUME NEW q \in Files PROVE TruthIn(entry, view[r], q) \in States /\ TruthIn(entry, 0, q) = NotFound
  BY <1>1, <1>4, TruthType
<1>8. ASSUME NEW q \in Readers
      PROVE  ReaderOK(q)' /\ layer'[q] <= view'[q] /\ view'[q] <= top'
  <2>1. ReaderOK(q) /\ layer[q] <= view[q] /\ view[q] <= top
    BY <1>1 DEF ViewInv, TypeOK
  <2>2. CASE q = r
    <3>1. pc'[r] = label /\ path'[r] = p /\ layer'[r] = first /\ view'[r] = view[r]
      BY <1>1, <1>2 DEF TypeOK
    <3>2. \A g \in Files : seen'[r][g] = {TruthIn(entry, view[r], g)}
      BY <1>1, <1>3 DEF TypeOK
    <3>3. \A g \in Files : found'[r][g] = NotFound
      BY <1>1, <1>2 DEF TypeOK
    <3>4. \A g \in Files : TruthIn(entry', view'[r], g) \in seen'[r][g]
      BY <1>2, <3>1, <3>2
    <3>5. label = "lookup" => TruthIn(entry', layer'[r], path'[r]) \in seen'[r][path'[r]]
      BY <1>2, <3>1, <3>4
    <3>6. ASSUME label = "list", NEW g \in Files
          PROVE  found'[r][g] = Shown(TruthIn(entry', layer'[r] - 1, g))
      <4>1. layer'[r] - 1 = 0
        BY <3>1, <3>6
      <4>2. Shown(NotFound) = NotFound
        BY DEF Shown, NotFound
      <4> QED
        BY <1>2, <1>7, <3>3, <4>1, <4>2
    <3>7. ReaderOK(q)'
      BY <2>2, <3>1, <3>4, <3>5, <3>6 DEF ReaderOK
    <3> QED
      BY <1>2, <1>4, <1>5, <2>2, <3>1, <3>7
  <2>3. CASE q # r
    <3>1. /\ pc'[q] = pc[q] /\ view'[q] = view[q] /\ path'[q] = path[q]
          /\ layer'[q] = layer[q] /\ found'[q] = found[q] /\ seen'[q] = seen[q]
          /\ disturbed'[q] = disturbed[q]
      BY <1>1, <1>2, <1>3, <2>3 DEF TypeOK
    <3>2. ReaderOK(q)'
      BY <1>2, <2>1, <3>1, OtherReader
    <3> QED
      BY <1>2, <2>1, <3>1, <3>2
  <2> QED
    BY <2>2, <2>3
<1>9. pc' \in [Readers -> {"idle", "lookup", "list", "looked", "listed"}]
  BY <1>1, <1>2 DEF TypeOK
<1>10. path' \in [Readers -> Files] /\ layer' \in [Readers -> LayerIds]
  BY <1>1, <1>2, <1>5 DEF TypeOK
<1>11. found' \in [Readers -> [Files -> States]]
  BY <1>1, <1>2, <1>6 DEF TypeOK
<1>12. seen' \in [Readers -> [Files -> SUBSET States]]
  <2>1. [q \in Files |-> {TruthIn(entry, view[r], q)}] \in [Files -> SUBSET States]
    BY <1>7
  <2>2. seen \in [Readers -> [Files -> SUBSET States]]
    BY <1>1 DEF TypeOK
  <2> QED
    BY <1>3, <2>1, <2>2
<1>13. TypeOK'
  BY <1>1, <1>2, <1>8, <1>9, <1>10, <1>11, <1>12 DEF TypeOK
<1> QED
  BY <1>8, <1>13 DEF ViewInv

LEMMA AnswerKeeps ==
    ASSUME ViewInv, NEW r \in Readers, Answer(r)
    PROVE  ViewInv'
<1>1. TypeOK
  BY DEF ViewInv
<1>2. /\ UNCHANGED <<top, entry, inodeOf, nextInode, view, path>>
      /\ pc' = [pc EXCEPT ![r] = "idle"]
      /\ layer' = [layer EXCEPT ![r] = 1]
      /\ found' = [found EXCEPT ![r] = [p \in Files |-> NotFound]]
      /\ seen' = [seen EXCEPT ![r] = [p \in Files |-> {}]]
      /\ disturbed' = [disturbed EXCEPT ![r] = {}]
  BY DEF Answer, data
<1>3. NotFound \in States
  BY DEF NotFound, States
<1>4. ASSUME NEW q \in Readers
      PROVE  ReaderOK(q)' /\ layer'[q] <= view'[q] /\ view'[q] <= top'
  <2>1. ReaderOK(q) /\ layer[q] <= view[q] /\ view[q] <= top /\ view[q] \in LayerIds
    BY <1>1 DEF ViewInv, TypeOK
  <2>2. CASE q = r
    <3>1. pc'[q] = "idle" /\ layer'[q] = 1 /\ view'[q] = view[q]
      BY <1>1, <1>2, <2>2 DEF TypeOK
    <3>2. ReaderOK(q)'
      BY <3>1 DEF ReaderOK
    <3>3. 1 <= view[q]
      <4>1. view[q] \in Nat \ {0}
        BY <2>1, LayersAreNumbers
      <4> QED
        BY <4>1
    <3> QED
      BY <1>2, <2>1, <3>1, <3>2, <3>3
  <2>3. CASE q # r
    <3>1. /\ pc'[q] = pc[q] /\ view'[q] = view[q] /\ path'[q] = path[q]
          /\ layer'[q] = layer[q] /\ found'[q] = found[q] /\ seen'[q] = seen[q]
          /\ disturbed'[q] = disturbed[q]
      BY <1>1, <1>2, <2>3 DEF TypeOK
    <3>2. ReaderOK(q)'
      BY <1>2, <2>1, <3>1, OtherReader
    <3> QED
      BY <1>2, <2>1, <3>1, <3>2
  <2> QED
    BY <2>2, <2>3
<1>5. /\ pc' \in [Readers -> {"idle", "lookup", "list", "looked", "listed"}]
      /\ layer' \in [Readers -> LayerIds]
  BY <1>1, <1>2, LayersAreNumbers DEF TypeOK
<1>6. found' \in [Readers -> [Files -> States]]
  BY <1>1, <1>2, <1>3 DEF TypeOK
<1>7. seen' \in [Readers -> [Files -> SUBSET States]]
  <2>1. [p \in Files |-> {}] \in [Files -> SUBSET States]
    OBVIOUS
  <2>2. seen \in [Readers -> [Files -> SUBSET States]]
    BY <1>1 DEF TypeOK
  <2> QED
    BY <1>2, <2>1, <2>2
<1>8. disturbed' \in [Readers -> SUBSET {"late record", "inode deleted"}]
  BY <1>1, <1>2 DEF TypeOK
<1>9. TypeOK'
  BY <1>1, <1>2, <1>4, <1>5, <1>6, <1>7, <1>8 DEF TypeOK
<1> QED
  BY <1>4, <1>9 DEF ViewInv
\* Down a layer: without a word of this one, the rest of the chain says the same.
LEMMA LookupStepKeeps ==
    ASSUME ViewInv, NEW r \in Readers, LookupStep(r)
    PROVE  ViewInv'
<1>1. TypeOK /\ entry \in Tables
  BY DEF ViewInv, TypeOK, Tables
<1>2. PICK n : n = layer[r]
  OBVIOUS
<1>3. PICK f : f = path[r]
  OBVIOUS
<1>4. PICK e : e = entry[n][f]
  OBVIOUS
<1>5. /\ UNCHANGED <<top, entry, inodeOf, nextInode, view, path, seen, disturbed>>
      /\ pc[r] = "lookup"
      /\ found' = [found EXCEPT ![r][f] = StateOf(n, e)]
      /\ pc' = [pc EXCEPT ![r] = IF e.type # "none" \/ n = 1 THEN "looked" ELSE "lookup"]
      /\ layer' = [layer EXCEPT ![r] = IF n = 1 THEN 1 ELSE n - 1]
  BY <1>1, <1>2, <1>3, <1>4 DEF LookupStep, data, TypeOK
<1>6. n \in LayerIds /\ f \in Files /\ n <= view[r] /\ view[r] \in LayerIds
  BY <1>1, <1>2, <1>3 DEF TypeOK
<1>7. n \in Nat \ {0} /\ view[r] \in Nat
  BY <1>6, LayersAreNumbers
<1>8. e \in Entries \cup {NoEntry}
  BY <1>1, <1>4, <1>6 DEF Tables
<1>9. /\ StateOf(n, e) \in States
      /\ e.type = "none" => StateOf(n, e) = NotFound
  BY <1>6, <1>8, EntryMeans
<1>10. TruthIn(entry, n, f) = IF e.type = "none" THEN TruthIn(entry, n - 1, f) ELSE StateOf(n, e)
  BY <1>1, <1>4, <1>6, TruthStep
<1>11. TruthIn(entry, 0, f) = NotFound
  BY <1>1, <1>6, TruthType
<1>12. (n = 1 \/ e.type # "none") => TruthIn(entry, n, f) = StateOf(n, e)
  <2>1. CASE e.type # "none"
    BY <1>10, <2>1
  <2>2. CASE e.type = "none" /\ n = 1
    <3>1. n - 1 = 0
      BY <2>2
    <3>2. TruthIn(entry, n, f) = TruthIn(entry, 0, f)
      BY <1>10, <2>2, <3>1
    <3> QED
      BY <1>9, <1>11, <2>2, <3>2
  <2> QED
    BY <2>1, <2>2
<1>13. PICK m : m = IF n = 1 THEN 1 ELSE n - 1
  OBVIOUS
<1>14. m \in LayerIds /\ m <= view[r]
  <2>1. m \in 1..n /\ m \in Nat /\ m <= n
    BY <1>7, <1>13
  <2>2. m \in LayerIds
    BY <1>6, <2>1, LayersAreNumbers
  <2> QED
    BY <1>6, <1>7, <2>1, <2>2
<1>15. ASSUME NEW q \in Readers
       PROVE  ReaderOK(q)' /\ layer'[q] <= view'[q] /\ view'[q] <= top'
  <2>1. ReaderOK(q) /\ layer[q] <= view[q] /\ view[q] <= top
    BY <1>1 DEF ViewInv, TypeOK
  <2>2. CASE q = r
    <3>1. /\ pc'[r] = IF e.type # "none" \/ n = 1 THEN "looked" ELSE "lookup"
          /\ layer'[r] = m /\ view'[r] = view[r] /\ path'[r] = f
          /\ seen'[r] = seen[r] /\ disturbed'[r] = disturbed[r]
      BY <1>1, <1>3, <1>5, <1>13 DEF TypeOK
    <3>2. found'[r][f] = StateOf(n, e)
      BY <1>1, <1>5, <1>6 DEF TypeOK
    <3>3. \A g \in Files : TruthIn(entry', view'[r], g) \in seen'[r][g]
      BY <1>5, <2>1, <2>2, <3>1 DEF ReaderOK
    <3>4. "late record" \notin disturbed[r] => TruthIn(entry, n, f) \in seen[r][f]
      BY <1>2, <1>3, <1>5, <2>1, <2>2 DEF ReaderOK
    <3>5. CASE e.type # "none" \/ n = 1
      <4>1. pc'[r] = "looked"
        BY <3>1, <3>5
      <4>2. "late record" \notin disturbed'[r] => found'[r][path'[r]] \in seen'[r][path'[r]]
        BY <1>12, <3>1, <3>2, <3>4, <3>5
      <4> QED
        BY <1>5, <1>14, <2>1, <2>2, <3>1, <4>1, <4>2 DEF ReaderOK
    <3>6. CASE e.type = "none" /\ n # 1
      <4>1. pc'[r] = "lookup" /\ m = n - 1
        BY <1>13, <3>1, <3>6
      <4>2. "late record" \notin disturbed'[r] =>
                TruthIn(entry', layer'[r], path'[r]) \in seen'[r][path'[r]]
        BY <1>5, <1>10, <3>1, <3>4, <3>6, <4>1
      <4> QED
        BY <1>5, <1>14, <2>1, <2>2, <3>1, <3>3, <4>1, <4>2 DEF ReaderOK
    <3> QED
      BY <3>5, <3>6
  <2>3. CASE q # r
    <3>1. /\ pc'[q] = pc[q] /\ view'[q] = view[q] /\ path'[q] = path[q]
          /\ layer'[q] = layer[q] /\ found'[q] = found[q] /\ seen'[q] = seen[q]
          /\ disturbed'[q] = disturbed[q]
      BY <1>1, <1>5, <2>3 DEF TypeOK
    <3>2. ReaderOK(q)'
      BY <1>5, <2>1, <3>1, OtherReader
    <3> QED
      BY <1>5, <2>1, <3>1, <3>2
  <2> QED
    BY <2>2, <2>3
<1>16. pc' \in [Readers -> {"idle", "lookup", "list", "looked", "listed"}]
  BY <1>1, <1>5 DEF TypeOK
<1>17. layer' \in [Readers -> LayerIds]
  BY <1>1, <1>5, <1>13, <1>14 DEF TypeOK
<1>18. found' \in [Readers -> [Files -> States]]
  <2>1. found \in [Readers -> [Files -> States]]
    BY <1>1 DEF TypeOK
  <2> QED
    BY <1>5, <1>9, <2>1
<1>19. TypeOK'
  BY <1>1, <1>5, <1>15, <1>16, <1>17, <1>18 DEF TypeOK
<1> QED
  BY <1>15, <1>19 DEF ViewInv

\* What a listing makes of the word of one more layer is what the chain up to it says.
LEMMA MergeMeans ==
    ASSUME TypeOK, NEW r \in Readers, NEW p \in Files
    PROVE  /\ Merge(r, p) \in States
           /\ found[r][p] = Shown(TruthIn(entry, layer[r] - 1, p)) =>
                  Merge(r, p) = Shown(TruthIn(entry, layer[r], p))
<1>1. PICK n : n = layer[r]
  OBVIOUS
<1>2. PICK e : e = entry[n][p]
  OBVIOUS
<1>3. n \in LayerIds /\ entry \in Tables /\ found[r][p] \in States
  BY <1>1 DEF TypeOK, Tables
<1>4. e \in Entries \cup {NoEntry}
  BY <1>2, <1>3 DEF Tables
<1>5. /\ e.type \in {"none", "write", "delete"}
      /\ e.type = "write" =>
            StateOf(n, e) = [state |-> "exists", layer |-> n, inode |-> e.inode]
      /\ e.type = "delete" =>
            StateOf(n, e) = [state |-> "deleted", layer |-> n, inode |-> 0]
      /\ StateOf(n, e) \in States
  BY <1>3, <1>4, EntryMeans
<1>6. TruthIn(entry, n, p) = IF e.type = "none" THEN TruthIn(entry, n - 1, p) ELSE StateOf(n, e)
  BY <1>2, <1>3, TruthStep
<1>7. CASE e.type = "none"
  <2>1. Merge(r, p) = found[r][p]
    BY <1>1, <1>2, <1>7 DEF Merge
  <2> QED
    BY <1>1, <1>3, <1>6, <1>7, <2>1
<1>8. CASE e.type = "write"
  <2>1. Merge(r, p) = StateOf(n, e)
    BY <1>1, <1>2, <1>8 DEF Merge
  <2>2. Shown(StateOf(n, e)) = StateOf(n, e)
    BY <1>5, <1>8 DEF Shown
  <2> QED
    BY <1>1, <1>5, <1>6, <1>8, <2>1, <2>2
<1>9. CASE e.type = "delete"
  <2>1. Merge(r, p) = NotFound
    BY <1>1, <1>2, <1>9 DEF Merge
  <2>2. Shown(StateOf(n, e)) = NotFound
    BY <1>5, <1>9 DEF Shown
  <2>3. NotFound \in States
    BY DEF NotFound, States
  <2> QED
    BY <1>1, <1>6, <1>9, <2>1, <2>2, <2>3
<1> QED
  BY <1>5, <1>7, <1>8, <1>9

LEMMA ListStepKeeps ==
    ASSUME ViewInv, NEW r \in Readers, ListStep(r)
    PROVE  ViewInv'
<1>1. TypeOK /\ entry \in Tables
  BY DEF ViewInv, TypeOK, Tables
<1>2. PICK n : n = layer[r]
  OBVIOUS
<1>3. PICK v : v = view[r]
  OBVIOUS
<1>4. PICK m : m = IF n = v THEN n ELSE n + 1
  OBVIOUS
<1>5. /\ UNCHANGED <<top, entry, inodeOf, nextInode, view, path, seen, disturbed>>
      /\ pc[r] = "list"
      /\ found' = [found EXCEPT ![r] = [p \in Files |-> Merge(r, p)]]
      /\ pc' = [pc EXCEPT ![r] = IF n = v THEN "listed" ELSE "list"]
      /\ layer' = [layer EXCEPT ![r] = m]
  BY <1>1, <1>2, <1>3, <1>4 DEF ListStep, data, TypeOK
<1>6. n \in LayerIds /\ v \in LayerIds /\ n <= v
  BY <1>1, <1>2, <1>3 DEF TypeOK
<1>7. m \in LayerIds /\ m <= v
  <2>1. n \in Nat \ {0} /\ v \in Nat
    BY <1>6, LayersAreNumbers
  <2>2. m \in 1..v
    BY <1>4, <1>6, <2>1
  <2> QED
    BY <1>6, <2>1, <2>2, LayersAreNumbers
<1>8. ASSUME NEW p \in Files
      PROVE  /\ Merge(r, p) \in States
             /\ disturbed[r] = {} => Merge(r, p) = Shown(TruthIn(entry, n, p))
  <2>1. /\ Merge(r, p) \in States
        /\ found[r][p] = Shown(TruthIn(entry, n - 1, p)) =>
               Merge(r, p) = Shown(TruthIn(entry, n, p))
    BY <1>1, <1>2, MergeMeans
  <2>2. disturbed[r] = {} => found[r][p] = Shown(TruthIn(entry, n - 1, p))
    BY <1>2, <1>5 DEF ViewInv, ReaderOK
  <2> QED
    BY <2>1, <2>2
<1>9. ASSUME NEW q \in Readers
      PROVE  ReaderOK(q)' /\ layer'[q] <= view'[q] /\ view'[q] <= top'
  <2>1. ReaderOK(q) /\ layer[q] <= view[q] /\ view[q] <= top
    BY <1>1 DEF ViewInv, TypeOK
  <2>2. CASE q = r
    <3>1. /\ pc'[r] = IF n = v THEN "listed" ELSE "list"
          /\ layer'[r] = m /\ view'[r] = v
          /\ seen'[r] = seen[r] /\ disturbed'[r] = disturbed[r]
      BY <1>1, <1>3, <1>5 DEF TypeOK
    <3>2. \A p \in Files : found'[r][p] = Merge(r, p)
      BY <1>1, <1>5 DEF TypeOK
    <3>3. \A p \in Files : TruthIn(entry, v, p) \in seen[r][p]
      BY <1>3, <1>5, <2>1, <2>2 DEF ReaderOK
    <3>4. CASE n = v
      <4>1. ASSUME disturbed'[r] = {}, NEW p \in Files
            PROVE  \E s \in seen'[r][p] : found'[r][p] = Shown(s)
        BY <1>8, <3>1, <3>2, <3>3, <3>4, <4>1
      <4>2. pc'[r] = "listed"
        BY <3>1, <3>4
      <4>3. ReaderOK(q)'
        BY <2>2, <4>1, <4>2 DEF ReaderOK
      <4> QED
        BY <1>3, <1>5, <1>7, <2>1, <2>2, <3>1, <4>3
    <3>5. CASE n # v
      <4>1. m = n + 1 /\ pc'[r] = "list"
        BY <1>4, <3>1, <3>5
      <4>2. m - 1 = n
        BY <1>6, <4>1, LayersAreNumbers
      <4>3. ASSUME disturbed'[r] = {}, NEW p \in Files
            PROVE  found'[r][p] = Shown(TruthIn(entry', layer'[r] - 1, p))
        BY <1>5, <1>8, <3>1, <3>2, <4>2, <4>3
      <4>4. \A p \in Files : TruthIn(entry', view'[r], p) \in seen'[r][p]
        BY <1>5, <3>1, <3>3
      <4>5. ReaderOK(q)'
        BY <2>2, <4>1, <4>3, <4>4 DEF ReaderOK
      <4> QED
        BY <1>3, <1>5, <1>7, <2>1, <2>2, <3>1, <4>5
    <3> QED
      BY <3>4, <3>5
  <2>3. CASE q # r
    <3>1. /\ pc'[q] = pc[q] /\ view'[q] = view[q] /\ path'[q] = path[q]
          /\ layer'[q] = layer[q] /\ found'[q] = found[q] /\ seen'[q] = seen[q]
          /\ disturbed'[q] = disturbed[q]
      BY <1>1, <1>5, <2>3 DEF TypeOK
    <3>2. ReaderOK(q)'
      BY <1>5, <2>1, <3>1, OtherReader
    <3> QED
      BY <1>5, <2>1, <3>1, <3>2
  <2> QED
    BY <2>2, <2>3
<1>10. /\ pc' \in [Readers -> {"idle", "lookup", "list", "looked", "listed"}]
       /\ layer' \in [Readers -> LayerIds]
  BY <1>1, <1>5, <1>7 DEF TypeOK
<1>11. found' \in [Readers -> [Files -> States]]
  <2>1. [p \in Files |-> Merge(r, p)] \in [Files -> States]
    BY <1>8
  <2>2. found \in [Readers -> [Files -> States]]
    BY <1>1 DEF TypeOK
  <2> QED
    BY <1>5, <2>1, <2>2
<1>12. TypeOK'
  BY <1>1, <1>5, <1>9, <1>10, <1>11 DEF TypeOK
<1> QED
  BY <1>9, <1>12 DEF ViewInv

-----------------------------------------------------------------------------
(* The theorems                                                            *)

LEMMA InitEstablishesInv == Init => ViewInv
<1> SUFFICES ASSUME Init PROVE ViewInv
  OBVIOUS
<1>1. 1 \in LayerIds /\ 1 \in 1..(MaxInodes + 1)
  BY LayersAreNumbers, BoundsAssumption
<1>2. NotFound \in States
  BY DEF NotFound, States
<1>3. /\ top \in LayerIds
      /\ entry \in [LayerIds -> [Files -> Entries \cup {NoEntry}]]
      /\ \A l \in LayerIds, p \in Files : l > top => entry[l][p] = NoEntry
  BY <1>1 DEF Init
<1>4. /\ inodeOf \in [Files -> InodeIds \cup {0}]
      /\ nextInode \in 1..(MaxInodes + 1)
      /\ pc \in [Readers -> {"idle", "lookup", "list", "looked", "listed"}]
  BY <1>1 DEF Init
<1>5. /\ view \in [Readers -> LayerIds]
      /\ path \in [Readers -> Files]
      /\ layer \in [Readers -> LayerIds]
      /\ \A r \in Readers : layer[r] <= view[r] /\ view[r] <= top
  BY <1>1 DEF Init
<1>6. /\ found \in [Readers -> [Files -> States]]
      /\ seen \in [Readers -> [Files -> SUBSET States]]
      /\ disturbed \in [Readers -> SUBSET {"late record", "inode deleted"}]
  BY <1>2 DEF Init
<1>7. TypeOK
  BY <1>3, <1>4, <1>5, <1>6 DEF TypeOK
<1>8. ASSUME NEW r \in Readers PROVE ReaderOK(r)
  <2>1. pc[r] = "idle" /\ layer[r] = 1
    BY DEF Init
  <2> QED
    BY <2>1 DEF ReaderOK
<1> QED
  BY <1>7, <1>8 DEF ViewInv

LEMMA NextKeepsInv == ViewInv /\ [Next]_vars => ViewInv'
<1> SUFFICES ASSUME ViewInv, [Next]_vars PROVE ViewInv'
  OBVIOUS
<1>1. ASSUME NEW p \in Files, CreateFile(p) PROVE ViewInv'
  BY <1>1, CreateFileKeeps
<1>2. ASSUME NEW p \in Files, NEW type \in {"write", "delete"}, NEW l \in LayerIds,
             RecordChange(p, type, l)
      PROVE  ViewInv'
  BY <1>2, RecordChangeKeeps
<1>3. ASSUME NEW p \in Files, DeleteFile(p) PROVE ViewInv'
  BY <1>3, DeleteFileKeeps
<1>4. CASE Checkpoint
  BY <1>4, CheckpointKeeps
<1>5. TypeOK /\ top \in Nat \ {0}
  BY LayersAreNumbers DEF ViewInv, TypeOK
<1>6. ASSUME NEW r \in Readers, FromCurrent(r) PROVE ViewInv'
  <2>1. top \in 1..top
    BY <1>5
  <2> QED
    BY <1>6, <2>1, FromLayerKeeps DEF FromCurrent
<1>7. ASSUME NEW r \in Readers, NEW l \in 1..(top - 1), FromLayer(r, l) PROVE ViewInv'
  <2>1. l \in 1..top
    BY <1>5
  <2> QED
    BY <1>7, <2>1, FromLayerKeeps
<1>8. ASSUME NEW r \in Readers, NEW p \in Files, LookupFile(r, p) PROVE ViewInv'
  <2>1. PICK first : first = view[r]
    OBVIOUS
  <2>2. PICK label \in {"lookup", "list"} : label = "lookup"
    OBVIOUS
  <2>3. Start(r, label, p, first)
    BY <1>8, <2>1, <2>2 DEF LookupFile
  <2> QED
    BY <2>1, <2>2, <2>3, StartKeeps
<1>9. ASSUME NEW r \in Readers, ListDirectory(r) PROVE ViewInv'
  <2>1. PICK p \in Files : p = path[r]
    BY <1>5 DEF TypeOK
  <2>2. PICK label \in {"lookup", "list"} : label = "list"
    OBVIOUS
  <2>3. PICK first : first = 1
    OBVIOUS
  <2>4. Start(r, label, p, first)
    BY <1>9, <2>1, <2>2, <2>3 DEF ListDirectory
  <2> QED
    BY <2>2, <2>3, <2>4, StartKeeps
<1>10. ASSUME NEW r \in Readers, LookupStep(r) \/ ListStep(r) \/ Answer(r) PROVE ViewInv'
  BY <1>10, LookupStepKeeps, ListStepKeeps, AnswerKeeps
<1>11. CASE UNCHANGED vars
  <2>1. UNCHANGED <<top, entry, inodeOf, nextInode, pc, view, path, layer, found, seen, disturbed>>
    BY <1>11 DEF vars
  <2>2. TypeOK'
    BY <1>5, <2>1 DEF TypeOK
  <2>3. ASSUME NEW r \in Readers PROVE ReaderOK(r)'
    BY <2>1 DEF ViewInv, ReaderOK
  <2> QED
    BY <2>2, <2>3 DEF ViewInv
<1> QED
  BY <1>1, <1>2, <1>3, <1>4, <1>6, <1>7, <1>8, <1>9, <1>10, <1>11 DEF Next

LEMMA ViewInvariant == Spec => []ViewInv
  BY InitEstablishesInv, NextKeepsInv, PTL DEF Spec

\* Tables and locals keep their types, no layer above the current one has an
\* entry, and a request stays within the chain of its view.
THEOREM ViewTypeCorrect == Spec => []TypeOK
<1>1. ViewInv => TypeOK
  BY DEF ViewInv
<1> QED
  BY <1>1, ViewInvariant, PTL

\* lookup_file answers what was true of the path at some moment of the request,
\* unless a change was recorded in a frozen layer meanwhile.
THEOREM LookupsAreAtomic == Spec => []LookupAtomic
<1>1. ViewInv => LookupAtomic
  BY DEF ViewInv, ReaderOK, LookupAtomic
<1> QED
  BY <1>1, ViewInvariant, PTL

\* list_directory shows every name as it was at some moment of the request, unless
\* a change was recorded late or an inode deleted meanwhile.
THEOREM ListingsAreAtomicPerName == Spec => []ListAtomicPerName
<1>1. ViewInv => ListAtomicPerName
  <2> SUFFICES ASSUME ViewInv, NEW r \in Readers, NEW p \in Files,
                      pc[r] = "listed", disturbed[r] = {}
               PROVE  IF found[r][p] = NotFound
                      THEN \E s \in seen[r][p] : s.state # "exists"
                      ELSE found[r][p] \in seen[r][p]
    BY DEF ListAtomicPerName
  <2>1. PICK s \in seen[r][p] : found[r][p] = Shown(s)
    BY DEF ViewInv, ReaderOK
  <2>2. CASE s.state = "exists"
    <3>1. found[r][p] = s
      BY <2>1, <2>2 DEF Shown
    <3>2. s # NotFound
      BY <2>2 DEF NotFound
    <3> QED
      BY <3>1, <3>2
  <2>3. CASE s.state # "exists"
    <3>1. found[r][p] = NotFound
      BY <2>1, <2>3 DEF Shown
    <3> QED
      BY <2>3, <3>1
  <2> QED
    BY <2>2, <2>3
<1> QED
  BY <1>1, ViewInvariant, PTL

==============================================================================
