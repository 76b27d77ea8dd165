-------------------------- MODULE FuseAdapterProofs --------------------------
(***************************************************************************)
(* What the directory tree keeps under concurrent requests, and what the   *)
(* inode numbers of a FUSE mount mean, for any number of clients, names,   *)
(* inodes and numbers.                                                     *)
(*                                                                         *)
(* The argument follows the path that every inode was created at. It never *)
(* changes (there is no rename, and an identity is not given out twice),   *)
(* two inodes that exist at once differ in it, and an inode that exists is *)
(* the youngest of its path. The map of the mount holds paths, so what has *)
(* to be shown is that the inodes a number stood for all have the path the *)
(* map holds for it.                                                       *)
(***************************************************************************)
EXTENDS FuseAdapter, TLAPS, FiniteSetTheorems, SequenceTheorems, WellFoundedInduction

-----------------------------------------------------------------------------
(* The inductive invariant                                                 *)

\* A request on its way through one operation.
RequestOK(c) ==
    /\ at[c] < nextId
    /\ pc[c] = "idle" => at[c] = Root
    /\ pc[c] # "walk" => todo[c] = <<>>
    /\ pc[c] # "idle" /\ op[c] \in Creates => leaf[c] \in Names
    /\ pc[c] \in {"lookup", "insert"} =>
           op[c] \in Creates /\ (at[c] \in live => kind[at[c]] = "dir")
    /\ pc[c] \in {"list", "blocks", "delete"} => op[c] \notin Creates
    /\ pc[c] # "delete" => listed[c] = 0
    /\ pc[c] = "delete" =>
           listed[c] <= nextId /\ \A j \in Children(at[c]) : j >= listed[c]

TreeInv ==
    /\ TypeOK
    /\ TreeOfDirectories
    /\ \A c \in Clients : RequestOK(c)

\* P gives every inode the path it was created at.
PathsOK(P) ==
    /\ P \in [InodeIds -> Paths]
    /\ \A i \in InodeIds : i < nextId => (P[i] = <<>> <=> i = Root)
    /\ \A i \in live \ {Root} : P[i] = Append(P[parent[i]], name[i])
    /\ \A i, j \in InodeIds : i \in live /\ i < j /\ j < nextId => P[i] # P[j]

\* The path that a request is about: what it has walked, what it has still to
\* walk, and the name that it is to create.
Aim(p, t, o, l) == (p \o t) \o (IF o \in Creates THEN <<l>> ELSE <<>>)

AimOK(P, c) == pc[c] # "idle" => Aim(P[at[c]], todo[c], op[c], leaf[c]) \in Paths

\* Both directions of the map agree, and its numbers have been given out.
MapSound(m) ==
    /\ \A n \in DOMAIN m.inode_to_path :
           /\ n < m.next_inode
           /\ m.inode_to_path[n] \in DOMAIN m.path_to_inode
           /\ m.path_to_inode[m.inode_to_path[n]] = n
    /\ \A p \in DOMAIN m.path_to_inode :
           /\ m.path_to_inode[p] \in DOMAIN m.inode_to_path
           /\ m.inode_to_path[m.path_to_inode[p]] = p

CallbackOK(P) ==
    /\ pc[Mount] # "idle" =>
           Aim(P[at[Mount]], todo[Mount], op[Mount], leaf[Mount]) = cb.path
    /\ cb.num # 0 =>
           cb.num \in DOMAIN imap.inode_to_path /\ imap.inode_to_path[cb.num] = cb.path

\* The inodes that a number has stood for.
MeantOK(P, n) ==
    /\ n >= imap.next_inode => meant[n] = {}
    /\ n \in DOMAIN imap.inode_to_path =>
           \A i \in meant[n] :
               P[i] = imap.inode_to_path[n] /\ i \in live \cup unseen \cup {Root}
    /\ n \notin DOMAIN imap.inode_to_path => meant[n] \cap live = {}
    /\ \A i \in meant[n] :
           /\ i < nextId
           /\ i \in live /\ P[i] = P[at[Mount]] => i = at[Mount]
    /\ \A i, j \in meant[n] : i < j => i \in unseen

PathInv(P) ==
    /\ PathsOK(P)
    /\ \A c \in Clients : AimOK(P, c)
    /\ CallbackOK(P)
    /\ \A n \in Numbers : MeantOK(P, n)

FuseInv ==
    /\ FuseTypeOK
    /\ TreeInv
    /\ MapSound(imap)
    /\ \E P \in [InodeIds -> Paths] : PathInv(P)

-----------------------------------------------------------------------------
(* Paths                                                                   *)

\* A path is a sequence of names no longer than the bound.
LEMMA PathsAreSequences ==
    ASSUME NEW p
    PROVE  p \in Paths <=> p \in Seq(Names) /\ Len(p) <= MaxDepth
<1>1. ASSUME p \in Paths PROVE p \in Seq(Names) /\ Len(p) <= MaxDepth
  <2>1. PICK n \in 0..MaxDepth : p \in [1..n -> Names]
    BY <1>1 DEF Paths
  <2>2. n \in Nat
    BY <2>1, BoundsAssumption
  <2> QED
    BY <2>1, <2>2, BoundsAssumption
<1>2. ASSUME p \in Seq(Names), Len(p) <= MaxDepth PROVE p \in Paths
  <2>1. Len(p) \in 0..MaxDepth /\ p \in [1..Len(p) -> Names]
    BY <1>2, BoundsAssumption
  <2> QED
    BY <2>1 DEF Paths
<1> QED
  BY <1>1, <1>2

\* What resolve_path has walked and what it has still to walk: a component goes
\* from the one to the other.
LEMMA WalkKeepsAim ==
    ASSUME NEW p \in Seq(Names), NEW t \in Seq(Names), t # <<>>
    PROVE  Append(p, Head(t)) \o Tail(t) = p \o t
<1>1. Head(t) \in Names /\ Tail(t) \in Seq(Names) /\ Len(t) \in Nat \ {0}
  BY HeadTailProperties, EmptySeq
<1>2. <<Head(t)>> \o Tail(t) = t
  <2>1. 1 \in 1..Len(t) /\ Len(t) \in 1..Len(t)
    BY <1>1
  <2>2. SubSeq(t, 1, Len(t)) = <<t[1]>> \o SubSeq(t, 1 + 1, Len(t))
    BY <2>1, SubSeqRecursiveFirst
  <2>3. SubSeq(t, 1, Len(t)) = t
    BY SubSeqFull
  <2>4. Tail(t) = SubSeq(t, 2, Len(t))
    BY TailIsSubSeq
  <2>5. Head(t) = t[1] /\ 1 + 1 = 2
    OBVIOUS
  <2> QED
    BY <2>2, <2>3, <2>4, <2>5
<1>3. PICK h \in Seq(Names) : h = <<Head(t)>>
  <2>1. PICK x \in Names : x = Head(t)
    BY <1>1
  <2>2. <<x>> \in Seq(Names)
    OBVIOUS
  <2> QED
    BY <2>1, <2>2, Zenon
<1>4. Append(p, Head(t)) = p \o h
  BY <1>1, <1>3, AppendIsConcat
<1>5. (p \o h) \o Tail(t) = p \o (h \o Tail(t))
  BY <1>1, <1>3, ConcatAssociative
<1> QED
  BY <1>2, <1>3, <1>4, <1>5

\* At the beginning of a request nothing is walked.
LEMMA AimAtFirst ==
    ASSUME NEW p \in Paths, NEW o, o \in Creates => p # <<>>, NEW l
    PROVE  /\ o \in Creates =>
                /\ Aim(<<>>, Front(p), o, Last(p)) = p
                /\ Front(p) \in Seq(Names) /\ Last(p) \in Names
           /\ o \notin Creates => Aim(<<>>, p, o, l) = p
<1>1. p \in Seq(Names) /\ Len(p) \in Nat
  BY PathsAreSequences
<1>2. CASE o \in Creates
  <2>1. Len(p) >= 1
    BY <1>1, <1>2
  <2>2. 1 \in 1..Len(p) /\ Len(p) \in 1..Len(p) /\ 1 \in Int /\ Len(p) - 1 \in Int
    BY <2>1, <1>1
  <2>3. p[Len(p)] \in Names
    BY <1>1, <2>2, ElementOfSeq
  <2>4. \A i \in 1..(Len(p) - 1) : p[i] \in Names
    BY <1>1, ElementOfSeq
  <2>5. SubSeq(p, 1, Len(p) - 1) \in Seq(Names)
    BY <2>2, <2>4, SubSeqProperties
  <2>6. SubSeq(p, 1, Len(p)) = SubSeq(p, 1, Len(p) - 1) \o <<p[Len(p)]>>
    BY <1>1, <2>2, SubSeqRecursiveSecond
  <2>7. SubSeq(p, 1, Len(p)) = p
    BY <1>1, SubSeqFull
  <2>8. Front(p) \in Seq(Names) /\ Last(p) \in Names /\ Front(p) \o <<Last(p)>> = p
    BY <2>3, <2>5, <2>6, <2>7 DEF Front, Last
  <2>9. <<>> \o Front(p) = Front(p)
    BY <2>8, ConcatEmptySeq
  <2> QED
    BY <1>2, <2>8, <2>9 DEF Aim
<1>3. CASE o \notin Creates
  <2>1. <<>> \o p = p /\ p \o <<>> = p
    BY <1>1
  <2> QED
    BY <1>3, <2>1 DEF Aim
<1> QED
  BY <1>2, <1>3

\* Once everything is walked, the request is at its path, or at its parent.
LEMMA AimAtLast ==
    ASSUME NEW p \in Seq(Names), NEW o, NEW l, o \in Creates => l \in Names
    PROVE  Aim(p, <<>>, o, l) = IF o \in Creates THEN Append(p, l) ELSE p
<1>1. p \o <<>> = p
  OBVIOUS
<1>2. CASE o \in Creates
  <2>1. p \o <<l>> = Append(p, l)
    BY <1>2
  <2> QED
    BY <1>1, <2>1, <1>2 DEF Aim
<1> QED
  BY <1>1, <1>2 DEF Aim

-----------------------------------------------------------------------------
(* The directory tree                                                      *)

TableTypeOK ==
    /\ live \subseteq InodeIds /\ \A i \in live : i < nextId
    /\ parent \in [InodeIds -> InodeIds \cup {NoInode}]
    /\ name \in [InodeIds -> Names \cup {NoName}]
    /\ kind \in [InodeIds -> Kinds]
    /\ nextId \in 1..(MaxInodes + 1)

LocalTypeOK ==
    /\ pc \in [Clients -> Labels]
    /\ op \in [Clients -> Ops]
    /\ at \in [Clients -> InodeIds]
    /\ todo \in [Clients -> Seq(Names)]
    /\ leaf \in [Clients -> Names \cup {NoName}]
    /\ listed \in [Clients -> 0..(MaxInodes + 1)]

LEMMA TypeParts == TypeOK <=> TableTypeOK /\ LocalTypeOK
  BY DEF TypeOK, TableTypeOK, LocalTypeOK

\* A statement that adds no row: those that stay keep their contents, and their
\* parents stay too.
Shrinks ==
    /\ live' \subseteq live /\ nextId' = nextId
    /\ \A j \in live' : parent'[j] = parent[j] /\ name'[j] = name[j] /\ kind'[j] = kind[j]
    /\ \A j \in live' \ {Root} : parent[j] \in live'

\* A statement that changes no row and adds at most new ones.
Keeps ==
    /\ live' \subseteq InodeIds /\ nextId' \in Nat /\ nextId <= nextId'
    /\ \A j \in live' : j >= nextId \/ (j \in live /\ parent'[j] = parent[j] /\ kind'[j] = kind[j])

\* The other clients do not notice that c makes a step.
OthersStay(c) ==
    \A d \in Clients \ {c} :
        /\ pc'[d] = pc[d] /\ op'[d] = op[d] /\ at'[d] = at[d]
        /\ todo'[d] = todo[d] /\ leaf'[d] = leaf[d] /\ listed'[d] = listed[d]

\* The cascade takes rows only, the row asked for if it is there, and with a row
\* all its children.
LEMMA SubtreeClosed ==
    ASSUME NEW i
    PROVE  /\ Subtree(i) \subseteq live
           /\ i \in live => i \in Subtree(i)
           /\ \A k \in Subtree(i) : Children(k) \subseteq Subtree(i)
<1>1. Subtree(i) \subseteq live /\ (i \in live => i \in Subtree(i))
  BY DEF Subtree
<1>2. ASSUME NEW k \in Subtree(i), NEW j \in Children(k) PROVE j \in Subtree(i)
  <2>1. j \in live
    BY DEF Children
  <2>2. ASSUME NEW S \in SUBSET live, ({i} \cap live) \subseteq S,
               \A m \in S : Children(m) \subseteq S
        PROVE  j \in S
    <3>1. k \in S
      BY <2>2 DEF Subtree
    <3> QED
      BY <3>1, <2>2
  <2> QED
    BY <2>1, <2>2 DEF Subtree
<1> QED
  BY <1>1, <1>2

LEMMA SubtreeLeast ==
    ASSUME NEW i, NEW S \in SUBSET live, ({i} \cap live) \subseteq S,
           \A k \in S : Children(k) \subseteq S
    PROVE  Subtree(i) \subseteq S
  BY DEF Subtree

\* A step of one client leaves the others in order.
LEMMA OthersKeepOrder ==
    ASSUME TypeOK, NEW d \in Clients, RequestOK(d), Keeps,
           pc'[d] = pc[d], op'[d] = op[d], at'[d] = at[d],
           todo'[d] = todo[d], leaf'[d] = leaf[d], listed'[d] = listed[d]
    PROVE  RequestOK(d)'
<1>1. nextId \in Nat /\ at[d] \in Nat /\ listed[d] \in Nat
  BY BoundsAssumption DEF TypeOK, InodeIds
<1>2. at[d] < nextId'
  BY <1>1 DEF RequestOK, Keeps
<1>3. at[d] \in live' => at[d] \in live /\ kind'[at[d]] = kind[at[d]]
  BY <1>1 DEF RequestOK, Keeps
<1>4. ASSUME pc[d] = "delete"
      PROVE  listed[d] <= nextId' /\ \A j \in (Children(at[d]))' : j >= listed[d]
  <2>1. listed[d] <= nextId
    BY <1>4 DEF RequestOK
  <2>2. ASSUME NEW j \in live', parent'[j] = at[d], j # Root PROVE j >= listed[d]
    <3>1. CASE j >= nextId
      <4>1. j \in Int
        BY <2>2 DEF Keeps, InodeIds
      <4> QED
        BY <4>1, <3>1, <2>1, <1>1
    <3>2. CASE j \in live /\ parent'[j] = parent[j]
      <4>1. j \in Children(at[d])
        BY <2>2, <3>2 DEF Children
      <4> QED
        BY <4>1, <1>4 DEF RequestOK
    <3> QED
      BY <3>1, <3>2 DEF Keeps
  <2>3. \A j \in (Children(at[d]))' : j >= listed[d]
    BY <2>2 DEF Children
  <2> QED
    BY <2>1, <2>3, <1>1 DEF Keeps
<1> QED
  BY <1>2, <1>3, <1>4 DEF RequestOK

\* A request that ends is in order.
LEMMA ReturnsInOrder ==
    ASSUME TypeOK, NEW c \in Clients, RequestOK(c), Return(c),
           nextId' \in Nat, nextId <= nextId'
    PROVE  LocalTypeOK' /\ RequestOK(c)' /\ OthersStay(c) /\ pc'[c] = "idle" /\ at'[c] = Root
<1>1. nextId \in Nat /\ at[c] \in Nat /\ at[c] >= 1
  BY BoundsAssumption DEF TypeOK, InodeIds
<1>2. Root < nextId' /\ Root \in InodeIds
  BY <1>1, BoundsAssumption DEF RequestOK, Root, InodeIds
<1>3. <<>> \in Seq(Names) /\ 0 \in 0..(MaxInodes + 1)
  BY BoundsAssumption
<1>4. LocalTypeOK'
  BY <1>2, <1>3 DEF Return, TypeOK, LocalTypeOK, Labels, Ops, Creates
<1>5. pc'[c] = "idle" /\ at'[c] = Root /\ todo'[c] = <<>> /\ listed'[c] = 0
  BY DEF Return, TypeOK
<1>6. RequestOK(c)'
  BY <1>2, <1>5 DEF RequestOK
<1>7. OthersStay(c)
  BY DEF Return, TypeOK, OthersStay
<1> QED
  BY <1>4, <1>5, <1>6, <1>7

\* A request that goes on with its next statement.
LEMMA GoesOn ==
    ASSUME TypeOK, NEW c \in Clients, NEW label \in Labels, Goto(c, label), UNCHANGED table
    PROVE  /\ LocalTypeOK' /\ OthersStay(c) /\ pc'[c] = label
           /\ op'[c] = op[c] /\ at'[c] = at[c] /\ todo'[c] = todo[c]
           /\ leaf'[c] = leaf[c] /\ listed'[c] = listed[c]
  BY DEF Goto, TypeOK, LocalTypeOK, OthersStay

\* What the statements that leave the table alone have in common.
LEMMA TableStays ==
    ASSUME TreeInv, UNCHANGED table
    PROVE  TableTypeOK' /\ TreeOfDirectories' /\ Shrinks /\ Keeps
<1>1. nextId \in Nat /\ live \subseteq InodeIds
  BY BoundsAssumption DEF TreeInv, TypeOK
<1>2. TableTypeOK'
  BY DEF TreeInv, TypeOK, TableTypeOK, table
<1>3. TreeOfDirectories'
  BY DEF TreeInv, TreeOfDirectories, table
<1>4. Shrinks /\ Keeps
  BY <1>1 DEF TreeInv, TreeOfDirectories, Shrinks, Keeps, table
<1> QED
  BY <1>2, <1>3, <1>4

\* A step of client c that keeps the table, the types and its own order.
LEMMA TreeInvFromParts ==
    ASSUME TreeInv, NEW c \in Clients, TableTypeOK', LocalTypeOK', TreeOfDirectories',
           Keeps, OthersStay(c), RequestOK(c)'
    PROVE  TreeInv'
<1>1. TypeOK'
  BY DEF TypeOK, TableTypeOK, LocalTypeOK
<1>2. ASSUME NEW d \in Clients, d # c PROVE RequestOK(d)'
  BY <1>2, OthersKeepOrder DEF TreeInv, OthersStay
<1> QED
  BY <1>1, <1>2 DEF TreeInv

LEMMA BeginKeepsTree ==
    ASSUME TreeInv, NEW c \in Clients, NEW o \in Ops, NEW p \in Paths, Begin(c, o, p)
    PROVE  /\ TreeInv' /\ Shrinks /\ OthersStay(c)
           /\ at'[c] = Root /\ pc'[c] = "walk" /\ op'[c] = o
           /\ todo'[c] = IF o \in Creates THEN Front(p) ELSE p
           /\ o \in Creates => leaf'[c] = Last(p)
<1> USE DEF TreeInv
<1>1. TableTypeOK' /\ TreeOfDirectories' /\ Shrinks /\ Keeps
  BY TableStays DEF Begin
<1>2. o \in Creates => Front(p) \in Seq(Names) /\ Last(p) \in Names
  BY AimAtFirst DEF Begin
<1>3. p \in Seq(Names)
  BY PathsAreSequences
<1>4. LocalTypeOK'
  BY <1>2, <1>3 DEF Begin, TypeOK, LocalTypeOK, Labels
<1>5. OthersStay(c)
  BY DEF Begin, TypeOK, OthersStay
<1>6. /\ pc'[c] = "walk" /\ op'[c] = o /\ at'[c] = at[c] /\ listed'[c] = listed[c]
      /\ todo'[c] = IF o \in Creates THEN Front(p) ELSE p
      /\ o \in Creates => leaf'[c] = Last(p)
  BY DEF Begin, TypeOK
<1>7. at[c] = Root /\ listed[c] = 0 /\ at[c] < nextId /\ nextId' = nextId
  BY DEF Begin, RequestOK, table
<1>8. RequestOK(c)'
  BY <1>2, <1>6, <1>7 DEF RequestOK
<1> QED
  BY <1>1, <1>4, <1>5, <1>6, <1>7, <1>8, TreeInvFromParts

LEMMA WalkKeepsTree ==
    ASSUME TreeInv, NEW c \in Clients, Walk(c)
    PROVE  /\ TreeInv' /\ Shrinks /\ OthersStay(c)
           /\ \/ pc'[c] = "idle" /\ at'[c] = Root
              \/ /\ pc'[c] = "walk" /\ pc[c] = "walk" /\ todo[c] # <<>>
                 /\ op'[c] = op[c] /\ leaf'[c] = leaf[c]
                 /\ at'[c] \in Named(at[c], Head(todo[c])) /\ todo'[c] = Tail(todo[c])
<1> USE DEF TreeInv
<1>1. TableTypeOK' /\ TreeOfDirectories' /\ Shrinks /\ Keeps
  BY TableStays DEF Walk
<1>2. nextId' \in Nat /\ nextId <= nextId'
  BY <1>1 DEF Keeps
<1>3. CASE Return(c)
  <2>1. LocalTypeOK' /\ RequestOK(c)' /\ OthersStay(c) /\ pc'[c] = "idle" /\ at'[c] = Root
    BY <1>3, <1>2, ReturnsInOrder
  <2> QED
    BY <2>1, <1>1, TreeInvFromParts
<1>4. ASSUME NEW i \in Named(at[c], Head(todo[c])),
             at' = [at EXCEPT ![c] = i], todo' = [todo EXCEPT ![c] = Tail(@)],
             UNCHANGED <<pc, op, leaf, listed>>
      PROVE  /\ TreeInv' /\ Shrinks /\ OthersStay(c)
             /\ pc'[c] = "walk" /\ pc[c] = "walk" /\ todo[c] # <<>>
             /\ op'[c] = op[c] /\ leaf'[c] = leaf[c]
             /\ at'[c] \in Named(at[c], Head(todo[c])) /\ todo'[c] = Tail(todo[c])
  <2>1. i \in live /\ i \in InodeIds /\ i < nextId
    BY DEF Named, Children, TypeOK
  <2>2. todo[c] \in Seq(Names) /\ todo[c] # <<>> /\ pc[c] = "walk"
    BY DEF Walk, TypeOK
  <2>3. Tail(todo[c]) \in Seq(Names)
    BY <2>2, HeadTailProperties
  <2>4. LocalTypeOK'
    BY <1>4, <2>1, <2>3 DEF TypeOK, LocalTypeOK
  <2>5. OthersStay(c)
    BY <1>4 DEF TypeOK, OthersStay
  <2>6. /\ pc'[c] = pc[c] /\ op'[c] = op[c] /\ leaf'[c] = leaf[c] /\ listed'[c] = listed[c]
        /\ at'[c] = i /\ todo'[c] = Tail(todo[c])
    BY <1>4 DEF TypeOK
  <2>7. RequestOK(c)'
    BY <2>1, <2>2, <2>6 DEF RequestOK, Walk, table
  <2> QED
    BY <1>1, <2>2, <2>4, <2>5, <2>6, <2>7, TreeInvFromParts
<1> QED
  BY <1>3, <1>4 DEF Walk

\* A request ends, or goes on where it was.
Ends(c) == pc'[c] = "idle" /\ at'[c] = Root

StaysAt(c) ==
    /\ pc[c] # "idle" /\ pc'[c] # "idle"
    /\ op'[c] = op[c] /\ at'[c] = at[c] /\ todo'[c] = todo[c] /\ leaf'[c] = leaf[c]

LEMMA ReturnKeepsTree ==
    ASSUME TreeInv, NEW c \in Clients, Return(c), UNCHANGED table
    PROVE  TreeInv' /\ Shrinks /\ OthersStay(c) /\ Ends(c)
<1>1. TableTypeOK' /\ TreeOfDirectories' /\ Shrinks /\ Keeps
  BY TableStays
<1>2. nextId' \in Nat /\ nextId <= nextId'
  BY <1>1 DEF Keeps
<1>3. LocalTypeOK' /\ RequestOK(c)' /\ OthersStay(c) /\ pc'[c] = "idle" /\ at'[c] = Root
  BY <1>2, ReturnsInOrder DEF TreeInv
<1> QED
  BY <1>1, <1>3, TreeInvFromParts DEF Ends

LEMMA GotoKeepsTree ==
    ASSUME TreeInv, NEW c \in Clients, NEW label \in Labels, Goto(c, label), UNCHANGED table,
           pc[c] # "idle", label # "idle", RequestOK(c)'
    PROVE  TreeInv' /\ Shrinks /\ OthersStay(c) /\ StaysAt(c)
<1>1. TableTypeOK' /\ TreeOfDirectories' /\ Shrinks /\ Keeps
  BY TableStays
<1>2. /\ LocalTypeOK' /\ OthersStay(c) /\ pc'[c] = label
      /\ op'[c] = op[c] /\ at'[c] = at[c] /\ todo'[c] = todo[c] /\ leaf'[c] = leaf[c]
  BY GoesOn DEF TreeInv
<1> QED
  BY <1>1, <1>2, TreeInvFromParts DEF StaysAt

LEMMA ResolvedKeepsTree ==
    ASSUME TreeInv, NEW c \in Clients, Resolved(c)
    PROVE  /\ TreeInv' /\ Shrinks /\ OthersStay(c)
           /\ Ends(c) \/ StaysAt(c)
<1>1. UNCHANGED table /\ pc[c] = "walk" /\ todo[c] = <<>>
  BY DEF Resolved
<1>2. CASE Found(c) /\ op[c] \notin {"stat", "file"}
  <2>1. PICK label : label = CASE op[c] \in Creates -> "lookup"
                               [] op[c] \in {"rmdir", "readdir"} -> "list"
                               [] op[c] = "unlink" -> "blocks"
    OBVIOUS
  <2>2. Goto(c, label)
    BY <1>2, <2>1 DEF Resolved
  <2>3. /\ op[c] \in Creates => label = "lookup"
        /\ op[c] \notin Creates => label \in {"list", "blocks"}
        /\ label \in {"lookup", "list", "blocks"}
    BY <1>2, <2>1 DEF TreeInv, TypeOK, Ops, Creates, Removes, Reads
  <2>4. label \in Labels /\ label # "idle"
    BY <2>3 DEF Labels
  <2>5. /\ pc'[c] = label /\ op'[c] = op[c] /\ at'[c] = at[c] /\ todo'[c] = todo[c]
        /\ leaf'[c] = leaf[c] /\ listed'[c] = listed[c]
    BY <1>1, <2>2, <2>4, GoesOn DEF TreeInv
  <2>6. op[c] \in Creates => kind[at[c]] = "dir"
    BY <1>2 DEF Found, KindFits, Creates
  <2>7. kind' = kind /\ live' = live /\ nextId' = nextId
    BY <1>1 DEF table
  <2>8. RequestOK(c)
    BY DEF TreeInv
  <2>9. RequestOK(c)'
    BY <1>1, <2>3, <2>5, <2>6, <2>7, <2>8 DEF RequestOK
  <2> QED
    BY <1>1, <2>2, <2>4, <2>9, GotoKeepsTree
<1>3. CASE ~(Found(c) /\ op[c] \notin {"stat", "file"})
  <2>1. Return(c)
    BY <1>3 DEF Resolved
  <2> QED
    BY <2>1, <1>1, ReturnKeepsTree
<1> QED
  BY <1>2, <1>3

LEMMA LookupKeepsTree ==
    ASSUME TreeInv, NEW c \in Clients, Lookup(c)
    PROVE  TreeInv' /\ Shrinks /\ OthersStay(c) /\ (Ends(c) \/ StaysAt(c))
<1>1. UNCHANGED table /\ pc[c] = "lookup"
  BY DEF Lookup
<1>2. CASE Goto(c, "insert")
  <2>1. "insert" \in Labels
    BY DEF Labels
  <2>2. /\ pc'[c] = "insert" /\ op'[c] = op[c] /\ at'[c] = at[c] /\ todo'[c] = todo[c]
        /\ leaf'[c] = leaf[c] /\ listed'[c] = listed[c]
    BY <1>1, <1>2, <2>1, GoesOn DEF TreeInv
  <2>3. kind' = kind /\ live' = live /\ nextId' = nextId /\ RequestOK(c)
    BY <1>1 DEF table, TreeInv
  <2>4. RequestOK(c)'
    BY <1>1, <2>2, <2>3 DEF RequestOK
  <2> QED
    BY <1>1, <1>2, <2>1, <2>4, GotoKeepsTree
<1>3. CASE Return(c)
  BY <1>1, <1>3, ReturnKeepsTree
<1> QED
  BY <1>2, <1>3 DEF Lookup

LEMMA DeleteBlocksKeepsTree ==
    ASSUME TreeInv, NEW c \in Clients, DeleteBlocks(c)
    PROVE  TreeInv' /\ Shrinks /\ OthersStay(c) /\ StaysAt(c)
<1>1. UNCHANGED table /\ pc[c] = "blocks" /\ Goto(c, "delete") /\ "delete" \in Labels
  BY DEF DeleteBlocks, Labels
<1>2. /\ pc'[c] = "delete" /\ op'[c] = op[c] /\ at'[c] = at[c] /\ todo'[c] = todo[c]
      /\ leaf'[c] = leaf[c] /\ listed'[c] = listed[c]
  BY <1>1, GoesOn DEF TreeInv
<1>3. nextId' = nextId /\ RequestOK(c) /\ live' = live /\ nextId \in Nat /\ live \subseteq Nat
  BY <1>1, BoundsAssumption DEF table, TreeInv, TypeOK, InodeIds
<1>4. listed[c] = 0
  BY <1>1, <1>3 DEF RequestOK
<1>5. RequestOK(c)'
  BY <1>1, <1>2, <1>3, <1>4 DEF RequestOK, Children
<1> QED
  BY <1>1, <1>5, GotoKeepsTree

LEMMA ListChildrenKeepsTree ==
    ASSUME TreeInv, NEW c \in Clients, ListChildren(c)
    PROVE  /\ TreeInv' /\ Shrinks /\ OthersStay(c)
           /\ (op[c] = "rmdir" /\ StaysAt(c)) \/ Ends(c)
<1>1. UNCHANGED table /\ pc[c] = "list"
  BY DEF ListChildren
<1>2. CASE op[c] = "rmdir" /\ RemoveAllowed(c)
  <2>1. /\ pc' = [pc EXCEPT ![c] = "delete"] /\ listed' = [listed EXCEPT ![c] = nextId]
        /\ UNCHANGED <<op, at, todo, leaf>>
    BY <1>2 DEF ListChildren
  <2>2. TableTypeOK' /\ TreeOfDirectories' /\ Shrinks /\ Keeps
    BY <1>1, TableStays
  <2>3. LocalTypeOK'
    BY <2>1, BoundsAssumption DEF TreeInv, TypeOK, LocalTypeOK, Labels
  <2>4. OthersStay(c)
    BY <2>1 DEF TreeInv, TypeOK, OthersStay
  <2>5. /\ pc'[c] = "delete" /\ listed'[c] = nextId /\ op'[c] = op[c] /\ at'[c] = at[c]
        /\ todo'[c] = todo[c] /\ leaf'[c] = leaf[c]
    BY <2>1 DEF TreeInv, TypeOK
  <2>6. RequestOK(c) /\ nextId \in Nat /\ nextId' = nextId /\ live' = live /\ parent' = parent
    BY <1>1, BoundsAssumption DEF TreeInv, TypeOK, table
  <2>7. \A j \in live' : ~(parent'[j] = at'[c] /\ j # Root)
    BY <1>2, <2>5, <2>6 DEF RemoveAllowed, Children
  <2>8. RequestOK(c)'
    BY <1>1, <2>5, <2>6, <2>7 DEF RequestOK, Children
  <2> QED
    BY <1>1, <1>2, <2>2, <2>3, <2>4, <2>5, <2>8, TreeInvFromParts DEF StaysAt
<1>3. CASE Return(c)
  BY <1>1, <1>3, ReturnKeepsTree
<1> QED
  BY <1>2, <1>3 DEF ListChildren

\* An insert that is not refused.
Adds(c) ==
    /\ pc[c] = "insert" /\ todo[c] = <<>> /\ op[c] \in Creates /\ leaf[c] \in Names
    /\ at[c] \in live /\ Named(at[c], leaf[c]) = {}
    /\ nextId \in InodeIds /\ nextId' = nextId + 1 /\ live' = live \cup {nextId}
    /\ parent'[nextId] = at[c] /\ name'[nextId] = leaf[c]
    /\ \A j \in live : parent'[j] = parent[j] /\ name'[j] = name[j]

LEMMA InsertKeepsTree ==
    ASSUME TreeInv, NEW c \in Clients, Insert(c)
    PROVE  /\ TreeInv' /\ OthersStay(c) /\ Ends(c)
           /\ IF InsertAllowed(c) THEN Adds(c) ELSE UNCHANGED table /\ Shrinks
<1>1. Return(c) /\ pc[c] = "insert" /\ nextId \in InodeIds
  BY DEF Insert
<1>2. CASE InsertAllowed(c)
  <2>1. /\ live' = live \cup {nextId}
        /\ parent' = [parent EXCEPT ![nextId] = at[c]]
        /\ name' = [name EXCEPT ![nextId] = leaf[c]]
        /\ kind' = [kind EXCEPT ![nextId] = IF op[c] = "mkdir" THEN "dir" ELSE "file"]
        /\ nextId' = nextId + 1
    BY <1>2 DEF Insert, Serial
  <2>2. /\ live \subseteq InodeIds /\ nextId \in Nat /\ at[c] \in live /\ at[c] \in InodeIds
        /\ \A i \in live : i \in Nat /\ i < nextId
    BY <1>2, BoundsAssumption DEF TreeInv, TypeOK, InodeIds, InsertAllowed
  <2>3. nextId \notin live /\ \A j \in live : j \in InodeIds /\ j # nextId
    BY <2>2
  <2>4. /\ parent'[nextId] = at[c] /\ name'[nextId] = leaf[c]
        /\ \A j \in live : parent'[j] = parent[j] /\ name'[j] = name[j] /\ kind'[j] = kind[j]
    BY <1>1, <2>1, <2>3 DEF TreeInv, TypeOK
  <2>5. RequestOK(c)
    BY DEF TreeInv
  <2>6. kind[at[c]] = "dir" /\ op[c] \in Creates /\ leaf[c] \in Names /\ todo[c] = <<>>
    BY <1>1, <2>2, <2>5 DEF RequestOK
  <2>7. TableTypeOK'
    <3>1. live' \subseteq InodeIds /\ \A i \in live' : i < nextId'
      BY <1>1, <2>1, <2>2
    <3>2. parent' \in [InodeIds -> InodeIds \cup {NoInode}]
      BY <2>1, <2>2 DEF TreeInv, TypeOK
    <3>3. name' \in [InodeIds -> Names \cup {NoName}]
      BY <2>1, <2>6 DEF TreeInv, TypeOK
    <3>4. kind' \in [InodeIds -> Kinds]
      BY <2>1 DEF TreeInv, TypeOK, Kinds
    <3>5. nextId' \in 1..(MaxInodes + 1)
      BY <1>1, <2>1, BoundsAssumption DEF InodeIds
    <3> QED
      BY <3>1, <3>2, <3>3, <3>4, <3>5 DEF TableTypeOK
  <2>8. TreeOfDirectories'
    <3>1. ASSUME NEW i \in live, i # Root
          PROVE  parent'[i] \in live' /\ parent'[i] < i /\ kind'[parent'[i]] = "dir"
      <4>1. parent[i] \in live /\ parent[i] < i /\ kind[parent[i]] = "dir"
        BY <3>1 DEF TreeInv, TreeOfDirectories
      <4> QED
        BY <4>1, <2>1, <2>4
    <3>2. parent'[nextId] \in live' /\ parent'[nextId] < nextId /\ kind'[parent'[nextId]] = "dir"
      BY <2>1, <2>2, <2>4, <2>6
    <3> QED
      BY <2>1, <3>1, <3>2 DEF TreeOfDirectories
  <2>9. Keeps
    BY <2>1, <2>2, <2>4, <1>1 DEF Keeps
  <2>10. nextId' \in Nat /\ nextId <= nextId'
    BY <2>9 DEF Keeps
  <2>11. LocalTypeOK' /\ RequestOK(c)' /\ OthersStay(c) /\ pc'[c] = "idle" /\ at'[c] = Root
    BY <1>1, <2>10, ReturnsInOrder DEF TreeInv
  <2>12. Adds(c)
    BY <1>1, <1>2, <2>1, <2>4, <2>6 DEF Adds, InsertAllowed
  <2> QED
    BY <1>2, <2>7, <2>8, <2>9, <2>11, <2>12, TreeInvFromParts DEF Ends
<1>3. CASE ~InsertAllowed(c)
  <2>1. UNCHANGED table
    BY <1>3 DEF Insert
  <2> QED
    BY <1>1, <1>3, <2>1, ReturnKeepsTree
<1> QED
  BY <1>2, <1>3

LEMMA DeleteInodeKeepsTree ==
    ASSUME TreeInv, NEW c \in Clients, DeleteInode(c)
    PROVE  /\ TreeInv' /\ Shrinks /\ OthersStay(c) /\ Ends(c)
           /\ at[c] \notin live'
<1>1. /\ Return(c) /\ pc[c] = "delete" /\ parent' = parent /\ nextId' = nextId
      /\ live' = live \ Subtree(at[c])
  BY DEF DeleteInode
<1>2. PICK gone : gone = Subtree(at[c])
  OBVIOUS
<1>3. /\ gone \subseteq live /\ (at[c] \in live => at[c] \in gone)
      /\ \A k \in gone : Children(k) \subseteq gone
  BY <1>2, SubtreeClosed
<1>4. /\ live' = live \ gone
      /\ name' = [i \in InodeIds |-> IF i \in gone THEN NoName ELSE name[i]]
      /\ kind' = [i \in InodeIds |-> IF i \in gone THEN "dir" ELSE kind[i]]
  BY <1>1, <1>2 DEF DeleteInode
<1>5. live \subseteq InodeIds /\ nextId \in Nat
  BY BoundsAssumption DEF TreeInv, TypeOK
<1>6. \A j \in live' : j \in live /\ name'[j] = name[j] /\ kind'[j] = kind[j] /\ parent'[j] = parent[j]
  BY <1>1, <1>4, <1>5
<1>7. ASSUME NEW j \in live', j # Root
      PROVE  parent[j] \in live' /\ parent[j] < j /\ kind[parent[j]] = "dir"
  <2>1. parent[j] \in live /\ parent[j] < j /\ kind[parent[j]] = "dir" /\ j \in live
    BY <1>6, <1>7 DEF TreeInv, TreeOfDirectories
  <2>2. parent[j] \notin gone
    <3>1. j \in Children(parent[j]) /\ j \notin gone
      BY <1>4, <1>7, <2>1 DEF Children
    <3> QED
      BY <3>1, <1>3
  <2> QED
    BY <2>1, <2>2, <1>4
<1>8. TableTypeOK'
  <2>1. live' \subseteq InodeIds /\ \A i \in live' : i < nextId'
    BY <1>1, <1>6 DEF TreeInv, TypeOK
  <2>2. name' \in [InodeIds -> Names \cup {NoName}] /\ kind' \in [InodeIds -> Kinds]
    BY <1>4 DEF TreeInv, TypeOK, Kinds
  <2> QED
    BY <1>1, <2>1, <2>2 DEF TableTypeOK, TreeInv, TypeOK
<1>9. TreeOfDirectories'
  BY <1>1, <1>6, <1>7 DEF TreeOfDirectories
<1>10. Shrinks /\ Keeps
  BY <1>1, <1>5, <1>6, <1>7 DEF Shrinks, Keeps
<1>11. LocalTypeOK' /\ RequestOK(c)' /\ OthersStay(c) /\ pc'[c] = "idle" /\ at'[c] = Root
  BY <1>1, <1>5, ReturnsInOrder DEF TreeInv
<1> QED
  BY <1>3, <1>4, <1>8, <1>9, <1>10, <1>11, TreeInvFromParts DEF Ends

\* What a racing rmdir takes besides its directory was created after it had found
\* the directory empty: children are younger than their parents, so the rows that
\* are the directory itself or young enough contain the children of each of them.
LEMMA CascadeIsYoung ==
    ASSUME TreeInv
    PROVE  CascadeOnlyUnseen
<1>1. SUFFICES ASSUME NEW c \in Clients, pc[c] = "delete" PROVE \A i \in Subtree(at[c]) \ {at[c]} : i >= listed[c]
  BY DEF CascadeOnlyUnseen
<1>2. PICK young : young = {i \in live : i = at[c] \/ i >= listed[c]}
  OBVIOUS
<1>3. young \in SUBSET live /\ ({at[c]} \cap live) \subseteq young
  BY <1>2
<1>4. ASSUME NEW k \in young, NEW j \in Children(k) PROVE j \in young
  <2>1. j \in live /\ parent[j] = k /\ j # Root /\ k \in live
    BY <1>2 DEF Children
  <2>2. k < j /\ k \in Nat /\ j \in Nat /\ listed[c] \in Nat
    BY <2>1 DEF TreeInv, TypeOK, TreeOfDirectories, InodeIds
  <2>3. CASE k = at[c]
    BY <1>1, <1>2, <2>1, <2>3 DEF TreeInv, RequestOK
  <2>4. CASE k >= listed[c]
    BY <1>2, <2>1, <2>2, <2>4
  <2> QED
    BY <1>2, <2>3, <2>4
<1>5. Subtree(at[c]) \subseteq young
  BY <1>3, <1>4, SubtreeLeast
<1> QED
  BY <1>2, <1>5

-----------------------------------------------------------------------------
(* The paths of the inodes                                                 *)

\* An inode that exists is the only one that exists at its path.
LEMMA PathsDiffer ==
    ASSUME TreeInv, NEW P, PathsOK(P), NEW i \in live, NEW j \in live, P[i] = P[j]
    PROVE  i = j
<1>1. i \in InodeIds /\ j \in InodeIds /\ i \in Nat /\ j \in Nat /\ i < nextId /\ j < nextId
  BY DEF TreeInv, TypeOK, InodeIds
<1>2. ~(i < j) /\ ~(j < i)
  BY <1>1 DEF PathsOK
<1> QED
  BY <1>1, <1>2

LEMMA PathsMakeUnambiguous ==
    ASSUME TreeInv, NEW P, PathsOK(P)
    PROVE  PathsUnambiguous
<1>1. SUFFICES ASSUME NEW i \in live \ {Root}, NEW j \in live \ {Root},
                      parent[i] = parent[j], name[i] = name[j]
               PROVE  i = j
  BY DEF PathsUnambiguous
<1>2. P[i] = P[j]
  BY <1>1 DEF PathsOK
<1> QED
  BY <1>2, PathsDiffer

\* A statement that adds no row leaves the paths as they are.
LEMMA ShrinkKeepsPaths ==
    ASSUME NEW P, PathsOK(P), Shrinks, NEW c \in Clients, OthersStay(c),
           \A d \in Clients : AimOK(P, d), AimOK(P, c)'
    PROVE  PathsOK(P)' /\ \A d \in Clients : AimOK(P, d)'
<1>1. PathsOK(P)'
  BY DEF PathsOK, Shrinks
<1>2. ASSUME NEW d \in Clients, d # c PROVE AimOK(P, d)'
  BY <1>2 DEF AimOK, OthersStay
<1> QED
  BY <1>1, <1>2

\* A request that ends or stays is still about its path.
LEMMA AimStays ==
    ASSUME NEW P, NEW c \in Clients, AimOK(P, c), Ends(c) \/ StaysAt(c)
    PROVE  AimOK(P, c)'
  BY DEF AimOK, Ends, StaysAt

\* A request that begins at the root is about the path it was given.
LEMMA AimBegins ==
    ASSUME TreeInv, NEW P, PathsOK(P), NEW c \in Clients, NEW o \in Ops, NEW p \in Paths,
           Begin(c, o, p)
    PROVE  /\ Aim(P[at'[c]], todo'[c], op'[c], leaf'[c]) = p
           /\ AimOK(P, c)'
<1>1. /\ at'[c] = Root /\ pc'[c] = "walk" /\ op'[c] = o
      /\ todo'[c] = IF o \in Creates THEN Front(p) ELSE p
      /\ o \in Creates => leaf'[c] = Last(p)
  BY BeginKeepsTree
<1>2. P[Root] = <<>>
  <2>1. Root \in InodeIds /\ Root < nextId
    <3>1. at[c] \in InodeIds /\ at[c] < nextId /\ nextId \in Nat
      BY BoundsAssumption DEF TreeInv, TypeOK, RequestOK
    <3> QED
      BY <3>1, BoundsAssumption DEF Root, InodeIds
  <2> QED
    BY <2>1 DEF PathsOK
<1>3. o \in Creates => p # <<>>
  BY DEF Begin
<1>4. Aim(P[at'[c]], todo'[c], op'[c], leaf'[c]) = p
  <2>1. CASE o \in Creates
    BY <2>1, <1>1, <1>2, <1>3, AimAtFirst
  <2>2. CASE o \notin Creates
    BY <2>2, <1>1, <1>2, <1>3, AimAtFirst
  <2> QED
    BY <2>1, <2>2
<1> QED
  BY <1>4 DEF AimOK

\* A component that is looked up leads to the inode with the longer path.
LEMMA AimWalks ==
    ASSUME TreeInv, NEW P, PathsOK(P), NEW c \in Clients, AimOK(P, c), Walk(c)
    PROVE  /\ AimOK(P, c)'
           /\ (pc'[c] = "idle" /\ at'[c] = Root)
              \/ /\ pc[c] = "walk" /\ pc'[c] = "walk" /\ at'[c] \in live
                 /\ Aim(P[at'[c]], todo'[c], op'[c], leaf'[c]) =
                       Aim(P[at[c]], todo[c], op[c], leaf[c])
<1>1. CASE pc'[c] = "idle" /\ at'[c] = Root
  BY <1>1 DEF AimOK
<1>2. CASE /\ pc'[c] = "walk" /\ pc[c] = "walk" /\ todo[c] # <<>>
           /\ op'[c] = op[c] /\ leaf'[c] = leaf[c]
           /\ at'[c] \in Named(at[c], Head(todo[c])) /\ todo'[c] = Tail(todo[c])
  <2>1. PICK i : i = at'[c] /\ i \in live /\ i # Root /\ parent[i] = at[c] /\ name[i] = Head(todo[c])
    BY <1>2 DEF Named, Children
  <2>2. P[i] = Append(P[at[c]], Head(todo[c]))
    BY <2>1 DEF PathsOK
  <2>3. PICK p \in Seq(Names) : p = P[at[c]]
    <3>1. at[c] \in InodeIds
      BY DEF TreeInv, TypeOK
    <3>2. P[at[c]] \in Paths
      BY <3>1 DEF PathsOK
    <3> QED
      BY <3>2, PathsAreSequences
  <2>4. PICK t \in Seq(Names) : t = todo[c] /\ t # <<>>
    BY <1>2 DEF TreeInv, TypeOK
  <2>5. Append(p, Head(t)) \o Tail(t) = p \o t
    BY <2>4, WalkKeepsAim
  <2>6. Aim(P[at'[c]], todo'[c], op'[c], leaf'[c]) = Aim(P[at[c]], todo[c], op[c], leaf[c])
    BY <1>2, <2>1, <2>2, <2>3, <2>4, <2>5 DEF Aim
  <2> QED
    BY <1>2, <2>1, <2>6 DEF AimOK
<1> QED
  BY <1>1, <1>2, WalkKeepsTree

\* What an insert that is not refused does to the paths: the new inode gets the
\* path the request is about, which no inode that exists has.
LEMMA GrowExtendsPaths ==
    ASSUME TreeInv, NEW P, PathsOK(P), NEW c \in Clients, OthersStay(c), Ends(c),
           \A d \in Clients : AimOK(P, d), Adds(c)
    PROVE  \E Q \in [InodeIds -> Paths] :
              /\ PathsOK(Q)' /\ (\A d \in Clients : AimOK(Q, d)')
              /\ \A i \in InodeIds : i < nextId => Q[i] = P[i]
              /\ Q[nextId] = Aim(P[at[c]], todo[c], op[c], leaf[c])
<1>1. /\ nextId \in InodeIds /\ nextId \in Nat /\ at[c] \in live
      /\ \A i \in live : i \in InodeIds /\ i \in Nat /\ i < nextId
      /\ \A i \in InodeIds : i \in Nat /\ i >= 1
  BY DEF Adds, TreeInv, TypeOK, InodeIds
<1>2. PICK p \in Seq(Names) : p = P[at[c]]
  <2>1. P[at[c]] \in Paths
    BY <1>1 DEF PathsOK
  <2> QED
    BY <2>1, PathsAreSequences
<1>3. PICK l \in Names : l = leaf[c]
  BY DEF Adds
<1>4. PICK new \in Paths : new = Append(p, l) /\ new = Aim(P[at[c]], todo[c], op[c], leaf[c])
  <2>1. Aim(p, <<>>, op[c], l) = Append(p, l)
    BY AimAtLast DEF Adds
  <2>2. Aim(P[at[c]], todo[c], op[c], leaf[c]) \in Paths
    BY DEF Adds, AimOK
  <2>3. todo[c] = <<>>
    BY DEF Adds
  <2> QED
    BY <2>1, <2>2, <2>3, <1>2, <1>3
<1>5. new # <<>>
  <2>1. Append(p, l) # <<>>
    BY AppendProperties, Zenon
  <2> QED
    BY <1>4, <2>1
<1>6. PICK Q : Q = [P EXCEPT ![nextId] = new]
  OBVIOUS
<1>7. Q \in [InodeIds -> Paths] /\ Q[nextId] = new /\ \A i \in InodeIds : i < nextId => Q[i] = P[i]
  BY <1>1, <1>6 DEF PathsOK
<1>8. /\ nextId' = nextId + 1 /\ live' = live \cup {nextId}
      /\ parent'[nextId] = at[c] /\ name'[nextId] = l
      /\ \A j \in live : parent'[j] = parent[j] /\ name'[j] = name[j]
  BY <1>3 DEF Adds
<1>9. PathsOK(Q)'
  <2>1. ASSUME NEW i \in InodeIds, i < nextId' PROVE Q[i] = <<>> <=> i = Root
    <3>1. CASE i < nextId
      BY <3>1, <1>7 DEF PathsOK
    <3>2. CASE i = nextId
      <4>1. nextId # Root
        BY <1>1 DEF Root
      <4> QED
        BY <3>2, <4>1, <1>5, <1>7
    <3> QED
      BY <2>1, <3>1, <3>2, <1>1, <1>8
  <2>2. ASSUME NEW i \in live', i # Root PROVE Q[i] = Append(Q[parent'[i]], name'[i])
    <3>1. CASE i \in live
      <4>1. P[i] = Append(P[parent[i]], name[i]) /\ parent[i] \in live
        BY <2>2, <3>1 DEF PathsOK, TreeInv, TreeOfDirectories
      <4>2. Q[i] = P[i] /\ Q[parent[i]] = P[parent[i]]
        BY <3>1, <4>1, <1>1, <1>7
      <4> QED
        BY <3>1, <4>1, <4>2, <1>8
    <3>2. CASE i = nextId
      BY <3>2, <1>1, <1>2, <1>4, <1>7, <1>8
    <3> QED
      BY <3>1, <3>2, <1>8
  <2>3. ASSUME NEW i \in InodeIds, NEW j \in InodeIds, i \in live', i < j, j < nextId'
        PROVE  Q[i] # Q[j]
    <3>1. CASE j < nextId
      <4>1. i < nextId /\ i \in live
        BY <2>3, <3>1, <1>1, <1>8
      <4> QED
        BY <4>1, <3>1, <2>3, <1>7 DEF PathsOK
    <3>2. CASE j = nextId
      <4>1. i \in live /\ i < nextId /\ Q[i] = P[i]
        BY <2>3, <3>2, <1>1, <1>7, <1>8
      <4>2. SUFFICES ASSUME P[i] = new PROVE FALSE
        BY <4>1, <3>2, <1>7
      <4>3. i # Root
        BY <4>1, <4>2, <1>1, <1>5 DEF PathsOK
      <4>4. P[i] = Append(P[parent[i]], name[i]) /\ parent[i] \in live
        BY <4>1, <4>3 DEF PathsOK, TreeInv, TreeOfDirectories
      <4>5. PICK q \in Seq(Names) : q = P[parent[i]]
        <5>1. P[parent[i]] \in Paths
          BY <4>4, <1>1 DEF PathsOK
        <5> QED
          BY <5>1, PathsAreSequences
      <4>6. PICK k \in Names \cup {NoName} : k = name[i]
        BY <2>3 DEF TreeInv, TypeOK
      <4>7. /\ q \in Seq(Names \cup {NoName}) /\ p \in Seq(Names \cup {NoName})
            /\ l \in Names \cup {NoName}
        BY SeqMonotonic
      <4>8. Append(q, k) = Append(p, l)
        BY <4>2, <4>4, <4>5, <4>6, <1>4
      <4>9. q = p /\ k = l
        BY <4>7, <4>8, AppendInjective
      <4>10. parent[i] = at[c]
        BY <4>4, <4>5, <4>9, <1>1, <1>2, PathsDiffer
      <4>11. i \in Named(at[c], leaf[c])
        BY <4>1, <4>3, <4>6, <4>9, <4>10, <1>3 DEF Named, Children
      <4> QED
        BY <4>11 DEF Adds
    <3> QED
      BY <2>3, <3>1, <3>2, <1>1, <1>8
  <2> QED
    BY <1>7, <2>1, <2>2, <2>3 DEF PathsOK
<1>10. ASSUME NEW d \in Clients PROVE AimOK(Q, d)'
  <2>1. CASE d = c
    BY <2>1 DEF AimOK, Ends
  <2>2. CASE d # c
    <3>1. at[d] \in InodeIds /\ at[d] < nextId
      BY DEF TreeInv, TypeOK, RequestOK
    <3> QED
      BY <2>2, <3>1, <1>7 DEF AimOK, OthersStay
  <2> QED
    BY <2>1, <2>2
<1> QED
  BY <1>4, <1>7, <1>9, <1>10

-----------------------------------------------------------------------------
(* The map of the mount                                                    *)

MapRecs ==
    [inode_to_path : UNION {[S -> MapPaths] : S \in SUBSET Numbers},
     path_to_inode : UNION {[S -> Numbers] : S \in SUBSET MapPaths},
     next_inode : 2..(MaxNumbers + 1)]

\* r knows what m knows, and the numbers it has besides are new.
ExtendsMap(m, r) ==
    /\ m.next_inode <= r.next_inode
    /\ \A n \in DOMAIN m.inode_to_path :
           n \in DOMAIN r.inode_to_path /\ r.inode_to_path[n] = m.inode_to_path[n]
    /\ \A n \in DOMAIN r.inode_to_path :
           n \in DOMAIN m.inode_to_path \/ n >= m.next_inode

\* The parts of a map
LEMMA MapParts ==
    ASSUME NEW m \in MapRecs
    PROVE  /\ m.next_inode \in 2..(MaxNumbers + 1) /\ m.next_inode \in Nat
           /\ DOMAIN m.inode_to_path \subseteq Numbers
           /\ \A n \in DOMAIN m.inode_to_path : n \in Nat /\ m.inode_to_path[n] \in MapPaths
           /\ DOMAIN m.path_to_inode \subseteq MapPaths
           /\ \A p \in DOMAIN m.path_to_inode : m.path_to_inode[p] \in Numbers
<1>1. /\ m.inode_to_path \in UNION {[S -> MapPaths] : S \in SUBSET Numbers}
      /\ m.path_to_inode \in UNION {[S -> Numbers] : S \in SUBSET MapPaths}
      /\ m.next_inode \in 2..(MaxNumbers + 1)
  BY DEF MapRecs
<1>2. PICK S \in SUBSET Numbers : m.inode_to_path \in [S -> MapPaths]
  BY <1>1
<1>3. PICK T \in SUBSET MapPaths : m.path_to_inode \in [T -> Numbers]
  BY <1>1
<1>4. /\ DOMAIN m.inode_to_path = S
      /\ \A n \in S : m.inode_to_path[n] \in MapPaths /\ n \in Nat
  BY <1>2 DEF Numbers
<1>5. /\ DOMAIN m.path_to_inode = T
      /\ \A p \in T : m.path_to_inode[p] \in Numbers
  BY <1>3
<1>6. m.next_inode \in Nat
  BY <1>1, MountAssumption
<1> QED
  BY <1>1, <1>4, <1>5, <1>6

\* A record put together from its parts is a map.
LEMMA MapFromParts ==
    ASSUME NEW f, NEW g, NEW x \in 2..(MaxNumbers + 1),
           NEW S \in SUBSET Numbers, f \in [S -> MapPaths],
           NEW T \in SUBSET MapPaths, g \in [T -> Numbers]
    PROVE  [inode_to_path |-> f, path_to_inode |-> g, next_inode |-> x] \in MapRecs
<1>1. f \in UNION {[A -> MapPaths] : A \in SUBSET Numbers}
  OBVIOUS
<1>2. g \in UNION {[A -> Numbers] : A \in SUBSET MapPaths}
  OBVIOUS
<1> QED
  BY <1>1, <1>2 DEF MapRecs

\* get_or_create leaves the map sound.
LEMMA GetOrCreateSound ==
    ASSUME NEW m \in MapRecs, MapSound(m), NEW p \in MapPaths,
           NEW r, r = GetOrCreate(m, p), r.next_inode <= MaxNumbers + 1
    PROVE  r \in MapRecs /\ MapSound(r) /\ ExtendsMap(m, r) /\ p \in DOMAIN r.path_to_inode
<1>1. /\ m.next_inode \in 2..(MaxNumbers + 1) /\ m.next_inode \in Nat
      /\ DOMAIN m.inode_to_path \subseteq Numbers
      /\ \A n \in DOMAIN m.inode_to_path : n \in Nat /\ m.inode_to_path[n] \in MapPaths
      /\ DOMAIN m.path_to_inode \subseteq MapPaths
      /\ \A q \in DOMAIN m.path_to_inode : m.path_to_inode[q] \in Numbers
  BY MapParts
<1>2. CASE p \in DOMAIN m.path_to_inode
  <2>1. r = m
    BY <1>2 DEF GetOrCreate
  <2> QED
    BY <1>1, <1>2, <2>1 DEF ExtendsMap
<1>3. CASE p \notin DOMAIN m.path_to_inode
  <2>1. PICK x \in Nat : x = m.next_inode
    BY <1>1
  <2>2. PICK f : f = [k \in DOMAIN m.inode_to_path \cup {x} |-> IF k = x THEN p ELSE m.inode_to_path[k]]
    OBVIOUS
  <2>3. PICK g : g = [q \in DOMAIN m.path_to_inode \cup {p} |-> IF q = p THEN x ELSE m.path_to_inode[q]]
    OBVIOUS
  <2>4. r.inode_to_path = f /\ r.path_to_inode = g /\ r.next_inode = x + 1
    BY <1>3, <2>1, <2>2, <2>3 DEF GetOrCreate, MapInsert, MapRecs
  <2>5. x \in Numbers /\ x + 1 \in 2..(MaxNumbers + 1)
    BY <1>1, <2>1, <2>4, MountAssumption DEF Numbers
  <2>6. r = [inode_to_path |-> f, path_to_inode |-> g, next_inode |-> x + 1]
    BY <1>3, <2>1, <2>2, <2>3 DEF GetOrCreate, MapInsert, MapRecs
  <2>7. /\ DOMAIN m.inode_to_path \cup {x} \in SUBSET Numbers
        /\ f \in [DOMAIN m.inode_to_path \cup {x} -> MapPaths]
        /\ DOMAIN m.path_to_inode \cup {p} \in SUBSET MapPaths
        /\ g \in [DOMAIN m.path_to_inode \cup {p} -> Numbers]
    BY <1>1, <2>2, <2>3, <2>5
  <2>8. r \in MapRecs
    BY <2>5, <2>6, <2>7, MapFromParts
  <2>9. x \notin DOMAIN m.inode_to_path
    BY <1>1, <2>1 DEF MapSound
  <2>10. ASSUME NEW n \in DOMAIN f
         PROVE  n < x + 1 /\ f[n] \in DOMAIN g /\ g[f[n]] = n
    <3>1. CASE n = x
      BY <3>1, <2>2, <2>3
    <3>2. CASE n # x /\ n \in DOMAIN m.inode_to_path
      <4>1. /\ n < x /\ m.inode_to_path[n] \in DOMAIN m.path_to_inode
            /\ m.path_to_inode[m.inode_to_path[n]] = n
        BY <3>2, <2>1 DEF MapSound
      <4>2. f[n] = m.inode_to_path[n] /\ f[n] # p
        BY <3>2, <4>1, <2>2, <1>3
      <4> QED
        BY <3>2, <4>1, <4>2, <2>3, <1>1
    <3> QED
      BY <2>10, <3>1, <3>2, <2>2
  <2>11. ASSUME NEW q \in DOMAIN g PROVE g[q] \in DOMAIN f /\ f[g[q]] = q
    <3>1. CASE q = p
      BY <3>1, <2>2, <2>3
    <3>2. CASE q # p /\ q \in DOMAIN m.path_to_inode
      <4>1. /\ m.path_to_inode[q] \in DOMAIN m.inode_to_path
            /\ m.inode_to_path[m.path_to_inode[q]] = q
        BY <3>2 DEF MapSound
      <4> QED
        BY <3>2, <4>1, <2>2, <2>3, <2>9
    <3> QED
      BY <2>11, <3>1, <3>2, <2>3
  <2>12. MapSound(r)
    BY <2>4, <2>10, <2>11 DEF MapSound
  <2>13. ExtendsMap(m, r)
    BY <1>1, <2>1, <2>2, <2>4, <2>9 DEF ExtendsMap
  <2> QED
    BY <2>3, <2>4, <2>8, <2>12, <2>13
<1> QED
  BY <1>2, <1>3

\* The same for every entry of a directory.
LEMMA GetOrCreateEachSound ==
    ASSUME NEW m \in MapRecs, MapSound(m), NEW ps \in SUBSET MapPaths, IsFiniteSet(ps),
           NEW num \in Numberings(m, ps),
           NEW r, r = GetOrCreateEach(m, num), r.next_inode <= MaxNumbers + 1
    PROVE  r \in MapRecs /\ MapSound(r) /\ ExtendsMap(m, r) /\ ps \subseteq DOMAIN r.path_to_inode
<1>1. /\ m.next_inode \in 2..(MaxNumbers + 1) /\ m.next_inode \in Nat
      /\ DOMAIN m.inode_to_path \subseteq Numbers
      /\ \A n \in DOMAIN m.inode_to_path : n \in Nat /\ m.inode_to_path[n] \in MapPaths
      /\ DOMAIN m.path_to_inode \subseteq MapPaths
      /\ \A q \in DOMAIN m.path_to_inode : m.path_to_inode[q] \in Numbers
  BY MapParts
<1>2. PICK x \in Nat : x = m.next_inode
  BY <1>1
<1>3. PICK new : new = ps \ DOMAIN m.path_to_inode
  OBVIOUS
<1>4. IsFiniteSet(new)
  BY <1>3, FS_Subset
<1>5. PICK k \in Nat : k = Cardinality(new)
  BY <1>4, FS_CardinalityType
<1>6. num \in [new -> x..(x + k - 1)] /\ \A a, b \in new : num[a] = num[b] => a = b
  BY <1>2, <1>3, <1>5 DEF Numberings, Injection, IsInjective
<1>7. DOMAIN num = new
  BY <1>6
<1>8. PICK f : f = [n \in DOMAIN m.inode_to_path \cup Range(num) |->
                       IF n \in Range(num) THEN CHOOSE p \in DOMAIN num : num[p] = n
                       ELSE m.inode_to_path[n]]
  OBVIOUS
<1>9. PICK g : g = [p \in DOMAIN m.path_to_inode \cup new |->
                       IF p \in new THEN num[p] ELSE m.path_to_inode[p]]
  OBVIOUS
<1>10. r = [inode_to_path |-> f, path_to_inode |-> g, next_inode |-> x + k]
  BY <1>2, <1>5, <1>7, <1>8, <1>9 DEF GetOrCreateEach
<1>11. r.inode_to_path = f /\ r.path_to_inode = g /\ r.next_inode = x + k
  BY <1>10
<1>12. \A n \in Range(num) : n \in Nat /\ n >= x /\ n < x + k /\ n \in Numbers
  BY <1>1, <1>2, <1>6, <1>7, <1>11, MountAssumption DEF Range, Numbers
<1>13. \A n \in DOMAIN m.inode_to_path : n \notin Range(num) /\ n < x
  BY <1>1, <1>2, <1>12 DEF MapSound
<1>14. \A p \in new : num[p] \in Range(num)
  BY <1>7 DEF Range
<1>15. ASSUME NEW p \in new PROVE num[p] \in DOMAIN f /\ f[num[p]] = p
  <2>1. \E q \in DOMAIN num : num[q] = num[p]
    BY <1>7
  <2>2. PICK q : q = CHOOSE a \in DOMAIN num : num[a] = num[p]
    OBVIOUS
  <2>3. q \in new /\ num[q] = num[p]
    BY <2>1, <2>2, <1>7
  <2>4. f[num[p]] = q
    BY <2>2, <1>8, <1>14
  <2> QED
    BY <2>3, <2>4, <1>6, <1>8, <1>14
<1>16. ASSUME NEW n \in Range(num) PROVE \E p \in new : n = num[p]
  BY <1>7 DEF Range
<1>17. x + k \in 2..(MaxNumbers + 1)
  BY <1>1, <1>2, <1>11, MountAssumption
<1>18. r \in MapRecs
  <2>1. DOMAIN m.inode_to_path \cup Range(num) \in SUBSET Numbers
    BY <1>1, <1>12
  <2>2. f \in [DOMAIN m.inode_to_path \cup Range(num) -> MapPaths]
    <3>1. ASSUME NEW n \in DOMAIN m.inode_to_path \cup Range(num) PROVE f[n] \in MapPaths
      <4>1. CASE n \in Range(num)
        BY <4>1, <1>3, <1>15, <1>16
      <4>2. CASE n \in DOMAIN m.inode_to_path
        BY <4>2, <1>1, <1>8, <1>13
      <4> QED
        BY <4>1, <4>2
    <3> QED
      BY <3>1, <1>8
  <2>3. DOMAIN m.path_to_inode \cup new \in SUBSET MapPaths
    BY <1>1, <1>3
  <2>4. g \in [DOMAIN m.path_to_inode \cup new -> Numbers]
    BY <1>1, <1>9, <1>12, <1>14
  <2> QED
    BY <2>1, <2>2, <2>3, <2>4, <1>10, <1>17, MapFromParts
<1>19. ASSUME NEW n \in DOMAIN f PROVE n < x + k /\ f[n] \in DOMAIN g /\ g[f[n]] = n
  <2>1. CASE n \in Range(num)
    BY <2>1, <1>9, <1>12, <1>15, <1>16
  <2>2. CASE n \in DOMAIN m.inode_to_path
    <3>1. /\ m.inode_to_path[n] \in DOMAIN m.path_to_inode
          /\ m.path_to_inode[m.inode_to_path[n]] = n
      BY <2>2 DEF MapSound
    <3>2. f[n] = m.inode_to_path[n] /\ f[n] \notin new
      BY <2>2, <3>1, <1>3, <1>8, <1>13
    <3>3. n < x + k
      BY <2>2, <1>1, <1>13
    <3> QED
      BY <3>1, <3>2, <3>3, <1>9
  <2> QED
    BY <2>1, <2>2, <1>8
<1>20. ASSUME NEW q \in DOMAIN g PROVE g[q] \in DOMAIN f /\ f[g[q]] = q
  <2>1. CASE q \in new
    BY <2>1, <1>9, <1>15
  <2>2. CASE q \notin new /\ q \in DOMAIN m.path_to_inode
    <3>1. /\ m.path_to_inode[q] \in DOMAIN m.inode_to_path
          /\ m.inode_to_path[m.path_to_inode[q]] = q
      BY <2>2 DEF MapSound
    <3> QED
      BY <3>1, <2>2, <1>8, <1>9, <1>13
  <2> QED
    BY <2>1, <2>2, <1>9
<1>21. MapSound(r)
  BY <1>11, <1>19, <1>20 DEF MapSound
<1>22. ExtendsMap(m, r)
  BY <1>1, <1>2, <1>8, <1>11, <1>12, <1>13 DEF ExtendsMap
<1>23. ps \subseteq DOMAIN r.path_to_inode
  BY <1>3, <1>9, <1>11
<1> QED
  BY <1>18, <1>21, <1>22, <1>23

\* rmdir and unlink take the number of their path out of the map, and only it.
LEMMA ForgetSound ==
    ASSUME NEW m \in MapRecs, MapSound(m), NEW p, NEW r, r = Forget(m, p)
    PROVE  /\ r \in MapRecs /\ MapSound(r) /\ r.next_inode = m.next_inode
           /\ \A n \in DOMAIN r.inode_to_path :
                  /\ n \in DOMAIN m.inode_to_path /\ r.inode_to_path[n] = m.inode_to_path[n]
                  /\ r.inode_to_path[n] # p
           /\ \A n \in DOMAIN m.inode_to_path \ DOMAIN r.inode_to_path : m.inode_to_path[n] = p
<1>1. /\ m.next_inode \in 2..(MaxNumbers + 1) /\ m.next_inode \in Nat
      /\ DOMAIN m.inode_to_path \subseteq Numbers
      /\ \A n \in DOMAIN m.inode_to_path : n \in Nat /\ m.inode_to_path[n] \in MapPaths
      /\ DOMAIN m.path_to_inode \subseteq MapPaths
      /\ \A q \in DOMAIN m.path_to_inode : m.path_to_inode[q] \in Numbers
  BY MapParts
<1>2. CASE p \notin DOMAIN m.path_to_inode
  <2>1. r = m
    BY <1>2 DEF Forget
  <2> QED
    BY <1>2, <2>1 DEF MapSound
<1>3. CASE p \in DOMAIN m.path_to_inode
  <2>1. PICK x : x = m.path_to_inode[p]
    OBVIOUS
  <2>2. x \in DOMAIN m.inode_to_path /\ m.inode_to_path[x] = p
    BY <1>3, <2>1 DEF MapSound
  <2>3. PICK f : f = [n \in DOMAIN m.inode_to_path \ {x} |-> m.inode_to_path[n]]
    OBVIOUS
  <2>4. PICK g : g = [q \in DOMAIN m.path_to_inode \ {p} |-> m.path_to_inode[q]]
    OBVIOUS
  <2>5. r = [inode_to_path |-> f, path_to_inode |-> g, next_inode |-> m.next_inode]
    BY <1>3, <2>1, <2>2, <2>3, <2>4 DEF Forget, MapRemove, Restrict, MapRecs
  <2>6. r.inode_to_path = f /\ r.path_to_inode = g /\ r.next_inode = m.next_inode
    BY <2>5
  <2>7. /\ DOMAIN m.inode_to_path \ {x} \in SUBSET Numbers
        /\ f \in [DOMAIN m.inode_to_path \ {x} -> MapPaths]
        /\ DOMAIN m.path_to_inode \ {p} \in SUBSET MapPaths
        /\ g \in [DOMAIN m.path_to_inode \ {p} -> Numbers]
    BY <1>1, <2>3, <2>4
  <2>8. r \in MapRecs
    BY <1>1, <2>5, <2>7, MapFromParts
  <2>9. \A n \in DOMAIN m.inode_to_path : n # x => m.inode_to_path[n] # p
    BY <2>1 DEF MapSound
  <2>10. MapSound(r)
    BY <2>1, <2>2, <2>3, <2>4, <2>6, <2>9 DEF MapSound
  <2> QED
    BY <2>2, <2>3, <2>6, <2>8, <2>9, <2>10
<1> QED
  BY <1>2, <1>3

-----------------------------------------------------------------------------
(* What the numbers mean                                                   *)

\* A step keeps the meaning of number n if n keeps its path or is new, and if
\* what it is used for is an inode that exists at this path.
LEMMA MeaningGrows ==
    ASSUME NEW P, NEW Q, NEW n \in Numbers, NEW L,
           TreeInv, TreeInv', PathsOK(Q)', MeantOK(P, n),
           \A i \in InodeIds : i < nextId => Q[i] = P[i],
           imap \in MapRecs, imap' \in MapRecs, MapSound(imap)', ExtendsMap(imap, imap'),
           meant[n] \subseteq InodeIds, nextId <= nextId',
           \A i \in live' : i < nextId => i \in live,
           unseen \subseteq unseen', \A i \in meant[n] \cap live : i \in live' \cup unseen',
           meant'[n] = meant[n] \cup L,
           \A j \in L : j \in live' /\ n \in DOMAIN imap'.inode_to_path /\ Q[j] = imap'.inode_to_path[n],
           at'[Mount] \in live' \cup {Root} \/ (at'[Mount] = at[Mount] /\ L = {})
    PROVE  MeantOK(Q, n)'
<1>1. /\ imap.next_inode \in Nat /\ imap'.next_inode \in Nat
      /\ imap.next_inode <= imap'.next_inode /\ n \in Nat
  BY MapParts DEF ExtendsMap, Numbers
<1>2. /\ nextId \in Nat /\ nextId' \in Nat
      /\ \A i \in live' : i \in InodeIds /\ i < nextId'
      /\ \A i \in InodeIds : i \in Nat
  <2>1. nextId \in Nat /\ nextId' \in Nat
    BY BoundsAssumption DEF TreeInv, TypeOK
  <2>2. \A i \in live' : i \in InodeIds /\ i < nextId'
    BY DEF TreeInv, TypeOK
  <2> QED
    BY <2>1, <2>2 DEF InodeIds
<1>3. \A i \in meant[n] : i \in InodeIds /\ i < nextId /\ i < nextId' /\ Q[i] = P[i] /\ i \in Nat
  BY <1>2 DEF MeantOK
<1>4. n \in DOMAIN imap'.inode_to_path => n < imap'.next_inode
  BY DEF MapSound
<1>5. n >= imap'.next_inode => meant'[n] = {}
  BY <1>1, <1>4 DEF MeantOK
<1>6. /\ n \in DOMAIN imap.inode_to_path =>
             n \in DOMAIN imap'.inode_to_path /\ imap'.inode_to_path[n] = imap.inode_to_path[n]
      /\ n \notin DOMAIN imap.inode_to_path /\ n \in DOMAIN imap'.inode_to_path => meant[n] = {}
  BY DEF ExtendsMap, MeantOK
<1>7. ASSUME n \in DOMAIN imap'.inode_to_path, NEW i \in meant'[n]
      PROVE  Q[i] = imap'.inode_to_path[n] /\ i \in live' \cup unseen' \cup {Root}
  <2>1. CASE i \in L
    BY <2>1
  <2>2. CASE i \in meant[n]
    <3>1. n \in DOMAIN imap.inode_to_path
      BY <1>6, <1>7, <2>2
    <3>2. P[i] = imap.inode_to_path[n] /\ i \in live \cup unseen \cup {Root}
      BY <2>2, <3>1 DEF MeantOK
    <3> QED
      BY <2>2, <3>1, <3>2, <1>3, <1>6
  <2> QED
    BY <1>7, <2>1, <2>2
<1>8. n \notin DOMAIN imap'.inode_to_path => meant'[n] \cap live' = {}
  BY <1>3, <1>6 DEF MeantOK
<1>9. ASSUME NEW i \in meant'[n]
      PROVE  i < nextId' /\ (i \in live' /\ Q[i] = Q[at'[Mount]] => i = at'[Mount])
  <2>1. i < nextId' /\ i \in InodeIds /\ i \in Nat
    BY <1>2, <1>3, <1>9
  <2>2. ASSUME i \in live', Q[i] = Q[at'[Mount]] PROVE i = at'[Mount]
    <3>1. CASE at'[Mount] = Root
      <4>1. Root \in InodeIds /\ Root < nextId'
        BY <2>1, <1>2, BoundsAssumption DEF Root, InodeIds
      <4>2. Q[Root] = <<>>
        BY <4>1 DEF PathsOK
      <4> QED
        BY <2>1, <2>2, <3>1, <4>2 DEF PathsOK
    <3>2. CASE at'[Mount] \in live'
      <4>1. PICK j : j = at'[Mount] /\ j \in live' /\ j \in InodeIds /\ j \in Nat /\ j < nextId'
        BY <3>2, <1>2
      <4>2. ~(i < j) /\ ~(j < i)
        BY <2>1, <2>2, <4>1 DEF PathsOK
      <4> QED
        BY <2>1, <4>1, <4>2
    <3>3. CASE at'[Mount] = at[Mount] /\ L = {}
      <4>1. i \in meant[n] /\ i \in live
        BY <1>3, <1>9, <2>2, <3>3
      <4>2. at[Mount] \in InodeIds /\ at[Mount] < nextId
        BY MountAssumption DEF TreeInv, TypeOK, RequestOK
      <4> QED
        BY <4>1, <4>2, <2>2, <3>3, <1>3 DEF MeantOK
    <3> QED
      BY <3>1, <3>2, <3>3
  <2> QED
    BY <2>1, <2>2
<1>10. ASSUME NEW i \in meant'[n], NEW j \in meant'[n], i < j PROVE i \in unseen'
  <2>1. i \in InodeIds /\ j \in InodeIds /\ i \in Nat /\ j \in Nat /\ i < nextId' /\ j < nextId'
    BY <1>2, <1>3, <1>10
  <2>2. CASE i \in meant[n] /\ j \in meant[n]
    BY <2>2, <1>10 DEF MeantOK
  <2>3. CASE i \in L \/ j \in L
    <3>1. n \in DOMAIN imap'.inode_to_path
      BY <2>3
    <3>2. Q[i] = Q[j]
      BY <3>1, <1>7
    <3>3. i \notin live'
      BY <2>1, <3>2, <1>10 DEF PathsOK
    <3>4. i # Root
      <4>1. SUFFICES ASSUME i = Root PROVE FALSE
        OBVIOUS
      <4>2. Q[i] = <<>> /\ Q[j] = <<>>
        BY <4>1, <3>2, <2>1 DEF PathsOK
      <4>3. j = Root
        BY <4>2, <2>1 DEF PathsOK
      <4> QED
        BY <4>1, <4>3, <1>10, <2>1
    <3> QED
      BY <3>1, <3>3, <3>4, <1>7
  <2> QED
    BY <2>2, <2>3
<1> QED
  BY <1>5, <1>7, <1>8, <1>9, <1>10 DEF MeantOK

\* What has to be shown of a step.
LEMMA FuseInvFromParts ==
    ASSUME NEW Q, TreeInv', imap' \in MapRecs, MapSound(imap)',
           cb' \in [num : Numbers \cup {0}, path : Paths, rest : Seq({"stat", "file"})],
           meant' \in [Numbers -> SUBSET InodeIds], unseen' \subseteq InodeIds,
           PathsOK(Q)', \A d \in Clients : AimOK(Q, d)', CallbackOK(Q)',
           \A n \in Numbers : MeantOK(Q, n)'
    PROVE  FuseInv'
<1>1. FuseTypeOK'
  BY DEF FuseTypeOK, MapRecs, TreeInv
<1>2. PathInv(Q)' /\ Q \in [InodeIds -> Paths]
  BY DEF PathInv, PathsOK
<1> QED
  BY <1>1, <1>2 DEF FuseInv

\* What the invariant says.
LEMMA FuseInvParts ==
    ASSUME FuseInv
    PROVE  /\ TreeInv /\ imap \in MapRecs /\ MapSound(imap)
           /\ cb \in [num : Numbers \cup {0}, path : Paths, rest : Seq({"stat", "file"})]
           /\ meant \in [Numbers -> SUBSET InodeIds] /\ unseen \subseteq InodeIds
  BY DEF FuseInv, FuseTypeOK, MapRecs

LEMMA SameMap == ASSUME imap \in MapRecs PROVE ExtendsMap(imap, imap)
  BY MapParts DEF ExtendsMap

\* A step that adds no row and leaves the map and what the numbers mean alone.
LEMMA QuietStep ==
    ASSUME FuseInv, NEW P, PathInv(P), NEW c \in Clients,
           TreeInv', Shrinks, OthersStay(c), AimOK(P, c)',
           UNCHANGED <<imap, meant>>, unseen \subseteq unseen', unseen' \subseteq InodeIds,
           \A n \in Numbers : \A i \in meant[n] \cap live : i \in live' \cup unseen',
           at'[Mount] \in live' \cup {Root} \/ at'[Mount] = at[Mount],
           cb' \in [num : Numbers \cup {0}, path : Paths, rest : Seq({"stat", "file"})],
           CallbackOK(P)'
    PROVE  FuseInv'
<1>1. /\ TreeInv /\ imap \in MapRecs /\ MapSound(imap)
      /\ meant \in [Numbers -> SUBSET InodeIds]
  BY FuseInvParts
<1>2. PathsOK(P)' /\ \A d \in Clients : AimOK(P, d)'
  BY ShrinkKeepsPaths DEF PathInv
<1>3. imap' \in MapRecs /\ MapSound(imap)'
  BY <1>1 DEF MapSound
<1>4. ASSUME NEW n \in Numbers PROVE MeantOK(P, n)'
  <2>1. ExtendsMap(imap, imap')
    BY <1>1, SameMap
  <2>2. nextId <= nextId'
    BY <1>1, BoundsAssumption DEF Shrinks, TreeInv, TypeOK
  <2>3. \A i \in live' : i < nextId => i \in live
    BY DEF Shrinks
  <2>4. PICK L : L = {}
    OBVIOUS
  <2>5. PICK Q : Q = P
    OBVIOUS
  <2>6. meant'[n] = meant[n] \cup L /\ meant[n] \subseteq InodeIds
    BY <1>1, <2>4
  <2>7. MeantOK(P, n) /\ PathsOK(Q)'
    BY <1>2, <2>5 DEF PathInv
  <2>8. \A i \in InodeIds : i < nextId => Q[i] = P[i]
    BY <2>5
  <2>9. \A j \in L : j \in live' /\ n \in DOMAIN imap'.inode_to_path /\ Q[j] = imap'.inode_to_path[n]
    BY <2>4
  <2>10. at'[Mount] \in live' \cup {Root} \/ (at'[Mount] = at[Mount] /\ L = {})
    BY <2>4
  <2>11. \A i \in meant[n] \cap live : i \in live' \cup unseen'
    OBVIOUS
  <2>12. MeantOK(Q, n)'
    BY <1>1, <1>3, <2>1, <2>2, <2>3, <2>6, <2>7, <2>8, <2>9, <2>10, <2>11, MeaningGrows
  <2> QED
    BY <2>5, <2>12
<1> QED
  BY <1>1, <1>2, <1>3, <1>4, FuseInvFromParts

-----------------------------------------------------------------------------
(* The steps of the mount and of the others                                *)

CbRecs == [num : Numbers \cup {0}, path : Paths, rest : Seq({"stat", "file"})]

\* A backend call begins, for the path of the callback.
LEMMA CallBegins ==
    ASSUME FuseInv, NEW P, PathInv(P), NEW o \in Ops, NEW p \in Paths, Begin(Mount, o, p),
           cb' \in CbRecs, cb'.path = p,
           cb'.num # 0 =>
               cb'.num \in DOMAIN imap.inode_to_path /\ imap.inode_to_path[cb'.num] = p,
           UNCHANGED <<imap, meant, unseen>>
    PROVE  FuseInv'
<1>1. TreeInv /\ unseen \subseteq InodeIds /\ Mount \in Clients
  BY FuseInvParts, MountAssumption
<1>2. TreeInv' /\ Shrinks /\ OthersStay(Mount) /\ at'[Mount] = Root /\ pc'[Mount] = "walk"
  BY <1>1, BeginKeepsTree
<1>3. Aim(P[at'[Mount]], todo'[Mount], op'[Mount], leaf'[Mount]) = p /\ AimOK(P, Mount)'
  BY <1>1, AimBegins DEF PathInv
<1>4. CallbackOK(P)'
  BY <1>3 DEF CallbackOK
<1>5. live' = live
  BY DEF Begin, table
<1>6. unseen \subseteq unseen' /\ unseen' \subseteq InodeIds
  BY <1>1
<1>7. /\ \A n \in Numbers : \A i \in meant[n] \cap live : i \in live' \cup unseen'
      /\ at'[Mount] \in live' \cup {Root} \/ at'[Mount] = at[Mount]
  BY <1>2, <1>5
<1> QED
  BY <1>1, <1>2, <1>3, <1>4, <1>6, <1>7, QuietStep DEF CbRecs

LEMMA ByNameKeepsInv ==
    ASSUME FuseInv, NEW P, PathInv(P), NEW o \in NameOps, NEW n \in Numbers, NEW nm \in Names,
           ByName(o, n, nm)
    PROVE  FuseInv'
<1>1. PICK q : q = imap.inode_to_path[n]
  OBVIOUS
<1>2. PICK p : p = Append(q, nm)
  OBVIOUS
<1>3. /\ n \in DOMAIN imap.inode_to_path /\ Len(p) <= MaxDepth /\ ~IsHookPath(p)
      /\ Begin(Mount, o, p) /\ cb' = [NoCallback EXCEPT !.path = p]
      /\ UNCHANGED <<imap, meant, unseen>>
  BY <1>1, <1>2 DEF ByName
<1>4. q \in MapPaths
  BY <1>1, <1>3, FuseInvParts, MapParts
<1>5. q # HookPath
  <2>1. SUFFICES ASSUME q = <<HookName>> PROVE FALSE
    BY DEF HookPath
  <2>2. p # <<>> /\ Head(p) = HookName
    BY <1>2, <2>1
  <2> QED
    BY <2>2, <1>3 DEF IsHookPath
<1>6. q \in Seq(Names)
  BY <1>4, <1>5, PathsAreSequences DEF MapPaths
<1>7. p \in Seq(Names)
  BY <1>2, <1>6, AppendProperties
<1>8. p \in Paths
  BY <1>3, <1>7, PathsAreSequences
<1>9. cb' \in CbRecs /\ cb'.path = p /\ cb'.num = 0
  <2>1. <<>> \in Seq({"stat", "file"})
    OBVIOUS
  <2>2. cb' = [num |-> 0, path |-> p, rest |-> <<>>]
    BY <1>3 DEF NoCallback
  <2> QED
    BY <1>8, <2>1, <2>2 DEF CbRecs
<1>10. o \in Ops
  BY DEF NameOps, Ops, Reads
<1> QED
  BY <1>3, <1>8, <1>9, <1>10, CallBegins

LEMMA OneCall ==
    ASSUME NEW S, NEW x \in S
    PROVE  <<x>> \in Seq(S) /\ Len(<<x>>) = 1 /\ Head(<<x>>) = x /\ Tail(<<x>>) = <<>>
  OBVIOUS

\* The backend calls of a callback on a number.
LEMMA CallsOfCallbacks ==
    ASSUME NEW calls \in NumberCalls
    PROVE  Head(calls) \in {"stat", "file", "readdir"} /\ Tail(calls) \in Seq({"stat", "file"})
<1>1. CASE calls \in SetAttrCalls
  <2>1. PICK a \in {<<>>, <<"stat">>}, b \in {<<>>, <<"stat">>}, s \in {<<>>, Truncate} :
            calls = ((a \o b) \o s) \o <<"stat">>
    BY <1>1 DEF SetAttrCalls
  <2>2. PICK e \in Seq({"stat", "file"}) : e = <<"stat">> /\ Len(e) = 1
    <3>1. "stat" \in {"stat", "file"}
      OBVIOUS
    <3>2. <<"stat">> \in Seq({"stat", "file"}) /\ Len(<<"stat">>) = 1
      BY <3>1, OneCall
    <3> QED
      BY <3>2
  <2>3. a \in Seq({"stat", "file"}) /\ b \in Seq({"stat", "file"}) /\ s \in Seq({"stat", "file"})
    <3>1. "stat" \in {"stat", "file"} /\ "file" \in {"stat", "file"}
      OBVIOUS
    <3>2. <<"stat">> \in Seq({"stat", "file"}) /\ <<"file">> \in Seq({"stat", "file"})
      BY <3>1, OneCall
    <3>3. <<>> \in Seq({"stat", "file"})
      BY EmptySeq
    <3> QED
      BY <3>2, <3>3 DEF Truncate
  <2>4. PICK d \in Seq({"stat", "file"}) : d = (a \o b) \o s
    BY <2>3, ConcatProperties
  <2>5. d \o e \in Seq({"stat", "file"}) /\ Len(d \o e) = Len(d) + Len(e) /\ Len(d) \in Nat
    BY ConcatProperties, LenProperties
  <2>6. PICK w \in Seq({"stat", "file"}) : w = calls /\ w # <<>>
    <3>1. d \o e = calls
      BY <2>1, <2>2, <2>4
    <3>2. d \o e # <<>>
      BY <2>2, <2>5, EmptySeq
    <3> QED
      BY <2>5, <3>1, <3>2
  <2>7. Head(w) \in {"stat", "file"} /\ Tail(w) \in Seq({"stat", "file"})
    BY <2>6, HeadTailProperties
  <2> QED
    BY <2>6, <2>7
<1>2. CASE calls \in {<<"stat">>, ReadWrite, <<"readdir">>}
  <2>1. PICK x \in {"stat", "file", "readdir"} : calls = <<x>>
    BY <1>2 DEF ReadWrite
  <2>2. Head(calls) = x /\ Tail(calls) = <<>>
    BY <2>1, OneCall
  <2>3. <<>> \in Seq({"stat", "file"})
    BY EmptySeq
  <2> QED
    BY <2>1, <2>2, <2>3
<1> QED
  BY <1>1, <1>2 DEF NumberCalls

LEMMA ByNumberKeepsInv ==
    ASSUME FuseInv, NEW P, PathInv(P), NEW calls \in NumberCalls, NEW n \in Numbers,
           ByNumber(calls, n)
    PROVE  FuseInv'
<1>1. PICK p : p = imap.inode_to_path[n]
  OBVIOUS
<1>2. /\ n \in DOMAIN imap.inode_to_path /\ ~IsHookPath(p) /\ Begin(Mount, Head(calls), p)
      /\ cb' = [num |-> n, path |-> p, rest |-> Tail(calls)]
      /\ UNCHANGED <<imap, meant, unseen>>
  BY <1>1 DEF ByNumber
<1>3. p \in MapPaths
  BY <1>1, <1>2, FuseInvParts, MapParts
<1>4. p # HookPath
  BY <1>2 DEF HookPath, IsHookPath
<1>5. p \in Paths
  BY <1>3, <1>4 DEF MapPaths
<1>6. Head(calls) \in Ops /\ Tail(calls) \in Seq({"stat", "file"})
  BY CallsOfCallbacks DEF Ops, Reads
<1>7. cb' \in CbRecs /\ cb'.path = p /\ cb'.num = n
  BY <1>2, <1>5, <1>6 DEF CbRecs
<1> QED
  BY <1>1, <1>2, <1>5, <1>6, <1>7, CallBegins

LEMMA NextCallKeepsInv ==
    ASSUME FuseInv, NEW P, PathInv(P), NextCall
    PROVE  FuseInv'
<1>1. cb \in CbRecs
  BY FuseInvParts DEF CbRecs
<1>2. PICK w \in Seq({"stat", "file"}) : w = cb.rest /\ w # <<>>
  BY <1>1 DEF CbRecs, NextCall
<1>3. Head(w) \in {"stat", "file"} /\ Tail(w) \in Seq({"stat", "file"})
  BY <1>2, HeadTailProperties
<1>4. cb' = [cb EXCEPT !.rest = Tail(w)] /\ UNCHANGED <<imap, meant, unseen>>
  BY <1>2 DEF NextCall
<1>5. cb' \in CbRecs /\ cb'.path = cb.path /\ cb'.num = cb.num
  BY <1>1, <1>3, <1>4 DEF CbRecs
<1>6. Head(w) \in Ops /\ cb.path \in Paths
  BY <1>1, <1>3 DEF CbRecs, Ops, Reads
<1>7. Begin(Mount, Head(w), cb.path)
  BY <1>2 DEF NextCall
<1>8. cb.num # 0 =>
          cb.num \in DOMAIN imap.inode_to_path /\ imap.inode_to_path[cb.num] = cb.path
  BY DEF PathInv, CallbackOK
<1> QED
  BY <1>4, <1>5, <1>6, <1>7, <1>8, CallBegins

LEMMA NoCallbackIsOne == NoCallback \in CbRecs /\ NoCallback.num = 0
<1>1. <<>> \in Seq({"stat", "file"}) /\ <<>> \in Seq(Names) /\ Len(<<>>) = 0
  BY EmptySeq
<1>2. <<>> \in Paths
  <2>1. 0 <= MaxDepth
    BY BoundsAssumption
  <2>2. <<>> \in Seq(Names) /\ Len(<<>>) <= MaxDepth
    BY <1>1, <2>1, Zenon
  <2> QED
    BY <2>2, PathsAreSequences, Zenon
<1> QED
  BY <1>1, <1>2 DEF NoCallback, CbRecs

\* A statement of the mount that replies nothing: the callback ends with an
\* error, or goes on.
LEMMA MountQuiet ==
    ASSUME FuseInv, NEW P, PathInv(P), TreeInv', OthersStay(Mount), UNCHANGED table,
           \/ Ends(Mount) /\ cb' = NoCallback
           \/ StaysAt(Mount) /\ cb' = cb,
           UNCHANGED <<imap, meant, unseen>>
    PROVE  FuseInv'
<1>1. /\ TreeInv /\ unseen \subseteq InodeIds /\ cb \in CbRecs /\ Mount \in Clients
      /\ CallbackOK(P) /\ AimOK(P, Mount)
  BY FuseInvParts, MountAssumption DEF CbRecs, PathInv
<1>2. Shrinks /\ live' = live
  BY <1>1, TableStays DEF table
<1>3. AimOK(P, Mount)'
  BY <1>1, AimStays
<1>4. cb' \in CbRecs /\ CallbackOK(P)'
  <2>1. CASE Ends(Mount) /\ cb' = NoCallback
    BY <2>1, NoCallbackIsOne DEF CallbackOK, Ends
  <2>2. CASE StaysAt(Mount) /\ cb' = cb
    BY <2>2, <1>1 DEF CallbackOK, StaysAt
  <2> QED
    BY <2>1, <2>2
<1>5. unseen \subseteq unseen' /\ unseen' \subseteq InodeIds
  BY <1>1
<1>6. /\ \A n \in Numbers : \A i \in meant[n] \cap live : i \in live' \cup unseen'
      /\ at'[Mount] \in live' \cup {Root} \/ at'[Mount] = at[Mount]
  BY <1>2 DEF Ends, StaysAt
<1> QED
  BY <1>1, <1>2, <1>3, <1>4, <1>5, <1>6, QuietStep DEF CbRecs

LEMMA MountWorksKeepsInv ==
    ASSUME FuseInv, NEW P, PathInv(P), MountWorks
    PROVE  FuseInv'
<1>1. /\ TreeInv /\ unseen \subseteq InodeIds /\ cb \in CbRecs /\ Mount \in Clients
      /\ CallbackOK(P) /\ AimOK(P, Mount) /\ PathsOK(P)
  BY FuseInvParts, MountAssumption DEF CbRecs, PathInv
<1>2. /\ IF pc'[Mount] = "idle" THEN cb' = NoCallback ELSE cb' = cb
      /\ UNCHANGED <<imap, meant, unseen>>
  BY DEF MountWorks, Finish
<1>3. CASE Walk(Mount)
  <2>1. TreeInv' /\ Shrinks /\ OthersStay(Mount)
    BY <1>1, <1>3, WalkKeepsTree
  <2>2. UNCHANGED table /\ live' = live
    BY <1>3 DEF Walk, table
  <2>3. /\ AimOK(P, Mount)'
        /\ (pc'[Mount] = "idle" /\ at'[Mount] = Root)
           \/ /\ pc[Mount] = "walk" /\ pc'[Mount] = "walk" /\ at'[Mount] \in live
              /\ Aim(P[at'[Mount]], todo'[Mount], op'[Mount], leaf'[Mount]) =
                    Aim(P[at[Mount]], todo[Mount], op[Mount], leaf[Mount])
    BY <1>1, <1>3, AimWalks
  <2>4. CASE pc'[Mount] = "idle" /\ at'[Mount] = Root
    BY <1>2, <2>1, <2>2, <2>4, MountQuiet DEF Ends
  <2>5. CASE /\ pc[Mount] = "walk" /\ pc'[Mount] = "walk" /\ at'[Mount] \in live
             /\ Aim(P[at'[Mount]], todo'[Mount], op'[Mount], leaf'[Mount]) =
                   Aim(P[at[Mount]], todo[Mount], op[Mount], leaf[Mount])
    <3>1. cb' = cb /\ cb' \in CbRecs
      BY <1>1, <1>2, <2>5
    <3>2. CallbackOK(P)'
      BY <1>1, <1>2, <2>5, <3>1 DEF CallbackOK
    <3>3. unseen \subseteq unseen' /\ unseen' \subseteq InodeIds
      BY <1>1, <1>2
    <3>4. /\ \A n \in Numbers : \A i \in meant[n] \cap live : i \in live' \cup unseen'
          /\ at'[Mount] \in live' \cup {Root} \/ at'[Mount] = at[Mount]
      BY <2>2, <2>5
    <3> QED
      BY <1>1, <1>2, <2>1, <2>3, <3>1, <3>2, <3>3, <3>4, QuietStep DEF CbRecs
  <2> QED
    BY <2>3, <2>4, <2>5
<1>4. CASE Lookup(Mount)
  <2>1. TreeInv' /\ OthersStay(Mount) /\ (Ends(Mount) \/ StaysAt(Mount)) /\ UNCHANGED table
    BY <1>1, <1>4, LookupKeepsTree DEF Lookup
  <2> QED
    BY <1>2, <2>1, MountQuiet DEF Ends, StaysAt
<1>5. CASE DeleteBlocks(Mount)
  <2>1. TreeInv' /\ OthersStay(Mount) /\ StaysAt(Mount) /\ UNCHANGED table
    BY <1>1, <1>5, DeleteBlocksKeepsTree DEF DeleteBlocks
  <2> QED
    BY <1>2, <2>1, MountQuiet DEF StaysAt
<1> QED
  BY <1>3, <1>4, <1>5 DEF MountWorks

\* A step after which the mount replies: numbers are given out, and stand for
\* inodes that exist at their paths.
LEMMA ReplyStep ==
    ASSUME FuseInv, NEW P, PathInv(P), NEW Q, TreeInv', PathsOK(Q)',
           \A d \in Clients : AimOK(Q, d)',
           \A i \in InodeIds : i < nextId => Q[i] = P[i],
           nextId <= nextId', live \subseteq live', \A i \in live' : i < nextId => i \in live,
           imap' \in MapRecs, MapSound(imap)', ExtendsMap(imap, imap'),
           unseen' = unseen, meant' \in [Numbers -> SUBSET InodeIds],
           NEW L, \A n \in Numbers : meant'[n] = meant[n] \cup L[n],
           \A n \in Numbers : \A j \in L[n] :
               j \in live' /\ n \in DOMAIN imap'.inode_to_path /\ Q[j] = imap'.inode_to_path[n],
           pc'[Mount] = "idle", at'[Mount] = Root, cb' = NoCallback \/ cb' = cb
    PROVE  FuseInv'
<1>1. /\ TreeInv /\ imap \in MapRecs /\ cb \in CbRecs /\ unseen \subseteq InodeIds
      /\ meant \in [Numbers -> SUBSET InodeIds] /\ CallbackOK(P)
  BY FuseInvParts DEF CbRecs, PathInv
<1>2. CallbackOK(Q)' /\ cb' \in CbRecs
  <2>1. CASE cb' = NoCallback
    BY <2>1, NoCallbackIsOne DEF CallbackOK
  <2>2. CASE cb' = cb
    BY <2>2, <1>1 DEF CallbackOK, ExtendsMap
  <2> QED
    BY <2>1, <2>2
<1>3. ASSUME NEW n \in Numbers PROVE MeantOK(Q, n)'
  <2>1. PICK S : S = L[n]
    OBVIOUS
  <2>2. meant'[n] = meant[n] \cup S /\ meant[n] \subseteq InodeIds
    BY <1>1, <2>1
  <2>3. \A j \in S : j \in live' /\ n \in DOMAIN imap'.inode_to_path /\ Q[j] = imap'.inode_to_path[n]
    BY <2>1
  <2>4. MeantOK(P, n)
    BY DEF PathInv
  <2>5. at'[Mount] \in live' \cup {Root} \/ (at'[Mount] = at[Mount] /\ S = {})
    OBVIOUS
  <2>6. unseen \subseteq unseen' /\ \A i \in meant[n] \cap live : i \in live' \cup unseen'
    OBVIOUS
  <2> QED
    BY <1>1, <2>2, <2>3, <2>4, <2>5, <2>6, MeaningGrows
<1>4. unseen' \subseteq InodeIds
  BY <1>1
<1> QED
  BY <1>2, <1>3, <1>4, FuseInvFromParts DEF CbRecs

LEMMA LookupHookKeepsInv ==
    ASSUME FuseInv, NEW P, PathInv(P), LookupHook
    PROVE  FuseInv'
<1>1. /\ TreeInv /\ imap \in MapRecs /\ MapSound(imap)
      /\ meant \in [Numbers -> SUBSET InodeIds] /\ Mount \in Clients
      /\ PathsOK(P) /\ \A d \in Clients : AimOK(P, d)
  BY FuseInvParts, MountAssumption DEF PathInv
<1>2. /\ pc[Mount] = "idle" /\ imap' = GetOrCreate(imap, HookPath)
      /\ imap'.next_inode <= MaxNumbers + 1 /\ UNCHANGED <<vars, cb, meant, unseen>>
  BY DEF LookupHook, Idle
<1>3. HookPath \in MapPaths
  BY DEF MapPaths
<1>4. imap' \in MapRecs /\ MapSound(imap') /\ ExtendsMap(imap, imap')
  BY <1>1, <1>2, <1>3, GetOrCreateSound
<1>5. at[Mount] = Root
  BY <1>1, <1>2 DEF TreeInv, RequestOK
<1>6. TreeInv'
  BY <1>1, <1>2 DEF TreeInv, TypeOK, TreeOfDirectories, RequestOK, Children, vars
<1>7. PathsOK(P)' /\ \A d \in Clients : AimOK(P, d)'
  BY <1>1, <1>2 DEF PathsOK, AimOK, vars
<1>8. PICK L : L = [n \in Numbers |-> {}]
  OBVIOUS
<1>9. /\ \A n \in Numbers : meant'[n] = meant[n] \cup L[n]
      /\ \A n \in Numbers : \A j \in L[n] :
             j \in live' /\ n \in DOMAIN imap'.inode_to_path /\ P[j] = imap'.inode_to_path[n]
  BY <1>2, <1>8
<1>10. /\ nextId <= nextId' /\ live \subseteq live' /\ \A i \in live' : i < nextId => i \in live
       /\ pc'[Mount] = "idle" /\ at'[Mount] = Root /\ cb' = cb /\ unseen' = unseen
       /\ meant' \in [Numbers -> SUBSET InodeIds]
  BY <1>1, <1>2, <1>5, BoundsAssumption DEF vars, TreeInv, TypeOK
<1>11. MapSound(imap)'
  BY <1>4 DEF MapSound
<1>12. PICK Q : Q = P
  OBVIOUS
<1>13. \A i \in InodeIds : i < nextId => Q[i] = P[i]
  BY <1>12
<1> QED
  BY <1>4, <1>6, <1>7, <1>9, <1>10, <1>11, <1>12, <1>13, ReplyStep

\* Where the mount has arrived when everything is walked
LEMMA MountArrived ==
    ASSUME FuseInv, NEW P, PathInv(P), pc[Mount] # "idle", todo[Mount] = <<>>
    PROVE  P[at[Mount]] \in Seq(Names) /\
           cb.path = IF op[Mount] \in Creates THEN Append(P[at[Mount]], leaf[Mount]) ELSE P[at[Mount]]
<1>1. /\ TreeInv /\ Mount \in Clients /\ PathsOK(P)
      /\ Aim(P[at[Mount]], todo[Mount], op[Mount], leaf[Mount]) = cb.path
  BY FuseInvParts, MountAssumption DEF PathInv, CallbackOK
<1>2. PICK p \in Seq(Names) : p = P[at[Mount]]
  <2>1. P[at[Mount]] \in Paths
    BY <1>1 DEF PathsOK, TreeInv, TypeOK
  <2> QED
    BY <2>1, PathsAreSequences
<1>3. op[Mount] \in Creates => leaf[Mount] \in Names
  BY <1>1 DEF TreeInv, RequestOK
<1>4. Aim(p, <<>>, op[Mount], leaf[Mount]) = IF op[Mount] \in Creates THEN Append(p, leaf[Mount]) ELSE p
  BY <1>3, AimAtLast
<1> QED
  BY <1>1, <1>2, <1>4

\* The reply for one inode
LEMMA MeansOne ==
    ASSUME meant \in [Numbers -> SUBSET InodeIds], NEW x \in Numbers, NEW i \in InodeIds, Means(x, i)
    PROVE  \E L : /\ \A n \in Numbers : meant'[n] = meant[n] \cup L[n]
                  /\ \A n \in Numbers : \A j \in L[n] : n = x /\ j = i
                  /\ meant' \in [Numbers -> SUBSET InodeIds]
<1>1. PICK L : L = [n \in Numbers |-> IF n = x THEN {i} ELSE {}]
  OBVIOUS
<1>2. \A n \in Numbers : meant'[n] = meant[n] \cup L[n]
  BY <1>1 DEF Means
<1>3. \A n \in Numbers : \A j \in L[n] : n = x /\ j = i
  BY <1>1
<1>4. meant' \in [Numbers -> SUBSET InodeIds]
  BY DEF Means
<1> QED
  BY <1>2, <1>3, <1>4

LEMMA MountResolvedKeepsInv ==
    ASSUME FuseInv, NEW P, PathInv(P), MountResolved
    PROVE  FuseInv'
<1>1. /\ TreeInv /\ imap \in MapRecs /\ MapSound(imap) /\ cb \in CbRecs
      /\ meant \in [Numbers -> SUBSET InodeIds] /\ Mount \in Clients
      /\ PathsOK(P) /\ CallbackOK(P) /\ \A d \in Clients : AimOK(P, d)
  BY FuseInvParts, MountAssumption DEF PathInv, CbRecs
<1>2. Resolved(Mount) /\ unseen' = unseen
  BY DEF MountResolved
<1>3. TreeInv' /\ Shrinks /\ OthersStay(Mount) /\ (Ends(Mount) \/ StaysAt(Mount))
  BY <1>1, <1>2, ResolvedKeepsTree
<1>4. UNCHANGED table /\ pc[Mount] = "walk" /\ todo[Mount] = <<>>
  BY <1>2 DEF Resolved
<1>5. CASE pc'[Mount] # "idle"
  <2>1. StaysAt(Mount) /\ cb' = cb /\ UNCHANGED <<imap, meant, unseen>>
    BY <1>2, <1>3, <1>5 DEF MountResolved, Ends
  <2> QED
    BY <1>3, <1>4, <2>1, MountQuiet
<1>6. CASE pc'[Mount] = "idle" /\ ~Found(Mount)
  <2>1. Ends(Mount) /\ cb' = NoCallback /\ UNCHANGED <<imap, meant, unseen>>
    BY <1>2, <1>3, <1>6 DEF MountResolved, StaysAt, Finish
  <2> QED
    BY <1>3, <1>4, <2>1, MountQuiet
<1>7. CASE pc'[Mount] = "idle" /\ Found(Mount)
  <2>1. at[Mount] \in live /\ at[Mount] \in InodeIds
    BY <1>1, <1>7 DEF Found, TreeInv, TypeOK
  <2>2. op[Mount] \in {"stat", "file"}
    <3>1. SUFFICES ASSUME op[Mount] \notin {"stat", "file"} PROVE FALSE
      OBVIOUS
    <3>2. PICK label : label = CASE op[Mount] \in Creates -> "lookup"
                                 [] op[Mount] \in {"rmdir", "readdir"} -> "list"
                                 [] op[Mount] = "unlink" -> "blocks"
      OBVIOUS
    <3>3. Goto(Mount, label)
      BY <1>2, <1>7, <3>1, <3>2 DEF Resolved
    <3>4. label \in {"lookup", "list", "blocks"}
      BY <1>1, <3>1, <3>2 DEF TreeInv, TypeOK, Ops, Creates, Removes, Reads
    <3>5. pc'[Mount] = label
      BY <1>1, <3>3 DEF Goto, TreeInv, TypeOK
    <3> QED
      BY <1>7, <3>4, <3>5
  <2>3. P[at[Mount]] = cb.path
    BY <1>4, <2>2, MountArrived DEF Creates
  <2>4. Ends(Mount)
    BY <1>3, <1>7 DEF StaysAt
  <2>5. PathsOK(P)' /\ \A d \in Clients : AimOK(P, d)'
    BY <1>1, <1>3, <2>4, AimStays, ShrinkKeepsPaths
  <2>6. PICK Q : Q = P
    OBVIOUS
  <2>7. \A i \in InodeIds : i < nextId => Q[i] = P[i]
    BY <2>6
  <2>8. /\ nextId <= nextId' /\ live \subseteq live' /\ \A i \in live' : i < nextId => i \in live
        /\ pc'[Mount] = "idle" /\ at'[Mount] = Root
    BY <1>1, <1>4, <2>4, BoundsAssumption DEF Ends, table, TreeInv, TypeOK
  <2>9. CASE cb.num # 0
    <3>1. Means(cb.num, at[Mount]) /\ imap' = imap /\ (cb' = NoCallback \/ cb' = cb)
      BY <1>7, <2>9 DEF MountResolved, Finish
    <3>2. cb.num \in Numbers /\ cb.num \in DOMAIN imap.inode_to_path /\ imap.inode_to_path[cb.num] = cb.path
      BY <1>1, <2>9 DEF CbRecs, CallbackOK
    <3>3. PICK L : /\ \A n \in Numbers : meant'[n] = meant[n] \cup L[n]
                   /\ \A n \in Numbers : \A j \in L[n] : n = cb.num /\ j = at[Mount]
                   /\ meant' \in [Numbers -> SUBSET InodeIds]
      <4>1. PICK x \in Numbers : x = cb.num
        BY <3>2
      <4>2. \E L : /\ \A n \in Numbers : meant'[n] = meant[n] \cup L[n]
                   /\ \A n \in Numbers : \A j \in L[n] : n = x /\ j = at[Mount]
                   /\ meant' \in [Numbers -> SUBSET InodeIds]
        BY <1>1, <2>1, <3>1, <4>1, MeansOne
      <4> QED
        BY <4>1, <4>2
    <3>4. \A n \in Numbers : \A j \in L[n] :
              j \in live' /\ n \in DOMAIN imap'.inode_to_path /\ Q[j] = imap'.inode_to_path[n]
      BY <2>1, <2>3, <2>6, <2>8, <3>1, <3>2, <3>3
    <3>5. imap' \in MapRecs /\ MapSound(imap)' /\ ExtendsMap(imap, imap')
      BY <1>1, <3>1, SameMap DEF MapSound
    <3> QED
      BY <1>2, <1>3, <2>5, <2>6, <2>7, <2>8, <3>1, <3>3, <3>4, <3>5, ReplyStep
  <2>10. CASE cb.num = 0
    <3>1. /\ imap' = GetOrCreate(imap, cb.path) /\ imap'.next_inode <= MaxNumbers + 1
          /\ Means(imap'.path_to_inode[cb.path], at[Mount]) /\ cb' = NoCallback
      BY <1>7, <2>10 DEF MountResolved, Finish
    <3>2. cb.path \in MapPaths
      BY <1>1 DEF CbRecs, MapPaths
    <3>3. imap' \in MapRecs /\ MapSound(imap') /\ ExtendsMap(imap, imap') /\ cb.path \in DOMAIN imap'.path_to_inode
      BY <1>1, <3>1, <3>2, GetOrCreateSound
    <3>4. PICK x \in Numbers : x = imap'.path_to_inode[cb.path]
      BY <3>3, MapParts
    <3>5. x \in DOMAIN imap'.inode_to_path /\ imap'.inode_to_path[x] = cb.path
      BY <3>3, <3>4 DEF MapSound
    <3>6. PICK L : /\ \A n \in Numbers : meant'[n] = meant[n] \cup L[n]
                   /\ \A n \in Numbers : \A j \in L[n] : n = x /\ j = at[Mount]
                   /\ meant' \in [Numbers -> SUBSET InodeIds]
      BY <1>1, <2>1, <3>1, <3>4, MeansOne
    <3>7. \A n \in Numbers : \A j \in L[n] :
              j \in live' /\ n \in DOMAIN imap'.inode_to_path /\ Q[j] = imap'.inode_to_path[n]
      BY <2>1, <2>3, <2>6, <2>8, <3>5, <3>6
    <3>8. MapSound(imap)'
      BY <3>3 DEF MapSound
    <3> QED
      BY <1>2, <1>3, <2>5, <2>6, <2>7, <2>8, <3>1, <3>3, <3>6, <3>7, <3>8, ReplyStep
  <2> QED
    BY <2>9, <2>10
<1> QED
  BY <1>5, <1>6, <1>7

LEMMA MountInsertedKeepsInv ==
    ASSUME FuseInv, NEW P, PathInv(P), MountInserted
    PROVE  FuseInv'
<1>1. /\ TreeInv /\ imap \in MapRecs /\ MapSound(imap) /\ cb \in CbRecs
      /\ meant \in [Numbers -> SUBSET InodeIds] /\ Mount \in Clients
      /\ PathsOK(P) /\ \A d \in Clients : AimOK(P, d)
  BY FuseInvParts, MountAssumption DEF PathInv, CbRecs
<1>2. Insert(Mount) /\ unseen' = unseen /\ cb' = NoCallback
  BY DEF MountInserted, Finish
<1>3. /\ TreeInv' /\ OthersStay(Mount) /\ Ends(Mount)
      /\ IF InsertAllowed(Mount) THEN Adds(Mount) ELSE UNCHANGED table /\ Shrinks
  BY <1>1, <1>2, InsertKeepsTree
<1>4. nextId \notin live /\ nextId \in Nat /\ \A i \in live : i \in InodeIds /\ i < nextId
  BY <1>1, BoundsAssumption DEF TreeInv, TypeOK, InodeIds
<1>5. CASE ~InsertAllowed(Mount)
  <2>1. UNCHANGED table /\ nextId \notin live'
    BY <1>3, <1>4, <1>5 DEF table
  <2>2. UNCHANGED <<imap, meant, unseen>>
    BY <1>2, <2>1 DEF MountInserted
  <2> QED
    BY <1>2, <1>3, <2>1, <2>2, MountQuiet
<1>6. CASE InsertAllowed(Mount)
  <2>1. Adds(Mount)
    BY <1>3, <1>6
  <2>2. /\ nextId \in InodeIds /\ nextId' = nextId + 1 /\ live' = live \cup {nextId}
        /\ pc[Mount] = "insert"
    BY <2>1 DEF Adds
  <2>3. PICK Q \in [InodeIds -> Paths] :
              /\ PathsOK(Q)' /\ (\A d \in Clients : AimOK(Q, d)')
              /\ \A i \in InodeIds : i < nextId => Q[i] = P[i]
              /\ Q[nextId] = Aim(P[at[Mount]], todo[Mount], op[Mount], leaf[Mount])
    BY <1>1, <1>3, <2>1, GrowExtendsPaths
  <2>4. Q[nextId] = cb.path
    BY <2>2, <2>3 DEF PathInv, CallbackOK
  <2>5. /\ imap' = GetOrCreate(imap, cb.path) /\ imap'.next_inode <= MaxNumbers + 1
        /\ Means(imap'.path_to_inode[cb.path], nextId)
    BY <2>2 DEF MountInserted
  <2>6. cb.path \in MapPaths
    BY <1>1 DEF CbRecs, MapPaths
  <2>7. imap' \in MapRecs /\ MapSound(imap') /\ ExtendsMap(imap, imap') /\ cb.path \in DOMAIN imap'.path_to_inode
    BY <1>1, <2>5, <2>6, GetOrCreateSound
  <2>8. PICK x \in Numbers : x = imap'.path_to_inode[cb.path]
    BY <2>7, MapParts
  <2>9. x \in DOMAIN imap'.inode_to_path /\ imap'.inode_to_path[x] = cb.path
    BY <2>7, <2>8 DEF MapSound
  <2>10. PICK L : /\ \A n \in Numbers : meant'[n] = meant[n] \cup L[n]
                  /\ \A n \in Numbers : \A j \in L[n] : n = x /\ j = nextId
                  /\ meant' \in [Numbers -> SUBSET InodeIds]
    BY <1>1, <2>2, <2>5, <2>8, MeansOne
  <2>11. \A n \in Numbers : \A j \in L[n] :
             j \in live' /\ n \in DOMAIN imap'.inode_to_path /\ Q[j] = imap'.inode_to_path[n]
    BY <2>2, <2>4, <2>9, <2>10
  <2>12. MapSound(imap)'
    BY <2>7 DEF MapSound
  <2>13. /\ nextId <= nextId' /\ live \subseteq live' /\ \A i \in live' : i < nextId => i \in live
         /\ pc'[Mount] = "idle" /\ at'[Mount] = Root
    BY <1>3, <1>4, <2>2 DEF Ends
  <2> QED
    BY <1>2, <1>3, <2>3, <2>7, <2>10, <2>11, <2>12, <2>13, ReplyStep
<1> QED
  BY <1>5, <1>6

\* What one map extends, and another one extends further.
LEMMA ExtendsTwice ==
    ASSUME NEW a \in MapRecs, NEW b \in MapRecs, NEW d \in MapRecs, ExtendsMap(a, b), ExtendsMap(b, d)
    PROVE  ExtendsMap(a, d)
<1>1. a.next_inode \in Nat /\ b.next_inode \in Nat /\ d.next_inode \in Nat
  BY MapParts
<1>2. \A n \in DOMAIN d.inode_to_path : n \in Nat
  BY MapParts
<1> QED
  BY <1>1, <1>2 DEF ExtendsMap

\* readdir numbers every entry, and the virtual directory in the root.
LEMMA NumberListedSound ==
    ASSUME NEW m \in MapRecs, MapSound(m), NEW ps \in SUBSET MapPaths, IsFiniteSet(ps),
           NEW num \in Numberings(m, ps),
           NEW r, r = NumberListed(m, num), r.next_inode <= MaxNumbers + 1
    PROVE  r \in MapRecs /\ MapSound(r) /\ ExtendsMap(m, r) /\ ps \subseteq DOMAIN r.path_to_inode
<1>1. PICK e : e = GetOrCreateEach(m, num)
  OBVIOUS
<1>2. CASE cb.path # <<>>
  <2>1. r = e
    BY <1>1, <1>2 DEF NumberListed
  <2> QED
    BY <1>1, <2>1, GetOrCreateEachSound
<1>3. CASE cb.path = <<>>
  <2>1. r = GetOrCreate(e, HookPath)
    BY <1>1, <1>3 DEF NumberListed
  <2>2. e.next_inode \in Nat
    <3>1. m.next_inode \in Nat
      BY MapParts
    <3>2. DOMAIN num \subseteq ps
      BY DEF Numberings, Injection
    <3>3. Cardinality(DOMAIN num) \in Nat
      BY <3>2, FS_Subset, FS_CardinalityType
    <3>4. e.next_inode = m.next_inode + Cardinality(DOMAIN num)
      BY <1>1 DEF GetOrCreateEach
    <3> QED
      BY <3>1, <3>3, <3>4
  <2>3. e.next_inode <= r.next_inode
    <3>1. CASE HookPath \in DOMAIN e.path_to_inode
      BY <2>1, <2>2, <3>1 DEF GetOrCreate
    <3>2. CASE HookPath \notin DOMAIN e.path_to_inode
      <4>1. r.next_inode = e.next_inode + 1
        BY <1>1, <2>1, <3>2 DEF GetOrCreate, MapInsert, GetOrCreateEach
      <4> QED
        BY <4>1, <2>2
    <3> QED
      BY <3>1, <3>2
  <2>4. e.next_inode <= MaxNumbers + 1
    <3>1. r.next_inode \in Nat
      BY <1>1, <2>1, <2>2 DEF GetOrCreate, MapInsert, GetOrCreateEach
    <3> QED
      BY <3>1, <2>2, <2>3, MountAssumption
  <2>5. e \in MapRecs /\ MapSound(e) /\ ExtendsMap(m, e) /\ ps \subseteq DOMAIN e.path_to_inode
    BY <1>1, <2>4, GetOrCreateEachSound
  <2>6. HookPath \in MapPaths
    BY DEF MapPaths
  <2>7. r \in MapRecs /\ MapSound(r) /\ ExtendsMap(e, r)
    BY <2>1, <2>5, <2>6, GetOrCreateSound
  <2>8. ExtendsMap(m, r)
    BY <2>5, <2>7, ExtendsTwice
  <2>9. ASSUME NEW p \in ps PROVE p \in DOMAIN r.path_to_inode
    <3>1. PICK n : n \in DOMAIN e.inode_to_path /\ e.inode_to_path[n] = p
      BY <2>5 DEF MapSound
    <3>2. n \in DOMAIN r.inode_to_path /\ r.inode_to_path[n] = p
      BY <2>7, <3>1 DEF ExtendsMap
    <3> QED
      BY <2>7, <3>2 DEF MapSound
  <2> QED
    BY <2>7, <2>8, <2>9
<1> QED
  BY <1>2, <1>3

LEMMA MountListedKeepsInv ==
    ASSUME FuseInv, NEW P, PathInv(P), MountListed
    PROVE  FuseInv'
<1>1. /\ TreeInv /\ imap \in MapRecs /\ MapSound(imap) /\ cb \in CbRecs
      /\ meant \in [Numbers -> SUBSET InodeIds] /\ Mount \in Clients
      /\ PathsOK(P) /\ CallbackOK(P) /\ \A d \in Clients : AimOK(P, d)
  BY FuseInvParts, MountAssumption DEF PathInv, CbRecs
<1>2. /\ ListChildren(Mount) /\ unseen' = unseen /\ pc[Mount] = "list" /\ UNCHANGED table
      /\ IF pc'[Mount] = "idle" THEN cb' = NoCallback ELSE cb' = cb
  BY DEF MountListed, ListChildren, Finish
<1>3. /\ TreeInv' /\ Shrinks /\ OthersStay(Mount)
      /\ (op[Mount] = "rmdir" /\ StaysAt(Mount)) \/ Ends(Mount)
  BY <1>1, <1>2, ListChildrenKeepsTree
<1>4. CASE op[Mount] # "readdir"
  <2>1. UNCHANGED <<imap, meant, unseen>>
    BY <1>2, <1>4 DEF MountListed
  <2>2. (Ends(Mount) /\ cb' = NoCallback) \/ (StaysAt(Mount) /\ cb' = cb)
    BY <1>2, <1>3 DEF Ends, StaysAt
  <2> QED
    BY <1>2, <1>3, <2>1, <2>2, MountQuiet
<1>5. CASE op[Mount] = "readdir"
  <2>1. Ends(Mount) /\ cb' = NoCallback
    BY <1>2, <1>3, <1>5 DEF Ends
  <2>2. P[at[Mount]] = cb.path
    <3>1. todo[Mount] = <<>> /\ op[Mount] \notin Creates
      BY <1>1, <1>2 DEF TreeInv, RequestOK
    <3> QED
      BY <1>2, <3>1, MountArrived
  <2>3. PICK num \in Numberings(imap, ListedPaths) : imap' = NumberListed(imap, num)
    BY <1>5 DEF MountListed
  <2>4. imap'.next_inode <= MaxNumbers + 1
    BY <1>5 DEF MountListed
  <2>5. \A i \in Children(at[Mount]) :
            /\ i \in live /\ i \in InodeIds /\ P[i] = Append(cb.path, name[i])
            /\ Append(cb.path, name[i]) \in Paths
    <3>1. ASSUME NEW i \in Children(at[Mount])
          PROVE  i \in live /\ i \in InodeIds /\ P[i] = Append(cb.path, name[i])
      BY <1>1, <2>2 DEF Children, PathsOK, TreeInv, TypeOK
    <3>2. \A i \in InodeIds : P[i] \in Paths
      BY <1>1 DEF PathsOK
    <3> QED
      BY <3>1, <3>2
  <2>6. ListedPaths \in SUBSET MapPaths
    BY <2>5 DEF ListedPaths, MapPaths
  <2>7. IsFiniteSet(ListedPaths)
    <3>1. 1 \in Int /\ MaxInodes \in Int
      BY BoundsAssumption
    <3>2. IsFiniteSet(InodeIds)
      BY <3>1, FS_Interval DEF InodeIds
    <3>3. PICK S : S = Children(at[Mount])
      OBVIOUS
    <3>4. IsFiniteSet(S)
      <4>1. S \subseteq InodeIds
        BY <2>5, <3>3
      <4> QED
        BY <4>1, <3>2, FS_Subset
    <3>5. PICK f : f = [i \in S |-> Append(cb.path, name[i])]
      OBVIOUS
    <3>6. f \in Surjection(S, ListedPaths)
      BY <3>3, <3>5 DEF ListedPaths, Surjection
    <3> QED
      BY <3>4, <3>6, FS_Surjection
  <2>8. /\ imap' \in MapRecs /\ MapSound(imap') /\ ExtendsMap(imap, imap')
        /\ ListedPaths \subseteq DOMAIN imap'.path_to_inode
    BY <1>1, <2>3, <2>4, <2>6, <2>7, NumberListedSound
  <2>9. PICK L : L = [n \in Numbers |->
                  (IF n = cb.num THEN {at[Mount]} \cap live ELSE {}) \cup
                  {i \in Children(at[Mount]) : imap'.path_to_inode[Append(cb.path, name[i])] = n}]
    OBVIOUS
  <2>10. meant' = [n \in Numbers |-> meant[n] \cup L[n]]
    BY <1>5, <2>9 DEF MountListed
  <2>11. live' = live /\ nextId' = nextId
    BY <1>2 DEF table
  <2>12. ASSUME NEW n \in Numbers, NEW j \in L[n]
         PROVE  j \in live' /\ n \in DOMAIN imap'.inode_to_path /\ P[j] = imap'.inode_to_path[n]
    <3>1. CASE n = cb.num /\ j = at[Mount] /\ j \in live
      <4>1. cb.num # 0
        BY <3>1 DEF Numbers
      <4>2. cb.num \in DOMAIN imap.inode_to_path /\ imap.inode_to_path[cb.num] = cb.path
        BY <1>1, <4>1 DEF CallbackOK
      <4> QED
        BY <3>1, <4>2, <2>2, <2>8, <2>11 DEF ExtendsMap
    <3>2. CASE j \in Children(at[Mount]) /\ imap'.path_to_inode[Append(cb.path, name[j])] = n
      <4>1. PICK p : p = Append(cb.path, name[j])
        OBVIOUS
      <4>2. j \in live /\ P[j] = p
        BY <2>5, <3>2, <4>1
      <4>3. p \in DOMAIN imap'.path_to_inode
        BY <2>8, <3>2, <4>1 DEF ListedPaths
      <4>4. n \in DOMAIN imap'.inode_to_path /\ imap'.inode_to_path[n] = p
        BY <2>8, <3>2, <4>1, <4>3 DEF MapSound
      <4> QED
        BY <4>2, <4>4, <2>11
    <3> QED
      BY <2>9, <2>12, <3>1, <3>2
  <2>13. \A n \in Numbers : meant'[n] = meant[n] \cup L[n]
    BY <2>10
  <2>14. meant' \in [Numbers -> SUBSET InodeIds]
    <3>1. ASSUME NEW n \in Numbers PROVE meant[n] \cup L[n] \in SUBSET InodeIds
      BY <1>1, <2>11, <2>12 DEF TreeInv, TypeOK
    <3> QED
      BY <3>1, <2>10
  <2>15. PathsOK(P)' /\ \A d \in Clients : AimOK(P, d)'
    BY <1>1, <1>3, <2>1, AimStays, ShrinkKeepsPaths
  <2>16. PICK Q : Q = P
    OBVIOUS
  <2>17. \A i \in InodeIds : i < nextId => Q[i] = P[i]
    BY <2>16
  <2>18. /\ nextId <= nextId' /\ live \subseteq live' /\ \A i \in live' : i < nextId => i \in live
         /\ pc'[Mount] = "idle" /\ at'[Mount] = Root
    BY <1>1, <2>1, <2>11, BoundsAssumption DEF Ends, TreeInv, TypeOK
  <2>19. MapSound(imap)'
    BY <2>8 DEF MapSound
  <2>20. \A n \in Numbers : \A j \in L[n] :
             j \in live' /\ n \in DOMAIN imap'.inode_to_path /\ Q[j] = imap'.inode_to_path[n]
    BY <2>12, <2>16
  <2> QED
    BY <1>2, <1>3, <2>1, <2>8, <2>13, <2>14, <2>15, <2>16, <2>17, <2>18, <2>19, <2>20, ReplyStep
<1> QED
  BY <1>4, <1>5

LEMMA MountDeletedKeepsInv ==
    ASSUME FuseInv, NEW P, PathInv(P), MountDeleted
    PROVE  FuseInv'
<1>1. /\ TreeInv /\ imap \in MapRecs /\ MapSound(imap) /\ unseen \subseteq InodeIds
      /\ meant \in [Numbers -> SUBSET InodeIds] /\ Mount \in Clients
      /\ PathsOK(P) /\ \A d \in Clients : AimOK(P, d)
  BY FuseInvParts, MountAssumption DEF PathInv
<1>2. /\ DeleteInode(Mount) /\ imap' = Forget(imap, cb.path) /\ cb' = NoCallback /\ meant' = meant
      /\ Vanish((live \ live') \ {at[Mount]}) /\ pc[Mount] = "delete"
  BY DEF MountDeleted, Finish, DeleteInode
<1>3. TreeInv' /\ Shrinks /\ OthersStay(Mount) /\ Ends(Mount) /\ at[Mount] \notin live'
  BY <1>1, <1>2, DeleteInodeKeepsTree
<1>4. P[at[Mount]] = cb.path
  <2>1. todo[Mount] = <<>> /\ op[Mount] \notin Creates
    BY <1>1, <1>2 DEF TreeInv, RequestOK
  <2> QED
    BY <1>2, <2>1, MountArrived
<1>5. PathsOK(P)' /\ \A d \in Clients : AimOK(P, d)'
  BY <1>1, <1>3, AimStays, ShrinkKeepsPaths
<1>6. /\ imap' \in MapRecs /\ MapSound(imap') /\ imap'.next_inode = imap.next_inode
      /\ \A n \in DOMAIN imap'.inode_to_path :
             /\ n \in DOMAIN imap.inode_to_path /\ imap'.inode_to_path[n] = imap.inode_to_path[n]
             /\ imap'.inode_to_path[n] # cb.path
      /\ \A n \in DOMAIN imap.inode_to_path \ DOMAIN imap'.inode_to_path : imap.inode_to_path[n] = cb.path
  BY <1>1, <1>2, ForgetSound
<1>7. MapSound(imap)'
  BY <1>6 DEF MapSound
<1>8. CallbackOK(P)' /\ cb' \in CbRecs
  BY <1>2, <1>3, NoCallbackIsOne DEF CallbackOK, Ends
<1>9. /\ unseen \subseteq unseen' /\ unseen' \subseteq InodeIds
      /\ \A n \in Numbers : \A i \in meant[n] \cap live : i \in live' \/ i = at[Mount] \/ i \in unseen'
  BY <1>1, <1>2 DEF Vanish
<1>10. ASSUME NEW n \in Numbers PROVE MeantOK(P, n)'
  <2>1. MeantOK(P, n) /\ live' \subseteq live /\ nextId' = nextId /\ at'[Mount] = Root /\ meant[n] \subseteq InodeIds
    BY <1>1, <1>3 DEF PathInv, Shrinks, Ends
  <2>2. n >= imap'.next_inode => meant'[n] = {}
    BY <1>2, <1>6, <2>1 DEF MeantOK
  <2>3. ASSUME n \in DOMAIN imap'.inode_to_path, NEW i \in meant[n]
        PROVE  P[i] = imap'.inode_to_path[n] /\ i \in live' \cup unseen' \cup {Root}
    <3>1. P[i] = imap.inode_to_path[n] /\ i \in live \cup unseen \cup {Root}
      BY <1>6, <2>1, <2>3 DEF MeantOK
    <3>2. P[i] = imap'.inode_to_path[n] /\ P[i] # cb.path
      BY <1>6, <2>3, <3>1
    <3>3. i # at[Mount]
      BY <3>2, <1>4
    <3> QED
      BY <3>1, <3>2, <3>3, <1>9
  <2>4. ASSUME n \notin DOMAIN imap'.inode_to_path, NEW i \in meant[n], i \in live'
        PROVE  FALSE
    <3>1. i \in live
      BY <2>1, <2>4
    <3>2. n \in DOMAIN imap.inode_to_path
      BY <2>1, <2>4, <3>1 DEF MeantOK
    <3>3. imap.inode_to_path[n] = cb.path
      BY <1>6, <2>4, <3>2
    <3>4. P[i] = P[at[Mount]]
      BY <1>4, <2>1, <3>2, <3>3 DEF MeantOK
    <3>5. i = at[Mount]
      BY <2>1, <3>1, <3>4 DEF MeantOK
    <3> QED
      BY <1>3, <2>4, <3>5
  <2>5. ASSUME NEW i \in meant[n]
        PROVE  i < nextId' /\ (i \in live' /\ P[i] = P[at'[Mount]] => i = at'[Mount])
    <3>1. i < nextId' /\ i \in InodeIds
      BY <2>1 DEF MeantOK
    <3>2. P[i] = P[Root] => i = Root
      <4>1. Root \in InodeIds /\ Root < nextId'
        <5>1. nextId' \in Nat
          BY <1>3, BoundsAssumption DEF TreeInv, TypeOK
        <5> QED
          BY <3>1, <5>1, BoundsAssumption DEF Root, InodeIds
      <4>2. P[Root] = <<>>
        BY <4>1, <1>5 DEF PathsOK
      <4> QED
        BY <3>1, <4>2, <1>5 DEF PathsOK
    <3> QED
      BY <3>1, <3>2, <2>1
  <2>6. \A i, j \in meant[n] : i < j => i \in unseen'
    BY <1>9, <2>1 DEF MeantOK
  <2>7. meant'[n] = meant[n]
    BY <1>2
  <2> QED
    BY <2>2, <2>3, <2>4, <2>5, <2>6, <2>7 DEF MeantOK
<1>11. meant' \in [Numbers -> SUBSET InodeIds]
  BY <1>1, <1>2
<1> QED
  BY <1>3, <1>5, <1>6, <1>7, <1>8, <1>9, <1>10, <1>11, FuseInvFromParts DEF CbRecs

LEMMA MountFailsKeepsInv ==
    ASSUME FuseInv, NEW P, PathInv(P), MountFails
    PROVE  FuseInv'
<1>1. /\ TreeInv /\ imap \in MapRecs /\ MapSound(imap) /\ unseen \subseteq InodeIds
      /\ meant \in [Numbers -> SUBSET InodeIds] /\ Mount \in Clients
      /\ PathsOK(P) /\ \A d \in Clients : AimOK(P, d)
  BY FuseInvParts, MountAssumption DEF PathInv
<1>2. Vanish(live \ live') /\ cb' = NoCallback /\ UNCHANGED <<imap, meant>>
  BY DEF MountFails, Finish
<1>3. /\ unseen \subseteq unseen' /\ unseen' \subseteq InodeIds
      /\ \A n \in Numbers : \A i \in meant[n] \cap live : i \in live' \cup unseen'
  BY <1>1, <1>2 DEF Vanish
<1>4. ASSUME TreeInv', Shrinks, OthersStay(Mount), Ends(Mount) PROVE FuseInv'
  <2>1. AimOK(P, Mount)'
    BY <1>1, <1>4, AimStays
  <2>2. CallbackOK(P)' /\ cb' \in CbRecs
    BY <1>2, <1>4, NoCallbackIsOne DEF CallbackOK, Ends
  <2>3. at'[Mount] \in live' \cup {Root} \/ at'[Mount] = at[Mount]
    BY <1>4 DEF Ends
  <2> QED
    BY <1>1, <1>2, <1>3, <1>4, <2>1, <2>2, <2>3, QuietStep DEF CbRecs
<1>5. CASE Crash(Mount)
  <2>1. TreeInv' /\ Shrinks /\ OthersStay(Mount) /\ Ends(Mount)
    BY <1>1, <1>5, ReturnKeepsTree DEF Crash
  <2> QED
    BY <1>4, <2>1
<1>6. CASE DeleteInode(Mount)
  <2>1. TreeInv' /\ Shrinks /\ OthersStay(Mount) /\ Ends(Mount)
    BY <1>1, <1>6, DeleteInodeKeepsTree
  <2> QED
    BY <1>4, <2>1
<1>7. CASE Insert(Mount)
  <2>1. /\ TreeInv' /\ OthersStay(Mount) /\ Ends(Mount)
        /\ IF InsertAllowed(Mount) THEN Adds(Mount) ELSE UNCHANGED table /\ Shrinks
    BY <1>1, <1>7, InsertKeepsTree
  <2>2. CASE ~InsertAllowed(Mount)
    BY <1>4, <2>1, <2>2
  <2>3. CASE InsertAllowed(Mount)
    <3>1. Adds(Mount)
      BY <2>1, <2>3
    <3>2. PICK Q \in [InodeIds -> Paths] :
                /\ PathsOK(Q)' /\ (\A d \in Clients : AimOK(Q, d)')
                /\ \A i \in InodeIds : i < nextId => Q[i] = P[i]
      BY <1>1, <2>1, <3>1, GrowExtendsPaths
    <3>3. nextId' = nextId + 1 /\ live' = live \cup {nextId} /\ nextId \in Nat
      BY <3>1 DEF Adds, InodeIds
    <3>4. /\ nextId <= nextId' /\ live \subseteq live' /\ \A i \in live' : i < nextId => i \in live
          /\ pc'[Mount] = "idle" /\ at'[Mount] = Root
      BY <2>1, <3>3 DEF Ends
    <3>5. unseen' = unseen
      BY <1>2, <3>4 DEF Vanish
    <3>6. imap' \in MapRecs /\ MapSound(imap)' /\ ExtendsMap(imap, imap')
      BY <1>1, <1>2, SameMap DEF MapSound
    <3>7. PICK L : L = [n \in Numbers |-> {}]
      OBVIOUS
    <3>8. /\ \A n \in Numbers : meant'[n] = meant[n] \cup L[n]
          /\ \A n \in Numbers : \A j \in L[n] :
                 j \in live' /\ n \in DOMAIN imap'.inode_to_path /\ Q[j] = imap'.inode_to_path[n]
          /\ meant' \in [Numbers -> SUBSET InodeIds]
      BY <1>1, <1>2, <3>7
    <3> QED
      BY <1>2, <2>1, <3>2, <3>4, <3>5, <3>6, <3>8, ReplyStep
  <2> QED
    BY <2>2, <2>3
<1> QED
  BY <1>5, <1>6, <1>7 DEF MountFails

\* A mount process that has just begun
LEMMA EmptyMapSound == EmptyMap \in MapRecs /\ MapSound(EmptyMap)
<1>1. <<>> \in MapPaths
  BY NoCallbackIsOne DEF NoCallback, CbRecs, MapPaths
<1>2. RootNumber \in Numbers /\ 2 \in 2..(MaxNumbers + 1)
  BY MountAssumption DEF RootNumber, Numbers
<1>3. PICK f : f = [n \in {RootNumber} |-> <<>>]
  OBVIOUS
<1>4. PICK g : g = [p \in {<<>>} |-> RootNumber]
  OBVIOUS
<1>5. EmptyMap = [inode_to_path |-> f, path_to_inode |-> g, next_inode |-> 2]
  BY <1>3, <1>4 DEF EmptyMap
<1>6. {RootNumber} \in SUBSET Numbers /\ f \in [{RootNumber} -> MapPaths]
  BY <1>1, <1>2, <1>3
<1>7. {<<>>} \in SUBSET MapPaths /\ g \in [{<<>>} -> Numbers]
  BY <1>1, <1>2, <1>4
<1>8. EmptyMap \in MapRecs
  BY <1>2, <1>5, <1>6, <1>7, MapFromParts
<1>9. MapSound(EmptyMap)
  BY <1>3, <1>4, <1>5 DEF MapSound, RootNumber
<1> QED
  BY <1>8, <1>9

LEMMA RemountKeepsInv ==
    ASSUME FuseInv, NEW P, PathInv(P), Remount
    PROVE  FuseInv'
<1>1. /\ TreeInv /\ Mount \in Clients /\ PathsOK(P) /\ \A d \in Clients : AimOK(P, d)
  BY FuseInvParts, MountAssumption DEF PathInv
<1>2. /\ imap' = EmptyMap /\ meant' = NothingMeant /\ unseen' = {} /\ cb' = NoCallback
  BY DEF Remount, Finish
<1>3. /\ TreeInv' /\ pc'[Mount] = "idle" /\ at'[Mount] = Root
      /\ PathsOK(P)' /\ \A d \in Clients : AimOK(P, d)'
  <2>1. CASE Crash(Mount)
    <3>1. Return(Mount) /\ UNCHANGED table
      BY <2>1 DEF Crash
    <3>2. TreeInv' /\ Shrinks /\ OthersStay(Mount) /\ Ends(Mount)
      BY <1>1, <3>1, ReturnKeepsTree
    <3>3. PathsOK(P)' /\ \A d \in Clients : AimOK(P, d)'
      BY <1>1, <3>2, AimStays, ShrinkKeepsPaths
    <3> QED
      BY <3>2, <3>3 DEF Ends
  <2>2. CASE pc[Mount] = "idle" /\ UNCHANGED vars
    <3>1. TreeInv'
      BY <1>1, <2>2 DEF TreeInv, TypeOK, TreeOfDirectories, RequestOK, Children, vars
    <3>2. PathsOK(P)' /\ \A d \in Clients : AimOK(P, d)'
      BY <1>1, <2>2 DEF PathsOK, AimOK, vars
    <3>3. at[Mount] = Root
      BY <1>1, <2>2 DEF TreeInv, RequestOK
    <3> QED
      BY <2>2, <3>1, <3>2, <3>3 DEF vars
  <2> QED
    BY <2>1, <2>2 DEF Remount
<1>4. imap' \in MapRecs /\ MapSound(imap)'
  BY <1>2, EmptyMapSound DEF MapSound
<1>5. Root \in InodeIds /\ Root < nextId' /\ P[Root] = <<>>
  <2>1. at'[Mount] < nextId'
    BY <1>1, <1>3 DEF TreeInv, RequestOK
  <2>2. Root \in InodeIds
    BY BoundsAssumption DEF Root, InodeIds
  <2> QED
    BY <1>3, <2>1, <2>2 DEF PathsOK
<1>6. meant' \in [Numbers -> SUBSET InodeIds] /\ unseen' \subseteq InodeIds
  BY <1>2, <1>5 DEF NothingMeant
<1>7. CallbackOK(P)' /\ cb' \in CbRecs
  BY <1>2, <1>3, NoCallbackIsOne DEF CallbackOK
<1>8. ASSUME NEW n \in Numbers PROVE MeantOK(P, n)'
  <2>1. /\ imap'.next_inode = 2 /\ DOMAIN imap'.inode_to_path = {RootNumber}
        /\ imap'.inode_to_path[RootNumber] = <<>>
    BY <1>2 DEF EmptyMap
  <2>2. CASE n = RootNumber
    <3>1. meant'[n] = {Root}
      BY <1>2, <2>2 DEF NothingMeant
    <3> QED
      BY <1>3, <1>5, <2>1, <2>2, <3>1 DEF MeantOK, RootNumber, Root
  <2>3. CASE n # RootNumber
    <3>1. meant'[n] = {}
      BY <1>2, <2>3 DEF NothingMeant
    <3> QED
      BY <3>1, <2>1, <2>3 DEF MeantOK
  <2> QED
    BY <2>2, <2>3
<1> QED
  BY <1>3, <1>4, <1>6, <1>7, <1>8, FuseInvFromParts DEF CbRecs

LEMMA OutsideKeepsInv ==
    ASSUME FuseInv, NEW P, PathInv(P), NEW c \in Clients, Outside(c)
    PROVE  FuseInv'
<1>1. /\ TreeInv /\ imap \in MapRecs /\ MapSound(imap) /\ unseen \subseteq InodeIds /\ cb \in CbRecs
      /\ meant \in [Numbers -> SUBSET InodeIds] /\ Mount \in Clients
      /\ PathsOK(P) /\ CallbackOK(P) /\ \A d \in Clients : AimOK(P, d)
  BY FuseInvParts, MountAssumption DEF PathInv, CbRecs
<1>2. c # Mount /\ Step(c) /\ Vanish(live \ live') /\ UNCHANGED <<imap, cb, meant>>
  BY DEF Outside
<1>3. /\ unseen \subseteq unseen' /\ unseen' \subseteq InodeIds
      /\ \A n \in Numbers : \A i \in meant[n] \cap live : i \in live' \cup unseen'
  BY <1>1, <1>2 DEF Vanish
<1>4. ASSUME TreeInv', Shrinks, OthersStay(c), AimOK(P, c)' PROVE FuseInv'
  <2>1. /\ pc'[Mount] = pc[Mount] /\ op'[Mount] = op[Mount] /\ at'[Mount] = at[Mount]
        /\ todo'[Mount] = todo[Mount] /\ leaf'[Mount] = leaf[Mount]
    BY <1>1, <1>2, <1>4 DEF OthersStay
  <2>2. CallbackOK(P)' /\ cb' \in CbRecs
    BY <1>1, <1>2, <2>1 DEF CallbackOK
  <2>3. at'[Mount] \in live' \cup {Root} \/ at'[Mount] = at[Mount]
    BY <2>1
  <2> QED
    BY <1>2, <1>3, <1>4, <2>2, <2>3, QuietStep DEF CbRecs
<1>5. ASSUME NEW o \in Creates \cup Removes, NEW p \in Paths, Begin(c, o, p) PROVE FuseInv'
  <2>1. o \in Ops
    BY DEF Ops
  <2>2. TreeInv' /\ Shrinks /\ OthersStay(c)
    BY <1>1, <1>5, <2>1, BeginKeepsTree
  <2>3. AimOK(P, c)'
    BY <1>1, <1>5, <2>1, AimBegins
  <2> QED
    BY <1>4, <2>2, <2>3
<1>6. CASE Walk(c)
  <2>1. TreeInv' /\ Shrinks /\ OthersStay(c)
    BY <1>1, <1>6, WalkKeepsTree
  <2>2. AimOK(P, c)'
    BY <1>1, <1>6, AimWalks
  <2> QED
    BY <1>4, <2>1, <2>2
<1>7. CASE Resolved(c) \/ Lookup(c) \/ ListChildren(c) \/ DeleteBlocks(c) \/ DeleteInode(c) \/ Crash(c)
  <2>1. TreeInv' /\ Shrinks /\ OthersStay(c) /\ (Ends(c) \/ StaysAt(c))
    <3>1. CASE Resolved(c)
      BY <1>1, <3>1, ResolvedKeepsTree
    <3>2. CASE Lookup(c)
      BY <1>1, <3>2, LookupKeepsTree
    <3>3. CASE ListChildren(c)
      BY <1>1, <3>3, ListChildrenKeepsTree
    <3>4. CASE DeleteBlocks(c)
      BY <1>1, <3>4, DeleteBlocksKeepsTree
    <3>5. CASE DeleteInode(c)
      BY <1>1, <3>5, DeleteInodeKeepsTree
    <3>6. CASE Crash(c)
      BY <1>1, <3>6, ReturnKeepsTree DEF Crash
    <3> QED
      BY <1>7, <3>1, <3>2, <3>3, <3>4, <3>5, <3>6
  <2>2. AimOK(P, c)'
    BY <1>1, <2>1, AimStays
  <2> QED
    BY <1>4, <2>1, <2>2
<1>8. CASE Insert(c)
  <2>1. /\ TreeInv' /\ OthersStay(c) /\ Ends(c)
        /\ IF InsertAllowed(c) THEN Adds(c) ELSE UNCHANGED table /\ Shrinks
    BY <1>1, <1>8, InsertKeepsTree
  <2>2. CASE ~InsertAllowed(c)
    <3>1. AimOK(P, c)'
      BY <1>1, <2>1, AimStays
    <3> QED
      BY <1>4, <2>1, <2>2, <3>1
  <2>3. CASE InsertAllowed(c)
    <3>1. Adds(c)
      BY <2>1, <2>3
    <3>2. PICK Q \in [InodeIds -> Paths] :
                /\ PathsOK(Q)' /\ (\A d \in Clients : AimOK(Q, d)')
                /\ \A i \in InodeIds : i < nextId => Q[i] = P[i]
      BY <1>1, <2>1, <3>1, GrowExtendsPaths
    <3>3. /\ pc'[Mount] = pc[Mount] /\ op'[Mount] = op[Mount] /\ at'[Mount] = at[Mount]
          /\ todo'[Mount] = todo[Mount] /\ leaf'[Mount] = leaf[Mount]
      BY <1>1, <1>2, <2>1 DEF OthersStay
    <3>4. at[Mount] \in InodeIds /\ at[Mount] < nextId
      BY <1>1 DEF TreeInv, TypeOK, RequestOK
    <3>5. CallbackOK(Q)' /\ cb' \in CbRecs
      BY <1>1, <1>2, <3>2, <3>3, <3>4 DEF CallbackOK
    <3>6. imap' \in MapRecs /\ MapSound(imap)' /\ ExtendsMap(imap, imap')
      BY <1>1, <1>2, SameMap DEF MapSound
    <3>7. nextId <= nextId' /\ \A i \in live' : i < nextId => i \in live
      <4>1. nextId' = nextId + 1 /\ live' = live \cup {nextId} /\ nextId \in Nat
        BY <3>1 DEF Adds, InodeIds
      <4> QED
        BY <4>1
    <3>8. ASSUME NEW n \in Numbers PROVE MeantOK(Q, n)'
      <4>1. PICK L : L = {}
        OBVIOUS
      <4>2. meant'[n] = meant[n] \cup L /\ meant[n] \subseteq InodeIds /\ MeantOK(P, n)
        BY <1>1, <1>2, <4>1 DEF PathInv
      <4>3. \A j \in L : j \in live' /\ n \in DOMAIN imap'.inode_to_path /\ Q[j] = imap'.inode_to_path[n]
        BY <4>1
      <4>4. at'[Mount] \in live' \cup {Root} \/ (at'[Mount] = at[Mount] /\ L = {})
        BY <3>3, <4>1
      <4>5. \A i \in meant[n] \cap live : i \in live' \cup unseen'
        BY <1>3
      <4> QED
        BY <1>1, <1>3, <2>1, <3>2, <3>6, <3>7, <4>2, <4>3, <4>4, <4>5, MeaningGrows
    <3>9. meant' \in [Numbers -> SUBSET InodeIds]
      BY <1>1, <1>2
    <3> QED
      BY <1>3, <2>1, <3>2, <3>5, <3>6, <3>8, <3>9, FuseInvFromParts DEF CbRecs
  <2> QED
    BY <2>2, <2>3
<1> QED
  BY <1>2, <1>5, <1>6, <1>7, <1>8 DEF Step

-----------------------------------------------------------------------------
(* The inductive invariant holds                                           *)

LEMMA InitEstablishesInv ==
    ASSUME FuseInit
    PROVE  FuseInv
<1>1. 1 \in InodeIds /\ MaxInodes \in Nat /\ MaxInodes >= 1 /\ Mount \in Clients
  BY BoundsAssumption, MountAssumption DEF InodeIds
<1>2. /\ live = {Root} /\ nextId = 2 /\ parent = [i \in InodeIds |-> NoInode]
      /\ name = [i \in InodeIds |-> NoName] /\ kind = [i \in InodeIds |-> "dir"]
      /\ pc = [c \in Clients |-> "idle"] /\ op = [c \in Clients |-> "mkdir"]
      /\ at = [c \in Clients |-> Root] /\ todo = [c \in Clients |-> <<>>]
      /\ leaf = [c \in Clients |-> NoName] /\ listed = [c \in Clients |-> 0]
      /\ imap = EmptyMap /\ cb = NoCallback /\ meant = NothingMeant /\ unseen = {}
  BY DEF FuseInit, Init
<1>3. <<>> \in Seq(Names) /\ 0 \in 0..(MaxInodes + 1)
  BY <1>1
<1>4. TableTypeOK
  BY <1>1, <1>2 DEF TableTypeOK, Kinds, Root, NoInode
<1>5. LocalTypeOK
  BY <1>1, <1>2, <1>3 DEF LocalTypeOK, Labels, Ops, Creates, Root
<1>6. TypeOK
  BY <1>4, <1>5, TypeParts
<1>7. TreeOfDirectories /\ \A c \in Clients : RequestOK(c)
  BY <1>2 DEF TreeOfDirectories, RequestOK, Root
<1>8. TreeInv
  BY <1>6, <1>7 DEF TreeInv
<1>9. <<>> \in Paths
  BY NoCallbackIsOne DEF NoCallback, CbRecs
<1>10. PICK P : P = [i \in InodeIds |-> <<>>]
  OBVIOUS
<1>11. P \in [InodeIds -> Paths] /\ \A i \in InodeIds : P[i] = <<>>
  BY <1>9, <1>10
<1>12. \A i \in InodeIds : i < nextId => i = 1
  BY <1>2 DEF InodeIds
<1>13. PathsOK(P)
  <2>1. \A i \in InodeIds : i < nextId => (P[i] = <<>> <=> i = Root)
    BY <1>11, <1>12 DEF Root
  <2>2. \A i, j \in InodeIds : i \in live /\ i < j /\ j < nextId => P[i] # P[j]
    BY <1>2, <1>12 DEF Root
  <2> QED
    BY <1>2, <1>11, <2>1, <2>2 DEF PathsOK
<1>14. \A c \in Clients : AimOK(P, c)
  BY <1>2 DEF AimOK
<1>15. imap \in MapRecs /\ MapSound(imap)
  BY <1>2, EmptyMapSound
<1>16. cb \in CbRecs /\ CallbackOK(P)
  BY <1>1, <1>2, NoCallbackIsOne DEF CallbackOK
<1>17. meant \in [Numbers -> SUBSET InodeIds] /\ unseen \subseteq InodeIds
  BY <1>1, <1>2 DEF NothingMeant, Root
<1>18. ASSUME NEW n \in Numbers PROVE MeantOK(P, n)
  <2>1. /\ imap.next_inode = 2 /\ DOMAIN imap.inode_to_path = {RootNumber}
        /\ imap.inode_to_path[RootNumber] = <<>>
    BY <1>2 DEF EmptyMap
  <2>2. at[Mount] = Root /\ P[Root] = <<>>
    BY <1>1, <1>2, <1>11 DEF Root
  <2>3. CASE n = RootNumber
    <3>1. meant[n] = {Root}
      BY <1>2, <2>3 DEF NothingMeant
    <3> QED
      BY <1>2, <2>1, <2>2, <2>3, <3>1 DEF MeantOK, RootNumber, Root
  <2>4. CASE n # RootNumber
    <3>1. meant[n] = {}
      BY <1>2, <2>4 DEF NothingMeant
    <3> QED
      BY <3>1, <2>1, <2>4 DEF MeantOK
  <2> QED
    BY <2>3, <2>4
<1>19. PathInv(P)
  BY <1>13, <1>14, <1>16, <1>18 DEF PathInv
<1>20. FuseTypeOK
  BY <1>6, <1>15, <1>16, <1>17 DEF FuseTypeOK, MapRecs, CbRecs
<1> QED
  BY <1>8, <1>11, <1>15, <1>19, <1>20 DEF FuseInv

LEMMA StutterKeepsInv ==
    ASSUME FuseInv, UNCHANGED allVars
    PROVE  FuseInv'
<1>1. PICK P \in [InodeIds -> Paths] : PathInv(P)
  BY DEF FuseInv
<1>2. UNCHANGED vars /\ UNCHANGED <<imap, cb, meant, unseen>>
  BY DEF allVars, fuseVars
<1>3. FuseTypeOK'
  BY <1>2 DEF FuseInv, FuseTypeOK, TypeOK, vars
<1>4. TreeInv'
  BY <1>2 DEF FuseInv, TreeInv, TypeOK, TreeOfDirectories, RequestOK, Children, vars
<1>5. MapSound(imap)'
  BY <1>2 DEF FuseInv, MapSound
<1>6. PathsOK(P)' /\ \A c \in Clients : AimOK(P, c)'
  BY <1>1, <1>2 DEF PathInv, PathsOK, AimOK, vars
<1>7. CallbackOK(P)'
  BY <1>1, <1>2 DEF PathInv, CallbackOK, vars
<1>8. \A n \in Numbers : MeantOK(P, n)'
  BY <1>1, <1>2 DEF PathInv, MeantOK, vars
<1> QED
  BY <1>1, <1>3, <1>4, <1>5, <1>6, <1>7, <1>8 DEF FuseInv, PathInv

LEMMA NextKeepsInv ==
    ASSUME FuseInv, [FuseNext]_allVars
    PROVE  FuseInv'
<1>1. PICK P \in [InodeIds -> Paths] : PathInv(P)
  BY DEF FuseInv
<1>2. ASSUME NEW o \in NameOps, NEW n \in Numbers, NEW nm \in Names, ByName(o, n, nm) PROVE FuseInv'
  BY <1>1, <1>2, ByNameKeepsInv
<1>3. CASE LookupHook
  BY <1>1, <1>3, LookupHookKeepsInv
<1>4. ASSUME NEW calls \in NumberCalls, NEW n \in Numbers, ByNumber(calls, n) PROVE FuseInv'
  BY <1>1, <1>4, ByNumberKeepsInv
<1>5. CASE NextCall
  BY <1>1, <1>5, NextCallKeepsInv
<1>6. CASE MountWorks
  BY <1>1, <1>6, MountWorksKeepsInv
<1>7. CASE MountResolved
  BY <1>1, <1>7, MountResolvedKeepsInv
<1>8. CASE MountInserted
  BY <1>1, <1>8, MountInsertedKeepsInv
<1>9. CASE MountListed
  BY <1>1, <1>9, MountListedKeepsInv
<1>10. CASE MountDeleted
  BY <1>1, <1>10, MountDeletedKeepsInv
<1>11. CASE Remount
  BY <1>1, <1>11, RemountKeepsInv
<1>12. ASSUME NEW c \in Clients, Outside(c) PROVE FuseInv'
  BY <1>1, <1>12, OutsideKeepsInv
<1>13. CASE UNCHANGED allVars
  BY <1>13, StutterKeepsInv
<1>14. CASE MountFails
  BY <1>1, <1>14, MountFailsKeepsInv
<1> QED
  BY <1>2, <1>3, <1>4, <1>5, <1>6, <1>7, <1>8, <1>9, <1>10, <1>11, <1>12, <1>13, <1>14 DEF FuseNext

\* The invariant is inductive.
LEMMA FuseInvariant == Spec => []FuseInv
  BY InitEstablishesInv, NextKeepsInv, PTL DEF Spec

-----------------------------------------------------------------------------
(* The paths lead to the inodes                                            *)

LEMMA LeastNumber ==
    ASSUME NEW S, S \subseteq Nat, S # {}
    PROVE  \E x \in S : \A y \in S : ~(y < x)
<1>1. PICK R : R = OpToRel(<, Nat)
  OBVIOUS
<1>2. IsWellFoundedOn(R, Nat)
  BY <1>1, NatLessThanWellFounded
<1>3. \E x \in S : \A y \in S : ~(<<y, x>> \in R)
  BY <1>2, WFMin
<1>4. R = {ss \in Nat \X Nat : ss[1] < ss[2]}
  BY <1>1 DEF OpToRel
<1>5. PICK x \in S : \A y \in S : ~(<<y, x>> \in R)
  BY <1>3
<1>6. ASSUME NEW y \in S, y < x PROVE FALSE
  <2>1. <<y, x>> \in Nat \X Nat
    OBVIOUS
  <2>2. <<y, x>> \in R
    BY <1>4, <1>6, <2>1
  <2> QED
    BY <1>5, <2>2
<1> QED
  BY <1>5, <1>6

\* resolve_path of the path of an inode that exists finds it. The least inode for
\* which that failed would not be the root, and its parent is less.
LEMMA PathsLead ==
    ASSUME TreeInv, NEW P, PathsOK(P)
    PROVE  \A i \in live : Leads(P[i], i)
<1>1. SUFFICES ASSUME \E i \in live : ~Leads(P[i], i) PROVE FALSE
  OBVIOUS
<1>2. PICK S : S = {i \in live : ~Leads(P[i], i)}
  OBVIOUS
<1>3. S \subseteq Nat /\ S # {} /\ \A i \in live : i \in InodeIds /\ i < nextId
  <2>1. \A i \in live : i \in InodeIds /\ i < nextId /\ i \in Nat
    BY DEF TreeInv, TypeOK, InodeIds
  <2>2. S # {}
    BY <1>1, <1>2
  <2> QED
    BY <1>2, <2>1, <2>2
<1>4. PICK i \in S : \A y \in S : ~(y < i)
  BY <1>3, LeastNumber
<1>5. i \in live /\ ~Leads(P[i], i)
  BY <1>2, <1>4
<1>6. CASE i = Root
  <2>1. P[i] = <<>>
    BY <1>3, <1>5, <1>6 DEF PathsOK
  <2>2. PICK chain : chain = [k \in 0..0 |-> Root]
    OBVIOUS
  <2>3. Len(<<>>) = 0 /\ chain \in [0..0 -> live] /\ chain[0] = Root
    BY <1>5, <1>6, <2>2
  <2>4. Leads(<<>>, i)
    BY <1>6, <2>3 DEF Leads
  <2> QED
    BY <1>5, <2>1, <2>4
<1>7. CASE i # Root
  <2>1. parent[i] \in live /\ parent[i] < i /\ P[i] = Append(P[parent[i]], name[i])
    BY <1>5, <1>7 DEF TreeInv, TreeOfDirectories, PathsOK
  <2>2. Leads(P[parent[i]], parent[i])
    BY <1>2, <1>4, <2>1
  <2>3. PICK p \in Seq(Names \cup {NoName}) : p = P[parent[i]]
    <3>1. P[parent[i]] \in Paths
      BY <1>3, <2>1 DEF PathsOK
    <3> QED
      BY <3>1, PathsAreSequences, SeqMonotonic
  <2>4. PICK x \in Names \cup {NoName} : x = name[i]
    BY <1>3, <1>5 DEF TreeInv, TypeOK
  <2>5. PICK q : q = Append(p, x)
    OBVIOUS
  <2>6. /\ Len(q) = Len(p) + 1 /\ Len(p) \in Nat /\ q[Len(p) + 1] = x
        /\ \A k \in 1..Len(p) : q[k] = p[k]
    BY <2>5, AppendProperties, LenProperties
  <2>7. PICK n \in Nat : n = Len(p)
    BY <2>6
  <2>8. PICK chain \in [0..n -> live] :
            /\ chain[0] = Root /\ chain[n] = parent[i]
            /\ \A k \in 1..n : chain[k] \in Named(chain[k - 1], p[k])
    BY <2>2, <2>3, <2>7 DEF Leads
  <2>9. PICK longer : longer = [k \in 0..(n + 1) |-> IF k = n + 1 THEN i ELSE chain[k]]
    OBVIOUS
  <2>10. longer \in [0..(n + 1) -> live]
    BY <1>5, <2>8, <2>9
  <2>11. longer[0] = Root /\ longer[n + 1] = i
    BY <2>8, <2>9
  <2>12. ASSUME NEW k \in 1..(n + 1) PROVE longer[k] \in Named(longer[k - 1], q[k])
    <3>1. CASE k = n + 1
      <4>1. longer[k] = i /\ longer[k - 1] = parent[i] /\ q[k] = name[i]
        BY <2>4, <2>6, <2>7, <2>8, <2>9, <3>1
      <4>2. i \in Named(parent[i], name[i])
        BY <1>5, <1>7 DEF Named, Children
      <4> QED
        BY <4>1, <4>2
    <3>2. CASE k # n + 1
      <4>1. k \in 1..n /\ longer[k] = chain[k] /\ longer[k - 1] = chain[k - 1] /\ q[k] = p[k]
        BY <2>6, <2>7, <2>9, <3>2
      <4> QED
        BY <4>1, <2>8
    <3> QED
      BY <3>1, <3>2
  <2>13. Leads(q, i)
    BY <2>6, <2>7, <2>10, <2>11, <2>12 DEF Leads
  <2> QED
    BY <1>5, <2>1, <2>3, <2>4, <2>5, <2>13
<1> QED
  BY <1>6, <1>7

-----------------------------------------------------------------------------
(* The theorems                                                            *)

\* The tree, the map and the callback of the mount hold what they are declared to
\* hold, whatever the requests of any number of clients interleave to.
THEOREM FuseTypeCorrect == Spec => []FuseTypeOK
<1>1. FuseInv => FuseTypeOK
  BY DEF FuseInv
<1> QED
  BY <1>1, FuseInvariant, PTL

\* The inodes stay a tree of directories: no create, however late it comes, hangs
\* an inode below a file or below a directory that is gone.
THEOREM TreeStaysATree == Spec => []TreeOfDirectories
<1>1. FuseInv => TreeOfDirectories
  BY DEF FuseInv, TreeInv
<1> QED
  BY <1>1, FuseInvariant, PTL

\* Whatever creates race, a path names at most one inode.
THEOREM PathsStayUnambiguous == Spec => []PathsUnambiguous
<1>1. FuseInv => PathsUnambiguous
  <2>1. SUFFICES ASSUME FuseInv PROVE PathsUnambiguous
    OBVIOUS
  <2>2. PICK P \in [InodeIds -> Paths] : PathInv(P)
    BY <2>1 DEF FuseInv
  <2> QED
    BY <2>1, <2>2, PathsMakeUnambiguous DEF FuseInv, PathInv
<1> QED
  BY <1>1, FuseInvariant, PTL

\* A remove_directory that lost the race takes nothing with it that was there when
\* it looked.
THEOREM CascadeTakesOnlyUnseen == Spec => []CascadeOnlyUnseen
<1>1. FuseInv => CascadeOnlyUnseen
  BY CascadeIsYoung DEF FuseInv
<1> QED
  BY <1>1, FuseInvariant, PTL

\* An inode number that the kernel holds leads to a second file only after somebody
\* else took the first one away.
THEOREM NumbersMeanOneFile == Spec => []NumberMeansOneFile
<1>1. FuseInv => NumberMeansOneFile
  BY DEF FuseInv, PathInv, MeantOK, NumberMeansOneFile
<1> QED
  BY <1>1, FuseInvariant, PTL

\* As long as a file exists, every number the kernel was given for it is in the map,
\* with a path that resolve_path follows to this file.
THEOREM KernelNumbersStayGood == Spec => []KernelNumbersReach
<1>1. FuseInv => KernelNumbersReach
  <2>1. SUFFICES ASSUME FuseInv, NEW n \in Numbers, NEW i \in meant[n] \cap live
                 PROVE  n \in DOMAIN imap.inode_to_path /\ Leads(imap.inode_to_path[n], i)
    BY DEF KernelNumbersReach
  <2>2. PICK P \in [InodeIds -> Paths] : PathInv(P)
    BY <2>1 DEF FuseInv
  <2>3. n \in DOMAIN imap.inode_to_path /\ P[i] = imap.inode_to_path[n]
    BY <2>1, <2>2 DEF PathInv, MeantOK
  <2>4. Leads(P[i], i)
    BY <2>1, <2>2, PathsLead DEF FuseInv, PathInv
  <2> QED
    BY <2>3, <2>4
<1> QED
  BY <1>1, FuseInvariant, PTL
==============================================================================
