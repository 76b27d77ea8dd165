------------------------------ MODULE Namespace ------------------------------
(***************************************************************************)
(* The directory tree of one tenant: create_file, create_directory,        *)
(* remove_directory, delete_file, list_directory and the requests that     *)
(* only resolve a path (stat, chmod, chown, and the first half of reading  *)
(* and writing) of src/fs/operations.rs over the inodes table              *)
(* (src/storage/inode.rs).                                                 *)
(*                                                                         *)
(* Every look-up of a path component is a statement of its own and no      *)
(* transaction spans two, so the tree may change under a request at every  *)
(* step. The foreign key of inodes on their parent is ON DELETE CASCADE.   *)
(***************************************************************************)
EXTENDS Integers, Sequences, FiniteSets, SequencesExt

CONSTANTS Clients,    \* concurrent requests
          Names,      \* file and directory names
          NoName,     \* the name of the root
          MaxDepth,   \* bound: components of a path
          MaxInodes   \* bound: inodes created in one run

ASSUME BoundsAssumption == MaxDepth \in Nat /\ MaxInodes \in Nat \ {0}

InodeIds == 1..MaxInodes
NoInode == 0
Root == 1
Kinds == {"dir", "file"}

\* normalize_path: a path is its components; "/" has none, and "//" is "/".
Paths == UNION {[1..n -> Names] : n \in 0..MaxDepth}

VARIABLES
    live,       \* rows of inodes
    parent,     \* inodes.parent_id
    name,       \* inodes.name
    kind,       \* inodes.inode_type
    nextId,     \* the identity the next inode gets
    pc, op, at,
    todo,       \* the components resolve_path has not looked up yet
    leaf,       \* the last component of the path to create
    listed      \* ghost: the next identity when a directory was found empty

table == <<live, parent, name, kind, nextId>>
vars == <<live, parent, name, kind, nextId, pc, op, at, todo, leaf, listed>>

\* "stat" stands for what takes an inode of any kind, "file" for what takes a
\* file; both end once the path is resolved.
Creates == {"mkdir", "create"}
Removes == {"rmdir", "unlink"}
Reads == {"stat", "file", "readdir"}
Ops == Creates \cup Removes \cup Reads

Init ==
    /\ live = {Root}
    /\ parent = [i \in InodeIds |-> NoInode]
    /\ name = [i \in InodeIds |-> NoName]
    /\ kind = [i \in InodeIds |-> "dir"]
    /\ nextId = 2
    /\ pc = [c \in Clients |-> "idle"]
    /\ op = [c \in Clients |-> "mkdir"]
    /\ at = [c \in Clients |-> Root]
    /\ todo = [c \in Clients |-> <<>>]
    /\ leaf = [c \in Clients |-> NoName]
    /\ listed = [c \in Clients |-> 0]

Goto(c, label) ==
    /\ pc' = [pc EXCEPT ![c] = label]
    /\ UNCHANGED <<op, at, todo, leaf, listed>>

Return(c) ==
    /\ pc' = [pc EXCEPT ![c] = "idle"]
    /\ op' = [op EXCEPT ![c] = "mkdir"]
    /\ at' = [at EXCEPT ![c] = Root]
    /\ todo' = [todo EXCEPT ![c] = <<>>]
    /\ leaf' = [leaf EXCEPT ![c] = NoName]
    /\ listed' = [listed EXCEPT ![c] = 0]

Children(i) == {j \in live : parent[j] = i /\ j # Root}
Named(i, n) == {j \in Children(i) : name[j] = n}

-----------------------------------------------------------------------------
(* resolve_path: from the root through the components, then the row itself *)

\* split_path takes the last component off the path of what is to be created;
\* there is none in "/", and the request fails at once.
Begin(c, o, p) ==
    /\ pc[c] = "idle"
    /\ o \in Creates => p # <<>>
    /\ pc' = [pc EXCEPT ![c] = "walk"]
    /\ op' = [op EXCEPT ![c] = o]
    /\ todo' = [todo EXCEPT ![c] = IF o \in Creates THEN Front(p) ELSE p]
    /\ leaf' = [leaf EXCEPT ![c] = IF o \in Creates THEN Last(p) ELSE @]
    /\ UNCHANGED <<at, listed>>
    /\ UNCHANGED table

Walk(c) ==
    /\ pc[c] = "walk"
    /\ todo[c] # <<>>
    /\ IF Named(at[c], Head(todo[c])) = {}
       THEN Return(c)              \* PathNotFound
       ELSE \E i \in Named(at[c], Head(todo[c])) :
                /\ at' = [at EXCEPT ![c] = i]
                /\ todo' = [todo EXCEPT ![c] = Tail(@)]
                /\ UNCHANGED <<pc, op, leaf, listed>>
    /\ UNCHANGED table

\* The operation asks for a directory (NotDirectory) or for no directory
\* (IsDirectory).
KindIgnored(c) == TRUE

KindFits(c) ==
    op[c] # "stat" => (op[c] \in {"unlink", "file"}) = (kind[at[c]] # "dir")

\* resolve_path and the check of the kind after it succeed.
Found(c) == at[c] \in live /\ KindFits(c)

Resolved(c) ==
    /\ pc[c] = "walk"
    /\ todo[c] = <<>>
    /\ IF Found(c) /\ op[c] \notin {"stat", "file"}
       THEN Goto(c, CASE op[c] \in Creates -> "lookup"
                      [] op[c] \in {"rmdir", "readdir"} -> "list"
                      [] op[c] = "unlink" -> "blocks")
       ELSE Return(c)
    /\ UNCHANGED table

-----------------------------------------------------------------------------
(* create_directory and create_file                                        *)

Lookup(c) ==
    /\ pc[c] = "lookup"
    /\ IF Named(at[c], leaf[c]) = {} THEN Goto(c, "insert")
       ELSE Return(c)              \* AlreadyExists
    /\ UNCHANGED table

\* Refused when the name is taken (UNIQUE) or the parent is gone.
InsertAllowedWithoutUnique(c) == at[c] \in live

InsertAllowed(c) == at[c] \in live /\ Named(at[c], leaf[c]) = {}

\* inode_id is a BIGSERIAL: no identity is given out twice.
SerialStuck == nextId

Serial == nextId + 1

Insert(c) ==
    /\ pc[c] = "insert"
    /\ nextId \in InodeIds
    /\ IF InsertAllowed(c)
       THEN /\ live' = live \cup {nextId}
            /\ parent' = [parent EXCEPT ![nextId] = at[c]]
            /\ name' = [name EXCEPT ![nextId] = leaf[c]]
            /\ kind' = [kind EXCEPT ![nextId] =
                            IF op[c] = "mkdir" THEN "dir" ELSE "file"]
            /\ nextId' = Serial
       ELSE UNCHANGED table
    /\ Return(c)

-----------------------------------------------------------------------------
(* list_directory, remove_directory and delete_file                        *)

\* DirectoryNotEmpty
RemoveAllowedAlways(c) == TRUE

RemoveAllowed(c) == Children(at[c]) = {}

ListChildren(c) ==
    /\ pc[c] = "list"
    /\ IF op[c] = "rmdir" /\ RemoveAllowed(c)
       THEN /\ pc' = [pc EXCEPT ![c] = "delete"]
            /\ listed' = [listed EXCEPT ![c] = nextId]
            /\ UNCHANGED <<op, at, todo, leaf>>
       ELSE Return(c)
    /\ UNCHANGED table

DeleteBlocks(c) ==
    /\ pc[c] = "blocks"
    /\ Goto(c, "delete")
    /\ UNCHANGED table

\* The row if it is still there, and with it everything below (ON DELETE
\* CASCADE): the least set of rows that contains it and the children of its rows.
Subtree(i) ==
    {j \in live : \A S \in SUBSET live :
        ({i} \cap live) \subseteq S /\ (\A k \in S : Children(k) \subseteq S) => j \in S}

DeleteInode(c) ==
    /\ pc[c] = "delete"
    /\ live' = live \ Subtree(at[c])
    /\ name' = [i \in InodeIds |-> IF i \in Subtree(at[c]) THEN NoName ELSE name[i]]
    /\ kind' = [i \in InodeIds |-> IF i \in Subtree(at[c]) THEN "dir" ELSE kind[i]]
    /\ Return(c)
    /\ UNCHANGED <<parent, nextId>>

\* The request ends between two statements; what it wrote stays.
Crash(c) ==
    /\ pc[c] # "idle"
    /\ Return(c)
    /\ UNCHANGED table

\* One statement of a client. A client that only reads changes nothing that
\* others can see; the FUSE mount (FuseAdapter) is the one whose reads matter.
Step(c) ==
    \/ \E o \in Creates \cup Removes, p \in Paths : Begin(c, o, p)
    \/ Walk(c)
    \/ Resolved(c)
    \/ Lookup(c)
    \/ Insert(c)
    \/ ListChildren(c)
    \/ DeleteBlocks(c)
    \/ DeleteInode(c)
    \/ Crash(c)

-----------------------------------------------------------------------------
(* Properties                                                              *)

Labels == {"idle", "walk", "lookup", "insert", "list", "blocks", "delete"}

\* Every variable ranges over what the table and the locals can hold.
TypeOK ==
    /\ live \subseteq InodeIds /\ \A i \in live : i < nextId
    /\ parent \in [InodeIds -> InodeIds \cup {NoInode}]
    /\ name \in [InodeIds -> Names \cup {NoName}]
    /\ kind \in [InodeIds -> Kinds]
    /\ nextId \in 1..(MaxInodes + 1)
    /\ pc \in [Clients -> Labels]
    /\ op \in [Clients -> Ops]
    /\ at \in [Clients -> InodeIds]
    /\ todo \in [Clients -> Seq(Names)]
    /\ leaf \in [Clients -> Names \cup {NoName}]
    /\ listed \in [Clients -> 0..(MaxInodes + 1)]

\* The inodes form a tree below the root whose inner nodes are directories: a
\* create that resolved its parent before somebody removed it, or that found a
\* file there, adds nothing.
TreeOfDirectories ==
    \A i \in live \ {Root} :
        parent[i] \in live /\ parent[i] < i /\ kind[parent[i]] = "dir"

\* Two requests that create the same name at the same time, each after a look-up
\* that found it free, leave one inode: a path names at most one.
PathsUnambiguous ==
    \A i, j \in live \ {Root} : parent[i] = parent[j] /\ name[i] = name[j] => i = j

\* remove_directory lists the children, and deletes the directory with all that
\* is below it in a later statement. What the cascade takes besides the file or
\* directory asked for was created after the directory had been found empty: no
\* file that was there when the request looked is lost with its directory.
CascadeOnlyUnseen ==
    \A c \in Clients : pc[c] = "delete" =>
        \A i \in Subtree(at[c]) \ {at[c]} : i >= listed[c]
==============================================================================
