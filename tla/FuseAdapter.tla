----------------------------- MODULE FuseAdapter -----------------------------
(***************************************************************************)
(* A FUSE mount of the tenant: the callbacks of src/fuse/adapter.rs on the *)
(* backend src/fuse/backend.rs, as one client of the directory tree of     *)
(* Namespace among others (the command line, WASI hosts, other mounts).    *)
(*                                                                         *)
(* The kernel names files by numbers, the backend by paths; the adapter    *)
(* keeps the map between them (InodeMap). fuser hands the callbacks over   *)
(* one at a time, so the map has a single user, but every backend call     *)
(* resolves its path anew in a tree that the others change meanwhile.      *)
(***************************************************************************)
EXTENDS Namespace

CONSTANTS Mount,       \* the client that is the FUSE mount
          HookName,    \* ".tarbox", the virtual directory below the root
          MaxNumbers   \* bound: inode numbers one mount process gives out

ASSUME MountAssumption ==
    Mount \in Clients /\ HookName \notin Names /\ MaxNumbers \in Nat \ {0}

Numbers == 1..MaxNumbers
RootNumber == 1
HookPath == <<HookName>>

VARIABLES
    imap,     \* InodeMap: inode_to_path, path_to_inode, next_inode
    cb,       \* the callback under way: its number or 0, its path, the backend
              \* calls still to make after the present one
    meant,    \* ghost: the inodes each number was replied for or acted on
    unseen    \* ghost: those of them removed otherwise than by an unlink or
              \* rmdir of this mount on the inode itself that was answered

fuseVars == <<imap, cb, meant, unseen>>
allVars == <<vars, fuseVars>>

-----------------------------------------------------------------------------
(* InodeMap                                                                *)

EmptyMap ==
    [inode_to_path |-> [n \in {RootNumber} |-> <<>>],
     path_to_inode |-> [p \in {<<>>} |-> RootNumber],
     next_inode |-> 2]

MapInsert(m, n, p) ==
    [m EXCEPT
        !.inode_to_path = [k \in DOMAIN @ \cup {n} |-> IF k = n THEN p ELSE @[k]],
        !.path_to_inode = [q \in DOMAIN @ \cup {p} |-> IF q = p THEN n ELSE @[q]]]

\* get_or_create: a path that has a number keeps it.
GetOrCreate(m, p) ==
    IF p \in DOMAIN m.path_to_inode THEN m
    ELSE MapInsert([m EXCEPT !.next_inode = @ + 1], m.next_inode, p)

\* get_or_create for a set of paths, one after the other: num gives those that
\* have no number yet the next ones.
Numberings(m, ps) ==
    LET new == ps \ DOMAIN m.path_to_inode
    IN  Injection(new, m.next_inode..(m.next_inode + Cardinality(new) - 1))

GetOrCreateEach(m, num) ==
    [inode_to_path |->
        [n \in DOMAIN m.inode_to_path \cup Range(num) |->
            IF n \in Range(num) THEN CHOOSE p \in DOMAIN num : num[p] = n
            ELSE m.inode_to_path[n]],
     path_to_inode |->
        [p \in DOMAIN m.path_to_inode \cup DOMAIN num |->
            IF p \in DOMAIN num THEN num[p] ELSE m.path_to_inode[p]],
     next_inode |-> m.next_inode + Cardinality(DOMAIN num)]

MapRemoveNoInverse(m, n) ==
    IF n \in DOMAIN m.inode_to_path
    THEN [m EXCEPT !.inode_to_path = Restrict(@, DOMAIN @ \ {n})]
    ELSE m

MapRemove(m, n) ==
    IF n \in DOMAIN m.inode_to_path
    THEN [m EXCEPT
             !.inode_to_path = Restrict(@, DOMAIN @ \ {n}),
             !.path_to_inode = Restrict(@, DOMAIN @ \ {m.inode_to_path[n]})]
    ELSE m

\* What rmdir and unlink do to the map once the backend has succeeded.
ForgetNothing(m, p) == m

Forget(m, p) ==
    IF p \in DOMAIN m.path_to_inode THEN MapRemove(m, m.path_to_inode[p]) ELSE m

-----------------------------------------------------------------------------
NothingMeant == [n \in Numbers |-> IF n = RootNumber THEN {Root} ELSE {}]
NoCallback == [num |-> 0, path |-> <<>>, rest |-> <<>>]

FuseInit ==
    /\ Init
    /\ imap = EmptyMap
    /\ cb = NoCallback
    /\ meant = NothingMeant
    /\ unseen = {}

\* is_hook_path, answered without the tree. (Names does not hold the hook's: other
\* clients may create such a file, but the mount never gets to it.)
IsHookPath(p) == p # <<>> /\ Head(p) = HookName

Idle == pc[Mount] = "idle" /\ cb = NoCallback

\* The number n has been replied for, or has acted on, inode i.
Means(n, i) == meant' = [meant EXCEPT ![n] = @ \cup {i}]

\* The inodes in S disappear without the mount having asked for it.
Vanish(S) == unseen' = unseen \cup (S \cap UNION {meant[n] : n \in Numbers})

\* The callback ends, or goes on with its next backend call.
Finish == cb' = NoCallback

-----------------------------------------------------------------------------
(* The beginning of a callback: get_path or ENOENT, which changes nothing. *)
(* Hook paths are refused by every callback that would change something    *)
(* there, and answered by the hooks handler otherwise.                     *)

\* lookup, mkdir, create, rmdir and unlink: a name in a directory given by its number
NameOps == Creates \cup Removes \cup {"stat"}

ByName(o, n, nm) ==
    LET p == Append(imap.inode_to_path[n], nm) IN
    /\ Idle
    /\ n \in DOMAIN imap.inode_to_path
    /\ Len(p) <= MaxDepth
    /\ ~IsHookPath(p)
    /\ Begin(Mount, o, p)
    /\ cb' = [NoCallback EXCEPT !.path = p]
    /\ UNCHANGED <<imap, meant, unseen>>

\* lookup of /.tarbox: the hooks handler knows it, and it gets a number.
LookupHook ==
    /\ Idle
    /\ imap' = GetOrCreate(imap, HookPath)
    /\ imap'.next_inode <= MaxNumbers + 1
    /\ UNCHANGED <<vars, cb, meant, unseen>>

\* The backend calls of the callbacks on a number. Reading and writing take a
\* file (a write other than at offset 0 is refused), and so does truncate (other
\* than to 0 is refused, 0 writes an empty file).
ReadWrite == <<"file">>
Truncate == <<"file">>

\* set_attr makes one call for the mode, one for the owner (an absent uid or gid
\* becomes 0), one for the size, each only if asked for, and get_attr at the
\* end; the times are ignored.
SetAttrCalls ==
    {mode \o owner \o size \o <<"stat">> :
        mode \in {<<>>, <<"stat">>}, owner \in {<<>>, <<"stat">>},
        size \in {<<>>, Truncate}}

\* getattr, setattr; read and write; readdir
NumberCalls == SetAttrCalls \cup {<<"stat">>, ReadWrite, <<"readdir">>}

ByNumber(calls, n) ==
    LET p == imap.inode_to_path[n] IN
    /\ Idle
    /\ n \in DOMAIN imap.inode_to_path
    /\ ~IsHookPath(p)
    /\ Begin(Mount, Head(calls), p)
    /\ cb' = [num |-> n, path |-> p, rest |-> Tail(calls)]
    /\ UNCHANGED <<imap, meant, unseen>>

\* The next backend call of set_attr; it opens a FileSystem of its own and
\* resolves the path again.
NextCall ==
    /\ pc[Mount] = "idle"
    /\ cb.rest # <<>>
    /\ Begin(Mount, Head(cb.rest), cb.path)
    /\ cb' = [cb EXCEPT !.rest = Tail(@)]
    /\ UNCHANGED <<imap, meant, unseen>>

-----------------------------------------------------------------------------
(* The statements of the backend calls, with what the callback makes of    *)
(* the answer                                                              *)

\* The request goes on, or ends with an error that the callback passes on.
MountWorks ==
    /\ \/ Walk(Mount)
       \/ Lookup(Mount)
       \/ DeleteBlocks(Mount)
    /\ IF pc'[Mount] = "idle" THEN Finish ELSE UNCHANGED cb
    /\ UNCHANGED <<imap, meant, unseen>>

MountResolved ==
    /\ Resolved(Mount)
    /\ IF pc'[Mount] # "idle"
       THEN UNCHANGED <<cb, imap, meant>>
       ELSE IF ~Found(Mount)
       THEN Finish /\ UNCHANGED <<imap, meant>>
       ELSE IF cb.num # 0
       \* getattr, read, write, set_attr: the reply carries the kernel's number.
       THEN /\ Means(cb.num, at[Mount])
            /\ IF cb.rest = <<>> THEN Finish ELSE UNCHANGED cb
            /\ UNCHANGED imap
       \* lookup
       ELSE /\ imap' = GetOrCreate(imap, cb.path)
            /\ imap'.next_inode <= MaxNumbers + 1
            /\ Means(imap'.path_to_inode[cb.path], at[Mount])
            /\ Finish
    /\ UNCHANGED unseen

\* mkdir and create
MountInserted ==
    /\ Insert(Mount)
    /\ IF nextId \in live'
       THEN /\ imap' = GetOrCreate(imap, cb.path)
            /\ imap'.next_inode <= MaxNumbers + 1
            /\ Means(imap'.path_to_inode[cb.path], nextId)
       ELSE UNCHANGED <<imap, meant>>
    /\ Finish
    /\ UNCHANGED unseen

\* readdir gives every entry of the directory a number, in the order of their
\* names, which the model leaves open, and the virtual directory in the root.
ListedPaths == {Append(cb.path, name[i]) : i \in Children(at[Mount])}

NumberListed(m, num) ==
    IF cb.path = <<>> THEN GetOrCreate(GetOrCreateEach(m, num), HookPath)
    ELSE GetOrCreateEach(m, num)

MountListed ==
    /\ ListChildren(Mount)
    /\ IF op[Mount] = "readdir"
       THEN /\ \E num \in Numberings(imap, ListedPaths) : imap' = NumberListed(imap, num)
            /\ imap'.next_inode <= MaxNumbers + 1
            /\ meant' = [n \in Numbers |-> meant[n] \cup
                  (IF n = cb.num THEN {at[Mount]} \cap live ELSE {}) \cup
                  {i \in Children(at[Mount]) :
                       imap'.path_to_inode[Append(cb.path, name[i])] = n}]
       ELSE UNCHANGED <<imap, meant>>
    /\ IF pc'[Mount] = "idle" THEN Finish ELSE UNCHANGED cb
    /\ UNCHANGED unseen

\* rmdir and unlink; a DELETE that meets no row succeeds as well.
MountDeleted ==
    /\ DeleteInode(Mount)
    /\ imap' = Forget(imap, cb.path)
    /\ Vanish((live \ live') \ {at[Mount]})
    /\ Finish
    /\ UNCHANGED meant

\* A statement of the backend call fails, or its answer is lost after it took
\* effect: the callback replies with an errno, and the map stays as it is.
MountFails ==
    /\ \/ Crash(Mount)
       \/ Insert(Mount)
       \/ DeleteInode(Mount)
    /\ Vanish(live \ live')
    /\ Finish
    /\ UNCHANGED <<imap, meant>>

\* The mount process ends; the next one starts with an empty map, and the
\* kernel knows none of the old numbers.
Remount ==
    /\ \/ Crash(Mount)
       \/ pc[Mount] = "idle" /\ imap # EmptyMap /\ UNCHANGED vars
    /\ imap' = EmptyMap
    /\ meant' = NothingMeant
    /\ unseen' = {}
    /\ Finish

\* Another client of the tree
Outside(c) ==
    /\ c # Mount
    /\ Step(c)
    /\ Vanish(live \ live')
    /\ UNCHANGED <<imap, cb, meant>>

FuseNext ==
    \/ \E o \in NameOps, n \in Numbers, nm \in Names :
           ByName(o, n, nm)
    \/ LookupHook
    \/ \E calls \in NumberCalls, n \in Numbers : ByNumber(calls, n)
    \/ NextCall
    \/ MountWorks
    \/ MountResolved
    \/ MountInserted
    \/ MountListed
    \/ MountDeleted
    \/ MountFails
    \/ Remount
    \/ \E c \in Clients : Outside(c)

Spec == FuseInit /\ [][FuseNext]_allVars

-----------------------------------------------------------------------------
(* Properties                                                              *)

\* What the map may hold as a path
MapPaths == Paths \cup {HookPath}

\* The tree, the map and the callback range over what they can hold.
FuseTypeOK ==
    /\ TypeOK
    /\ imap \in [inode_to_path : UNION {[S -> MapPaths] : S \in SUBSET Numbers},
                 path_to_inode : UNION {[S -> Numbers] : S \in SUBSET MapPaths},
                 next_inode : 2..(MaxNumbers + 1)]
    /\ cb \in [num : Numbers \cup {0}, path : Paths, rest : Seq({"stat", "file"})]
    /\ meant \in [Numbers -> SUBSET InodeIds]
    /\ unseen \subseteq InodeIds

\* A number leads the kernel to one file. It leads to a second one only after
\* another client, the cascade of a racing rmdir, or a removal whose answer was
\* lost took the first away: after an unlink or rmdir that the mount has seen
\* succeed, the file created in its place has another number. That holds for each call of a set_attr too, so its parts go
\* to different files only in that case.
NumberMeansOneFile ==
    \A n \in Numbers : \A i, j \in meant[n] : i < j => i \in unseen

\* resolve_path of p, with nobody interfering, ends at inode i.
Leads(p, i) ==
    \E chain \in [0..Len(p) -> live] :
        /\ chain[0] = Root /\ chain[Len(p)] = i
        /\ \A k \in 1..Len(p) : chain[k] \in Named(chain[k - 1], p[k])

\* As long as a file exists, a number the kernel was given for it is in the map,
\* with a path that leads to the file: callbacks on it neither end with ENOENT
\* nor go to another file.
KernelNumbersReach ==
    \A n \in Numbers : \A i \in meant[n] \cap live :
        /\ n \in DOMAIN imap.inode_to_path
        /\ Leads(imap.inode_to_path[n], i)
==============================================================================
