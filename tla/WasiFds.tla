------------------------------- MODULE WasiFds -------------------------------
(***************************************************************************)
(* The file descriptors of a WASI adapter: src/wasi/fd_table.rs and the    *)
(* fd_ operations of src/wasi/adapter.rs.                                  *)
(*                                                                         *)
(* The table is behind a mutex that is never held across an await. A read  *)
(* or a write locks it to take the path and the position, awaits the file  *)
(* system, and locks it again to advance the position; other tasks of the  *)
(* same adapter use, move or close the descriptor in between. A position   *)
(* is a u64, an offset an i64: where the sum overflows, a debug build      *)
(* panics with the mutex held, which poisons it for every later request,   *)
(* and a release build wraps.                                              *)
(***************************************************************************)
EXTENDS Integers, FiniteSets, Functions

CONSTANTS Tasks,     \* concurrent requests of one adapter
          Paths,
          Flags,     \* sets of rights to open with
          MaxFds,    \* bound: descriptors opened in one run
          MaxSize,   \* bound: bytes of a file and of a buffer
          Half       \* 2^63, small

ASSUME BoundsAssumption ==
    /\ Flags \subseteq SUBSET {"read", "write"}
    /\ MaxFds \in Nat /\ MaxSize \in Nat
    /\ Half \in Nat /\ MaxSize < Half

Fds == 3..(2 + MaxFds)      \* 0, 1 and 2 are reserved
Sizes == 0..MaxSize
Positions == 0..(2 * Half - 1)
Offsets == (-Half)..(Half - 1)
NoPath == "none"
NoFile == [kind |-> "none", size |-> 0]
Directory == [kind |-> "dir", size |-> 0]
File(n) == [kind |-> "file", size |-> n]

VARIABLES
    files,      \* what stat says of a path
    fds,        \* FdTable.fds
    nextFd,     \* FdTable.next_fd
    poisoned,   \* the mutex of the table
    pc, fd, path,
    start,      \* the position a read took
    count,      \* bytes of the buffer, then bytes moved
    flags, isDir,
    plain,      \* descriptors only read, and by one request at a time
    got         \* offsets that reads of such a descriptor have delivered

table == <<fds, nextFd, poisoned>>
ghosts == <<got, plain>>
vars == <<files, fds, nextFd, poisoned, pc, fd, path, start, count, flags,
          isDir, got, plain>>

Init ==
    /\ files = [p \in Paths |-> NoFile]
    /\ fds = <<>>
    /\ nextFd = 3
    /\ poisoned = FALSE
    /\ pc = [t \in Tasks |-> "idle"]
    /\ fd = [t \in Tasks |-> 0]
    /\ path = [t \in Tasks |-> NoPath]
    /\ start = [t \in Tasks |-> 0]
    /\ count = [t \in Tasks |-> 0]
    /\ flags = [t \in Tasks |-> {}]
    /\ isDir = [t \in Tasks |-> FALSE]
    /\ got = [f \in Fds |-> {}]
    /\ plain = {}

\* No account is kept of descriptors that are written, sought, shared or closed.
NotPlain(closed) ==
    /\ plain' = plain \ closed
    /\ got' = [f \in Fds |-> IF f \in closed THEN {} ELSE got[f]]

Return(t) ==
    /\ pc' = [pc EXCEPT ![t] = "idle"]
    /\ fd' = [fd EXCEPT ![t] = 0]
    /\ path' = [path EXCEPT ![t] = NoPath]
    /\ start' = [start EXCEPT ![t] = 0]
    /\ count' = [count EXCEPT ![t] = 0]
    /\ flags' = [flags EXCEPT ![t] = {}]
    /\ isDir' = [isDir EXCEPT ![t] = FALSE]

-----------------------------------------------------------------------------
(* The file system as the adapter sees it; the tenant has other clients.   *)

\* path_create_directory, path_unlink_file, and writes from elsewhere.
Change(p, content) ==
    /\ content # files[p]
    /\ content.kind # "none" => files[p].kind \in {"none", content.kind}
    /\ files' = [files EXCEPT ![p] = content]
    /\ UNCHANGED <<table, pc, fd, path, start, count, flags, isDir, ghosts>>

-----------------------------------------------------------------------------
(* fd_open: create, truncate and append do nothing                         *)

OpenStat(t, p, fl) ==
    /\ pc[t] = "idle"
    /\ files[p].kind # "none"         \* otherwise NotFound
    /\ pc' = [pc EXCEPT ![t] = "open"]
    /\ path' = [path EXCEPT ![t] = p]
    /\ flags' = [flags EXCEPT ![t] = fl]
    /\ isDir' = [isDir EXCEPT ![t] = files[p].kind = "dir"]
    /\ UNCHANGED <<files, table, fd, start, count, ghosts>>

\* The number the next descriptor gets: never one that was used before. It is a
\* u32, of which MaxFds is a bound: that it wraps is not modelled.
LowestFree == CHOOSE f \in Fds \ DOMAIN fds : \A g \in Fds \ DOMAIN fds : f <= g

NewFd == nextFd

Allocate(t) ==
    /\ pc[t] = "open"
    /\ ~poisoned
    /\ nextFd \in Fds
    /\ fds' = [f \in DOMAIN fds \cup {NewFd} |->
                  IF f = NewFd
                  THEN [path |-> path[t], flags |-> flags[t], isDir |-> isDir[t],
                        position |-> 0]
                  ELSE fds[f]]
    /\ nextFd' = nextFd + 1
    /\ got' = [got EXCEPT ![NewFd] = {}]
    /\ plain' = plain \cup {NewFd}
    /\ Return(t)
    /\ UNCHANGED <<files, poisoned>>

-----------------------------------------------------------------------------
(* fd_read and fd_write                                                    *)

\* The first lock: unknown descriptors, missing rights and directories return
\* an error at once.
Lock(t, f, right, n) ==
    /\ pc[t] = "idle" /\ ~poisoned
    /\ f \in DOMAIN fds
    /\ right \in fds[f].flags /\ ~fds[f].isDir
    /\ pc' = [pc EXCEPT ![t] = right]
    /\ fd' = [fd EXCEPT ![t] = f]
    /\ path' = [path EXCEPT ![t] = fds[f].path]
    /\ start' = [start EXCEPT ![t] = IF right = "read" THEN fds[f].position ELSE 0]
    /\ count' = [count EXCEPT ![t] = n]
    /\ IF right = "write" \/ \E u \in Tasks : fd[u] = f
       THEN NotPlain({f}) ELSE UNCHANGED ghosts
    /\ UNCHANGED <<files, table, flags, isDir>>

\* How much of the file is in the buffer's reach; a sum that overflows belongs
\* to a position past the end of every file.
ReachWholeBuffer(t, size) == IF start[t] >= size THEN 0 ELSE count[t]

Reach(t, size) ==
    IF start[t] >= size THEN 0
    ELSE IF start[t] + count[t] <= size THEN count[t] ELSE size - start[t]

\* The bytes of the file that this read has put in the buffer.
Delivered(t) ==
    got' = IF fd[t] \in plain /\ files[path[t]].kind = "file"
           THEN [got EXCEPT ![fd[t]] =
                    @ \cup {o \in 0..(files[path[t]].size - 1) :
                                start[t] <= o /\ o < start[t] + count[t]}]
           ELSE got

\* read_file; at the end of the file, or on an error, the position stays.
Read(t) ==
    /\ pc[t] = "read"
    /\ LET f == files[path[t]]
           bytes == Reach(t, f.size)
       IN  IF f.kind # "file" \/ start[t] >= f.size THEN Return(t)
           ELSE /\ pc' = [pc EXCEPT ![t] = "read_advance"]
                /\ count' = [count EXCEPT ![t] = bytes]
                /\ UNCHANGED <<fd, path, start, flags, isDir>>
    /\ Delivered(t)
    /\ UNCHANGED <<files, table, plain>>

\* write_file replaces the whole file, wherever the position is.
Write(t) ==
    /\ pc[t] = "write"
    /\ IF files[path[t]].kind = "file"
       THEN /\ files' = [files EXCEPT ![path[t]] = File(count[t])]
            /\ pc' = [pc EXCEPT ![t] = "write_advance"]
            /\ UNCHANGED <<fd, path, start, count, flags, isDir>>
       ELSE Return(t) /\ UNCHANGED files
    /\ UNCHANGED <<table, ghosts>>

\* position += n on a u64.
MoveBy(f, n) ==
    LET sum == fds[f].position + n
    IN  \/ /\ fds' = [fds EXCEPT ![f].position = sum % (2 * Half)]
           /\ UNCHANGED poisoned
        \/ /\ sum >= 2 * Half
           /\ poisoned' = TRUE
           /\ UNCHANGED fds

\* The second lock. A descriptor closed meanwhile is BadFd, also after a write
\* that was applied.
Advance(t) ==
    /\ pc[t] \in {"read_advance", "write_advance"}
    /\ ~poisoned
    /\ IF fd[t] \in DOMAIN fds
       THEN MoveBy(fd[t], count[t])
       ELSE UNCHANGED <<fds, poisoned>>
    /\ Return(t)
    /\ UNCHANGED <<files, nextFd, ghosts>>

\* lock().unwrap() of a poisoned mutex.
Panic(t) ==
    /\ poisoned
    /\ pc[t] \in {"open", "read_advance", "write_advance"}
    /\ Return(t)
    /\ UNCHANGED <<files, table, ghosts>>

-----------------------------------------------------------------------------
(* fd_seek, fd_close and close_all: one lock each                          *)

\* SEEK_SET refuses a negative offset, SEEK_CUR one beyond the beginning,
\* SEEK_END every one. Negating the least offset overflows, too.
SeekSet(f, o) ==
    /\ o >= 0
    /\ fds' = [fds EXCEPT ![f].position = o]
    /\ UNCHANGED poisoned

SeekBackUnchecked(f, o) ==
    /\ o < 0
    /\ fds' = [fds EXCEPT ![f].position = @ + o]
    /\ UNCHANGED poisoned

SeekBack(f, o) ==
    /\ o < 0
    /\ \/ /\ fds[f].position + o >= 0
          /\ fds' = [fds EXCEPT ![f].position = @ + o]
          /\ UNCHANGED poisoned
       \/ /\ o = -Half
          /\ poisoned' = TRUE
          /\ UNCHANGED fds

FdSeek(t, f, o) ==
    /\ pc[t] = "idle" /\ ~poisoned
    /\ f \in DOMAIN fds
    /\ SeekSet(f, o) \/ SeekBack(f, o) \/ (o >= 0 /\ MoveBy(f, o))
    /\ NotPlain({f})
    /\ UNCHANGED <<files, nextFd, pc, fd, path, start, count, flags, isDir>>

CloseFds(t, closed) ==
    /\ pc[t] = "idle" /\ ~poisoned
    /\ closed # {} /\ closed \subseteq DOMAIN fds
    /\ fds' = Restrict(fds, DOMAIN fds \ closed)
    /\ NotPlain(closed)
    /\ UNCHANGED <<files, nextFd, poisoned, pc, fd, path, start, count, flags,
                   isDir>>

FdClose(t, f) == CloseFds(t, {f})
CloseAll(t) == CloseFds(t, DOMAIN fds)

Next ==
    \/ \E p \in Paths, content \in {NoFile, Directory} \cup {File(n) : n \in Sizes} :
          Change(p, content)
    \/ \E t \in Tasks :
        \/ \E p \in Paths, fl \in Flags : OpenStat(t, p, fl)
        \/ Allocate(t)
        \/ \E f \in Fds, right \in {"read", "write"}, n \in Sizes : Lock(t, f, right, n)
        \/ Read(t)
        \/ Write(t)
        \/ Advance(t)
        \/ Panic(t)
        \/ \E f \in Fds, o \in Offsets : FdSeek(t, f, o)
        \/ \E f \in Fds : FdClose(t, f)
        \/ CloseAll(t)

Spec == Init /\ [][Next]_vars

-----------------------------------------------------------------------------
(* Properties                                                              *)

Descriptors == [path : Paths, flags : Flags, isDir : BOOLEAN, position : Positions]

\* Every variable ranges over what the table and the locals can hold; no seek
\* and no sum of offsets leaves the range of a u64.
TypeOK ==
    /\ files \in [Paths -> {NoFile, Directory} \cup {File(n) : n \in Sizes}]
    /\ nextFd \in 3..(3 + MaxFds)
    /\ DOMAIN fds \subseteq 3..(nextFd - 1)
    /\ \A f \in DOMAIN fds : fds[f] \in Descriptors
    /\ poisoned \in BOOLEAN
    /\ pc \in [Tasks -> {"idle", "open", "read", "write", "read_advance",
                         "write_advance"}]
    /\ fd \in [Tasks -> Fds \cup {0}]
    /\ path \in [Tasks -> Paths \cup {NoPath}]
    /\ start \in [Tasks -> Positions]
    /\ count \in [Tasks -> Sizes]
    /\ flags \in [Tasks -> Flags \cup {{}}]
    /\ isDir \in [Tasks -> BOOLEAN]

\* A request that comes back from its await never moves the position of another
\* open file: the descriptor it finds under its number, if any, is the one it
\* started on, although that may have been closed and others opened meanwhile.
ResumesOnOwnDescriptor ==
    \A t \in Tasks :
        pc[t] \in {"read", "write", "read_advance", "write_advance"}
            /\ fd[t] \in DOMAIN fds =>
            /\ fds[fd[t]].path = path[t]
            /\ (IF pc[t] \in {"read", "read_advance"} THEN "read" ELSE "write")
                   \in fds[fd[t]].flags
            /\ ~fds[fd[t]].isDir

\* Reads through a descriptor that is used by one request at a time leave no gap
\* and repeat nothing: they have delivered the bytes up to the position, also
\* when the file was written, cut, deleted or made again between the lock and
\* the read, and when reads came back short, empty or with an error. A panic that
\* poisons the table ends every account.
SequentialReadsTile ==
    ~poisoned => \A f \in plain \cap DOMAIN fds :
        (\A t \in Tasks : fd[t] = f => pc[t] # "read_advance")
            => got[f] = 0..(fds[f].position - 1)
==============================================================================
