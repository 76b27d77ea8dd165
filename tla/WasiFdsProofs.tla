---------------------------- MODULE WasiFdsProofs ----------------------------
(***************************************************************************)
(* The descriptor table of a WASI adapter, for any number of tasks, paths, *)
(* descriptors and any width of a position. Numbers are never used twice,  *)
(* so what a task finds after its await under the number it took before is *)
(* its own descriptor or nothing; and a descriptor that one request at a   *)
(* time reads has delivered the bytes up to its position, or, between the  *)
(* read and the second lock, up to where the position will be.             *)
(***************************************************************************)
EXTENDS WasiFds, TLAPS

Labels == {"idle", "open", "read", "write", "read_advance", "write_advance"}
Away(t) == pc[t] \in {"read", "write", "read_advance", "write_advance"}
Right(t) == IF pc[t] \in {"read", "read_advance"} THEN "read" ELSE "write"

FilesTyped == files \in [Paths -> {NoFile, Directory} \cup {File(n) : n \in Sizes}]

TableTyped ==
    /\ nextFd \in 3..(3 + MaxFds)
    /\ DOMAIN fds \subseteq 3..(nextFd - 1)
    /\ \A f \in DOMAIN fds : fds[f] \in Descriptors
    /\ poisoned \in BOOLEAN

LocalsTyped ==
    /\ pc \in [Tasks -> Labels]
    /\ fd \in [Tasks -> Fds \cup {0}]
    /\ path \in [Tasks -> Paths \cup {NoPath}]
    /\ start \in [Tasks -> Positions]
    /\ count \in [Tasks -> Sizes]
    /\ flags \in [Tasks -> Flags \cup {{}}]
    /\ isDir \in [Tasks -> BOOLEAN]

\* Only a task that is away holds a number, and one that was given out.
HoldsNumber(t) ==
    /\ ~Away(t) => fd[t] = 0
    /\ pc[t] = "open" => path[t] \in Paths /\ flags[t] \in Flags
    /\ Away(t) => fd[t] \in 3..(nextFd - 1) /\ path[t] \in Paths

\* What a task finds under its number is what it took it from.
OwnDescriptor(t) ==
    Away(t) /\ fd[t] \in DOMAIN fds =>
        /\ fds[fd[t]].path = path[t]
        /\ Right(t) \in fds[fd[t]].flags
        /\ ~fds[fd[t]].isDir

\* The accounts are of open descriptors, and of at most one request at a time.
PlainOK ==
    /\ got \in [Fds -> SUBSET Int]
    /\ plain \subseteq DOMAIN fds
    /\ \A t \in Tasks : fd[t] \in plain => pc[t] \in {"read", "read_advance"}
    /\ \A t, u \in Tasks : fd[t] \in plain /\ fd[u] = fd[t] => t = u

\* How far the reads of a descriptor have got.
Account(f) ==
    /\ (\A t \in Tasks : fd[t] = f => pc[t] # "read_advance") =>
           got[f] = 0..(fds[f].position - 1)
    /\ \A t \in Tasks : fd[t] = f =>
           /\ start[t] = fds[f].position
           /\ pc[t] = "read_advance" =>
                  start[t] + count[t] <= MaxSize /\ got[f] = 0..(start[t] + count[t] - 1)

FdsInv ==
    /\ FilesTyped /\ TableTyped /\ LocalsTyped
    /\ \A t \in Tasks : HoldsNumber(t) /\ OwnDescriptor(t)
    /\ PlainOK
    /\ ~poisoned => \A f \in plain : Account(f)

-----------------------------------------------------------------------------

LEMMA Arithmetic ==
    /\ MaxFds \in Nat /\ MaxSize \in Nat /\ Half \in Nat \ {0} /\ MaxSize < Half
    /\ 0 \in Positions /\ 0 \in Sizes /\ Positions \subseteq Nat /\ Sizes \subseteq Nat
    /\ Fds \subseteq Nat /\ 0 \notin Fds
    /\ \A n \in Nat : n % (2 * Half) \in Positions
    /\ \A n \in Nat : n < 2 * Half => n % (2 * Half) = n
<1>1. MaxFds \in Nat /\ MaxSize \in Nat /\ Half \in Nat \ {0} /\ MaxSize < Half
  BY BoundsAssumption
<1>2. PICK m \in Nat \ {0} : m = 2 * Half
  BY <1>1
<1>3. \A n \in Nat : n % m \in 0..(m - 1) /\ (n < m => n % m = n)
  BY <1>2
<1> QED
  BY <1>1, <1>2, <1>3 DEF Positions, Sizes, Fds

\* Every number given out is one of a descriptor.
LEMMA NumbersGivenOut ==
    ASSUME TableTyped
    PROVE  /\ nextFd \in Nat /\ DOMAIN fds \subseteq Fds /\ 3..(nextFd - 1) \subseteq Fds
           /\ nextFd \notin DOMAIN fds
           /\ \A f \in DOMAIN fds :
                  /\ fds[f].position \in Positions /\ fds[f].path \in Paths
                  /\ fds[f].flags \in Flags /\ fds[f].isDir \in BOOLEAN
<1>1. nextFd \in 3..(3 + MaxFds) /\ DOMAIN fds \subseteq 3..(nextFd - 1) /\ MaxFds \in Nat
  BY Arithmetic DEF TableTyped
<1>2. /\ nextFd \in Nat /\ DOMAIN fds \subseteq Fds /\ 3..(nextFd - 1) \subseteq Fds
      /\ nextFd \notin DOMAIN fds
  BY <1>1 DEF Fds
<1>3. \A f \in DOMAIN fds : fds[f] \in Descriptors
  BY DEF TableTyped
<1> QED
  BY <1>2, <1>3 DEF Descriptors

LEMMA FileKinds ==
    ASSUME FilesTyped, NEW p \in Paths
    PROVE  /\ files[p].size \in Sizes
           /\ files[p].kind = "file" => files[p] = File(files[p].size)
BY Arithmetic DEF FilesTyped, NoFile, Directory, File

LEMMA ReturnTyped ==
    ASSUME LocalsTyped, NEW t \in Tasks, Return(t)
    PROVE  /\ LocalsTyped'
           /\ pc'[t] = "idle" /\ fd'[t] = 0
           /\ \A u \in Tasks \ {t} :
                  /\ pc'[u] = pc[u] /\ fd'[u] = fd[u] /\ path'[u] = path[u]
                  /\ start'[u] = start[u] /\ count'[u] = count[u] /\ flags'[u] = flags[u]
<1>1. "idle" \in Labels /\ 0 \in Positions /\ 0 \in Sizes
  BY Arithmetic DEF Labels
<1> QED
  BY <1>1 DEF LocalsTyped, Return
\* No descriptor comes back under a number that was given out, and none changes
\* what it is of.
TableGrows ==
    /\ nextFd <= nextFd'
    /\ \A f \in 3..(nextFd - 1) : f \in DOMAIN fds' =>
           /\ f \in DOMAIN fds
           /\ fds'[f].path = fds[f].path /\ fds'[f].flags = fds[f].flags
           /\ fds'[f].isDir = fds[f].isDir

\* A task that takes no step
Rests(u) ==
    /\ pc'[u] = pc[u] /\ fd'[u] = fd[u] /\ path'[u] = path[u]
    /\ start'[u] = start[u] /\ count'[u] = count[u] /\ flags'[u] = flags[u]

LEMMA RestingTask ==
    ASSUME FdsInv, TableTyped', TableGrows, NEW u \in Tasks, Rests(u)
    PROVE  HoldsNumber(u)' /\ OwnDescriptor(u)'
<1>1. /\ HoldsNumber(u) /\ OwnDescriptor(u) /\ nextFd \in Nat /\ nextFd' \in Nat
      /\ nextFd <= nextFd'
  BY Arithmetic DEF FdsInv, TableTyped, TableGrows
<1>2. pc'[u] = pc[u] /\ fd'[u] = fd[u] /\ path'[u] = path[u] /\ flags'[u] = flags[u]
  BY DEF Rests
<1>3. (Away(u)' <=> Away(u)) /\ Right(u)' = Right(u)
  BY <1>2 DEF Away, Right
<1>4. HoldsNumber(u)'
  BY <1>1, <1>2, <1>3 DEF HoldsNumber
<1>5. Away(u) /\ fd[u] \in DOMAIN fds' =>
          /\ fd[u] \in DOMAIN fds
          /\ fds'[fd[u]].path = fds[fd[u]].path /\ fds'[fd[u]].flags = fds[fd[u]].flags
          /\ fds'[fd[u]].isDir = fds[fd[u]].isDir
  BY <1>1 DEF HoldsNumber, TableGrows
<1>6. OwnDescriptor(u)'
  BY <1>1, <1>2, <1>3, <1>5 DEF OwnDescriptor
<1> QED
  BY <1>4, <1>6

\* The account of a descriptor that nobody uses in this step
LEMMA AccountKept ==
    ASSUME NEW f, Account(f), got'[f] = got[f], fds'[f].position = fds[f].position,
           \A t \in Tasks : fd[t] = f \/ fd'[t] = f =>
               /\ fd'[t] = fd[t] /\ pc'[t] = pc[t]
               /\ start'[t] = start[t] /\ count'[t] = count[t]
    PROVE  Account(f)'
BY DEF Account

\* A task that is done, whose descriptor no account is kept of, or whose read was at
\* the end of the file
LEMMA ReturnAccount ==
    ASSUME FdsInv, NEW t \in Tasks, Return(t), NEW f \in plain, Account(f),
           fd[t] = f => pc[t] # "read_advance",
           got'[f] = got[f], fds'[f].position = fds[f].position
    PROVE  Account(f)'
<1>1. /\ pc'[t] = "idle" /\ fd'[t] = 0
      /\ \A u \in Tasks \ {t} : Rests(u)
  BY ReturnTyped DEF FdsInv, Rests
<1>2. f # 0
  BY NumbersGivenOut, Arithmetic DEF FdsInv, PlainOK
<1>3. CASE fd[t] # f
  BY <1>1, <1>2, <1>3, AccountKept DEF Rests
<1>4. CASE fd[t] = f
  <2>1. \A u \in Tasks : fd'[u] # f
    BY <1>1, <1>2, <1>4 DEF FdsInv, PlainOK, Rests
  <2>2. \A u \in Tasks : fd[u] = f => pc[u] # "read_advance"
    BY <1>4 DEF FdsInv, PlainOK
  <2> QED
    BY <2>1, <2>2 DEF Account
<1> QED
  BY <1>3, <1>4

\* A task that is done leaves the numbers of the others as they are.
LEMMA ReturnPlain ==
    ASSUME FdsInv, NEW t \in Tasks, Return(t),
           got' \in [Fds -> SUBSET Int], plain' \subseteq plain, plain' \subseteq DOMAIN fds'
    PROVE  PlainOK'
<1>1. /\ pc'[t] = "idle" /\ fd'[t] = 0 /\ \A u \in Tasks \ {t} : Rests(u)
      /\ PlainOK /\ 0 \notin plain
  BY ReturnTyped, NumbersGivenOut, Arithmetic DEF FdsInv, Rests, PlainOK
<1> QED
  BY <1>1 DEF PlainOK, Rests

LEMMA ReturnTasks ==
    ASSUME FdsInv, NEW t \in Tasks, Return(t), TableTyped', TableGrows
    PROVE  LocalsTyped' /\ \A u \in Tasks : HoldsNumber(u)' /\ OwnDescriptor(u)'
<1>1. /\ LocalsTyped' /\ pc'[t] = "idle" /\ fd'[t] = 0
      /\ \A u \in Tasks \ {t} : Rests(u)
  BY ReturnTyped DEF FdsInv, Rests
<1>2. HoldsNumber(t)' /\ OwnDescriptor(t)'
  BY <1>1 DEF HoldsNumber, OwnDescriptor, Away
<1>3. \A u \in Tasks \ {t} : HoldsNumber(u)' /\ OwnDescriptor(u)'
  BY <1>1, RestingTask
<1> QED
  BY <1>1, <1>2, <1>3

LEMMA ChangeKeeps ==
    ASSUME FdsInv, FilesTyped', UNCHANGED <<table, pc, fd, path, start, count, flags, isDir, ghosts>>
    PROVE  FdsInv'
<1>1. UNCHANGED <<fds, nextFd, poisoned, pc, fd, path, start, count, flags, isDir, got, plain>>
  BY DEF table, ghosts
<1>2. TableTyped' /\ LocalsTyped'
  BY <1>1 DEF FdsInv, TableTyped, LocalsTyped
<1>3. \A t \in Tasks : HoldsNumber(t)' /\ OwnDescriptor(t)'
  BY <1>1 DEF FdsInv, HoldsNumber, OwnDescriptor, Away, Right
<1>4. PlainOK'
  BY <1>1 DEF FdsInv, PlainOK
<1>5. ~poisoned' => \A f \in plain' : Account(f)'
  BY <1>1 DEF FdsInv, Account
<1> QED
  BY <1>2, <1>3, <1>4, <1>5 DEF FdsInv

LEMMA OpenStatKeeps ==
    ASSUME FdsInv, NEW t \in Tasks, NEW p \in Paths, NEW fl \in Flags, OpenStat(t, p, fl)
    PROVE  FdsInv'
<1>1. /\ UNCHANGED <<files, fds, nextFd, poisoned, fd, start, count, got, plain>>
      /\ pc' = [pc EXCEPT ![t] = "open"] /\ path' = [path EXCEPT ![t] = p]
      /\ flags' = [flags EXCEPT ![t] = fl] /\ pc[t] = "idle"
      /\ isDir' = [isDir EXCEPT ![t] = files[p].kind = "dir"]
  BY DEF OpenStat, table, ghosts
<1>2. FilesTyped' /\ TableTyped'
  BY <1>1 DEF FdsInv, FilesTyped, TableTyped
<1>3. LocalsTyped'
  <2>1. isDir' \in [Tasks -> BOOLEAN]
    BY <1>1, Zenon DEF FdsInv, LocalsTyped
  <2> QED
    BY <1>1, <2>1 DEF FdsInv, LocalsTyped, Labels
<1>4. /\ pc'[t] = "open" /\ path'[t] = p /\ flags'[t] = fl /\ fd[t] = 0
      /\ \A u \in Tasks \ {t} : Rests(u)
  BY <1>1 DEF FdsInv, LocalsTyped, Rests, HoldsNumber, Away
<1>5. TableGrows
  BY <1>1, NumbersGivenOut DEF TableGrows, FdsInv
<1>6. HoldsNumber(t)' /\ OwnDescriptor(t)'
  BY <1>1, <1>4 DEF HoldsNumber, OwnDescriptor, Away
<1>7. \A u \in Tasks \ {t} : HoldsNumber(u)' /\ OwnDescriptor(u)'
  BY <1>2, <1>4, <1>5, RestingTask
<1>8. 0 \notin plain
  BY NumbersGivenOut, Arithmetic DEF FdsInv, PlainOK
<1>9. PlainOK'
  BY <1>1, <1>4, <1>8 DEF FdsInv, PlainOK, Rests
<1>10. \A f \in plain : Account(f) => Account(f)'
  BY <1>1, <1>4, <1>8, AccountKept DEF Rests
<1> QED
  BY <1>1, <1>2, <1>3, <1>6, <1>7, <1>9, <1>10 DEF FdsInv

LEMMA AllocateKeeps ==
    ASSUME FdsInv, NEW t \in Tasks, Allocate(t)
    PROVE  FdsInv'
<1>1. TableTyped /\ LocalsTyped /\ PlainOK /\ HoldsNumber(t)
  BY DEF FdsInv
<1>2. PICK d : d = [path |-> path[t], flags |-> flags[t], isDir |-> isDir[t], position |-> 0]
  OBVIOUS
<1>3. /\ pc[t] = "open" /\ ~poisoned /\ nextFd \in Fds /\ nextFd' = nextFd + 1
      /\ fds' = [f \in DOMAIN fds \cup {nextFd} |-> IF f = nextFd THEN d ELSE fds[f]]
      /\ got' = [got EXCEPT ![nextFd] = {}] /\ plain' = plain \cup {nextFd}
      /\ Return(t) /\ UNCHANGED <<files, poisoned>>
  BY <1>2 DEF Allocate, NewFd
<1>4. d \in Descriptors /\ d.position = 0
  BY <1>1, <1>2, <1>3, Arithmetic DEF HoldsNumber, LocalsTyped, Descriptors
<1>5. /\ DOMAIN fds' = DOMAIN fds \cup {nextFd} /\ fds'[nextFd] = d
      /\ \A f \in DOMAIN fds : fds'[f] = fds[f] /\ f # nextFd /\ f \in Fds
      /\ nextFd \in Nat
  BY <1>1, <1>3, NumbersGivenOut
<1>6. TableTyped'
  <2>1. nextFd \in 3..(2 + MaxFds) /\ MaxFds \in Nat
    BY <1>3, Arithmetic DEF Fds
  <2>2. nextFd' \in 3..(3 + MaxFds) /\ DOMAIN fds' \subseteq 3..(nextFd' - 1)
    BY <1>1, <1>3, <1>5, <2>1 DEF TableTyped
  <2> QED
    BY <1>1, <1>3, <1>4, <1>5, <2>2 DEF TableTyped
<1>7. TableGrows
  BY <1>3, <1>5 DEF TableGrows
<1>8. LocalsTyped' /\ \A u \in Tasks : HoldsNumber(u)' /\ OwnDescriptor(u)'
  BY <1>3, <1>6, <1>7, ReturnTasks
<1>9. /\ pc'[t] = "idle" /\ fd'[t] = 0 /\ fd[t] = 0 /\ \A u \in Tasks \ {t} : Rests(u)
  BY <1>1, <1>3, ReturnTyped DEF HoldsNumber, Away, Rests
<1>10. \A u \in Tasks : fd'[u] = fd[u] /\ fd'[u] # nextFd
  <2>1. nextFd # 0
    BY <1>3, Arithmetic
  <2>2. \A u \in Tasks : fd[u] # nextFd
    BY <1>5, <2>1 DEF FdsInv, HoldsNumber
  <2> QED
    BY <1>9, <2>1, <2>2 DEF Rests
<1>11. 0 \notin plain /\ plain \subseteq DOMAIN fds
  BY <1>1, NumbersGivenOut, Arithmetic DEF PlainOK
<1>12. PlainOK'
  BY <1>1, <1>3, <1>5, <1>9, <1>10, <1>11 DEF PlainOK, Rests
<1>13. ASSUME NEW f \in plain PROVE Account(f)'
  <2>1. /\ Account(f) /\ got'[f] = got[f] /\ fds'[f].position = fds[f].position /\ f # 0
    BY <1>1, <1>3, <1>5, <1>11, <1>13 DEF FdsInv, PlainOK
  <2> QED
    BY <1>9, <2>1, AccountKept DEF Rests
<1>14. ASSUME NEW f, f = nextFd PROVE Account(f)'
  <2>1. got'[f] = {} /\ fds'[f].position = 0 /\ 0..(0 - 1) = {}
    BY <1>1, <1>3, <1>4, <1>5, <1>14 DEF PlainOK
  <2> QED
    BY <1>10, <1>14, <2>1 DEF Account
<1>15. FilesTyped'
  BY <1>3 DEF FdsInv, FilesTyped
<1>16. \A f \in plain' : Account(f)'
  BY <1>3, <1>13, <1>14
<1> QED
  BY <1>3, <1>6, <1>8, <1>12, <1>15, <1>16 DEF FdsInv
LEMMA LockKeeps ==
    ASSUME FdsInv, NEW t \in Tasks, NEW f \in Fds, NEW right \in {"read", "write"},
           NEW n \in Sizes, Lock(t, f, right, n)
    PROVE  FdsInv'
<1>1. TableTyped /\ LocalsTyped /\ PlainOK /\ HoldsNumber(t)
  BY DEF FdsInv
<1>2. /\ pc[t] = "idle" /\ ~poisoned /\ f \in DOMAIN fds
      /\ right \in fds[f].flags /\ ~fds[f].isDir
      /\ UNCHANGED <<files, fds, nextFd, poisoned, flags, isDir>>
      /\ pc' = [pc EXCEPT ![t] = right] /\ fd' = [fd EXCEPT ![t] = f]
      /\ path' = [path EXCEPT ![t] = fds[f].path]
      /\ start' = [start EXCEPT ![t] = IF right = "read" THEN fds[f].position ELSE 0]
      /\ count' = [count EXCEPT ![t] = n]
  BY DEF Lock, table
<1>3. /\ fds[f].path \in Paths /\ fds[f].position \in Positions /\ 0 \in Positions
      /\ f \in 3..(nextFd - 1) /\ right \in Labels
  BY <1>1, <1>2, NumbersGivenOut, Arithmetic DEF TableTyped, Labels
<1>4. LocalsTyped'
  BY <1>1, <1>2, <1>3 DEF LocalsTyped
<1>5. /\ pc'[t] = right /\ fd'[t] = f /\ path'[t] = fds[f].path /\ count'[t] = n
      /\ right = "read" => start'[t] = fds[f].position
      /\ fd[t] = 0 /\ f # 0
      /\ \A u \in Tasks \ {t} : Rests(u)
  BY <1>1, <1>2, Arithmetic DEF LocalsTyped, Rests, HoldsNumber, Away
<1>6. FilesTyped' /\ TableTyped' /\ TableGrows
  BY <1>1, <1>2, NumbersGivenOut DEF FdsInv, FilesTyped, TableTyped, TableGrows
<1>7. HoldsNumber(t)' /\ OwnDescriptor(t)'
  BY <1>2, <1>3, <1>5 DEF HoldsNumber, OwnDescriptor, Away, Right
<1>8. \A u \in Tasks \ {t} : HoldsNumber(u)' /\ OwnDescriptor(u)'
  BY <1>5, <1>6, RestingTask
<1>9. /\ plain' \subseteq plain /\ got' \in [Fds -> SUBSET Int]
      /\ \A g \in plain' : got'[g] = got[g]
      /\ f \in plain' => right = "read" /\ \A u \in Tasks : fd[u] # f
  <2>1. CASE right = "write" \/ \E u \in Tasks : fd[u] = f
    <3>1. plain' = plain \ {f} /\ got' = [g \in Fds |-> IF g \in {f} THEN {} ELSE got[g]]
      BY <2>1 DEF Lock, NotPlain
    <3>2. plain \subseteq Fds
      BY <1>1, NumbersGivenOut DEF PlainOK
    <3> QED
      BY <1>1, <3>1, <3>2 DEF PlainOK
  <2>2. CASE ~(right = "write" \/ \E u \in Tasks : fd[u] = f)
    BY <1>1, <2>2 DEF Lock, ghosts, PlainOK
  <2> QED
    BY <2>1, <2>2
<1>10. PlainOK'
  <2>1. plain' \subseteq DOMAIN fds'
    BY <1>1, <1>2, <1>9 DEF PlainOK
  <2>2. \A u \in Tasks : fd'[u] \in plain' => pc'[u] \in {"read", "read_advance"}
    BY <1>1, <1>5, <1>9 DEF PlainOK, Rests
  <2>3. ASSUME NEW u \in Tasks, NEW v \in Tasks, fd'[u] \in plain', fd'[v] = fd'[u]
        PROVE  u = v
    BY <1>1, <1>5, <1>9, <2>3 DEF PlainOK, Rests
  <2> QED
    BY <1>9, <2>1, <2>2, <2>3 DEF PlainOK
<1>11. ASSUME NEW g \in plain' PROVE Account(g)'
  <2>1. Account(g) /\ got'[g] = got[g] /\ fds'[g].position = fds[g].position /\ g # 0
    BY <1>1, <1>2, <1>9, <1>11, NumbersGivenOut, Arithmetic DEF FdsInv, PlainOK
  <2>2. CASE g # f
    BY <1>5, <2>1, <2>2, AccountKept DEF Rests
  <2>3. CASE g = f
    <3>1. right = "read" /\ \A u \in Tasks : fd[u] # f
      BY <1>9, <1>11, <2>3
    <3>2. got[f] = 0..(fds[f].position - 1)
      BY <2>1, <2>3, <3>1 DEF Account
    <3>3. \A u \in Tasks : fd'[u] = f => u = t
      BY <1>5, <3>1 DEF Rests
    <3> QED
      BY <1>2, <1>5, <2>1, <2>3, <3>1, <3>2, <3>3 DEF Account
  <2> QED
    BY <2>2, <2>3
<1> QED
  BY <1>4, <1>6, <1>7, <1>8, <1>10, <1>11 DEF FdsInv

\* The task goes on from the file system to the second lock.
LEMMA GoesOnKeeps ==
    ASSUME FdsInv, NEW t \in Tasks, NEW l \in {"read_advance", "write_advance"},
           pc[t] = (IF l = "read_advance" THEN "read" ELSE "write"), NEW n \in Sizes,
           pc' = [pc EXCEPT ![t] = l], count' = [count EXCEPT ![t] = n],
           UNCHANGED <<fds, nextFd, poisoned, fd, path, start, flags, isDir, plain>>,
           FilesTyped', got' \in [Fds -> SUBSET Int],
           \A g \in plain : g # fd[t] => got'[g] = got[g],
           fd[t] \in plain =>
               /\ l = "read_advance"
               /\ ~poisoned => start[t] + n <= MaxSize /\ got'[fd[t]] = 0..(start[t] + n - 1)
    PROVE  FdsInv'
<1>1. TableTyped /\ LocalsTyped /\ PlainOK /\ HoldsNumber(t) /\ OwnDescriptor(t)
  BY DEF FdsInv
<1>2. LocalsTyped'
  BY <1>1 DEF LocalsTyped, Labels
<1>3. /\ pc'[t] = l /\ count'[t] = n /\ \A u \in Tasks \ {t} : Rests(u)
  BY <1>1 DEF LocalsTyped, Rests
<1>4. TableTyped' /\ TableGrows
  BY <1>1, NumbersGivenOut DEF TableTyped, TableGrows
<1>5. HoldsNumber(t)' /\ OwnDescriptor(t)'
  BY <1>1, <1>3 DEF HoldsNumber, OwnDescriptor, Away, Right
<1>6. \A u \in Tasks \ {t} : HoldsNumber(u)' /\ OwnDescriptor(u)'
  BY <1>3, <1>4, RestingTask
<1>7. PlainOK'
  BY <1>1, <1>3 DEF PlainOK, Rests
<1>8. ASSUME ~poisoned, NEW g \in plain PROVE Account(g)'
  <2>1. Account(g)
    BY <1>8 DEF FdsInv
  <2>2. CASE g # fd[t]
    BY <1>3, <2>1, <2>2, AccountKept DEF Rests
  <2>3. CASE g = fd[t]
    <3>1. \A u \in Tasks : fd[u] = g => u = t
      BY <1>1, <1>8, <2>3 DEF PlainOK
    <3>2. start[t] = fds[g].position /\ pc'[t] = "read_advance"
      BY <1>3, <1>8, <2>1, <2>3 DEF Account
    <3>3. start[t] + n <= MaxSize /\ got'[g] = 0..(start[t] + n - 1)
      BY <1>8, <2>3
    <3> QED
      BY <1>3, <2>3, <3>1, <3>2, <3>3 DEF Account
  <2> QED
    BY <2>2, <2>3
<1> QED
  BY <1>2, <1>4, <1>5, <1>6, <1>7, <1>8 DEF FdsInv

\* The task is done, and changed neither the table nor an account.
LEMMA EndsKeeps ==
    ASSUME FdsInv, NEW t \in Tasks, Return(t), FilesTyped',
           UNCHANGED <<fds, nextFd, poisoned, plain>>, got' \in [Fds -> SUBSET Int],
           \A g \in plain : got'[g] = got[g],
           poisoned \/ pc[t] # "read_advance" \/ fd[t] \notin plain
    PROVE  FdsInv'
<1>1. TableTyped' /\ TableGrows
  BY NumbersGivenOut DEF FdsInv, TableTyped, TableGrows
<1>2. LocalsTyped' /\ \A u \in Tasks : HoldsNumber(u)' /\ OwnDescriptor(u)'
  BY <1>1, ReturnTasks
<1>3. PlainOK'
  BY ReturnPlain DEF FdsInv, PlainOK
<1>4. ASSUME ~poisoned, NEW g \in plain PROVE Account(g)'
  <2>1. Account(g) /\ (fd[t] = g => pc[t] # "read_advance")
    BY <1>4 DEF FdsInv
  <2> QED
    BY <1>4, <2>1, ReturnAccount
<1> QED
  BY <1>1, <1>2, <1>3, <1>4 DEF FdsInv
LEMMA ReadKeeps ==
    ASSUME FdsInv, NEW t \in Tasks, Read(t)
    PROVE  FdsInv'
<1>1. /\ TableTyped /\ LocalsTyped /\ PlainOK /\ HoldsNumber(t) /\ FilesTyped
      /\ pc[t] = "read" /\ UNCHANGED <<files, fds, nextFd, poisoned, plain>>
  BY DEF FdsInv, Read, table
<1>2. /\ path[t] \in Paths /\ fd[t] \in Fds
      /\ start[t] \in Nat /\ count[t] \in Sizes /\ count[t] \in Nat
  BY <1>1, NumbersGivenOut, Arithmetic DEF HoldsNumber, Away, LocalsTyped
<1>3. PICK size \in Sizes : size = files[path[t]].size
  BY <1>1, <1>2, FileKinds
<1>4. size \in Nat /\ MaxSize \in Nat /\ size <= MaxSize
  BY Arithmetic DEF Sizes
<1>5. FilesTyped'
  BY <1>1 DEF FilesTyped
<1> DEFINE new == {o \in 0..(size - 1) : start[t] <= o /\ o < start[t] + count[t]}
<1>6. /\ got' \in [Fds -> SUBSET Int]
      /\ \A g \in Fds : g # fd[t] => got'[g] = got[g]
      /\ fd[t] \in plain /\ files[path[t]].kind = "file" => got'[fd[t]] = got[fd[t]] \cup new
      /\ ~(fd[t] \in plain /\ files[path[t]].kind = "file") => got' = got
  BY <1>1, <1>2, <1>3 DEF Read, Delivered, PlainOK
<1>7. plain \subseteq Fds
  BY <1>1, NumbersGivenOut DEF PlainOK
<1>8. CASE files[path[t]].kind # "file" \/ start[t] >= size
  <2>1. Return(t)
    BY <1>3, <1>8 DEF Read
  <2>2. start[t] >= size => new = {}
    BY <1>2, <1>4
  <2>3. \A g \in plain : got'[g] = got[g]
    BY <1>6, <1>7, <1>8, <2>2
  <2> HIDE DEF new
  <2> QED
    BY <1>1, <1>5, <1>6, <2>1, <2>3, EndsKeeps
<1>9. CASE ~(files[path[t]].kind # "file" \/ start[t] >= size)
  <2>1. PICK n : n = Reach(t, size)
    OBVIOUS
  <2>2. /\ n \in Nat /\ n <= count[t] /\ start[t] + n <= size
        /\ new = {o \in Int : start[t] <= o /\ o < start[t] + n}
    BY <1>2, <1>4, <1>9, <2>1 DEF Reach
  <2>3. n \in Sizes
    BY <1>2, <1>4, <2>2 DEF Sizes
  <2>4. /\ pc' = [pc EXCEPT ![t] = "read_advance"] /\ count' = [count EXCEPT ![t] = n]
        /\ UNCHANGED <<fd, path, start, flags, isDir>>
    BY <1>3, <1>9, <2>1 DEF Read
  <2>5. ASSUME fd[t] \in plain, ~poisoned
        PROVE  start[t] + n <= MaxSize /\ got'[fd[t]] = 0..(start[t] + n - 1)
    <3>1. Account(fd[t]) /\ \A u \in Tasks : fd[u] = fd[t] => pc[u] # "read_advance"
      BY <1>1, <2>5 DEF FdsInv, PlainOK
    <3>2. got[fd[t]] = 0..(start[t] - 1)
      BY <3>1 DEF Account
    <3>3. got'[fd[t]] = got[fd[t]] \cup new
      BY <1>6, <1>9, <2>5
    <3>4. PICK a \in Nat : a = start[t]
      BY <1>2 DEF Positions
    <3>5. 0..(a - 1) \cup {o \in Int : a <= o /\ o < a + n} = 0..(a + n - 1)
      BY <2>2
    <3> HIDE DEF new
    <3>6. got'[fd[t]] = 0..(start[t] + n - 1)
      BY <2>2, <3>2, <3>3, <3>4, <3>5
    <3>7. start[t] + n <= MaxSize
      BY <1>2, <1>4, <2>2, <3>4
    <3> QED
      BY <3>6, <3>7
  <2> HIDE DEF new
  <2>6. pc[t] = (IF "read_advance" = "read_advance" THEN "read" ELSE "write")
    BY <1>1
  <2>7. \A g \in plain : g # fd[t] => got'[g] = got[g]
    BY <1>6, <1>7
  <2> QED
    BY <1>1, <1>5, <1>6, <2>3, <2>4, <2>5, <2>6, <2>7, GoesOnKeeps
<1> QED
  BY <1>8, <1>9

LEMMA WriteKeeps ==
    ASSUME FdsInv, NEW t \in Tasks, Write(t)
    PROVE  FdsInv'
<1>1. /\ LocalsTyped /\ PlainOK /\ FilesTyped /\ HoldsNumber(t)
      /\ pc[t] = "write" /\ UNCHANGED <<fds, nextFd, poisoned, got, plain>>
  BY DEF FdsInv, Write, table, ghosts
<1>2. fd[t] \notin plain /\ path[t] \in Paths /\ count[t] \in Sizes
  BY <1>1 DEF PlainOK, HoldsNumber, Away, LocalsTyped
<1>3. CASE files[path[t]].kind = "file"
  <2>1. /\ files' = [files EXCEPT ![path[t]] = File(count[t])]
        /\ pc' = [pc EXCEPT ![t] = "write_advance"]
        /\ UNCHANGED <<fd, path, start, count, flags, isDir>>
    BY <1>3 DEF Write
  <2>2. FilesTyped'
    BY <1>1, <1>2, <2>1 DEF FilesTyped
  <2>3. count' = [count EXCEPT ![t] = count[t]]
    BY <1>1, <2>1 DEF LocalsTyped
  <2>4. /\ pc[t] = (IF "write_advance" = "read_advance" THEN "read" ELSE "write")
        /\ got' \in [Fds -> SUBSET Int]
    BY <1>1 DEF PlainOK
  <2> QED
    BY <1>1, <1>2, <2>1, <2>2, <2>3, <2>4, GoesOnKeeps
<1>4. CASE files[path[t]].kind # "file"
  <2>1. Return(t) /\ FilesTyped' /\ got' \in [Fds -> SUBSET Int]
    BY <1>1, <1>4 DEF Write, FilesTyped, PlainOK
  <2> QED
    BY <1>1, <1>2, <2>1, EndsKeeps
<1> QED
  BY <1>3, <1>4

LEMMA PanicKeeps ==
    ASSUME FdsInv, NEW t \in Tasks, Panic(t)
    PROVE  FdsInv'
<1>1. /\ Return(t) /\ poisoned /\ UNCHANGED <<files, fds, nextFd, poisoned, got, plain>>
  BY DEF Panic, table, ghosts
<1>2. FilesTyped' /\ got' \in [Fds -> SUBSET Int]
  BY <1>1 DEF FdsInv, FilesTyped, PlainOK
<1> QED
  BY <1>1, <1>2, EndsKeeps

\* A position moves, or the mutex is poisoned.
Moved(f) ==
    /\ DOMAIN fds' = DOMAIN fds
    /\ \A g \in DOMAIN fds \ {f} : fds'[g] = fds[g]

LEMMA PositionSet ==
    ASSUME TableTyped, NEW f \in DOMAIN fds, NEW x \in Positions,
           fds' = [fds EXCEPT ![f].position = x], UNCHANGED <<nextFd, poisoned>>
    PROVE  TableTyped' /\ TableGrows /\ Moved(f) /\ fds'[f].position = x
<1>1. fds[f] \in Descriptors
  BY DEF TableTyped
<1>2. PICK d \in Descriptors : /\ d = [fds[f] EXCEPT !.position = x]
                               /\ d.position = x /\ d.path = fds[f].path
                               /\ d.flags = fds[f].flags /\ d.isDir = fds[f].isDir
  BY <1>1 DEF Descriptors
<1>3. DOMAIN fds' = DOMAIN fds /\ fds'[f] = d /\ \A g \in DOMAIN fds \ {f} : fds'[g] = fds[g]
  BY <1>2
<1>4. TableTyped'
  BY <1>2, <1>3 DEF TableTyped
<1>5. TableGrows
  BY <1>2, <1>3, NumbersGivenOut DEF TableGrows
<1> QED
  BY <1>2, <1>3, <1>4, <1>5 DEF Moved

LEMMA Poisoned ==
    ASSUME TableTyped, NEW f \in DOMAIN fds, poisoned' = TRUE, UNCHANGED <<nextFd, fds>>
    PROVE  TableTyped' /\ TableGrows /\ Moved(f)
BY NumbersGivenOut DEF TableTyped, TableGrows, Moved

LEMMA MoveByMoves ==
    ASSUME TableTyped, NEW f \in DOMAIN fds, NEW n \in Nat, MoveBy(f, n), UNCHANGED nextFd
    PROVE  /\ TableTyped' /\ TableGrows /\ Moved(f)
           /\ fds[f].position + n < 2 * Half =>
                  poisoned' = poisoned /\ fds'[f].position = fds[f].position + n
<1>1. fds[f].position \in Nat /\ Half \in Nat
  BY NumbersGivenOut, Arithmetic
<1>2. PICK sum \in Nat : sum = fds[f].position + n
  BY <1>1
<1>3. PICK x \in Positions : x = sum % (2 * Half) /\ (sum < 2 * Half => x = sum)
  BY <1>2, Arithmetic
<1>4. CASE fds' = [fds EXCEPT ![f].position = x] /\ UNCHANGED poisoned
  BY <1>2, <1>3, <1>4, PositionSet
<1>5. CASE sum >= 2 * Half /\ poisoned' = TRUE /\ UNCHANGED fds
  <2>1. TableTyped' /\ TableGrows /\ Moved(f)
    BY <1>5, Poisoned
  <2>2. ~(sum < 2 * Half)
    BY <1>1, <1>5
  <2> QED
    BY <1>2, <2>1, <2>2
<1> QED
  BY <1>2, <1>3, <1>4, <1>5 DEF MoveBy

LEMMA AdvanceKeeps ==
    ASSUME FdsInv, NEW t \in Tasks, Advance(t)
    PROVE  FdsInv'
<1>1. /\ TableTyped /\ LocalsTyped /\ PlainOK /\ HoldsNumber(t) /\ FilesTyped
      /\ ~poisoned /\ Return(t) /\ UNCHANGED <<files, nextFd, got, plain>>
      /\ pc[t] \in {"read_advance", "write_advance"} /\ FilesTyped'
  BY DEF FdsInv, Advance, FilesTyped, ghosts
<1>2. CASE fd[t] \notin DOMAIN fds
  <2>1. UNCHANGED <<fds, poisoned>> /\ fd[t] \notin plain /\ got' \in [Fds -> SUBSET Int]
    BY <1>1, <1>2 DEF Advance, PlainOK
  <2> QED
    BY <1>1, <2>1, EndsKeeps
<1>3. CASE fd[t] \in DOMAIN fds
  <2>1. PICK f \in DOMAIN fds : f = fd[t]
    BY <1>3
  <2>2. count[t] \in Nat /\ start[t] \in Nat /\ MoveBy(f, count[t]) /\ f \in Fds
    BY <1>1, <1>3, <2>1, Arithmetic, NumbersGivenOut DEF Advance, LocalsTyped
  <2>3. /\ TableTyped' /\ TableGrows /\ Moved(f)
        /\ fds[f].position + count[t] < 2 * Half =>
              poisoned' = poisoned /\ fds'[f].position = fds[f].position + count[t]
    BY <1>1, <2>2, MoveByMoves
  <2>4. LocalsTyped' /\ \A u \in Tasks : HoldsNumber(u)' /\ OwnDescriptor(u)'
    BY <1>1, <2>3, ReturnTasks
  <2>5. PlainOK'
    BY <1>1, <2>3, ReturnPlain DEF PlainOK, Moved
  <2>6. ASSUME ~poisoned', NEW g \in plain PROVE Account(g)'
    <3>1. Account(g) /\ got'[g] = got[g] /\ g \in DOMAIN fds
      BY <1>1, <2>6 DEF FdsInv, PlainOK
    <3>2. CASE g # f
      <4>1. fds'[g].position = fds[g].position
        BY <2>3, <3>1, <3>2 DEF Moved
      <4> QED
        BY <1>1, <2>1, <3>1, <3>2, <4>1, ReturnAccount
    <3>3. CASE g = f
      <4>1. pc[t] = "read_advance"
        BY <1>1, <2>1, <3>3 DEF PlainOK
      <4>2. /\ start[t] = fds[f].position /\ start[t] + count[t] <= MaxSize
            /\ got[f] = 0..(start[t] + count[t] - 1)
        BY <2>1, <3>1, <3>3, <4>1 DEF Account
      <4>3. fds'[f].position = start[t] + count[t]
        <5>1. MaxSize \in Nat /\ Half \in Nat /\ MaxSize < Half
          BY Arithmetic
        <5>2. start[t] + count[t] < 2 * Half
          BY <2>2, <4>2, <5>1
        <5> QED
          BY <2>3, <4>2, <5>2
      <4>4. \A u \in Tasks : fd'[u] # f
        <5>1. fd'[t] = 0 /\ \A u \in Tasks \ {t} : fd'[u] = fd[u]
          BY <1>1, ReturnTyped
        <5>2. 0 # f
          BY <2>2, Arithmetic
        <5> QED
          BY <1>1, <2>1, <2>6, <3>3, <5>1, <5>2 DEF PlainOK
      <4> QED
        <5>1. PICK n \in Nat : n = start[t] + count[t]
          BY <2>2
        <5>2. got[f] = 0..(n - 1) /\ fds'[f].position = n
          BY <2>2, <4>2, <4>3, <5>1
        <5>3. got'[g] = 0..(n - 1) /\ fds'[g].position = n
          BY <3>1, <3>3, <5>2
        <5> QED
          BY <3>3, <4>4, <5>3 DEF Account
    <3> QED
      BY <3>2, <3>3
  <2> QED
    BY <1>1, <2>3, <2>4, <2>5, <2>6 DEF FdsInv
<1> QED
  BY <1>2, <1>3
\* Descriptors are moved or closed under tasks that may be away with them; no
\* account of them is kept any longer.
LEMMA NoLongerPlain ==
    ASSUME FdsInv, NEW closed, closed \subseteq DOMAIN fds, NotPlain(closed),
           UNCHANGED <<files, pc, fd, path, start, count, flags, isDir>>,
           TableTyped', TableGrows,
           \A g \in DOMAIN fds \ closed : g \in DOMAIN fds' /\ fds'[g] = fds[g],
           poisoned => poisoned'
    PROVE  FdsInv'
<1>1. TableTyped /\ PlainOK
  BY DEF FdsInv
<1>2. plain' = plain \ closed /\ got' = [f \in Fds |-> IF f \in closed THEN {} ELSE got[f]]
  BY DEF NotPlain
<1>3. FilesTyped' /\ LocalsTyped'
  BY DEF FdsInv, FilesTyped, LocalsTyped
<1>4. \A u \in Tasks : HoldsNumber(u)' /\ OwnDescriptor(u)'
  BY RestingTask DEF Rests
<1>5. plain \subseteq Fds
  BY <1>1, NumbersGivenOut DEF PlainOK
<1>6. PlainOK'
  BY <1>1, <1>2 DEF PlainOK
<1>7. ASSUME ~poisoned', NEW g \in plain' PROVE Account(g)'
  <2>1. Account(g) /\ got'[g] = got[g] /\ fds'[g].position = fds[g].position
    BY <1>1, <1>2, <1>5, <1>7 DEF FdsInv, PlainOK
  <2> QED
    BY <2>1, AccountKept
<1> QED
  BY <1>3, <1>4, <1>6, <1>7 DEF FdsInv

LEMMA FdSeekKeeps ==
    ASSUME FdsInv, NEW t \in Tasks, NEW f \in Fds, NEW o \in Offsets, FdSeek(t, f, o)
    PROVE  FdsInv'
<1>1. /\ TableTyped /\ f \in DOMAIN fds /\ ~poisoned /\ NotPlain({f}) /\ UNCHANGED nextFd
      /\ UNCHANGED <<files, pc, fd, path, start, count, flags, isDir>>
  BY DEF FdsInv, FdSeek
<1>2. /\ o \in Int /\ -Half <= o /\ o < Half /\ Half \in Nat \ {0}
      /\ fds[f].position \in Nat /\ fds[f].position < 2 * Half
  <2>1. Half \in Nat \ {0} /\ fds[f].position \in Positions
    BY <1>1, NumbersGivenOut, Arithmetic
  <2> QED
    BY <2>1 DEF Offsets, Positions
<1>3. TableTyped' /\ TableGrows /\ Moved(f)
  <2>1. CASE SeekSet(f, o)
    <3>1. o \in Positions
      BY <1>2, <2>1 DEF SeekSet, Positions
    <3> QED
      BY <1>1, <2>1, <3>1, PositionSet DEF SeekSet
  <2>2. CASE SeekBack(f, o)
    <3>1. PICK x : x = fds[f].position + o
      OBVIOUS
    <3>2. CASE x >= 0 /\ fds' = [fds EXCEPT ![f].position = x] /\ UNCHANGED poisoned
      <4>1. x \in Positions
        BY <1>2, <2>2, <3>1, <3>2 DEF Positions, SeekBack
      <4> QED
        BY <1>1, <3>2, <4>1, PositionSet
    <3>3. CASE poisoned' = TRUE /\ UNCHANGED fds
      BY <1>1, <3>3, Poisoned
    <3> QED
      BY <2>2, <3>1, <3>2, <3>3 DEF SeekBack
  <2>3. CASE o >= 0 /\ MoveBy(f, o)
    BY <1>1, <1>2, <2>3, MoveByMoves
  <2> QED
    BY <2>1, <2>2, <2>3 DEF FdSeek
<1>4. \A g \in DOMAIN fds \ {f} : g \in DOMAIN fds' /\ fds'[g] = fds[g]
  BY <1>3 DEF Moved
<1> QED
  BY <1>1, <1>3, <1>4, NoLongerPlain

LEMMA CloseKeeps ==
    ASSUME FdsInv, NEW t \in Tasks, NEW closed, CloseFds(t, closed)
    PROVE  FdsInv'
<1>1. /\ TableTyped /\ closed \subseteq DOMAIN fds /\ NotPlain(closed)
      /\ UNCHANGED <<nextFd, poisoned>>
      /\ UNCHANGED <<files, pc, fd, path, start, count, flags, isDir>>
      /\ fds' = [f \in DOMAIN fds \ closed |-> fds[f]]
  BY DEF FdsInv, CloseFds, Restrict
<1>2. DOMAIN fds' = DOMAIN fds \ closed /\ \A g \in DOMAIN fds \ closed : fds'[g] = fds[g]
  BY <1>1
<1>3. TableTyped'
  BY <1>1, <1>2 DEF TableTyped
<1>4. TableGrows
  BY <1>1, <1>2, NumbersGivenOut DEF TableGrows
<1> QED
  BY <1>1, <1>2, <1>3, <1>4, NoLongerPlain

-----------------------------------------------------------------------------

LEMMA FdsInit == Init => FdsInv
<1> SUFFICES ASSUME Init PROVE FdsInv
  OBVIOUS
<1>1. /\ MaxFds \in Nat /\ 0 \in Positions /\ 0 \in Sizes /\ 0 \notin Fds
      /\ DOMAIN fds = {}
  BY Arithmetic DEF Init
<1>2. TableTyped
  <2>1. nextFd = 3 /\ poisoned = FALSE
    BY DEF Init
  <2>2. nextFd \in 3..(3 + MaxFds)
    BY <1>1, <2>1
  <2>3. DOMAIN fds \subseteq 3..(nextFd - 1) /\ \A f \in DOMAIN fds : fds[f] \in Descriptors
    BY <1>1
  <2> QED
    BY <2>1, <2>2, <2>3 DEF TableTyped
<1>3. FilesTyped /\ LocalsTyped
  BY <1>1 DEF Init, FilesTyped, LocalsTyped, Labels
<1>4. \A t \in Tasks : pc[t] = "idle" /\ fd[t] = 0
  BY DEF Init
<1>5. \A t \in Tasks : HoldsNumber(t) /\ OwnDescriptor(t)
  BY <1>4 DEF HoldsNumber, OwnDescriptor, Away
<1>6. plain = {} /\ got \in [Fds -> SUBSET Int]
  BY DEF Init
<1> QED
  BY <1>2, <1>3, <1>5, <1>6 DEF FdsInv, PlainOK

LEMMA FdsStep == FdsInv /\ [Next]_vars => FdsInv'
<1> SUFFICES ASSUME FdsInv, [Next]_vars PROVE FdsInv'
  OBVIOUS
<1>1. ASSUME NEW p \in Paths, NEW c \in {NoFile, Directory} \cup {File(n) : n \in Sizes},
             Change(p, c)
      PROVE  FdsInv'
  <2>1. /\ files' = [files EXCEPT ![p] = c]
        /\ UNCHANGED <<table, pc, fd, path, start, count, flags, isDir, ghosts>>
    BY <1>1 DEF Change
  <2>2. FilesTyped'
    BY <2>1 DEF FdsInv, FilesTyped
  <2> QED
    BY <2>1, <2>2, ChangeKeeps
<1>2. ASSUME NEW t \in Tasks, NEW p \in Paths, NEW fl \in Flags, OpenStat(t, p, fl) PROVE FdsInv'
  BY <1>2, OpenStatKeeps
<1>3. ASSUME NEW t \in Tasks, Allocate(t) PROVE FdsInv'
  BY <1>3, AllocateKeeps
<1>4. ASSUME NEW t \in Tasks, NEW f \in Fds, NEW right \in {"read", "write"}, NEW n \in Sizes,
             Lock(t, f, right, n)
      PROVE  FdsInv'
  BY <1>4, LockKeeps
<1>5. ASSUME NEW t \in Tasks, Read(t) \/ Write(t) \/ Advance(t) \/ Panic(t) PROVE FdsInv'
  BY <1>5, ReadKeeps, WriteKeeps, AdvanceKeeps, PanicKeeps
<1>6. ASSUME NEW t \in Tasks, NEW f \in Fds, NEW o \in Offsets, FdSeek(t, f, o) PROVE FdsInv'
  BY <1>6, FdSeekKeeps
<1>7. ASSUME NEW t \in Tasks, CloseAll(t) \/ \E f \in Fds : FdClose(t, f) PROVE FdsInv'
  BY <1>7, CloseKeeps DEF CloseAll, FdClose
<1>8. CASE UNCHANGED vars
  <2>1. FilesTyped' /\ UNCHANGED <<table, pc, fd, path, start, count, flags, isDir, ghosts>>
    BY <1>8 DEF vars, FdsInv, FilesTyped, table, ghosts
  <2> QED
    BY <2>1, ChangeKeeps
<1> QED
  BY <1>1, <1>2, <1>3, <1>4, <1>5, <1>6, <1>7, <1>8 DEF Next

LEMMA FdsInvariant == Spec => []FdsInv
BY FdsInit, FdsStep, PTL DEF Spec

\* The table and the locals of every request stay in their types; no seek and no sum of
\* offsets leaves the range of a u64.
THEOREM FdsTypeCorrect == Spec => []TypeOK
<1>1. FdsInv => TypeOK
  BY DEF FdsInv, FilesTyped, TableTyped, LocalsTyped, Labels, TypeOK
<1> QED
  BY <1>1, FdsInvariant, PTL

\* fd_read and fd_write come back from their await to their own descriptor, or to
\* none, whatever was closed and opened meanwhile.
THEOREM RequestsResumeOnTheirOwn == Spec => []ResumesOnOwnDescriptor
<1>1. FdsInv => ResumesOnOwnDescriptor
  BY DEF FdsInv, OwnDescriptor, Away, Right, ResumesOnOwnDescriptor
<1> QED
  BY <1>1, FdsInvariant, PTL

\* The reads of a descriptor that one request at a time uses leave no gap and repeat
\* nothing.
THEOREM SequentialReadsAreWhole == Spec => []SequentialReadsTile
<1>1. FdsInv => SequentialReadsTile
  BY DEF FdsInv, Account, SequentialReadsTile
<1> QED
  BY <1>1, FdsInvariant, PTL
==============================================================================
