# Verification of Tarbox

Tarbox is a file system on PostgreSQL: tenants with a tree of inodes, contents
stored as shared text lines or as binary blocks, layers for checkpoint and
restore, mounts composed from the layers of several tenants, and FUSE, WASI and
CSI front ends. This directory models its core and its front ends in TLA+,
checks the models with TLC and proves with TLAPS, for every value of the constants,
every safety property and every refinement that the passing runs check.

One fact shapes every module. Almost no operation of Tarbox is a transaction:
an operation is a sequence of SQL statements, each committed by itself, on a
pool that other requests, mounts and processes use at the same time. What keeps
the data sane is the schema: UNIQUE constraints, foreign keys with RESTRICT or
CASCADE, triggers. So an operation is modelled as a small program with one
action per statement, statements of other requests come in between, a refused
statement ends the request with an error, and a request may stop between any
two statements for good (a crash, a dropped future, a lost connection).

## Inventory

| Component | State | Operations | Interacts with | What makes it correct |
|---|---|---|---|---|
| Layer manager `layer/manager.rs`, `storage/layer.rs` | `layers`, `layer_entries`, `tenant_current_layer` | initialize, checkpoint (plain, confirmed), switch, delete, record_change | called by FileSystem, hooks, CLI | a tree with one base; the position is in it; parents are read-only; confirmed deletion works |
| File content `fs/operations.rs`, `layer/cow.rs`, `storage/block.rs` | text rows by file and layer, `data_blocks` by file, the layer cached in a FileSystem | write, read, truncate, delete | layer manager (position, record_change), inodes (cascade) | acknowledged contents are readable; no orphans; history does not change |
| Text blocks `storage/text.rs`, migration 004 | `text_blocks` with counts, `text_line_map` | find or insert a block, map lines, overwrite, cleanup | file content | counts exact; no line without block; whole texts |
| Namespace `fs/operations.rs`, `fs/path.rs`, `storage/inode.rs` | `inodes` | resolve, create file or directory, remove, delete | file content, tenants | a tree of directories; unambiguous paths; only empty directories are removed |
| Union view `layer/union_view.rs` | a chain read once | lookup, list | `layer_entries` | answers are true of some moment of the request |
| Mount layer chains `composition/layer_chain.rs`, `storage/layer.rs` | `layers` with a mount, `is_working` | initial layers, snapshot | mount entries (cascade) | at most one working layer, closed snapshots |
| Mounts and publishing `storage/mount_entry.rs`, `storage/published_mount.rs`, `composition/` | `mount_entries`, `published_mounts` | create, replace, delete, publish, scope, resolve, find_mount | mount layer chains | two mounts clash on a path only where neither request saw the other; unique publications; access control |
| WASI `wasi/adapter.rs`, `wasi/fd_table.rs` | descriptor table behind a mutex | open, close, read, write, seek | file content | requests resume on their own descriptor; sequential reads have no gap |
| Hooks `layer/hooks.rs` | none | parse a command, call the layer manager | layer manager | as the layer manager |
| FUSE backend `fuse/backend.rs` | none: a FileSystem per call | forwards; offset writes and truncation to other than 0 refused; set_attr in parts | file content, namespace, hooks | the parts of a call reach one file |
| FUSE adapter `fuse/adapter.rs`, `fuse/mount.rs` | inode number ↔ path map | one callback at a time | FUSE backend | a number means one file and reaches it |
| Content detection `layer/detection.rs`, split and join of `layer/cow.rs` | none | detect, split into lines or blocks, join | file content | what is read is what was written |
| CSI controller `csi/controller.rs`, `csi/tenant_mapping.rs`, `csi/snapshot.rs` | tenants, their base layer, snapshots as layers | create and delete a volume, create a snapshot | tenants, layers, an orchestrator that retries | one volume per claim, claims apart, every claim gets its volume |
| CSI node `csi/node.rs`, `csi/mount_manager.rs` | active mounts behind a mutex | stage, publish, unpublish, unstage | `tarbox mount` processes, the node's mount table | one process per volume, nothing left behind, unstage ends |
| Audit, configuration, pool, models, errors, CSI server, identity and metrics | none of their own | | | (not modelled) |

The hard behaviour is the same everywhere: something is read, another request
acts, and the value is used (checks for children, names, conflicts, emptiness,
read-only); and a crash cuts a sequence of statements. At the edges
there is more: the kernel keeps numbers for files that others remove, and an
orchestrator repeats calls whose first attempt still runs. `PROJECT.json` lists these places
as hazards with the properties that would catch them going wrong.

## Modules

| Module | Models | State and actions |
|---|---|---|
| `LayerTree` | what the layer requests promise together | `nodes`, `up`, `frozen`, `pos`; AddRoot, AddChild below a frozen node, Freeze, MoveTo, RemoveLeaf that is not the position |
| `LayerManager` | layer manager | the three tables and, per client, `pc`, `at`, `todo`, `arg`, `mode`; one action per statement of each request; refines `LayerTree` |
| `TextRows` | what the tables of texts promise together | `present`, `shown`; a slot (a file in a layer) has metadata or not and shows nothing or one whole text, which goes before another is shown |
| `FileStore` | write, read, delete of contents | rows `meta`, `map`, `blocks`; per handle the cached layer `lay`; extends `LayerTree`, so the layers below move exactly as the layer manager has been shown to move them; refines `TextRows` |
| `TextBlocks` | blocks behind the lines of one text | `stored`, `content`, `refCount`, `map`; triggers and cascades are part of the statements that fire them; refines `TextRows` |
| `Namespace` | inodes of a tenant | per client the walk still to do; list, look-up, insert and delete are separate; has no specification of its own |
| `FuseAdapter` | a FUSE mount | extends `Namespace`: the mount is one of its clients; `imap` is the inode map, `cb` the callback under way with the backend calls it still makes; ghosts keep which inodes a number stood for |
| `TextContent` | detection, split and join | pure operators on sequences of tokens; the state is the last content written and its rows; checked beside `TextBlocks`, with which it shares no state |
| `UnionView` | look-up and listing | per reader the layer reached and what it found; ghosts collect what was true meanwhile |
| `MountLayers` | layer chains of mounts | layers with mount, parent, name, working mark; SnapshotGet, SnapshotUpdate, SnapshotCreate and the initial layers |
| `Composition` | mount entries and publications | extends `MountLayers`; check and insert are separate steps, as are the two reads of a resolution |
| `WasiFds` | descriptors of an adapter | table, poisoned mutex, per task the values taken before the await |
| `CsiController` | volumes and snapshots | `tname`, `base`, `current`, `snap` are the tables; per worker the call it handles; the orchestrator with the claims it waits for is external |
| `CsiNode` | mounts of volumes on a node | `handle` and `lock` are the mount manager; processes, mounts and binds are the node's; the kubelet is external |
| `LayerManagerProofs`, `FileStoreProofs`, `UnionViewProofs`, `WasiFdsProofs` | theorems about the module named | |
| `TextProofs` | theorems about `TextBlocks` and, after them, `TextContent`; the two share no state | |
| `FuseAdapterProofs` | theorems about `FuseAdapter` and the `Namespace` below it | |
| `CompositionProofs` | theorems about `MountLayers` alone and composed with `Composition` | |
| `CsiProofs` | theorems about `CsiController` and, after them, `CsiNode`; the two share no state | |
| `MC*` | small constants and symmetry for TLC | |

The `map` of `PROJECT.json` names the lines each definition stands for.

Abstractions worth knowing:

- Identities are numbers in the order of creation. They stand for UUIDs, and the
  order for `created_at`, by which the code sorts layers.
- A statement is atomic, and a constraint is checked by it. PostgreSQL's waiting for a
  concurrent unique insert or for a row lock is a statement that comes later;
  `Composition` models the locks of the one long transaction
  (`set_mount_entries`) explicitly.
- Contents are small records: a text is its lines, line ending and trailing
  newline, a binary its chunks. `Join` in `FileStore` gives what the reader makes of
  it, including that every line ending comes back as LF (the stored `CRLF` is
  compared with `crlf`) and that a text of one blank line comes back empty. A read of the
  old content that fails does not end a write: it goes on as if there were none
  (`TextReadFails`, `BlocksReadFails`).
- `write_text_file` looks a line up by another hash function than the one it is stored under,
  so its own look-up never finds a block and `create_block` does the sharing.
  `TextBlocks` models that path.
- A layer request of `LayerManager` is about one tenant, and about layers that only the
  layer manager makes. The CSI driver and the mounts insert into the same
  table without freezing the parent; `ParentsReadonly` says nothing about tenants that
  mix them. For the same reason requests of the layer manager on a mount's layers are
  not in `MountLayers`, but for the deletion.
- A path of a mount is its text, `Components` gives what Rust's `Path` makes of it and `TextLength`
  how long the text is: the unique index compares texts, the validation and
  `find_mount` components, and the longest match is the one with the longest text. The
  layer given to a publication may be any that was ever created, of any mount, since nothing
  checks it.
- `UnionView` leaves out the deletion of a layer that an open view reads, and the two
  statements of `from_current` are one step.
- In `FuseAdapter` reads and writes end with the resolution of their path: the numbers
  are the subject, the rows are `FileStore`'s. A `DELETE` that meets no row succeeds, as in
  the code, and the map is cleaned all the same. A statement that fails, or is done while its answer is
  lost, ends the callback with an errno and leaves the map as it is (`MountFails`). The
  hook name `.tarbox` is no name of a file. A listing numbers the children
  it has no number for in the order of their names; the model leaves the order
  open (`Numberings`).
- The inodes a cascade takes (`Subtree`) and the path that leads to an inode (`Leads`) are
  defined by the existence of a chain of parents, not by recursion, so that they can
  be reasoned about.
- In `TextContent` a token stands for bytes of one kind (a word, LF, CR, NUL, a control
  character, the two halves of a two-byte character, the replacement character).
  The limits of the detector are constants, so that every rule of it decides
  some content of the run.
- In `CsiController` a Kubernetes name is the sequence of its words between hyphens, so that
  the separator `--` is an empty word and can occur inside a name. The words (`Words`) and
  the names calls may carry (`Requests`) are constants: all that is assumed is that a cluster has
  one claim of a name in a namespace. Opening a tenant
  (`FileSystem::new`) is one step with both its outcomes; its statements are
  `LayerManager`'s.
- In `CsiNode` the process looks its `--tenant` up by name although the driver passes the
  volume id, a UUID (`csi/mount_manager.rs:53`, `main.rs:350`): only the volumes in `Named`
  ever serve.
- In `WasiFds` the constant `Half` stands for 2^63; overflow of a position panics and
  poisons the mutex (debug build) or wraps (release build), by choice.

## Runs

All runs finish exhaustively. Bounds are constants in the cfg files.

| Run | Instance | Shows |
|---|---|---|
| `layer_manager` | 2 clients, 2 names, 1 path, 3 layers | the tree, the unique base, read-only parents, refinement of `LayerTree`, **action property**: the chain of a layer never changes |
| `file_store` | 2 handles, 1 file, 2 layers, an LF and a CRLF text, a binary of 2 blocks, crashes | no orphans; acknowledged texts read back through their layer; acknowledged binaries are stored whole; refinement of `TextRows` |
| `text_blocks` | 2 writers, 2 slots, 3 lines, 3 blocks; contents of up to 5 tokens | exact counts, no dangling line, refinement of `TextRows`: whole texts; contents read back, copies of copies are stable |
| `fuse` | a mount and another client, 1 name, depth 2, 4 inodes, 3 numbers | a tree of directories, unambiguous paths, the cascade of a racing rmdir takes only what came after its check; numbers mean one file and reach it |
| `composition` | 2 clients, 2 mounts, an owner and another tenant, 3 layers, lists of up to 2, the paths `/a//`, `/a/b` and `/a//b` | chains intact, **action property**: a snapshot stays closed and where it is; nesting, and two mounts of one path, only between requests that did not see each other; sound publications, resolution in scope |
| `union_view` | 1 reader, 1 path, 3 layers, 2 inodes | atomic look-ups and, per name, listings |
| `wasi_fds` | 2 tasks, 1 path, 2 descriptors, sizes to 2, `Half` = 3 | resumption on the own descriptor, gapless sequential reads |
| `csi_controller` | 2 claims, 2 workers, 3 claims made, 5 tenants, 1 timeout or restart, four ways of naming | one volume per claim, volumes apart, **liveness**: a wanted claim gets its volume |
| `csi_node` | 2 volumes of which one can serve, 2 visits each, 2 mishaps | one process per volume, nothing left after unstage, **liveness**: unstage ends |
| `overwrite_after_truncate` | 1 handle | **violation**: after the empty text, which is what a truncation writes, no text can be written in the layer |
| `checkpoint_content` | 1 handle, 2 layers | **violation**: a new layer does not inherit texts |
| `volume_snapshot` | 2 claims, 1 worker, no fault | **violation**: a snapshot of a created volume is refused |

Why the bounds are enough for what the runs claim: races here are between two
requests, so two actors meet every check-then-act pair. Three layers give a base, a
parent and a leaf, with one deleted and another created meanwhile. Two layers and
one file give a cached layer that is not the current one. Three blocks let a line
be cleaned up and stored again under a new identity. Depth 2 and four inodes give a directory
that is removed and replaced by a file under a walk, and three numbers a path that has had
two. Two workers let a call that ran into its timeout go on beside its
retry, and three claims let one be made again while a late deletion of the former runs.
Two faults on the node
let a lost answer or a death meet a restart.
Five tokens hold a CR before a CRLF, a cut character, a line over the limit and an
unfinished last block. Three layers do not let two
snapshots of one mount both complete: for racing snapshots the evidence is the
theorems `ChainsStayIntact` and `SnapshotsStayFinal`. The same holds of every property that a theorem states: its
run is there to be read, to be mutated and to show that the interesting states occur, and
the theorem removes the bound. The type invariants of `LayerManager`, `FileStore` and
`MountLayers` are theorems only; so is `WholeTexts`, which the refinement of `TextRows`
implies and which no run repeats.

Every property of a passing run has a mutant in `PROJECT.json`: a definition changed the
way a plausible bug would change it, under which TLC finds the property violated.

Some properties hold only with the exemption they state, and the exemption is the
point: `LookupAtomic` and `ListAtomicPerName` fail when a change is recorded
late in a frozen layer (record_change checks `is_readonly` and inserts later), and
the listing also when an inode is deleted meanwhile. `NumberMeansOneFile` exempts
files another client removed, or the mount by a statement whose answer was lost, neither of which the
map is told of; `AckedTextReads` and `AckedBinaryStored` speak of writes that no other one of the
file overlapped; `ReadsBack` leaves out CRLF, a lone newline and what only passes
for Latin-1; `VolumesSeparate` names whose
claims the driver cannot tell apart; `UnstagedMeansGone` names the faults after which
mounts stay. `ResolvedInScope` fails if the
publication changes between the two reads of a resolution. `NestedOnlyUnseen` says
exactly when mounts can nest although `spec/18` forbids nesting: when two
creations ran between each other's check and insert. `AmbiguousOnlyUnseen` says the
same of two mounts of which `find_mount` picks one by the order of the list, and
that equal texts never meet. The hazards say for each exemption which case it takes away.

Deadlock is checked in every run: in no state are all requests stuck, also when the
bounded identities are used up.

### Fairness

The requests on the database are finite sequences of statements that wait for nobody
and may crash at any point: there is nothing they promise to happen, and
their modules state no fairness. The CSI modules do:

- `CsiController` assumes weak fairness of every statement and answer of a call in the driver
  (tokio polls it), and of the provisioner's next create call for a claim without a
  volume (the sidecar's work queue tries again). Nobody has to release, delete, open or
  snapshot. Timeouts and restarts are finitely many: without that no claim need ever
  be answered. `ClaimProvisioned` then says that no statement a call is cut after, and no early
  opening of the tenant, leaves a claim without its volume for good.
- `CsiNode` assumes strong fairness of an unstage call, because the mutex it may find taken is
  tokio's, which serves waiters in order, and weak fairness of the call that holds it.
  The process that is killed need not do anything. Faults are finitely many, as above.

## Proofs

TLAPS checks the theorems below for every value of the constants: any number of clients,
writers, readers, tasks, files, layers, names, volumes and claims. Identities are
numbers up to a constant, which may be any number.

Every module has one argument. The properties are not inductive, because a statement
acts on what its request read some statements ago. So the inductive invariant of each module
adds, for every request under way, what of its memory still holds although others
have acted since; and the reason is nearly always the same one: an identity is
never given out twice, so what was true of a row stays true for as long as the
row is there. Each invariant was checked with TLC on the instance of the module's run
before it was proved. A proof has one lemma per action, and under it one step per conjunct that
the action can disturb.

**Assumptions.** Named in the modules that declare the constants and evaluated by TLC in the
runs: bounds are numbers (`MaxLayersAssumption`, `MaxBlocksAssumption`,
`BoundsAssumption`, `NodeAssumption`, `MountAssumption`); names that the code
reserves are not used otherwise (`BaseAssumption`; `.tarbox` in `MountAssumption`; the id
nobody has in `NodeAssumption`); texts consist of lines, binaries of at most `MaxChunks` chunks
(`TextsAssumption`, `ContentsAssumption`); every mount has an owner
(`CompositionAssumption`); a file is shorter than 2^63 bytes (`BoundsAssumption` of
`WasiFds`); a cluster has one claim of a name in a namespace
(`ControllerAssumption`).

**`LayerManagerProofs`**, invariant `IInv`. `RequestsOK` adds that the layer a request works
on was created before the next identity, that its argument fits the statement to come, and
that a checkpoint about to insert the child has frozen the parent unless the parent has been
deleted. The last clause survives other requests because nothing makes a layer
writable again, and it carries `ParentsReadonly`; when the parent is gone the foreign key
refuses the insert. From it follow `TypeCorrect`, `LayersFormATree`,
`BaseLayerUnique`, `HistoryIsReadonly` and, one action at a time, the refinement
`ImplementsLayerTree`. `ChainsStayFixed` is about what `get_layer_chain` computes by recursion over the
parents. `ChainComputed` says it without recursion: a layer's chain is what every set holds that has the
layer and, with a row, its parent. The recursive function has one solution because parents are
older than their children, the smallest counterexample being led to a smaller one (`ClimbingDetermined`).
Since no statement gives a layer that stays another parent (`ParentsKept`, from the refinement), nothing moves.
`UnionView` rests on it: a view keeps the chain it was opened on.

**`FileStoreProofs`**, invariant `StoreInv`. What `write_file` acknowledges is spread over several
statements. `StoredSoFar` says what of the content is in the tables at each statement of a
writer with whose rows no other request interferes, `Undisturbed` that there is no such
request, and `AckedStored` that a content acknowledged since is stored whole. A layer
that is created meanwhile cannot interfere (`LayersFresh`). From it follow `StoreTypeCorrect`,
`NothingOutlives`, `AcknowledgedTextsRead` and `AcknowledgedBinariesStored`. The layers below
move by the steps of `LayerTree`, which `ImplementsLayerTree` has shown the layer manager to take.
`StoreUsesTexts` shows every statement to be a step of `TextRows`: a slot never changes from one text to another
without being empty in between, and the cascade of an inode or a layer takes whole texts.

**`TextProofs`**, blocks, invariant `BlocksInv`. `Counted` ties every reference count to the number of
rows of `text_line_map` that name the block, a cardinality, also for blocks that are gone;
`Holds` says that the blocks a writer has found and not mapped yet may have been cleaned up, but
never stand for another line. From it follow `BlocksTypeCorrect`, `RefCountsAreExact`,
`NoLineDangles` and `TextsStayWhole`, and the refinement `BlocksImplementTexts`: seen through the blocks, every
statement shows, hides or removes one whole text, and those on the blocks alone, the cleanup
included, change nothing that can be read. With `StoreUsesTexts` it says that `FileStore`, which
has the lines in the map itself, leaves nothing out that the blocks could do to a text.

**`TextProofs`**, contents. `ContentReadsBack` and `CopiesAreStable` are about contents of any length and any
limits of the detector, and so need induction. The scan and the join are recursive functions; that
they exist is proved by counting up, and what they compute by building a sequence token by token, each
time with the claim as a set, since the rules that take it as an operator cannot be
used. The detector needs no look inside: whatever it answers, blocks come back as they were
(`BlocksJoin`), and a text comes back without the CRs before its LFs (`Reduced`) or, if that is a lone
newline, empty. A text reduced once has no CRLF left unless a CR stood before one, and is valid UTF-8, so
its copy is lossless.

**`FuseAdapterProofs`**, invariant `FuseInv`. The argument follows the path at which every inode was
created, a function `P` that the tables do not have and the invariant says exists. It never changes,
since nothing renames and no identity is used twice; of two inodes with one path only the younger
can be there. `AimOK` and `CallbackOK` say that what a walk has
behind it and before it always make the path of the request; `MeantOK` that the inodes a number has
stood for all have the path the map holds for it. From it follow `FuseTypeCorrect`,
`TreeStaysATree`, `PathsStayUnambiguous`, `NumbersMeanOneFile`, `KernelNumbersStayGood`, and
`CascadeTakesOnlyUnseen`: whatever hangs below a directory found empty is younger
than the look, since parents are older than their children.

**`UnionViewProofs`**, invariant `ViewInv`. `Truth` is told of the table before and after a step
(`TruthIn`), with four lemmas: it is a state of a file, the word of a layer decides, without one the
layers below do, and nothing but the chain matters. A lookup on its way down
keeps its promise because what the rest of the chain says of its path was the truth of the view at
some moment; a listing on its way up because it holds what the layers below it say now. From it
follow `ViewTypeCorrect`, `LookupsAreAtomic` and `ListingsAreAtomicPerName`.

**`CompositionProofs`.** First `MountLayers` alone: `IInv` adds that the layer a request remembers
is of its mount for as long as it is there, and that one which has been closed stays closed;
`ChainsTypeCorrect` and `ChainsStayIntact` follow, and the action property `SnapshotsStayFinal`: a row that is
inserted has a new identity, and the UPDATE of a snapshot only takes the working mark away, also
when it comes late and finds the layer closed. Every step of the composed system is a step of
`MountLayers` or leaves the chains unchanged (`CompositionUsesChains`), so all three
hold there without a new induction (`ComposedChainsTypeCorrect`, `ComposedChainsStayIntact`,
`ComposedSnapshotsStayFinal`).
For the rest, `CompositionInv` adds that rows saw only rows
older than they are, and what a creation, a publication and a resolution still may
expect of what they checked (`Expects`). From it follow `PublicationsStaySound`,
`ResolutionsStayInScope`, `ConflictsOnlyUnseen` and `AmbiguityOnlyUnseen`: two mounts that
match one path nest (`PrefixesNest`), so that they conflict, and conflicts are only between
requests that did not see each other.

**`WasiFdsProofs`**, invariant `FdsInv`. Only a task between its locks holds a number, and what it
finds there is what it took it from (`OwnDescriptor`); a descriptor
that one request at a time reads has delivered the bytes up to its position or, between the read
and the second lock, up to where the position will be (`Account`). From it follow
`FdsTypeCorrect`, `RequestsResumeOnTheirOwn` and `SequentialReadsAreWhole`.

**`CsiProofs`**, controller, invariant `ControllerInv`. Whoever holds a tenant id, the table, a claim or
a call, means one name (`OneName`), and a deletion that ends late finds its tenant only while its
claim is still the released one it was called for (`WorkerOK`). The rest is about names: lemma
`NameDetermines` shows that `format_tenant_name` is injective on names whose namespace
does not contain the separator. From both follow `ClaimsStaySeparate` and
`BoundClaimsKeepTheirVolume`.

**`CsiProofs`**, node, invariant `NodeInv`. The mutex is held by an unstage that has taken the handle
out (`Held`), and what a volume that is not lost may have running and mounted is told for every phase
of its visit (`Accounted`). From it follow `ServedByOneProcess` and `UnstagedVolumesAreGone`.

Only model-checked, because liveness under fairness is out of this prover's reach:
`ClaimProvisioned` and `UnstageEnds`. The three violations are counterexamples, and need no proof.

## Findings

Three places where the code does not do what its comments or documents say, each with the
run that shows it: a text written where the empty text was, as after a truncation to
zero, is refused (`fs/operations.rs:200`); a new layer does not inherit its parent's texts
(`fs/operations.rs:286`); and a snapshot of a volume is refused, since the base layer made with
it is never its current layer (`csi/tenant_mapping.rs:46`).

### Observations

Reached by the models, or the reason for an exemption in a property.

Layers and contents:
- A confirmed checkpoint deletes the oldest future layer first (`layer/manager.rs:155`, the
  depth it sorts by is a placeholder): with a chain of two, the foreign key refuses it and the
  checkpoint fails. The tree stays whole.
- Of two overlapping snapshots of a mount, the second one renames the layer that the first one has
  closed (`storage/layer.rs:352`, an UPDATE by the identity read before): the first snapshot is
  there under another name than it was acknowledged with. `SnapshotsFinal` exempts exactly this.
- Blocks have no layer (`layer/cow.rs:118`): a binary write through the current layer replaces
  what a frozen layer reads.
- A refused checkpoint leaves the current layer frozen; a rejected write has already replaced the
  text of the frozen layer; a file that turns from text to binary in one layer
  is still read as text; a crash in a mount snapshot leaves the mount without a working
  layer; deleting a layer leaves publications of it that resolve to nothing.
- A text with CRLF reads back with LF (`layer/cow.rs:312`), although
  `spec/10-text-file-optimization.md:582-584` says 「读取时恢复原始格式」, the original format is
  restored on reading, because the style is stored as `CRLF` and looked for as `crlf`. A
  lone newline reads as an empty file, bytes that pass for Latin-1 become U+FFFD, and CR CR LF
  loses a character with each copy. `ReadsBack` leaves these cases out. A stored
  line may be longer than `max_line_length`, since the detector ends a line at a lone CR and the
  split does not.
- `batch_snapshot` never snapshots and a publication of a working layer never
  resolves, since nothing sets `mount_entries.current_layer_id` (`storage/layer.rs:406`,
  `storage/published_mount.rs:343`); `delete_text_file` (`layer/cow.rs:327`) would
  decrement counts twice, and nothing calls it.
- Two creations that overlap can make mounts at `/f` and `/f/`: the unique index compares texts
  (`storage/mount_entry.rs:144`, 382) and nothing normalises them, while `find_mount` compares
  components (`composition/resolver.rs:117`) and picks one of the two.
- A publication may name a layer of another mount or none at all: neither `publish_mount`
  (`composition/publisher.rs:31`) nor the table (`storage/published_mount.rs:97`, no foreign key)
  looks at it. Resolution then hands that layer out.

Names and FUSE:
- A file created between the emptiness check and the delete of `remove_directory` goes with the
  directory (`fs/operations.rs:145`). `CascadeOnlyUnseen` says that nothing else does.
- After a removal by another client a number may lead to the file created in its place.
  `set_attr` makes its calls one by one, and an absent uid or gid becomes 0
  (`fuse/backend.rs:351`).
- `is_hook_path` (`layer/hooks.rs:129`) decides by prefix.

CSI:
- `create_volume` makes a layer `base` without making it current
  (`csi/tenant_mapping.rs:46`). Opening such a volume tries to create `base` again, which the
  unique name refuses, and `create_snapshot` finds no current layer: both work only on
  a tenant that was opened between the two inserts. `SnapshotsAccepted` fails for this.
  `restore_from_snapshot` (`csi/snapshot.rs:67`) would make a layer current, and nothing calls it.
- Two claims map to one tenant when their calls carry no names, which is so with
  the deployment's provisioner (`deploy/csi/controller-deployment.yaml:74`, without
  `--extra-create-metadata`), or when `--` occurs in a namespace. Calls without names are
  those of the claim `unknown` in `default`, so they collide with a claim of that name too.
- `create_snapshot` is not idempotent and freezes nothing; `delete_snapshot` answers OK and deletes
  nothing; `delete_volume` does not wait for mounts.
- `stage` does not look whether the process serves; a process that died keeps its handle, so
  staging again does nothing. When `fusermount` fails the handle is gone already
  (`csi/mount_manager.rs:74`) and the retry answers OK with the mount still there. A repeated
  `publish` binds twice, and its `readonly` is not passed to `mount`.
- `tarbox csi --mode node` opens a FileSystem on a placeholder tenant when it starts and fails there:
  the node service is modelled as the library has it.

## Not modelled, and why

- Configuration, error codes, command-line parsing, formatting of hook replies: conversions
  without state. The CSI server and identity service: set-up and constant answers.
- Audit log, metrics: written and never read by the program.
- Attributes (mode, owner, times, size): no modelled decision reads them; which inode a
  change of them reaches is in `FuseAdapter`.
- Contents of volumes: deletion of a tenant cascades over every table; `CsiController` has the
  tenant with its layers only.
- Library functions nobody calls: `cleanup_all`, `restore_from_snapshot`, `delete_text_file`.

## Plan

Done: the layer manager with its abstract tree, contents on top of the tree, text
blocks, the namespace with a FUSE mount as one of its clients, content
detection, union view, mount chains with mounts and publishing, WASI
descriptors, the CSI controller and node with their faults, retries and liveness; the proofs above.

Left, should the code move there:

1. A specification of one content per file and layer, texts and blocks together, that `FileStore`
   refines where it can: today a file that changes its kind has both, and `TextRows` speaks
   of the texts alone.
2. `LayerManager`, `MountLayers` and `CsiController` over one `layers` table, once the three ways of
   creating a layer agree on freezing the parent.
3. Liveness of a mount's snapshots, once a snapshot that was cut has a way to be taken up again.
