----------------------------- MODULE Composition -----------------------------
(***************************************************************************)
(* Mount entries and published mounts on top of the layer chains: the      *)
(* repositories of src/storage/mount_entry.rs and                          *)
(* src/storage/published_mount.rs with their callers in src/composition.   *)
(*                                                                         *)
(* A mount entry is validated against the entries listed before it is      *)
(* inserted, and a publication against the ones looked up before: the      *)
(* statements between which other requests run are separate steps. The     *)
(* columns nothing modelled reads (names used for lookup, mode, enabled,   *)
(* metadata, host paths, descriptions) are left out, and with them         *)
(* update_mount_entry, which changes no other.                             *)
(*                                                                         *)
(* A path is stored as the text the user gave: the unique index compares   *)
(* texts, the validation and the resolver compare them as std::path::Path, *)
(* component by component ("/f" and "/f/" are one path and two texts).     *)
(***************************************************************************)
EXTENDS MountLayers, SequencesExt

CONSTANTS Tenants,
          VirtualPaths,  \* texts of paths
          Components,    \* what std::path::Path compares of a text
          TextLength,    \* as_os_str().len()
          Shapes,        \* what a user asks for: [path, file, kind]
          PublishNames,
          MaxList        \* bound: entries in one call of set_mount_entries

Kinds == {"working_layer", "layer", "other"}    \* "other": host and published

ASSUME CompositionAssumption ==
    /\ Owner \in [Mounts -> Tenants]
    /\ Components \in [VirtualPaths -> Seq(STRING)]
    /\ TextLength \in [VirtualPaths -> Nat]
    /\ \A s \in Shapes :
          s.kind \in Kinds /\ s.path \in VirtualPaths /\ s.file \in BOOLEAN
    /\ MaxList \in Nat

WorkingTarget == NoLayer                        \* layer_id is NULL
Created == 1..(nextId - 1)                      \* layers that are or were there

\* scope and allowed_tenants
Public == [public |-> TRUE, tenants |-> {}]
AllowList(s) == [public |-> FALSE, tenants |-> s]

Idle == [do |-> "nothing"]

VARIABLES
    entry,       \* the columns of mount_entries, by identity
    published,   \* rows of published_mounts
    job          \* the request of a client between two statements

compositionVars == <<vars, entry, published, job>>

CompositionInit ==
    /\ Init
    /\ entry = [m \in Mounts |-> Idle]
    /\ published = {}
    /\ job = [c \in Clients |-> Idle]

Free(c) == pc[c] = "idle" /\ job[c] = Idle

Do(c, what) == job' = [job EXCEPT ![c] = what]

\* A tenant gives access to others: its own needs no entry in the list.
Scopes(t) == {Public} \cup {AllowList(s) : s \in SUBSET (Tenants \ {t})}

Owners == {Owner[m] : m \in Mounts}

EntriesOf(t) == {m \in mounts : Owner[m] = t}

\* An INSERT of a row that refers to m, or a DELETE of m, waits while a
\* transaction of set_mount_entries has deleted m and not committed.
Locked(m) == \E c \in Clients : job[c].do = "set" /\ m \in job[c].doomed

-----------------------------------------------------------------------------
(* Mount entries                                                           *)

\* What a request can ask for: a layer source names a mount that is there.
Requests ==
    {[path |-> s.path, file |-> s.file, kind |-> s.kind, source |-> m] :
        s \in {r \in Shapes : r.kind = "layer"}, m \in mounts}
    \cup
    {[path |-> s.path, file |-> s.file, kind |-> s.kind, source |-> NoMount] :
        s \in {r \in Shapes : r.kind # "layer"}}

\* Path::starts_with
StartsWith(path, base) == IsPrefix(Components[base], Components[path])

SamePath(a, b) == Components[a] = Components[b]

ConflictDownwards(new, old) ==
    \/ SamePath(new.path, old.path)
    \/ /\ ~new.file /\ ~old.file
       /\ StartsWith(new.path, old.path)

\* validate_no_conflict: only directories nest.
Conflict(new, old) ==
    \/ SamePath(new.path, old.path)
    \/ /\ ~new.file /\ ~old.file
       /\ StartsWith(new.path, old.path) \/ StartsWith(old.path, new.path)

\* The foreign key on the source mount and the unique text of a tenant's paths.
InsertAllowedWithoutUnique(new, others) ==
    new.source # NoMount => new.source \in others

InsertAllowed(new, others) ==
    /\ new.source # NoMount => new.source \in others
    /\ \A m \in others : Owner[m] = new.owner => entry[m].path # new.path

Row(t, r, seen) ==
    [owner |-> t, path |-> r.path, file |-> r.file, kind |-> r.kind,
     source |-> r.source, seen |-> seen]

\* Rows are deleted, and inserted as new gives them.
ReplaceEntries(old, new) ==
    /\ ReplaceMounts(old, DOMAIN new)
    /\ entry' = [m \in Mounts |-> CASE m \in DOMAIN new -> new[m]
                                    [] m \in mounts \ old ->
                                         [entry[m] EXCEPT !.seen = @ \ old]
                                    [] OTHER -> Idle]

\* create_mount_entry lists the tenant's entries ...
CreateCheck(c, t, r) ==
    /\ Free(c)
    /\ \A m \in EntriesOf(t) : ~Conflict(r, entry[m])    \* or MountPathConflict
    /\ Do(c, [do |-> "insert", row |-> Row(t, r, EntriesOf(t))])
    /\ UNCHANGED <<vars, entry, published>>

\* ... and inserts the new one.
CreateInsert(c, m) ==
    /\ job[c].do = "insert"
    /\ Owner[m] = job[c].row.owner
    /\ job[c].row.source # NoMount => ~Locked(job[c].row.source)
    /\ InsertAllowed(job[c].row, mounts)
    /\ ReplaceEntries({}, [k \in {m} |-> job[c].row])
    /\ Do(c, Idle)
    /\ UNCHANGED <<local, published>>

\* A publication goes with its mount, by the foreign key.
Surviving(old) == {p \in published : p.mount \notin old}

\* A resolution that reads a publication twice is told when it changes meanwhile.
Publications(new, jobs) ==
    /\ published' = new
    /\ job' = [c \in Clients |->
                 IF /\ jobs[c].do = "resolve"
                    /\ {p \in new : p.name = jobs[c].name}
                         # {p \in published : p.name = jobs[c].name}
                 THEN [jobs[c] EXCEPT !.disturbed = TRUE]
                 ELSE jobs[c]]

\* Deleting an entry that is another's source is refused by the foreign key.
Deletable(old) == \A m \in mounts \ old : entry[m].source \notin old

DeleteEntry(m) ==
    /\ m \in mounts
    /\ ~Locked(m)
    /\ Deletable({m})
    /\ ReplaceEntries({m}, <<>>)
    /\ Publications(Surviving({m}), job)
    /\ UNCHANGED local

\* set_mount_entries: the DELETE of its transaction takes the rows it finds, not
\* the ones that are inserted before it commits.
SetBegin(c, t) ==
    /\ Free(c)
    /\ Do(c, [do |-> "set", owner |-> t, doomed |-> EntriesOf(t)])
    /\ UNCHANGED <<vars, entry, published>>

\* The new entries, validated against each other only, are inserted.
SetCommit(c, new) ==
    LET j == job[c]
        old == j.doomed \cap mounts
        ids == DOMAIN new
    IN /\ j.do = "set"
       /\ \A m \in ids : Owner[m] = j.owner
       /\ \A m, k \in ids : m # k => ~Conflict(new[m], new[k])
       /\ Deletable(old)
       /\ \A m \in ids : InsertAllowed(Row(j.owner, new[m], {}), mounts \ old)
       /\ ReplaceEntries(old, [m \in ids |-> Row(j.owner, new[m], ids)])
       /\ Publications(Surviving(old), [job EXCEPT ![c] = Idle])
       /\ UNCHANGED local

\* find_mount takes the first in the list of: the files mounted at the path, or
\* else, of the directories mounted above it, those with the longest text.
Matching(t, path) ==
    LET files == {m \in EntriesOf(t) : entry[m].file /\ SamePath(entry[m].path, path)}
        directories == {m \in EntriesOf(t) : /\ ~entry[m].file
                                            /\ StartsWith(path, entry[m].path)
                                            /\ TextLength[entry[m].path] > 0}
    IN IF files # {} THEN files
       ELSE {m \in directories : \A k \in directories :
               TextLength[entry[k].path] <= TextLength[entry[m].path]}

-----------------------------------------------------------------------------
(* Published mounts                                                        *)

\* publish: a mount of kind working_layer, a free name, a mount not published
\* yet. These are four reads in a row, taken as one step: none is relied on
\* later, as the INSERT is refused by the foreign key and the unique indexes, and
\* the kind of a mount never changes.
PublishCheck(c, m, n) ==
    /\ Free(c)
    /\ m \in mounts
    /\ entry[m].kind = "working_layer"
    /\ \A p \in published : p.name # n /\ p.mount # m
    /\ Do(c, [do |-> "publish", mount |-> m, name |-> n])
    /\ UNCHANGED <<vars, entry, published>>

\* The foreign key and the two unique indexes of published_mounts.
PublishAllowedWithoutIndexes(j) == j.mount \in mounts

PublishAllowed(j) ==
    /\ j.mount \in mounts
    /\ \A p \in published : p.name # j.name /\ p.mount # j.mount

\* Target and scope are inputs that nothing reads before the INSERT. The target is
\* not checked at all and has no foreign key: it may be the working layer, a layer
\* of another mount, or one that was deleted.
PublishInsert(c, target, scope) ==
    LET j == job[c]
        row == [mount |-> j.mount, owner |-> Owner[j.mount], name |-> j.name,
                target |-> target, scope |-> scope]
    IN /\ j.do = "publish"
       /\ ~Locked(j.mount)
       /\ PublishAllowed(j)
       /\ Publications(published \cup {row}, [job EXCEPT ![c] = Idle])
       /\ UNCHANGED <<vars, entry>>

Unpublish(p) ==
    /\ p \in published
    /\ Publications(published \ {p}, job)
    /\ UNCHANGED <<vars, entry>>

SetScope(p, scope) ==
    /\ p \in published
    /\ scope # p.scope
    /\ Publications((published \ {p}) \cup {[p EXCEPT !.scope = scope]}, job)
    /\ UNCHANGED <<vars, entry>>

\* update_publish replaces the scope; add_allowed_tenant and
\* remove_allowed_tenant change one of kind allow_list.
UpdatePublish(p) == \E scope \in Scopes(p.owner) : SetScope(p, scope)

AddAllowedTenant(p, t) ==
    /\ ~p.scope.public
    /\ SetScope(p, AllowList(p.scope.tenants \cup {t}))

RemoveAllowedTenant(p, t) ==
    /\ ~p.scope.public
    /\ SetScope(p, AllowList(p.scope.tenants \ {t}))

\* check_access
Accessible(p, t) == p.owner = t \/ p.scope.public \/ t \in p.scope.tenants

ResolveCheckNameOnly(c, n, t) ==
    /\ Free(c)
    /\ \E p \in published : p.name = n
    /\ Do(c, [do |-> "resolve", tenant |-> t, name |-> n, disturbed |-> FALSE])
    /\ UNCHANGED <<vars, entry, published>>

ResolveCheck(c, n, t) ==
    /\ Free(c)
    /\ \E p \in published : p.name = n /\ Accessible(p, t)
    /\ Do(c, [do |-> "resolve", tenant |-> t, name |-> n, disturbed |-> FALSE])
    /\ UNCHANGED <<vars, entry, published>>

\* resolve_published looks the name up again. For a working layer it goes on to
\* mount_entries.current_layer_id, which nothing sets: "Working layer not
\* initialized for this mount", an error like a name that is gone.
ResolveRead(c) ==
    /\ job[c].do = "resolve"
    /\ \E p \in published :
        /\ p.name = job[c].name
        /\ p.target # WorkingTarget
        /\ Do(c, [do |-> "resolved", disturbed |-> job[c].disturbed,
                  inScope |-> Accessible(p, job[c].tenant)])
    /\ UNCHANGED <<vars, entry, published>>

\* A request returns: its answer is used, a statement of it was refused, or its
\* process died; an open transaction is rolled back.
Leave(c) ==
    /\ job[c] # Idle
    /\ Do(c, Idle)
    /\ UNCHANGED <<vars, entry, published>>

-----------------------------------------------------------------------------
(* The steps of the layer chains, where a row lock of set_mount_entries     *)
(* does not make them wait.                                                *)

LayerStep(c) ==
    /\ job[c] = Idle
    /\ ChainStep(c)
    /\ \A l \in live' \ live : ~Locked(mount'[l])
    /\ UNCHANGED <<entry, published, job>>

DropLayer(l) ==
    /\ DeleteLayer(l)
    /\ ~Locked(mount[l])
    /\ UNCHANGED <<local, entry, published, job>>

CompositionNext ==
    \/ \E c \in Clients :
        \/ \E t \in Owners, r \in Requests : CreateCheck(c, t, r)
        \/ \E m \in Mounts : CreateInsert(c, m)
        \/ \E t \in Owners : SetBegin(c, t)
        \/ \E ids \in SUBSET (Mounts \ used) :
               /\ Cardinality(ids) <= MaxList
               /\ \E new \in [ids -> Requests] : SetCommit(c, new)
        \/ \E m \in mounts, n \in PublishNames : PublishCheck(c, m, n)
        \/ \E t \in Owners, target \in {WorkingTarget} \cup Created :
               \E scope \in Scopes(t) : PublishInsert(c, target, scope)
        \/ \E n \in PublishNames, t \in Tenants : ResolveCheck(c, n, t)
        \/ ResolveRead(c)
        \/ Leave(c)
        \/ LayerStep(c)
    \/ \E m \in Mounts : DeleteEntry(m)
    \/ \E p \in published :
        \/ Unpublish(p)
        \/ UpdatePublish(p)
        \/ \E t \in Tenants \ {p.owner} : AddAllowedTenant(p, t)
        \/ \E t \in p.scope.tenants : RemoveAllowedTenant(p, t)
    \/ \E l \in LayerIds : DropLayer(l)

CompositionSpec == CompositionInit /\ [][CompositionNext]_compositionVars

-----------------------------------------------------------------------------
(* Properties                                                              *)

\* What find_mount picks for a path may depend on the order in which the entries
\* are listed, but only between mounts whose requests overlapped: neither was
\* there when the other was validated, and their paths are different texts.
AmbiguousOnlyUnseen ==
    \A t \in Owners, path \in VirtualPaths :
        \A m, k \in Matching(t, path) :
            m # k => /\ entry[m].path # entry[k].path
                     /\ k \notin entry[m].seen /\ m \notin entry[k].seen

\* Mounts of a tenant nest only when neither could see the other: no entry is in
\* conflict with one that was there when it was validated.
NestedOnlyUnseen ==
    \A m, k \in mounts :
        m # k /\ Owner[m] = Owner[k] /\ Conflict(entry[m], entry[k])
            => k \notin entry[m].seen /\ m \notin entry[k].seen

\* Whatever publications, deletions and replacements overlap: a name is published
\* once, a mount is published once, and what is published is a working-layer
\* mount that is there, in its owner's name.
PublicationsSound ==
    \A p \in published :
        /\ \A q \in published : p.name = q.name \/ p.mount = q.mount => p = q
        /\ p.mount \in mounts
        /\ entry[p.mount].kind = "working_layer"
        /\ p.owner = entry[p.mount].owner

\* A tenant that resolves a published name gets a layer it has access to, unless
\* the publication was changed between the two reads of the call.
ResolvedInScope ==
    \A c \in Clients :
        job[c].do = "resolved" /\ ~job[c].disturbed => job[c].inScope
==============================================================================
