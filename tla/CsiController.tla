---------------------------- MODULE CsiController ----------------------------
(***************************************************************************)
(* The CSI controller: create_volume, delete_volume and create_snapshot of *)
(* src/csi/controller.rs with the tenant mapper and the snapshot manager,  *)
(* over the tenants and layers tables.                                     *)
(*                                                                         *)
(* The orchestrator (Kubernetes with its sidecars, external) calls again   *)
(* until it has an answer. A call that ran into its timeout is cut or goes *)
(* on in the driver, and its answer is dropped; so calls for one claim     *)
(* overlap, and old ones end late. The driver may restart at any point.    *)
(***************************************************************************)
EXTENDS Integers, Sequences, FiniteSets, SequencesExt

CONSTANTS Claims,       \* persistent volume claims
          Words,        \* what names are made of, see below
          Requests,     \* the parameters the claims may come with: functions
                        \* from Claims to [ns, pvc], each or None
          Workers,      \* calls the driver handles at a time
          None,
          MaxTenants,   \* bound: tenants created
          MaxRounds,    \* bound: claims made, the same one again included
          MaxFaults     \* bound: timeouts and driver restarts

PvcNames == [ns : Seq(Words), pvc : Seq(Words)]

\* The two keys of the parameters, of which either may be missing.
PvcParams == [ns : Seq(Words) \cup {None}, pvc : Seq(Words) \cup {None}]
Unnamed(p) == p.ns = None \/ p.pvc = None

\* A cluster has one claim of a name in a namespace.
ASSUME ControllerAssumption ==
    /\ None \notin Workers \cup Claims
    /\ MaxTenants \in Nat /\ MaxRounds \in Nat /\ MaxFaults \in Nat
    /\ {"", "default", "unknown"} \subseteq Words
    /\ Requests \subseteq [Claims -> PvcParams]
    /\ \A f \in Requests : \A c, d \in Claims : c # d /\ f[c] = f[d] => Unnamed(f[c])

TenantIds == 1..MaxTenants
NoTenant == 0

-----------------------------------------------------------------------------
(* Names. A Kubernetes name is the sequence of its words between hyphens:  *)
(* "a-b" is <<"a", "b">>, and the separator "--" is an empty word between  *)
(* two others.                                                             *)

\* extract_pvc_info
PvcInfo(p) ==
    [ns |-> IF p.ns = None THEN <<"default">> ELSE p.ns,
     pvc |-> IF p.pvc = None THEN <<"unknown">> ELSE p.pvc]

FormatWithOneHyphen(info) == info.ns \o info.pvc

\* format_tenant_name: "{namespace}--{pvc}"
FormatTenantName(info) == info.ns \o <<"">> \o info.pvc

HasSeparator(words) == "" \in Range(words)

VARIABLES
    params,     \* what the calls for each claim carry
    tname,      \* tenants.tenant_name; <<>> where there is no row
    nextTenant,
    base,       \* whether the tenant has a layer "base": "none" or "there"
    current,    \* whether the tenant has a row in tenant_current_layer
    snap,       \* whether the layer named like the snapshot exists
    pc, for, vol,                    \* the calls being handled
    claim, bound, waiting,           \* the orchestrator, per claim
    round,
    faults

tables == <<tname, nextTenant, base, current, snap>>
calls == <<pc, for, vol>>
co == <<claim, bound, waiting, round>>
vars == <<params, tables, calls, co, faults>>

TenantName(c) == FormatTenantName(PvcInfo(params[c]))
Live == {t \in TenantIds : tname[t] # <<>>}
NamedTenants(n) == {t \in Live : tname[t] = n}

Init ==
    /\ params \in Requests
    /\ tname = [t \in TenantIds |-> <<>>]
    /\ nextTenant = 1
    /\ base = [t \in TenantIds |-> "none"]
    /\ current = [t \in TenantIds |-> FALSE]
    /\ snap = [t \in TenantIds |-> FALSE]
    /\ pc = [w \in Workers |-> "idle"]
    /\ for = [w \in Workers |-> None]
    /\ vol = [w \in Workers |-> NoTenant]
    /\ claim = [c \in Claims |-> "none"]
    /\ bound = [c \in Claims |-> NoTenant]
    /\ waiting = [c \in Claims |-> None]
    /\ round = 0
    /\ faults = 0

Goto(w, label, t) ==
    /\ pc' = [pc EXCEPT ![w] = label]
    /\ vol' = [vol EXCEPT ![w] = t]
    /\ UNCHANGED for

\* The call is over; an error is an answer without a volume.
Ok(w, t) == Goto(w, "answer", t)
Fail(w) == Goto(w, "answer", NoTenant)

-----------------------------------------------------------------------------
(* create_volume: create_tenant_from_pvc                                   *)

\* get_by_name: a tenant of that name is the answer as it is.
LookupNothing(w) ==
    /\ pc[w] = "lookup"
    /\ Goto(w, "insert", NoTenant)
    /\ UNCHANGED <<params, tables, co, faults>>

LookupTenant(w) ==
    /\ pc[w] = "lookup"
    /\ IF NamedTenants(TenantName(for[w])) = {} THEN Goto(w, "insert", NoTenant)
       ELSE \E t \in NamedTenants(TenantName(for[w])) : Ok(w, t)
    /\ UNCHANGED <<params, tables, co, faults>>

\* The tenant and its root inode, in one transaction; refused when the name is
\* taken (UNIQUE).
InsertTenant(w) ==
    /\ pc[w] = "insert"
    /\ nextTenant \in TenantIds
    /\ IF NamedTenants(TenantName(for[w])) = {}
       THEN /\ tname' = [tname EXCEPT ![nextTenant] = TenantName(for[w])]
            /\ nextTenant' = nextTenant + 1
            /\ Goto(w, "base", nextTenant)
       ELSE Fail(w) /\ UNCHANGED <<tname, nextTenant>>
    /\ UNCHANGED <<params, base, current, snap, co, faults>>

\* The base layer, which is not made the current one. Refused when the tenant
\* is gone, or has a layer of that name (UNIQUE) because it was opened meanwhile.
BaseAllowed(t) == t \in Live /\ base[t] = "none"

InsertBase(w) ==
    /\ pc[w] = "base"
    /\ IF BaseAllowed(vol[w])
       THEN base' = [base EXCEPT ![vol[w]] = "there"] /\ Ok(w, vol[w])
       ELSE Fail(w) /\ UNCHANGED base
    /\ UNCHANGED <<params, tname, nextTenant, current, snap, co, faults>>

-----------------------------------------------------------------------------
(* delete_volume: the row by its id, the rest by cascade; a volume that is *)
(* not there is deleted as well. No mount is waited for.                   *)
DeletedByName(w) == NamedTenants(TenantName(for[w]))

Deleted(w) == {vol[w]} \cap Live

DeleteTenant(w) ==
    /\ pc[w] = "delete"
    /\ LET gone == Deleted(w) IN
       /\ tname' = [t \in TenantIds |-> IF t \in gone THEN <<>> ELSE tname[t]]
       /\ base' = [t \in TenantIds |-> IF t \in gone THEN "none" ELSE base[t]]
       /\ current' = [t \in TenantIds |-> t \notin gone /\ current[t]]
       /\ snap' = [t \in TenantIds |-> t \notin gone /\ snap[t]]
    /\ Goto(w, "deleted", vol[w])
    /\ UNCHANGED <<params, nextTenant, co, faults>>

-----------------------------------------------------------------------------
(* create_snapshot: a layer on the current one, which is neither frozen    *)
(* nor left. delete_snapshot answers and deletes nothing.                  *)
SnapshotGet(w) ==
    /\ pc[w] = "snapget"
    /\ IF vol[w] \in Live /\ current[vol[w]] THEN Goto(w, "snapcreate", vol[w])
       ELSE Fail(w)               \* No current layer found for tenant
    /\ UNCHANGED <<params, tables, co, faults>>

\* Refused when the name is taken, also by the same call made before.
SnapshotCreate(w) ==
    /\ pc[w] = "snapcreate"
    /\ IF vol[w] \in Live /\ ~snap[vol[w]]
       THEN snap' = [snap EXCEPT ![vol[w]] = TRUE] /\ Ok(w, vol[w])
       ELSE Fail(w) /\ UNCHANGED snap
    /\ UNCHANGED <<params, tname, nextTenant, base, current, co, faults>>

-----------------------------------------------------------------------------
(* FileSystem::new on the tenant, by the command line or a mount:          *)
(* initialize_base_layer creates "base" and makes it current, unless there *)
(* is a current layer; it may end between the two (see LayerManager).      *)
(* A volume with the driver's base is refused: "base" is there already.    *)
Open(t) ==
    /\ t \in Live /\ ~current[t] /\ base[t] = "none"
    /\ base' = [base EXCEPT ![t] = "there"]
    /\ \E done \in BOOLEAN : current' = [current EXCEPT ![t] = done]
    /\ UNCHANGED <<params, tname, nextTenant, snap, calls, co, faults>>

-----------------------------------------------------------------------------
(* The orchestrator                                                        *)

Want(c) ==
    /\ claim[c] = "none" /\ round < MaxRounds
    /\ claim' = [claim EXCEPT ![c] = "wanted"]
    /\ round' = round + 1
    /\ UNCHANGED <<params, tables, calls, bound, waiting, faults>>

Release(c) ==
    /\ claim[c] = "bound" /\ waiting[c] = None
    /\ claim' = [claim EXCEPT ![c] = "released"]
    /\ UNCHANGED <<params, tables, calls, bound, waiting, round, faults>>

\* A call and, after an error or a timeout, the next one
Call(c, w, state, label) ==
    /\ claim[c] = state /\ waiting[c] = None /\ pc[w] = "idle"
    /\ pc' = [pc EXCEPT ![w] = label]
    /\ for' = [for EXCEPT ![w] = c]
    /\ vol' = [vol EXCEPT ![w] = bound[c]]
    /\ waiting' = [waiting EXCEPT ![c] = w]
    /\ UNCHANGED <<params, tables, claim, bound, round, faults>>

CallCreate(c, w) == Call(c, w, "wanted", "lookup")
CallDelete(c, w) == Call(c, w, "released", "delete")
CallSnapshot(c, w) == bound[c] # NoTenant /\ ~snap[bound[c]] /\ Call(c, w, "bound", "snapget")

\* The answer reaches the orchestrator only if it still waits for this call.
Answer(w) ==
    LET c == for[w] IN
    /\ pc[w] \in {"answer", "deleted"}
    /\ IF waiting[c] = w
       THEN /\ waiting' = [waiting EXCEPT ![c] = None]
            /\ claim' = [claim EXCEPT ![c] =
                    IF pc[w] = "deleted" THEN "none"
                    ELSE IF @ = "wanted" /\ vol[w] # NoTenant THEN "bound" ELSE @]
            /\ bound' = [bound EXCEPT ![c] =
                    IF pc[w] = "deleted" THEN NoTenant
                    ELSE IF claim[c] = "wanted" THEN vol[w] ELSE @]
       ELSE UNCHANGED <<waiting, claim, bound>>
    /\ pc' = [pc EXCEPT ![w] = "idle"]
    /\ for' = [for EXCEPT ![w] = None]
    /\ vol' = [vol EXCEPT ![w] = NoTenant]
    /\ UNCHANGED <<params, tables, round, faults>>

\* The deadline passes: the server drops the call at the statement it waits for,
\* or has not yet noticed and goes on.
Timeout(c) ==
    /\ waiting[c] # None /\ faults < MaxFaults
    /\ waiting' = [waiting EXCEPT ![c] = None]
    /\ faults' = faults + 1
    /\ \/ UNCHANGED calls
       \/ /\ pc' = [pc EXCEPT ![waiting[c]] = "idle"]
          /\ for' = [for EXCEPT ![waiting[c]] = None]
          /\ vol' = [vol EXCEPT ![waiting[c]] = NoTenant]
    /\ UNCHANGED <<params, tables, claim, bound, round>>

Restart ==
    /\ \E w \in Workers : pc[w] # "idle"
    /\ faults < MaxFaults
    /\ faults' = faults + 1
    /\ pc' = [w \in Workers |-> "idle"]
    /\ for' = [w \in Workers |-> None]
    /\ vol' = [w \in Workers |-> NoTenant]
    /\ waiting' = [c \in Claims |-> None]
    /\ UNCHANGED <<params, tables, claim, bound, round>>

\* One statement of the driver, or its answer
Handle(w) ==
    \/ LookupTenant(w)
    \/ InsertTenant(w)
    \/ InsertBase(w)
    \/ DeleteTenant(w)
    \/ SnapshotGet(w)
    \/ SnapshotCreate(w)
    \/ Answer(w)

Retry(c) == \E w \in Workers : CallCreate(c, w)

Done == round = MaxRounds /\ \A c \in Claims : claim[c] = "none"

Next ==
    \/ \E w \in Workers : Handle(w)
    \/ \E t \in TenantIds : Open(t)
    \/ \E c \in Claims : Want(c) \/ Release(c) \/ Timeout(c)
    \/ \E c \in Claims, w \in Workers :
           CallCreate(c, w) \/ CallDelete(c, w) \/ CallSnapshot(c, w)
    \/ Restart
    \/ Done /\ UNCHANGED vars

\* The driver's runtime takes every call further, and the provisioner calls
\* again for a claim without a volume; nobody has to open, release or delete.
Fairness ==
    /\ \A w \in Workers : WF_vars(Handle(w))
    /\ \A c \in Claims : WF_vars(Retry(c))

Spec == Init /\ [][Next]_vars /\ Fairness

-----------------------------------------------------------------------------
(* Properties                                                              *)

\* Two claims whose names the driver cannot tell apart: the calls of one lack a
\* key, or "--" in a namespace moves the border between the two parts.
Ambiguous(c, d) ==
    /\ TenantName(c) = TenantName(d)
    /\ \/ Unnamed(params[c]) \/ Unnamed(params[d])
       \/ HasSeparator(PvcInfo(params[c]).ns) \/ HasSeparator(PvcInfo(params[d]).ns)

\* Calls that overlap, are repeated, cut by a restart or end late, a deletion
\* that runs after the claim was made again included, leave a bound claim with
\* its volume, and no second tenant of its name.
OneVolumePerClaim ==
    \A c \in Claims :
        /\ claim[c] = "bound"
        /\ \A d \in Claims \ {c} : ~Ambiguous(c, d)
        => NamedTenants(TenantName(c)) = {bound[c]}

\* Claims never share a volume, except where the driver cannot tell their names apart.
VolumesSeparate ==
    \A c, d \in Claims :
        c # d /\ bound[c] # NoTenant /\ bound[c] = bound[d] => Ambiguous(c, d)

\* create_snapshot of a bound volume is answered with a snapshot, unless there is
\* one of that name: "Creates a new layer on top of current layer".
SnapshotsAccepted ==
    \A c \in Claims :
        /\ claim[c] = "bound" /\ waiting[c] # None /\ ~snap[bound[c]]
        /\ pc[waiting[c]] = "answer"
        => vol[waiting[c]] = bound[c]

\* With finitely many timeouts and restarts, a claim gets its volume in the end,
\* whatever statement a call was cut after and whoever opened the tenant early.
ClaimProvisioned == \A c \in Claims : claim[c] = "wanted" ~> claim[c] = "bound"
==============================================================================
