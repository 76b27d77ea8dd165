------------------------------- MODULE CsiNode -------------------------------
(***************************************************************************)
(* The CSI node service: stage, publish, unpublish and unstage of          *)
(* src/csi/node.rs, the mount manager, and the `tarbox mount` processes it *)
(* spawns, with what they leave mounted at the staging and target paths.   *)
(*                                                                         *)
(* The kubelet (external) takes each volume through the calls in order,    *)
(* repeats one until it has an OK, and may give up on the way. Answers may *)
(* be lost, processes die, the driver restart and an unmount fail.         *)
(***************************************************************************)
EXTENDS Integers, Sequences, FiniteSets, SequencesExt

CONSTANTS Volumes,
          Named,        \* those with a tenant named like the volume id: the
                        \* process looks its --tenant up by name
          NoVolume,
          MaxVisits,    \* bound: times a volume comes to the node
          MaxMishaps    \* bound: lost answers, deaths, restarts, failed unmounts

ASSUME NodeAssumption ==
    /\ Named \subseteq Volumes /\ NoVolume \notin Volumes
    /\ MaxVisits \in Nat /\ MaxMishaps \in Nat

NoProc == 0
\* Each round spawns once, and once more after a restart.
ProcIds == 1..(MaxVisits + MaxMishaps)

VARIABLES
    handle,     \* active_mounts: the process of the handle, or NoProc
    lock,       \* the volume whose unmount holds the mutex, or NoVolume
    state,      \* the processes of each volume
    mounts,     \* what is mounted at the staging path, the topmost last
    binds,      \* bind mounts on top of each other at the target path
    phase,      \* what the kubelet is about to call for the volume
    visits, mishaps,
    survivors,  \* history: processes that outlived a driver
    lost        \* history: something of the volume is no longer accounted for

driver == <<handle, lock>>
os == <<state, mounts, binds>>
nodeVars == <<driver, os, phase, visits, mishaps, survivors, lost>>

NodeInit ==
    /\ handle = [v \in Volumes |-> NoProc]
    /\ lock = NoVolume
    /\ state = [v \in Volumes |-> [p \in ProcIds |-> "none"]]
    /\ mounts = [v \in Volumes |-> <<>>]
    /\ binds = [v \in Volumes |-> 0]
    /\ phase = [v \in Volumes |-> "away"]
    /\ visits = [v \in Volumes |-> 0]
    /\ mishaps = 0
    /\ survivors = [v \in Volumes |-> {}]
    /\ lost = [v \in Volumes |-> FALSE]

Alive(v) == {p \in ProcIds : state[v][p] \in {"starting", "serving"}}
Gone(v) == Alive(v) = {} /\ mounts[v] = <<>> /\ binds[v] = 0

\* The topmost mount has no process any more: the path cannot even be looked at.
Stale(v) == mounts[v] # <<>> /\ state[v][Last(mounts[v])] = "dead"

Mishap == mishaps < MaxMishaps /\ mishaps' = mishaps + 1

\* The kubelet goes on to `next` when the answer reaches it, else it calls again.
Answered(v, next) ==
    \/ phase' = [phase EXCEPT ![v] = next] /\ UNCHANGED mishaps
    \/ Mishap /\ UNCHANGED phase

-----------------------------------------------------------------------------
(* node_stage_volume: mount, under the mutex                               *)

AlreadyMountedNever(v) == FALSE

AlreadyMounted(v) == handle[v] # NoProc

Spawn(v, p) == [state EXCEPT ![v][p] = "starting"]

\* A volume with a handle is mounted, whatever became of the process. Else the
\* path is made, which fails below a stale mount, and a process spawned; nobody
\* looks whether it comes to serve.
Stage(v) ==
    /\ phase[v] = "stage" /\ lock = NoVolume
    /\ \/ AlreadyMounted(v) /\ Answered(v, "publish") /\ UNCHANGED <<handle, state>>
       \/ /\ ~AlreadyMounted(v) /\ ~Stale(v)
          /\ \E p \in ProcIds :
                /\ state[v][p] = "none" /\ \A q \in ProcIds : q < p => state[v][q] # "none"
                /\ state' = Spawn(v, p)
                /\ handle' = [handle EXCEPT ![v] = p]
          /\ Answered(v, "publish")
    /\ UNCHANGED <<lock, mounts, binds, visits, survivors, lost>>

-----------------------------------------------------------------------------
(* node_unstage_volume: unmount, under the mutex                           *)

HandleKept(v) == handle[v]

HandleRemoved(v) == NoProc

\* child.kill() and child.wait(), taken to succeed on a child of the driver's own.
KilledNone(v) == {}

Killed(v) == {handle[v]}

\* The handle is taken out first, the process killed and waited for.
Unstage(v) ==
    /\ phase[v] = "unstage" /\ lock = NoVolume
    /\ IF handle[v] = NoProc
       THEN Answered(v, "away") /\ UNCHANGED <<driver, state>>
       ELSE /\ handle' = [handle EXCEPT ![v] = HandleRemoved(v)]
            /\ state' = [state EXCEPT ![v] =
                   [p \in ProcIds |-> IF p \in Killed(v) THEN "dead" ELSE @[p]]]
            /\ lock' = v
            /\ UNCHANGED <<phase, mishaps>>
    /\ UNCHANGED <<mounts, binds, visits, survivors, lost>>

\* fusermount -u takes the topmost mount away. It fails when there is none, and
\* when it is in use: the error reaches the kubelet, and the handle is gone.
Fusermount(v) ==
    /\ lock = v
    /\ lock' = NoVolume
    /\ \/ /\ mounts[v] # <<>>
          /\ mounts' = [mounts EXCEPT ![v] = Front(@)]
          /\ Answered(v, "away")
          /\ UNCHANGED lost
       \/ mounts[v] = <<>> /\ UNCHANGED <<mounts, phase, mishaps, lost>>
       \/ /\ mounts[v] # <<>> /\ Mishap
          /\ lost' = [lost EXCEPT ![v] = TRUE]
          /\ UNCHANGED <<mounts, phase>>
    /\ UNCHANGED <<handle, state, binds, visits, survivors>>

-----------------------------------------------------------------------------
(* node_publish_volume, node_unpublish_volume                              *)

\* mount --bind of what is at the staging path: the volume, or the bare
\* directory below it. A repeated call binds once more. The calls for one volume
\* follow each other, as the kubelet makes them.
Publish(v) ==
    /\ phase[v] = "publish" /\ ~Stale(v)
    /\ binds' = [binds EXCEPT ![v] = @ + 1]
    /\ lost' = [lost EXCEPT ![v] = @ \/ binds[v] > 0]
    /\ Answered(v, "use")
    /\ UNCHANGED <<driver, state, mounts, visits, survivors>>

\* umount; its failure is logged and answered with OK.
Unpublish(v) ==
    /\ phase[v] = "unpublish"
    /\ \/ /\ binds[v] > 0
          /\ binds' = [binds EXCEPT ![v] = @ - 1]
          /\ Answered(v, "unstage")
          /\ UNCHANGED lost
       \/ binds[v] = 0 /\ Answered(v, "unstage") /\ UNCHANGED <<binds, lost>>
       \/ /\ binds[v] > 0 /\ Mishap
          /\ lost' = [lost EXCEPT ![v] = TRUE]
          /\ phase' = [phase EXCEPT ![v] = "unstage"]
          /\ UNCHANGED binds
    /\ UNCHANGED <<driver, state, mounts, visits, survivors>>

-----------------------------------------------------------------------------
(* The spawned process: get_tenant_id, TarboxBackend::new and fuse::mount  *)

TenantFound(v) == v \in Named

\* It ends when no tenant has the name, or the mount point cannot be seen.
Serve(v, p) ==
    /\ state[v][p] = "starting"
    /\ IF TenantFound(v) /\ ~Stale(v)
       THEN /\ state' = [state EXCEPT ![v][p] = "serving"]
            /\ mounts' = [mounts EXCEPT ![v] = Append(@, p)]
       ELSE state' = [state EXCEPT ![v][p] = "dead"] /\ UNCHANGED mounts
    /\ UNCHANGED <<driver, binds, phase, visits, mishaps, survivors, lost>>

Die(v, p) ==
    /\ p \in Alive(v) /\ Mishap
    /\ state' = [state EXCEPT ![v][p] = "dead"]
    /\ UNCHANGED <<driver, mounts, binds, phase, visits, survivors, lost>>

\* auto_unmount: a helper takes a dead mount away, at a time of its own.
AutoUnmount(v) ==
    /\ Stale(v)
    /\ mounts' = [mounts EXCEPT ![v] = Front(@)]
    /\ UNCHANGED <<driver, state, binds, phase, visits, mishaps, survivors, lost>>

-----------------------------------------------------------------------------
(* The driver's restart, with or without its children; the kubelet         *)

DriverRestart ==
    /\ Mishap
    /\ \E live \in BOOLEAN :
        /\ state' = [v \in Volumes |-> [p \in ProcIds |->
               IF p \in Alive(v) /\ ~live THEN "dead" ELSE state[v][p]]]
        /\ survivors' = [v \in Volumes |->
               IF live THEN survivors[v] \cup Alive(v) ELSE survivors[v]]
    /\ lost' = [v \in Volumes |-> lost[v] \/ handle[v] # NoProc \/ lock = v]
    /\ handle' = [v \in Volumes |-> NoProc]
    /\ lock' = NoVolume
    /\ UNCHANGED <<mounts, binds, phase, visits>>

Arrive(v) ==
    /\ phase[v] = "away" /\ visits[v] < MaxVisits
    /\ phase' = [phase EXCEPT ![v] = "stage"]
    /\ visits' = [visits EXCEPT ![v] = @ + 1]
    /\ lost' = [lost EXCEPT ![v] = @ /\ ~Gone(v)]
    /\ UNCHANGED <<driver, os, mishaps, survivors>>

\* The pod ends, or is given up before it started.
Leave(v) ==
    /\ phase[v] \in {"stage", "publish", "use"}
    /\ phase' = [phase EXCEPT ![v] = IF @ = "stage" THEN "unstage" ELSE "unpublish"]
    /\ UNCHANGED <<driver, os, visits, mishaps, survivors, lost>>

NodeDone == \A v \in Volumes : phase[v] = "away" /\ visits[v] = MaxVisits

NodeNext ==
    \/ \E v \in Volumes :
        \/ Stage(v)
        \/ Unstage(v)
        \/ Fusermount(v)
        \/ Publish(v)
        \/ Unpublish(v)
        \/ AutoUnmount(v)
        \/ Arrive(v)
        \/ Leave(v)
        \/ \E p \in ProcIds : Serve(v, p) \/ Die(v, p)
    \/ DriverRestart
    \/ NodeDone /\ UNCHANGED nodeVars

\* The kubelet repeats its call, and the mutex serves those who wait in turn;
\* a call that has it comes to its end.
NodeFairness ==
    \A v \in Volumes : SF_nodeVars(Unstage(v)) /\ WF_nodeVars(Fusermount(v))

NodeSpec == NodeInit /\ [][NodeNext]_nodeVars /\ NodeFairness

-----------------------------------------------------------------------------
(* Properties                                                              *)

\* However stage calls are repeated, abandoned and overtaken, every process that
\* runs is the one of the volume's handle, except those of an earlier driver: a
\* volume is never served by two processes of one driver.
OneProcessPerVolume ==
    \A v \in Volumes : Alive(v) \ survivors[v] \subseteq {handle[v]}

\* Once unstage was answered with OK, no process of this driver runs for the
\* volume; and nothing is mounted for it, unless the driver restarted while it
\* held the handle, an unmount of something in use failed, or a repeated publish
\* bound the target twice.
UnstagedMeansGone ==
    \A v \in Volumes : phase[v] = "away" =>
        /\ Alive(v) \subseteq survivors[v]
        /\ ~lost[v] => Gone(v)

\* With finitely many mishaps, unstage ends with OK, for a volume whose process
\* never came to serve too: the first call fails for want of a mount, and has
\* forgotten the handle when the next one comes.
UnstageEnds == \A v \in Volumes : phase[v] = "unstage" ~> phase[v] = "away"
==============================================================================
