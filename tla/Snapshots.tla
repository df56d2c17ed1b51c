------------------------------ MODULE Snapshots ------------------------------
(***************************************************************************)
(* Snapshots, restores and clones of the controller (pkg/driver/           *)
(* controller.go and detached.go): what requests do to the ZFS objects     *)
(* that depend on each other.                                              *)
(*                                                                         *)
(* A regular snapshot is a ZFS snapshot of its volume, a regular copy a    *)
(* clone of a ZFS snapshot.  A detached snapshot or copy is a dataset that *)
(* a replication job of TrueNAS received; the job runs on when nobody      *)
(* waits for it any more.  The protocol objects of a copy and its size are *)
(* the subject of Provisioning.                                            *)
(*                                                                         *)
(* Steps and faults are those of Provisioning: a step is an API call that  *)
(* works, fails, or is executed while its caller is told it failed; a      *)
(* request may run out of time, its answer may be lost, the controller may *)
(* crash.  The container orchestrator (CO) gives every object a name of    *)
(* its own and has one request in flight per object.                       *)
(***************************************************************************)
EXTENDS Integers

CONSTANTS
    Origins,    \* volumes that are there from the start
    Copies,     \* volumes to be made from a snapshot or a volume
    Snaps,      \* CSI snapshots to be taken
    Detachable, \* the objects whose class may ask for the detached mode
    Protected,  \* whether the CO keeps what something is being made from
    None,
    MaxFaults   \* bound: failed calls and jobs, lost answers, deadlines, crashes

Volumes == Origins \cup Copies
Objects == Volumes \cup Snaps

\* ZFS snapshots by dataset and name.  Names are those of CSI snapshots, of
\* the clone of a volume (with the time of the attempt), and of the temporary
\* snapshots of the detached mode.
SnapIDs == [on : Objects, kind : {"csi", "clone", "temp"}, of : Objects, nth : Nat]

ASSUME SnapshotsAssumption ==
    /\ Origins \cap Copies = {} /\ Volumes \cap Snaps = {}
    /\ Detachable \subseteq Copies \cup Snaps
    /\ None \notin Objects /\ None \notin SnapIDs
    /\ Protected \in BOOLEAN
    /\ MaxFaults \in Nat

VARIABLES
    \* TrueNAS
    ds,        \* the dataset of a volume or detached snapshot
    marked,    \* the datasets with the detached_snapshot property
    zfs,       \* the ZFS snapshots
    managed,   \* those with the managed-snapshot property
    deferred,  \* those to be destroyed with their last clone
    origin,    \* the ZFS snapshot a dataset is a clone of
    job,       \* the replication job that writes a dataset
    \* the request in flight for an object
    pc,
    snap,      \* the ZFS snapshot it works from
    failed,    \* an error that is returned once the clean-up is done
    ctxDone,
    \* the CO
    want, told, source, detached,
    faults

storeVars == <<ds, marked, zfs, managed, deferred, origin, job>>
reqVars   == <<pc, snap, failed, ctxDone>>
coVars    == <<want, told, source, detached>>
vars      == <<storeVars, reqVars, coVars, faults>>

Snapshot(d, k, o, n) == [on |-> d, kind |-> k, of |-> o, nth |-> n]

SnapshotID(s) == Snapshot(source[s], "csi", s, 0)

\* The same name on another dataset
OnTarget(z, d) == [z EXCEPT !.on = d]

Init ==
    /\ ds = [o \in Objects |-> IF o \in Origins THEN "whole" ELSE "none"]
    /\ marked = {} /\ zfs = {} /\ managed = {} /\ deferred = {}
    /\ origin = [o \in Objects |-> None]
    /\ job = [o \in Objects |-> [state |-> "none", from |-> None]]
    /\ pc = [o \in Objects |-> "idle"]
    /\ snap = [o \in Objects |-> None]
    /\ failed = [o \in Objects |-> FALSE]
    /\ ctxDone = [o \in Objects |-> FALSE]
    /\ want = [o \in Objects |-> IF o \in Origins THEN "create" ELSE "none"]
    /\ told = [o \in Objects |-> IF o \in Origins THEN "created" ELSE "none"]
    /\ source = [o \in Objects |-> None]
    /\ detached = [o \in Objects |-> FALSE]
    /\ faults = 0

-----------------------------------------------------------------------------
(***************************************************************************)
(* How a call ends                                                         *)
(***************************************************************************)

Works(o)   == ~ctxDone[o] /\ UNCHANGED faults
Fault      == faults < MaxFaults /\ faults' = faults + 1
Errs(o)    == (ctxDone[o] /\ UNCHANGED faults) \/ Fault
Dropped(o) == ~ctxDone[o] /\ Fault

(***************************************************************************)
(* What TrueNAS does                                                       *)
(***************************************************************************)

Clones(z)    == {o \in Objects : origin[o] = z}
Receiving(d) == job[d].state = "running"
Sending(z)   == \E o \in Objects : Receiving(o) /\ job[o].from = z

\* zfs.snapshot.create, with or without properties
CanSnapshot(z) == ds[z.on] # "none" /\ z \notin zfs

TakeSnapshot(z, props) ==
    /\ zfs' = zfs \cup {z}
    /\ managed' = IF props THEN managed \cup {z} ELSE managed
    /\ UNCHANGED <<ds, marked, deferred, origin, job>>

\* MUTANT of client_DeleteSnapshot: without the defer option a snapshot with
\* a clone is not deleted, now or later.
client_DeleteSnapshotNow(z) ==
    /\ ~Sending(z)
    /\ LET gone == IF Clones(z) = {} THEN {z} ELSE {}
       IN  zfs' = zfs \ gone /\ managed' = managed \ gone
    /\ UNCHANGED <<ds, marked, deferred, origin, job>>

\* The client's DeleteSnapshot asks for a deferred deletion: a snapshot that
\* has a clone goes with the clone.  One that is being sent is busy.
client_DeleteSnapshot(z) ==
    /\ ~Sending(z)
    /\ LET gone == IF Clones(z) = {} THEN {z} ELSE {}
       IN  /\ zfs' = zfs \ gone /\ managed' = managed \ gone
           /\ deferred' = (deferred \cup ({z} \cap zfs)) \ gone
    /\ UNCHANGED <<ds, marked, origin, job>>

\* zfs.snapshot.clone; the dataset of that name must not exist
CanClone(z, d) == z \in zfs /\ ds[d] = "none"

MakeClone(z, d) ==
    /\ ds' = [ds EXCEPT ![d] = "whole"]
    /\ origin' = [origin EXCEPT ![d] = z]
    /\ UNCHANGED <<marked, zfs, managed, deferred, job>>

\* pool.dataset.delete, recursive: refused while a snapshot of the dataset
\* has clones or is being sent, and while the dataset is being received.
Busy(d) == \/ Receiving(d)
           \/ \E z \in zfs : z.on = d /\ (Clones(z) # {} \/ Sending(z))

Destroy(d) ==
    LET gone == {z \in zfs : z.on = d} \cup {z \in deferred : Clones(z) = {d}}
    IN  /\ ds' = [ds EXCEPT ![d] = "none"]
        /\ marked' = marked \ {d}
        /\ zfs' = zfs \ gone /\ managed' = managed \ gone
        /\ deferred' = deferred \ gone
        /\ origin' = [origin EXCEPT ![d] = None]
        /\ job' = [job EXCEPT ![d] = [state |-> "none", from |-> None]]

\* replication.run_onetime starts a job that creates the target dataset
CanReplicate(z, d) == z \in zfs /\ ds[d] = "none"

Replicate(z, d) ==
    /\ ds' = [ds EXCEPT ![d] = "partial"]
    /\ job' = [job EXCEPT ![d] = [state |-> "running", from |-> z]]
    /\ UNCHANGED <<marked, zfs, managed, deferred, origin>>

\* The job ends, with the received snapshot on the target, or it fails and
\* leaves what it wrote so far.
JobDone(d) ==
    /\ Receiving(d)
    /\ ds' = [ds EXCEPT ![d] = "whole"]
    /\ zfs' = zfs \cup {OnTarget(job[d].from, d)}
    /\ job' = [job EXCEPT ![d].state = "success"]
    /\ UNCHANGED <<marked, managed, deferred, origin, reqVars, coVars, faults>>

JobFails(d) ==
    /\ Receiving(d) /\ Fault
    /\ job' = [job EXCEPT ![d].state = "failed"]
    /\ UNCHANGED <<ds, marked, zfs, managed, deferred, origin, reqVars, coVars>>

-----------------------------------------------------------------------------
(***************************************************************************)
(* Progress of a request                                                   *)
(***************************************************************************)

Goto(o, p) ==
    /\ pc' = [pc EXCEPT ![o] = p]
    /\ UNCHANGED <<snap, failed, ctxDone, coVars>>

\* On to p, working from the snapshot z
GotoWith(o, p, z) ==
    /\ pc' = [pc EXCEPT ![o] = p]
    /\ snap' = [snap EXCEPT ![o] = z]
    /\ UNCHANGED <<failed, ctxDone, coVars>>

\* On to p, with an error to return unless there is one already
GotoErr(o, p, e) ==
    /\ pc' = [pc EXCEPT ![o] = p]
    /\ failed' = [failed EXCEPT ![o] = @ \/ e]
    /\ UNCHANGED <<snap, ctxDone, coVars>>

Return(o) ==
    /\ pc' = [pc EXCEPT ![o] = "idle"]
    /\ snap' = [snap EXCEPT ![o] = None]
    /\ failed' = [failed EXCEPT ![o] = FALSE]
    /\ ctxDone' = [ctxDone EXCEPT ![o] = FALSE]

\* An error is returned.
Fail(o) == Return(o) /\ UNCHANGED coVars

\* Success is returned.  The answer of a request that ran out of time is lost.
Tell(o, answer) ==
    /\ Return(o)
    /\ told' = IF ctxDone[o] THEN told ELSE [told EXCEPT ![o] = answer]
    /\ UNCHANGED <<want, source, detached>>

Expire(o) ==
    /\ pc[o] # "idle" /\ ~ctxDone[o] /\ Fault
    /\ ctxDone' = [ctxDone EXCEPT ![o] = TRUE]
    /\ UNCHANGED <<storeVars, pc, snap, failed, coVars>>

\* The controller restarts; TrueNAS and its jobs go on.
Crash ==
    /\ \E o \in Objects : pc[o] # "idle"
    /\ Fault
    /\ pc' = [o \in Objects |-> "idle"]
    /\ snap' = [o \in Objects |-> None]
    /\ failed' = [o \in Objects |-> FALSE]
    /\ ctxDone' = [o \in Objects |-> FALSE]
    /\ UNCHANGED <<storeVars, coVars>>

-----------------------------------------------------------------------------
(***************************************************************************)
(* The container orchestrator                                              *)
(***************************************************************************)

InUse(o) == want[o] = "create" /\ told[o] = "created"

\* A snapshot of a volume is asked for, or a volume made from a volume or a
\* snapshot; a detached snapshot can only be restored to a detached volume.
Want(o) ==
    /\ o \in Copies \cup Snaps /\ want[o] = "none"
    /\ \E x \in IF o \in Snaps THEN Volumes ELSE Objects, mode \in BOOLEAN :
         /\ InUse(x)
         /\ mode => o \in Detachable
         /\ x \in Snaps /\ detached[x] => mode
         /\ source' = [source EXCEPT ![o] = x]
         /\ detached' = [detached EXCEPT ![o] = mode]
    /\ want' = [want EXCEPT ![o] = "create"]
    /\ UNCHANGED <<storeVars, reqVars, told, faults>>

\* An object that was reported is no longer wanted.
Unwant(o) ==
    /\ InUse(o)
    /\ Protected => \A x \in Objects :
                      source[x] = o /\ want[x] = "create" => told[x] = "created"
    /\ want' = [want EXCEPT ![o] = "delete"]
    /\ UNCHANGED <<storeVars, reqVars, told, source, detached, faults>>

\* The CO calls, and calls again until it has an answer.
Call(o) ==
    /\ pc[o] = "idle"
    /\ \/ /\ want[o] = "create" /\ told[o] = "none"
          /\ Goto(o, IF o \in Snaps THEN "sInfo" ELSE "cGet")
       \/ /\ want[o] = "delete" /\ told[o] = "created"
          /\ Goto(o, IF o \in Volumes THEN "dGet"
                     ELSE IF detached[o] THEN "rGet" ELSE "rSnap")
    /\ UNCHANGED <<storeVars, faults>>

-----------------------------------------------------------------------------
(***************************************************************************)
(* CreateSnapshot                                                          *)
(***************************************************************************)

\* GetVolumeInfo, with a context of its own
GetVolumeInfo(o, p, next) ==
    /\ pc[o] = p
    /\ \/ UNCHANGED faults /\ ds[source[o]] # "none" /\ next
       \/ UNCHANGED faults /\ ds[source[o]] = "none" /\ Fail(o)
       \/ Fault /\ Fail(o)
    /\ UNCHANGED storeVars

\* FindSnapshotByName.  A regular snapshot of that name on the same volume is
\* what was asked for, any other is in the way; an error counts as "none".
\* For a detached snapshot any is in the way, and an error is returned.
FindSnapshot(s) ==
    LET found == {z \in zfs : z.kind = "csi" /\ z.of = s}
    IN  /\ pc[s] = "sFind"
        /\ \/ /\ Works(s) /\ found = {}
              /\ Goto(s, IF detached[s] THEN "xFind" ELSE "sMake")
           \/ /\ Works(s) /\ \E z \in found :
                   IF z = SnapshotID(s) /\ ~detached[s] THEN Tell(s, "created") ELSE Fail(s)
           \/ /\ Errs(s)
              /\ IF detached[s] THEN Fail(s) ELSE Goto(s, "sMake")
        /\ UNCHANGED storeVars

\* MUTANT of MakeSnapshot: the snapshot is not marked as one of the driver's.
MakeSnapshotUnmanaged(s) ==
    LET z == SnapshotID(s)
    IN  /\ pc[s] = "sMake"
        /\ \/ Works(s) /\ CanSnapshot(z) /\ TakeSnapshot(z, FALSE) /\ Tell(s, "created")
           \/ (Errs(s) \/ (Works(s) /\ ~CanSnapshot(z))) /\ Fail(s) /\ UNCHANGED storeVars
           \/ Dropped(s) /\ CanSnapshot(z) /\ TakeSnapshot(z, FALSE) /\ Fail(s)

\* CreateSnapshotWithProperties
MakeSnapshot(s) ==
    LET z == SnapshotID(s)
    IN  /\ pc[s] = "sMake"
        /\ \/ Works(s) /\ CanSnapshot(z) /\ TakeSnapshot(z, TRUE) /\ Tell(s, "created")
           \/ (Errs(s) \/ (Works(s) /\ ~CanSnapshot(z))) /\ Fail(s) /\ UNCHANGED storeVars
           \/ Dropped(s) /\ CanSnapshot(z) /\ TakeSnapshot(z, TRUE) /\ Fail(s)

(***************************************************************************)
(* The detached mode                                                       *)
(***************************************************************************)

\* MUTANT of FindDetached: a snapshot of that name is in the way.
FindDetachedStrict(s) ==
    /\ pc[s] = "xFind"
    /\ \/ Works(s) /\ s \in marked /\ Fail(s)
       \/ Works(s) /\ s \notin marked /\ Goto(s, "xGet")
       \/ Errs(s) /\ Fail(s)
    /\ UNCHANGED storeVars

\* findDetachedSnapshotByName: a marked dataset of that name
FindDetached(s) ==
    /\ pc[s] = "xFind"
    /\ \/ Works(s) /\ s \in marked /\ Tell(s, "created")
       \/ Works(s) /\ s \notin marked /\ Goto(s, "xGet")
       \/ Errs(s) /\ Fail(s)
    /\ UNCHANGED storeVars

\* MUTANT of GetTarget: an unmarked dataset at the target is adopted.
GetTargetAdopts(s) ==
    /\ pc[s] = "xGet"
    /\ \/ Works(s) /\ ds[s] # "none" /\ Goto(s, "xMark")
       \/ Works(s) /\ ds[s] = "none" /\ Goto(s, "xParent")
       \/ Errs(s) /\ Fail(s)
    /\ UNCHANGED storeVars

\* GetDataset of the target: an unmarked dataset there is a collision.
GetTarget(s) ==
    /\ pc[s] = "xGet"
    /\ \/ Works(s) /\ ds[s] # "none" /\ IF s \in marked THEN Tell(s, "created") ELSE Fail(s)
       \/ Works(s) /\ ds[s] = "none" /\ Goto(s, "xParent")
       \/ Errs(s) /\ Fail(s)
    /\ UNCHANGED storeVars

\* ensureDataset for the parents of the target, which is idempotent.  The
\* parents hold nothing and are not modelled.
ensureDataset(o, p, q) ==
    /\ pc[o] = p
    /\ (Works(o) /\ Goto(o, q)) \/ (Errs(o) /\ Fail(o))
    /\ UNCHANGED storeVars

\* The temporary snapshot that is replicated: of the volume, named after the
\* new object, or of the dataset of a detached snapshot, named after the
\* volume that one was taken of.
TempSnapshot(o) ==
    LET x == source[o]
    IN  IF x \in Volumes THEN Snapshot(x, "temp", o, 0)
        ELSE Snapshot(x, "temp", source[x], 0)

\* One that is there already will do.
createTemporarySnapshot(o) ==
    LET z == TempSnapshot(o)
    IN  /\ pc[o] = "xTemp"
        /\ \/ Works(o) /\ CanSnapshot(z) /\ TakeSnapshot(z, FALSE) /\ GotoWith(o, "tParent", z)
           \/ Works(o) /\ z \in zfs /\ GotoWith(o, "tParent", z) /\ UNCHANGED storeVars
           \/ /\ Errs(o) \/ (Works(o) /\ ds[z.on] = "none")
              /\ Fail(o) /\ UNCHANGED storeVars
           \/ Dropped(o) /\ CanSnapshot(z) /\ TakeSnapshot(z, FALSE) /\ Fail(o)

\* transferDetachedSnapshot.  A target that exists is taken for received.
TransferGet(o) ==
    /\ pc[o] = "tGet"
    /\ \/ Works(o) /\ ds[o] = "none" /\ Goto(o, "tRun")
       \/ Works(o) /\ ds[o] # "none" /\ Goto(o, "tDropTarget")
       \/ Errs(o) /\ GotoErr(o, "tDropTarget", TRUE)
    /\ UNCHANGED storeVars

\* RunReplicationOnetime; with nothing to send the job fails.
RunReplicationOnetime(o) ==
    /\ pc[o] = "tRun"
    /\ \/ Works(o) /\ CanReplicate(snap[o], o) /\ Replicate(snap[o], o) /\ Goto(o, "tWait")
       \/ /\ Errs(o) \/ (Works(o) /\ ~CanReplicate(snap[o], o))
          /\ GotoErr(o, "tDropTarget", TRUE) /\ UNCHANGED storeVars
       \/ /\ Dropped(o) /\ CanReplicate(snap[o], o) /\ Replicate(snap[o], o)
          /\ GotoErr(o, "tDropTarget", TRUE)

\* MUTANT of WaitForJob: a job that ended is taken for one that succeeded.
WaitForJobAny(o) ==
    /\ pc[o] = "tWait"
    /\ \/ Works(o) /\ ~Receiving(o) /\ Goto(o, "tDropTarget")
       \/ Errs(o) /\ GotoErr(o, "tDropTarget", TRUE)
    /\ UNCHANGED storeVars

\* The job is asked about until it ended, or until asking fails.
WaitForJob(o) ==
    /\ pc[o] = "tWait"
    /\ \/ Works(o) /\ ~Receiving(o) /\ GotoErr(o, "tDropTarget", job[o].state # "success")
       \/ Errs(o) /\ GotoErr(o, "tDropTarget", TRUE)
    /\ UNCHANGED storeVars

\* deleteSnapshotIfPresent, after which the request goes on or, when an error
\* is pending, ends.
DeleteIfPresent(o, p, z, ok, err) ==
    /\ pc[o] = p
    /\ \/ Works(o) /\ client_DeleteSnapshot(z) /\ ok
       \/ (Errs(o) \/ (Works(o) /\ Sending(z))) /\ err /\ UNCHANGED storeVars
       \/ Dropped(o) /\ client_DeleteSnapshot(z) /\ err

Transferred(o, e) ==
    IF failed[o] \/ e THEN Fail(o)
    ELSE Goto(o, IF o \in Snaps THEN "xMark" ELSE "cFinish")

\* The received snapshot is removed whatever became of the transfer, then the
\* source snapshot if it was a temporary one.
DropTarget(o) ==
    LET next(e) == IF snap[o].kind = "temp" THEN GotoErr(o, "tDropSource", e)
                   ELSE Transferred(o, e)
    IN  DeleteIfPresent(o, "tDropTarget", OnTarget(snap[o], o), next(FALSE), next(TRUE))

\* MUTANT of DropSource: the temporary snapshot stays.
DropSourceNot(o) ==
    /\ pc[o] = "tDropSource" /\ Transferred(o, FALSE)
    /\ UNCHANGED <<storeVars, faults>>

DropSource(o) ==
    DeleteIfPresent(o, "tDropSource", snap[o], Transferred(o, FALSE), Transferred(o, TRUE))

\* The detached_snapshot property makes the dataset a snapshot.
markDetachedSnapshot(s) ==
    LET Mark == marked' = marked \cup {s}
                /\ UNCHANGED <<ds, zfs, managed, deferred, origin, job>>
    IN  /\ pc[s] = "xMark"
        /\ \/ Works(s) /\ Mark /\ Tell(s, "created")
           \/ Errs(s) /\ Fail(s) /\ UNCHANGED storeVars
           \/ Dropped(s) /\ Mark /\ Fail(s)

-----------------------------------------------------------------------------
(***************************************************************************)
(* CreateVolume from a content source                                      *)
(***************************************************************************)

\* How the content is brought to the new volume: a restore or clone, regular
\* or detached.
CopyFrom(c) ==
    LET x == source[c]
    IN  IF x \in Volumes THEN Goto(c, "vInfo")
        ELSE IF ~detached[c] THEN GotoWith(c, "cClone", SnapshotID(x))
        ELSE IF ~detached[x] THEN GotoWith(c, "tParent", SnapshotID(x))
        ELSE Goto(c, "xSource")

\* GetDataset, of CreateVolume and again of createVolumeFromSource: a dataset
\* of that name is the volume; an error counts as "none".
CreateGet(c, p, next) ==
    /\ pc[c] = p
    /\ \/ Works(c) /\ ds[c] # "none" /\ Tell(c, "created")
       \/ (Errs(c) \/ (Works(c) /\ ds[c] = "none")) /\ next
    /\ UNCHANGED storeVars

\* cloneDetachedSnapshot looks at the source's dataset.
GetDetachedSource(c) ==
    /\ pc[c] = "xSource"
    /\ \/ Works(c) /\ source[c] \in marked /\ Goto(c, "xTemp")
       \/ (Errs(c) \/ (Works(c) /\ source[c] \notin marked)) /\ Fail(c)
    /\ UNCHANGED storeVars

\* The times that no snapshot for this copy has in its name
Unused(c) == {n \in 0..MaxFaults :
                \A z \in zfs : z.kind = "clone" /\ z.of = c => z.nth # n}

\* The snapshot that a regular clone of a volume is made from.  Its name has
\* the time in it, so that it is another one at every attempt.
SnapshotVolume(c) ==
    /\ pc[c] = "vSnap"
    /\ \E n \in Unused(c) :
         LET z == Snapshot(source[c], "clone", c, n)
         IN  /\ \A m \in Unused(c) : n <= m
             /\ \/ Works(c) /\ CanSnapshot(z) /\ TakeSnapshot(z, TRUE) /\ GotoWith(c, "cClone", z)
                \/ (Errs(c) \/ (Works(c) /\ ~CanSnapshot(z))) /\ Fail(c) /\ UNCHANGED storeVars
                \/ Dropped(c) /\ CanSnapshot(z) /\ TakeSnapshot(z, TRUE) /\ Fail(c)

\* CloneSnapshot, which also looks at the new dataset; the snapshot of a
\* volume is dropped afterwards, whether or not that worked.
CloneSnapshot(c) ==
    LET z == snap[c]
        next(e) == IF z.kind = "clone" THEN GotoErr(c, "vDrop", e)
                   ELSE IF e THEN Fail(c) ELSE Goto(c, "cFinish")
    IN  /\ pc[c] = "cClone"
        /\ \/ Works(c) /\ CanClone(z, c) /\ MakeClone(z, c) /\ next(FALSE)
           \/ (Errs(c) \/ (Works(c) /\ ~CanClone(z, c))) /\ next(TRUE) /\ UNCHANGED storeVars
           \/ Dropped(c) /\ CanClone(z, c) /\ MakeClone(z, c) /\ next(TRUE)

\* Its outcome is ignored.
DropCloneSource(c) ==
    LET next == IF failed[c] THEN Fail(c) ELSE Goto(c, "cFinish")
    IN  DeleteIfPresent(c, "vDrop", snap[c], next, next)

\* The rest of createVolumeFromSource.  Where the description or the protocol
\* objects fail the dataset is deleted again, where the resize fails it stays.
FinishCopy(c) ==
    /\ pc[c] = "cFinish"
    /\ \/ Works(c) /\ Tell(c, "created")
       \/ Errs(c) /\ (Fail(c) \/ Goto(c, "cUndo"))
    /\ UNCHANGED storeVars

\* DeleteDataset, whose outcome the rollback ignores
UndoCopy(c) ==
    /\ pc[c] = "cUndo"
    /\ \/ (Works(c) \/ Dropped(c)) /\ ~Busy(c) /\ Destroy(c)
       \/ (Errs(c) \/ (Works(c) /\ Busy(c))) /\ UNCHANGED storeVars
    /\ Fail(c)

-----------------------------------------------------------------------------
(***************************************************************************)
(* DeleteSnapshot and DeleteVolume                                         *)
(***************************************************************************)

\* MUTANT of DeleteRegular: a snapshot that is in use counts as deleted.
DeleteRegularBusy(s) ==
    DeleteIfPresent(s, "rSnap", SnapshotID(s), Tell(s, "deleted"), Tell(s, "deleted"))

\* A regular snapshot
DeleteRegular(s) ==
    DeleteIfPresent(s, "rSnap", SnapshotID(s), Tell(s, "deleted"), Fail(s))

\* GetDataset of a detached snapshot: what is not marked is not deleted.
GetDetached(s) ==
    /\ pc[s] = "rGet"
    /\ \/ Works(s) /\ ds[s] = "none" /\ Tell(s, "deleted")
       \/ Works(s) /\ ds[s] # "none" /\ IF s \in marked THEN Goto(s, "rDataset") ELSE Fail(s)
       \/ Errs(s) /\ Fail(s)
    /\ UNCHANGED storeVars

\* GetDataset
DeleteGet(v) ==
    /\ pc[v] = "dGet"
    /\ \/ Works(v) /\ ds[v] = "none" /\ Tell(v, "deleted")
       \/ Works(v) /\ ds[v] # "none" /\ Goto(v, "dList")
       \/ Errs(v) /\ Fail(v)
    /\ UNCHANGED storeVars

\* MUTANT of hasSourceDependentSnapshot: only the snapshots of clones count.
hasSourceDependentClone(v) == \E z \in zfs : z.on = v /\ z.kind = "clone"

hasSourceDependentSnapshot(v) ==
    \E z \in zfs : z.on = v /\ (z.kind = "clone" \/ z \in managed)

\* ListSnapshots: a volume with snapshots that depend on it is kept.  The
\* teardown of the protocol objects, which follows, is in Provisioning.
DeleteList(v) ==
    /\ pc[v] = "dList"
    /\ \/ Works(v) /\ ~hasSourceDependentSnapshot(v) /\ Goto(v, "dDataset")
       \/ (Errs(v) \/ (Works(v) /\ hasSourceDependentSnapshot(v))) /\ Fail(v)
    /\ UNCHANGED storeVars

\* The last step of both: the dataset with all that is in it
DeleteDataset(o) ==
    /\ pc[o] \in {"dDataset", "rDataset"}
    /\ \/ Works(o) /\ ~Busy(o) /\ Destroy(o) /\ Tell(o, "deleted")
       \/ (Errs(o) \/ (Works(o) /\ Busy(o))) /\ Fail(o) /\ UNCHANGED storeVars
       \/ Dropped(o) /\ ~Busy(o) /\ Destroy(o) /\ Fail(o)

-----------------------------------------------------------------------------
SnapshotStep(s) ==
    \/ GetVolumeInfo(s, "sInfo", Goto(s, "sFind")) \/ FindSnapshot(s) \/ MakeSnapshot(s)
    \/ FindDetached(s) \/ GetTarget(s) \/ ensureDataset(s, "xParent", "xTemp")
    \/ markDetachedSnapshot(s)
    \/ DeleteRegular(s) \/ GetDetached(s)

CopyStep(c) ==
    \/ CreateGet(c, "cGet", Goto(c, "cAgain")) \/ CreateGet(c, "cAgain", CopyFrom(c))
    \/ GetVolumeInfo(c, "vInfo", Goto(c, IF detached[c] THEN "xTemp" ELSE "vSnap"))
    \/ GetDetachedSource(c) \/ SnapshotVolume(c) \/ CloneSnapshot(c)
    \/ DropCloneSource(c) \/ FinishCopy(c) \/ UndoCopy(c)

\* transferDetachedSnapshot, for both
TransferStep(o) ==
    \/ createTemporarySnapshot(o) \/ ensureDataset(o, "tParent", "tGet")
    \/ TransferGet(o) \/ RunReplicationOnetime(o) \/ WaitForJob(o)
    \/ DropTarget(o) \/ DropSource(o)

DeleteStep(v) == DeleteGet(v) \/ DeleteList(v)

Step(o) ==
    \/ o \in Snaps /\ SnapshotStep(o)
    \/ o \in Copies /\ CopyStep(o)
    \/ o \in Copies \cup Snaps /\ TransferStep(o)
    \/ o \in Volumes /\ DeleteStep(o)
    \/ DeleteDataset(o)

Next ==
    \/ \E o \in Objects : \/ Want(o) \/ Unwant(o) \/ Call(o) \/ Step(o)
                          \/ JobDone(o) \/ JobFails(o) \/ Expire(o)
    \/ Crash

Spec == Init /\ [][Next]_vars

\* A handler runs on, a job ends, and the CO calls until it has an answer.
Fairness == \A o \in Objects : WF_vars(Step(o)) /\ WF_vars(JobDone(o)) /\ WF_vars(Call(o))

FairSpec == Spec /\ Fairness

-----------------------------------------------------------------------------
(***************************************************************************)
(* Properties                                                              *)
(***************************************************************************)

CreatePCs == {"sInfo", "sFind", "sMake", "xFind", "xGet", "xParent", "xTemp", "tParent",
              "tGet", "tRun", "tWait", "tDropTarget", "tDropSource", "xMark", "cGet",
              "cAgain", "xSource", "vInfo", "vSnap", "cClone", "vDrop", "cFinish", "cUndo"}
DeletePCs == {"rSnap", "rGet", "rDataset", "dGet", "dList", "dDataset"}

Jobs == [state : {"none", "running", "success", "failed"}, from : SnapIDs \cup {None}]

TypeStore ==
    /\ ds \in [Objects -> {"none", "partial", "whole"}]
    /\ marked \subseteq Objects
    /\ zfs \subseteq SnapIDs /\ managed \subseteq SnapIDs /\ deferred \subseteq SnapIDs
    /\ origin \in [Objects -> SnapIDs \cup {None}]
    /\ job \in [Objects -> Jobs]

TypeReq ==
    /\ pc \in [Objects -> {"idle"} \cup CreatePCs \cup DeletePCs]
    /\ snap \in [Objects -> SnapIDs \cup {None}]
    /\ failed \in [Objects -> BOOLEAN] /\ ctxDone \in [Objects -> BOOLEAN]

TypeCO ==
    /\ want \in [Objects -> {"none", "create", "delete"}]
    /\ told \in [Objects -> {"none", "created", "deleted"}]
    /\ source \in [Objects -> Objects \cup {None}]
    /\ detached \in [Objects -> BOOLEAN]

\* Every variable has its type.
TypeOK == TypeStore /\ TypeReq /\ TypeCO /\ faults \in Nat

\* What a CSI object is in TrueNAS
Live(o) ==
    IF o \in Volumes THEN ds[o] # "none"
    ELSE IF detached[o] THEN o \in marked
    ELSE SnapshotID(o) \in zfs \ deferred

\* A snapshot, restore or clone that the CO was told of is there until the CO
\* asks for its deletion, also when its source is deleted, a clone of it goes,
\* or another request fails and cleans up after itself.
AcknowledgedKept == \A o \in Objects : InUse(o) => Live(o)

\* What was reported deleted is gone, or goes with the last clone of it.
DeletedGone == \A o \in Objects : told[o] = "deleted" => ~Live(o)

\* A detached snapshot that the CO was told of is complete whatever failed on
\* the way, and so is a restore or clone, a detached one if nothing failed:
\* not even two restores at once from one detached snapshot, which share a
\* temporary snapshot, make an incomplete copy.
WholeWhenTold ==
    \A o \in Objects :
      /\ o \in marked => ds[o] = "whole"
      /\ InUse(o) /\ o \in Copies /\ (~detached[o] \/ faults = 0) => ds[o] = "whole"

\* A CSI snapshot, or what a clone was made from and goes with it
Settled(z) == \/ z.kind = "csi" /\ z = SnapshotID(z.of)
              \/ z \in deferred /\ Clones(z) # {}

\* "the temporary source and received snapshots are removed": when no call
\* failed and no request is in flight there are no ZFS snapshots but those of
\* CSI snapshots and those that clones are made from.
NoTempLeft ==
    faults = 0 /\ (\A o \in Objects : pc[o] = "idle") =>
      \A z \in zfs : Settled(z)

\* The controller keeps the promises of SnapshotCatalogue.
Catalogue == INSTANCE SnapshotCatalogue
               WITH Initial <- Origins, live <- {o \in Objects : Live(o)}

KeepsCatalogue == Catalogue!Spec

\* An unmarked dataset is where a detached snapshot is to be received: its
\* transfer is under way, or was cut off.
Blocked(o) == o \in Snaps /\ detached[o] /\ ds[o] # "none" /\ o \notin marked

\* With finitely many faults every snapshot and copy that is wanted is made,
\* a detached snapshot as well unless, after a fault, its target stays for
\* ever without its marker: every retry takes that for a collision.
CreatesConverge ==
    \A o \in Objects :
      want[o] = "create" ~> (told[o] # "none" \/ (faults > 0 /\ []Blocked(o)))

\* The snapshot of a volume for a clone that was not made or is gone
Leaked(z) == z.kind = "clone" /\ Clones(z) = {}

\* With finitely many faults a CO that wants everything gone gets rid of it,
\* in whatever order snapshots, their clones and their sources are asked for,
\* unless the snapshot of an attempt to clone was left behind.
DeletesConverge ==
    (\A o \in Objects : want[o] # "create") ~>
      \/ \A o \in Objects : want[o] = "delete" => told[o] = "deleted"
      \/ \E z \in zfs : Leaked(z)

(***************************************************************************)
(* The invariant that ties requests, ZFS objects and jobs together, for a  *)
(* CO that protects sources                                                *)
(***************************************************************************)

\* What an object is made from was there before it and is kept while it is
\* being made.
Sources(o) ==
    /\ o \in Origins => source[o] = None /\ told[o] # "none"
    /\ want[o] = "none" => source[o] = None /\ ~detached[o]
    /\ want[o] # "none" /\ o \in Copies => source[o] \in Objects
    /\ want[o] # "none" /\ o \in Snaps => source[o] \in Volumes
    /\ told[o] # "none" => want[o] # "none"
    /\ told[o] = "deleted" => want[o] = "delete"
    /\ want[o] = "delete" => told[o] # "none"
    /\ source[o] # None =>
         /\ told[source[o]] # "none" /\ source[source[o]] # o
         /\ want[o] = "create" /\ told[o] = "none" => want[source[o]] = "create"

RegularPCs  == {"sMake", "vSnap", "cClone", "vDrop", "rSnap"}
DetachedPCs == {"xFind", "xGet", "xParent", "xTemp", "tParent", "tGet", "tRun", "tWait",
                "tDropTarget", "tDropSource", "xMark", "xSource", "rGet", "rDataset"}
SnapPCs     == {"sInfo", "sFind", "sMake", "xFind", "xGet", "xParent", "xMark", "rSnap",
                "rGet", "rDataset"}
CopyPCs     == {"cGet", "cAgain", "xSource", "vInfo", "vSnap", "cClone", "vDrop",
                "cFinish", "cUndo"}
TransferPCs == {"tParent", "tGet", "tRun", "tWait", "tDropTarget", "tDropSource"}

\* The request in flight is one that the CO waits for.
Phase(o) ==
    /\ ctxDone[o] => faults > 0
    /\ pc[o] \in CreatePCs => want[o] = "create" /\ told[o] = "none"
    /\ pc[o] \in DeletePCs => want[o] = "delete" /\ told[o] = "created"
    /\ pc[o] \in SnapPCs => o \in Snaps
    /\ pc[o] \in CopyPCs => o \in Copies
    /\ pc[o] \in {"dGet", "dList", "dDataset"} => o \in Volumes
    /\ pc[o] \in RegularPCs => ~detached[o]
    /\ pc[o] \in DetachedPCs => detached[o]

\* What is sent to o: a temporary snapshot, or the CSI snapshot it is made of
SentTo(z, o) == z \in SnapIDs /\ (z.kind = "temp" \/ z = SnapshotID(source[o]))

Works_from(o) ==
    /\ pc[o] \in TransferPCs => SentTo(snap[o], o)
    /\ pc[o] \in {"cClone", "vDrop"} => snap[o] \in SnapIDs
    /\ pc[o] = "vDrop" => snap[o].kind = "clone"
    /\ pc[o] = "tDropSource" => snap[o].kind = "temp"
    /\ job[o].state # "none" => SentTo(job[o].from, o)

\* ZFS snapshots with the name of a CSI snapshot
Named ==
    /\ managed \subseteq zfs /\ deferred \subseteq zfs
    /\ \A z \in zfs : z.kind = "csi" =>
         \/ z.of \in Snaps /\ z = SnapshotID(z.of) /\ z \in managed /\ ~detached[z.of]
         \/ source[z.on] = z.of
    /\ \A s \in Snaps : ~detached[s] /\ SnapshotID(s) \in deferred => want[s] = "delete"

\* As long as nothing failed, a ZFS snapshot that is not a CSI snapshot waits
\* for its last clone to go or is known to a request that will delete it: as
\* what it sends or clones, or as what it receives.
Owns(o, z) ==
    \/ pc[o] \in TransferPCs /\ snap[o] = z /\ z.kind = "temp"
    \/ pc[o] \in {"tWait", "tDropTarget"} /\ z = OnTarget(snap[o], o)
    \/ pc[o] \in {"cClone", "vDrop"} /\ snap[o] = z /\ z.kind = "clone"

Owned == faults = 0 => \A z \in zfs : Settled(z) \/ \E o \in Objects : Owns(o, z)

\* What of a transfer has arrived
Received(o) ==
    /\ o \in marked => o \in Snaps /\ detached[o] /\ ds[o] = "whole"
    /\ job[o].state = "running" => ds[o] = "partial"
    /\ job[o].state = "success" => ds[o] = "whole"
    /\ job[o].state = "failed" => faults > 0
    /\ pc[o] = "tWait" => job[o].state # "none" /\ job[o].from = snap[o]
    /\ job[o].state = "running" /\ faults = 0 => pc[o] = "tWait"
    /\ ds[o] = "none" => origin[o] = None
    /\ pc[o] \in {"tDropTarget", "tDropSource", "vDrop"} /\ ~failed[o] => ds[o] # "none"
    /\ pc[o] = "cFinish" => ds[o] # "none"
    /\ o \in Snaps =>
         /\ pc[o] \in {"xParent", "xTemp", "tParent", "tGet", "tRun"} => ds[o] = "none"
         /\ pc[o] \in {"tDropTarget", "tDropSource"} /\ ~failed[o] => ds[o] = "whole"
         /\ pc[o] = "xMark" => ds[o] = "whole"
    /\ o \in Copies /\ ds[o] = "partial" =>
         detached[o] /\ (faults = 0 => pc[o] = "tWait" /\ job[o].state = "running")

\* DeleteVolume does not get to the dataset of a volume that has snapshots.
Unneeded(o) ==
    pc[o] = "dDataset" =>
      \A s \in Snaps : source[s] = o /\ ~detached[s] => SnapshotID(s) \notin zfs

Reported(o) == (InUse(o) => Live(o)) /\ (told[o] = "deleted" => ~Live(o))

ObjectInv(o) == /\ Sources(o) /\ Phase(o) /\ Works_from(o) /\ Received(o)
                /\ Unneeded(o) /\ Reported(o)

SnapshotsInv == TypeOK /\ Named /\ Owned /\ \A o \in Objects : ObjectInv(o)

(***************************************************************************)
(* What the documentation says, and a transfer that is cut off refutes     *)
(***************************************************************************)

\* The driver "transfers only the requested temporary snapshot, waits for
\* completion" (docs/detached-snapshots.md:57): a detached volume that was
\* reported created is complete.
WaitsForCompletion == \A c \in Copies : InUse(c) => ds[c] = "whole"
=============================================================================
