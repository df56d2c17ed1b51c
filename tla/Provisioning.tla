---------------------------- MODULE Provisioning ----------------------------
(***************************************************************************)
(* The volumes of the controller (pkg/driver/controller.go): CreateVolume, *)
(* also from a source, ControllerExpandVolume, ControllerPublishVolume and *)
(* DeleteVolume.  The chain of TrueNAS objects behind a volume is built    *)
(* one API call at a time, rolled back when a call fails, repaired when    *)
(* the request is retried and torn down best-effort.  What a volume is     *)
(* copied from, and how, is in Snapshots.                                  *)
(*                                                                         *)
(* A step is one API call.  A call works, fails, or is executed while its  *)
(* caller is told it failed (the connection was lost, or client.Call sent  *)
(* a request twice and reports the second answer).  Once the request's     *)
(* context is done every further call of that request fails, the calls of  *)
(* a rollback included.  The controller may also crash between two calls.  *)
(* As CSI asks of it, the container orchestrator (CO) has one request in   *)
(* flight per volume.                                                      *)
(***************************************************************************)
EXTENDS Integers, Sequences

CONSTANTS
    Volumes,
    Class,      \* what StorageClass a volume has, by the chain it gets
    Scheduled,  \* the volumes whose StorageClass has a snapshot.schedule
    Cloned,     \* the volumes that have a content source
    SourceSize, \* and the size of that
    Sizes,      \* capacities that CreateVolume is asked for
    Grown,      \* capacities that ControllerExpandVolume is asked for
    MaxFaults   \* bound: failed calls, lost answers, deadlines and crashes

Classes == {"nfs", "iscsi", "chap", "nvmeof", "dhchap"}

ASSUME ProvisioningAssumption ==
    /\ Class \in [Volumes -> Classes]
    /\ Scheduled \subseteq Volumes /\ Cloned \subseteq Volumes
    /\ Sizes \subseteq Nat \ {0} /\ Grown \subseteq Nat \ {0}
    /\ SourceSize \in Nat \ {0} /\ \A n \in Sizes : SourceSize <= n
    /\ MaxFaults \in Nat

VARIABLES
    \* TrueNAS
    has,      \* the named objects that exist for a volume
    spare,    \* how many CHAP and initiator groups exist for it
    size,     \* the size of its dataset: volsize, or refquota (0: none)
    host,     \* the NVMe-oF host that the "dhchap" volumes share
    \* the request in flight for a volume
    pc, at, ids, req, ctxDone,
    \* the metrics' map of provisioned volumes
    tracked,
    \* what the CO wants and what it was told
    want, acked,
    promised, \* the largest capacity it was told the volume has
    context,  \* the last PublishContext it was given: all of it, or a part
    faults

storeVars == <<has, spare, size, host>>
reqVars   == <<pc, at, ids, req, ctxDone>>
coVars    == <<tracked, want, acked, promised, context>>
vars      == <<storeVars, reqVars, coVars, faults>>

Named   == {"dataset", "share", "target", "extent", "assoc", "subsys",
            "namespace", "portLink", "hostLink", "task"}
Unnamed == {"auth", "initiator"}

(***************************************************************************)
(* The objects each protocol creates, in order                             *)
(***************************************************************************)
createNFSVolume == <<"dataset", "share">>

createISCSIVolume(chap) ==
    IF chap THEN <<"dataset", "auth", "initiator", "target", "extent", "assoc">>
            ELSE <<"dataset", "target", "extent", "assoc">>

createNVMeOFVolume(dhchap) ==
    IF dhchap
    THEN <<"dataset", "subsys", "namespace", "portLink", "host", "hostLink">>
    ELSE <<"dataset", "subsys", "namespace", "portLink">>

ISCSI(v)  == Class[v] \in {"iscsi", "chap"}
NVMeOF(v) == Class[v] \in {"nvmeof", "dhchap"}

isZVOLProtocol(v) == ISCSI(v) \/ NVMeOF(v)

\* A clone gets its dataset from its source, and no CHAP group.
Chain(v) == IF ISCSI(v) THEN createISCSIVolume(Class[v] = "chap" /\ v \notin Cloned)
            ELSE IF NVMeOF(v) THEN createNVMeOFVolume(Class[v] = "dhchap")
            ELSE createNFSVolume

\* DeleteVolume's teardown, in the order of its calls, and the objects it
\* looks up by the volume's path.
DropOrder == <<"target", "extent", "hostLink", "portLink", "namespace",
               "subsys", "share", "task">>

ByPath == {"share", "task"}

ISCSIPCs  == {"qExtent", "qAssoc", "qTarget", "fixTarget", "linkTarget",
              "fixExtent", "fixAssoc"}
NVMeOFPCs == {"qNs", "qSubsys", "fixSubsys", "fixNs", "qPort", "fixPort",
              "fixHost", "qHostLink", "fixHostLink"}
EnsurePCs == ISCSIPCs \cup NVMeOFPCs
CreatePCs == {"cGet", "cAgain", "make", "fit", "task", "undo"} \cup EnsurePCs
UsePCs    == {"eInfo", "eUpdate", "pGet", "pInfo", "pProbe"}
DeletePCs == {"dGet", "dSnap", "dInfo", "drop", "gcQuery", "gcDrop", "dDataset"}

Init ==
    /\ has = [v \in Volumes |-> {}]
    /\ spare = [v \in Volumes |-> [k \in Unnamed |-> 0]]
    /\ size = [v \in Volumes |-> 0]
    /\ host = FALSE
    /\ pc = [v \in Volumes |-> "idle"]
    /\ at = [v \in Volumes |-> 0]
    /\ ids = [v \in Volumes |-> {}]
    /\ req = [v \in Volumes |-> 0]
    /\ ctxDone = [v \in Volumes |-> FALSE]
    /\ tracked = {}
    /\ want = [v \in Volumes |-> "create"]
    /\ acked = [v \in Volumes |-> "none"]
    /\ promised = [v \in Volumes |-> 0]
    /\ context = [v \in Volumes |-> "none"]
    /\ faults = 0

-----------------------------------------------------------------------------
(***************************************************************************)
(* How a call ends, and what TrueNAS does                                  *)
(***************************************************************************)

Works(v)   == ~ctxDone[v] /\ UNCHANGED faults
Fault      == faults < MaxFaults /\ faults' = faults + 1
Errs(v)    == (ctxDone[v] /\ UNCHANGED faults) \/ Fault
Dropped(v) == ~ctxDone[v] /\ Fault

\* Names are unique in TrueNAS, and a host that is gone cannot be linked.
Accepts(v, k) == k \notin has[v] /\ (k = "hostLink" => host)

Linked == \E w \in Volumes : "hostLink" \in has[w]

\* A cloned ZVOL has the size of its source, a cloned file system no quota.
NewSize(v) == IF v \notin Cloned THEN req[v]
              ELSE IF isZVOLProtocol(v) THEN SourceSize ELSE 0

Add(v, k) ==
    /\ has' = IF k \in Named THEN [has EXCEPT ![v] = @ \cup {k}] ELSE has
    /\ spare' = IF k \in Unnamed THEN [spare EXCEPT ![v][k] = @ + 1] ELSE spare
    /\ size' = IF k = "dataset" THEN [size EXCEPT ![v] = NewSize(v)] ELSE size
    /\ host' = (host \/ k = "host")

\* The objects that go when k is deleted: associations go with their target
\* or extent, what is attached to a dataset may go with it, and a subsystem
\* that has children stays.
Falls(v, k) ==
    IF k = "dataset" THEN {{k}, {k, "share", "extent", "assoc", "namespace", "task"}}
    ELSE IF k \in {"target", "extent"} THEN {{k, "assoc"}}
    ELSE IF k = "subsys" /\ has[v] \cap {"namespace", "portLink", "hostLink"} # {}
         THEN {{}}
    ELSE {{k}}

Remove(v, k) ==
    /\ \E gone \in Falls(v, k) : has' = [has EXCEPT ![v] = @ \ gone]
    /\ spare' = IF k \in Unnamed THEN [spare EXCEPT ![v][k] = @ - 1] ELSE spare
    /\ size' = IF k = "dataset" THEN [size EXCEPT ![v] = 0] ELSE size
    /\ UNCHANGED host

\* UpdateDataset, to the capacity that was asked for
Resize(v) == size' = [size EXCEPT ![v] = req[v]] /\ UNCHANGED <<has, spare, host>>

-----------------------------------------------------------------------------
(***************************************************************************)
(* Progress of a request                                                   *)
(***************************************************************************)

GotoAt(v, p, i) ==
    /\ pc' = [pc EXCEPT ![v] = p]
    /\ at' = [at EXCEPT ![v] = i]
    /\ UNCHANGED <<ids, req, ctxDone, coVars>>

Goto(v, p) == GotoAt(v, p, 0)

\* On to p, with the capacity n for the answer
GotoFor(v, p, n) ==
    /\ pc' = [pc EXCEPT ![v] = p]
    /\ at' = [at EXCEPT ![v] = 0]
    /\ req' = [req EXCEPT ![v] = n]
    /\ UNCHANGED <<ids, ctxDone, coVars>>

Return(v) ==
    /\ pc' = [pc EXCEPT ![v] = "idle"]
    /\ at' = [at EXCEPT ![v] = 0]
    /\ ids' = [ids EXCEPT ![v] = {}]
    /\ req' = [req EXCEPT ![v] = 0]
    /\ ctxDone' = [ctxDone EXCEPT ![v] = FALSE]

\* An error is returned.
Fail(v) == Return(v) /\ UNCHANGED coVars

\* RecordProvisionedVolume, and a CreateVolumeResponse with capacity n.
CreatedWith(v, n) ==
    /\ Return(v)
    /\ tracked' = tracked \cup {v}
    /\ acked' = [acked EXCEPT ![v] = "created"]
    /\ promised' = [promised EXCEPT ![v] = IF n > @ THEN n ELSE @]
    /\ UNCHANGED <<want, context>>

Created(v) == CreatedWith(v, req[v])

\* RemoveProvisionedVolume, and a DeleteVolumeResponse.
Deleted(v) ==
    /\ Return(v)
    /\ tracked' = tracked \ {v}
    /\ acked' = [acked EXCEPT ![v] = "deleted"]
    /\ UNCHANGED <<want, promised, context>>

\* The request's deadline passes, or its caller goes away.
Expire(v) ==
    /\ pc[v] # "idle" /\ ~ctxDone[v] /\ Fault
    /\ ctxDone' = [ctxDone EXCEPT ![v] = TRUE]
    /\ UNCHANGED <<storeVars, pc, at, ids, req, coVars>>

\* The controller restarts: requests and metrics are gone, TrueNAS is not.
Crash ==
    /\ \E v \in Volumes : pc[v] # "idle"
    /\ Fault
    /\ pc' = [v \in Volumes |-> "idle"]
    /\ at' = [v \in Volumes |-> 0]
    /\ ids' = [v \in Volumes |-> {}]
    /\ req' = [v \in Volumes |-> 0]
    /\ ctxDone' = [v \in Volumes |-> FALSE]
    /\ tracked' = {}
    /\ UNCHANGED <<storeVars, want, acked, promised, context>>

-----------------------------------------------------------------------------
(***************************************************************************)
(* CreateVolume                                                            *)
(***************************************************************************)

CreateVolume(v) ==
    /\ pc[v] = "idle" /\ want[v] = "create"
    /\ \E n \in Sizes : req' = [req EXCEPT ![v] = n]
    /\ pc' = [pc EXCEPT ![v] = "cGet"]
    /\ UNCHANGED <<storeVars, at, ids, ctxDone, coVars, faults>>

\* The dataset is there: its chain is repaired, that of an NFS volume taken
\* as it is, and n answered as its capacity.
Adopt(v, n) == IF ISCSI(v) THEN GotoFor(v, "qExtent", n)
               ELSE IF NVMeOF(v) THEN GotoFor(v, "qNs", n) ELSE CreatedWith(v, n)

\* What is not there yet
Absent(v) == IF v \in Cloned THEN Goto(v, "cAgain") ELSE GotoAt(v, "make", 1)

\* MUTANT of CreateGet: a smaller volume of that name will do.
CreateGetAnySize(v) ==
    /\ pc[v] = "cGet"
    /\ \/ Works(v) /\ "dataset" \in has[v] /\ Adopt(v, req[v])
       \/ (Errs(v) \/ (Works(v) /\ "dataset" \notin has[v])) /\ Absent(v)
    /\ UNCHANGED storeVars

\* GetDataset: a dataset that is there must be large enough, no quota counts
\* as what was asked for; an error counts as "none".
CreateGet(v) ==
    /\ pc[v] = "cGet"
    /\ \/ /\ Works(v) /\ "dataset" \in has[v]
          /\ IF size[v] > 0 /\ size[v] < req[v] THEN Fail(v)
             ELSE Adopt(v, IF size[v] = 0 THEN req[v] ELSE size[v])
       \/ (Errs(v) \/ (Works(v) /\ "dataset" \notin has[v])) /\ Absent(v)
    /\ UNCHANGED storeVars

\* createVolumeFromSource asks again, and takes a dataset of any size.
CreateAgain(v) ==
    /\ pc[v] = "cAgain"
    /\ \/ Works(v) /\ "dataset" \in has[v] /\ Adopt(v, size[v])
       \/ (Errs(v) \/ (Works(v) /\ "dataset" \notin has[v])) /\ GotoAt(v, "make", 1)
    /\ UNCHANGED storeVars

\* MUTANT of Rollback: also a dataset that was there before is deleted.
RollbackAll(v) == GotoAt(v, "undo", at[v])

\* What was created is deleted in reverse order.
Rollback(v) == IF at[v] = 1 THEN Fail(v) ELSE GotoAt(v, "undo", at[v] - 1)

\* The chain is complete; a scheduled volume still gets its snapshot task,
\* unless it is a clone.
Built(v) == IF v \in Scheduled \ Cloned THEN GotoAt(v, "task", 0) ELSE Created(v)

\* The next object of the chain.
Make(v) ==
    LET k == Chain(v)[at[v]]
    IN  /\ pc[v] = "make"
        /\ \/ /\ Works(v) /\ Accepts(v, k) /\ Add(v, k)
              /\ IF at[v] = Len(Chain(v)) THEN Built(v)
                 ELSE IF at[v] = 1 /\ v \in Cloned THEN Goto(v, "fit")
                 ELSE GotoAt(v, "make", at[v] + 1)
           \/ /\ Errs(v) \/ (Works(v) /\ ~Accepts(v, k))
              /\ Rollback(v) /\ UNCHANGED storeVars
           \/ Dropped(v) /\ Accepts(v, k) /\ Add(v, k) /\ Rollback(v)

\* setDatasetDescription, whose failure takes the clone away again, and
\* GetDataset, UpdateDataset and GetDataset to give it the capacity that was
\* asked for, whose failure leaves it as it is.
FitClone(v) ==
    /\ pc[v] = "fit"
    /\ \/ Works(v) /\ Resize(v) /\ GotoAt(v, "make", 2)
       \/ Errs(v) /\ (Fail(v) \/ GotoAt(v, "undo", 1)) /\ UNCHANGED storeVars
       \/ Dropped(v) /\ Resize(v) /\ Fail(v)

\* createSnapshotTaskFromParameters, whose failure is logged.
MakeTask(v) ==
    /\ pc[v] = "task"
    /\ \/ (Works(v) \/ Dropped(v)) /\ Add(v, "task")
       \/ Errs(v) /\ UNCHANGED storeVars
    /\ Created(v)

\* One deletion of the rollback; its outcome is ignored.  DeleteISCSITarget
\* deletes the association first and may fail behind that.  The shared host
\* is never deleted here.
Undo(v) ==
    LET k == Chain(v)[at[v]]
    IN  /\ pc[v] = "undo"
        /\ \/ k # "host" /\ Works(v) /\ Remove(v, k)
           \/ k = "target" /\ Dropped(v) /\ Remove(v, "assoc")
           \/ k # "host" /\ Errs(v) /\ UNCHANGED storeVars
           \/ k = "host" /\ UNCHANGED <<storeVars, faults>>
        /\ IF at[v] = 1 THEN Fail(v) ELSE GotoAt(v, "undo", at[v] - 1)

\* A call that creates a missing object of an existing volume; its failure
\* ends the request and nothing is rolled back.
Repair(v, k, next) ==
    \/ Works(v) /\ Accepts(v, k) /\ Add(v, k) /\ next
    \/ (Errs(v) \/ (Works(v) /\ ~Accepts(v, k))) /\ Fail(v) /\ UNCHANGED storeVars
    \/ Dropped(v) /\ Accepts(v, k) /\ Add(v, k) /\ Fail(v)

\* A query whose failure counts as "absent".
Query(v, k, found, absent) ==
    /\ \/ Works(v) /\ k \in has[v] /\ found
       \/ (Errs(v) \/ (Works(v) /\ k \notin has[v])) /\ absent
    /\ UNCHANGED storeVars

\* A query whose failure ends the request.
QueryOrFail(v, k, found, absent) ==
    /\ \/ Works(v) /\ k \in has[v] /\ found
       \/ Works(v) /\ k \notin has[v] /\ absent
       \/ Errs(v) /\ Fail(v)
    /\ UNCHANGED storeVars

\* MUTANT of ensureTarget: a target that is there already is an error.
ensureTargetNew(v, p, q) ==
    /\ pc[v] = p
    /\ Repair(v, "target", Goto(v, q))

\* Create the target or, when that fails, find it by its name.  It is made
\* without auth tag, so a repaired CHAP volume no longer asks for CHAP.
ensureTarget(v, p, q) ==
    /\ pc[v] = p
    /\ \/ Works(v) /\ Add(v, "target") /\ Goto(v, q)
       \/ Errs(v) /\ Fail(v) /\ UNCHANGED storeVars
       \/ Dropped(v) /\ Add(v, "target") /\ (Goto(v, q) \/ Fail(v))

\* MUTANT of ensureISCSIChain: an extent is taken for a complete chain.
ensureISCSIExtentOnly(v) ==
    \/ pc[v] = "qExtent" /\ Query(v, "extent", Created(v), Goto(v, "fixTarget"))
    \/ ensureTarget(v, "fixTarget", "fixExtent")
    \/ pc[v] = "fixExtent" /\ Repair(v, "extent", Goto(v, "fixAssoc"))
    \/ pc[v] = "fixAssoc" /\ Repair(v, "assoc", Created(v))

ensureISCSIChain(v) ==
    \/ pc[v] = "qExtent" /\ Query(v, "extent", Goto(v, "qAssoc"), Goto(v, "fixTarget"))
    \/ ensureTarget(v, "fixTarget", "fixExtent")
    \/ pc[v] = "fixExtent" /\ Repair(v, "extent", Goto(v, "fixAssoc"))
    \/ pc[v] = "fixAssoc" /\ Repair(v, "assoc", Created(v))
    \/ pc[v] = "qAssoc" /\ Query(v, "assoc", Goto(v, "qTarget"), Goto(v, "linkTarget"))
    \/ ensureTarget(v, "linkTarget", "fixAssoc")
    \/ pc[v] = "qTarget" /\ Query(v, "target", Created(v), Fail(v))

\* The shared host is looked up, and created when it is not there.
ensureNVMeHost(v) ==
    \/ Works(v) /\ Add(v, "host") /\ Goto(v, "qHostLink")
    \/ Errs(v) /\ Fail(v) /\ UNCHANGED storeVars
    \/ Dropped(v) /\ Add(v, "host") /\ Fail(v)

\* "If the namespace already exists, the chain is complete."
ensureNVMeOFChain(v) ==
    LET linked == IF Class[v] = "dhchap" THEN Goto(v, "fixHost") ELSE Created(v)
    IN  \/ pc[v] = "qNs" /\ QueryOrFail(v, "namespace", Created(v), Goto(v, "qSubsys"))
        \/ pc[v] = "qSubsys" /\ QueryOrFail(v, "subsys", Goto(v, "fixNs"), Goto(v, "fixSubsys"))
        \/ pc[v] = "fixSubsys" /\ Repair(v, "subsys", Goto(v, "fixNs"))
        \/ pc[v] = "fixNs" /\ Repair(v, "namespace", Goto(v, "qPort"))
        \/ pc[v] = "qPort" /\ Query(v, "portLink", linked, Goto(v, "fixPort"))
        \/ pc[v] = "fixPort" /\ Repair(v, "portLink", linked)
        \/ pc[v] = "fixHost" /\ ensureNVMeHost(v)
        \/ pc[v] = "qHostLink" /\ Query(v, "hostLink", Created(v), Goto(v, "fixHostLink"))
        \/ pc[v] = "fixHostLink" /\ Repair(v, "hostLink", Created(v))

-----------------------------------------------------------------------------
(***************************************************************************)
(* ControllerExpandVolume and ControllerPublishVolume                      *)
(***************************************************************************)

InUse(v) == acked[v] = "created" /\ want[v] = "create"

\* The ids that reconstructVolumeFromTrueNAS finds: the extent of the ZVOL
\* and through it the target, or else the namespace and through it the
\* subsystem and its links.  CHAP and initiator groups are not found.
Reconstructed(v) ==
    IF "extent" \in has[v]
    THEN {"extent"} \cup {k \in {"target"} : {"assoc", "target"} \subseteq has[v]}
    ELSE IF "namespace" \in has[v]
    THEN {"hostLink", "portLink", "namespace", "subsys"}
    ELSE {}

\* The CO asks for more than it was told the volume has.
ControllerExpandVolume(v) ==
    /\ pc[v] = "idle" /\ InUse(v)
    /\ \E n \in Grown : n > promised[v] /\ GotoFor(v, "eInfo", n)
    /\ UNCHANGED <<storeVars, faults>>

\* A ControllerExpandVolumeResponse
Expanded(v, n) ==
    /\ Return(v)
    /\ promised' = [promised EXCEPT ![v] = n]
    /\ UNCHANGED <<want, acked, context>>

\* GetVolumeInfo, with a context of its own: a volume that is large enough is
\* left as it is.
ExpandInfo(v) ==
    /\ pc[v] = "eInfo"
    /\ \/ /\ UNCHANGED faults /\ "dataset" \in has[v]
          /\ IF req[v] <= size[v] THEN Expanded(v, size[v]) /\ UNCHANGED tracked
             ELSE Goto(v, "eUpdate")
       \/ (Fault \/ (UNCHANGED faults /\ "dataset" \notin has[v])) /\ Fail(v)
    /\ UNCHANGED storeVars

\* GetDataset of a ZVOL, UpdateDataset and RecordProvisionedVolume
ExpandUpdate(v) ==
    /\ pc[v] = "eUpdate"
    /\ \/ Works(v) /\ Resize(v) /\ Expanded(v, req[v]) /\ tracked' = tracked \cup {v}
       \/ Errs(v) /\ Fail(v) /\ UNCHANGED storeVars
       \/ Dropped(v) /\ Resize(v) /\ Fail(v)

ControllerPublishVolume(v) ==
    /\ pc[v] = "idle" /\ InUse(v) /\ context[v] = "none"
    /\ Goto(v, "pGet")
    /\ UNCHANGED <<storeVars, faults>>

\* A ControllerPublishVolumeResponse
Published(v, c) ==
    /\ Return(v)
    /\ context' = [context EXCEPT ![v] = c]
    /\ UNCHANGED <<tracked, want, acked, promised>>

\* Whether target or subsystem can be told from what TrueNAS has
Described(v) == isZVOLProtocol(v) => Reconstructed(v) \cap {"target", "namespace"} # {}

\* GetDataset
PublishGet(v) ==
    /\ pc[v] = "pGet"
    /\ QueryOrFail(v, "dataset", Goto(v, "pInfo"), Fail(v))

\* MUTANT of PublishInfo: what GetVolumeInfo found is all there is.
PublishInfoOnly(v) ==
    /\ pc[v] = "pInfo"
    /\ \/ UNCHANGED faults /\ Described(v) /\ Published(v, "full")
       \/ (Fault \/ (UNCHANGED faults /\ ~Described(v))) /\ Published(v, "part")
    /\ UNCHANGED storeVars

\* GetVolumeInfo, with a context of its own
PublishInfo(v) ==
    /\ pc[v] = "pInfo"
    /\ \/ UNCHANGED faults /\ Described(v) /\ Published(v, "full")
       \/ (Fault \/ (UNCHANGED faults /\ ~Described(v))) /\ Goto(v, "pProbe")
    /\ UNCHANGED storeVars

\* Where that did not tell, the queries are made again, but for NFS, which
\* only needs the dataset; what they do not tell is left out of the answer.
PublishProbe(v) ==
    /\ pc[v] = "pProbe"
    /\ \/ ~isZVOLProtocol(v) /\ UNCHANGED faults /\ Published(v, "full")
       \/ isZVOLProtocol(v) /\ Works(v) /\ Described(v) /\ Published(v, "full")
       \/ /\ isZVOLProtocol(v) /\ (Errs(v) \/ (Works(v) /\ ~Described(v)))
          /\ Published(v, "part")
    /\ UNCHANGED storeVars

\* Nothing in TrueNAS is changed for it.
ControllerUnpublishVolume(v) ==
    /\ pc[v] = "idle" /\ context[v] # "none"
    /\ context' = [context EXCEPT ![v] = "none"]
    /\ UNCHANGED <<storeVars, reqVars, tracked, want, acked, promised, faults>>

-----------------------------------------------------------------------------
(***************************************************************************)
(* DeleteVolume.  Dependent snapshots, which refuse it, are in Snapshots.  *)
(***************************************************************************)

\* The CO no longer wants the volume, whether or not it was ever created.
Unwant(v) ==
    /\ pc[v] = "idle" /\ want[v] = "create" /\ context[v] = "none"
    /\ want' = [want EXCEPT ![v] = "delete"]
    /\ UNCHANGED <<storeVars, reqVars, tracked, acked, promised, context, faults>>

DeleteVolume(v) ==
    /\ pc[v] = "idle" /\ want[v] = "delete" /\ acked[v] # "deleted"
    /\ GotoAt(v, "dGet", 0)
    /\ UNCHANGED <<storeVars, faults>>

\* MUTANT of DeleteGet: a volume that is not there cannot be deleted.
DeleteGetStrict(v) ==
    /\ pc[v] = "dGet"
    /\ QueryOrFail(v, "dataset", Goto(v, "dSnap"), Fail(v))

\* GetDataset: a volume that is not there is deleted.
DeleteGet(v) ==
    /\ pc[v] = "dGet"
    /\ QueryOrFail(v, "dataset", Goto(v, "dSnap"), Deleted(v))

\* ListSnapshots
DeleteSnapshots(v) ==
    /\ pc[v] = "dSnap"
    /\ (Works(v) /\ Goto(v, "dInfo")) \/ (Errs(v) /\ Fail(v))
    /\ UNCHANGED storeVars

\* GetVolumeInfo, which runs with a context of its own; where a query fails
\* it stops and the rest stays unknown.
DeleteInfo(v) ==
    /\ pc[v] = "dInfo"
    /\ \/ UNCHANGED faults /\ ids' = [ids EXCEPT ![v] = Reconstructed(v)]
       \/ /\ Fault
          /\ \E known \in {{}, Reconstructed(v) \cap {"extent"}} :
               ids' = [ids EXCEPT ![v] = known]
    /\ pc' = [pc EXCEPT ![v] = "drop"]
    /\ at' = [at EXCEPT ![v] = 1]
    /\ UNCHANGED <<storeVars, req, ctxDone, coVars>>

DropNext(v) == IF at[v] = Len(DropOrder) THEN Goto(v, "dDataset")
               ELSE GotoAt(v, "drop", at[v] + 1)

\* MUTANT of DeleteDrop: hosts are not garbage-collected.
DeleteDropKeepsHost(v) ==
    LET k == DropOrder[at[v]]
    IN  /\ pc[v] = "drop"
        /\ \/ /\ k \in ids[v] \cup ByPath /\ k \in has[v]
              /\ Works(v) /\ Remove(v, k)
           \/ /\ k \in ids[v] \cup ByPath
              /\ Errs(v) /\ UNCHANGED storeVars
           \/ /\ k \notin has[v] \cap (ids[v] \cup ByPath)
              /\ UNCHANGED <<storeVars, faults>>
        /\ DropNext(v)

\* One object of the teardown; failures are logged.  An authorised host is
\* looked at once its link to this volume is gone, and DeleteISCSITarget may
\* fail behind the deletion of the association.
DeleteDrop(v) ==
    LET k == DropOrder[at[v]]
    IN  /\ pc[v] = "drop"
        /\ \/ /\ k \in ids[v] \cup ByPath /\ k \in has[v]
              /\ Works(v) /\ Remove(v, k)
              /\ IF k = "hostLink" THEN GotoAt(v, "gcQuery", at[v]) ELSE DropNext(v)
           \/ /\ k = "hostLink" /\ k \in ids[v] \cap has[v]
              /\ Dropped(v) /\ Remove(v, k) /\ DropNext(v)
           \/ /\ k = "target" /\ k \in ids[v] \cap has[v]
              /\ Dropped(v) /\ Remove(v, "assoc") /\ DropNext(v)
           \/ /\ k \in ids[v] \cup ByPath
              /\ Errs(v) /\ UNCHANGED storeVars /\ DropNext(v)
           \/ /\ k \notin has[v] \cap (ids[v] \cup ByPath)
              /\ UNCHANGED <<storeVars, faults>> /\ DropNext(v)

\* GetNVMeHostSubsysByHost
GcQuery(v) ==
    /\ pc[v] = "gcQuery"
    /\ \/ Works(v) /\ ~Linked /\ GotoAt(v, "gcDrop", at[v])
       \/ (Errs(v) \/ (Works(v) /\ Linked)) /\ DropNext(v)
    /\ UNCHANGED storeVars

\* DeleteNVMeHost, which TrueNAS refuses for a host that is linked again.
GcDrop(v) ==
    /\ pc[v] = "gcDrop"
    /\ \/ Works(v) /\ host' = (host /\ Linked)
       \/ Errs(v) /\ UNCHANGED host
    /\ DropNext(v)
    /\ UNCHANGED <<has, spare, size>>

\* DeleteDataset; a dataset that is already gone is as good.
DeleteDataset(v) ==
    /\ pc[v] = "dDataset"
    /\ \/ Works(v) /\ Remove(v, "dataset") /\ Deleted(v)
       \/ Errs(v) /\ Fail(v) /\ UNCHANGED storeVars
       \/ Dropped(v) /\ Remove(v, "dataset") /\ Fail(v)

-----------------------------------------------------------------------------
CreateStep(v) == CreateGet(v) \/ CreateAgain(v) \/ Make(v) \/ FitClone(v) \/ MakeTask(v)
                   \/ Undo(v) \/ ensureISCSIChain(v) \/ ensureNVMeOFChain(v)
UseStep(v)    == ExpandInfo(v) \/ ExpandUpdate(v) \/ PublishGet(v) \/ PublishInfo(v)
                   \/ PublishProbe(v)
DeleteStep(v) == DeleteGet(v) \/ DeleteSnapshots(v) \/ DeleteInfo(v)
                   \/ DeleteDrop(v) \/ GcQuery(v) \/ GcDrop(v) \/ DeleteDataset(v)

Next ==
    \/ \E v \in Volumes : \/ CreateVolume(v) \/ CreateStep(v)
                          \/ ControllerExpandVolume(v) \/ ControllerPublishVolume(v)
                          \/ ControllerUnpublishVolume(v) \/ UseStep(v)
                          \/ Unwant(v) \/ DeleteVolume(v) \/ DeleteStep(v)
                          \/ Expire(v)
    \/ Crash

Spec == Init /\ [][Next]_vars

\* A handler runs on, and the CO retries what it has not been acknowledged.
\* The CO need not stop wanting a volume.
Fairness ==
    \A v \in Volumes :
      /\ WF_vars(CreateStep(v) \/ UseStep(v) \/ DeleteStep(v))
      /\ WF_vars(acked[v] = "none" /\ CreateVolume(v))
      /\ WF_vars(DeleteVolume(v))

FairSpec == Spec /\ Fairness

-----------------------------------------------------------------------------
(***************************************************************************)
(* Properties                                                              *)
(***************************************************************************)

Kinds == Named \cup Unnamed \cup {"host"}
PCs   == {"idle"} \cup CreatePCs \cup UsePCs \cup DeletePCs

TypeStore ==
    /\ has \in [Volumes -> SUBSET Named]
    /\ spare \in [Volumes -> [Unnamed -> Int]]
    /\ size \in [Volumes -> Nat] /\ host \in BOOLEAN
TypeReq ==
    /\ pc \in [Volumes -> PCs] /\ at \in [Volumes -> 0..8]
    /\ ids \in [Volumes -> SUBSET Named]
    /\ req \in [Volumes -> Nat] /\ ctxDone \in [Volumes -> BOOLEAN]
TypeCO ==
    /\ tracked \in SUBSET Volumes
    /\ want \in [Volumes -> {"create", "delete"}]
    /\ acked \in [Volumes -> {"none", "created", "deleted"}]
    /\ promised \in [Volumes -> Nat]
    /\ context \in [Volumes -> {"none", "part", "full"}]

\* Every variable has its type.
TypeOK == TypeStore /\ TypeReq /\ TypeCO /\ faults \in Nat

\* Everything a node needs to reach the volume.
Required(v) == {Chain(v)[i] : i \in 1..Len(Chain(v))} \cap Named

\* What a CreateVolumeResponse does vouch for.
Vouched(v) == IF ISCSI(v) THEN {"dataset", "target", "extent", "assoc"}
              ELSE IF NVMeOF(v) THEN {"dataset", "subsys", "namespace"}
              ELSE {"dataset"}

\* From the answer of CreateVolume on, until the CO asks for its deletion, a
\* volume has what was vouched for: no rollback, repair, lost answer or crash
\* of a repeated request takes it away, and an iSCSI repair leaves no gap.
AcknowledgedKept == \A v \in Volumes : InUse(v) => Vouched(v) \subseteq has[v]

Fits(v, n) == size[v] >= n \/ size[v] = 0

\* A volume is never smaller than what any CreateVolume or expansion of it
\* was answered, whatever became of the requests that made, cloned, resized
\* and asked for it again; without a quota it is not limited.
LargeEnough == \A v \in Volumes : InUse(v) => Fits(v, promised[v])

\* A single failed query does not make ControllerPublishVolume answer without
\* what a node needs to reach the volume.
PublishUsable == \A v \in Volumes : context[v] = "part" => faults > 1

\* As long as no call has failed a deleted volume leaves nothing in TrueNAS
\* but the CHAP and initiator groups of a CHAP volume, which DeleteVolume does
\* not find (AuthRemoved), and the last of the volumes that share the host
\* takes it with them, whatever creations and deletions of other volumes run
\* at the same time.
NothingLeft ==
    faults = 0 =>
      /\ \A v \in Volumes : acked[v] = "deleted" =>
           /\ has[v] = {}
           /\ Class[v] # "chap" => \A k \in Unnamed : spare[v][k] = 0
      /\ (\A v \in Volumes : Class[v] = "dhchap" => acked[v] = "deleted") => ~host

Orphaned(v) == "dataset" \notin has[v] /\ has[v] # {}

\* A retry looks at a dataset that is smaller than what it asks for: one left
\* by a request for less, or a clone that was not resized.
Stunted(v) == pc[v] = "cGet" /\ 0 < size[v] /\ size[v] < req[v]

\* With finitely many faults a retried CreateVolume succeeds, unless an
\* object survived a rollback that took the dataset and now has its name, or
\* the dataset that is there is smaller than what the retry asks for, which
\* takes it for another volume.
RetriesConverge ==
    \A v \in Volumes :
      want[v] = "create" ~>
        \/ acked[v] = "created" \/ want[v] = "delete"
        \/ Orphaned(v) \/ Stunted(v)

\* With finitely many faults a retried DeleteVolume succeeds.
DeletesConverge ==
    \A v \in Volumes : want[v] = "delete" ~> acked[v] = "deleted"

(***************************************************************************)
(* The inductive invariant behind the theorems of ProvisioningProofs, for  *)
(* one volume                                                              *)
(***************************************************************************)

\* Creation, use and deletion of a volume do not overlap.
OwnPhase(v) ==
    /\ pc[v] \in CreatePCs => want[v] = "create"
    /\ pc[v] \in UsePCs => InUse(v)
    /\ pc[v] \in {"eInfo", "eUpdate"} => req[v] >= promised[v]
    /\ pc[v] \in DeletePCs => want[v] = "delete"
    /\ pc[v] = "drop" => at[v] \in 1..Len(DropOrder)

\* A handler that builds the chain has what it built so far, and only a
\* volume nobody was told of is ever rolled back.
Building(v) ==
    /\ pc[v] \in {"make", "undo"} => at[v] \in 1..Len(Chain(v))
    /\ pc[v] = "undo" => acked[v] # "created"
    /\ pc[v] = "fit" => acked[v] # "created" /\ "dataset" \in has[v]
    /\ pc[v] = "make" /\ at[v] > 1 => acked[v] # "created" /\ size[v] = req[v]
    /\ pc[v] = "task" => /\ acked[v] # "created" /\ size[v] = req[v]
                         /\ Vouched(v) \subseteq has[v]
    /\ pc[v] = "make" =>
         \A i \in 1..(at[v] - 1) : Chain(v)[i] \in Named => Chain(v)[i] \in has[v]

\* What a repair relies on at each of its calls.
Relies(p) ==
    {"dataset"} \cup
    (CASE p \in {"qAssoc", "linkTarget"} -> {"extent"}
       [] p = "qTarget" -> {"extent", "assoc"}
       [] p = "fixExtent" -> {"target"}
       [] p = "fixAssoc" -> {"target", "extent"}
       [] p = "fixNs" -> {"subsys"}
       [] p \in {"qPort", "fixPort", "fixHost", "qHostLink", "fixHostLink"}
            -> {"subsys", "namespace"}
       [] OTHER -> {})

Repairing(v) ==
    pc[v] \in EnsurePCs =>
      /\ Relies(pc[v]) \subseteq has[v]
      /\ Fits(v, req[v])
      /\ IF pc[v] \in ISCSIPCs THEN ISCSI(v) ELSE NVMeOF(v)

VolumeInv(v) ==
    /\ OwnPhase(v) /\ Building(v) /\ Repairing(v)
    /\ InUse(v) => Vouched(v) \subseteq has[v] /\ Fits(v, promised[v])
    /\ acked[v] # "created" /\ want[v] = "create" => promised[v] = 0

\* A namespace is in its subsystem, which TrueNAS does not delete under it,
\* a ZVOL has one protocol, and only a CHAP volume gets CHAP groups.
Nested(v) == /\ "namespace" \in has[v] => "subsys" \in has[v]
             /\ "extent" \in has[v] => ISCSI(v)
             /\ Class[v] # "chap" => spare[v] = [k \in Unnamed |-> 0]

\* How many calls have failed where ControllerPublishVolume is
Publishing(v) ==
    /\ ctxDone[v] => faults > 0
    /\ pc[v] = "pProbe" /\ isZVOLProtocol(v) => faults > 0 /\ (ctxDone[v] => faults > 1)
    /\ context[v] = "part" => faults > 1

\* What a handler relies on between its calls survives whatever else happens
\* to its volume.
VolumesInv ==
    TypeOK /\ \A v \in Volumes : VolumeInv(v) /\ Nested(v) /\ Publishing(v)

\* The first n objects of the chain, and all that a volume is made of
Upto(v, n) == {Chain(v)[i] : i \in 1..n} \cap Named
Whole(v)   == Required(v) \cup {k \in {"task"} : v \in Scheduled \ Cloned}

\* What the first n deletions of the teardown leave of it
Left(v, n) == Whole(v) \ ({DropOrder[i] : i \in 1..n} \cup {k \in {"assoc"} : n > 0})

WholePCs == {"qExtent", "qAssoc", "qTarget", "qNs", "dSnap", "dInfo"} \cup UsePCs

\* As long as no call has failed a volume is there as a whole or not at all,
\* but for what a creation, its rollback after a lost host, or a teardown
\* has done so far; and the teardown knows all that it has to delete.
Unfailed(v) ==
    /\ pc[v] \in {"idle", "cGet", "cAgain", "dGet"} => has[v] \in {{}, Whole(v)}
    /\ pc[v] \in EnsurePCs => pc[v] \in WholePCs
    /\ pc[v] \in WholePCs => has[v] = Whole(v)
    /\ pc[v] = "make" => has[v] = Upto(v, at[v] - 1)
    /\ pc[v] = "fit" => has[v] = Upto(v, 1) /\ v \in Cloned
    /\ pc[v] = "task" => has[v] = Required(v) /\ v \in Scheduled \ Cloned
    /\ pc[v] = "undo" => has[v] = Upto(v, at[v]) /\ at[v] < Len(Chain(v))
    /\ pc[v] \in {"drop", "gcQuery", "gcDrop"} =>
         Whole(v) \ (ids[v] \cup ByPath) \subseteq {"dataset", "assoc"}
    /\ pc[v] = "drop" => has[v] = Left(v, at[v] - 1)
    /\ pc[v] \in {"gcQuery", "gcDrop"} => at[v] = 3 /\ has[v] = Left(v, 3)
    /\ pc[v] = "dDataset" => has[v] = {"dataset"}
    /\ acked[v] = "deleted" => pc[v] = "idle" /\ want[v] = "delete" /\ has[v] = {}

\* Whoever may still need the shared host, or will delete it
HostUser(v) ==
    /\ Class[v] = "dhchap"
    /\ \/ "hostLink" \in has[v]
       \/ pc[v] = "make" /\ Chain(v)[at[v]] = "hostLink"
       \/ pc[v] \in {"gcQuery", "gcDrop"}

UnfailedInv ==
    faults = 0 => /\ \A v \in Volumes : Unfailed(v)
                  /\ host => \E v \in Volumes : HostUser(v)

\* The invariant that is proved inductive.
ProvisioningInv == VolumesInv /\ UnfailedInv

(***************************************************************************)
(* What comments of the code say of it, and faults refute                  *)
(***************************************************************************)

\* "ensureNVMeOFChain verifies the NVMe-oF subsystem/namespace/port chain
\* exists for an existing ZVOL and creates any missing pieces"
\* (controller.go:974), and CreateVolume makes "an NFS share or iSCSI target"
\* (controller.go:311): an acknowledged volume has its whole chain.
ChainComplete == \A v \in Volumes : InUse(v) => Required(v) \subseteq has[v]

\* "Clean up protocol-specific resources (iSCSI target/extent/auth or NFS
\* share)" (controller.go:1890): a CHAP volume deleted without a failed call
\* leaves no CHAP group.
AuthRemoved ==
    \A v \in Volumes :
      faults = 0 /\ acked[v] = "deleted" => spare[v]["auth"] = 0
=============================================================================
