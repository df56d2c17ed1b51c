--------------------------- MODULE SnapshotsProofs ---------------------------
(***************************************************************************)
(* Proofs about Snapshots, for any sets of volumes, copies and snapshots   *)
(* and any number of faults, and an orchestrator that protects sources.    *)
(*                                                                         *)
(* A request changes its own part of the state, and TrueNAS only in a few  *)
(* ways (StoreMove).  What these do to the objects of other requests is    *)
(* shown once for all of them; each action then has to keep the invariant  *)
(* of its own object.                                                      *)
(***************************************************************************)
EXTENDS Snapshots, TLAPS

PCs == {"idle"} \cup CreatePCs \cup DeletePCs

\* The ZFS snapshots that a request for o may delete: temporary ones, one that
\* o received, and its own.
MayDelete(o, z) ==
    \/ z.kind # "csi"
    \/ z.on = o /\ z.of = source[o]
    \/ o \in Snaps /\ want[o] = "delete" /\ z = SnapshotID(o)

\* What a step of a request for o may do to TrueNAS
StoreMove(o) ==
    \/ UNCHANGED storeVars
    \/ \E z \in SnapIDs, p \in BOOLEAN :
         /\ CanSnapshot(z) /\ TakeSnapshot(z, p)
         /\ z.kind = "csi" => /\ o \in Snaps /\ pc[o] = "sMake"
                              /\ z = SnapshotID(o) /\ p
    \/ \E z \in SnapIDs : MayDelete(o, z) /\ client_DeleteSnapshot(z)
    \/ \E z \in zfs : CanClone(z, o) /\ MakeClone(z, o) /\ pc[o] = "cClone"
    \/ \E z \in zfs : /\ CanReplicate(z, o) /\ Replicate(z, o)
                      /\ SentTo(z, o) /\ pc[o] = "tRun"
    \/ Destroy(o) /\ pc[o] \in {"dDataset", "rDataset", "cUndo"}
    \/ /\ marked' = marked \cup {o} /\ pc[o] = "xMark"
       /\ UNCHANGED <<ds, zfs, managed, deferred, origin, job>>

\* What it does to the requests and to what the CO knows: an answer is true.
ReqMove(o) ==
    /\ TypeReq' /\ faults' \in Nat /\ faults' >= faults
    /\ pc[o] # "idle"
    /\ \A w \in Objects \ {o} : /\ pc'[w] = pc[w] /\ snap'[w] = snap[w]
                                /\ failed'[w] = failed[w] /\ ctxDone'[w] = ctxDone[w]
    /\ ctxDone'[o] => ctxDone[o]
    /\ UNCHANGED <<want, source, detached>>
    /\ \/ UNCHANGED told
       \/ /\ told' = [told EXCEPT ![o] = "created"]
          /\ want[o] = "create" /\ pc'[o] = "idle" /\ Live(o)'
       \/ /\ told' = [told EXCEPT ![o] = "deleted"]
          /\ want[o] = "delete" /\ pc'[o] = "idle" /\ ~Live(o)'

(***************************************************************************)
(* Facts about names of snapshots                                          *)
(***************************************************************************)

\* The name of a CSI snapshot that was asked for
LEMMA NameOf ==
    ASSUME SnapshotsInv, NEW s \in Snaps, want[s] # "none"
    PROVE  /\ SnapshotID(s) \in SnapIDs /\ source[s] \in Volumes
           /\ SnapshotID(s).on = source[s] /\ SnapshotID(s).of = s
           /\ SnapshotID(s).kind = "csi"
  <1>1. s \in Objects /\ Sources(s)
    BY DEF SnapshotsInv, ObjectInv, Objects
  <1>2. source[s] \in Volumes
    BY <1>1 DEF Sources
  <1> QED BY <1>1, <1>2 DEF SnapshotID, Snapshot, SnapIDs, Objects

\* No ZFS snapshot has the name of a CSI snapshot that was not asked for.
LEMMA NoNameYet ==
    ASSUME SnapshotsInv, NEW s \in Objects, told[s] = "none", NEW z \in zfs,
           z.kind = "csi", z.of = s
    PROVE  want[s] # "none" /\ s \in Snaps /\ z = SnapshotID(s) /\ z \in managed /\ ~detached[s]
  <1>1. z \in SnapIDs /\ z.on \in Objects
    BY DEF SnapshotsInv, TypeOK, TypeStore, SnapIDs
  <1>2. source[z.on] # s
    BY <1>1, SnapshotsAssumption DEF SnapshotsInv, ObjectInv, Sources
  <1>3. s \in Snaps /\ z = SnapshotID(s) /\ z \in managed /\ ~detached[s]
    BY <1>2 DEF SnapshotsInv, Named
  <1>4. z.on = source[s]
    BY <1>3 DEF SnapshotID, Snapshot
  <1>5. want[s] # "none"
    BY <1>1, <1>4, SnapshotsAssumption DEF SnapshotsInv, ObjectInv, Sources
  <1> QED BY <1>3, <1>5

\* What a request deletes is not a CSI snapshot of another.
LEMMA NotAnothers ==
    ASSUME SnapshotsInv, NEW o \in Objects, NEW z \in SnapIDs, MayDelete(o, z),
           NEW s \in Snaps, s # o \/ want[o] # "delete"
    PROVE  z # SnapshotID(s)
  <1> SUFFICES ASSUME z = SnapshotID(s) PROVE FALSE
    OBVIOUS
  <1>1. z.on = source[s] /\ z.of = s /\ z.kind = "csi"
    BY DEF SnapshotID, Snapshot
  <1>2. CASE z.on = o /\ z.of = source[o]
    <2>1. source[o] = s /\ source[s] = o
      BY <1>1, <1>2
    <2>2. s \in Objects
      BY DEF Objects
    <2> QED BY <2>1, <2>2, SnapshotsAssumption DEF SnapshotsInv, ObjectInv, Sources
  <1>3. CASE want[o] = "delete" /\ z = SnapshotID(o)
    <2>1. z.of = o
      BY <1>3 DEF SnapshotID, Snapshot
    <2> QED BY <1>1, <1>3, <2>1
  <1> QED BY <1>1, <1>2, <1>3 DEF MayDelete

(***************************************************************************)
(* What the moves of the store keep                                        *)
(***************************************************************************)

LEMMA MoveTypes ==
    ASSUME SnapshotsInv, NEW o \in Objects, StoreMove(o)
    PROVE  TypeStore'
  <1> USE DEF SnapshotsInv, TypeOK, TypeStore
  <1>1. CASE UNCHANGED storeVars
    BY <1>1 DEF storeVars
  <1>2. ASSUME NEW z \in SnapIDs, NEW p \in BOOLEAN, TakeSnapshot(z, p) PROVE TypeStore'
    BY <1>2 DEF TakeSnapshot
  <1>3. ASSUME NEW z \in SnapIDs, client_DeleteSnapshot(z) PROVE TypeStore'
    BY <1>3 DEF client_DeleteSnapshot
  <1>4. ASSUME NEW z \in zfs, MakeClone(z, o) PROVE TypeStore'
    BY <1>4 DEF MakeClone
  <1>5. ASSUME NEW z \in zfs, Replicate(z, o) PROVE TypeStore'
    <2>1. [state |-> "running", from |-> z] \in Jobs
      BY DEF Jobs
    <2> QED BY <1>5, <2>1 DEF Replicate
  <1>6. CASE Destroy(o)
    <2>1. [state |-> "none", from |-> None] \in Jobs
      BY DEF Jobs
    <2> QED BY <1>6, <2>1 DEF Destroy
  <1>7. CASE marked' = marked \cup {o} /\ UNCHANGED <<ds, zfs, managed, deferred, origin, job>>
    BY <1>7
  <1> QED BY <1>1, <1>2, <1>3, <1>4, <1>5, <1>6, <1>7 DEF StoreMove

\* A step for o leaves the datasets and jobs of all others alone.
LEMMA MoveOthers ==
    ASSUME SnapshotsInv, NEW o \in Objects, StoreMove(o), NEW w \in Objects, w # o
    PROVE  /\ ds'[w] = ds[w] /\ job'[w] = job[w] /\ origin'[w] = origin[w]
           /\ w \in marked' <=> w \in marked
  <1> USE DEF SnapshotsInv, TypeOK, TypeStore
  <1>1. CASE UNCHANGED storeVars
    BY <1>1 DEF storeVars
  <1>2. ASSUME NEW z \in SnapIDs, NEW p \in BOOLEAN, TakeSnapshot(z, p)
        PROVE  UNCHANGED <<ds, job, origin, marked>>
    BY <1>2 DEF TakeSnapshot
  <1>3. ASSUME NEW z \in SnapIDs, client_DeleteSnapshot(z)
        PROVE  UNCHANGED <<ds, job, origin, marked>>
    BY <1>3 DEF client_DeleteSnapshot
  <1>4. ASSUME NEW z \in zfs, MakeClone(z, o) \/ Replicate(z, o)
        PROVE  /\ ds'[w] = ds[w] /\ job'[w] = job[w] /\ origin'[w] = origin[w]
               /\ marked' = marked
    BY <1>4 DEF MakeClone, Replicate
  <1>5. CASE Destroy(o)
    BY <1>5 DEF Destroy
  <1>6. CASE marked' = marked \cup {o} /\ UNCHANGED <<ds, zfs, managed, deferred, origin, job>>
    BY <1>6
  <1> QED BY <1>1, <1>2, <1>3, <1>4, <1>5, <1>6 DEF StoreMove

\* The deletion of a dataset takes no snapshot along that is not to be deleted.
LEMMA NothingBelow ==
    ASSUME SnapshotsInv, NEW o \in Objects, pc[o] \in {"dDataset", "rDataset", "cUndo"},
           NEW s \in Snaps, ~detached[s], SnapshotID(s) \in zfs
    PROVE  source[s] # o
  <1> SUFFICES ASSUME source[s] = o PROVE FALSE
    OBVIOUS
  <1>1. s \in Objects /\ o # None
    BY SnapshotsAssumption DEF Objects
  <1>2. want[s] # "none" /\ o \in Volumes /\ told[o] # "none"
    BY <1>1 DEF SnapshotsInv, ObjectInv, Sources
  <1>3. pc[o] # "cUndo" /\ pc[o] # "rDataset"
    BY <1>2, SnapshotsAssumption
    DEF SnapshotsInv, ObjectInv, Phase, CreatePCs, SnapPCs, Objects
  <1> QED BY <1>3 DEF SnapshotsInv, ObjectInv, Unneeded

\* A step for o adds no CSI snapshot of another, and takes none away.
LEMMA MoveSnapshots ==
    ASSUME SnapshotsInv, NEW o \in Objects, StoreMove(o), UNCHANGED <<source, detached>>,
           NEW s \in Snaps, s # o, ~detached[s]
    PROVE  /\ SnapshotID(s)' = SnapshotID(s)
           /\ SnapshotID(s) \in zfs' => SnapshotID(s) \in zfs
           /\ SnapshotID(s) \in zfs' \ deferred' <=> SnapshotID(s) \in zfs \ deferred
           /\ SnapshotID(s) \in deferred' => SnapshotID(s) \in deferred
  <1>a. SnapshotID(s)' = SnapshotID(s)
    BY DEF SnapshotID
  <1>b. SnapshotID(s).on = source[s] /\ SnapshotID(s).of = s /\ SnapshotID(s).kind = "csi"
    BY DEF SnapshotID, Snapshot
  <1>1. CASE UNCHANGED storeVars
    BY <1>1, <1>a DEF storeVars
  <1>2. ASSUME NEW z \in SnapIDs, NEW p \in BOOLEAN, TakeSnapshot(z, p),
               z.kind = "csi" => z = SnapshotID(o)
        PROVE  z # SnapshotID(s) /\ zfs' = zfs \cup {z} /\ deferred' = deferred
    <2>1. SnapshotID(o).of = o
      BY DEF SnapshotID, Snapshot
    <2> QED BY <1>2, <1>b, <2>1 DEF TakeSnapshot
  <1>3. ASSUME NEW z \in SnapIDs, MayDelete(o, z), client_DeleteSnapshot(z)
        PROVE  z # SnapshotID(s) /\ \E g \in SUBSET {z} :
                   zfs' = zfs \ g /\ deferred' = (deferred \cup ({z} \cap zfs)) \ g
    BY <1>3, NotAnothers DEF client_DeleteSnapshot
  <1>4. ASSUME NEW z \in zfs, MakeClone(z, o) \/ Replicate(z, o)
        PROVE  UNCHANGED <<zfs, deferred>>
    BY <1>4 DEF MakeClone, Replicate
  <1>5. CASE Destroy(o) /\ pc[o] \in {"dDataset", "rDataset", "cUndo"}
    <2>1. SnapshotID(s) \in zfs => SnapshotID(s).on # o
      BY <1>5, <1>b, NothingBelow
    <2> DEFINE gone == {z \in zfs : z.on = o} \cup {z \in deferred : Clones(z) = {o}}
    <2>2. zfs' = zfs \ gone /\ deferred' = deferred \ gone
      BY <1>5 DEF Destroy
    <2>3. SnapshotID(s) \in gone => SnapshotID(s) \in deferred
      BY <2>1
    <2>4. CASE SnapshotID(s) \notin gone
      BY <2>2, <2>4, <1>a
    <2>5. CASE SnapshotID(s) \in gone
      <3>1. SnapshotID(s) \in deferred
        BY <2>3, <2>5
      <3> QED BY <2>2, <2>5, <3>1, <1>a
    <2> QED BY <2>4, <2>5
  <1>6. CASE UNCHANGED <<ds, zfs, managed, deferred, origin, job>>
    BY <1>6, <1>a
  <1> QED BY <1>a, <1>1, <1>2, <1>3, <1>4, <1>5, <1>6 DEF StoreMove

LEMMA MoveLive ==
    ASSUME SnapshotsInv, NEW o \in Objects, StoreMove(o), UNCHANGED <<source, detached>>,
           NEW w \in Objects, w # o
    PROVE  Live(w)' <=> Live(w)
  <1>1. CASE w \in Volumes
    BY <1>1, MoveOthers DEF Live
  <1>2. CASE w \notin Volumes /\ detached[w]
    BY <1>2, MoveOthers DEF Live
  <1>3. CASE w \notin Volumes /\ ~detached[w]
    <2>1. w \in Snaps
      BY <1>3 DEF Objects
    <2> QED BY <1>3, <2>1, MoveSnapshots DEF Live
  <1> QED BY <1>1, <1>2, <1>3

LEMMA MoveNamed ==
    ASSUME SnapshotsInv, NEW o \in Objects, StoreMove(o), UNCHANGED <<want, source, detached>>
    PROVE  Named'
  <1> DEFINE Fits(z) == \/ /\ z.of \in Snaps /\ z = SnapshotID(z.of)
                           /\ z \in managed /\ ~detached[z.of]
                        \/ source[z.on] = z.of
  <1>a. /\ managed \subseteq zfs /\ deferred \subseteq zfs
        /\ \A z \in zfs : z.kind = "csi" => Fits(z)
        /\ \A s \in Snaps : ~detached[s] /\ SnapshotID(s) \in deferred => want[s] = "delete"
    BY DEF SnapshotsInv, Named
  <1>b. \A s \in Snaps : SnapshotID(s)' = SnapshotID(s)
    BY DEF SnapshotID
  <1>c. ASSUME managed' \subseteq zfs', deferred' \subseteq zfs',
               \A z \in zfs' : z.kind = "csi" =>
                 (z \in zfs /\ (z \in managed => z \in managed')) \/ Fits(z)'
        PROVE  Named'
    <2>1. ASSUME NEW z \in zfs', z.kind = "csi" PROVE Fits(z)'
      BY <1>a, <1>b, <1>c, <2>1
    <2>2. ASSUME NEW s \in Snaps, ~detached[s], SnapshotID(s)' \in deferred'
          PROVE  want'[s] = "delete"
      <3>1. CASE s # o
        BY <1>a, <2>2, <3>1, MoveSnapshots
      <3>2. CASE s = o /\ SnapshotID(s) \notin deferred
        <4>1. PICK z \in SnapIDs : MayDelete(o, z) /\ client_DeleteSnapshot(z) /\ z = SnapshotID(o)
          <5>1. SnapshotID(o) \in deferred' /\ SnapshotID(o) \notin deferred
            BY <1>b, <2>2, <3>2
          <5> QED BY <5>1
              DEF StoreMove, storeVars, TakeSnapshot, MakeClone, Replicate, Destroy,
                  client_DeleteSnapshot
        <4> QED BY <3>2, <4>1, NotAnothers
      <3>3. CASE s = o /\ SnapshotID(s) \in deferred
        BY <1>a, <2>2, <3>3
      <3> QED BY <3>1, <3>2, <3>3
    <2> QED BY <1>c, <2>1, <2>2 DEF Named
  <1>1. CASE UNCHANGED storeVars
    BY <1>1, <1>a, <1>c DEF storeVars
  <1>2. ASSUME NEW z \in SnapIDs, NEW p \in BOOLEAN, TakeSnapshot(z, p),
               z.kind = "csi" => o \in Snaps /\ pc[o] = "sMake" /\ z = SnapshotID(o) /\ p
        PROVE  Named'
    <2>1. zfs' = zfs \cup {z} /\ deferred' = deferred
          /\ managed' = IF p THEN managed \cup {z} ELSE managed
      BY <1>2 DEF TakeSnapshot
    <2>2. z.kind = "csi" => Fits(z)'
      <3> SUFFICES ASSUME z.kind = "csi" PROVE Fits(z)'
        OBVIOUS
      <3>1. o \in Snaps /\ z = SnapshotID(o) /\ p /\ pc[o] = "sMake"
        BY <1>2
      <3>2. z.of = o
        BY <3>1 DEF SnapshotID, Snapshot
      <3>3. ~detached[o]
        BY <3>1 DEF SnapshotsInv, ObjectInv, Phase, RegularPCs
      <3> QED BY <2>1, <3>1, <3>2, <3>3, <1>b
    <2> QED BY <2>1, <2>2, <1>a, <1>c
  <1>3. ASSUME NEW z \in SnapIDs, client_DeleteSnapshot(z) PROVE Named'
    <2>1. PICK g \in SUBSET {z} : /\ zfs' = zfs \ g /\ managed' = managed \ g
                                  /\ deferred' = (deferred \cup ({z} \cap zfs)) \ g
      BY <1>3 DEF client_DeleteSnapshot
    <2> QED BY <2>1, <1>a, <1>c
  <1>4. ASSUME NEW z \in zfs, MakeClone(z, o) \/ Replicate(z, o) PROVE Named'
    BY <1>4, <1>a, <1>c DEF MakeClone, Replicate
  <1>5. CASE Destroy(o)
    <2>1. PICK g \in SUBSET zfs : /\ zfs' = zfs \ g /\ managed' = managed \ g
                                  /\ deferred' = deferred \ g
      BY <1>5, <1>a DEF Destroy
    <2> QED BY <2>1, <1>a, <1>c
  <1>6. CASE UNCHANGED <<ds, zfs, managed, deferred, origin, job>>
    BY <1>6, <1>a, <1>c
  <1> QED BY <1>1, <1>2, <1>3, <1>4, <1>5, <1>6 DEF StoreMove

\* A snapshot that is settled stays so until it goes.
LEMMA MoveSettled ==
    ASSUME SnapshotsInv, NEW o \in Objects, StoreMove(o), UNCHANGED <<want, source, detached>>,
           NEW z \in zfs, z \in zfs', Settled(z)
    PROVE  Settled(z)'
  <1> USE DEF Settled
  <1>1. CASE z.kind = "csi" /\ z = SnapshotID(z.of)
    BY <1>1 DEF SnapshotID
  <1>2. CASE z \in deferred /\ Clones(z) # {}
    <2>1. ASSUME UNCHANGED origin, z \in deferred' PROVE Settled(z)'
      BY <1>2, <2>1 DEF Clones
    <2>2. CASE UNCHANGED storeVars
      BY <1>2, <2>1, <2>2 DEF storeVars
    <2>3. ASSUME NEW y \in SnapIDs, NEW p \in BOOLEAN, TakeSnapshot(y, p) PROVE Settled(z)'
      BY <1>2, <2>1, <2>3 DEF TakeSnapshot
    <2>4. ASSUME NEW y \in SnapIDs, client_DeleteSnapshot(y) PROVE Settled(z)'
      BY <1>2, <2>1, <2>4 DEF client_DeleteSnapshot
    <2>5. ASSUME NEW y \in zfs, CanClone(y, o), MakeClone(y, o) PROVE Settled(z)'
      <3>1. origin[o] = None /\ z # None /\ z \in SnapIDs
        BY <2>5, SnapshotsAssumption
        DEF CanClone, SnapshotsInv, ObjectInv, Received, TypeOK, TypeStore
      <3>2. PICK w \in Objects : origin[w] = z
        BY <1>2 DEF Clones
      <3>3. origin'[w] = z /\ deferred' = deferred
        BY <2>5, <3>1, <3>2 DEF MakeClone, SnapshotsInv, TypeOK, TypeStore
      <3> QED BY <1>2, <3>3 DEF Clones
    <2>6. ASSUME NEW y \in zfs, Replicate(y, o) PROVE Settled(z)'
      BY <1>2, <2>1, <2>6 DEF Replicate
    <2>7. CASE Destroy(o)
      <3>1. Clones(z) # {o} /\ z \in deferred' /\ origin' = [origin EXCEPT ![o] = None]
        BY <1>2, <2>7 DEF Destroy
      <3>2. PICK w \in Objects : w # o /\ origin[w] = z
        BY <1>2, <3>1 DEF Clones
      <3> QED BY <3>1, <3>2 DEF Clones, SnapshotsInv, TypeOK, TypeStore
    <2>8. CASE UNCHANGED <<ds, zfs, managed, deferred, origin, job>>
      BY <1>2, <2>1, <2>8
    <2> QED BY <2>2, <2>3, <2>4, <2>5, <2>6, <2>7, <2>8 DEF StoreMove
  <1> QED BY <1>1, <1>2

(***************************************************************************)
(* What a step of one request means for the other objects                  *)
(***************************************************************************)

\* A request is in flight because the CO waits for its answer.
LEMMA InFlight ==
    ASSUME SnapshotsInv, NEW o \in Objects, pc[o] # "idle"
    PROVE  \/ want[o] = "create" /\ told[o] = "none" /\ pc[o] \in CreatePCs
           \/ want[o] = "delete" /\ told[o] = "created" /\ pc[o] \in DeletePCs
  BY DEF SnapshotsInv, TypeOK, TypeReq, ObjectInv, Phase

LEMMA SourcesStep ==
    ASSUME SnapshotsInv, NEW o \in Objects, ReqMove(o), NEW w \in Objects
    PROVE  Sources(w)'
  <1> USE SnapshotsAssumption
  <1>1. Sources(w)
    BY DEF SnapshotsInv, ObjectInv
  <1>2. UNCHANGED <<want, source, detached>>
    BY DEF ReqMove
  <1>3. \A x \in Objects : told'[x] = told[x] \/ (x = o /\ told'[x] # "none")
    BY DEF ReqMove, SnapshotsInv, TypeOK, TypeCO
  <1>4. told'[w] # "none" => want[w] # "none"
    BY <1>1, <1>3 DEF ReqMove, Sources, SnapshotsInv, TypeOK, TypeCO
  <1>5. told'[w] = "deleted" => want[w] = "delete"
    BY <1>1, <1>3 DEF ReqMove, Sources, SnapshotsInv, TypeOK, TypeCO
  <1>6. source[w] \in Objects \cup {None}
    BY DEF SnapshotsInv, TypeOK, TypeCO
  <1>7. \A x \in Objects : told[x] # "none" => told'[x] # "none"
    BY <1>3
  <1>8. told'[w] = "none" => told[w] = "none"
    BY <1>7
  <1>9. source[w] # None => told'[source[w]] # "none"
    BY <1>1, <1>6, <1>7 DEF Sources
  <1> QED BY <1>1, <1>2, <1>4, <1>5, <1>6, <1>7, <1>8, <1>9 DEF Sources

LEMMA ReportedStep ==
    ASSUME SnapshotsInv, NEW o \in Objects, StoreMove(o), ReqMove(o), NEW w \in Objects
    PROVE  Reported(w)'
  <1>1. CASE w # o
    <2>1. Live(w)' <=> Live(w)
      BY <1>1, MoveLive DEF ReqMove
    <2>2. want'[w] = want[w] /\ told'[w] = told[w]
      BY <1>1 DEF ReqMove, SnapshotsInv, TypeOK, TypeCO
    <2>3. Reported(w)
      BY DEF SnapshotsInv, ObjectInv
    <2> QED BY <2>1, <2>2, <2>3 DEF Reported, InUse
  <1>2. CASE w = o
    <2>1. want'[o] = want[o] /\ pc[o] # "idle"
      BY DEF ReqMove
    <2>2. ~InUse(o) /\ told[o] # "deleted"
      BY <2>1, InFlight DEF InUse
    <2>3. CASE UNCHANGED told
      BY <1>2, <2>1, <2>2, <2>3 DEF Reported, InUse
    <2>4. CASE told' = [told EXCEPT ![o] = "created"] /\ Live(o)'
      BY <1>2, <2>4 DEF Reported, InUse, SnapshotsInv, TypeOK, TypeCO
    <2>5. CASE told' = [told EXCEPT ![o] = "deleted"] /\ ~Live(o)'
      BY <1>2, <2>5 DEF Reported, InUse, SnapshotsInv, TypeOK, TypeCO
    <2> QED BY <2>3, <2>4, <2>5 DEF ReqMove
  <1> QED BY <1>1, <1>2

LEMMA UnneededStep ==
    ASSUME SnapshotsInv, NEW o \in Objects, StoreMove(o), ReqMove(o),
           NEW w \in Objects, pc[w] = "dDataset", pc'[w] = "dDataset"
    PROVE  Unneeded(w)'
  <1>1. UNCHANGED <<source, detached>>
    BY DEF ReqMove
  <1> SUFFICES ASSUME NEW s \in Snaps, source[s] = w, ~detached[s], SnapshotID(s)' \in zfs'
               PROVE  FALSE
    BY <1>1 DEF Unneeded
  <1>2. SnapshotID(s) \notin zfs
    BY DEF SnapshotsInv, ObjectInv, Unneeded
  <1>3. CASE s # o
    BY <1>1, <1>2, <1>3, MoveSnapshots
  <1>4. CASE s = o
    <2>1. SnapshotID(s)' = SnapshotID(s)
      BY <1>1 DEF SnapshotID
    <2>2. pc[o] = "sMake"
      <3>1. SnapshotID(s).kind = "csi"
        BY DEF SnapshotID, Snapshot
      <3> QED BY <1>2, <2>1, <3>1
          DEF StoreMove, storeVars, TakeSnapshot, MakeClone, Replicate, Destroy,
              client_DeleteSnapshot
    <2>3. want[o] = "create" /\ told[o] = "none"
      BY <2>2, InFlight DEF DeletePCs
    <2>4. want[w] = "create"
      BY <1>4, <2>3, SnapshotsAssumption DEF SnapshotsInv, ObjectInv, Sources
    <2>5. want[w] = "delete"
      BY InFlight DEF CreatePCs
    <2> QED BY <2>4, <2>5
  <1> QED BY <1>3, <1>4

\* A step for o keeps what is said of the other objects.
LEMMA OthersStep ==
    ASSUME SnapshotsInv, NEW o \in Objects, StoreMove(o), ReqMove(o),
           NEW w \in Objects, w # o
    PROVE  ObjectInv(w)'
  <1>1. /\ pc'[w] = pc[w] /\ snap'[w] = snap[w]
        /\ failed'[w] = failed[w] /\ ctxDone'[w] = ctxDone[w]
        /\ UNCHANGED <<want, source, detached>>
        /\ told'[w] = told[w] /\ faults' \in Nat /\ faults' >= faults /\ faults \in Nat
    BY DEF ReqMove, SnapshotsInv, TypeOK, TypeCO
  <1>2. /\ ds'[w] = ds[w] /\ job'[w] = job[w] /\ origin'[w] = origin[w]
        /\ w \in marked' <=> w \in marked
    BY MoveOthers
  <1>3. ObjectInv(w)
    BY DEF SnapshotsInv
  <1>4. Sources(w)' /\ Reported(w)'
    BY SourcesStep, ReportedStep
  <1>5. Phase(w)'
    BY <1>1, <1>3 DEF ObjectInv, Phase
  <1>6. Works_from(w)'
    BY <1>1, <1>2, <1>3 DEF ObjectInv, Works_from, SentTo, SnapshotID
  <1>7. Received(w)'
    BY <1>1, <1>2, <1>3 DEF ObjectInv, Received
  <1>8. Unneeded(w)'
    <2>1. CASE pc[w] = "dDataset"
      BY <1>1, <2>1, UnneededStep
    <2>2. CASE pc[w] # "dDataset"
      BY <1>1, <2>2 DEF Unneeded
    <2> QED BY <2>1, <2>2
  <1> QED BY <1>4, <1>5, <1>6, <1>7, <1>8 DEF ObjectInv

\* What o has to see to while nothing failed: what it adds, and what it owned
OwnedBy(o) ==
    faults' = 0 => \A z \in zfs' : z \notin zfs \/ Owns(o, z) =>
                     Settled(z)' \/ \E w \in Objects : Owns(w, z)'

LEMMA OwnedStep ==
    ASSUME SnapshotsInv, NEW o \in Objects, StoreMove(o), ReqMove(o), OwnedBy(o)
    PROVE  Owned'
  <1> SUFFICES ASSUME faults' = 0, NEW z \in zfs'
               PROVE  Settled(z)' \/ \E w \in Objects : Owns(w, z)'
    BY DEF Owned
  <1>1. CASE z \notin zfs \/ Owns(o, z)
    BY <1>1 DEF OwnedBy
  <1>2. CASE z \in zfs /\ ~Owns(o, z)
    <2>1. faults = 0
      BY DEF ReqMove, SnapshotsInv, TypeOK
    <2>2. CASE Settled(z)
      BY <1>2, <2>2, MoveSettled DEF ReqMove
    <2>3. CASE \E w \in Objects : Owns(w, z)
      <3>1. PICK w \in Objects : Owns(w, z)
        BY <2>3
      <3>2. w # o /\ pc'[w] = pc[w] /\ snap'[w] = snap[w]
        BY <1>2, <3>1 DEF ReqMove
      <3>3. Owns(w, z)'
        BY <3>1, <3>2 DEF Owns, OnTarget
      <3> QED BY <3>3
    <2> QED BY <1>2, <2>1, <2>2, <2>3 DEF SnapshotsInv, Owned
  <1> QED BY <1>1, <1>2

\* What an action has to keep for its own object
OwnStep(o) ==
    /\ StoreMove(o) /\ ReqMove(o) /\ OwnedBy(o)
    /\ Phase(o)' /\ Works_from(o)' /\ Received(o)'
    /\ pc'[o] = "dDataset" /\ pc[o] # "dDataset" => Unneeded(o)'

LEMMA InvStep ==
    ASSUME SnapshotsInv, NEW o \in Objects, OwnStep(o)
    PROVE  SnapshotsInv'
  <1>1. StoreMove(o) /\ ReqMove(o) /\ OwnedBy(o)
    BY DEF OwnStep
  <1>2. TypeOK'
    <2>1. TypeCO'
      BY <1>1 DEF ReqMove, SnapshotsInv, TypeOK, TypeCO
    <2> QED BY <1>1, <2>1, MoveTypes DEF ReqMove, TypeOK
  <1>3. Named' /\ Owned'
    BY <1>1, MoveNamed, OwnedStep DEF ReqMove
  <1>4. ObjectInv(o)'
    <2>1. Unneeded(o)'
      <3>1. CASE pc'[o] = "dDataset" /\ pc[o] = "dDataset"
        BY <1>1, <3>1, UnneededStep
      <3>2. CASE pc'[o] # "dDataset"
        BY <3>2 DEF Unneeded
      <3> QED BY <3>1, <3>2 DEF OwnStep
    <2> QED BY <1>1, <2>1, SourcesStep, ReportedStep DEF OwnStep, ObjectInv
  <1>5. \A w \in Objects : ObjectInv(w)'
    BY <1>1, <1>4, OthersStep
  <1> QED BY <1>2, <1>3, <1>5 DEF SnapshotsInv

(***************************************************************************)
(* How the actions of a request go on or end                               *)
(***************************************************************************)

\* What TrueNAS has of o, whatever its request is doing
Arrived(o) ==
    /\ o \in marked => o \in Snaps /\ detached[o] /\ ds[o] = "whole"
    /\ job[o].state = "running" => ds[o] = "partial"
    /\ job[o].state = "success" => ds[o] = "whole"
    /\ job[o].state = "failed" => faults > 0
    /\ ds[o] = "none" => origin[o] = None
    /\ o \in Copies /\ ds[o] = "partial" => detached[o]
    /\ job[o].state # "none" => SentTo(job[o].from, o)

LEMMA MoveArrived ==
    ASSUME SnapshotsInv, NEW o \in Objects, StoreMove(o), UNCHANGED <<source, detached>>,
           faults' \in Nat, faults' >= faults
    PROVE  Arrived(o)'
  <1>1. Received(o) /\ Works_from(o) /\ Phase(o) /\ TypeStore /\ faults \in Nat
    BY DEF SnapshotsInv, TypeOK, ObjectInv
  <1>2. Arrived(o)
    BY <1>1 DEF Arrived, Received, Works_from
  <1>3. ASSUME UNCHANGED <<ds, job, origin, marked>> PROVE Arrived(o)'
    BY <1>1, <1>2, <1>3 DEF Arrived, SentTo, SnapshotID
  <1>4. CASE UNCHANGED storeVars
    BY <1>3, <1>4 DEF storeVars
  <1>5. ASSUME NEW z \in SnapIDs, NEW p \in BOOLEAN, TakeSnapshot(z, p) PROVE Arrived(o)'
    BY <1>3, <1>5 DEF TakeSnapshot
  <1>6. ASSUME NEW z \in SnapIDs, client_DeleteSnapshot(z) PROVE Arrived(o)'
    BY <1>3, <1>6 DEF client_DeleteSnapshot
  <1>7. ASSUME NEW z \in zfs, CanClone(z, o), MakeClone(z, o) PROVE Arrived(o)'
    <2>1. ds'[o] = "whole" /\ ds[o] = "none" /\ marked' = marked /\ job' = job
      BY <1>1, <1>7 DEF MakeClone, CanClone, TypeStore
    <2> QED BY <1>1, <1>2, <2>1 DEF Arrived, SentTo, SnapshotID
  <1>8. ASSUME NEW z \in zfs, CanReplicate(z, o), Replicate(z, o), SentTo(z, o), pc[o] = "tRun"
        PROVE  Arrived(o)'
    <2>1. /\ ds'[o] = "partial" /\ ds[o] = "none" /\ marked' = marked
          /\ job'[o] = [state |-> "running", from |-> z]
      BY <1>1, <1>8 DEF Replicate, CanReplicate, TypeStore
    <2>2. detached[o]
      BY <1>1, <1>8 DEF Phase, DetachedPCs
    <2> QED BY <1>2, <1>8, <2>1, <2>2 DEF Arrived, SentTo, SnapshotID
  <1>9. CASE Destroy(o)
    <2>1. /\ ds'[o] = "none" /\ o \notin marked' /\ origin'[o] = None
          /\ job'[o] = [state |-> "none", from |-> None]
      BY <1>1, <1>9 DEF Destroy, TypeStore
    <2> QED BY <2>1 DEF Arrived
  <1>10. CASE /\ marked' = marked \cup {o} /\ pc[o] = "xMark"
              /\ UNCHANGED <<ds, zfs, managed, deferred, origin, job>>
    <2>1. o \in Snaps /\ detached[o] /\ ds[o] = "whole"
      BY <1>1, <1>10 DEF Phase, Received, SnapPCs, DetachedPCs
    <2> QED BY <1>1, <1>2, <1>10, <2>1 DEF Arrived, SentTo, SnapshotID
  <1> QED BY <1>4, <1>5, <1>6, <1>7, <1>8, <1>9, <1>10 DEF StoreMove

\* As long as nothing failed, a job runs while its request waits for it.
LEMMA MoveQuiet ==
    ASSUME SnapshotsInv, NEW o \in Objects, StoreMove(o), pc[o] \notin {"tRun", "tWait"},
           faults' \in Nat, faults' >= faults, faults' = 0
    PROVE  job'[o].state # "running" /\ (o \in Copies => ds'[o] # "partial")
  <1>1. Received(o) /\ TypeStore /\ faults = 0
    BY DEF SnapshotsInv, TypeOK, ObjectInv
  <1>2. job[o].state # "running" /\ (o \in Copies => ds[o] # "partial")
    BY <1>1 DEF Received
  <1>3. CASE UNCHANGED <<ds, job>>
    BY <1>2, <1>3
  <1>4. ASSUME NEW z \in zfs, MakeClone(z, o)
        PROVE  ds'[o] = "whole" /\ job' = job
    BY <1>1, <1>4 DEF MakeClone, TypeStore
  <1>5. CASE Destroy(o)
    <2>1. ds'[o] = "none" /\ job'[o] = [state |-> "none", from |-> None]
      BY <1>1, <1>5 DEF Destroy, TypeStore
    <2> QED BY <2>1
  <1>6. UNCHANGED <<ds, job>> \/ Destroy(o) \/ \E z \in zfs : MakeClone(z, o)
    BY DEF StoreMove, storeVars, TakeSnapshot, client_DeleteSnapshot
  <1> QED BY <1>2, <1>3, <1>4, <1>5, <1>6

\* A call that does not work is a fault or follows one.
LEMMA Outcomes ==
    ASSUME SnapshotsInv, NEW o \in Objects
    PROVE  /\ Works(o) => faults' = faults
           /\ Fault \/ Errs(o) \/ Dropped(o) => faults' > 0
           /\ Works(o) \/ Fault \/ Errs(o) \/ Dropped(o) \/ UNCHANGED faults =>
                faults' \in Nat /\ faults' >= faults
  <1>1. faults \in Nat /\ (ctxDone[o] => faults > 0)
    BY DEF SnapshotsInv, TypeOK, ObjectInv, Phase
  <1> QED BY <1>1 DEF Works, Fault, Errs, Dropped

\* A request that is not in a transfer or a clone owns no snapshot.
LEMMA OwnsNothing ==
    ASSUME NEW o \in Objects, zfs' \subseteq zfs,
           pc[o] \notin TransferPCs \cup {"cClone", "vDrop"}
    PROVE  OwnedBy(o)
  BY DEF OwnedBy, Owns, TransferPCs

\* The answer to a request, if there is one, is true.
Answered(o) ==
    \/ UNCHANGED told
    \/ told' = [told EXCEPT ![o] = "created"] /\ want[o] = "create" /\ Live(o)'
    \/ told' = [told EXCEPT ![o] = "deleted"] /\ want[o] = "delete" /\ ~Live(o)'

\* A request ends.
LEMMA Ends ==
    ASSUME SnapshotsInv, NEW o \in Objects, StoreMove(o), OwnedBy(o),
           pc[o] \notin {"idle", "tRun", "tWait"},
           Return(o), UNCHANGED <<want, source, detached>>, Answered(o),
           faults' \in Nat, faults' >= faults
    PROVE  OwnStep(o)
  <1>1. /\ pc'[o] = "idle" /\ snap'[o] = None /\ failed'[o] = FALSE /\ ctxDone'[o] = FALSE
        /\ TypeReq'
        /\ \A w \in Objects \ {o} : /\ pc'[w] = pc[w] /\ snap'[w] = snap[w]
                                    /\ failed'[w] = failed[w] /\ ctxDone'[w] = ctxDone[w]
    BY DEF Return, SnapshotsInv, TypeOK, TypeReq
  <1>2. ReqMove(o)
    BY <1>1 DEF ReqMove, Answered
  <1>3. Arrived(o)'
    BY MoveArrived
  <1>4. faults' = 0 => job'[o].state # "running" /\ (o \in Copies => ds'[o] # "partial")
    BY MoveQuiet
  <1>5. Phase(o)'
    BY <1>1 DEF Phase, CreatePCs, DeletePCs, SnapPCs, CopyPCs, RegularPCs, DetachedPCs
  <1>6. Works_from(o)'
    BY <1>1, <1>3 DEF Works_from, Arrived, TransferPCs
  <1>7. Received(o)'
    BY <1>1, <1>3, <1>4 DEF Received, Arrived
  <1> QED BY <1>1, <1>2, <1>5, <1>6, <1>7 DEF OwnStep

LEMMA Fails ==
    ASSUME SnapshotsInv, NEW o \in Objects, StoreMove(o), OwnedBy(o),
           pc[o] \notin {"idle", "tRun", "tWait"}, Fail(o),
           faults' \in Nat, faults' >= faults
    PROVE  OwnStep(o)
  BY Ends DEF Fail, coVars, Answered

LEMMA Tells ==
    ASSUME SnapshotsInv, NEW o \in Objects, StoreMove(o), OwnedBy(o),
           pc[o] \notin {"idle", "tRun", "tWait"}, NEW a, Tell(o, a),
           \/ a = "created" /\ want[o] = "create" /\ Live(o)'
           \/ a = "deleted" /\ want[o] = "delete" /\ ~Live(o)',
           faults' \in Nat, faults' >= faults
    PROVE  OwnStep(o)
  <1>1. Answered(o)
    BY DEF Tell, Answered
  <1> QED BY <1>1, Ends DEF Tell

\* A request goes on to p.
GoesTo(o, p) ==
    \/ Goto(o, p)
    \/ \E z \in SnapIDs : GotoWith(o, p, z)
    \/ \E e \in BOOLEAN : GotoErr(o, p, e)

LEMMA GoesOn ==
    ASSUME SnapshotsInv, NEW o \in Objects, NEW p \in PCs, pc[o] # "idle", GoesTo(o, p),
           faults' \in Nat, faults' >= faults
    PROVE  /\ ReqMove(o) /\ pc'[o] = p /\ ctxDone' = ctxDone /\ UNCHANGED coVars
           /\ Goto(o, p) => snap' = snap /\ failed' = failed
           /\ \A z : GotoWith(o, p, z) => snap'[o] = z /\ failed' = failed
           /\ \A e : GotoErr(o, p, e) => snap' = snap /\ failed'[o] = (failed[o] \/ e)
  <1>1. TypeReq
    BY DEF SnapshotsInv, TypeOK
  <1>2. \A w \in Objects \ {o} : pc'[w] = pc[w]
    BY <1>1 DEF GoesTo, Goto, GotoWith, GotoErr, TypeReq
  <1>3. pc'[o] = p /\ pc' \in [Objects -> PCs]
    BY <1>1 DEF GoesTo, Goto, GotoWith, GotoErr, TypeReq, PCs
  <1>4. /\ snap' \in [Objects -> SnapIDs \cup {None}]
        /\ \A w \in Objects \ {o} : snap'[w] = snap[w]
    BY <1>1 DEF GoesTo, Goto, GotoWith, GotoErr, TypeReq
  <1>5. failed' \in [Objects -> BOOLEAN] /\ \A w \in Objects \ {o} : failed'[w] = failed[w]
    BY <1>1 DEF GoesTo, Goto, GotoWith, GotoErr, TypeReq
  <1>6. ctxDone' = ctxDone /\ UNCHANGED coVars
    BY DEF GoesTo, Goto, GotoWith, GotoErr
  <1>7. TypeReq'
    BY <1>1, <1>3, <1>4, <1>5, <1>6 DEF TypeReq, PCs
  <1>8. ReqMove(o)
    BY <1>2, <1>4, <1>5, <1>6, <1>7 DEF ReqMove, coVars
  <1>9. Goto(o, p) => snap' = snap /\ failed' = failed
    BY DEF Goto
  <1>10. \A z : GotoWith(o, p, z) => snap'[o] = z /\ failed' = failed
    BY <1>1 DEF GotoWith, TypeReq
  <1>11. \A e : GotoErr(o, p, e) => snap' = snap /\ failed'[o] = (failed[o] \/ e)
    BY <1>1 DEF GotoErr, TypeReq
  <1> QED BY <1>3, <1>6, <1>8, <1>9, <1>10, <1>11

\* A request may be at p: the CO waits for such a request for o.
Suits(o, p) ==
    /\ p \in PCs \ {"idle"}
    /\ p \in CreatePCs => want[o] = "create" /\ told[o] = "none"
    /\ p \in DeletePCs => want[o] = "delete" /\ told[o] = "created"
    /\ p \in SnapPCs => o \in Snaps
    /\ p \in CopyPCs => o \in Copies
    /\ p \in {"dGet", "dList", "dDataset"} => o \in Volumes
    /\ p \in RegularPCs => ~detached[o]
    /\ p \in DetachedPCs => detached[o]

\* What the place of a request says about its snapshot, its dataset and its job
Underway(o) ==
    /\ pc[o] \in TransferPCs => SentTo(snap[o], o)
    /\ pc[o] \in {"cClone", "vDrop"} => snap[o] \in SnapIDs
    /\ pc[o] = "vDrop" => snap[o].kind = "clone"
    /\ pc[o] = "tDropSource" => snap[o].kind = "temp"
    /\ pc[o] = "tWait" => job[o].state # "none" /\ job[o].from = snap[o]
    /\ job[o].state = "running" /\ faults = 0 => pc[o] = "tWait"
    /\ pc[o] \in {"tDropTarget", "tDropSource", "vDrop"} /\ ~failed[o] => ds[o] # "none"
    /\ pc[o] = "cFinish" => ds[o] # "none"
    /\ o \in Snaps =>
         /\ pc[o] \in {"xParent", "xTemp", "tParent", "tGet", "tRun"} => ds[o] = "none"
         /\ pc[o] \in {"tDropTarget", "tDropSource"} /\ ~failed[o] => ds[o] = "whole"
         /\ pc[o] = "xMark" => ds[o] = "whole"
    /\ o \in Copies /\ ds[o] = "partial" /\ faults = 0 =>
         pc[o] = "tWait" /\ job[o].state = "running"

LEMMA Advances ==
    ASSUME SnapshotsInv, NEW o \in Objects, NEW p, StoreMove(o), OwnedBy(o), pc[o] # "idle",
           GoesTo(o, p), Suits(o, p), Underway(o)', p = "dDataset" => Unneeded(o)',
           faults' \in Nat, faults' >= faults
    PROVE  OwnStep(o)
  <1>1. /\ ReqMove(o) /\ pc'[o] = p /\ ctxDone' = ctxDone
        /\ UNCHANGED <<want, told, source, detached>>
    BY GoesOn DEF Suits, coVars
  <1>2. Phase(o)'
    <2>1. ctxDone[o] => faults > 0
      BY DEF SnapshotsInv, ObjectInv, Phase
    <2>2. faults \in Nat
      BY DEF SnapshotsInv, TypeOK
    <2> QED BY <1>1, <2>1, <2>2 DEF Phase, Suits
  <1>3. Arrived(o)'
    BY <1>1, MoveArrived
  <1>4. Works_from(o)'
    BY <1>3 DEF Arrived, Underway, Works_from
  <1>5. Received(o)'
    BY <1>3 DEF Arrived, Underway, Received
  <1> QED BY <1>1, <1>2, <1>4, <1>5 DEF OwnStep

\* Where nothing of TrueNAS changes and no snapshot is involved
LEMMA Proceeds ==
    ASSUME SnapshotsInv, NEW o \in Objects, NEW p, UNCHANGED storeVars,
           pc[o] \notin TransferPCs \cup {"idle", "cClone", "vDrop"},
           Goto(o, p), Suits(o, p),
           p \notin TransferPCs \cup {"cClone", "vDrop", "cFinish", "xMark", "dDataset"},
           o \in Snaps /\ p \in {"xParent", "xTemp"} => ds[o] = "none",
           faults' \in Nat, faults' >= faults
    PROVE  OwnStep(o)
  <1>1. StoreMove(o) /\ UNCHANGED <<ds, zfs, job>>
    BY DEF StoreMove, storeVars
  <1>2. OwnedBy(o)
    BY <1>1, OwnsNothing
  <1>3. GoesTo(o, p)
    BY DEF GoesTo
  <1>4. pc'[o] = p
    BY <1>3, GoesOn DEF Suits
  <1>5. faults' = 0 => job'[o].state # "running" /\ (o \in Copies => ds'[o] # "partial")
    BY <1>1, MoveQuiet DEF TransferPCs
  <1>6. Underway(o)'
    BY <1>1, <1>4, <1>5 DEF Underway, TransferPCs
  <1> QED BY <1>1, <1>2, <1>3, <1>6, Advances

LEMMA StillFails ==
    ASSUME SnapshotsInv, NEW o \in Objects, UNCHANGED storeVars,
           pc[o] \notin TransferPCs \cup {"idle", "cClone", "vDrop"}, Fail(o),
           faults' \in Nat, faults' >= faults
    PROVE  OwnStep(o)
  <1>1. StoreMove(o) /\ zfs' = zfs
    BY DEF StoreMove, storeVars
  <1> QED BY <1>1, OwnsNothing, Fails DEF TransferPCs

\* An answer that nothing had to be done for
LEMMA StillTells ==
    ASSUME SnapshotsInv, NEW o \in Objects, UNCHANGED storeVars,
           pc[o] \notin TransferPCs \cup {"idle", "cClone", "vDrop"}, NEW a, Tell(o, a),
           \/ a = "created" /\ want[o] = "create" /\ Live(o)
           \/ a = "deleted" /\ want[o] = "delete" /\ ~Live(o),
           faults' \in Nat, faults' >= faults
    PROVE  OwnStep(o)
  <1>1. StoreMove(o) /\ zfs' = zfs
    BY DEF StoreMove, storeVars
  <1>2. Live(o)' <=> Live(o)
    BY DEF Live, storeVars, Tell, SnapshotID
  <1> QED BY <1>1, <1>2, OwnsNothing, Tells DEF TransferPCs

LEMMA Suited ==
    ASSUME SnapshotsInv, NEW o \in Objects, pc[o] # "idle"
    PROVE  Suits(o, pc[o])
  BY DEF Suits, SnapshotsInv, TypeOK, TypeReq, ObjectInv, Phase, PCs

(***************************************************************************)
(* CreateSnapshot, regular                                                 *)
(***************************************************************************)

\* The snapshot of a name that was found is the one asked for, and not to be
\* destroyed.
LEMMA FindSnapshotKeeps ==
    ASSUME SnapshotsInv, NEW s \in Snaps, FindSnapshot(s)
    PROVE  OwnStep(s)
  <1> USE DEF TransferPCs
  <1>1. s \in Objects /\ pc[s] = "sFind" /\ UNCHANGED storeVars
    BY DEF FindSnapshot, Objects
  <1>2. Suits(s, "sFind") /\ want[s] = "create" /\ told[s] = "none"
    BY <1>1, Suited DEF Suits, CreatePCs
  <1>3. faults' \in Nat /\ faults' >= faults
    BY <1>1, Outcomes DEF FindSnapshot
  <1>4. Suits(s, IF detached[s] THEN "xFind" ELSE "sMake")
    BY <1>2 DEF Suits, PCs, CreatePCs, DeletePCs, SnapPCs, CopyPCs, RegularPCs, DetachedPCs
  <1>5. CASE Goto(s, IF detached[s] THEN "xFind" ELSE "sMake")
    BY <1>1, <1>3, <1>4, <1>5, Proceeds
  <1>6. CASE Fail(s)
    BY <1>1, <1>3, <1>6, StillFails
  <1>7. ASSUME NEW z \in zfs, z = SnapshotID(s), ~detached[s], Tell(s, "created")
        PROVE  OwnStep(s)
    <2>1. z \notin deferred
      BY <1>2, <1>7 DEF SnapshotsInv, Named
    <2>2. s \notin Volumes
      BY SnapshotsAssumption
    <2>3. Live(s)
      BY <1>7, <2>1, <2>2 DEF Live
    <2> QED BY <1>1, <1>2, <1>3, <1>7, <2>3, StillTells
  <1> QED BY <1>5, <1>6, <1>7 DEF FindSnapshot

LEMMA MakeSnapshotKeeps ==
    ASSUME SnapshotsInv, NEW s \in Snaps, MakeSnapshot(s)
    PROVE  OwnStep(s)
  <1> DEFINE z == SnapshotID(s)
  <1>1. s \in Objects /\ pc[s] = "sMake"
    BY DEF MakeSnapshot, Objects
  <1>2. want[s] = "create" /\ ~detached[s]
    BY <1>1, Suited DEF Suits, CreatePCs, RegularPCs
  <1>3. faults' \in Nat /\ faults' >= faults
    BY <1>1, Outcomes DEF MakeSnapshot
  <1>4. CASE Fail(s) /\ UNCHANGED storeVars
    BY <1>1, <1>3, <1>4, StillFails DEF TransferPCs
  <1>5. CASE CanSnapshot(z) /\ TakeSnapshot(z, TRUE) /\ (Fail(s) \/ Tell(s, "created"))
    <2>1. z \in SnapIDs /\ z.kind = "csi" /\ z.of = s
      BY <1>2, NameOf
    <2>2. StoreMove(s)
      BY <1>1, <1>5, <2>1 DEF StoreMove
    <2>3. z' = z /\ zfs' = zfs \cup {z} /\ deferred' = deferred
      BY <1>5 DEF TakeSnapshot, Fail, Tell, coVars, SnapshotID
    <2>4. Settled(z)'
      BY <2>1, <2>3 DEF Settled
    <2>5. OwnedBy(s)
      BY <1>1, <2>3, <2>4 DEF OwnedBy, Owns, TransferPCs
    <2>6. Live(s)'
      <3>1. z \notin deferred
        BY <1>5 DEF CanSnapshot, SnapshotsInv, Named
      <3>2. s \notin Volumes /\ detached' = detached
        BY <1>5, SnapshotsAssumption DEF Fail, Tell, coVars
      <3> QED BY <1>2, <2>3, <3>1, <3>2 DEF Live
    <2> QED BY <1>1, <1>2, <1>3, <1>5, <2>2, <2>5, <2>6, Fails, Tells
  <1> QED BY <1>4, <1>5 DEF MakeSnapshot

(***************************************************************************)
(* The detached mode                                                       *)
(***************************************************************************)

LEMMA FindDetachedKeeps ==
    ASSUME SnapshotsInv, NEW s \in Snaps, FindDetached(s) \/ GetTarget(s)
    PROVE  OwnStep(s)
  <1> USE DEF TransferPCs
  <1>1. s \in Objects /\ pc[s] \in {"xFind", "xGet"} /\ UNCHANGED storeVars
    BY DEF FindDetached, GetTarget, Objects
  <1>2. Suits(s, pc[s]) /\ want[s] = "create" /\ detached[s]
    BY <1>1, Suited DEF Suits, CreatePCs, DetachedPCs
  <1>3. faults' \in Nat /\ faults' >= faults
    BY <1>1, Outcomes DEF FindDetached, GetTarget
  <1>4. Suits(s, "xGet") /\ Suits(s, "xParent")
    BY <1>1, <1>2
    DEF Suits, PCs, CreatePCs, DeletePCs, SnapPCs, CopyPCs, RegularPCs, DetachedPCs
  <1>5. CASE Goto(s, "xGet") \/ (ds[s] = "none" /\ Goto(s, "xParent"))
    BY <1>1, <1>3, <1>4, <1>5, Proceeds
  <1>6. CASE Fail(s)
    BY <1>1, <1>3, <1>6, StillFails
  <1>7. CASE s \in marked /\ Tell(s, "created")
    <2>1. Live(s)
      BY <1>2, <1>7, SnapshotsAssumption DEF Live
    <2> QED BY <1>1, <1>2, <1>3, <1>7, <2>1, StillTells
  <1> QED BY <1>5, <1>6, <1>7 DEF FindDetached, GetTarget

LEMMA markDetachedSnapshotKeeps ==
    ASSUME SnapshotsInv, NEW s \in Snaps, markDetachedSnapshot(s)
    PROVE  OwnStep(s)
  <1>1. s \in Objects /\ pc[s] = "xMark"
    BY DEF markDetachedSnapshot, Objects
  <1>2. want[s] = "create" /\ detached[s]
    BY <1>1, Suited DEF Suits, CreatePCs, DetachedPCs
  <1>3. faults' \in Nat /\ faults' >= faults
    BY <1>1, Outcomes DEF markDetachedSnapshot
  <1>4. CASE Fail(s) /\ UNCHANGED storeVars
    BY <1>1, <1>3, <1>4, StillFails DEF TransferPCs
  <1>5. CASE /\ marked' = marked \cup {s}
             /\ UNCHANGED <<ds, zfs, managed, deferred, origin, job>>
             /\ Fail(s) \/ Tell(s, "created")
    <2>1. StoreMove(s)
      BY <1>1, <1>5 DEF StoreMove
    <2>2. OwnedBy(s)
      BY <1>1, <1>5, OwnsNothing DEF TransferPCs
    <2>3. Live(s)'
      <3>1. s \notin Volumes /\ detached' = detached /\ s \in marked'
        BY <1>5, SnapshotsAssumption DEF Fail, Tell, coVars
      <3> QED BY <1>2, <3>1 DEF Live
    <2> QED BY <1>1, <1>2, <1>3, <1>5, <2>1, <2>2, <2>3, Fails, Tells
  <1> QED BY <1>4, <1>5 DEF markDetachedSnapshot

\* GetVolumeInfo and cloneDetachedSnapshot look at the source, ensureDataset
\* makes the parents of the target of a detached snapshot.
LEMMA LooksKeep ==
    ASSUME SnapshotsInv, NEW o \in Objects,
           \/ o \in Snaps /\ GetVolumeInfo(o, "sInfo", Goto(o, "sFind"))
           \/ o \in Snaps /\ ensureDataset(o, "xParent", "xTemp")
           \/ o \in Copies /\ GetDetachedSource(o)
           \/ /\ o \in Copies
              /\ GetVolumeInfo(o, "vInfo", Goto(o, IF detached[o] THEN "xTemp" ELSE "vSnap"))
    PROVE  OwnStep(o)
  <1> USE DEF TransferPCs
  <1>1. pc[o] \in {"sInfo", "xParent", "xSource", "vInfo"} /\ UNCHANGED storeVars
    BY DEF GetVolumeInfo, ensureDataset, GetDetachedSource
  <1>2. Suits(o, pc[o])
    BY <1>1, Suited
  <1>3. faults' \in Nat /\ faults' >= faults
    BY Outcomes DEF GetVolumeInfo, ensureDataset, GetDetachedSource
  <1>4. CASE Fail(o)
    BY <1>1, <1>3, <1>4, StillFails
  <1>5. CASE pc[o] = "sInfo" /\ Goto(o, "sFind")
    <2>1. Suits(o, "sFind")
      BY <1>2, <1>5
      DEF Suits, PCs, CreatePCs, DeletePCs, SnapPCs, CopyPCs, RegularPCs, DetachedPCs
    <2> QED BY <1>1, <1>3, <1>5, <2>1, Proceeds
  <1>6. CASE pc[o] \in {"xParent", "xSource"} /\ Goto(o, "xTemp")
    <2>1. Suits(o, "xTemp")
      BY <1>2, <1>6
      DEF Suits, PCs, CreatePCs, DeletePCs, SnapPCs, CopyPCs, RegularPCs, DetachedPCs
    <2>2. o \in Snaps => ds[o] = "none"
      BY <1>2, <1>6, SnapshotsAssumption
      DEF Suits, CopyPCs, Volumes, SnapshotsInv, ObjectInv, Received
    <2> QED BY <1>1, <1>3, <1>6, <2>1, <2>2, Proceeds
  <1>7. CASE pc[o] = "vInfo" /\ Goto(o, IF detached[o] THEN "xTemp" ELSE "vSnap")
    <2>1. Suits(o, IF detached[o] THEN "xTemp" ELSE "vSnap")
      BY <1>2, <1>7
      DEF Suits, PCs, CreatePCs, DeletePCs, SnapPCs, CopyPCs, RegularPCs, DetachedPCs
    <2>2. o \notin Snaps
      BY <1>2, <1>7, SnapshotsAssumption DEF Suits, CopyPCs, Volumes
    <2> QED BY <1>1, <1>3, <1>7, <2>1, <2>2, Proceeds
  <1> QED BY <1>4, <1>5, <1>6, <1>7 DEF GetVolumeInfo, ensureDataset, GetDetachedSource

LEMMA SentToTarget ==
    ASSUME SnapshotsInv, NEW o \in Objects, NEW z, SentTo(z, o)
    PROVE  /\ OnTarget(z, o) \in SnapIDs /\ MayDelete(o, OnTarget(z, o))
           /\ OnTarget(z, o).on = o /\ OnTarget(z, o).of = z.of
           /\ OnTarget(z, o).kind = z.kind
  <1>1. z \in SnapIDs
    BY DEF SentTo
  <1>2. /\ OnTarget(z, o) \in SnapIDs
        /\ OnTarget(z, o).on = o /\ OnTarget(z, o).of = z.of
        /\ OnTarget(z, o).kind = z.kind
    BY <1>1 DEF OnTarget, SnapIDs
  <1>3. z.kind # "temp" => z.of = source[o]
    BY DEF SentTo, SnapshotID, Snapshot
  <1>4. MayDelete(o, OnTarget(z, o))
    BY <1>2, <1>3 DEF MayDelete
  <1> QED BY <1>2, <1>4

\* The name of a temporary snapshot
LEMMA TempName ==
    ASSUME SnapshotsInv, NEW o \in Copies \cup Snaps, want[o] # "none"
    PROVE  TempSnapshot(o) \in SnapIDs /\ TempSnapshot(o).kind = "temp"
  <1>1. o \in Objects /\ source[o] \in Objects
    BY DEF SnapshotsInv, ObjectInv, Sources, Objects, Volumes
  <1>2. CASE source[o] \in Volumes
    BY <1>1, <1>2 DEF TempSnapshot, Snapshot, SnapIDs
  <1>3. CASE source[o] \notin Volumes
    <2>1. source[o] \in Snaps /\ told[source[o]] # "none"
      BY <1>1, <1>3, SnapshotsAssumption DEF Objects, SnapshotsInv, ObjectInv, Sources
    <2>2. source[source[o]] \in Objects
      BY <1>1, <2>1 DEF SnapshotsInv, ObjectInv, Sources, Objects
    <2> QED BY <1>1, <1>3, <2>2 DEF TempSnapshot, Snapshot, SnapIDs
  <1> QED BY <1>2, <1>3

LEMMA createTemporarySnapshotKeeps ==
    ASSUME SnapshotsInv, NEW o \in Copies \cup Snaps, createTemporarySnapshot(o)
    PROVE  OwnStep(o)
  <1> DEFINE z == TempSnapshot(o)
  <1>1. o \in Objects /\ pc[o] = "xTemp"
    BY DEF createTemporarySnapshot, Objects, Volumes
  <1>2. Suits(o, "xTemp") /\ want[o] = "create" /\ detached[o]
    BY <1>1, Suited DEF Suits, CreatePCs, DetachedPCs
  <1>3. z \in SnapIDs /\ z.kind = "temp"
    BY <1>2, TempName
  <1>4. faults' \in Nat /\ faults' >= faults
    BY <1>1, Outcomes DEF createTemporarySnapshot
  <1>5. CASE Fail(o) /\ UNCHANGED storeVars
    BY <1>1, <1>4, <1>5, StillFails DEF TransferPCs
  <1>6. ASSUME CanSnapshot(z), TakeSnapshot(z, FALSE)
        PROVE  StoreMove(o) /\ UNCHANGED <<ds, job>> /\ zfs' = zfs \cup {z}
    BY <1>3, <1>6 DEF StoreMove, TakeSnapshot
  <1>7. CASE Dropped(o) /\ CanSnapshot(z) /\ TakeSnapshot(z, FALSE) /\ Fail(o)
    <2>1. OwnedBy(o)
      BY <1>1, <1>7, Outcomes DEF OwnedBy
    <2> QED BY <1>1, <1>4, <1>6, <1>7, <2>1, Fails
  <1>8. CASE /\ GotoWith(o, "tParent", z)
             /\ UNCHANGED storeVars \/ (CanSnapshot(z) /\ TakeSnapshot(z, FALSE))
    <2>1. StoreMove(o) /\ UNCHANGED <<ds, job>> /\ zfs' \subseteq zfs \cup {z}
      BY <1>6, <1>8 DEF StoreMove, storeVars
    <2>2. GoesTo(o, "tParent")
      BY <1>3, <1>8 DEF GoesTo
    <2>3. Suits(o, "tParent")
      BY <1>2 DEF Suits, PCs, CreatePCs, DeletePCs, SnapPCs, CopyPCs, RegularPCs, DetachedPCs
    <2>4. pc'[o] = "tParent" /\ snap'[o] = z
      BY <1>1, <1>4, <1>8, <2>2, <2>3, GoesOn DEF Suits
    <2>5. OwnedBy(o)
      BY <1>1, <1>3, <2>1, <2>4 DEF OwnedBy, Owns, TransferPCs
    <2>6. faults' = 0 => job'[o].state # "running" /\ (o \in Copies => ds'[o] # "partial")
      BY <1>1, <1>4, <2>1, MoveQuiet
    <2>7. o \in Snaps => ds[o] = "none"
      BY <1>1 DEF SnapshotsInv, ObjectInv, Received
    <2>8. Underway(o)'
      BY <1>3, <2>1, <2>4, <2>6, <2>7 DEF Underway, SentTo
    <2> QED BY <1>1, <1>4, <2>1, <2>2, <2>3, <2>5, <2>8, Advances
  <1> QED BY <1>5, <1>7, <1>8 DEF createTemporarySnapshot

\* In a transfer the request keeps its snapshot, whatever comes next.
LEMMA KeepsOwning ==
    ASSUME NEW o \in Objects, zfs' = zfs, snap' = snap, pc[o] \in TransferPCs,
           \/ pc[o] \in {"tParent", "tGet", "tRun"} /\ pc'[o] \in TransferPCs
           \/ pc'[o] \in {"tWait", "tDropTarget"}
    PROVE  OwnedBy(o)
  <1> SUFFICES ASSUME NEW z \in zfs, Owns(o, z) PROVE Owns(o, z)'
    BY DEF OwnedBy
  <1> QED BY DEF Owns, TransferPCs, OnTarget

LEMMA TransferGetKeeps ==
    ASSUME SnapshotsInv, NEW o \in Objects,
           ensureDataset(o, "tParent", "tGet") \/ TransferGet(o)
    PROVE  OwnStep(o)
  <1>1. pc[o] \in {"tParent", "tGet"} /\ UNCHANGED storeVars
    BY DEF ensureDataset, TransferGet
  <1>2. Suits(o, pc[o]) /\ Received(o) /\ Works_from(o)
    BY <1>1, Suited DEF SnapshotsInv, ObjectInv
  <1>3. faults' \in Nat /\ faults' >= faults
    BY <1>1, Outcomes DEF ensureDataset, TransferGet
  <1>4. StoreMove(o) /\ UNCHANGED <<ds, job, zfs>>
    BY <1>1 DEF StoreMove, storeVars
  <1>5. CASE Errs(o) /\ Fail(o)
    <2>1. OwnedBy(o)
      BY <1>5, Outcomes DEF OwnedBy
    <2> QED BY <1>1, <1>3, <1>4, <1>5, <2>1, Fails
  <1>6. ASSUME NEW p \in {"tGet", "tRun", "tDropTarget"},
               p # "tDropTarget" => Goto(o, p),
               p = "tRun" => ds[o] = "none",
               p = "tDropTarget" =>
                 GotoErr(o, p, TRUE) \/ (Goto(o, p) /\ ds[o] # "none" /\ pc[o] = "tGet")
        PROVE  OwnStep(o)
    <2>1. GoesTo(o, p)
      BY <1>6 DEF GoesTo
    <2>2. Suits(o, p)
      BY <1>1, <1>2
      DEF Suits, PCs, CreatePCs, DeletePCs, SnapPCs, CopyPCs, RegularPCs, DetachedPCs
    <2>3. /\ pc'[o] = p /\ snap' = snap /\ source' = source
          /\ GotoErr(o, p, TRUE) => failed'[o] = TRUE
      BY <1>1, <1>3, <1>6, <2>1, <2>2, GoesOn DEF Suits, coVars
    <2>4. OwnedBy(o)
      BY <1>1, <1>4, <2>3, KeepsOwning DEF TransferPCs
    <2>5. faults' = 0 => job'[o].state # "running" /\ (o \in Copies => ds'[o] # "partial")
      BY <1>1, <1>3, <1>4, MoveQuiet
    <2>6. SentTo(snap[o], o)' 
      BY <1>1, <1>2, <2>3 DEF Works_from, TransferPCs, SentTo, SnapshotID
    <2>7. Underway(o)'
      BY <1>1, <1>2, <1>4, <1>6, <2>3, <2>5, <2>6 DEF Underway, Received
    <2> QED BY <1>1, <1>3, <1>4, <2>1, <2>2, <2>4, <2>7, Advances
  <1>7. CASE Goto(o, "tGet")
    BY <1>6, <1>7
  <1>8. CASE ds[o] = "none" /\ Goto(o, "tRun")
    BY <1>6, <1>8
  <1>9. CASE pc[o] = "tGet" /\ ds[o] # "none" /\ Goto(o, "tDropTarget")
    BY <1>6, <1>9
  <1>10. CASE GotoErr(o, "tDropTarget", TRUE)
    BY <1>6, <1>10
  <1> QED BY <1>5, <1>7, <1>8, <1>9, <1>10 DEF ensureDataset, TransferGet

LEMMA RunReplicationOnetimeKeeps ==
    ASSUME SnapshotsInv, NEW o \in Objects, RunReplicationOnetime(o)
    PROVE  OwnStep(o)
  <1> DEFINE z == snap[o]
  <1>1. pc[o] = "tRun"
    BY DEF RunReplicationOnetime
  <1>2. Suits(o, "tRun") /\ Received(o) /\ SentTo(z, o)
    BY <1>1, Suited DEF SnapshotsInv, ObjectInv, Works_from, TransferPCs
  <1>3. faults' \in Nat /\ faults' >= faults
    BY <1>1, Outcomes DEF RunReplicationOnetime
  <1>4. Suits(o, "tWait") /\ Suits(o, "tDropTarget")
    BY <1>2 DEF Suits, PCs, CreatePCs, DeletePCs, SnapPCs, CopyPCs, RegularPCs, DetachedPCs
  <1>5. TypeStore
    BY DEF SnapshotsInv, TypeOK
  <1>6. ASSUME CanReplicate(z, o), Replicate(z, o)
        PROVE  /\ StoreMove(o) /\ zfs' = zfs /\ ds'[o] = "partial"
               /\ job'[o] = [state |-> "running", from |-> z]
    BY <1>1, <1>2, <1>5, <1>6 DEF StoreMove, Replicate, CanReplicate, TypeStore
  <1>7. CASE Works(o) /\ CanReplicate(z, o) /\ Replicate(z, o) /\ Goto(o, "tWait")
    <2>1. GoesTo(o, "tWait")
      BY <1>7 DEF GoesTo
    <2>2. pc'[o] = "tWait" /\ snap' = snap /\ source' = source
      BY <1>1, <1>3, <1>4, <1>7, <2>1, GoesOn DEF Suits, coVars
    <2>3. OwnedBy(o)
      BY <1>1, <1>6, <1>7, <2>2, KeepsOwning DEF TransferPCs
    <2>4. SentTo(snap[o], o)'
      BY <1>2, <2>2 DEF SentTo, SnapshotID
    <2>5. Underway(o)'
      BY <1>6, <1>7, <2>2, <2>4 DEF Underway
    <2> QED BY <1>1, <1>3, <1>4, <1>6, <1>7, <2>1, <2>3, <2>5, Advances
  <1>8. CASE /\ GotoErr(o, "tDropTarget", TRUE)
             /\ \/ UNCHANGED storeVars
                \/ Dropped(o) /\ CanReplicate(z, o) /\ Replicate(z, o)
    <2>1. GoesTo(o, "tDropTarget")
      BY <1>8 DEF GoesTo
    <2>2. pc'[o] = "tDropTarget" /\ snap' = snap /\ failed'[o] /\ source' = source
      BY <1>1, <1>3, <1>4, <1>8, <2>1, GoesOn DEF Suits, coVars
    <2>3. StoreMove(o) /\ zfs' = zfs
      BY <1>6, <1>8 DEF StoreMove, storeVars
    <2>4. OwnedBy(o)
      BY <1>1, <2>2, <2>3, KeepsOwning DEF TransferPCs
    <2>5. SentTo(snap[o], o)'
      BY <1>2, <2>2 DEF SentTo, SnapshotID
    <2>6. faults' = 0 => job'[o].state # "running" /\ (o \in Copies => ds'[o] # "partial")
      <3>1. CASE UNCHANGED storeVars
        BY <1>1, <1>2, <1>3, <3>1 DEF storeVars, Received, SnapshotsInv, TypeOK
      <3>2. CASE Dropped(o)
        BY <3>2, Outcomes
      <3> QED BY <1>8, <3>1, <3>2
    <2>7. Underway(o)'
      BY <2>2, <2>5, <2>6 DEF Underway
    <2> QED BY <1>1, <1>3, <1>4, <2>1, <2>3, <2>4, <2>7, Advances
  <1> QED BY <1>7, <1>8 DEF RunReplicationOnetime

LEMMA WaitForJobKeeps ==
    ASSUME SnapshotsInv, NEW o \in Objects, WaitForJob(o)
    PROVE  OwnStep(o)
  <1>1. pc[o] = "tWait" /\ UNCHANGED storeVars
    BY DEF WaitForJob
  <1>2. Suits(o, "tWait") /\ Received(o) /\ SentTo(snap[o], o)
    BY <1>1, Suited DEF SnapshotsInv, ObjectInv, Works_from, TransferPCs
  <1>3. faults' \in Nat /\ faults' >= faults
    BY <1>1, Outcomes DEF WaitForJob
  <1>4. StoreMove(o) /\ UNCHANGED <<ds, job, zfs>>
    BY <1>1 DEF StoreMove, storeVars
  <1>5. Suits(o, "tDropTarget")
    BY <1>2 DEF Suits, PCs, CreatePCs, DeletePCs, SnapPCs, CopyPCs, RegularPCs, DetachedPCs
  <1>6. PICK e \in BOOLEAN :
          /\ GotoErr(o, "tDropTarget", e)
          /\ \/ Works(o) /\ ~Receiving(o) /\ e = (job[o].state # "success")
             \/ Errs(o) /\ e
    BY DEF WaitForJob
  <1>7. GoesTo(o, "tDropTarget")
    BY <1>6 DEF GoesTo
  <1>8. pc'[o] = "tDropTarget" /\ snap' = snap /\ failed'[o] = (failed[o] \/ e) /\ source' = source
    BY <1>1, <1>3, <1>5, <1>6, <1>7, GoesOn DEF Suits, coVars
  <1>9. OwnedBy(o)
    BY <1>1, <1>4, <1>8, KeepsOwning DEF TransferPCs
  <1>10. SentTo(snap[o], o)'
    BY <1>2, <1>8 DEF SentTo, SnapshotID
  <1>11. faults' = 0 => job'[o].state # "running" /\ (o \in Copies => ds'[o] # "partial")
    <2>1. CASE Works(o) /\ ~Receiving(o)
      BY <1>2, <1>4, <2>1, Outcomes DEF Received, Receiving
    <2>2. CASE Errs(o)
      BY <2>2, Outcomes
    <2> QED BY <1>6, <2>1, <2>2
  <1>12. ~e => ds[o] = "whole"
    BY <1>2, <1>6 DEF Received
  <1>13. ~failed'[o] => ~e
    BY <1>8
  <1>14. Underway(o)'
    BY <1>4, <1>8, <1>10, <1>11, <1>12, <1>13 DEF Underway
  <1> QED BY <1>1, <1>3, <1>4, <1>5, <1>7, <1>9, <1>14, Advances

\* A snapshot that is deleted goes at once or with its last clone.
LEMMA Drops ==
    ASSUME SnapshotsInv, NEW z \in SnapIDs, client_DeleteSnapshot(z)
    PROVE  /\ UNCHANGED <<ds, job, origin, marked>> /\ zfs' \subseteq zfs
           /\ z \in zfs' => z \in deferred' /\ Settled(z)'
  <1>1. /\ UNCHANGED <<ds, job, origin, marked>> /\ zfs' \subseteq zfs
        /\ z \in zfs' => z \in deferred' /\ Clones(z) # {}
    BY DEF client_DeleteSnapshot
  <1>2. Clones(z)' = Clones(z)
    BY <1>1 DEF Clones
  <1> QED BY <1>1, <1>2 DEF Settled

\* While nothing failed, who receives from a temporary snapshot will delete it.
LEMMA SenderOwns ==
    ASSUME SnapshotsInv, faults = 0, NEW z \in SnapIDs, Sending(z)
    PROVE  \E w \in Objects : /\ pc[w] = "tWait" /\ snap[w] = z
                              /\ z.kind = "temp" \/ z = SnapshotID(source[w])
  <1>1. PICK w \in Objects : job[w].state = "running" /\ job[w].from = z
    BY DEF Sending, Receiving
  <1>2. pc[w] = "tWait" /\ snap[w] = z /\ SentTo(z, w)
    BY <1>1 DEF SnapshotsInv, ObjectInv, Received, Works_from
  <1> QED BY <1>2 DEF SentTo

\* The end of a transfer
LEMMA TransferredKeeps ==
    ASSUME SnapshotsInv, NEW o \in Copies \cup Snaps, NEW e \in BOOLEAN, Transferred(o, e),
           pc[o] \in {"tDropTarget", "tDropSource"},
           StoreMove(o), UNCHANGED <<ds, job>>, OwnedBy(o),
           faults' \in Nat, faults' >= faults
    PROVE  OwnStep(o)
  <1>1. o \in Objects
    BY DEF Objects, Volumes
  <1>2. CASE Fail(o)
    BY <1>1, <1>2, Fails
  <1>3. CASE ~failed[o] /\ Goto(o, IF o \in Snaps THEN "xMark" ELSE "cFinish")
    <2> DEFINE p == IF o \in Snaps THEN "xMark" ELSE "cFinish"
    <2>1. Suits(o, pc[o]) /\ Received(o)
      BY <1>1, Suited DEF SnapshotsInv, ObjectInv
    <2>2. Suits(o, p)
      BY <2>1 DEF Suits, PCs, CreatePCs, DeletePCs, SnapPCs, CopyPCs, RegularPCs, DetachedPCs
    <2>3. GoesTo(o, p)
      BY <1>3 DEF GoesTo
    <2>4. pc'[o] = p
      BY <1>1, <2>2, <2>3, GoesOn DEF Suits
    <2>5. faults' = 0 => job'[o].state # "running" /\ (o \in Copies => ds'[o] # "partial")
      BY <1>1, MoveQuiet
    <2>6. Underway(o)'
      BY <1>3, <2>1, <2>4, <2>5 DEF Underway, Received, TransferPCs
    <2> QED BY <1>1, <2>2, <2>3, <2>6, Advances
  <1> QED BY <1>2, <1>3 DEF Transferred

LEMMA DropSourceKeeps ==
    ASSUME SnapshotsInv, NEW o \in Copies \cup Snaps, DropSource(o)
    PROVE  OwnStep(o)
  <1> DEFINE z == snap[o]
  <1>1. o \in Objects /\ pc[o] = "tDropSource"
    BY DEF DropSource, DeleteIfPresent, Objects, Volumes
  <1>2. z \in SnapIDs /\ z.kind = "temp"
    BY <1>1 DEF SnapshotsInv, ObjectInv, Works_from, SentTo, TransferPCs
  <1>3. faults' \in Nat /\ faults' >= faults
    BY <1>1, Outcomes DEF DropSource, DeleteIfPresent
  <1>4. PICK e \in BOOLEAN : Transferred(o, e)
    BY DEF DropSource, DeleteIfPresent
  <1>5. CASE client_DeleteSnapshot(z)
    <2>1. StoreMove(o)
      BY <1>2, <1>5 DEF StoreMove, MayDelete
    <2>2. OwnedBy(o)
      BY <1>1, <1>2, <1>5, Drops DEF OwnedBy, Owns
    <2> QED BY <1>1, <1>2, <1>3, <1>4, <1>5, <2>1, <2>2, Drops, TransferredKeeps
  <1>6. CASE UNCHANGED storeVars /\ (Errs(o) \/ (Works(o) /\ Sending(z))) /\ Transferred(o, TRUE)
    <2>1. StoreMove(o) /\ UNCHANGED <<ds, job, zfs>>
      BY <1>6 DEF StoreMove, storeVars
    <2>2. OwnedBy(o)
      <3>1. CASE Errs(o)
        BY <1>1, <3>1, Outcomes DEF OwnedBy
      <3>2. CASE Works(o) /\ Sending(z)
        <4> SUFFICES ASSUME faults' = 0, NEW y \in zfs, Owns(o, y)
                     PROVE  \E w \in Objects : Owns(w, y)'
          BY <2>1 DEF OwnedBy
        <4>1. y = z /\ faults = 0
          BY <1>1, <3>2, Outcomes DEF Owns
        <4>2. PICK w \in Objects : pc[w] = "tWait" /\ snap[w] = z
          BY <1>2, <3>2, <4>1, SenderOwns
        <4>3. Fail(o) /\ w # o
          BY <1>1, <1>6, <4>2 DEF Transferred
        <4>4. pc'[w] = pc[w] /\ snap'[w] = snap[w]
          BY <1>1, <4>3 DEF Fail, Return, SnapshotsInv, TypeOK, TypeReq
        <4> QED BY <1>2, <4>1, <4>2, <4>4 DEF Owns, TransferPCs
      <3> QED BY <1>6, <3>1, <3>2
    <2> QED BY <1>1, <1>3, <1>4, <2>1, <2>2, TransferredKeeps
  <1> QED BY <1>5, <1>6 DEF DropSource, DeleteIfPresent

LEMMA DropTargetKeeps ==
    ASSUME SnapshotsInv, NEW o \in Copies \cup Snaps, DropTarget(o)
    PROVE  OwnStep(o)
  <1>0. PICK z : z = OnTarget(snap[o], o)
    OBVIOUS
  <1> DEFINE next(e) == IF snap[o].kind = "temp" THEN GotoErr(o, "tDropSource", e)
                        ELSE Transferred(o, e)
  <1>1. o \in Objects /\ pc[o] = "tDropTarget"
    BY DEF DropTarget, DeleteIfPresent, Objects, Volumes
  <1>2. Suits(o, "tDropTarget") /\ Received(o) /\ SentTo(snap[o], o)
    BY <1>1, Suited DEF SnapshotsInv, ObjectInv, Works_from, TransferPCs
  <1>3. /\ z \in SnapIDs /\ MayDelete(o, z)
        /\ z.on = o /\ z.of = snap[o].of /\ z.kind = snap[o].kind
    BY <1>0, <1>1, <1>2, SentToTarget
  <1>4. faults' \in Nat /\ faults' >= faults
    BY <1>1, Outcomes DEF DropTarget, DeleteIfPresent
  <1>5. PICK e \in BOOLEAN :
          /\ next(e)
          /\ \/ client_DeleteSnapshot(z)
             \/ UNCHANGED storeVars /\ (Errs(o) \/ (Works(o) /\ Sending(z)))
    BY <1>0 DEF DropTarget, DeleteIfPresent
  <1>6. /\ StoreMove(o) /\ UNCHANGED <<ds, job>> /\ zfs' \subseteq zfs
    <2>1. CASE client_DeleteSnapshot(z)
      BY <1>3, <2>1, Drops DEF StoreMove
    <2>2. CASE UNCHANGED storeVars
      BY <2>2 DEF StoreMove, storeVars
    <2> QED BY <1>5, <2>1, <2>2
  <1>7. ASSUME \A w \in Objects \ {o} : pc'[w] = pc[w] /\ snap'[w] = snap[w],
               faults' = 0, z \in zfs'
        PROVE  Settled(z)' \/ \E w \in Objects : Owns(w, z)'
    <2>1. CASE client_DeleteSnapshot(z)
      BY <1>3, <1>7, <2>1, Drops
    <2>2. CASE Errs(o)
      BY <1>1, <1>7, <2>2, Outcomes
    <2>3. CASE Works(o) /\ Sending(z)
      <3>1. PICK w \in Objects : /\ pc[w] = "tWait" /\ snap[w] = z
                                 /\ z.kind = "temp" \/ z = SnapshotID(source[w])
        BY <1>1, <1>3, <1>7, <2>3, SenderOwns, Outcomes
      <3>2. pc'[w] = "tWait" /\ snap'[w] = z
        BY <1>1, <1>7, <3>1
      <3>3. CASE z.kind = "temp"
        BY <3>2, <3>3 DEF Owns, TransferPCs
      <3>4. CASE z.kind # "temp" /\ z = SnapshotID(source[w])
        <4>1. z.of = source[o]
          BY <1>2, <1>3, <3>4 DEF SentTo, SnapshotID, Snapshot
        <4>2. z.of = source[w] /\ z.on = source[source[w]]
          BY <3>4 DEF SnapshotID, Snapshot
        <4>3. source[o] \in Objects /\ source[source[o]] = o
          BY <1>3, <4>1, <4>2 DEF SnapIDs
        <4> QED BY <1>1, <4>3, SnapshotsAssumption DEF SnapshotsInv, ObjectInv, Sources
      <3> QED BY <3>1, <3>3, <3>4
    <2> QED BY <1>5, <2>1, <2>2, <2>3
  <1>8. CASE snap[o].kind = "temp"
    <2>1. GotoErr(o, "tDropSource", e)
      BY <1>5, <1>8
    <2>2. GoesTo(o, "tDropSource")
      BY <2>1 DEF GoesTo
    <2>3. Suits(o, "tDropSource")
      BY <1>2 DEF Suits, PCs, CreatePCs, DeletePCs, SnapPCs, CopyPCs, RegularPCs, DetachedPCs
    <2>4. /\ pc'[o] = "tDropSource" /\ snap' = snap /\ failed'[o] = (failed[o] \/ e)
          /\ source' = source /\ ReqMove(o)
      BY <1>1, <1>4, <2>1, <2>2, <2>3, GoesOn DEF Suits, coVars
    <2>5. OwnedBy(o)
      <3> SUFFICES ASSUME faults' = 0, NEW y \in zfs', Owns(o, y)
                   PROVE  Settled(y)' \/ \E w \in Objects : Owns(w, y)'
        BY <1>6 DEF OwnedBy
      <3>1. CASE y = z
        BY <1>7, <2>4, <3>1 DEF ReqMove
      <3>2. CASE y = snap[o]
        BY <1>1, <1>8, <2>4, <3>2 DEF Owns, TransferPCs
      <3> QED BY <1>0, <1>1, <3>1, <3>2 DEF Owns
    <2>6. faults' = 0 => job'[o].state # "running" /\ (o \in Copies => ds'[o] # "partial")
      BY <1>1, <1>4, <1>6, MoveQuiet
    <2>7. SentTo(snap[o], o)'
      BY <1>2, <2>4 DEF SentTo, SnapshotID
    <2>8. Underway(o)'
      BY <1>1, <1>2, <1>6, <1>8, <2>4, <2>6, <2>7 DEF Underway, Received
    <2> QED BY <1>1, <1>4, <1>6, <2>2, <2>3, <2>5, <2>8, Advances
  <1>9. CASE snap[o].kind # "temp"
    <2>1. Transferred(o, e)
      BY <1>5, <1>9
    <2>2. \A w \in Objects \ {o} : pc'[w] = pc[w] /\ snap'[w] = snap[w]
      BY <1>1, <2>1 DEF Transferred, Fail, Return, Goto, SnapshotsInv, TypeOK, TypeReq
    <2>3. OwnedBy(o)
      <3> SUFFICES ASSUME faults' = 0, NEW y \in zfs', Owns(o, y)
                   PROVE  Settled(y)' \/ \E w \in Objects : Owns(w, y)'
        BY <1>6 DEF OwnedBy
      <3>1. y = z
        BY <1>0, <1>1, <1>9 DEF Owns, TransferPCs
      <3> QED BY <1>7, <2>2, <3>1
    <2> QED BY <1>1, <1>4, <1>6, <2>1, <2>3, TransferredKeeps
  <1> QED BY <1>8, <1>9

(***************************************************************************)
(* CreateVolume from a content source                                      *)
(***************************************************************************)

LEMMA CopyFromKeeps ==
    ASSUME SnapshotsInv, NEW c \in Copies, pc[c] = "cAgain", CopyFrom(c), UNCHANGED storeVars,
           faults' \in Nat, faults' >= faults
    PROVE  OwnStep(c)
  <1> DEFINE x == source[c]
  <1>1. c \in Objects /\ c \in Volumes /\ c \notin Snaps
    BY SnapshotsAssumption DEF Objects, Volumes
  <1>2. Suits(c, "cAgain") /\ Sources(c) /\ Received(c) /\ want[c] = "create"
    BY <1>1, Suited DEF SnapshotsInv, ObjectInv, Suits, CreatePCs
  <1>3. StoreMove(c) /\ UNCHANGED <<ds, job, zfs>>
    BY DEF StoreMove, storeVars
  <1>4. OwnedBy(c)
    BY <1>1, <1>3, OwnsNothing DEF TransferPCs
  <1>5. faults' = 0 => job'[c].state # "running" /\ ds'[c] # "partial"
    BY <1>1, <1>3, MoveQuiet
  <1>6. CASE x \in Volumes \/ (detached[c] /\ Goto(c, "xSource"))
    <2>1. PICK p \in {"vInfo", "xSource"} : Goto(c, p) /\ (p = "xSource" => detached[c])
      BY <1>6 DEF CopyFrom
    <2>2. Suits(c, p)
      BY <1>1, <1>2, <2>1
      DEF Suits, PCs, CreatePCs, DeletePCs, SnapPCs, CopyPCs, RegularPCs, DetachedPCs
    <2> QED BY <1>1, <2>1, <2>2, Proceeds DEF TransferPCs
  <1>7. ASSUME x \notin Volumes, NEW p \in {"cClone", "tParent"},
               p = IF detached[c] THEN "tParent" ELSE "cClone",
               GotoWith(c, p, SnapshotID(x))
        PROVE  OwnStep(c)
    <2>1. x \in Snaps /\ want[x] # "none"
      <3>1. x \in Objects
        BY <1>2 DEF Sources
      <3>2. told[x] # "none"
        BY <1>2, <3>1, SnapshotsAssumption DEF Sources
      <3> QED BY <1>7, <3>1, <3>2 DEF SnapshotsInv, ObjectInv, Sources, Objects
    <2>2. SnapshotID(x) \in SnapIDs
      BY <2>1, NameOf
    <2>3. GoesTo(c, p)
      BY <1>7, <2>2 DEF GoesTo
    <2>4. Suits(c, p)
      BY <1>1, <1>2, <1>7
      DEF Suits, PCs, CreatePCs, DeletePCs, SnapPCs, CopyPCs, RegularPCs, DetachedPCs
    <2>5. pc'[c] = p /\ snap'[c] = SnapshotID(x) /\ source' = source
      BY <1>1, <1>7, <2>3, <2>4, GoesOn DEF Suits, coVars
    <2>6. SentTo(snap[c], c)'
      BY <2>2, <2>5 DEF SentTo, SnapshotID
    <2>7. Underway(c)'
      BY <1>1, <1>3, <1>5, <1>7, <2>2, <2>5, <2>6 DEF Underway
    <2> QED BY <1>1, <1>3, <1>4, <2>3, <2>4, <2>7, Advances
  <1> QED BY <1>6, <1>7 DEF CopyFrom

LEMMA CreateGetKeeps ==
    ASSUME SnapshotsInv, NEW c \in Copies,
           CreateGet(c, "cGet", Goto(c, "cAgain")) \/ CreateGet(c, "cAgain", CopyFrom(c))
    PROVE  OwnStep(c)
  <1>1. /\ c \in Objects /\ c \in Volumes /\ c \notin Snaps
        /\ pc[c] \in {"cGet", "cAgain"} /\ UNCHANGED storeVars
    BY SnapshotsAssumption DEF Objects, Volumes, CreateGet
  <1>2. Suits(c, pc[c]) /\ want[c] = "create"
    BY <1>1, Suited DEF Suits, CreatePCs
  <1>3. faults' \in Nat /\ faults' >= faults
    BY <1>1, Outcomes DEF CreateGet
  <1>4. CASE ds[c] # "none" /\ Tell(c, "created")
    <2>1. Live(c)
      BY <1>1, <1>4 DEF Live
    <2> QED BY <1>1, <1>2, <1>3, <1>4, <2>1, StillTells DEF TransferPCs
  <1>5. CASE Goto(c, "cAgain")
    <2>1. Suits(c, "cAgain")
      BY <1>1, <1>2
      DEF Suits, PCs, CreatePCs, DeletePCs, SnapPCs, CopyPCs, RegularPCs, DetachedPCs
    <2> QED BY <1>1, <1>3, <1>5, <2>1, Proceeds DEF TransferPCs
  <1>6. CASE pc[c] = "cAgain" /\ CopyFrom(c)
    BY <1>1, <1>3, <1>6, CopyFromKeeps
  <1> QED BY <1>4, <1>5, <1>6 DEF CreateGet

LEMMA SnapshotVolumeKeeps ==
    ASSUME SnapshotsInv, NEW c \in Copies, SnapshotVolume(c)
    PROVE  OwnStep(c)
  <1>1. c \in Objects /\ c \notin Snaps /\ pc[c] = "vSnap"
    BY SnapshotsAssumption DEF Objects, Volumes, SnapshotVolume
  <1>2. Suits(c, "vSnap") /\ source[c] \in Objects
    BY <1>1, Suited DEF Suits, CreatePCs, SnapshotsInv, ObjectInv, Sources
  <1> DEFINE Ended(z) ==
        \/ Works(c) /\ CanSnapshot(z) /\ TakeSnapshot(z, TRUE) /\ GotoWith(c, "cClone", z)
        \/ (Errs(c) \/ (Works(c) /\ ~CanSnapshot(z))) /\ Fail(c) /\ UNCHANGED storeVars
        \/ Dropped(c) /\ CanSnapshot(z) /\ TakeSnapshot(z, TRUE) /\ Fail(c)
  <1>3. PICK n \in Unused(c) : Ended(Snapshot(source[c], "clone", c, n))
    BY DEF SnapshotVolume
  <1>z. PICK z : z = Snapshot(source[c], "clone", c, n) /\ Ended(z)
    BY <1>3
  <1>4. z \in SnapIDs /\ z.kind = "clone"
    <2>1. n \in Nat
      BY SnapshotsAssumption DEF Unused
    <2> QED BY <1>1, <1>2, <1>z, <2>1 DEF Snapshot, SnapIDs
  <1>5. faults' \in Nat /\ faults' >= faults
    BY <1>1, <1>z, Outcomes
  <1>6. ASSUME CanSnapshot(z), TakeSnapshot(z, TRUE)
        PROVE  StoreMove(c) /\ zfs' = zfs \cup {z} /\ UNCHANGED <<ds, job>>
    BY <1>4, <1>6 DEF StoreMove, TakeSnapshot
  <1>7. CASE Fail(c) /\ UNCHANGED storeVars
    BY <1>1, <1>5, <1>7, StillFails DEF TransferPCs
  <1>8. CASE Dropped(c) /\ CanSnapshot(z) /\ TakeSnapshot(z, TRUE) /\ Fail(c)
    <2>1. OwnedBy(c)
      BY <1>1, <1>8, Outcomes DEF OwnedBy
    <2> QED BY <1>1, <1>5, <1>6, <1>8, <2>1, Fails
  <1>9. CASE CanSnapshot(z) /\ TakeSnapshot(z, TRUE) /\ GotoWith(c, "cClone", z)
    <2>1. GoesTo(c, "cClone")
      BY <1>4, <1>9 DEF GoesTo
    <2>2. Suits(c, "cClone")
      BY <1>2 DEF Suits, PCs, CreatePCs, DeletePCs, SnapPCs, CopyPCs, RegularPCs, DetachedPCs
    <2>3. pc'[c] = "cClone" /\ snap'[c] = z
      BY <1>1, <1>5, <1>9, <2>1, <2>2, GoesOn DEF Suits
    <2>4. OwnedBy(c)
      BY <1>1, <1>4, <1>6, <1>9, <2>3 DEF OwnedBy, Owns, TransferPCs
    <2>5. faults' = 0 => job'[c].state # "running" /\ ds'[c] # "partial"
      BY <1>1, <1>5, <1>6, <1>9, MoveQuiet
    <2>6. Underway(c)'
      BY <1>1, <1>4, <2>3, <2>5 DEF Underway, TransferPCs
    <2> QED BY <1>1, <1>5, <1>6, <1>9, <2>1, <2>2, <2>4, <2>6, Advances
  <1> QED BY <1>z, <1>7, <1>8, <1>9

LEMMA CloneSnapshotKeeps ==
    ASSUME SnapshotsInv, NEW c \in Copies, CloneSnapshot(c)
    PROVE  OwnStep(c)
  <1>0. PICK z : z = snap[c]
    OBVIOUS
  <1> DEFINE next(e) == IF z.kind = "clone" THEN GotoErr(c, "vDrop", e)
                        ELSE IF e THEN Fail(c) ELSE Goto(c, "cFinish")
  <1>1. c \in Objects /\ c \notin Snaps /\ pc[c] = "cClone"
    BY SnapshotsAssumption DEF Objects, Volumes, CloneSnapshot
  <1>2. Suits(c, "cClone") /\ z \in SnapIDs /\ TypeStore
    BY <1>0, <1>1, Suited DEF SnapshotsInv, ObjectInv, Works_from, TypeOK
  <1>3. faults' \in Nat /\ faults' >= faults
    BY <1>1, Outcomes DEF CloneSnapshot
  <1>4. PICK e \in BOOLEAN :
          /\ next(e)
          /\ \/ CanClone(z, c) /\ MakeClone(z, c)
             \/ e /\ UNCHANGED storeVars
    BY <1>0 DEF CloneSnapshot
  <1>5. /\ StoreMove(c) /\ zfs' = zfs
        /\ ~e => ds'[c] = "whole"
    <2>1. CASE CanClone(z, c) /\ MakeClone(z, c)
      BY <1>1, <1>2, <2>1 DEF StoreMove, CanClone, MakeClone, TypeStore
    <2>2. CASE e /\ UNCHANGED storeVars
      BY <2>2 DEF StoreMove, storeVars
    <2> QED BY <1>4, <2>1, <2>2
  <1>6. faults' = 0 => job'[c].state # "running" /\ ds'[c] # "partial"
    BY <1>1, <1>3, <1>5, MoveQuiet
  <1>7. Suits(c, "vDrop") /\ Suits(c, "cFinish")
    BY <1>2 DEF Suits, PCs, CreatePCs, DeletePCs, SnapPCs, CopyPCs, RegularPCs, DetachedPCs
  <1>8. CASE z.kind = "clone"
    <2>1. GotoErr(c, "vDrop", e)
      BY <1>4, <1>8
    <2>2. GoesTo(c, "vDrop")
      BY <2>1 DEF GoesTo
    <2>3. pc'[c] = "vDrop" /\ snap' = snap /\ failed'[c] = (failed[c] \/ e)
      BY <1>1, <1>3, <1>7, <2>1, <2>2, GoesOn DEF Suits
    <2>4. OwnedBy(c)
      BY <1>0, <1>1, <1>5, <1>8, <2>3 DEF OwnedBy, Owns, TransferPCs
    <2>5. Underway(c)'
      BY <1>0, <1>1, <1>2, <1>5, <1>6, <1>8, <2>3 DEF Underway, TransferPCs
    <2> QED BY <1>1, <1>3, <1>5, <1>7, <2>2, <2>4, <2>5, Advances
  <1>9. CASE z.kind # "clone"
    <2>1. OwnedBy(c)
      BY <1>0, <1>1, <1>5, <1>9 DEF OwnedBy, Owns, TransferPCs
    <2>2. CASE Fail(c)
      BY <1>1, <1>3, <1>5, <2>1, <2>2, Fails
    <2>3. CASE ~e /\ Goto(c, "cFinish")
      <3>1. GoesTo(c, "cFinish")
        BY <2>3 DEF GoesTo
      <3>2. pc'[c] = "cFinish"
        BY <1>1, <1>3, <1>7, <3>1, GoesOn DEF Suits
      <3>3. Underway(c)'
        BY <1>1, <1>5, <1>6, <2>3, <3>2 DEF Underway, TransferPCs
      <3> QED BY <1>1, <1>3, <1>5, <1>7, <2>1, <3>1, <3>3, Advances
    <2> QED BY <1>4, <1>9, <2>2, <2>3
  <1> QED BY <1>8, <1>9

LEMMA DropCloneSourceKeeps ==
    ASSUME SnapshotsInv, NEW c \in Copies, DropCloneSource(c)
    PROVE  OwnStep(c)
  <1>0. PICK z : z = snap[c]
    OBVIOUS
  <1>1. c \in Objects /\ c \notin Snaps /\ pc[c] = "vDrop"
    BY SnapshotsAssumption DEF Objects, Volumes, DropCloneSource, DeleteIfPresent
  <1>2. Suits(c, "vDrop") /\ Received(c) /\ z \in SnapIDs /\ z.kind = "clone"
    BY <1>0, <1>1, Suited DEF SnapshotsInv, ObjectInv, Works_from
  <1>3. faults' \in Nat /\ faults' >= faults
    BY <1>1, Outcomes DEF DropCloneSource, DeleteIfPresent
  <1>4. /\ IF failed[c] THEN Fail(c) ELSE Goto(c, "cFinish")
        /\ \/ client_DeleteSnapshot(z)
           \/ UNCHANGED storeVars /\ (Errs(c) \/ (Works(c) /\ Sending(z)))
    BY <1>0 DEF DropCloneSource, DeleteIfPresent
  <1>5. StoreMove(c) /\ UNCHANGED <<ds, job>> /\ zfs' \subseteq zfs
    <2>1. CASE client_DeleteSnapshot(z)
      BY <1>2, <2>1, Drops DEF StoreMove, MayDelete
    <2>2. CASE UNCHANGED storeVars
      BY <2>2 DEF StoreMove, storeVars
    <2> QED BY <1>4, <2>1, <2>2
  <1>6. OwnedBy(c)
    <2> SUFFICES ASSUME faults' = 0, NEW y \in zfs', Owns(c, y)
                 PROVE  Settled(y)'
      BY <1>5 DEF OwnedBy
    <2>1. y = z
      BY <1>0, <1>1 DEF Owns, TransferPCs
    <2>2. CASE client_DeleteSnapshot(z)
      BY <1>2, <2>1, <2>2, Drops
    <2>3. CASE Errs(c)
      BY <1>1, <2>3, Outcomes
    <2>4. CASE Works(c) /\ Sending(z)
      <3>1. PICK w \in Objects : z.kind = "temp" \/ z = SnapshotID(source[w])
        BY <1>1, <1>2, <2>4, SenderOwns, Outcomes
      <3> QED BY <1>2, <3>1 DEF SnapshotID, Snapshot
    <2> QED BY <1>4, <2>2, <2>3, <2>4
  <1>7. CASE Fail(c)
    BY <1>1, <1>3, <1>5, <1>6, <1>7, Fails
  <1>8. CASE ~failed[c] /\ Goto(c, "cFinish")
    <2>1. GoesTo(c, "cFinish")
      BY <1>8 DEF GoesTo
    <2>2. Suits(c, "cFinish")
      BY <1>2 DEF Suits, PCs, CreatePCs, DeletePCs, SnapPCs, CopyPCs, RegularPCs, DetachedPCs
    <2>3. pc'[c] = "cFinish"
      BY <1>1, <1>3, <2>1, <2>2, GoesOn DEF Suits
    <2>4. faults' = 0 => job'[c].state # "running" /\ ds'[c] # "partial"
      BY <1>1, <1>3, <1>5, MoveQuiet
    <2>5. Underway(c)'
      BY <1>1, <1>2, <1>5, <1>8, <2>3, <2>4 DEF Underway, Received, TransferPCs
    <2> QED BY <1>1, <1>3, <1>5, <1>6, <2>1, <2>2, <2>5, Advances
  <1> QED BY <1>4, <1>7, <1>8

LEMMA FinishCopyKeeps ==
    ASSUME SnapshotsInv, NEW c \in Copies, FinishCopy(c) \/ UndoCopy(c)
    PROVE  OwnStep(c)
  <1>1. /\ c \in Objects /\ c \in Volumes /\ c \notin Snaps
        /\ pc[c] \in {"cFinish", "cUndo"}
    BY SnapshotsAssumption DEF Objects, Volumes, FinishCopy, UndoCopy
  <1>2. Suits(c, pc[c]) /\ want[c] = "create"
    BY <1>1, Suited DEF Suits, CreatePCs
  <1>3. faults' \in Nat /\ faults' >= faults
    BY <1>1, Outcomes DEF FinishCopy, UndoCopy
  <1>4. CASE FinishCopy(c) /\ Tell(c, "created")
    <2>1. Live(c)
      BY <1>1, <1>4 DEF FinishCopy, Live, SnapshotsInv, ObjectInv, Received
    <2> QED BY <1>1, <1>2, <1>3, <1>4, <2>1, StillTells DEF FinishCopy, TransferPCs
  <1>5. CASE Fail(c) /\ UNCHANGED storeVars
    BY <1>1, <1>3, <1>5, StillFails DEF TransferPCs
  <1>6. CASE Goto(c, "cUndo") /\ UNCHANGED storeVars
    <2>1. Suits(c, "cUndo")
      BY <1>1, <1>2
      DEF Suits, PCs, CreatePCs, DeletePCs, SnapPCs, CopyPCs, RegularPCs, DetachedPCs
    <2> QED BY <1>1, <1>3, <1>6, <2>1, Proceeds DEF TransferPCs
  <1>7. CASE pc[c] = "cUndo" /\ Destroy(c) /\ Fail(c)
    <2>1. StoreMove(c) /\ zfs' \subseteq zfs
      BY <1>7 DEF StoreMove, Destroy
    <2>2. OwnedBy(c)
      BY <1>1, <1>7, <2>1, OwnsNothing DEF TransferPCs
    <2> QED BY <1>1, <1>3, <1>7, <2>1, <2>2, Fails
  <1> QED BY <1>4, <1>5, <1>6, <1>7 DEF FinishCopy, UndoCopy

(***************************************************************************)
(* DeleteSnapshot and DeleteVolume                                         *)
(***************************************************************************)

LEMMA DeleteRegularKeeps ==
    ASSUME SnapshotsInv, NEW s \in Snaps, DeleteRegular(s)
    PROVE  OwnStep(s)
  <1> DEFINE z == SnapshotID(s)
  <1>1. s \in Objects /\ s \notin Volumes /\ pc[s] = "rSnap"
    BY SnapshotsAssumption DEF Objects, DeleteRegular, DeleteIfPresent
  <1>2. want[s] = "delete" /\ ~detached[s]
    BY <1>1, Suited DEF Suits, DeletePCs, RegularPCs
  <1>3. z \in SnapIDs
    BY <1>2, NameOf
  <1>4. faults' \in Nat /\ faults' >= faults
    BY <1>1, Outcomes DEF DeleteRegular, DeleteIfPresent
  <1>5. CASE Fail(s) /\ UNCHANGED storeVars
    BY <1>1, <1>4, <1>5, StillFails DEF TransferPCs
  <1>6. CASE client_DeleteSnapshot(z) /\ (Tell(s, "deleted") \/ Fail(s))
    <2>1. StoreMove(s)
      BY <1>2, <1>3, <1>6 DEF StoreMove, MayDelete
    <2>2. OwnedBy(s)
      BY <1>1, <1>3, <1>6, Drops, OwnsNothing DEF TransferPCs
    <2>3. z' = z /\ detached' = detached
      BY <1>6 DEF Tell, Fail, coVars, SnapshotID
    <2>4. z \in zfs' => z \in deferred'
      BY <1>3, <1>6, Drops
    <2>5. ~Live(s)'
      BY <1>1, <1>2, <2>3, <2>4 DEF Live
    <2> QED BY <1>1, <1>2, <1>4, <1>6, <2>1, <2>2, <2>5, Fails, Tells
  <1> QED BY <1>5, <1>6 DEF DeleteRegular, DeleteIfPresent

LEMMA GetDetachedKeeps ==
    ASSUME SnapshotsInv, NEW s \in Snaps, GetDetached(s)
    PROVE  OwnStep(s)
  <1>1. s \in Objects /\ s \notin Volumes /\ pc[s] = "rGet" /\ UNCHANGED storeVars
    BY SnapshotsAssumption DEF Objects, GetDetached
  <1>2. Suits(s, "rGet") /\ want[s] = "delete" /\ detached[s]
    BY <1>1, Suited DEF Suits, DeletePCs, DetachedPCs
  <1>3. faults' \in Nat /\ faults' >= faults
    BY <1>1, Outcomes DEF GetDetached
  <1>4. CASE Fail(s)
    BY <1>1, <1>3, <1>4, StillFails DEF TransferPCs
  <1>5. CASE ds[s] = "none" /\ Tell(s, "deleted")
    <2>1. ~Live(s)
      BY <1>1, <1>2, <1>5 DEF Live, SnapshotsInv, ObjectInv, Received
    <2> QED BY <1>1, <1>2, <1>3, <1>5, <2>1, StillTells DEF TransferPCs
  <1>6. CASE Goto(s, "rDataset")
    <2>1. Suits(s, "rDataset")
      BY <1>2 DEF Suits, PCs, CreatePCs, DeletePCs, SnapPCs, CopyPCs, RegularPCs, DetachedPCs
    <2> QED BY <1>1, <1>3, <1>6, <2>1, Proceeds DEF TransferPCs
  <1> QED BY <1>4, <1>5, <1>6 DEF GetDetached

LEMMA DeleteGetKeeps ==
    ASSUME SnapshotsInv, NEW v \in Volumes, DeleteGet(v)
    PROVE  OwnStep(v)
  <1>1. v \in Objects /\ pc[v] = "dGet" /\ UNCHANGED storeVars
    BY DEF Objects, DeleteGet
  <1>2. Suits(v, "dGet") /\ want[v] = "delete"
    BY <1>1, Suited DEF Suits, DeletePCs
  <1>3. faults' \in Nat /\ faults' >= faults
    BY <1>1, Outcomes DEF DeleteGet
  <1>4. CASE Fail(v)
    BY <1>1, <1>3, <1>4, StillFails DEF TransferPCs
  <1>5. CASE ds[v] = "none" /\ Tell(v, "deleted")
    <2>1. ~Live(v)
      BY <1>5 DEF Live
    <2> QED BY <1>1, <1>2, <1>3, <1>5, <2>1, StillTells DEF TransferPCs
  <1>6. CASE Goto(v, "dList")
    <2>1. Suits(v, "dList")
      BY <1>2 DEF Suits, PCs, CreatePCs, DeletePCs, SnapPCs, CopyPCs, RegularPCs, DetachedPCs
    <2> QED BY <1>1, <1>3, <1>6, <2>1, Proceeds DEF TransferPCs
  <1> QED BY <1>4, <1>5, <1>6 DEF DeleteGet

\* A volume without snapshots that depend on it has no CSI snapshot.
LEMMA DeleteListKeeps ==
    ASSUME SnapshotsInv, NEW v \in Volumes, DeleteList(v)
    PROVE  OwnStep(v)
  <1>1. v \in Objects /\ v \notin Snaps /\ pc[v] = "dList" /\ UNCHANGED storeVars
    BY SnapshotsAssumption DEF Objects, DeleteList
  <1>2. Suits(v, "dList")
    BY <1>1, Suited
  <1>3. faults' \in Nat /\ faults' >= faults
    BY <1>1, Outcomes DEF DeleteList
  <1>4. CASE Fail(v)
    BY <1>1, <1>3, <1>4, StillFails DEF TransferPCs
  <1>5. CASE ~hasSourceDependentSnapshot(v) /\ Goto(v, "dDataset")
    <2>1. GoesTo(v, "dDataset")
      BY <1>5 DEF GoesTo
    <2>2. Suits(v, "dDataset")
      BY <1>2 DEF Suits, PCs, CreatePCs, DeletePCs, SnapPCs, CopyPCs, RegularPCs, DetachedPCs
    <2>3. pc'[v] = "dDataset" /\ UNCHANGED <<source, detached>>
      BY <1>1, <1>3, <2>1, <2>2, GoesOn DEF Suits, coVars
    <2>4. StoreMove(v) /\ UNCHANGED <<ds, job, zfs>>
      BY <1>1 DEF StoreMove, storeVars
    <2>5. OwnedBy(v)
      BY <1>1, <2>4, OwnsNothing DEF TransferPCs
    <2>6. faults' = 0 => job'[v].state # "running" /\ (v \in Copies => ds'[v] # "partial")
      BY <1>1, <1>3, <2>4, MoveQuiet
    <2>7. Underway(v)'
      BY <1>1, <2>3, <2>6 DEF Underway, TransferPCs
    <2>8. Unneeded(v)'
      <3> SUFFICES ASSUME NEW s \in Snaps, source'[s] = v, SnapshotID(s)' \in zfs', ~detached'[s]
                   PROVE  FALSE
        BY DEF Unneeded
      <3>1. SnapshotID(s)' = SnapshotID(s) /\ source[s] = v /\ SnapshotID(s) \in zfs /\ ~detached[s]
        BY <2>3, <2>4 DEF SnapshotID
      <3>2. /\ SnapshotID(s).on = v /\ SnapshotID(s).of = s
            /\ SnapshotID(s).kind = "csi" /\ SnapshotID(s) \notin managed
        BY <1>5, <3>1 DEF hasSourceDependentSnapshot, SnapshotID, Snapshot
      <3>3. source[v] = s /\ s \in Objects /\ s # None
        BY <3>1, <3>2, SnapshotsAssumption DEF SnapshotsInv, Named, Objects
      <3> QED BY <1>1, <3>1, <3>3 DEF SnapshotsInv, ObjectInv, Sources
    <2> QED BY <1>1, <1>3, <2>1, <2>2, <2>4, <2>5, <2>7, <2>8, Advances
  <1> QED BY <1>4, <1>5 DEF DeleteList

LEMMA DeleteDatasetKeeps ==
    ASSUME SnapshotsInv, NEW o \in Objects, DeleteDataset(o)
    PROVE  OwnStep(o)
  <1>1. pc[o] \in {"dDataset", "rDataset"}
    BY DEF DeleteDataset
  <1>2. want[o] = "delete" /\ (o \notin Volumes => detached[o])
    BY <1>1, Suited DEF Suits, DeletePCs, DetachedPCs
  <1>3. faults' \in Nat /\ faults' >= faults
    BY Outcomes DEF DeleteDataset
  <1>4. CASE Fail(o) /\ UNCHANGED storeVars
    BY <1>1, <1>3, <1>4, StillFails DEF TransferPCs
  <1>5. CASE Destroy(o) /\ (Tell(o, "deleted") \/ Fail(o))
    <2>1. StoreMove(o) /\ zfs' \subseteq zfs
      BY <1>1, <1>5 DEF StoreMove, Destroy
    <2>2. OwnedBy(o)
      BY <1>1, <2>1, OwnsNothing DEF TransferPCs
    <2>3. ds'[o] = "none" /\ o \notin marked'
      BY <1>5 DEF Destroy, SnapshotsInv, TypeOK, TypeStore
    <2>4. detached' = detached
      BY <1>5 DEF Tell, Fail, coVars
    <2>5. ~Live(o)'
      BY <1>2, <2>3, <2>4 DEF Live
    <2> QED BY <1>1, <1>2, <1>3, <1>5, <2>1, <2>2, <2>5, Fails, Tells
  <1> QED BY <1>4, <1>5 DEF DeleteDataset

LEMMA StepKeeps ==
    ASSUME SnapshotsInv, NEW o \in Objects, Step(o)
    PROVE  OwnStep(o)
  <1>1. CASE o \in Snaps /\ SnapshotStep(o)
    BY <1>1, LooksKeep, FindSnapshotKeeps, MakeSnapshotKeeps, FindDetachedKeeps,
       markDetachedSnapshotKeeps, DeleteRegularKeeps, GetDetachedKeeps DEF SnapshotStep
  <1>2. CASE o \in Copies /\ CopyStep(o)
    BY <1>2, LooksKeep, CreateGetKeeps, SnapshotVolumeKeeps, CloneSnapshotKeeps,
       DropCloneSourceKeeps, FinishCopyKeeps DEF CopyStep
  <1>3. CASE o \in Copies \cup Snaps /\ TransferStep(o)
    BY <1>3, createTemporarySnapshotKeeps, TransferGetKeeps, RunReplicationOnetimeKeeps,
       WaitForJobKeeps, DropTargetKeeps, DropSourceKeeps DEF TransferStep
  <1>4. CASE o \in Volumes /\ DeleteStep(o)
    BY <1>4, DeleteGetKeeps, DeleteListKeeps DEF DeleteStep
  <1>5. CASE DeleteDataset(o)
    BY <1>5, DeleteDatasetKeeps
  <1> QED BY <1>1, <1>2, <1>3, <1>4, <1>5 DEF Step

(***************************************************************************)
(* The steps of jobs, of the orchestrator, and faults                      *)
(***************************************************************************)

\* What a job leaves on its target is not a CSI snapshot.
LEMMA ReceivedName ==
    ASSUME SnapshotsInv, NEW d \in Objects, Receiving(d), NEW s \in Snaps
    PROVE  /\ SentTo(job[d].from, d)
           /\ OnTarget(job[d].from, d) # SnapshotID(s)
  <1> DEFINE y == OnTarget(job[d].from, d)
  <1>1. SentTo(job[d].from, d)
    BY DEF Receiving, SnapshotsInv, ObjectInv, Works_from
  <1>2. y.on = d /\ y.of = job[d].from.of /\ y.kind = job[d].from.kind
    BY <1>1, SentToTarget
  <1> SUFFICES ASSUME y = SnapshotID(s) PROVE FALSE
    BY <1>1
  <1>3. y.kind = "csi" /\ source[s] = d /\ y.of = s
    BY <1>2 DEF SnapshotID, Snapshot
  <1>4. source[d] = s
    <2>1. job[d].from = SnapshotID(source[d])
      BY <1>1, <1>2, <1>3 DEF SentTo
    <2>2. job[d].from.of = source[d]
      BY <2>1 DEF SnapshotID, Snapshot
    <2> QED BY <1>2, <1>3, <2>2
  <1> QED BY <1>3, <1>4, SnapshotsAssumption DEF SnapshotsInv, ObjectInv, Sources, Objects

LEMMA JobDoneLive ==
    ASSUME SnapshotsInv, NEW d \in Objects, JobDone(d), NEW w \in Objects
    PROVE  Live(w)' <=> Live(w)
  <1>1. /\ Receiving(d) /\ UNCHANGED <<source, detached, marked, deferred>>
        /\ ds' = [ds EXCEPT ![d] = "whole"] /\ zfs' = zfs \cup {OnTarget(job[d].from, d)}
    BY DEF JobDone, coVars
  <1>2. ds'[w] # "none" <=> ds[w] # "none"
    BY <1>1 DEF Receiving, SnapshotsInv, TypeOK, TypeStore, ObjectInv, Received
  <1>3. w \in Snaps => SnapshotID(w)' = SnapshotID(w) /\ SnapshotID(w) # OnTarget(job[d].from, d)
    BY <1>1, ReceivedName DEF SnapshotID
  <1>4. w \notin Volumes => w \in Snaps
    BY DEF Objects
  <1> QED BY <1>1, <1>2, <1>3, <1>4 DEF Live

LEMMA JobDoneKeeps ==
    ASSUME SnapshotsInv, NEW d \in Objects, JobDone(d)
    PROVE  SnapshotsInv'
  <1>0. PICK y : y = OnTarget(job[d].from, d)
    OBVIOUS
  <1>1. /\ Receiving(d) /\ UNCHANGED <<marked, managed, deferred, origin, faults>>
        /\ UNCHANGED <<want, told, source, detached, pc, snap, failed, ctxDone>>
        /\ ds' = [ds EXCEPT ![d] = "whole"] /\ zfs' = zfs \cup {y}
        /\ job' = [job EXCEPT ![d].state = "success"]
    BY <1>0 DEF JobDone, coVars, reqVars
  <1>2. TypeStore /\ TypeReq /\ TypeCO /\ faults \in Nat
    BY DEF SnapshotsInv, TypeOK
  <1>3. SentTo(job[d].from, d)
    BY <1>1 DEF Receiving, SnapshotsInv, ObjectInv, Works_from
  <1>4. y \in SnapIDs /\ y.on = d /\ (y.kind = "csi" => y.of = source[d])
    BY <1>0, <1>3, SentToTarget DEF SentTo, SnapshotID, Snapshot
  <1>5. /\ ds'[d] = "whole" /\ job'[d].state = "success" /\ job'[d].from = job[d].from
        /\ \A w \in Objects \ {d} : ds'[w] = ds[w] /\ job'[w] = job[w]
        /\ job'[d] \in Jobs
    BY <1>1, <1>2 DEF TypeStore, Jobs
  <1>6. TypeOK'
    <2>1. TypeStore'
      BY <1>1, <1>2, <1>4, <1>5 DEF TypeStore
    <2>2. TypeReq' /\ TypeCO'
      BY <1>1, <1>2 DEF TypeReq, TypeCO
    <2> QED BY <1>1, <1>2, <2>1, <2>2 DEF TypeOK
  <1>7. \A s : SnapshotID(s)' = SnapshotID(s)
    BY <1>1 DEF SnapshotID
  <1>8. Named'
    BY <1>1, <1>4, <1>7 DEF Named, SnapshotsInv
  <1>9. Owned'
    <2> SUFFICES ASSUME faults = 0, NEW z \in zfs'
                 PROVE  Settled(z)' \/ \E w \in Objects : Owns(w, z)'
      BY <1>1 DEF Owned
    <2>1. CASE z = y
      <3>1. pc[d] = "tWait" /\ job[d].from = snap[d]
        BY <1>1 DEF Receiving, SnapshotsInv, ObjectInv, Received
      <3>2. y = OnTarget(snap'[d], d)
        BY <1>0, <1>1, <3>1
      <3> QED BY <1>1, <2>1, <3>1, <3>2 DEF Owns
    <2>2. CASE z \in zfs
      <3>1. Settled(z) => Settled(z)'
        BY <1>1, <1>7 DEF Settled, Clones
      <3>2. \A w \in Objects : Owns(w, z) => Owns(w, z)'
        BY <1>1 DEF Owns, OnTarget
      <3> QED BY <2>2, <3>1, <3>2 DEF SnapshotsInv, Owned
    <2> QED BY <1>1, <2>1, <2>2
  <1>10. ASSUME NEW w \in Objects PROVE ObjectInv(w)'
    <2>1. ObjectInv(w)
      BY DEF SnapshotsInv
    <2>2. Sources(w)' /\ Phase(w)'
      BY <1>1, <2>1 DEF ObjectInv, Sources, Phase
    <2>3. Works_from(w)'
      <3>1. \A z : SentTo(z, w) => SentTo(z, w)'
        BY <1>1, <1>7 DEF SentTo
      <3> QED BY <1>1, <1>3, <1>5, <2>1, <3>1 DEF ObjectInv, Works_from
    <2>4. Received(w)'
      <3>1. CASE w # d
        BY <1>1, <1>5, <2>1, <3>1 DEF ObjectInv, Received
      <3>2. CASE w = d
        BY <1>1, <1>5, <2>1, <3>2 DEF ObjectInv, Received, Receiving
      <3> QED BY <3>1, <3>2
    <2>5. Unneeded(w)'
      BY <1>0, <1>1, <1>7, <2>1, ReceivedName DEF ObjectInv, Unneeded
    <2>6. Reported(w)'
      BY <1>1, <2>1, JobDoneLive DEF ObjectInv, Reported, InUse
    <2> QED BY <2>2, <2>3, <2>4, <2>5, <2>6 DEF ObjectInv
  <1> QED BY <1>6, <1>8, <1>9, <1>10 DEF SnapshotsInv

\* Nothing is made of an object that was not asked for.
LEMMA WantFresh ==
    ASSUME SnapshotsInv, NEW o \in Objects, Want(o)
    PROVE  /\ want[o] = "none" /\ told[o] = "none" /\ pc[o] = "idle"
           /\ source[o] = None /\ ~detached[o] /\ o \notin marked
           /\ \A z \in zfs : z.kind = "csi" => z.of # o /\ source[o] # z.of
           /\ \A w \in Objects : source[w] # o
  <1>1. want[o] = "none" /\ ObjectInv(o)
    BY DEF Want, SnapshotsInv
  <1>2. told[o] = "none" /\ source[o] = None /\ ~detached[o]
    BY <1>1 DEF ObjectInv, Sources, SnapshotsInv, TypeOK, TypeCO
  <1>3. pc[o] = "idle" /\ o \notin marked
    BY <1>1, <1>2, InFlight DEF ObjectInv, Received
  <1>4. \A z \in zfs : z.kind = "csi" => z.of # o
    BY <1>1, <1>2, NoNameYet
  <1>5. \A z \in zfs : z.of # None
    BY SnapshotsAssumption DEF SnapshotsInv, TypeOK, TypeStore, SnapIDs
  <1>6. \A w \in Objects : source[w] # o
    BY <1>2, SnapshotsAssumption DEF SnapshotsInv, ObjectInv, Sources
  <1> QED BY <1>1, <1>2, <1>3, <1>4, <1>5, <1>6

LEMMA WantLive ==
    ASSUME SnapshotsInv, NEW o \in Objects, Want(o), NEW w \in Objects
    PROVE  Live(w)' <=> Live(w)
  <1>1. /\ UNCHANGED <<ds, marked, zfs, deferred>>
        /\ \A u \in Objects \ {o} : source'[u] = source[u] /\ detached'[u] = detached[u]
    BY DEF Want, storeVars, SnapshotsInv, TypeOK, TypeCO
  <1>2. CASE w # o
    <2>1. SnapshotID(w)' = SnapshotID(w)
      BY <1>1, <1>2 DEF SnapshotID
    <2> QED BY <1>1, <1>2, <2>1 DEF Live
  <1>3. CASE w = o /\ o \in Volumes
    BY <1>1, <1>3 DEF Live
  <1>4. CASE w = o /\ o \notin Volumes
    <2>1. /\ SnapshotID(o)' \notin zfs /\ SnapshotID(o) \notin zfs
          /\ o \notin marked /\ ~detached[o]
      <3>1. /\ SnapshotID(o).kind = "csi" /\ SnapshotID(o).of = o
            /\ SnapshotID(o)'.kind = "csi" /\ SnapshotID(o)'.of = o
        BY DEF SnapshotID, Snapshot
      <3> QED BY <3>1, WantFresh
    <2> QED BY <1>1, <1>4, <2>1 DEF Live
  <1> QED BY <1>2, <1>3, <1>4

LEMMA WantKeeps ==
    ASSUME SnapshotsInv, NEW o \in Objects, Want(o)
    PROVE  SnapshotsInv'
  <1>1. /\ UNCHANGED <<ds, marked, zfs, managed, deferred, origin, job, faults>>
        /\ UNCHANGED <<pc, snap, failed, ctxDone, told>>
        /\ want' = [want EXCEPT ![o] = "create"] /\ o \in Copies \cup Snaps
    BY DEF Want, storeVars, reqVars
  <1>2. PICK x \in Objects, mode \in BOOLEAN :
          /\ o \in Snaps => x \in Volumes
          /\ InUse(x)
          /\ source' = [source EXCEPT ![o] = x] /\ detached' = [detached EXCEPT ![o] = mode]
    BY DEF Want, Objects
  <1>3. TypeStore /\ TypeReq /\ TypeCO /\ faults \in Nat
    BY DEF SnapshotsInv, TypeOK
  <1>4. /\ want[o] = "none" /\ told[o] = "none" /\ pc[o] = "idle"
        /\ source[o] = None /\ ~detached[o] /\ o \notin marked
        /\ \A z \in zfs : z.kind = "csi" => z.of # o /\ source[o] # z.of
        /\ \A w \in Objects : source[w] # o
    BY WantFresh
  <1>5. /\ want'[o] = "create" /\ source'[o] = x /\ x # o
        /\ \A w \in Objects \ {o} : /\ want'[w] = want[w] /\ source'[w] = source[w]
                                    /\ detached'[w] = detached[w]
    BY <1>1, <1>2, <1>3, <1>4 DEF TypeCO, InUse
  <1>6. TypeOK'
    <2>1. TypeCO'
      BY <1>1, <1>2, <1>3 DEF TypeCO
    <2>2. TypeStore' /\ TypeReq'
      BY <1>1, <1>3 DEF TypeStore, TypeReq
    <2> QED BY <1>1, <1>3, <2>1, <2>2 DEF TypeOK
  <1>7. \A s \in Objects \ {o} : SnapshotID(s)' = SnapshotID(s)
    BY <1>5 DEF SnapshotID
  <1>8. ASSUME NEW z \in zfs PROVE z \in SnapIDs /\ z.on \in Objects /\ z.of \in Objects
    BY <1>3 DEF TypeStore, SnapIDs
  <1>9. Named'
    <2>1. Named
      BY DEF SnapshotsInv
    <2>2. ASSUME NEW z \in zfs, z.kind = "csi"
          PROVE  \/ /\ z.of \in Snaps /\ z = SnapshotID(z.of)'
                    /\ z \in managed /\ ~detached'[z.of]
                 \/ source'[z.on] = z.of
      <3>1. z.of # o /\ source[o] # z.of /\ z.on \in Objects /\ z.of \in Objects
        BY <1>4, <1>8, <2>2
      <3> QED BY <1>5, <1>7, <2>1, <2>2, <3>1 DEF Named
    <2>3. ASSUME NEW s \in Snaps, ~detached'[s], SnapshotID(s)' \in deferred
          PROVE  want'[s] = "delete"
      <3>1. s # o
        <4>1. SnapshotID(s)'.kind = "csi" /\ SnapshotID(s)'.of = s
          BY DEF SnapshotID, Snapshot
        <4>2. SnapshotID(s)' \in zfs
          BY <2>1, <2>3 DEF Named
        <4> QED BY <1>4, <4>1, <4>2
      <3>2. s \in Objects
        BY DEF Objects
      <3> QED BY <1>5, <1>7, <2>1, <2>3, <3>1, <3>2 DEF Named
    <2> QED BY <1>1, <2>1, <2>2, <2>3 DEF Named
  <1>10. Owned'
    <2>1. ASSUME NEW z \in zfs, Settled(z) PROVE Settled(z)'
      <3>1. z.kind = "csi" => SnapshotID(z.of)' = SnapshotID(z.of)
        BY <1>4, <1>7, <1>8
      <3> QED BY <1>1, <2>1, <3>1 DEF Settled, Clones
    <2>2. \A z \in zfs, w \in Objects : Owns(w, z) => Owns(w, z)'
      BY <1>1 DEF Owns, OnTarget
    <2> QED BY <1>1, <2>1, <2>2 DEF SnapshotsInv, Owned
  <1>11. ASSUME NEW w \in Objects, NEW z, SentTo(z, w) PROVE SentTo(z, w)'
    <2>1. CASE z.kind = "temp"
      BY <1>11, <2>1 DEF SentTo
    <2>2. CASE z = SnapshotID(source[w])
      <3>1. z \in SnapIDs /\ z.of = source[w]
        BY <1>11, <2>2 DEF SentTo, SnapshotID, Snapshot
      <3>2. source[w] \in Objects
        BY <3>1 DEF SnapIDs
      <3>3. source[w] # o /\ w # o
        BY <1>4, <3>2, SnapshotsAssumption
      <3>4. source'[w] = source[w] /\ SnapshotID(source[w])' = SnapshotID(source[w])
        BY <1>5, <1>7, <3>2, <3>3 DEF SnapshotID
      <3> QED BY <1>11, <2>2, <3>4 DEF SentTo
    <2> QED BY <1>11, <2>1, <2>2 DEF SentTo
  <1>12. ASSUME NEW w \in Objects PROVE ObjectInv(w)'
    <2>1. ObjectInv(w)
      BY DEF SnapshotsInv
    <2>2. Sources(w)'
      <3>1. CASE w = o
        <4>1. o \notin Origins
          BY <1>1, SnapshotsAssumption DEF Volumes
        <4>2. x # None /\ told[x] # "none" /\ source'[x] # o /\ want'[x] = "create"
          BY <1>2, <1>4, <1>5, SnapshotsAssumption DEF InUse
        <4> QED BY <1>1, <1>2, <1>4, <1>5, <3>1, <4>1, <4>2 DEF Sources
      <3>2. CASE w # o
        <4>1. source[w] \in Objects \cup {None} /\ source[w] # o
          BY <1>3, <1>4 DEF TypeCO
        <4> QED BY <1>1, <1>5, <2>1, <3>2, <4>1 DEF ObjectInv, Sources
      <3> QED BY <3>1, <3>2
    <2>3. Phase(w)'
      <3>1. CASE w = o
        BY <1>1, <1>4, <2>1, <3>1
        DEF ObjectInv, Phase, CreatePCs, DeletePCs, SnapPCs, CopyPCs, RegularPCs, DetachedPCs
      <3>2. CASE w # o
        BY <1>1, <1>5, <2>1, <3>2 DEF ObjectInv, Phase
      <3> QED BY <3>1, <3>2
    <2>4. Works_from(w)'
      BY <1>1, <1>11, <2>1 DEF ObjectInv, Works_from
    <2>5. Received(w)'
      <3>1. CASE w = o
        BY <1>1, <1>4, <2>1, <3>1 DEF ObjectInv, Received
      <3>2. CASE w # o
        BY <1>1, <1>5, <2>1, <3>2 DEF ObjectInv, Received
      <3> QED BY <3>1, <3>2
    <2>6. Unneeded(w)'
      <3> SUFFICES ASSUME NEW s \in Snaps, pc[w] = "dDataset", source'[s] = w, ~detached'[s],
                          SnapshotID(s)' \in zfs
                   PROVE  FALSE
        BY <1>1 DEF Unneeded
      <3>1. s # o
        <4>1. SnapshotID(s)'.kind = "csi" /\ SnapshotID(s)'.of = s
          BY DEF SnapshotID, Snapshot
        <4> QED BY <1>4, <4>1
      <3>2. s \in Objects
        BY DEF Objects
      <3> QED BY <1>5, <1>7, <2>1, <3>1, <3>2 DEF ObjectInv, Unneeded
    <2>7. Reported(w)'
      <3>1. InUse(w)' => InUse(w)
        BY <1>1, <1>4, <1>5 DEF InUse
      <3> QED BY <1>1, <2>1, <3>1, WantLive DEF ObjectInv, Reported
    <2> QED BY <2>2, <2>3, <2>4, <2>5, <2>6, <2>7 DEF ObjectInv
  <1> QED BY <1>6, <1>9, <1>10, <1>12 DEF SnapshotsInv

LEMMA UnwantKeeps ==
    ASSUME Protected, SnapshotsInv, NEW o \in Objects, Unwant(o)
    PROVE  SnapshotsInv'
  <1>1. /\ UNCHANGED <<ds, marked, zfs, managed, deferred, origin, job, faults>>
        /\ UNCHANGED <<pc, snap, failed, ctxDone, told, source, detached>>
        /\ want' = [want EXCEPT ![o] = "delete"]
    BY DEF Unwant, storeVars, reqVars
  <1>2. want[o] = "create" /\ told[o] = "created" /\ pc[o] = "idle"
    BY InFlight DEF Unwant, InUse
  <1>3. \A w \in Objects : source[w] = o /\ want[w] = "create" => told[w] = "created"
    BY DEF Unwant
  <1>4. TypeStore /\ TypeReq /\ TypeCO /\ faults \in Nat
    BY DEF SnapshotsInv, TypeOK
  <1>5. want'[o] = "delete" /\ \A w \in Objects \ {o} : want'[w] = want[w]
    BY <1>1, <1>4 DEF TypeCO
  <1>6. TypeOK'
    <2>1. TypeCO'
      BY <1>1, <1>4 DEF TypeCO
    <2>2. TypeStore' /\ TypeReq'
      BY <1>1, <1>4 DEF TypeStore, TypeReq
    <2> QED BY <1>1, <1>4, <2>1, <2>2 DEF TypeOK
  <1>7. \A s : SnapshotID(s)' = SnapshotID(s)
    BY <1>1 DEF SnapshotID
  <1>8. Named'
    <2>1. \A s \in Snaps : want[s] = "delete" => want'[s] = "delete"
      BY <1>5 DEF Objects
    <2> QED BY <1>1, <1>7, <2>1 DEF Named, SnapshotsInv
  <1>9. Owned'
    <2>1. \A z \in zfs : Settled(z) => Settled(z)'
      BY <1>1, <1>7 DEF Settled, Clones
    <2>2. \A z \in zfs, w \in Objects : Owns(w, z) => Owns(w, z)'
      BY <1>1 DEF Owns, OnTarget
    <2> QED BY <1>1, <2>1, <2>2 DEF SnapshotsInv, Owned
  <1>10. ASSUME NEW w \in Objects PROVE ObjectInv(w)'
    <2>1. ObjectInv(w)
      BY DEF SnapshotsInv
    <2>2. Sources(w)'
      <3>1. source[w] \in Objects \cup {None}
        BY <1>4 DEF TypeCO
      <3>2. want'[w] = "create" => want[w] = "create"
        BY <1>5
      <3>3. source[w] # None /\ want'[w] = "create" /\ told[w] = "none" =>
              want'[source[w]] = "create"
        BY <1>3, <1>5, <2>1, <3>1, <3>2, SnapshotsAssumption DEF ObjectInv, Sources
      <3>4. want'[w] = "none" <=> want[w] = "none"
        BY <1>2, <1>5
      <3>5. want'[w] = "delete" => told[w] # "none"
        BY <1>2, <1>5, <2>1 DEF ObjectInv, Sources
      <3>6. told[w] = "deleted" => want'[w] = "delete"
        BY <1>2, <1>5, <2>1 DEF ObjectInv, Sources
      <3> QED BY <1>1, <2>1, <3>1, <3>3, <3>4, <3>5, <3>6 DEF ObjectInv, Sources
    <2>3. Phase(w)'
      <3>1. CASE w = o
        BY <1>1, <1>2, <2>1, <3>1
        DEF ObjectInv, Phase, CreatePCs, DeletePCs, SnapPCs, CopyPCs, RegularPCs, DetachedPCs
      <3>2. CASE w # o
        BY <1>1, <1>5, <2>1, <3>2 DEF ObjectInv, Phase
      <3> QED BY <3>1, <3>2
    <2>4. Works_from(w)' /\ Received(w)' /\ Unneeded(w)'
      BY <1>1, <1>7, <2>1 DEF ObjectInv, Works_from, SentTo, Received, Unneeded
    <2>5. Reported(w)'
      <3>1. Live(w)' <=> Live(w)
        BY <1>1, <1>7 DEF Live
      <3>2. InUse(w)' => InUse(w)
        BY <1>1, <1>5 DEF InUse
      <3> QED BY <1>1, <2>1, <3>1, <3>2 DEF ObjectInv, Reported
    <2> QED BY <2>2, <2>3, <2>4, <2>5 DEF ObjectInv
  <1> QED BY <1>6, <1>8, <1>9, <1>10 DEF SnapshotsInv

\* A step that changes neither TrueNAS nor what the CO knows
LEMMA QuietKeeps ==
    ASSUME SnapshotsInv, UNCHANGED <<storeVars, coVars>>, TypeReq',
           faults' \in Nat, faults' >= faults,
           \/ faults' > 0
           \/ \A o \in Objects : pc'[o] = pc[o] \/ pc[o] = "idle",
           UNCHANGED snap \/ faults' > 0,
           \A o \in Objects : /\ Phase(o)' /\ Underway(o)'
                              /\ pc'[o] = "dDataset" => pc[o] = "dDataset"
    PROVE  SnapshotsInv'
  <1>1. /\ UNCHANGED <<ds, marked, zfs, managed, deferred, origin, job>>
        /\ UNCHANGED <<want, told, source, detached>>
    BY DEF storeVars, coVars
  <1>2. TypeStore /\ TypeCO /\ faults \in Nat
    BY DEF SnapshotsInv, TypeOK
  <1>3. TypeOK'
    BY <1>1, <1>2 DEF TypeOK, TypeStore, TypeCO
  <1>4. \A s : SnapshotID(s)' = SnapshotID(s)
    BY <1>1 DEF SnapshotID
  <1>5. Named'
    BY <1>1, <1>4 DEF Named, SnapshotsInv
  <1>6. Owned'
    <2> SUFFICES ASSUME faults' = 0, NEW z \in zfs
                 PROVE  Settled(z)' \/ \E w \in Objects : Owns(w, z)'
      BY <1>1 DEF Owned
    <2>1. faults = 0
      BY <1>2
    <2>2. Settled(z) => Settled(z)'
      BY <1>1, <1>4 DEF Settled, Clones
    <2>3. ASSUME NEW w \in Objects, Owns(w, z) PROVE Owns(w, z)'
      <3>1. pc[w] # "idle"
        BY <2>3 DEF Owns, TransferPCs
      <3>2. pc'[w] = pc[w] /\ snap' = snap
        BY <3>1
      <3> QED BY <2>3, <3>2 DEF Owns, OnTarget
    <2> QED BY <2>1, <2>2, <2>3 DEF SnapshotsInv, Owned
  <1>7. ASSUME NEW w \in Objects PROVE ObjectInv(w)'
    <2>1. ObjectInv(w)
      BY DEF SnapshotsInv
    <2>2. Sources(w)'
      BY <1>1, <2>1 DEF ObjectInv, Sources
    <2>3. Arrived(w)'
      BY <1>1, <1>2, <1>4, <2>1 DEF ObjectInv, Received, Works_from, Arrived, SentTo
    <2>4. Works_from(w)' /\ Received(w)'
      BY <2>3 DEF Works_from, Received, Arrived, Underway
    <2>5. Unneeded(w)'
      BY <1>1, <1>4, <2>1 DEF ObjectInv, Unneeded
    <2>6. Reported(w)'
      <3>1. Live(w)' <=> Live(w)
        BY <1>1, <1>4 DEF Live
      <3> QED BY <1>1, <2>1, <3>1 DEF ObjectInv, Reported, InUse
    <2> QED BY <2>2, <2>4, <2>5, <2>6 DEF ObjectInv
  <1> QED BY <1>3, <1>5, <1>6, <1>7 DEF SnapshotsInv

LEMMA UnderwayNow ==
    ASSUME SnapshotsInv, NEW o \in Objects
    PROVE  Underway(o) /\ Phase(o)
  BY DEF SnapshotsInv, ObjectInv, Works_from, Received, Underway

LEMMA CallKeeps ==
    ASSUME SnapshotsInv, NEW o \in Objects, Call(o)
    PROVE  SnapshotsInv'
  <1>1. TypeReq /\ faults \in Nat /\ pc[o] = "idle" /\ Sources(o)
    BY DEF SnapshotsInv, TypeOK, ObjectInv, Call
  <1>2. PICK p : /\ Goto(o, p)
                 /\ \/ /\ want[o] = "create" /\ told[o] = "none"
                       /\ p = IF o \in Snaps THEN "sInfo" ELSE "cGet"
                    \/ /\ want[o] = "delete" /\ told[o] = "created"
                       /\ p = IF o \in Volumes THEN "dGet"
                              ELSE IF detached[o] THEN "rGet" ELSE "rSnap"
    BY DEF Call
  <1>3. /\ pc' = [pc EXCEPT ![o] = p]
        /\ UNCHANGED <<storeVars, coVars, faults, snap, failed, ctxDone>>
    BY <1>2 DEF Goto, Call
  <1>4. pc'[o] = p /\ \A w \in Objects \ {o} : pc'[w] = pc[w]
    BY <1>1, <1>3 DEF TypeReq
  <1>5. p \in {"sInfo", "cGet", "dGet", "rGet", "rSnap"}
    BY <1>2
  <1>6. TypeReq'
    <2>1. p \in {"idle"} \cup CreatePCs \cup DeletePCs
      BY <1>5 DEF CreatePCs, DeletePCs
    <2> QED BY <1>1, <1>3, <2>1 DEF TypeReq
  <1>7. o \notin Snaps /\ told[o] = "none" => o \in Copies
    BY <1>1 DEF Objects, Volumes, Sources
  <1>8. o \notin Volumes => o \in Snaps
    BY DEF Objects
  <1>9. ASSUME NEW w \in Objects
        PROVE  Phase(w)' /\ Underway(w)' /\ (pc'[w] = "dDataset" => pc[w] = "dDataset")
    <2>1. UNCHANGED <<ds, job, want, told, source, detached>>
      BY <1>3 DEF storeVars, coVars
    <2>2. Phase(w) /\ Underway(w)
      BY UnderwayNow
    <2>3. CASE w # o
      BY <1>3, <1>4, <2>1, <2>2, <2>3 DEF Phase, Underway, SentTo, SnapshotID
    <2>4. CASE w = o
      <3>1. Phase(w)'
        BY <1>2, <1>3, <1>4, <1>7, <1>8, <2>1, <2>2, <2>4
        DEF Phase, CreatePCs, DeletePCs, SnapPCs, CopyPCs, RegularPCs, DetachedPCs
      <3>2. Underway(w)'
        BY <1>1, <1>3, <1>4, <1>5, <2>1, <2>2, <2>4 DEF Underway, TransferPCs
      <3> QED BY <1>4, <1>5, <2>4, <3>1, <3>2
    <2> QED BY <2>3, <2>4
  <1> QED BY <1>1, <1>3, <1>4, <1>6, <1>9, QuietKeeps

LEMMA ExpireKeeps ==
    ASSUME SnapshotsInv, NEW o \in Objects, Expire(o)
    PROVE  SnapshotsInv'
  <1>1. TypeReq /\ faults \in Nat
    BY DEF SnapshotsInv, TypeOK
  <1>2. /\ UNCHANGED <<storeVars, coVars, pc, snap, failed>>
        /\ ctxDone' = [ctxDone EXCEPT ![o] = TRUE] /\ faults' = faults + 1
    BY DEF Expire, Fault
  <1>3. TypeReq'
    BY <1>1, <1>2 DEF TypeReq
  <1>4. UNCHANGED <<ds, job, want, told, source, detached>>
    BY <1>2 DEF storeVars, coVars
  <1>5. \A w \in Objects : Phase(w)' /\ Underway(w)'
    BY <1>1, <1>2, <1>4, UnderwayNow DEF Phase, Underway, SentTo, SnapshotID
  <1> QED BY <1>1, <1>2, <1>3, <1>5, QuietKeeps

LEMMA CrashKeeps ==
    ASSUME SnapshotsInv, Crash
    PROVE  SnapshotsInv'
  <1>1. TypeReq /\ faults \in Nat
    BY DEF SnapshotsInv, TypeOK
  <1>2. /\ UNCHANGED <<storeVars, coVars>> /\ faults' = faults + 1
        /\ \A w \in Objects : pc'[w] = "idle" /\ ~ctxDone'[w]
    BY DEF Crash, Fault
  <1>3. TypeReq'
    BY DEF Crash, TypeReq
  <1>4. UNCHANGED <<ds, job, want, told, source, detached>>
    BY <1>2 DEF storeVars, coVars
  <1>5. ASSUME NEW w \in Objects PROVE Phase(w)' /\ Underway(w)'
    <2>1. Phase(w)'
      BY <1>2 DEF Phase, CreatePCs, DeletePCs, SnapPCs, CopyPCs, RegularPCs, DetachedPCs
    <2>2. Underway(w)'
      BY <1>1, <1>2 DEF Underway, TransferPCs
    <2> QED BY <2>1, <2>2
  <1> QED BY <1>1, <1>2, <1>3, <1>5, QuietKeeps

LEMMA JobFailsKeeps ==
    ASSUME SnapshotsInv, NEW d \in Objects, JobFails(d)
    PROVE  SnapshotsInv'
  <1>1. /\ Receiving(d) /\ UNCHANGED <<ds, marked, zfs, managed, deferred, origin>>
        /\ UNCHANGED <<want, told, source, detached, pc, snap, failed, ctxDone>>
        /\ job' = [job EXCEPT ![d].state = "failed"] /\ faults' = faults + 1
    BY DEF JobFails, Fault, coVars, reqVars
  <1>2. TypeStore /\ TypeReq /\ TypeCO /\ faults \in Nat
    BY DEF SnapshotsInv, TypeOK
  <1>3. /\ job'[d].state = "failed" /\ job'[d].from = job[d].from
        /\ \A w \in Objects \ {d} : job'[w] = job[w]
        /\ job'[d] \in Jobs
    BY <1>1, <1>2 DEF TypeStore, Jobs
  <1>4. TypeOK'
    <2>1. TypeStore'
      BY <1>1, <1>2, <1>3 DEF TypeStore
    <2>2. TypeReq' /\ TypeCO'
      BY <1>1, <1>2 DEF TypeReq, TypeCO
    <2> QED BY <1>1, <1>2, <2>1, <2>2 DEF TypeOK
  <1>5. \A s : SnapshotID(s)' = SnapshotID(s)
    BY <1>1 DEF SnapshotID
  <1>6. Named' /\ Owned'
    BY <1>1, <1>2, <1>5 DEF Named, Owned, SnapshotsInv
  <1>7. ASSUME NEW w \in Objects PROVE ObjectInv(w)'
    <2>1. ObjectInv(w)
      BY DEF SnapshotsInv
    <2>2. Sources(w)' /\ Phase(w)'
      BY <1>1, <1>2, <2>1 DEF ObjectInv, Sources, Phase
    <2>3. Works_from(w)'
      BY <1>1, <1>3, <1>5, <2>1 DEF ObjectInv, Works_from, SentTo, Receiving
    <2>4. Received(w)'
      BY <1>1, <1>2, <1>3, <2>1 DEF ObjectInv, Received
    <2>5. Unneeded(w)'
      BY <1>1, <1>5, <2>1 DEF ObjectInv, Unneeded
    <2>6. Reported(w)'
      BY <1>1, <1>5, <2>1 DEF ObjectInv, Reported, InUse, Live
    <2> QED BY <2>2, <2>3, <2>4, <2>5, <2>6 DEF ObjectInv
  <1> QED BY <1>4, <1>6, <1>7 DEF SnapshotsInv

LEMMA InitKeeps ==
    ASSUME Init
    PROVE  SnapshotsInv
  <1> USE SnapshotsAssumption
  <1>1. TypeOK
    <2>1. [state |-> "none", from |-> None] \in Jobs
      BY DEF Jobs
    <2> QED BY <2>1 DEF Init, TypeOK, TypeStore, TypeReq, TypeCO
  <1>2. Named /\ Owned
    BY DEF Init, Named, Owned
  <1>3. ASSUME NEW o \in Objects PROVE ObjectInv(o)
    <2>1. Sources(o)
      BY DEF Init, Sources, Volumes
    <2>2. Phase(o)
      BY DEF Init, Phase, CreatePCs, DeletePCs, SnapPCs, CopyPCs, RegularPCs, DetachedPCs
    <2>3. Works_from(o) /\ Received(o) /\ Unneeded(o)
      BY DEF Init, Works_from, Received, Unneeded, TransferPCs
    <2>4. Reported(o)
      BY DEF Init, Reported, InUse, Live, Volumes
    <2> QED BY <2>1, <2>2, <2>3, <2>4 DEF ObjectInv
  <1> QED BY <1>1, <1>2, <1>3 DEF SnapshotsInv

(***************************************************************************)
(* Theorems                                                                *)
(***************************************************************************)

LEMMA NextKeeps ==
    ASSUME Protected, SnapshotsInv, [Next]_vars
    PROVE  SnapshotsInv'
  <1>1. CASE UNCHANGED vars
    <2>1. /\ UNCHANGED <<ds, marked, zfs, managed, deferred, origin, job>>
          /\ UNCHANGED <<pc, snap, failed, ctxDone, want, told, source, detached, faults>>
      BY <1>1 DEF vars, storeVars, reqVars, coVars
    <2>2. \A s : SnapshotID(s)' = SnapshotID(s)
      BY <2>1 DEF SnapshotID
    <2>3. TypeReq' /\ faults' \in Nat /\ faults' >= faults
      BY <2>1 DEF SnapshotsInv, TypeOK, TypeReq
    <2>4. \A o \in Objects : Phase(o)' /\ Underway(o)'
      BY <2>1, <2>2, UnderwayNow DEF Phase, Underway, SentTo
    <2> QED BY <2>1, <2>3, <2>4, QuietKeeps DEF storeVars, coVars
  <1>2. ASSUME NEW o \in Objects, Step(o) PROVE SnapshotsInv'
    BY <1>2, StepKeeps, InvStep
  <1>3. ASSUME NEW o \in Objects, Want(o) \/ Unwant(o) \/ Call(o) PROVE SnapshotsInv'
    BY <1>3, WantKeeps, UnwantKeeps, CallKeeps
  <1>4. ASSUME NEW o \in Objects, JobDone(o) \/ JobFails(o) \/ Expire(o) PROVE SnapshotsInv'
    BY <1>4, JobDoneKeeps, JobFailsKeeps, ExpireKeeps
  <1>5. CASE Crash
    BY <1>5, CrashKeeps
  <1> QED BY <1>1, <1>2, <1>3, <1>4, <1>5 DEF Next

\* With an orchestrator that keeps what something is being made from, requests,
\* ZFS objects and replication jobs fit together in every state, for any number
\* of objects and of faults.
THEOREM SnapshotsInvariant ==
    ASSUME Protected
    PROVE  Spec => []SnapshotsInv
  <1>1. Init => SnapshotsInv
    BY InitKeeps
  <1>2. SnapshotsInv /\ [Next]_vars => SnapshotsInv'
    BY NextKeeps
  <1> QED BY <1>1, <1>2, PTL DEF Spec

\* What CreateSnapshot or CreateVolume reported is there until its deletion is
\* asked for, whatever other requests delete and however they fail.
THEOREM AcknowledgedKeptAlways ==
    ASSUME Protected
    PROVE  Spec => []AcknowledgedKept
  <1>1. SnapshotsInv => AcknowledgedKept
    BY DEF SnapshotsInv, ObjectInv, Reported, AcknowledgedKept
  <1> QED BY <1>1, SnapshotsInvariant, PTL

\* What DeleteSnapshot or DeleteVolume reported deleted does not come back.
THEOREM DeletedGoneAlways ==
    ASSUME Protected
    PROVE  Spec => []DeletedGone
  <1>1. SnapshotsInv => DeletedGone
    BY DEF SnapshotsInv, ObjectInv, Reported, DeletedGone
  <1> QED BY <1>1, SnapshotsInvariant, PTL

\* A marked snapshot is complete whatever failed, and so is a copy that was
\* reported, but for a detached one after a fault.
THEOREM WholeWhenToldAlways ==
    ASSUME Protected
    PROVE  Spec => []WholeWhenTold
  <1>1. SnapshotsInv => WholeWhenTold
    <2> SUFFICES ASSUME SnapshotsInv, NEW o \in Objects
                 PROVE  /\ o \in marked => ds[o] = "whole"
                        /\ InUse(o) /\ o \in Copies /\ (~detached[o] \/ faults = 0) =>
                             ds[o] = "whole"
      BY DEF WholeWhenTold
    <2>1. Received(o) /\ Reported(o) /\ ds[o] \in {"none", "partial", "whole"}
      BY DEF SnapshotsInv, ObjectInv, TypeOK, TypeStore
    <2>2. InUse(o) => pc[o] = "idle"
      BY InFlight DEF InUse
    <2>3. InUse(o) /\ o \in Copies => ds[o] # "none"
      BY <2>1 DEF Reported, Live, Volumes
    <2> QED BY <2>1, <2>2, <2>3 DEF Received
  <1> QED BY <1>1, SnapshotsInvariant, PTL

\* A transfer or clone that meets no failure leaves no temporary snapshot on
\* either side, with any number of requests at once and sharing snapshots.
THEOREM NoTempLeftAlways ==
    ASSUME Protected
    PROVE  Spec => []NoTempLeft
  <1>1. SnapshotsInv => NoTempLeft
    <2> SUFFICES ASSUME SnapshotsInv, faults = 0, \A o \in Objects : pc[o] = "idle", NEW z \in zfs
                 PROVE  Settled(z)
      BY DEF NoTempLeft
    <2>1. \A o \in Objects : ~Owns(o, z)
      BY DEF Owns, TransferPCs
    <2> QED BY <2>1 DEF SnapshotsInv, Owned
  <1> QED BY <1>1, SnapshotsInvariant, PTL

\* The type invariant
THEOREM SnapshotsTypes ==
    ASSUME Protected
    PROVE  Spec => []TypeOK
  <1>1. SnapshotsInv => TypeOK
    BY DEF SnapshotsInv
  <1> QED BY <1>1, SnapshotsInvariant, PTL

(***************************************************************************)
(* The catalogue                                                           *)
(***************************************************************************)

LiveSet == {o \in Objects : Live(o)}

\* A request for a deletion does not bring its object back.
LEMMA DeleteOnly ==
    ASSUME SnapshotsInv, NEW o \in Objects, StoreMove(o), UNCHANGED <<source, detached>>,
           pc[o] \in DeletePCs, Live(o)'
    PROVE  Live(o)
  <1>a. SnapshotID(o)' = SnapshotID(o) /\ SnapshotID(o).kind = "csi"
    BY DEF SnapshotID, Snapshot
  <1>b. TypeStore
    BY DEF SnapshotsInv, TypeOK
  <1>c. ASSUME ds'[o] # "none" => ds[o] # "none", marked' \subseteq marked,
               SnapshotID(o) \in zfs' \ deferred' => SnapshotID(o) \in zfs \ deferred
        PROVE  Live(o)
    BY <1>a, <1>c DEF Live
  <1>d. pc[o] \notin {"sMake", "cClone", "tRun", "xMark"}
    BY DEF DeletePCs
  <1>1. CASE UNCHANGED storeVars
    BY <1>1, <1>c DEF storeVars
  <1>2. ASSUME NEW z \in SnapIDs, NEW p \in BOOLEAN, TakeSnapshot(z, p), z.kind # "csi"
        PROVE  Live(o)
    BY <1>2, <1>a, <1>c DEF TakeSnapshot
  <1>3. ASSUME NEW z \in SnapIDs, client_DeleteSnapshot(z) PROVE Live(o)
    BY <1>3, <1>c DEF client_DeleteSnapshot
  <1>4. CASE Destroy(o)
    BY <1>4, <1>b, <1>c DEF Destroy, TypeStore
  <1> QED BY <1>d, <1>1, <1>2, <1>3, <1>4 DEF StoreMove

\* A step of a request for o is a step of the catalogue for o.
LEMMA StepRefines ==
    ASSUME SnapshotsInv, NEW o \in Objects, Step(o)
    PROVE  Catalogue!Create(o) \/ Catalogue!Delete(o)
  <1>1. StoreMove(o) /\ ReqMove(o)
    BY StepKeeps DEF OwnStep
  <1>2. \A w \in Objects \ {o} : Live(w)' <=> Live(w)
    BY <1>1, MoveLive DEF ReqMove
  <1>3. LiveSet' \in {LiveSet, LiveSet \cup {o}, LiveSet \ {o}}
    <2>1. CASE Live(o)'
      <3>1. LiveSet' = LiveSet \cup {o}
        BY <1>2, <2>1 DEF LiveSet
      <3> QED BY <3>1
    <2>2. CASE ~Live(o)'
      <3>1. LiveSet' = LiveSet \ {o}
        BY <1>2, <2>2 DEF LiveSet
      <3> QED BY <3>1
    <2> QED BY <2>1, <2>2
  <1>4. UNCHANGED want /\ (o \in LiveSet' <=> Live(o)')
    BY <1>1 DEF ReqMove, LiveSet
  <1>5. CASE want[o] = "create"
    <2>1. told[o] = "none"
      BY <1>1, <1>5, InFlight DEF ReqMove
    <2>2. UNCHANGED told \/ (o \in LiveSet' /\ told' = [told EXCEPT ![o] = "created"])
      BY <1>1, <1>4, <1>5 DEF ReqMove
    <2> QED BY <1>3, <1>4, <1>5, <2>1, <2>2 DEF Catalogue!Create, LiveSet
  <1>6. CASE want[o] = "delete"
    <2>1. UNCHANGED told \/ (o \notin LiveSet' /\ told' = [told EXCEPT ![o] = "deleted"])
      BY <1>1, <1>4, <1>6 DEF ReqMove
    <2>2. pc[o] \in DeletePCs
      BY <1>1, <1>6, InFlight DEF ReqMove
    <2>3. Live(o)' => Live(o)
      BY <1>1, <2>2, DeleteOnly DEF ReqMove
    <2>4. LiveSet' \in {LiveSet, LiveSet \ {o}}
      BY <1>3, <2>3 DEF LiveSet
    <2> QED BY <1>4, <1>6, <2>1, <2>4 DEF Catalogue!Delete, LiveSet
  <1> QED BY <1>1, <1>5, <1>6, InFlight DEF ReqMove

\* All other steps leave the objects as they are.
LEMMA OthersRefine ==
    ASSUME SnapshotsInv, NEW o \in Objects,
           Want(o) \/ Unwant(o) \/ Call(o) \/ JobDone(o) \/ JobFails(o) \/ Expire(o)
    PROVE  Catalogue!Ask(o) \/ UNCHANGED Catalogue!vars
  <1>1. ASSUME \A w \in Objects : Live(w)' <=> Live(w) PROVE LiveSet' = LiveSet
    BY <1>1 DEF LiveSet
  <1>2. ASSUME UNCHANGED <<ds, marked, zfs, deferred, source, detached>>
        PROVE  LiveSet' = LiveSet
    BY <1>2 DEF LiveSet, Live, SnapshotID
  <1>3. CASE Want(o)
    <2>1. LiveSet' = LiveSet
      BY <1>1, <1>3, WantLive
    <2> QED BY <1>3, <2>1 DEF Want, Catalogue!Ask, LiveSet
  <1>4. CASE Unwant(o)
    <2>1. LiveSet' = LiveSet
      BY <1>2, <1>4 DEF Unwant, storeVars
    <2> QED BY <1>4, <2>1 DEF Unwant, InUse, Catalogue!Ask, LiveSet
  <1>5. CASE Call(o) \/ JobFails(o) \/ Expire(o)
    <2>1. UNCHANGED <<ds, marked, zfs, deferred, source, detached, want, told>>
      BY <1>5 DEF Call, Goto, JobFails, Expire, storeVars, coVars
    <2>2. LiveSet' = LiveSet
      BY <1>2, <2>1
    <2> QED BY <2>1, <2>2 DEF Catalogue!vars, LiveSet
  <1>6. CASE JobDone(o)
    <2>1. LiveSet' = LiveSet
      BY <1>1, <1>6, JobDoneLive
    <2> QED BY <1>6, <2>1 DEF JobDone, coVars, Catalogue!vars, LiveSet
  <1> QED BY <1>3, <1>4, <1>5, <1>6

\* The controller implements SnapshotCatalogue, step by step: only a request for
\* an object makes it come or go, and an answer is true when it is given.
THEOREM CatalogueKept ==
    ASSUME Protected
    PROVE  Spec => KeepsCatalogue
  <1>1. Init => Catalogue!Init
    <2> SUFFICES ASSUME Init PROVE Catalogue!Init
      OBVIOUS
    <2>1. LiveSet = Origins
      BY SnapshotsAssumption DEF Init, LiveSet, Live, Objects, Volumes
    <2> QED BY <2>1 DEF Init, Catalogue!Init, LiveSet
  <1>2. SnapshotsInv /\ [Next]_vars => [Catalogue!Next]_(Catalogue!vars)
    <2> SUFFICES ASSUME SnapshotsInv, [Next]_vars PROVE Catalogue!Next \/ UNCHANGED Catalogue!vars
      OBVIOUS
    <2>1. CASE UNCHANGED vars \/ Crash
      <3>1. UNCHANGED <<ds, marked, zfs, deferred, source, detached, want, told>>
        BY <2>1 DEF vars, Crash, storeVars, coVars
      <3> QED BY <3>1 DEF Catalogue!vars, Live, SnapshotID
    <2>2. ASSUME NEW o \in Objects, Step(o) PROVE Catalogue!Next
      BY <2>2, StepRefines DEF Catalogue!Next
    <2>3. ASSUME NEW o \in Objects,
                 Want(o) \/ Unwant(o) \/ Call(o) \/ JobDone(o) \/ JobFails(o) \/ Expire(o)
          PROVE  Catalogue!Next \/ UNCHANGED Catalogue!vars
      BY <2>3, OthersRefine DEF Catalogue!Next
    <2> QED BY <2>1, <2>2, <2>3 DEF Next
  <1> QED BY <1>1, <1>2, SnapshotsInvariant, PTL DEF Spec, KeepsCatalogue, Catalogue!Spec

=============================================================================
