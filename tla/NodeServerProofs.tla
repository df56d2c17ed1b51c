-------------------------- MODULE NodeServerProofs --------------------------
(***************************************************************************)
(* Proofs about NodeServer, for every set of workers and targets, whatever *)
(* protocols the volume may have and however many faults there are.        *)
(*                                                                         *)
(* NodeInv is inductive because of the volume's lock: while a handler is   *)
(* between two steps no other handler is running (Alone), so that what it  *)
(* found in the mount table still holds when it acts on it.                *)
(***************************************************************************)
EXTENDS NodeServer, TLAPS

\* While a handler runs, every other one is idle or waits for the lock.
LEMMA Alone ==
    ASSUME NodeInv, NEW w \in Workers, lock = w
    PROVE  \A u \in Workers : u # w => pc[u] \in {"idle", "eLock"} /\ arg[u].cap <= zvol
BY DEF NodeInv, WorkerInv

\* NodeInv is preserved by the steps of NodeStageVolume.
LEMMA StagePreserves ==
    ASSUME NodeInv, NEW w \in Workers,
           \/ StageList(w)
           \/ ISCSIConnect(w)
           \/ nvmeConnect(w)
           \/ waitForDevice(w)
           \/ nvmeRollback(w)
           \/ StageMount(w)
           \/ StageResize(w)
    PROVE  NodeInv'
<1> USE NodeAssumption
    DEF Staged, Fail, Reply, Return, Goto, Works, Fault, NoArg, node, sizes, co
<1>1. CASE StageList(w)
  <2>1. \A u \in Workers : u # w => pc[u] \in {"idle", "eLock"} /\ arg[u].cap <= zvol
    <3>1. lock = w
      BY <1>1 DEF NodeInv, WorkerInv, StageList
    <3> QED BY <3>1, Alone
  <2>2. TypeOK'
    BY <1>1 DEF NodeInv, TypeOK, SizesNested, WorkerInv, PCs, StagePCs, UnstagePCs,
      OtherPCs, Forms, StageList, discoverMountedVolume
  <2>3. NodeShape' /\ SizesNested'
    BY <1>1 DEF NodeInv, TypeOK, NodeShape, SizesNested, WorkerInv, BlockPCs, Forms, StageList, discoverMountedVolume
  <2>4. StagedKept' /\ CleanAfterUnstage'
    BY <1>1 DEF NodeInv, StagedKept, CleanAfterUnstage, NodeShape, WorkerInv, StagePCs,
      UnstagePCs, BlockPCs, StageList, discoverMountedVolume
  <2>5. ASSUME NEW u \in Workers PROVE WorkerInv(u)'
    BY <1>1, <2>1 DEF NodeInv, TypeOK, NodeShape, SizesNested, StagedKept, CleanAfterUnstage,
      WorkerInv, BlockPCs, StagePCs, UnstagePCs, Forms, StageList, discoverMountedVolume
  <2> QED BY <2>2, <2>3, <2>4, <2>5 DEF NodeInv
<1>2. CASE ISCSIConnect(w)
  <2>1. \A u \in Workers : u # w => pc[u] \in {"idle", "eLock"} /\ arg[u].cap <= zvol
    <3>1. lock = w
      BY <1>2 DEF NodeInv, WorkerInv, ISCSIConnect
    <3> QED BY <3>1, Alone
  <2>2. TypeOK'
    <3>1. /\ lock' \in Workers \cup {None} /\ pc' \in [Workers -> PCs]
          /\ arg' \in [Workers -> [form : Forms, target : Targets \cup {None}, cap : 0..MaxSize]]
      BY <1>2 DEF NodeInv, TypeOK, PCs, StagePCs, UnstagePCs, Forms, ISCSIConnect, Attach
    <3>2. /\ session' \in {"none", "half", "live"} /\ staged' \in SUBSET Forms
          /\ severed' \in BOOLEAN /\ record' \in BOOLEAN
      BY <1>2 DEF NodeInv, TypeOK, Forms, ISCSIConnect, Attach
    <3>3. dev' \in 0..MaxSize /\ fsSize' \in 0..MaxSize /\ faults' \in 0..MaxFaults
      BY <1>2 DEF NodeInv, TypeOK, ISCSIConnect, Attach
    <3> QED BY <1>2, <3>1, <3>2, <3>3 DEF NodeInv, TypeOK, ISCSIConnect
  <2>3. NodeShape' /\ SizesNested'
    BY <1>2 DEF NodeInv, TypeOK, NodeShape, SizesNested, WorkerInv, BlockPCs, Forms, ISCSIConnect, Attach
  <2>4. StagedKept' /\ CleanAfterUnstage'
    BY <1>2 DEF NodeInv, StagedKept, CleanAfterUnstage, NodeShape, WorkerInv, StagePCs,
      UnstagePCs, BlockPCs, ISCSIConnect, Attach
  <2>5. ASSUME NEW u \in Workers PROVE WorkerInv(u)'
    BY <1>2, <2>1 DEF NodeInv, TypeOK, NodeShape, SizesNested, StagedKept, CleanAfterUnstage,
      WorkerInv, BlockPCs, StagePCs, UnstagePCs, Forms, ISCSIConnect, Attach
  <2> QED BY <2>2, <2>3, <2>4, <2>5 DEF NodeInv
<1>3. CASE nvmeConnect(w)
  <2>1. \A u \in Workers : u # w => pc[u] \in {"idle", "eLock"} /\ arg[u].cap <= zvol
    <3>1. lock = w
      BY <1>3 DEF NodeInv, WorkerInv, nvmeConnect
    <3> QED BY <3>1, Alone
  <2>2. TypeOK'
    <3>1. /\ lock' \in Workers \cup {None} /\ pc' \in [Workers -> PCs]
          /\ arg' \in [Workers -> [form : Forms, target : Targets \cup {None}, cap : 0..MaxSize]]
      BY <1>3 DEF NodeInv, TypeOK, PCs, StagePCs, UnstagePCs, Forms, nvmeConnect, Attach
    <3>2. /\ session' \in {"none", "half", "live"} /\ staged' \in SUBSET Forms
          /\ severed' \in BOOLEAN /\ record' \in BOOLEAN
      BY <1>3 DEF NodeInv, TypeOK, Forms, nvmeConnect, Attach
    <3>3. dev' \in 0..MaxSize /\ fsSize' \in 0..MaxSize /\ faults' \in 0..MaxFaults
      BY <1>3 DEF NodeInv, TypeOK, nvmeConnect, Attach
    <3> QED BY <1>3, <3>1, <3>2, <3>3 DEF NodeInv, TypeOK, nvmeConnect
  <2>3. NodeShape' /\ SizesNested'
    BY <1>3 DEF NodeInv, TypeOK, NodeShape, SizesNested, WorkerInv, BlockPCs, Forms, nvmeConnect, Attach
  <2>4. StagedKept' /\ CleanAfterUnstage'
    BY <1>3 DEF NodeInv, StagedKept, CleanAfterUnstage, NodeShape, WorkerInv, StagePCs,
      UnstagePCs, BlockPCs, nvmeConnect, Attach
  <2>5. ASSUME NEW u \in Workers PROVE WorkerInv(u)'
    BY <1>3, <2>1 DEF NodeInv, TypeOK, NodeShape, SizesNested, StagedKept, CleanAfterUnstage,
      WorkerInv, BlockPCs, StagePCs, UnstagePCs, Forms, nvmeConnect, Attach
  <2> QED BY <2>2, <2>3, <2>4, <2>5 DEF NodeInv
<1>4. CASE waitForDevice(w)
  <2>1. \A u \in Workers : u # w => pc[u] \in {"idle", "eLock"} /\ arg[u].cap <= zvol
    <3>1. lock = w
      BY <1>4 DEF NodeInv, WorkerInv, waitForDevice
    <3> QED BY <3>1, Alone
  <2>2. TypeOK'
    <3>1. /\ lock' \in Workers \cup {None} /\ pc' \in [Workers -> PCs]
          /\ arg' \in [Workers -> [form : Forms, target : Targets \cup {None}, cap : 0..MaxSize]]
      BY <1>4 DEF NodeInv, TypeOK, PCs, StagePCs, UnstagePCs, Forms, waitForDevice, Attach
    <3>2. /\ session' \in {"none", "half", "live"} /\ staged' \in SUBSET Forms
          /\ severed' \in BOOLEAN /\ record' \in BOOLEAN
      BY <1>4 DEF NodeInv, TypeOK, Forms, waitForDevice, Attach
    <3>3. dev' \in 0..MaxSize /\ fsSize' \in 0..MaxSize /\ faults' \in 0..MaxFaults
      BY <1>4 DEF NodeInv, TypeOK, waitForDevice, Attach
    <3> QED BY <1>4, <3>1, <3>2, <3>3 DEF NodeInv, TypeOK, waitForDevice
  <2>3. NodeShape' /\ SizesNested'
    BY <1>4 DEF NodeInv, TypeOK, NodeShape, SizesNested, WorkerInv, BlockPCs, Forms, waitForDevice, Attach
  <2>4. StagedKept' /\ CleanAfterUnstage'
    BY <1>4 DEF NodeInv, StagedKept, CleanAfterUnstage, NodeShape, WorkerInv, StagePCs,
      UnstagePCs, BlockPCs, waitForDevice, Attach
  <2>5. ASSUME NEW u \in Workers PROVE WorkerInv(u)'
    BY <1>4, <2>1 DEF NodeInv, TypeOK, NodeShape, SizesNested, StagedKept, CleanAfterUnstage,
      WorkerInv, BlockPCs, StagePCs, UnstagePCs, Forms, waitForDevice, Attach
  <2> QED BY <2>2, <2>3, <2>4, <2>5 DEF NodeInv
<1>5. CASE nvmeRollback(w)
  <2>1. \A u \in Workers : u # w => pc[u] \in {"idle", "eLock"} /\ arg[u].cap <= zvol
    <3>1. lock = w
      BY <1>5 DEF NodeInv, WorkerInv, nvmeRollback
    <3> QED BY <3>1, Alone
  <2>2. TypeOK'
    BY <1>5 DEF NodeInv, TypeOK, SizesNested, WorkerInv, PCs, StagePCs, UnstagePCs,
      OtherPCs, Forms, nvmeRollback
  <2>3. NodeShape' /\ SizesNested'
    BY <1>5 DEF NodeInv, TypeOK, NodeShape, SizesNested, WorkerInv, BlockPCs, Forms, nvmeRollback
  <2>4. StagedKept' /\ CleanAfterUnstage'
    BY <1>5 DEF NodeInv, StagedKept, CleanAfterUnstage, NodeShape, WorkerInv, StagePCs,
      UnstagePCs, BlockPCs, nvmeRollback
  <2>5. ASSUME NEW u \in Workers PROVE WorkerInv(u)'
    BY <1>5, <2>1 DEF NodeInv, TypeOK, NodeShape, SizesNested, StagedKept, CleanAfterUnstage,
      WorkerInv, BlockPCs, StagePCs, UnstagePCs, Forms, nvmeRollback
  <2> QED BY <2>2, <2>3, <2>4, <2>5 DEF NodeInv
<1>6. CASE StageMount(w)
  <2>1. \A u \in Workers : u # w => pc[u] \in {"idle", "eLock"} /\ arg[u].cap <= zvol
    <3>1. lock = w
      BY <1>6 DEF NodeInv, WorkerInv, StageMount
    <3> QED BY <3>1, Alone
  <2>2. TypeOK'
    <3>1. /\ lock' \in Workers \cup {None} /\ pc' \in [Workers -> PCs]
          /\ arg' \in [Workers -> [form : Forms, target : Targets \cup {None}, cap : 0..MaxSize]]
      BY <1>6 DEF NodeInv, TypeOK, PCs, StagePCs, UnstagePCs, Forms, StageMount
    <3>2. /\ session' \in {"none", "half", "live"} /\ staged' \in SUBSET Forms
          /\ severed' \in BOOLEAN /\ record' \in BOOLEAN
      BY <1>6 DEF NodeInv, TypeOK, Forms, StageMount
    <3>3. dev' \in 0..MaxSize /\ fsSize' \in 0..MaxSize /\ faults' \in 0..MaxFaults
      BY <1>6 DEF NodeInv, TypeOK, StageMount
    <3> QED BY <1>6, <3>1, <3>2, <3>3 DEF NodeInv, TypeOK, StageMount
  <2>3. NodeShape' /\ SizesNested'
    BY <1>6 DEF NodeInv, TypeOK, NodeShape, SizesNested, WorkerInv, BlockPCs, Forms, StageMount
  <2>4. StagedKept' /\ CleanAfterUnstage'
    BY <1>6 DEF NodeInv, StagedKept, CleanAfterUnstage, NodeShape, WorkerInv, StagePCs,
      UnstagePCs, BlockPCs, StageMount
  <2>5. ASSUME NEW u \in Workers PROVE WorkerInv(u)'
    <3>1. CASE u # w
      BY <1>6, <2>1, <3>1 DEF NodeInv, TypeOK, WorkerInv, BlockPCs, StagePCs, UnstagePCs, StageMount
    <3>2. CASE u = w
      BY <1>6, <3>2 DEF NodeInv, TypeOK, WorkerInv, BlockPCs, StagePCs, UnstagePCs, StageMount
    <3> QED BY <3>1, <3>2
  <2> QED BY <2>2, <2>3, <2>4, <2>5 DEF NodeInv
<1>7. CASE StageResize(w)
  <2>1. \A u \in Workers : u # w => pc[u] \in {"idle", "eLock"} /\ arg[u].cap <= zvol
    <3>1. lock = w
      BY <1>7 DEF NodeInv, WorkerInv, StageResize
    <3> QED BY <3>1, Alone
  <2>2. TypeOK'
    BY <1>7 DEF NodeInv, TypeOK, SizesNested, WorkerInv, PCs, StagePCs, UnstagePCs,
      OtherPCs, Forms, StageResize
  <2>3. NodeShape' /\ SizesNested'
    BY <1>7 DEF NodeInv, TypeOK, NodeShape, SizesNested, WorkerInv, BlockPCs, Forms, StageResize
  <2>4. StagedKept' /\ CleanAfterUnstage'
    BY <1>7 DEF NodeInv, StagedKept, CleanAfterUnstage, NodeShape, WorkerInv, StagePCs,
      UnstagePCs, BlockPCs, StageResize
  <2>5. ASSUME NEW u \in Workers PROVE WorkerInv(u)'
    BY <1>7, <2>1 DEF NodeInv, TypeOK, NodeShape, SizesNested, StagedKept, CleanAfterUnstage,
      WorkerInv, BlockPCs, StagePCs, UnstagePCs, Forms, StageResize
  <2> QED BY <2>2, <2>3, <2>4, <2>5 DEF NodeInv
<1> QED BY <1>1, <1>2, <1>3, <1>4, <1>5, <1>6, <1>7

\* NodeInv is preserved by the steps of NodeUnstageVolume.
LEMMA UnstagePreserves ==
    ASSUME NodeInv, NEW w \in Workers,
           \/ UnstageFind(w)
           \/ UnstageRefs(w)
           \/ UnstageUnmount(w)
           \/ UnstageLogout(w)
           \/ UnstageForget(w)
           \/ UnstageVerify(w)
    PROVE  NodeInv'
<1> USE NodeAssumption
    DEF Staged, Fail, Reply, Return, Goto, Works, Fault, NoArg, node, sizes, co
<1>1. CASE UnstageFind(w)
  <2>1. \A u \in Workers : u # w => pc[u] \in {"idle", "eLock"} /\ arg[u].cap <= zvol
    <3>1. lock = w
      BY <1>1 DEF NodeInv, WorkerInv, UnstageFind
    <3> QED BY <3>1, Alone
  <2>2. TypeOK'
    BY <1>1 DEF NodeInv, TypeOK, SizesNested, WorkerInv, PCs, StagePCs, UnstagePCs,
      OtherPCs, Forms, UnstageFind, discoverMountedVolume, discoverDetachedVolume
  <2>3. NodeShape' /\ SizesNested'
    BY <1>1 DEF NodeInv, TypeOK, NodeShape, SizesNested, WorkerInv, BlockPCs, Forms, UnstageFind, discoverMountedVolume, discoverDetachedVolume
  <2>4. StagedKept' /\ CleanAfterUnstage'
    BY <1>1 DEF NodeInv, StagedKept, CleanAfterUnstage, NodeShape, WorkerInv, StagePCs,
      UnstagePCs, BlockPCs, UnstageFind, discoverMountedVolume, discoverDetachedVolume
  <2>5. ASSUME NEW u \in Workers PROVE WorkerInv(u)'
    BY <1>1, <2>1 DEF NodeInv, TypeOK, NodeShape, SizesNested, StagedKept, CleanAfterUnstage,
      WorkerInv, BlockPCs, StagePCs, UnstagePCs, Forms, UnstageFind, discoverMountedVolume, discoverDetachedVolume
  <2> QED BY <2>2, <2>3, <2>4, <2>5 DEF NodeInv
<1>2. CASE UnstageRefs(w)
  <2>1. \A u \in Workers : u # w => pc[u] \in {"idle", "eLock"} /\ arg[u].cap <= zvol
    <3>1. lock = w
      BY <1>2 DEF NodeInv, WorkerInv, UnstageRefs
    <3> QED BY <3>1, Alone
  <2>2. TypeOK'
    BY <1>2 DEF NodeInv, TypeOK, SizesNested, WorkerInv, PCs, StagePCs, UnstagePCs,
      OtherPCs, Forms, UnstageRefs
  <2>3. NodeShape' /\ SizesNested'
    BY <1>2 DEF NodeInv, TypeOK, NodeShape, SizesNested, WorkerInv, BlockPCs, Forms, UnstageRefs
  <2>4. StagedKept' /\ CleanAfterUnstage'
    BY <1>2 DEF NodeInv, StagedKept, CleanAfterUnstage, NodeShape, WorkerInv, StagePCs,
      UnstagePCs, BlockPCs, UnstageRefs
  <2>5. ASSUME NEW u \in Workers PROVE WorkerInv(u)'
    BY <1>2, <2>1 DEF NodeInv, TypeOK, NodeShape, SizesNested, StagedKept, CleanAfterUnstage,
      WorkerInv, BlockPCs, StagePCs, UnstagePCs, Forms, UnstageRefs
  <2> QED BY <2>2, <2>3, <2>4, <2>5 DEF NodeInv
<1>3. CASE UnstageUnmount(w)
  <2>1. \A u \in Workers : u # w => pc[u] \in {"idle", "eLock"} /\ arg[u].cap <= zvol
    <3>1. lock = w
      BY <1>3 DEF NodeInv, WorkerInv, UnstageUnmount
    <3> QED BY <3>1, Alone
  <2>2. TypeOK'
    <3>1. /\ lock' \in Workers \cup {None} /\ pc' \in [Workers -> PCs]
          /\ arg' \in [Workers -> [form : Forms, target : Targets \cup {None}, cap : 0..MaxSize]]
      BY <1>3 DEF NodeInv, TypeOK, PCs, StagePCs, UnstagePCs, Forms, UnstageUnmount
    <3>2. /\ session' \in {"none", "half", "live"} /\ staged' \in SUBSET Forms
          /\ severed' \in BOOLEAN /\ record' \in BOOLEAN
      BY <1>3 DEF NodeInv, TypeOK, Forms, UnstageUnmount
    <3>3. dev' \in 0..MaxSize /\ fsSize' \in 0..MaxSize /\ faults' \in 0..MaxFaults
      BY <1>3 DEF NodeInv, TypeOK, UnstageUnmount
    <3> QED BY <1>3, <3>1, <3>2, <3>3 DEF NodeInv, TypeOK, UnstageUnmount
  <2>3. NodeShape' /\ SizesNested'
    BY <1>3 DEF NodeInv, TypeOK, NodeShape, SizesNested, WorkerInv, BlockPCs, Forms, UnstageUnmount
  <2>4. StagedKept' /\ CleanAfterUnstage'
    BY <1>3 DEF NodeInv, StagedKept, CleanAfterUnstage, NodeShape, WorkerInv, StagePCs,
      UnstagePCs, BlockPCs, UnstageUnmount
  <2>5. ASSUME NEW u \in Workers PROVE WorkerInv(u)'
    BY <1>3, <2>1 DEF NodeInv, TypeOK, NodeShape, SizesNested, StagedKept, CleanAfterUnstage,
      WorkerInv, BlockPCs, StagePCs, UnstagePCs, Forms, UnstageUnmount
  <2> QED BY <2>2, <2>3, <2>4, <2>5 DEF NodeInv
<1>4. CASE UnstageLogout(w)
  <2>1. \A u \in Workers : u # w => pc[u] \in {"idle", "eLock"} /\ arg[u].cap <= zvol
    <3>1. lock = w
      BY <1>4 DEF NodeInv, WorkerInv, UnstageLogout
    <3> QED BY <3>1, Alone
  <2>2. TypeOK'
    BY <1>4 DEF NodeInv, TypeOK, SizesNested, WorkerInv, PCs, StagePCs, UnstagePCs,
      OtherPCs, Forms, UnstageLogout
  <2>3. NodeShape' /\ SizesNested'
    BY <1>4 DEF NodeInv, TypeOK, NodeShape, SizesNested, WorkerInv, BlockPCs, Forms, UnstageLogout
  <2>4. StagedKept' /\ CleanAfterUnstage'
    BY <1>4 DEF NodeInv, StagedKept, CleanAfterUnstage, NodeShape, WorkerInv, StagePCs,
      UnstagePCs, BlockPCs, UnstageLogout
  <2>5. ASSUME NEW u \in Workers PROVE WorkerInv(u)'
    BY <1>4, <2>1 DEF NodeInv, TypeOK, NodeShape, SizesNested, StagedKept, CleanAfterUnstage,
      WorkerInv, BlockPCs, StagePCs, UnstagePCs, Forms, UnstageLogout
  <2> QED BY <2>2, <2>3, <2>4, <2>5 DEF NodeInv
<1>5. CASE UnstageForget(w)
  <2>1. \A u \in Workers : u # w => pc[u] \in {"idle", "eLock"} /\ arg[u].cap <= zvol
    <3>1. lock = w
      BY <1>5 DEF NodeInv, WorkerInv, UnstageForget
    <3> QED BY <3>1, Alone
  <2>2. TypeOK'
    <3>1. /\ lock' \in Workers \cup {None} /\ pc' \in [Workers -> PCs]
          /\ arg' \in [Workers -> [form : Forms, target : Targets \cup {None}, cap : 0..MaxSize]]
      BY <1>5 DEF NodeInv, TypeOK, PCs, StagePCs, UnstagePCs, Forms, UnstageForget
    <3>2. /\ session' \in {"none", "half", "live"} /\ staged' \in SUBSET Forms
          /\ severed' \in BOOLEAN /\ record' \in BOOLEAN
      BY <1>5 DEF NodeInv, TypeOK, Forms, UnstageForget
    <3>3. dev' \in 0..MaxSize /\ fsSize' \in 0..MaxSize /\ faults' \in 0..MaxFaults
      BY <1>5 DEF NodeInv, TypeOK, UnstageForget
    <3> QED BY <1>5, <3>1, <3>2, <3>3 DEF NodeInv, TypeOK, UnstageForget
  <2>3. NodeShape' /\ SizesNested'
    BY <1>5 DEF NodeInv, TypeOK, NodeShape, SizesNested, WorkerInv, BlockPCs, Forms, UnstageForget
  <2>4. StagedKept' /\ CleanAfterUnstage'
    BY <1>5 DEF NodeInv, StagedKept, CleanAfterUnstage, NodeShape, WorkerInv, StagePCs,
      UnstagePCs, BlockPCs, UnstageForget
  <2>5. ASSUME NEW u \in Workers PROVE WorkerInv(u)'
    BY <1>5, <2>1 DEF NodeInv, TypeOK, NodeShape, SizesNested, StagedKept, CleanAfterUnstage,
      WorkerInv, BlockPCs, StagePCs, UnstagePCs, Forms, UnstageForget
  <2> QED BY <2>2, <2>3, <2>4, <2>5 DEF NodeInv
<1>6. CASE UnstageVerify(w)
  <2>1. \A u \in Workers : u # w => pc[u] \in {"idle", "eLock"} /\ arg[u].cap <= zvol
    <3>1. lock = w
      BY <1>6 DEF NodeInv, WorkerInv, UnstageVerify
    <3> QED BY <3>1, Alone
  <2>2. TypeOK'
    BY <1>6 DEF NodeInv, TypeOK, SizesNested, WorkerInv, PCs, StagePCs, UnstagePCs,
      OtherPCs, Forms, UnstageVerify
  <2>3. NodeShape' /\ SizesNested'
    BY <1>6 DEF NodeInv, TypeOK, NodeShape, SizesNested, WorkerInv, BlockPCs, Forms, UnstageVerify
  <2>4. StagedKept' /\ CleanAfterUnstage'
    BY <1>6 DEF NodeInv, StagedKept, CleanAfterUnstage, NodeShape, WorkerInv, StagePCs,
      UnstagePCs, BlockPCs, UnstageVerify
  <2>5. ASSUME NEW u \in Workers PROVE WorkerInv(u)'
    BY <1>6, <2>1 DEF NodeInv, TypeOK, NodeShape, SizesNested, StagedKept, CleanAfterUnstage,
      WorkerInv, BlockPCs, StagePCs, UnstagePCs, Forms, UnstageVerify
  <2> QED BY <2>2, <2>3, <2>4, <2>5 DEF NodeInv
<1> QED BY <1>1, <1>2, <1>3, <1>4, <1>5, <1>6

\* NodeInv is preserved by the steps of NodePublishVolume and NodeUnpublishVolume.
LEMMA PublishPreserves ==
    ASSUME NodeInv, NEW w \in Workers,
           \/ PublishCheck(w)
           \/ PublishBind(w)
           \/ PublishNFS(w)
           \/ Unpublish(w)
    PROVE  NodeInv'
<1> USE NodeAssumption
    DEF Staged, Fail, Reply, Return, Goto, Works, Fault, NoArg, node, sizes, co
<1>1. CASE PublishCheck(w)
  <2>1. \A u \in Workers : u # w => pc[u] \in {"idle", "eLock"} /\ arg[u].cap <= zvol
    <3>1. lock = w
      BY <1>1 DEF NodeInv, WorkerInv, PublishCheck
    <3> QED BY <3>1, Alone
  <2>2. TypeOK'
    BY <1>1 DEF NodeInv, TypeOK, SizesNested, WorkerInv, PCs, StagePCs, UnstagePCs,
      OtherPCs, Forms, PublishCheck, discoverMountedVolume
  <2>3. NodeShape' /\ SizesNested'
    BY <1>1 DEF NodeInv, TypeOK, NodeShape, SizesNested, WorkerInv, BlockPCs, Forms, PublishCheck, discoverMountedVolume
  <2>4. StagedKept' /\ CleanAfterUnstage'
    BY <1>1 DEF NodeInv, StagedKept, CleanAfterUnstage, NodeShape, WorkerInv, StagePCs,
      UnstagePCs, BlockPCs, PublishCheck, discoverMountedVolume
  <2>5. ASSUME NEW u \in Workers PROVE WorkerInv(u)'
    BY <1>1, <2>1 DEF NodeInv, TypeOK, NodeShape, SizesNested, StagedKept, CleanAfterUnstage,
      WorkerInv, BlockPCs, StagePCs, UnstagePCs, Forms, PublishCheck, discoverMountedVolume
  <2> QED BY <2>2, <2>3, <2>4, <2>5 DEF NodeInv
<1>2. CASE PublishBind(w)
  <2>1. \A u \in Workers : u # w => pc[u] \in {"idle", "eLock"} /\ arg[u].cap <= zvol
    <3>1. lock = w
      BY <1>2 DEF NodeInv, WorkerInv, PublishBind
    <3> QED BY <3>1, Alone
  <2>2. TypeOK'
    BY <1>2 DEF NodeInv, TypeOK, SizesNested, WorkerInv, PCs, StagePCs, UnstagePCs,
      OtherPCs, Forms, PublishBind
  <2>3. NodeShape' /\ SizesNested'
    BY <1>2 DEF NodeInv, TypeOK, NodeShape, SizesNested, WorkerInv, BlockPCs, Forms, PublishBind
  <2>4. StagedKept' /\ CleanAfterUnstage'
    BY <1>2 DEF NodeInv, StagedKept, CleanAfterUnstage, NodeShape, WorkerInv, StagePCs,
      UnstagePCs, BlockPCs, PublishBind
  <2>5. ASSUME NEW u \in Workers PROVE WorkerInv(u)'
    BY <1>2, <2>1 DEF NodeInv, TypeOK, NodeShape, SizesNested, StagedKept, CleanAfterUnstage,
      WorkerInv, BlockPCs, StagePCs, UnstagePCs, Forms, PublishBind
  <2> QED BY <2>2, <2>3, <2>4, <2>5 DEF NodeInv
<1>3. CASE PublishNFS(w)
  <2>1. \A u \in Workers : u # w => pc[u] \in {"idle", "eLock"} /\ arg[u].cap <= zvol
    <3>1. lock = w
      BY <1>3 DEF NodeInv, WorkerInv, PublishNFS
    <3> QED BY <3>1, Alone
  <2>2. TypeOK'
    BY <1>3 DEF NodeInv, TypeOK, SizesNested, WorkerInv, PCs, StagePCs, UnstagePCs,
      OtherPCs, Forms, PublishNFS
  <2>3. NodeShape' /\ SizesNested'
    BY <1>3 DEF NodeInv, TypeOK, NodeShape, SizesNested, WorkerInv, BlockPCs, Forms, PublishNFS
  <2>4. StagedKept' /\ CleanAfterUnstage'
    BY <1>3 DEF NodeInv, StagedKept, CleanAfterUnstage, NodeShape, WorkerInv, StagePCs,
      UnstagePCs, BlockPCs, PublishNFS
  <2>5. ASSUME NEW u \in Workers PROVE WorkerInv(u)'
    BY <1>3, <2>1 DEF NodeInv, TypeOK, NodeShape, SizesNested, StagedKept, CleanAfterUnstage,
      WorkerInv, BlockPCs, StagePCs, UnstagePCs, Forms, PublishNFS
  <2> QED BY <2>2, <2>3, <2>4, <2>5 DEF NodeInv
<1>4. CASE Unpublish(w)
  <2>1. \A u \in Workers : u # w => pc[u] \in {"idle", "eLock"} /\ arg[u].cap <= zvol
    <3>1. lock = w
      BY <1>4 DEF NodeInv, WorkerInv, Unpublish
    <3> QED BY <3>1, Alone
  <2>2. TypeOK'
    BY <1>4 DEF NodeInv, TypeOK, SizesNested, WorkerInv, PCs, StagePCs, UnstagePCs,
      OtherPCs, Forms, Unpublish
  <2>3. NodeShape' /\ SizesNested'
    BY <1>4 DEF NodeInv, TypeOK, NodeShape, SizesNested, WorkerInv, BlockPCs, Forms, Unpublish
  <2>4. StagedKept' /\ CleanAfterUnstage'
    BY <1>4 DEF NodeInv, StagedKept, CleanAfterUnstage, NodeShape, WorkerInv, StagePCs,
      UnstagePCs, BlockPCs, Unpublish
  <2>5. ASSUME NEW u \in Workers PROVE WorkerInv(u)'
    BY <1>4, <2>1 DEF NodeInv, TypeOK, NodeShape, SizesNested, StagedKept, CleanAfterUnstage,
      WorkerInv, BlockPCs, StagePCs, UnstagePCs, Forms, Unpublish
  <2> QED BY <2>2, <2>3, <2>4, <2>5 DEF NodeInv
<1> QED BY <1>1, <1>2, <1>3, <1>4

\* NodeInv is preserved by the steps of NodeExpandVolume that hold the lock.
LEMMA ExpandPreserves ==
    ASSUME NodeInv, NEW w \in Workers,
           \/ ExpandFind(w)
           \/ ExpandRescan(w)
           \/ ExpandResize(w)
    PROVE  NodeInv'
<1> USE NodeAssumption
    DEF Staged, Fail, Reply, Return, Goto, Works, Fault, NoArg, node, sizes, co
<1>1. CASE ExpandFind(w)
  <2>1. \A u \in Workers : u # w => pc[u] \in {"idle", "eLock"} /\ arg[u].cap <= zvol
    <3>1. lock = w
      BY <1>1 DEF NodeInv, WorkerInv, ExpandFind
    <3> QED BY <3>1, Alone
  <2>2. TypeOK'
    BY <1>1 DEF NodeInv, TypeOK, SizesNested, WorkerInv, PCs, StagePCs, UnstagePCs,
      OtherPCs, Forms, ExpandFind, discoverMountedVolume
  <2>3. NodeShape' /\ SizesNested'
    BY <1>1 DEF NodeInv, TypeOK, NodeShape, SizesNested, WorkerInv, BlockPCs, Forms, ExpandFind, discoverMountedVolume
  <2>4. StagedKept' /\ CleanAfterUnstage'
    BY <1>1 DEF NodeInv, StagedKept, CleanAfterUnstage, NodeShape, WorkerInv, StagePCs,
      UnstagePCs, BlockPCs, ExpandFind, discoverMountedVolume
  <2>5. ASSUME NEW u \in Workers PROVE WorkerInv(u)'
    BY <1>1, <2>1 DEF NodeInv, TypeOK, NodeShape, SizesNested, StagedKept, CleanAfterUnstage,
      WorkerInv, BlockPCs, StagePCs, UnstagePCs, Forms, ExpandFind, discoverMountedVolume
  <2> QED BY <2>2, <2>3, <2>4, <2>5 DEF NodeInv
<1>2. CASE ExpandRescan(w)
  <2>1. \A u \in Workers : u # w => pc[u] \in {"idle", "eLock"} /\ arg[u].cap <= zvol
    <3>1. lock = w
      BY <1>2 DEF NodeInv, WorkerInv, ExpandRescan
    <3> QED BY <3>1, Alone
  <2>2. TypeOK'
    BY <1>2 DEF NodeInv, TypeOK, SizesNested, WorkerInv, PCs, StagePCs, UnstagePCs,
      OtherPCs, Forms, ExpandRescan, Rescanned, isBlockVolumeExpansion
  <2>3. NodeShape' /\ SizesNested'
    BY <1>2 DEF NodeInv, TypeOK, NodeShape, SizesNested, WorkerInv, BlockPCs, Forms, ExpandRescan, Rescanned, isBlockVolumeExpansion
  <2>4. StagedKept' /\ CleanAfterUnstage'
    BY <1>2 DEF NodeInv, StagedKept, CleanAfterUnstage, NodeShape, WorkerInv, StagePCs,
      UnstagePCs, BlockPCs, ExpandRescan, Rescanned, isBlockVolumeExpansion
  <2>5. ASSUME NEW u \in Workers PROVE WorkerInv(u)'
    BY <1>2, <2>1 DEF NodeInv, TypeOK, NodeShape, SizesNested, StagedKept, CleanAfterUnstage,
      WorkerInv, BlockPCs, StagePCs, UnstagePCs, Forms, ExpandRescan, Rescanned, isBlockVolumeExpansion
  <2> QED BY <2>2, <2>3, <2>4, <2>5 DEF NodeInv
<1>3. CASE ExpandResize(w)
  <2>1. \A u \in Workers : u # w => pc[u] \in {"idle", "eLock"} /\ arg[u].cap <= zvol
    <3>1. lock = w
      BY <1>3 DEF NodeInv, WorkerInv, ExpandResize
    <3> QED BY <3>1, Alone
  <2>2. TypeOK'
    BY <1>3 DEF NodeInv, TypeOK, SizesNested, WorkerInv, PCs, StagePCs, UnstagePCs,
      OtherPCs, Forms, ExpandResize
  <2>3. NodeShape' /\ SizesNested'
    BY <1>3 DEF NodeInv, TypeOK, NodeShape, SizesNested, WorkerInv, BlockPCs, Forms, ExpandResize
  <2>4. StagedKept' /\ CleanAfterUnstage'
    BY <1>3 DEF NodeInv, StagedKept, CleanAfterUnstage, NodeShape, WorkerInv, StagePCs,
      UnstagePCs, BlockPCs, ExpandResize
  <2>5. ASSUME NEW u \in Workers PROVE WorkerInv(u)'
    BY <1>3, <2>1 DEF NodeInv, TypeOK, NodeShape, SizesNested, StagedKept, CleanAfterUnstage,
      WorkerInv, BlockPCs, StagePCs, UnstagePCs, Forms, ExpandResize
  <2> QED BY <2>2, <2>3, <2>4, <2>5 DEF NodeInv
<1> QED BY <1>1, <1>2, <1>3

\* A request that comes in, and one that takes the lock, preserves NodeInv.
LEMMA RequestPreserves ==
    ASSUME NodeInv, NEW w \in Workers, Request(w) \/ ExpandLock(w)
    PROVE  NodeInv'
<1> USE NodeAssumption DEF Begin, TryAcquireLock, NoArg, node, sizes, co
<1>1. CASE NodeStageVolume(w)
  <2>1. lock = None => \A u \in Workers : pc[u] \in {"idle", "eLock"}
    BY <1>1 DEF NodeInv, WorkerInv, NodeStageVolume
  <2>2. TypeOK'
    BY <1>1 DEF NodeInv, TypeOK, PCs, StagePCs, UnstagePCs, OtherPCs, Forms, NodeStageVolume
  <2>3. NodeShape' /\ SizesNested' /\ StagedKept' /\ CleanAfterUnstage'
    BY <1>1 DEF NodeInv, NodeShape, SizesNested, StagedKept, CleanAfterUnstage, NodeStageVolume
  <2>4. ASSUME NEW u \in Workers PROVE WorkerInv(u)'
    BY <1>1, <2>1 DEF NodeInv, TypeOK, WorkerInv, BlockPCs, StagePCs, UnstagePCs, Forms, NodeStageVolume
  <2> QED BY <2>2, <2>3, <2>4 DEF NodeInv
<1>2. CASE NodeUnstageVolume(w)
  <2>1. lock = None => \A u \in Workers : pc[u] \in {"idle", "eLock"}
    BY <1>2 DEF NodeInv, WorkerInv, NodeUnstageVolume
  <2>2. TypeOK'
    BY <1>2 DEF NodeInv, TypeOK, PCs, StagePCs, UnstagePCs, OtherPCs, Forms, NodeUnstageVolume
  <2>3. NodeShape' /\ SizesNested' /\ StagedKept' /\ CleanAfterUnstage'
    BY <1>2 DEF NodeInv, NodeShape, SizesNested, StagedKept, CleanAfterUnstage, NodeUnstageVolume
  <2>4. ASSUME NEW u \in Workers PROVE WorkerInv(u)'
    BY <1>2, <2>1 DEF NodeInv, TypeOK, WorkerInv, BlockPCs, StagePCs, UnstagePCs, Forms, NodeUnstageVolume
  <2> QED BY <2>2, <2>3, <2>4 DEF NodeInv
<1>3. CASE NodePublishVolume(w)
  <2>1. lock = None => \A u \in Workers : pc[u] \in {"idle", "eLock"}
    BY <1>3 DEF NodeInv, WorkerInv, NodePublishVolume
  <2>2. TypeOK'
    <3>1. PICK f \in Forms, t \in Targets :
               /\ Begin(w, "pCheck", [form |-> f, target |-> t, cap |-> 0])
               /\ bound' = bound \cup {t}
      BY <1>3 DEF NodePublishVolume
    <3>2. [form |-> f, target |-> t, cap |-> 0]
            \in [form : Forms, target : Targets \cup {None}, cap : 0..MaxSize]
      BY DEF NodeInv, TypeOK, Forms
    <3>3. arg' \in [Workers -> [form : Forms, target : Targets \cup {None}, cap : 0..MaxSize]]
      BY <3>1, <3>2 DEF NodeInv, TypeOK
    <3>4. lock' \in Workers \cup {None} /\ pc' \in [Workers -> PCs]
      BY <1>3, <3>1 DEF NodeInv, TypeOK, PCs, OtherPCs, NodePublishVolume
    <3> QED BY <1>3, <3>1, <3>3, <3>4 DEF NodeInv, TypeOK, NodePublishVolume
  <2>3. NodeShape' /\ SizesNested' /\ StagedKept' /\ CleanAfterUnstage'
    BY <1>3 DEF NodeInv, NodeShape, SizesNested, StagedKept, CleanAfterUnstage, NodePublishVolume
  <2>4. ASSUME NEW u \in Workers PROVE WorkerInv(u)'
    BY <1>3, <2>1 DEF NodeInv, TypeOK, WorkerInv, BlockPCs, StagePCs, UnstagePCs, Forms, NodePublishVolume
  <2> QED BY <2>2, <2>3, <2>4 DEF NodeInv
<1>4. CASE NodeUnpublishVolume(w)
  <2>1. lock = None => \A u \in Workers : pc[u] \in {"idle", "eLock"}
    BY <1>4 DEF NodeInv, WorkerInv, NodeUnpublishVolume
  <2>2. TypeOK'
    BY <1>4 DEF NodeInv, TypeOK, PCs, StagePCs, UnstagePCs, OtherPCs, Forms, NodeUnpublishVolume
  <2>3. NodeShape' /\ SizesNested' /\ StagedKept' /\ CleanAfterUnstage'
    BY <1>4 DEF NodeInv, NodeShape, SizesNested, StagedKept, CleanAfterUnstage, NodeUnpublishVolume
  <2>4. ASSUME NEW u \in Workers PROVE WorkerInv(u)'
    BY <1>4, <2>1 DEF NodeInv, TypeOK, WorkerInv, BlockPCs, StagePCs, UnstagePCs, Forms, NodeUnpublishVolume
  <2> QED BY <2>2, <2>3, <2>4 DEF NodeInv
<1>5. CASE NodeExpandVolume(w)
  <2>1. lock = None => \A u \in Workers : pc[u] \in {"idle", "eLock"}
    BY <1>5 DEF NodeInv, WorkerInv, NodeExpandVolume
  <2>2. TypeOK'
    <3>1. PICK t \in pub :
               /\ arg' = [arg EXCEPT ![w] = [form |-> "fs", target |-> t, cap |-> zvol]]
      BY <1>5 DEF NodeExpandVolume
    <3>2. [form |-> "fs", target |-> t, cap |-> zvol]
            \in [form : Forms, target : Targets \cup {None}, cap : 0..MaxSize]
      BY DEF NodeInv, TypeOK, Forms
    <3>3. arg' \in [Workers -> [form : Forms, target : Targets \cup {None}, cap : 0..MaxSize]]
      BY <3>1, <3>2 DEF NodeInv, TypeOK
    <3>4. lock' \in Workers \cup {None} /\ pc' \in [Workers -> PCs]
      BY <1>5, <3>1 DEF NodeInv, TypeOK, PCs, OtherPCs, NodeExpandVolume
    <3> QED BY <1>5, <3>1, <3>3, <3>4 DEF NodeInv, TypeOK, NodeExpandVolume
  <2>3. NodeShape' /\ SizesNested' /\ StagedKept' /\ CleanAfterUnstage'
    BY <1>5 DEF NodeInv, NodeShape, SizesNested, StagedKept, CleanAfterUnstage, NodeExpandVolume
  <2>4. ASSUME NEW u \in Workers PROVE WorkerInv(u)'
    BY <1>5, <2>1 DEF NodeInv, TypeOK, WorkerInv, BlockPCs, StagePCs, UnstagePCs, Forms, NodeExpandVolume
  <2> QED BY <2>2, <2>3, <2>4 DEF NodeInv
<1>6. CASE ExpandLock(w)
  <2>1. lock = None => \A u \in Workers : pc[u] \in {"idle", "eLock"}
    BY <1>6 DEF NodeInv, WorkerInv, ExpandLock
  <2>2. TypeOK'
    BY <1>6 DEF NodeInv, TypeOK, PCs, StagePCs, UnstagePCs, OtherPCs, Forms, ExpandLock
  <2>3. NodeShape' /\ SizesNested' /\ StagedKept' /\ CleanAfterUnstage'
    BY <1>6 DEF NodeInv, NodeShape, SizesNested, StagedKept, CleanAfterUnstage, ExpandLock
  <2>4. ASSUME NEW u \in Workers PROVE WorkerInv(u)'
    BY <1>6, <2>1 DEF NodeInv, TypeOK, WorkerInv, BlockPCs, StagePCs, UnstagePCs, Forms, ExpandLock
  <2> QED BY <2>2, <2>3, <2>4 DEF NodeInv
<1> QED BY <1>1, <1>2, <1>3, <1>4, <1>5, <1>6 DEF Request

\* The environment preserves NodeInv.
LEMMA EnvironmentPreserves ==
    ASSUME NodeInv,
           \/ Grow \/ Release \/ Sever \/ Restart \/ Reboot
           \/ \E t \in Targets : LateMount(t)
    PROVE  NodeInv'
<1> USE NodeAssumption DEF Fault, NoRequests, NoArg, node, sizes, server, co
<1>1. CASE Grow
  <2>1. TypeOK'
    BY <1>1 DEF NodeInv, TypeOK, PCs, Forms, Grow
  <2>2. NodeShape' /\ SizesNested' /\ StagedKept' /\ CleanAfterUnstage'
    BY <1>1 DEF NodeInv, TypeOK, NodeShape, SizesNested, StagedKept, CleanAfterUnstage, Forms, Grow
  <2>3. ASSUME NEW u \in Workers PROVE WorkerInv(u)'
    BY <1>1 DEF NodeInv, TypeOK, NodeShape, SizesNested, WorkerInv, BlockPCs, StagePCs, UnstagePCs,
      Grow
  <2> QED BY <2>1, <2>2, <2>3 DEF NodeInv
<1>2. CASE Release
  <2>1. TypeOK'
    BY <1>2 DEF NodeInv, TypeOK, PCs, Forms, Release
  <2>2. NodeShape' /\ SizesNested' /\ StagedKept' /\ CleanAfterUnstage'
    BY <1>2 DEF NodeInv, TypeOK, NodeShape, SizesNested, StagedKept, CleanAfterUnstage, Forms, Release
  <2>3. ASSUME NEW u \in Workers PROVE WorkerInv(u)'
    BY <1>2 DEF NodeInv, TypeOK, NodeShape, SizesNested, WorkerInv, BlockPCs, StagePCs, UnstagePCs,
      Release
  <2> QED BY <2>1, <2>2, <2>3 DEF NodeInv
<1>3. CASE Sever
  <2>1. TypeOK'
    BY <1>3 DEF NodeInv, TypeOK, PCs, Forms, Sever
  <2>2. NodeShape' /\ SizesNested' /\ StagedKept' /\ CleanAfterUnstage'
    BY <1>3 DEF NodeInv, TypeOK, NodeShape, SizesNested, StagedKept, CleanAfterUnstage, Forms, Sever
  <2>3. ASSUME NEW u \in Workers PROVE WorkerInv(u)'
    BY <1>3 DEF NodeInv, TypeOK, NodeShape, SizesNested, WorkerInv, BlockPCs, StagePCs, UnstagePCs,
      Sever
  <2> QED BY <2>1, <2>2, <2>3 DEF NodeInv
<1>4. CASE Restart
  <2>1. TypeOK'
    BY <1>4 DEF NodeInv, TypeOK, PCs, Forms, Restart
  <2>2. NodeShape' /\ SizesNested' /\ StagedKept' /\ CleanAfterUnstage'
    BY <1>4 DEF NodeInv, TypeOK, NodeShape, SizesNested, StagedKept, CleanAfterUnstage, Forms, Restart
  <2>3. ASSUME NEW u \in Workers PROVE WorkerInv(u)'
    BY <1>4 DEF NodeInv, TypeOK, NodeShape, SizesNested, WorkerInv, BlockPCs, StagePCs, UnstagePCs,
      Restart
  <2> QED BY <2>1, <2>2, <2>3 DEF NodeInv
<1>5. CASE Reboot
  <2>1. TypeOK'
    <3>1. /\ lock' \in Workers \cup {None} /\ pc' \in [Workers -> PCs]
          /\ arg' \in [Workers -> [form : Forms, target : Targets \cup {None}, cap : 0..MaxSize]]
      BY <1>5 DEF PCs, Forms, Reboot
    <3>2. /\ protocol' \in Protocols /\ session' \in {"none", "half", "live"}
          /\ severed' \in BOOLEAN /\ record' \in BOOLEAN
          /\ staged' \in SUBSET Forms /\ pub' \in SUBSET Targets /\ late' \in SUBSET Targets
      BY <1>5 DEF NodeInv, TypeOK, Reboot
    <3>3. /\ want' \in {"use", "release"} /\ told' \in {"none", "staged", "unstaged"}
          /\ bound' \in SUBSET Targets /\ promised' \in 0..MaxSize
      BY <1>5 DEF NodeInv, TypeOK, Reboot
    <3>4. /\ zvol' \in 1..MaxSize /\ dev' \in 0..MaxSize /\ fsSize' \in 0..MaxSize
          /\ faults' \in 0..MaxFaults
      BY <1>5 DEF NodeInv, TypeOK, Reboot
    <3> QED BY <3>1, <3>2, <3>3, <3>4 DEF TypeOK
  <2>2. NodeShape' /\ SizesNested' /\ StagedKept' /\ CleanAfterUnstage'
    BY <1>5 DEF NodeInv, TypeOK, NodeShape, SizesNested, StagedKept, CleanAfterUnstage, Forms, Reboot
  <2>3. ASSUME NEW u \in Workers PROVE WorkerInv(u)'
    BY <1>5 DEF NodeInv, TypeOK, NodeShape, SizesNested, WorkerInv, BlockPCs, StagePCs, UnstagePCs,
      Reboot
  <2> QED BY <2>1, <2>2, <2>3 DEF NodeInv
<1>6. CASE \E t \in Targets : LateMount(t)
  <2>1. TypeOK'
    BY <1>6 DEF NodeInv, TypeOK, PCs, Forms, LateMount
  <2>2. NodeShape' /\ SizesNested' /\ StagedKept' /\ CleanAfterUnstage'
    BY <1>6 DEF NodeInv, TypeOK, NodeShape, SizesNested, StagedKept, CleanAfterUnstage, Forms, LateMount
  <2>3. ASSUME NEW u \in Workers PROVE WorkerInv(u)'
    BY <1>6 DEF NodeInv, TypeOK, NodeShape, SizesNested, WorkerInv, BlockPCs, StagePCs, UnstagePCs,
      LateMount
  <2> QED BY <2>1, <2>2, <2>3 DEF NodeInv
<1> QED BY <1>1, <1>2, <1>3, <1>4, <1>5, <1>6

\* NodeInv holds initially.
LEMMA InitNodeInv == Init => NodeInv
<1> SUFFICES ASSUME Init PROVE NodeInv
  OBVIOUS
<1> USE NodeAssumption DEF Init, NoArg
<1>1. TypeOK
  <2>1. /\ pc \in [Workers -> PCs]
        /\ arg \in [Workers -> [form : Forms, target : Targets \cup {None}, cap : 0..MaxSize]]
    BY DEF PCs, Forms
  <2>2. /\ session \in {"none", "half", "live"}
        /\ severed \in BOOLEAN /\ record \in BOOLEAN
        /\ staged \in SUBSET Forms /\ pub \in SUBSET Targets /\ late \in SUBSET Targets
    OBVIOUS
  <2>3. /\ zvol \in 1..MaxSize /\ dev \in 0..MaxSize /\ fsSize \in 0..MaxSize
        /\ promised \in 0..MaxSize /\ faults \in 0..MaxFaults
    OBVIOUS
  <2> QED BY <2>1, <2>2, <2>3 DEF TypeOK
<1>2. NodeShape /\ SizesNested /\ StagedKept /\ CleanAfterUnstage
  BY DEF NodeShape, SizesNested, StagedKept, CleanAfterUnstage, Forms
<1>3. ASSUME NEW w \in Workers PROVE WorkerInv(w)
  BY DEF WorkerInv, BlockPCs, StagePCs, UnstagePCs
<1> QED BY <1>1, <1>2, <1>3 DEF NodeInv

\* NodeInv is inductive.
LEMMA NextNodeInv == NodeInv /\ [Next]_vars => NodeInv'
<1> SUFFICES ASSUME NodeInv, [Next]_vars PROVE NodeInv'
  OBVIOUS
<1>1. CASE \E w \in Workers : Request(w)
  BY <1>1, RequestPreserves
<1>2. CASE \E w \in Workers : Step(w)
  BY <1>2, RequestPreserves, StagePreserves, UnstagePreserves, PublishPreserves, ExpandPreserves DEF Step
<1>3. CASE \/ Grow \/ Release \/ Sever \/ Restart \/ Reboot
           \/ \E t \in Targets : LateMount(t)
  BY <1>3, EnvironmentPreserves
<1>4. CASE UNCHANGED vars
  BY <1>4 DEF vars, node, sizes, server, co, NodeInv, TypeOK, NodeShape, SizesNested,
     StagedKept, CleanAfterUnstage, WorkerInv
<1> QED BY <1>1, <1>2, <1>3, <1>4 DEF Next

-----------------------------------------------------------------------------
\* What a handler of the node server relies on between two of its steps is
\* true in every reachable state.
THEOREM NodeInvariant == Spec => []NodeInv
BY InitNodeInv, NextNodeInv, PTL DEF Spec

\* Every reachable state of the node server is well typed.
THEOREM NodeTypes == Spec => []TypeOK
<1>1. NodeInv => TypeOK
  BY DEF NodeInv
<1> QED BY <1>1, NodeInvariant, PTL

\* What NodeStageVolume acknowledged stays staged until NodeUnstageVolume is
\* called or the node reboots.
THEOREM StagingKept == Spec => []StagedKept
<1>1. NodeInv => StagedKept
  BY DEF NodeInv
<1> QED BY <1>1, NodeInvariant, PTL

\* An acknowledged NodeUnstageVolume leaves no session, node record or mount.
THEOREM UnstagingClean == Spec => []CleanAfterUnstage
<1>1. NodeInv => CleanAfterUnstage
  BY DEF NodeInv
<1> QED BY <1>1, NodeInvariant, PTL

\* A file system has the capacity NodeExpandVolume answered.
THEOREM ExpansionFull == Spec => []ExpandedFull
<1>1. NodeInv => ExpandedFull
  BY DEF NodeInv, SizesNested, ExpandedFull
<1> QED BY <1>1, NodeInvariant, PTL

-----------------------------------------------------------------------------
(***************************************************************************)
(* NodeServer implements NodeLifecycle                                     *)
(***************************************************************************)

\* The abstract variables do not see these steps.
LEMMA StutteringSteps ==
    ASSUME NodeInv, NEW w \in Workers,
           \/ Request(w)
           \/ StageList(w)
           \/ StageResize(w)
           \/ UnstageFind(w)
           \/ UnstageRefs(w)
           \/ UnstageForget(w)
           \/ UnstageVerify(w)
           \/ PublishCheck(w)
           \/ PublishNFS(w)
           \/ ExpandLock(w)
           \/ ExpandFind(w)
           \/ ExpandRescan(w)
           \/ ExpandResize(w)
    PROVE  UNCHANGED Lifecycle!vars
<1> USE DEF Lifecycle!vars, node
<1>1. CASE Request(w)
  BY <1>1 DEF Request, NodeStageVolume, NodeUnstageVolume, NodePublishVolume,
     NodeUnpublishVolume, NodeExpandVolume, Begin
<1>2. CASE StageList(w)
  BY <1>2 DEF StageList
<1>3. CASE StageResize(w)
  BY <1>3 DEF StageResize
<1>4. CASE UnstageFind(w)
  BY <1>4 DEF UnstageFind
<1>5. CASE UnstageRefs(w)
  BY <1>5 DEF UnstageRefs
<1>6. CASE UnstageForget(w)
  BY <1>6 DEF UnstageForget
<1>7. CASE UnstageVerify(w)
  BY <1>7 DEF UnstageVerify
<1>8. CASE PublishCheck(w)
  BY <1>8 DEF PublishCheck
<1>9. CASE PublishNFS(w)
  BY <1>9 DEF PublishNFS, NodeInv, WorkerInv
<1>10. CASE ExpandLock(w)
  BY <1>10 DEF ExpandLock
<1>11. CASE ExpandFind(w)
  BY <1>11 DEF ExpandFind
<1>12. CASE ExpandRescan(w)
  BY <1>12 DEF ExpandRescan
<1>13. CASE ExpandResize(w)
  BY <1>13 DEF ExpandResize
<1> QED BY <1>1, <1>2, <1>3, <1>4, <1>5, <1>6, <1>7, <1>8, <1>9, <1>10, <1>11, <1>12, <1>13

\* Every other step of a handler is a step of NodeLifecycle, or invisible.
LEMMA LayerSteps ==
    ASSUME NodeInv, NEW w \in Workers,
           \/ ISCSIConnect(w)
           \/ nvmeConnect(w)
           \/ waitForDevice(w)
           \/ nvmeRollback(w)
           \/ StageMount(w)
           \/ UnstageUnmount(w)
           \/ UnstageLogout(w)
           \/ PublishBind(w)
           \/ Unpublish(w)
    PROVE  [Lifecycle!Next]_(Lifecycle!vars)
<1> USE DEF Lifecycle!vars, Lifecycle!Next, node, NodeInv, WorkerInv
<1>1. CASE ISCSIConnect(w)
  BY <1>1 DEF ISCSIConnect, Attach, Lifecycle!Attach
<1>2. CASE nvmeConnect(w)
  BY <1>2 DEF nvmeConnect, Attach, Lifecycle!Attach
<1>3. CASE waitForDevice(w)
  BY <1>3 DEF waitForDevice, Attach, Lifecycle!Attach
<1>4. CASE nvmeRollback(w)
  BY <1>4 DEF nvmeRollback, Lifecycle!Detach
<1>5. CASE StageMount(w)
  BY <1>5 DEF StageMount, Lifecycle!Stage
<1>6. CASE UnstageUnmount(w)
  BY <1>6 DEF UnstageUnmount, Lifecycle!Unstage
<1>7. CASE UnstageLogout(w)
  BY <1>7 DEF UnstageLogout, Lifecycle!Detach
<1>8. CASE PublishBind(w)
  BY <1>8 DEF PublishBind, Lifecycle!Publish
<1>9. CASE Unpublish(w)
  BY <1>9 DEF Unpublish, Lifecycle!Unpublish
<1> QED BY <1>1, <1>2, <1>3, <1>4, <1>5, <1>6, <1>7, <1>8, <1>9

\* A step of the node server is a step of NodeLifecycle, or invisible.
LEMMA NextImplements == NodeInv /\ [Next]_vars => [Lifecycle!Next]_(Lifecycle!vars)
<1> SUFFICES ASSUME NodeInv, [Next]_vars PROVE [Lifecycle!Next]_(Lifecycle!vars)
  OBVIOUS
<1>1. CASE \E w \in Workers : Request(w) \/ Step(w)
  BY <1>1, StutteringSteps, LayerSteps DEF Step
<1>2. CASE (\E t \in Targets : LateMount(t)) \/ Grow \/ Release \/ Restart \/ UNCHANGED vars
  BY <1>2 DEF NodeInv, NodeShape, LateMount, Grow, Release, Restart, vars, node, Lifecycle!vars
<1>3. CASE Sever
  BY <1>3 DEF Sever, Lifecycle!Next, Lifecycle!Sever
<1>4. CASE Reboot
  BY <1>4 DEF Reboot, Lifecycle!Next, Lifecycle!Reboot
<1> QED BY <1>1, <1>2, <1>3, <1>4 DEF Next

\* Whatever overlaps, fails or is cut off, sessions, staging mounts and
\* publications are put up and taken down in order.
THEOREM NodeImplementsLifecycle == Spec => LayersInOrder
<1>1. Init => Lifecycle!Init
  BY DEF Init, Lifecycle!Init
<1> QED BY <1>1, NodeInvariant, NextImplements, PTL DEF Spec, LayersInOrder, Lifecycle!Spec

\* mkfs runs on a device only while it is not staged raw.
THEOREM RawDevicesNotFormatted == Spec => RawNotFormatted
<1>1. NodeInv /\ [Next]_vars
        => [fsSize = 0 /\ fsSize' # 0 => "block" \notin staged \cup staged']_vars
  <2> SUFFICES ASSUME NodeInv, Next, fsSize = 0, fsSize' # 0
               PROVE  "block" \notin staged \cup staged'
    OBVIOUS
  <2>1. PICK w \in Workers : StageMount(w) \/ StageResize(w) \/ ExpandResize(w)
    BY DEF Next, Request, Step, NodeStageVolume, NodeUnstageVolume, NodePublishVolume,
       NodeUnpublishVolume, NodeExpandVolume, Begin, StageList, ISCSIConnect, nvmeConnect,
       waitForDevice, nvmeRollback, UnstageFind, UnstageRefs, UnstageUnmount, UnstageLogout,
       UnstageForget, UnstageVerify, PublishCheck, PublishBind, PublishNFS, Unpublish,
       ExpandLock, ExpandFind, ExpandRescan, LateMount, Grow, Release, Sever, Restart,
       Reboot, sizes
  <2>2. CASE StageMount(w)
    BY <2>2 DEF StageMount, NodeInv, WorkerInv
  <2>3. CASE StageResize(w) \/ ExpandResize(w)
    BY <2>3 DEF StageResize, ExpandResize, NodeInv, WorkerInv, node
  <2> QED BY <2>1, <2>2, <2>3
<1> QED BY <1>1, NodeInvariant, PTL DEF Spec, RawNotFormatted

=============================================================================
