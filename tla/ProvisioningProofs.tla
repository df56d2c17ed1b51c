------------------------- MODULE ProvisioningProofs -------------------------
(***************************************************************************)
(* Proofs about Provisioning, for any set of volumes, classes, sizes and   *)
(* faults.                                                                 *)
(***************************************************************************)
EXTENDS Provisioning, TLAPS

\* What a step of a volume's handler may do: to the request, to TrueNAS and
\* to the count of faults.
Moves(v) ==
    \/ \E p \in PCs \ {"pProbe"}, i \in 0..8 : GotoAt(v, p, i)
    \/ \E p \in PCs \ {"pProbe"}, n \in Nat : GotoFor(v, p, n)
    \/ Fail(v) \/ Deleted(v)
    \/ \E n \in Nat : CreatedWith(v, n)
    \/ \E n \in Nat : Expanded(v, n) /\ tracked' \in {tracked, tracked \cup {v}}

Publishes(v) == Goto(v, "pProbe") \/ \E c \in {"part", "full"} : Published(v, c)

Stores(v) ==
    \/ \E k \in Kinds : Add(v, k) \/ Remove(v, k)
    \/ Resize(v)
    \/ UNCHANGED storeVars

\* The chains, and the place of each object in them.
LEMMA ChainFacts ==
    ASSUME NEW v \in Volumes
    PROVE  /\ Len(Chain(v)) \in 2..6
           /\ Chain(v)[1] = "dataset"
           /\ \A i \in 1..Len(Chain(v)) : Chain(v)[i] \in Kinds
           /\ \A i \in 2..Len(Chain(v)) : Chain(v)[i] # "dataset"
           /\ \A k \in Vouched(v) :
                k \in Named /\ \E i \in 1..Len(Chain(v)) : Chain(v)[i] = k
           /\ \A i \in 1..Len(Chain(v)) : Chain(v)[i] = "namespace" =>
                \E j \in 1..(i - 1) : Chain(v)[j] = "subsys"
           /\ \A i \in 1..Len(Chain(v)) : Chain(v)[i] = "extent" => ISCSI(v)
  <1> USE DEF Chain, Vouched, ISCSI, NVMeOF, Kinds, Named, Unnamed
  <1>0. Class[v] \in Classes BY ProvisioningAssumption
  <1>1. CASE Class[v] = "nfs"
    BY <1>1 DEF createNFSVolume
  <1>2. CASE Class[v] = "iscsi"
    BY <1>2 DEF createISCSIVolume
  <1>3. CASE Class[v] = "chap"
    BY <1>3 DEF createISCSIVolume
  <1>4. CASE Class[v] = "nvmeof"
    BY <1>4 DEF createNVMeOFVolume
  <1>5. CASE Class[v] = "dhchap"
    BY <1>5 DEF createNVMeOFVolume
  <1> QED BY <1>0, <1>1, <1>2, <1>3, <1>4, <1>5 DEF Classes

\* Only the chain of a CHAP volume has groups.
LEMMA GroupFacts ==
    ASSUME NEW v \in Volumes, Class[v] # "chap"
    PROVE  \A i \in 1..Len(Chain(v)) : Chain(v)[i] \notin Unnamed
  <1>0. Class[v] \in Classes BY ProvisioningAssumption
  <1> QED
    BY <1>0
    DEF Classes, Chain, ISCSI, NVMeOF, Unnamed, createNFSVolume, createISCSIVolume,
        createNVMeOFVolume

-----------------------------------------------------------------------------
(***************************************************************************)
(* Types                                                                   *)
(***************************************************************************)

LEMMA StoresType ==
    ASSUME TypeOK, NEW v \in Volumes, Stores(v)
    PROVE  TypeStore'
  <1> USE DEF TypeOK, TypeStore, TypeReq
  <1>1. ASSUME NEW k \in Kinds, Add(v, k) PROVE TypeStore'
    <2>1. has' \in [Volumes -> SUBSET Named] BY <1>1 DEF Add
    <2>2. spare' \in [Volumes -> [Unnamed -> Int]] BY <1>1 DEF Add
    <2>3. size' \in [Volumes -> Nat]
      BY <1>1, ProvisioningAssumption DEF Add, NewSize
    <2>4. host' \in BOOLEAN BY <1>1 DEF Add
    <2> QED BY <2>1, <2>2, <2>3, <2>4
  <1>2. ASSUME NEW k \in Kinds, Remove(v, k) PROVE TypeStore'
    <2>1. has' \in [Volumes -> SUBSET Named] BY <1>2 DEF Remove
    <2>2. spare' \in [Volumes -> [Unnamed -> Int]] BY <1>2 DEF Remove
    <2>3. size' \in [Volumes -> Nat] BY <1>2 DEF Remove
    <2> QED BY <1>2, <2>1, <2>2, <2>3 DEF Remove
  <1>3. CASE Resize(v) BY <1>3 DEF Resize
  <1>4. CASE UNCHANGED storeVars BY <1>4 DEF storeVars
  <1> QED BY <1>1, <1>2, <1>3, <1>4 DEF Stores

LEMMA MovesType ==
    ASSUME TypeOK, NEW v \in Volumes, Moves(v) \/ Publishes(v)
    PROVE  TypeReq' /\ TypeCO'
  <1> USE DEF TypeOK, TypeReq, TypeCO, PCs
  <1>1. CASE \E p \in PCs, i \in 0..8 : GotoAt(v, p, i)
    BY <1>1 DEF GotoAt, coVars
  <1>2. CASE Fail(v) BY <1>2 DEF Fail, Return, coVars
  <1>3. ASSUME NEW n \in Nat, CreatedWith(v, n) PROVE TypeReq' /\ TypeCO'
    <2>1. TypeReq' BY <1>3 DEF CreatedWith, Return
    <2>2. promised' \in [Volumes -> Nat] BY <1>3 DEF CreatedWith
    <2>3. acked' \in [Volumes -> {"none", "created", "deleted"}]
      BY <1>3 DEF CreatedWith
    <2> QED BY <1>3, <2>1, <2>2, <2>3 DEF CreatedWith
  <1>4. CASE Deleted(v)
    <2>1. TypeReq' BY <1>4 DEF Deleted, Return
    <2>2. acked' \in [Volumes -> {"none", "created", "deleted"}]
      BY <1>4 DEF Deleted
    <2> QED BY <1>4, <2>1, <2>2 DEF Deleted
  <1>5. ASSUME NEW n \in Nat, Expanded(v, n), tracked' \in {tracked, tracked \cup {v}}
        PROVE  TypeReq' /\ TypeCO'
    BY <1>5 DEF Expanded, Return
  <1>6. ASSUME NEW c \in {"part", "full"}, Published(v, c) PROVE TypeReq' /\ TypeCO'
    BY <1>6 DEF Published, Return
  <1>7. ASSUME NEW p \in PCs, NEW n \in Nat, GotoFor(v, p, n) PROVE TypeReq' /\ TypeCO'
    BY <1>7 DEF GotoFor, coVars
  <1>8. CASE Goto(v, "pProbe") BY <1>8 DEF Goto, GotoAt, UsePCs, coVars
  <1> HIDE DEF PCs
  <1> QED BY <1>1, <1>2, <1>3, <1>4, <1>5, <1>6, <1>7, <1>8 DEF Moves, Publishes

\* A handler step that is a move, touches TrueNAS at most once and counts
\* its fault keeps every type.
LEMMA StepType ==
    ASSUME TypeOK, NEW v \in Volumes, Moves(v) \/ Publishes(v), Stores(v),
           Works(v) \/ Errs(v) \/ Dropped(v) \/ UNCHANGED faults
    PROVE  TypeOK'
  <1>1. faults' \in Nat
    BY ProvisioningAssumption DEF TypeOK, Works, Errs, Dropped, Fault
  <1> QED BY <1>1, StoresType, MovesType DEF TypeOK

\* Every step of a handler is such a step.
LEMMA CreateShape ==
    ASSUME TypeOK, NEW v \in Volumes, Building(v), CreateStep(v)
    PROVE  Moves(v) /\ Stores(v)
             /\ (Works(v) \/ Errs(v) \/ Dropped(v) \/ UNCHANGED faults)
  <1> USE DEF Moves, PCs, CreatePCs, EnsurePCs, ISCSIPCs, NVMeOFPCs, Goto
  <1>0. /\ "target" \in Kinds /\ "extent" \in Kinds /\ "assoc" \in Kinds
        /\ "subsys" \in Kinds /\ "namespace" \in Kinds /\ "host" \in Kinds
        /\ "portLink" \in Kinds /\ "hostLink" \in Kinds
    BY DEF Kinds, Named
  <1>a. size[v] \in Nat /\ req[v] \in Nat
    BY DEF TypeOK, TypeStore, TypeReq
  <1>b. Created(v) => \E n \in Nat : CreatedWith(v, n)
    BY <1>a DEF Created
  <1>1. CASE CreateGet(v) \/ CreateAgain(v)
    <2>1. \A n \in Nat : Adopt(v, n) => Moves(v)
      BY DEF Adopt
    <2>2. Absent(v) \/ GotoAt(v, "make", 1) => Moves(v)
      BY DEF Absent
    <2>3. Moves(v)
      <3> HIDE DEF Moves
      <3>1. Fail(v) => Moves(v) BY DEF Moves
      <3> QED BY <1>1, <1>a, <2>1, <2>2, <3>1 DEF CreateGet, CreateAgain
    <2> HIDE DEF Moves
    <2> QED BY <1>1, <2>3 DEF CreateGet, CreateAgain, Stores
  <1>2. CASE Make(v) \/ Undo(v)
    <2> DEFINE k == Chain(v)[at[v]]
    <2>1. at[v] \in 1..Len(Chain(v)) BY <1>2 DEF Building, Make, Undo
    <2>2. k \in Kinds /\ at[v] \in 1..6 /\ Len(Chain(v)) \in 2..6
      BY <2>1, ChainFacts
    <2> HIDE DEF k
    <2>3. at[v] - 1 \in 0..8 /\ at[v] + 1 \in 0..8 BY <2>2
    <2>4. CASE Make(v)
      BY <1>b, <2>2, <2>3, <2>4 DEF Make, Built, Stores, Rollback, k
    <2>5. CASE Undo(v)
      BY <2>2, <2>3, <2>5 DEF Undo, Stores, Kinds, Named, k
    <2> QED BY <1>2, <2>4, <2>5
  <1>3. CASE ensureISCSIChain(v)
    BY <1>0, <1>3, <1>b
    DEF ensureISCSIChain, ensureTarget, Query, Repair, Stores
  <1>4. CASE ensureNVMeOFChain(v)
    BY <1>0, <1>4, <1>b
    DEF ensureNVMeOFChain, ensureNVMeHost, Query, QueryOrFail, Repair, Stores
  <1>5. CASE MakeTask(v)
    BY <1>5, <1>b DEF MakeTask, Stores, Kinds, Named
  <1>6. CASE FitClone(v)
    BY <1>6 DEF FitClone, Stores
  <1> QED BY <1>1, <1>2, <1>3, <1>4, <1>5, <1>6 DEF CreateStep

LEMMA UseShape ==
    ASSUME TypeOK, NEW v \in Volumes, UseStep(v)
    PROVE  (Moves(v) \/ Publishes(v)) /\ Stores(v)
             /\ (Works(v) \/ Errs(v) \/ Dropped(v) \/ UNCHANGED faults)
  <1> USE DEF Moves, Publishes, Stores, PCs, UsePCs, Goto
  <1>a. size[v] \in Nat /\ req[v] \in Nat
    BY DEF TypeOK, TypeStore, TypeReq
  <1>1. CASE ExpandInfo(v) BY <1>1, <1>a DEF ExpandInfo, Errs
  <1>2. CASE ExpandUpdate(v) BY <1>2, <1>a DEF ExpandUpdate
  <1>3. CASE PublishGet(v) BY <1>3 DEF PublishGet, QueryOrFail
  <1>4. CASE PublishInfo(v) BY <1>4 DEF PublishInfo, Errs
  <1>5. CASE PublishProbe(v) BY <1>5 DEF PublishProbe
  <1> QED BY <1>1, <1>2, <1>3, <1>4, <1>5 DEF UseStep

LEMMA DropFacts ==
    Len(DropOrder) = 8 /\ \A i \in 1..8 : DropOrder[i] \in Kinds \ Unnamed
  BY DEF DropOrder, Kinds, Named, Unnamed

LEMMA DeleteType ==
    ASSUME TypeOK, NEW v \in Volumes, OwnPhase(v), DeleteStep(v)
    PROVE  TypeOK'
  <1> USE DEF PCs, DeletePCs, Goto
  <1>1. CASE DeleteGet(v)
    <2>1. Moves(v) /\ Stores(v) /\ (Works(v) \/ Errs(v))
      BY <1>1 DEF DeleteGet, QueryOrFail, Moves, Stores
    <2> QED BY <2>1, StepType
  <1>2. CASE DeleteSnapshots(v)
    <2>1. Moves(v) /\ Stores(v) /\ (Works(v) \/ Errs(v))
      BY <1>2 DEF DeleteSnapshots, Moves, Stores
    <2> QED BY <2>1, StepType
  <1>3. CASE DeleteInfo(v)
    <2>1. Reconstructed(v) \subseteq Named BY DEF Reconstructed, Named
    <2>2. ids' \in [Volumes -> SUBSET Named]
      BY <1>3, <2>1 DEF DeleteInfo, TypeOK, TypeReq
    <2>3. faults' \in Nat BY <1>3, ProvisioningAssumption DEF DeleteInfo, Fault, TypeOK
    <2> QED
      BY <1>3, <2>2, <2>3
      DEF DeleteInfo, TypeOK, TypeReq, TypeStore, TypeCO, storeVars, coVars
  <1>4. CASE DeleteDrop(v)
    <2> DEFINE k == DropOrder[at[v]]
    <2>1. k \in Kinds /\ at[v] \in 1..8
      BY <1>4, DropFacts DEF OwnPhase, DeleteDrop
    <2> HIDE DEF k
    <2>2. DropNext(v) => Moves(v)
      BY <2>1, DropFacts DEF DropNext, Moves
    <2>3. GotoAt(v, "gcQuery", at[v]) => Moves(v) BY <2>1 DEF Moves
    <2>4. Moves(v) /\ Stores(v)
            /\ (Works(v) \/ Errs(v) \/ Dropped(v) \/ UNCHANGED faults)
      BY <1>4, <2>1, <2>2, <2>3 DEF DeleteDrop, Stores, Kinds, Named, k
    <2> QED BY <2>4, StepType
  <1>5. CASE GcQuery(v) \/ GcDrop(v)
    <2>1. at[v] \in 0..8 BY DEF TypeOK, TypeReq
    <2>2. DropNext(v) => Moves(v)
      <3>1. at[v] # 8 => at[v] + 1 \in 0..8 BY <2>1
      <3> QED BY <3>1, DropFacts DEF DropNext, Moves
    <2>3. CASE GcQuery(v)
      <3>1. Moves(v) /\ Stores(v) /\ (Works(v) \/ Errs(v))
        BY <2>1, <2>2, <2>3 DEF GcQuery, Stores, Moves
      <3> QED BY <3>1, StepType
    <2>4. CASE GcDrop(v)
      <3>1. TypeReq' /\ TypeCO' BY <2>2, <2>4, MovesType DEF GcDrop
      <3>2. TypeStore' BY <2>4 DEF GcDrop, TypeOK, TypeStore
      <3>3. faults' \in Nat
        BY <2>4, ProvisioningAssumption DEF GcDrop, Works, Errs, Fault, TypeOK
      <3> QED BY <3>1, <3>2, <3>3 DEF TypeOK
    <2> QED BY <1>5, <2>3, <2>4
  <1>6. CASE DeleteDataset(v)
    <2>1. Moves(v) /\ Stores(v) /\ (Works(v) \/ Errs(v) \/ Dropped(v))
      BY <1>6 DEF DeleteDataset, Moves, Stores, Kinds, Named
    <2> QED BY <2>1, StepType
  <1> QED BY <1>1, <1>2, <1>3, <1>4, <1>5, <1>6 DEF DeleteStep

\* The steps of the CO, deadlines and crashes.
LEMMA OtherType ==
    ASSUME TypeOK,
           \/ \E v \in Volumes : CreateVolume(v) \/ Unwant(v)
                                   \/ DeleteVolume(v) \/ Expire(v)
                                   \/ ControllerExpandVolume(v)
                                   \/ ControllerPublishVolume(v)
                                   \/ ControllerUnpublishVolume(v)
           \/ Crash
    PROVE  TypeOK'
  <1> USE DEF TypeOK, TypeStore, TypeReq, TypeCO, storeVars, coVars, reqVars,
             PCs, CreatePCs, UsePCs, DeletePCs
  <1>1. ASSUME NEW v \in Volumes, CreateVolume(v) PROVE TypeOK'
    <2>1. req' \in [Volumes -> Nat] BY <1>1, ProvisioningAssumption DEF CreateVolume
    <2> QED BY <1>1, <2>1 DEF CreateVolume
  <1>2. ASSUME NEW v \in Volumes, Unwant(v) PROVE TypeOK' BY <1>2 DEF Unwant
  <1>3. ASSUME NEW v \in Volumes, DeleteVolume(v) PROVE TypeOK'
    BY <1>3 DEF DeleteVolume, GotoAt
  <1>4. ASSUME NEW v \in Volumes, Expire(v) PROVE TypeOK'
    BY <1>4, ProvisioningAssumption DEF Expire, Fault
  <1>5. CASE Crash BY <1>5, ProvisioningAssumption DEF Crash, Fault
  <1>6. ASSUME NEW v \in Volumes, ControllerExpandVolume(v) PROVE TypeOK'
    BY <1>6, ProvisioningAssumption DEF ControllerExpandVolume, GotoFor
  <1>7. ASSUME NEW v \in Volumes, ControllerPublishVolume(v) PROVE TypeOK'
    BY <1>7 DEF ControllerPublishVolume, Goto, GotoAt
  <1>8. ASSUME NEW v \in Volumes, ControllerUnpublishVolume(v) PROVE TypeOK'
    BY <1>8 DEF ControllerUnpublishVolume
  <1> QED BY <1>1, <1>2, <1>3, <1>4, <1>5, <1>6, <1>7, <1>8

-----------------------------------------------------------------------------
(***************************************************************************)
(* The invariant of one volume                                             *)
(***************************************************************************)

\* It only depends on the volume's own state.
LEMMA VolumeKept ==
    ASSUME NEW w \in Volumes, VolumeInv(w),
           has'[w] = has[w], size'[w] = size[w], pc'[w] = pc[w],
           at'[w] = at[w], req'[w] = req[w], want'[w] = want[w],
           acked'[w] = acked[w], promised'[w] = promised[w]
    PROVE  VolumeInv(w)'
  BY DEF VolumeInv, OwnPhase, Building, Repairing, InUse, Fits

\* When no request is left, only the answers given matter.
LEMMA IdleInv ==
    ASSUME NEW v \in Volumes, pc'[v] = "idle",
           InUse(v)' => Vouched(v) \subseteq has'[v] /\ Fits(v, promised[v])',
           acked'[v] # "created" /\ want'[v] = "create" => promised'[v] = 0
    PROVE  VolumeInv(v)'
  BY DEF VolumeInv, OwnPhase, Building, Repairing, CreatePCs, UsePCs, DeletePCs,
         EnsurePCs, ISCSIPCs, NVMeOFPCs

\* A request that fails without taking anything away.
LEMMA FailInv ==
    ASSUME TypeOK, NEW v \in Volumes, VolumeInv(v), Fail(v),
           has[v] \subseteq has'[v],
           size'[v] = size[v] \/ acked[v] # "created" \/ size'[v] >= promised[v]
    PROVE  VolumeInv(v)'
  <1>1. /\ pc'[v] = "idle" /\ acked'[v] = acked[v] /\ want'[v] = want[v]
        /\ promised'[v] = promised[v]
    BY DEF Fail, Return, coVars, TypeOK, TypeReq
  <1> QED BY <1>1, IdleInv DEF VolumeInv, InUse, Fits

\* An answer from a handler that knows what it vouches for.
LEMMA CreatedInv ==
    ASSUME TypeOK, NEW v \in Volumes, VolumeInv(v), NEW n \in Nat, CreatedWith(v, n),
           want[v] = "create", Vouched(v) \subseteq has'[v],
           size'[v] >= n \/ size'[v] = 0, size'[v] \in Nat,
           size'[v] = size[v] \/ acked[v] # "created"
    PROVE  VolumeInv(v)'
  <1>1. /\ pc'[v] = "idle" /\ acked'[v] = "created" /\ want'[v] = "create"
        /\ promised'[v] = IF n > promised[v] THEN n ELSE promised[v]
    BY DEF CreatedWith, Return, TypeOK, TypeReq, TypeCO
  <1>2. promised[v] <= size'[v] \/ size'[v] = 0
    <2>1. CASE acked[v] = "created"
      BY <2>1 DEF VolumeInv, InUse, Fits
    <2>2. CASE acked[v] # "created"
      BY <2>2 DEF VolumeInv
    <2> QED BY <2>1, <2>2
  <1> QED BY <1>1, <1>2, IdleInv DEF Fits

\* From one call of a repair to the next.
LEMMA RepairInv ==
    ASSUME TypeOK, NEW v \in Volumes, VolumeInv(v),
           NEW p \in EnsurePCs, NEW n \in Nat,
           GotoFor(v, p, n) \/ (GotoAt(v, p, 0) /\ n = req[v]), want[v] = "create",
           has[v] \subseteq has'[v], size'[v] = size[v],
           Relies(p) \subseteq has'[v], Fits(v, n),
           IF p \in ISCSIPCs THEN ISCSI(v) ELSE NVMeOF(v)
    PROVE  VolumeInv(v)'
  <1>1. /\ pc'[v] = p /\ acked'[v] = acked[v] /\ want'[v] = want[v]
        /\ promised'[v] = promised[v] /\ req'[v] = n
    BY DEF GotoAt, GotoFor, coVars, TypeOK, TypeReq
  <1>2. OwnPhase(v)' /\ Building(v)'
    BY <1>1 DEF OwnPhase, Building, CreatePCs, UsePCs, DeletePCs, EnsurePCs, ISCSIPCs,
                NVMeOFPCs
  <1>3. Repairing(v)' BY <1>1 DEF Repairing, Fits
  <1> QED BY <1>1, <1>2, <1>3 DEF VolumeInv, InUse, Fits

\* A dataset that is there is taken for the volume, with a capacity it has.
LEMMA AdoptInv ==
    ASSUME TypeOK, NEW v \in Volumes, VolumeInv(v), NEW n \in Nat, Adopt(v, n),
           want[v] = "create", "dataset" \in has[v], Fits(v, n),
           UNCHANGED <<has, size>>
    PROVE  VolumeInv(v)'
  <1>1. size[v] \in Nat BY DEF TypeOK, TypeStore
  <1>2. CASE ISCSI(v)
    BY <1>2, RepairInv DEF Adopt, Relies, EnsurePCs, ISCSIPCs
  <1>3. CASE ~ISCSI(v) /\ NVMeOF(v)
    BY <1>3, RepairInv DEF Adopt, Relies, EnsurePCs, ISCSIPCs, NVMeOFPCs
  <1>4. CASE ~ISCSI(v) /\ ~NVMeOF(v)
    BY <1>1, <1>4, CreatedInv DEF Adopt, Vouched, Fits
  <1> QED BY <1>2, <1>3, <1>4

\* What is not there is created from the start.
LEMMA StartInv ==
    ASSUME TypeOK, NEW v \in Volumes, VolumeInv(v), want[v] = "create",
           UNCHANGED <<has, size>>,
           GotoAt(v, "make", 1) \/ GotoAt(v, "cAgain", 0)
    PROVE  VolumeInv(v)'
  <1>1. /\ (pc'[v] = "make" /\ at'[v] = 1) \/ pc'[v] = "cAgain"
        /\ acked'[v] = acked[v]
        /\ want'[v] = want[v] /\ promised'[v] = promised[v]
    BY DEF GotoAt, coVars, TypeOK, TypeReq
  <1>2. OwnPhase(v)' /\ Repairing(v)'
    BY <1>1
    DEF OwnPhase, Repairing, CreatePCs, UsePCs, DeletePCs, EnsurePCs, ISCSIPCs,
        NVMeOFPCs
  <1>3. Building(v)' BY <1>1, ChainFacts DEF Building
  <1> QED BY <1>1, <1>2, <1>3 DEF VolumeInv, InUse, Fits

LEMMA GetInv ==
    ASSUME TypeOK, NEW v \in Volumes, VolumeInv(v), CreateGet(v) \/ CreateAgain(v)
    PROVE  VolumeInv(v)'
  <1>1. /\ want[v] = "create" /\ UNCHANGED <<has, size>>
        /\ size[v] \in Nat /\ req[v] \in Nat
    BY DEF CreateGet, CreateAgain, storeVars, VolumeInv, OwnPhase, CreatePCs, TypeOK,
           TypeStore, TypeReq
  <1>2. CASE Fail(v) BY <1>1, <1>2, FailInv
  <1>3. CASE GotoAt(v, "make", 1) \/ GotoAt(v, "cAgain", 0)
    BY <1>1, <1>3, StartInv
  <1>4. ASSUME NEW n \in Nat, Adopt(v, n), "dataset" \in has[v], Fits(v, n)
        PROVE  VolumeInv(v)'
    BY <1>1, <1>4, AdoptInv
  <1>5. CASE CreateGet(v)
    <2>1. ~(size[v] > 0 /\ size[v] < req[v]) =>
            Fits(v, IF size[v] = 0 THEN req[v] ELSE size[v])
      BY <1>1 DEF Fits
    <2>2. (IF size[v] = 0 THEN req[v] ELSE size[v]) \in Nat BY <1>1
    <2> QED BY <1>2, <1>3, <1>4, <1>5, <2>1, <2>2 DEF CreateGet, Absent, Goto
  <1>6. CASE CreateAgain(v)
    <2>1. Fits(v, size[v]) BY <1>1 DEF Fits
    <2> QED BY <1>1, <1>3, <1>4, <1>6, <2>1 DEF CreateAgain
  <1> QED BY <1>5, <1>6

\* From one step of building to rolling back: nobody was told.
LEMMA UndoInv ==
    ASSUME TypeOK, NEW v \in Volumes, VolumeInv(v), want[v] = "create",
           acked[v] # "created",
           NEW i \in 1..Len(Chain(v)), GotoAt(v, "undo", i)
    PROVE  VolumeInv(v)'
  <1>1. /\ pc'[v] = "undo" /\ at'[v] = i /\ acked'[v] = acked[v]
        /\ want'[v] = want[v] /\ promised'[v] = promised[v]
    BY DEF GotoAt, coVars, TypeOK, TypeReq
  <1>2. OwnPhase(v)' /\ Repairing(v)' /\ Building(v)'
    BY <1>1
    DEF OwnPhase, Repairing, Building, CreatePCs, UsePCs, DeletePCs, EnsurePCs,
        ISCSIPCs, NVMeOFPCs
  <1> QED BY <1>1, <1>2 DEF VolumeInv, InUse

\* A clone that was just made is looked at.
LEMMA FitStart ==
    ASSUME TypeOK, NEW v \in Volumes, VolumeInv(v), want[v] = "create",
           acked[v] # "created", "dataset" \in has'[v], GotoAt(v, "fit", 0)
    PROVE  VolumeInv(v)'
  <1>1. /\ pc'[v] = "fit" /\ acked'[v] = acked[v]
        /\ want'[v] = want[v] /\ promised'[v] = promised[v]
    BY DEF GotoAt, coVars, TypeOK, TypeReq
  <1>2. OwnPhase(v)' /\ Repairing(v)' /\ Building(v)'
    BY <1>1
    DEF OwnPhase, Repairing, Building, CreatePCs, UsePCs, DeletePCs, EnsurePCs,
        ISCSIPCs, NVMeOFPCs
  <1> QED BY <1>1, <1>2 DEF VolumeInv, InUse

LEMMA MakeInv ==
    ASSUME TypeOK, NEW v \in Volumes, VolumeInv(v), Make(v)
    PROVE  VolumeInv(v)'
  <1> DEFINE n == Len(Chain(v))
             k == Chain(v)[at[v]]
  <1>1. /\ pc[v] = "make" /\ want[v] = "create"
        /\ at[v] \in 1..n /\ n \in 2..6 /\ k \in Kinds
        /\ at[v] > 1 => acked[v] # "created" /\ size[v] = req[v]
        /\ \A i \in 1..(at[v] - 1) :
             Chain(v)[i] \in Named => Chain(v)[i] \in has[v]
    BY ChainFacts DEF Make, VolumeInv, OwnPhase, Building, CreatePCs
  <1>2. at[v] > 1 => k # "dataset" BY <1>1, ChainFacts
  <1>3. at[v] = 1 => k = "dataset" BY ChainFacts
  <1>4. size[v] \in Nat /\ req[v] \in Nat /\ has[v] \in SUBSET Named
    BY DEF TypeOK, TypeStore, TypeReq
  <1>5. Accepts(v, k) => acked[v] # "created"
    <2> SUFFICES ASSUME Accepts(v, k), at[v] = 1 PROVE acked[v] # "created"
      BY <1>1
    <2>1. "dataset" \notin has[v] BY <1>3 DEF Accepts
    <2> QED BY <1>1, <2>1 DEF VolumeInv, InUse, Vouched
  <1>6. ASSUME Accepts(v, k), Add(v, k)
        PROVE  /\ has[v] \subseteq has'[v] /\ (k \in Named => k \in has'[v])
               /\ at[v] > 1 \/ v \notin Cloned => size'[v] = req[v]
    <2>1. /\ has[v] \subseteq has'[v]
          /\ k \in Named => k \in has'[v]
      BY <1>6 DEF Add, TypeOK, TypeStore
    <2>2. size'[v] = IF k = "dataset" THEN NewSize(v) ELSE size[v]
      BY <1>6 DEF Add, TypeOK, TypeStore
    <2>3. at[v] > 1 \/ v \notin Cloned => size'[v] = req[v]
      BY <1>1, <1>2, <1>3, <2>2 DEF NewSize
    <2> QED BY <2>1, <2>3
  <1> HIDE DEF k, n
  <1>7. ASSUME Rollback(v), at[v] > 1 PROVE VolumeInv(v)'
    <2>1. GotoAt(v, "undo", at[v] - 1) BY <1>1, <1>7 DEF Rollback
    <2>2. at[v] - 1 \in 1..n BY <1>1, <1>7
    <2> QED BY <1>1, <1>7, <2>1, <2>2, UndoInv DEF n
  <1>8. CASE /\ Accepts(v, k) /\ Add(v, k)
             /\ IF at[v] = n THEN Built(v) ELSE GotoAt(v, "make", at[v] + 1)
             /\ at[v] > 1 \/ v \notin Cloned
    <2>1. acked[v] # "created" /\ size'[v] = req[v] /\ has[v] \subseteq has'[v]
            /\ (k \in Named => k \in has'[v])
      BY <1>5, <1>6, <1>8
    <2>2. CASE at[v] = n
      <3>1. Vouched(v) \subseteq has'[v]
        <4> SUFFICES ASSUME NEW x \in Vouched(v) PROVE x \in has'[v] OBVIOUS
        <4>1. PICK i \in 1..n : Chain(v)[i] = x /\ x \in Named
          BY ChainFacts DEF n
        <4>2. CASE i = at[v] BY <2>1, <4>1, <4>2 DEF k
        <4>3. CASE i # at[v] BY <1>1, <2>1, <2>2, <4>1, <4>3
        <4> QED BY <4>2, <4>3
      <3>2. CASE Created(v)
        BY <1>1, <1>4, <2>1, <3>1, <3>2, CreatedInv DEF Created
      <3>3. CASE GotoAt(v, "task", 0)
        <4>1. /\ pc'[v] = "task" /\ acked'[v] = acked[v] /\ want'[v] = want[v]
              /\ promised'[v] = promised[v] /\ req'[v] = req[v]
          BY <3>3 DEF GotoAt, coVars, TypeOK, TypeReq
        <4>2. OwnPhase(v)' /\ Repairing(v)' /\ Building(v)'
          BY <1>1, <2>1, <3>1, <4>1
          DEF OwnPhase, Repairing, Building, CreatePCs, UsePCs, DeletePCs, EnsurePCs,
              ISCSIPCs, NVMeOFPCs
        <4> QED BY <2>1, <4>1, <4>2 DEF VolumeInv, InUse
      <3> QED BY <1>8, <2>2, <3>2, <3>3 DEF Built
    <2>3. CASE at[v] # n
      <3>1. /\ pc'[v] = "make" /\ at'[v] = at[v] + 1 /\ acked'[v] = acked[v]
            /\ want'[v] = want[v] /\ promised'[v] = promised[v]
            /\ req'[v] = req[v]
        BY <1>8, <2>3 DEF GotoAt, coVars, TypeOK, TypeReq
      <3>2. OwnPhase(v)' /\ Repairing(v)'
        BY <1>1, <3>1
        DEF OwnPhase, Repairing, CreatePCs, UsePCs, DeletePCs, EnsurePCs, ISCSIPCs,
            NVMeOFPCs
      <3>3. at[v] + 1 \in 1..n BY <1>1, <2>3
      <3>4. ASSUME NEW i \in 1..at[v], Chain(v)[i] \in Named
            PROVE  Chain(v)[i] \in has'[v]
        <4>1. CASE i = at[v] BY <2>1, <3>4, <4>1 DEF k
        <4>2. CASE i # at[v] BY <1>1, <2>1, <3>4, <4>2
        <4> QED BY <4>1, <4>2
      <3>5. (at[v] + 1) - 1 = at[v] BY <1>1
      <3>6. Building(v)'
        BY <2>1, <3>1, <3>3, <3>4, <3>5 DEF Building, n
      <3> QED BY <2>1, <3>1, <3>2, <3>6 DEF VolumeInv, InUse
    <2> QED BY <2>2, <2>3
  <1>9. CASE Rollback(v) /\ UNCHANGED storeVars
    <2>1. CASE at[v] = 1
      BY <1>9, <2>1, FailInv DEF Rollback, storeVars
    <2> QED BY <1>1, <1>7, <1>9, <2>1
  <1>10. CASE Accepts(v, k) /\ Add(v, k) /\ Rollback(v)
    <2>1. CASE at[v] = 1
      BY <1>5, <1>6, <1>10, <2>1, FailInv DEF Rollback
    <2> QED BY <1>1, <1>7, <1>10, <2>1
  <1>11. CASE Accepts(v, k) /\ Add(v, k) /\ at[v] = 1 /\ GotoAt(v, "fit", 0)
    <2>1. /\ acked[v] # "created" /\ "dataset" \in has'[v]
      BY <1>3, <1>5, <1>6, <1>11 DEF Named
    <2> QED BY <1>1, <1>11, <2>1, FitStart
  <1>12. at[v] = n => at[v] # 1 BY <1>1
  <1>13. at[v] = 1 \/ at[v] > 1 BY <1>1
  <1> QED
    BY <1>8, <1>9, <1>10, <1>11, <1>12, <1>13 DEF Make, Goto, k, n

\* A clone is resized, or taken away again, or left; nobody was told of it.
LEMMA FitInv ==
    ASSUME TypeOK, NEW v \in Volumes, VolumeInv(v), FitClone(v)
    PROVE  VolumeInv(v)'
  <1>1. /\ want[v] = "create" /\ acked[v] # "created" /\ "dataset" \in has[v]
        /\ has' = has /\ req[v] \in Nat
    BY DEF FitClone, VolumeInv, OwnPhase, Building, CreatePCs, Resize, storeVars,
           TypeOK, TypeReq
  <1>2. CASE Fail(v) BY <1>1, <1>2, FailInv
  <1>3. CASE GotoAt(v, "undo", 1) BY <1>1, <1>3, ChainFacts, UndoInv
  <1>4. CASE Resize(v) /\ GotoAt(v, "make", 2)
    <2>1. /\ pc'[v] = "make" /\ at'[v] = 2 /\ acked'[v] = acked[v]
          /\ want'[v] = want[v] /\ promised'[v] = promised[v]
          /\ req'[v] = req[v] /\ size'[v] = req[v]
      BY <1>4 DEF Resize, GotoAt, coVars, TypeOK, TypeReq, TypeStore
    <2>2. OwnPhase(v)' /\ Repairing(v)'
      BY <1>1, <2>1
      DEF OwnPhase, Repairing, CreatePCs, UsePCs, DeletePCs, EnsurePCs, ISCSIPCs,
          NVMeOFPCs
    <2>3. Building(v)'
      <3>1. 2 \in 1..Len(Chain(v)) /\ Chain(v)[1] = "dataset" BY ChainFacts
      <3>2. \A i \in 1..(2 - 1) : Chain(v)[i] \in has[v] BY <1>1, <3>1
      <3> QED BY <1>1, <2>1, <3>1, <3>2 DEF Building
    <2> QED BY <1>1, <2>1, <2>2, <2>3 DEF VolumeInv, InUse
  <1> QED BY <1>2, <1>3, <1>4 DEF FitClone

LEMMA MakeTaskInv ==
    ASSUME TypeOK, NEW v \in Volumes, VolumeInv(v), MakeTask(v)
    PROVE  VolumeInv(v)'
  <1>1. /\ want[v] = "create" /\ acked[v] # "created" /\ size[v] = req[v]
        /\ Vouched(v) \subseteq has[v] /\ size[v] \in Nat
    BY DEF MakeTask, VolumeInv, OwnPhase, Building, CreatePCs, TypeOK, TypeStore
  <1>2. has[v] \subseteq has'[v] /\ size'[v] = size[v]
    BY DEF MakeTask, Add, storeVars, TypeOK, TypeStore
  <1> QED BY <1>1, <1>2, CreatedInv DEF MakeTask, Created

LEMMA UndoStepInv ==
    ASSUME TypeOK, NEW v \in Volumes, VolumeInv(v), Undo(v)
    PROVE  VolumeInv(v)'
  <1>1. /\ pc[v] = "undo" /\ want[v] = "create" /\ acked[v] # "created"
        /\ at[v] \in 1..Len(Chain(v)) /\ Len(Chain(v)) \in 2..6
    BY ChainFacts DEF Undo, VolumeInv, OwnPhase, Building, CreatePCs
  <1>2. CASE at[v] = 1
    <2>1. /\ pc'[v] = "idle" /\ acked'[v] = acked[v] /\ want'[v] = want[v]
          /\ promised'[v] = promised[v]
      BY <1>2 DEF Undo, Fail, Return, coVars, TypeOK, TypeReq
    <2> QED BY <1>1, <2>1, IdleInv DEF VolumeInv, InUse
  <1>3. CASE at[v] # 1
    <2>1. at[v] - 1 \in 1..Len(Chain(v)) BY <1>1, <1>3
    <2> QED BY <1>1, <1>3, <2>1, UndoInv DEF Undo
  <1> QED BY <1>2, <1>3

\* What a repair adds.
LEMMA AddFacts ==
    ASSUME TypeOK, NEW v \in Volumes, NEW k \in Kinds, k # "dataset", Add(v, k)
    PROVE  /\ has[v] \subseteq has'[v]
           /\ k \in Named => k \in has'[v]
           /\ size'[v] = size[v]
  BY DEF Add, TypeOK, TypeStore

\* Where a repair is, it has what it relies on.
LEMMA RepairFacts ==
    ASSUME TypeOK, NEW v \in Volumes, VolumeInv(v), pc[v] \in EnsurePCs
    PROVE  /\ want[v] = "create" /\ Relies(pc[v]) \subseteq has[v]
           /\ Fits(v, req[v]) /\ size[v] \in Nat /\ req[v] \in Nat
           /\ IF pc[v] \in ISCSIPCs THEN ISCSI(v) ELSE NVMeOF(v)
  BY DEF VolumeInv, OwnPhase, Repairing, CreatePCs, TypeOK, TypeStore, TypeReq

\* One call of a repair: it fails, or goes on where what it relies on is
\* there, or answers when what is vouched for is there.
LEMMA RepairStep ==
    ASSUME TypeOK, NEW v \in Volumes, VolumeInv(v), pc[v] \in EnsurePCs,
           has[v] \subseteq has'[v], size'[v] = size[v],
           \/ Fail(v)
           \/ Created(v) /\ Vouched(v) \subseteq has'[v]
           \/ \E p \in EnsurePCs : /\ GotoAt(v, p, 0)
                                   /\ Relies(p) \subseteq has'[v]
                                   /\ p \in ISCSIPCs <=> pc[v] \in ISCSIPCs
    PROVE  VolumeInv(v)'
  <1>1. CASE Fail(v) BY <1>1, FailInv
  <1>2. CASE Created(v) /\ Vouched(v) \subseteq has'[v]
    BY <1>2, RepairFacts, CreatedInv DEF Created, Fits
  <1>3. ASSUME NEW p \in EnsurePCs, GotoAt(v, p, 0),
               Relies(p) \subseteq has'[v],
               p \in ISCSIPCs <=> pc[v] \in ISCSIPCs
        PROVE  VolumeInv(v)'
    BY <1>3, RepairFacts, RepairInv
  <1> QED BY <1>1, <1>2, <1>3

LEMMA ISCSIInv ==
    ASSUME TypeOK, NEW v \in Volumes, VolumeInv(v), ensureISCSIChain(v)
    PROVE  VolumeInv(v)'
  <1> USE DEF Relies, Goto
  <1>1. pc[v] \in ISCSIPCs /\ pc[v] \in EnsurePCs
    BY DEF ensureISCSIChain, ensureTarget, ISCSIPCs, EnsurePCs
  <1>2. ISCSI(v) /\ Relies(pc[v]) \subseteq has[v] BY <1>1, RepairFacts
  <1>3. Vouched(v) = {"dataset", "target", "extent", "assoc"}
    BY <1>2 DEF Vouched
  <1>4. /\ "target" \in Kinds \cap Named /\ "extent" \in Kinds \cap Named
        /\ "assoc" \in Kinds \cap Named
    BY DEF Kinds, Named
  <1>5. UNCHANGED storeVars => has[v] \subseteq has'[v] /\ size'[v] = size[v]
    BY DEF storeVars
  <1>6. /\ {"qExtent", "qAssoc", "qTarget", "fixTarget", "linkTarget",
            "fixExtent", "fixAssoc"} \subseteq EnsurePCs
        /\ {"qExtent", "qAssoc", "qTarget", "fixTarget", "linkTarget",
            "fixExtent", "fixAssoc"} = ISCSIPCs
    BY DEF EnsurePCs, ISCSIPCs
  <1>7. CASE pc[v] = "qExtent"
              /\ Query(v, "extent", Goto(v, "qAssoc"), Goto(v, "fixTarget"))
    BY <1>1, <1>2, <1>5, <1>6, <1>7, RepairStep DEF Query
  <1>8. CASE \/ ensureTarget(v, "fixTarget", "fixExtent")
             \/ ensureTarget(v, "linkTarget", "fixAssoc")
    <2>1. has[v] \subseteq has'[v] /\ size'[v] = size[v]
            /\ (Add(v, "target") => "target" \in has'[v])
      BY <1>4, <1>5, <1>8, AddFacts DEF ensureTarget
    <2> QED BY <1>1, <1>2, <1>6, <1>8, <2>1, RepairStep DEF ensureTarget
  <1>9. CASE pc[v] = "fixExtent" /\ Repair(v, "extent", Goto(v, "fixAssoc"))
    <2>1. has[v] \subseteq has'[v] /\ size'[v] = size[v]
            /\ (Add(v, "extent") => "extent" \in has'[v])
      BY <1>4, <1>5, <1>9, AddFacts DEF Repair
    <2> QED BY <1>1, <1>2, <1>6, <1>9, <2>1, RepairStep DEF Repair
  <1>10. CASE pc[v] = "fixAssoc" /\ Repair(v, "assoc", Created(v))
    <2>1. has[v] \subseteq has'[v] /\ size'[v] = size[v]
            /\ (Add(v, "assoc") => "assoc" \in has'[v])
      BY <1>4, <1>5, <1>10, AddFacts DEF Repair
    <2> QED BY <1>1, <1>2, <1>3, <1>10, <2>1, RepairStep DEF Repair
  <1>11. CASE pc[v] = "qAssoc"
               /\ Query(v, "assoc", Goto(v, "qTarget"), Goto(v, "linkTarget"))
    BY <1>1, <1>2, <1>5, <1>6, <1>11, RepairStep DEF Query
  <1>12. CASE pc[v] = "qTarget" /\ Query(v, "target", Created(v), Fail(v))
    BY <1>1, <1>2, <1>3, <1>5, <1>12, RepairStep DEF Query
  <1> QED
    BY <1>7, <1>8, <1>9, <1>10, <1>11, <1>12 DEF ensureISCSIChain

LEMMA NVMeOFInv ==
    ASSUME TypeOK, NEW v \in Volumes, VolumeInv(v), Nested(v),
           ensureNVMeOFChain(v)
    PROVE  VolumeInv(v)'
  <1> USE DEF Relies, Goto
  <1>1. pc[v] \in EnsurePCs /\ pc[v] \notin ISCSIPCs
    BY DEF ensureNVMeOFChain, NVMeOFPCs, EnsurePCs, ISCSIPCs
  <1>2. NVMeOF(v) /\ Relies(pc[v]) \subseteq has[v] BY <1>1, RepairFacts
  <1>3. Vouched(v) = {"dataset", "subsys", "namespace"}
    BY <1>2 DEF Vouched, ISCSI, NVMeOF
  <1>4. /\ "subsys" \in Kinds \cap Named /\ "namespace" \in Kinds \cap Named
        /\ "portLink" \in Kinds \cap Named /\ "hostLink" \in Kinds \cap Named
        /\ "host" \in Kinds
    BY DEF Kinds, Named
  <1>5. UNCHANGED storeVars => has[v] \subseteq has'[v] /\ size'[v] = size[v]
    BY DEF storeVars
  <1>6. {"qNs", "qSubsys", "fixSubsys", "fixNs", "qPort", "fixPort",
         "fixHost", "qHostLink", "fixHostLink"} \subseteq EnsurePCs \ ISCSIPCs
    BY DEF EnsurePCs, ISCSIPCs, NVMeOFPCs
  <1> DEFINE linked == IF Class[v] = "dhchap" THEN Goto(v, "fixHost") ELSE Created(v)
  <1>7. CASE pc[v] = "qNs"
              /\ QueryOrFail(v, "namespace", Created(v), Goto(v, "qSubsys"))
    BY <1>1, <1>2, <1>3, <1>5, <1>6, <1>7, RepairStep DEF QueryOrFail, Nested
  <1>8. CASE pc[v] = "qSubsys"
              /\ QueryOrFail(v, "subsys", Goto(v, "fixNs"), Goto(v, "fixSubsys"))
    BY <1>1, <1>2, <1>5, <1>6, <1>8, RepairStep DEF QueryOrFail
  <1>9. CASE pc[v] = "fixSubsys" /\ Repair(v, "subsys", Goto(v, "fixNs"))
    <2>1. has[v] \subseteq has'[v] /\ size'[v] = size[v]
            /\ (Add(v, "subsys") => "subsys" \in has'[v])
      BY <1>4, <1>5, <1>9, AddFacts DEF Repair
    <2> QED BY <1>1, <1>2, <1>6, <1>9, <2>1, RepairStep DEF Repair
  <1>10. CASE pc[v] = "fixNs" /\ Repair(v, "namespace", Goto(v, "qPort"))
    <2>1. has[v] \subseteq has'[v] /\ size'[v] = size[v]
            /\ (Add(v, "namespace") => "namespace" \in has'[v])
      BY <1>4, <1>5, <1>10, AddFacts DEF Repair
    <2> QED BY <1>1, <1>2, <1>6, <1>10, <2>1, RepairStep DEF Repair
  <1>11. CASE pc[v] = "qPort" /\ Query(v, "portLink", linked, Goto(v, "fixPort"))
    BY <1>1, <1>2, <1>3, <1>5, <1>6, <1>11, RepairStep DEF Query
  <1>12. CASE pc[v] = "fixPort" /\ Repair(v, "portLink", linked)
    <2>1. has[v] \subseteq has'[v] /\ size'[v] = size[v]
      BY <1>4, <1>5, <1>12, AddFacts DEF Repair
    <2> QED BY <1>1, <1>2, <1>3, <1>6, <1>12, <2>1, RepairStep DEF Repair
  <1>13. CASE pc[v] = "fixHost" /\ ensureNVMeHost(v)
    <2>1. has[v] \subseteq has'[v] /\ size'[v] = size[v]
      BY <1>4, <1>5, <1>13, AddFacts DEF ensureNVMeHost
    <2> QED BY <1>1, <1>2, <1>6, <1>13, <2>1, RepairStep DEF ensureNVMeHost
  <1>14. CASE pc[v] = "qHostLink"
               /\ Query(v, "hostLink", Created(v), Goto(v, "fixHostLink"))
    BY <1>1, <1>2, <1>3, <1>5, <1>6, <1>14, RepairStep DEF Query
  <1>15. CASE pc[v] = "fixHostLink" /\ Repair(v, "hostLink", Created(v))
    <2>1. has[v] \subseteq has'[v] /\ size'[v] = size[v]
      BY <1>4, <1>5, <1>15, AddFacts DEF Repair
    <2> QED BY <1>1, <1>2, <1>3, <1>15, <2>1, RepairStep DEF Repair
  <1> QED
    BY <1>7, <1>8, <1>9, <1>10, <1>11, <1>12, <1>13, <1>14, <1>15
    DEF ensureNVMeOFChain

\* Deletion goes on, fails or answers; the volume is no longer in use.
LEMMA DeletingInv ==
    ASSUME TypeOK, NEW v \in Volumes, want[v] = "delete",
           want'[v] = "delete",
           \/ pc'[v] = "idle"
           \/ pc'[v] \in DeletePCs /\ (pc'[v] = "drop" => at'[v] \in 1..8)
    PROVE  VolumeInv(v)'
  <1>1. pc'[v] \notin CreatePCs \cup UsePCs
    BY DEF CreatePCs, UsePCs, EnsurePCs, ISCSIPCs, NVMeOFPCs, DeletePCs
  <1>2. OwnPhase(v)' BY <1>1, DropFacts DEF OwnPhase, UsePCs
  <1>3. Building(v)' /\ Repairing(v)'
    BY <1>1 DEF Building, Repairing, CreatePCs
  <1> QED BY <1>2, <1>3 DEF VolumeInv, InUse

LEMMA DeleteInv ==
    ASSUME TypeOK, NEW v \in Volumes, VolumeInv(v), DeleteStep(v)
    PROVE  VolumeInv(v)'
  <1>1. pc[v] \in DeletePCs
    BY DEF DeleteStep, DeleteGet, DeleteSnapshots, DeleteInfo, DeleteDrop,
           GcQuery, GcDrop, DeleteDataset, DeletePCs
  <1>2. want[v] = "delete" BY <1>1 DEF VolumeInv, OwnPhase
  <1>3. want' = want
    BY DEF DeleteStep, DeleteGet, DeleteSnapshots, DeleteInfo, DeleteDrop,
           GcQuery, GcDrop, DeleteDataset, QueryOrFail, DropNext, Goto, GotoAt,
           Fail, Deleted, coVars
  <1>4. at[v] \in 0..8 BY DEF TypeOK, TypeReq
  <1>5. DropNext(v) =>
          /\ pc'[v] \in {"dDataset", "drop"}
          /\ pc'[v] = "drop" => at'[v] \in 1..8
    <2>1. at[v] # 8 => at[v] + 1 \in 1..8 BY <1>4
    <2> QED BY <2>1, DropFacts DEF DropNext, Goto, GotoAt, TypeOK, TypeReq
  <1>6. Fail(v) \/ Deleted(v) => pc'[v] = "idle"
    BY DEF Fail, Deleted, Return, TypeOK, TypeReq
  <1>7. \A p \in {"dSnap", "dInfo", "gcQuery", "gcDrop"}, i \in 0..8 :
          GotoAt(v, p, i) => pc'[v] = p
    BY DEF GotoAt, TypeOK, TypeReq
  <1>8. CASE DeleteInfo(v)
    <2>1. pc'[v] = "drop" /\ at'[v] = 1 BY <1>8 DEF DeleteInfo, TypeOK, TypeReq
    <2> QED BY <1>2, <1>3, <2>1, DeletingInv DEF DeletePCs
  <1>9. CASE ~DeleteInfo(v)
    <2>1. \/ Fail(v) \/ Deleted(v) \/ DropNext(v)
          \/ \E p \in {"dSnap", "dInfo", "gcQuery", "gcDrop"}, i \in 0..8 :
               GotoAt(v, p, i)
      BY <1>4, <1>9
      DEF DeleteStep, DeleteGet, DeleteSnapshots, DeleteDrop, GcQuery, GcDrop,
          DeleteDataset, QueryOrFail, Goto
    <2>2. \/ pc'[v] = "idle"
          \/ pc'[v] \in DeletePCs /\ (pc'[v] = "drop" => at'[v] \in 1..8)
      BY <1>5, <1>6, <1>7, <2>1 DEF DeletePCs
    <2> QED BY <1>2, <1>3, <2>2, DeletingInv
  <1> QED BY <1>8, <1>9

\* A volume that is expanded or published keeps what it has, and its size.
LEMMA UseInv ==
    ASSUME TypeOK, NEW v \in Volumes, VolumeInv(v), UseStep(v)
    PROVE  VolumeInv(v)'
  <1>1. /\ InUse(v) /\ has' = has /\ req[v] \in Nat /\ size[v] \in Nat
        /\ promised[v] \in Nat
        /\ pc[v] \in {"eInfo", "eUpdate"} => req[v] >= promised[v]
    BY DEF UseStep, ExpandInfo, ExpandUpdate, PublishGet, QueryOrFail, PublishInfo,
           PublishProbe, VolumeInv, OwnPhase, UsePCs, Resize, storeVars, TypeOK,
           TypeStore, TypeReq, TypeCO
  <1>2. Vouched(v) \subseteq has[v] /\ Fits(v, promised[v])
    BY <1>1 DEF VolumeInv
  <1>3. ASSUME NEW n \in Nat, Expanded(v, n), size'[v] >= n PROVE VolumeInv(v)'
    <2>1. pc'[v] = "idle" /\ promised'[v] = n /\ acked' = acked
      BY <1>3 DEF Expanded, Return, TypeOK, TypeReq, TypeCO
    <2> QED BY <1>1, <1>2, <1>3, <2>1, IdleInv DEF Fits, InUse
  <1>4. ASSUME NEW c, Published(v, c), UNCHANGED storeVars PROVE VolumeInv(v)'
    <2>1. /\ pc'[v] = "idle" /\ UNCHANGED <<promised, acked, want, size>>
      BY <1>4 DEF Published, Return, storeVars, TypeOK, TypeReq
    <2> QED BY <1>1, <1>2, <2>1, IdleInv DEF Fits, InUse
  <1>5. ASSUME NEW p \in UsePCs, GotoAt(v, p, 0), UNCHANGED storeVars,
               p \in {"eInfo", "eUpdate"} => pc[v] = "eInfo"
        PROVE  VolumeInv(v)'
    <2>1. /\ pc'[v] = p /\ UNCHANGED <<promised, acked, want, size, req>>
      BY <1>5 DEF GotoAt, storeVars, coVars, TypeOK, TypeReq
    <2>2. OwnPhase(v)' /\ Building(v)' /\ Repairing(v)'
      BY <1>1, <1>5, <2>1
      DEF OwnPhase, Building, Repairing, InUse, CreatePCs, UsePCs, DeletePCs, EnsurePCs,
          ISCSIPCs, NVMeOFPCs
    <2> QED BY <1>1, <1>2, <2>1, <2>2 DEF VolumeInv, InUse, Fits
  <1>6. ASSUME Fail(v), UNCHANGED storeVars PROVE VolumeInv(v)'
    BY <1>6, FailInv DEF storeVars
  <1>7. CASE ExpandInfo(v)
    <2>1. CASE Expanded(v, size[v]) /\ UNCHANGED storeVars
      BY <1>1, <1>3, <2>1 DEF storeVars
    <2> QED BY <1>5, <1>6, <1>7, <2>1 DEF ExpandInfo, Goto, UsePCs
  <1>8. CASE ExpandUpdate(v)
    <2>1. Resize(v) => size'[v] = req[v] /\ req[v] >= promised[v]
      BY <1>1, <1>8 DEF ExpandUpdate, Resize, TypeOK, TypeStore
    <2>2. CASE Resize(v) /\ Expanded(v, req[v]) BY <1>1, <1>3, <2>1, <2>2
    <2>3. CASE Resize(v) /\ Fail(v) BY <1>1, <2>1, <2>3, FailInv
    <2> QED BY <1>6, <1>8, <2>2, <2>3 DEF ExpandUpdate
  <1>9. CASE PublishGet(v)
    BY <1>5, <1>6, <1>9 DEF PublishGet, QueryOrFail, Goto, UsePCs
  <1>10. CASE PublishInfo(v) BY <1>4, <1>5, <1>10 DEF PublishInfo, Goto, UsePCs
  <1>11. CASE PublishProbe(v) BY <1>4, <1>11 DEF PublishProbe
  <1> QED BY <1>7, <1>8, <1>9, <1>10, <1>11 DEF UseStep

\* Faults are only counted up.
LEMMA FaultsGrow ==
    ASSUME TypeOK, Next PROVE faults' \in Nat /\ faults' >= faults
  <1> USE DEF TypeOK
  <1>1. Fault => faults' \in Nat /\ faults' >= faults
    BY ProvisioningAssumption DEF Fault
  <1>2. ASSUME NEW v \in Volumes, Works(v) \/ Errs(v) \/ Dropped(v) \/ UNCHANGED faults
        PROVE  faults' \in Nat /\ faults' >= faults
    BY <1>1, <1>2 DEF Works, Errs, Dropped
  <1>3. ASSUME NEW v \in Volumes, CreateStep(v) PROVE faults' \in Nat /\ faults' >= faults
    BY <1>2, <1>3
    DEF CreateStep, CreateGet, CreateAgain, Make, FitClone, MakeTask, Undo,
        ensureISCSIChain, ensureTarget, ensureNVMeOFChain, ensureNVMeHost, Query,
        QueryOrFail, Repair
  <1>4. ASSUME NEW v \in Volumes, UseStep(v) PROVE faults' \in Nat /\ faults' >= faults
    BY <1>1, <1>2, <1>4, UseShape
  <1>5. ASSUME NEW v \in Volumes, DeleteStep(v) PROVE faults' \in Nat /\ faults' >= faults
    BY <1>1, <1>2, <1>5
    DEF DeleteStep, DeleteGet, QueryOrFail, DeleteSnapshots, DeleteInfo, DeleteDrop,
        GcQuery, GcDrop, DeleteDataset
  <1>6. CASE \/ Crash
             \/ \E v \in Volumes : CreateVolume(v) \/ ControllerExpandVolume(v)
                  \/ ControllerPublishVolume(v) \/ ControllerUnpublishVolume(v)
                  \/ Unwant(v) \/ DeleteVolume(v) \/ Expire(v)
    BY <1>1, <1>6
    DEF Crash, CreateVolume, ControllerExpandVolume, ControllerPublishVolume,
        ControllerUnpublishVolume, Unwant, DeleteVolume, Expire
  <1> QED BY <1>3, <1>4, <1>5, <1>6 DEF Next

\* What was vouched for is enough to describe a volume that is in use.
LEMMA UsableDescribed ==
    ASSUME NEW v \in Volumes, VolumeInv(v), Nested(v), InUse(v)
    PROVE  Described(v)
  <1>1. Vouched(v) \subseteq has[v] BY DEF VolumeInv
  <1>2. CASE ISCSI(v)
    BY <1>1, <1>2 DEF Vouched, Described, Reconstructed
  <1>3. CASE ~ISCSI(v) /\ NVMeOF(v)
    BY <1>1, <1>3 DEF Vouched, Nested, Described, Reconstructed
  <1>4. CASE ~ISCSI(v) /\ ~NVMeOF(v)
    BY <1>4 DEF Described, isZVOLProtocol
  <1> QED BY <1>2, <1>3, <1>4

\* The answer of ControllerPublishVolume only lacks something when both of
\* its attempts to find it have met a fault.
LEMMA PublishingStep ==
    ASSUME TypeOK, Next, NEW v \in Volumes, VolumeInv(v), Nested(v), Publishing(v),
           CreateStep(v) \/ UseStep(v) \/ DeleteStep(v)
    PROVE  Publishing(v)'
  <1>1. faults \in Nat /\ faults' \in Nat /\ faults' >= faults
    BY FaultsGrow DEF TypeOK
  <1>2. ASSUME pc'[v] # "pProbe", ctxDone'[v] => ctxDone[v], context'[v] = context[v]
        PROVE  Publishing(v)'
    BY <1>1, <1>2 DEF Publishing
  <1>3. ASSUME Moves(v) PROVE Publishing(v)'
    <2>1. pc'[v] # "pProbe" /\ (ctxDone'[v] => ctxDone[v])
      BY <1>3
      DEF Moves, GotoAt, GotoFor, Fail, Return, CreatedWith, Deleted, Expanded,
          TypeOK, TypeReq
    <2>2. context' = context
      BY <1>3
      DEF Moves, GotoAt, GotoFor, Fail, CreatedWith, Deleted, Expanded, coVars
    <2> QED BY <1>2, <2>1, <2>2
  <1>4. CASE CreateStep(v) BY <1>3, <1>4, CreateShape DEF VolumeInv
  <1>5. CASE DeleteStep(v)
    <2>1. at[v] \in 0..8 BY DEF TypeOK, TypeReq
    <2>2. /\ pc'[v] # "pProbe" /\ (ctxDone'[v] => ctxDone[v]) /\ context' = context
      BY <1>5, <2>1
      DEF DeleteStep, DeleteGet, QueryOrFail, DeleteSnapshots, DeleteInfo, DeleteDrop,
          GcQuery, GcDrop, DeleteDataset, DropNext, Goto, GotoAt, Fail, Deleted,
          Return, coVars, TypeOK, TypeReq
    <2> QED BY <1>2, <2>2
  <1>6. CASE UseStep(v)
    <2>0. Described(v)
      BY <1>6, UsableDescribed
      DEF UseStep, ExpandInfo, ExpandUpdate, PublishGet, PublishInfo, PublishProbe,
          VolumeInv, OwnPhase, UsePCs
    <2>1. Moves(v) \/ Publishes(v) BY <1>6, UseShape
    <2>2. CASE PublishInfo(v) /\ Goto(v, "pProbe")
      <3>1. Fault \/ Published(v, "full") BY <2>0, <2>2 DEF PublishInfo
      <3>2. ~Published(v, "full")
        BY <2>2 DEF Published, Return, Goto, GotoAt, TypeOK, TypeReq
      <3> QED
        BY <1>1, <2>2, <3>1, <3>2
        DEF Fault, Publishing, Goto, GotoAt, coVars, TypeOK, TypeReq
    <2>3. ASSUME NEW c \in {"part", "full"}, Published(v, c), c = "part" => faults' > 1
          PROVE  Publishing(v)'
      BY <2>3 DEF Publishing, Published, Return, TypeOK, TypeReq, TypeCO
    <2>4. CASE PublishInfo(v) /\ ~Goto(v, "pProbe")
      BY <2>3, <2>4 DEF PublishInfo
    <2>5. CASE PublishProbe(v)
      <3>1. CASE Published(v, "full") BY <2>3, <3>1
      <3>2. CASE isZVOLProtocol(v) /\ Errs(v) /\ Published(v, "part")
        <4>1. faults' > 1
          BY <1>1, <2>5, <3>2 DEF PublishProbe, Errs, Fault, Publishing
        <4> QED BY <2>3, <3>2, <4>1
      <3> QED BY <2>0, <2>5, <3>1, <3>2 DEF PublishProbe
    <2>6. CASE ExpandInfo(v) \/ ExpandUpdate(v) \/ PublishGet(v)
      <3>1. size[v] \in Nat /\ req[v] \in Nat BY DEF TypeOK, TypeStore, TypeReq
      <3>2. Moves(v)
        BY <2>6, <3>1
        DEF ExpandInfo, ExpandUpdate, PublishGet, QueryOrFail, Goto, Moves, PCs, UsePCs
      <3> QED BY <1>3, <3>2
    <2> QED BY <1>6, <2>2, <2>4, <2>5, <2>6 DEF UseStep
  <1> QED BY <1>4, <1>5, <1>6

\* Namespaces stay nested: they are added under a subsystem, and TrueNAS
\* keeps a subsystem that has one.  Groups come and go with CHAP volumes only.
LEMMA RemoveNested ==
    ASSUME TypeOK, NEW v \in Volumes, NEW k \in Kinds, Nested(v), Remove(v, k),
           k \in Unnamed => Class[v] = "chap"
    PROVE  Nested(v)'
  <1>1. PICK gone \in Falls(v, k) : has'[v] = has[v] \ gone
    BY DEF Remove, TypeOK, TypeStore
  <1>2. "subsys" \in gone => "namespace" \notin has[v]
    BY <1>1 DEF Falls
  <1>3. Class[v] # "chap" => spare'[v] = spare[v] BY DEF Remove
  <1> QED BY <1>1, <1>2, <1>3 DEF Nested

LEMMA AddNested ==
    ASSUME TypeOK, NEW v \in Volumes, NEW k \in Kinds, Nested(v), Add(v, k),
           k = "namespace" => "subsys" \in has[v], k = "extent" => ISCSI(v),
           k \in Unnamed => Class[v] = "chap"
    PROVE  Nested(v)'
  <1>1. has'[v] = IF k \in Named THEN has[v] \cup {k} ELSE has[v]
    BY DEF Add, TypeOK, TypeStore
  <1>2. Class[v] # "chap" => spare'[v] = spare[v] BY DEF Add
  <1> QED BY <1>1, <1>2 DEF Nested

LEMMA NestedStep ==
    ASSUME TypeOK, NEW v \in Volumes, VolumeInv(v), Nested(v),
           CreateStep(v) \/ UseStep(v) \/ DeleteStep(v)
    PROVE  Nested(v)'
  <1>0. UNCHANGED <<has, spare>> => Nested(v)' BY DEF Nested
  <1>1. {"target", "extent", "assoc", "subsys", "namespace", "host",
         "portLink", "hostLink", "dataset", "task"} \subseteq Kinds \ Unnamed
    BY DEF Kinds, Named, Unnamed
  <1>2. CASE CreateGet(v) \/ CreateAgain(v) \/ FitClone(v) \/ UseStep(v)
    BY <1>0, <1>2
    DEF CreateGet, CreateAgain, FitClone, UseStep, ExpandInfo, ExpandUpdate,
        PublishGet, QueryOrFail, PublishInfo, PublishProbe, Resize, storeVars
  <1>3. CASE Make(v) \/ Undo(v)
    <2> DEFINE k == Chain(v)[at[v]]
    <2>1. at[v] \in 1..Len(Chain(v)) /\ k \in Kinds
      BY <1>3, ChainFacts DEF VolumeInv, Building, Make, Undo
    <2>2. CASE Make(v)
      <3>1. k = "namespace" => "subsys" \in has[v]
        <4> SUFFICES ASSUME k = "namespace" PROVE "subsys" \in has[v] OBVIOUS
        <4>1. PICK j \in 1..(at[v] - 1) : Chain(v)[j] = "subsys"
          BY <2>1, ChainFacts
        <4> QED BY <2>2, <4>1 DEF VolumeInv, Building, Make, Named
      <3> QED
        BY <1>0, <2>1, <2>2, <3>1, ChainFacts, GroupFacts, AddNested DEF Make, storeVars
    <2>3. CASE Undo(v)
      BY <1>0, <1>1, <2>1, <2>3, GroupFacts, RemoveNested DEF Undo, storeVars
    <2> QED BY <1>3, <2>2, <2>3
  <1>4. CASE ensureISCSIChain(v)
    <2>1. ISCSI(v)
      <3>1. pc[v] \in ISCSIPCs /\ pc[v] \in EnsurePCs
        BY <1>4 DEF ensureISCSIChain, ensureTarget, ISCSIPCs, EnsurePCs
      <3> QED BY <3>1, RepairFacts
    <2> QED BY <1>0, <1>1, <1>4, <2>1, AddNested
    DEF ensureISCSIChain, ensureTarget, Query, Repair, storeVars
  <1>5. CASE ensureNVMeOFChain(v)
    <2>1. pc[v] = "fixNs" => "subsys" \in has[v]
      BY RepairFacts DEF Relies, EnsurePCs, NVMeOFPCs
    <2> QED
      BY <1>0, <1>1, <1>5, <2>1, AddNested
      DEF ensureNVMeOFChain, ensureNVMeHost, Query, QueryOrFail, Repair,
          storeVars
  <1>6. CASE DeleteDrop(v)
    <2> DEFINE k == DropOrder[at[v]]
    <2>1. k \in Kinds \ Unnamed
      BY <1>6, DropFacts DEF VolumeInv, OwnPhase, DeleteDrop
    <2> QED BY <1>0, <1>1, <1>6, <2>1, RemoveNested DEF DeleteDrop, storeVars
  <1>7. CASE DeleteDataset(v)
    BY <1>0, <1>1, <1>7, RemoveNested DEF DeleteDataset, storeVars
  <1>8. CASE DeleteGet(v) \/ DeleteSnapshots(v) \/ DeleteInfo(v)
              \/ GcQuery(v) \/ GcDrop(v)
    BY <1>0, <1>8
    DEF DeleteGet, QueryOrFail, DeleteSnapshots, DeleteInfo, GcQuery, GcDrop,
        storeVars
  <1>9. CASE MakeTask(v)
    BY <1>0, <1>1, <1>9, AddNested DEF MakeTask, storeVars
  <1> QED
    BY <1>2, <1>3, <1>4, <1>5, <1>6, <1>7, <1>8, <1>9 DEF CreateStep, DeleteStep

\* What a handler's step leaves alone of another volume.
LEMMA FrameStep ==
    ASSUME TypeOK, NEW v \in Volumes, VolumeInv(v),
           CreateStep(v) \/ UseStep(v) \/ DeleteStep(v),
           NEW w \in Volumes, w # v
    PROVE  /\ has'[w] = has[w] /\ size'[w] = size[w] /\ pc'[w] = pc[w]
           /\ at'[w] = at[w] /\ req'[w] = req[w] /\ want'[w] = want[w]
           /\ acked'[w] = acked[w] /\ promised'[w] = promised[w]
           /\ ctxDone'[w] = ctxDone[w] /\ context'[w] = context[w]
           /\ ids'[w] = ids[w] /\ spare'[w] = spare[w]
  <1>1. ASSUME Moves(v) \/ Publishes(v)
        PROVE  /\ pc'[w] = pc[w] /\ at'[w] = at[w] /\ req'[w] = req[w]
               /\ want'[w] = want[w] /\ acked'[w] = acked[w]
               /\ promised'[w] = promised[w] /\ ctxDone'[w] = ctxDone[w]
               /\ context'[w] = context[w] /\ ids'[w] = ids[w]
    BY <1>1
    DEF Moves, Publishes, Goto, GotoAt, GotoFor, Fail, Return, CreatedWith, Deleted, Expanded,
        Published, coVars, TypeOK, TypeReq, TypeCO
  <1>2. ASSUME Stores(v) PROVE has'[w] = has[w] /\ size'[w] = size[w] /\ spare'[w] = spare[w]
    BY <1>2 DEF Stores, Add, Remove, Resize, storeVars, TypeOK, TypeStore
  <1>3. CASE CreateStep(v) \/ UseStep(v)
    BY <1>1, <1>2, <1>3, CreateShape, UseShape DEF VolumeInv
  <1>4. CASE DeleteStep(v)
    <2>1. at[v] \in 0..8 /\ (pc[v] = "drop" => at[v] \in 1..8)
      BY DropFacts DEF TypeOK, TypeReq, VolumeInv, OwnPhase
    <2>2. DropNext(v) => Moves(v)
      <3>1. at[v] # 8 => at[v] + 1 \in 0..8 BY <2>1
      <3> QED BY <3>1, DropFacts DEF DropNext, Goto, Moves, PCs, DeletePCs
    <2>3. \A p \in {"dSnap", "dInfo", "gcQuery", "gcDrop"}, i \in 0..8 :
            GotoAt(v, p, i) => Moves(v)
      BY DEF Moves, PCs, DeletePCs
    <2>4. CASE DeleteInfo(v)
      BY <2>4 DEF DeleteInfo, storeVars, coVars, TypeOK, TypeReq
    <2>5. CASE DeleteDrop(v)
      <3>1. DropOrder[at[v]] \in Kinds BY <2>1, <2>5, DropFacts DEF DeleteDrop
      <3>2. Moves(v) BY <2>1, <2>2, <2>3, <2>5 DEF DeleteDrop
      <3>3. Stores(v) BY <2>5, <3>1 DEF DeleteDrop, Stores, Kinds, Named
      <3> QED BY <1>1, <1>2, <3>2, <3>3
    <2>6. CASE DeleteGet(v) \/ DeleteSnapshots(v) \/ GcQuery(v) \/ GcDrop(v)
      <3>1. Moves(v)
        BY <2>1, <2>2, <2>3, <2>6
        DEF DeleteGet, QueryOrFail, DeleteSnapshots, GcQuery, GcDrop, Goto, Moves
      <3>2. UNCHANGED <<has, size, spare>>
        BY <2>6
        DEF DeleteGet, QueryOrFail, DeleteSnapshots, GcQuery, GcDrop, storeVars
      <3> QED BY <1>1, <3>1, <3>2
    <2>7. CASE DeleteDataset(v)
      <3>1. Moves(v) /\ Stores(v)
        BY <2>7 DEF DeleteDataset, Moves, Stores, Kinds, Named
      <3> QED BY <1>1, <1>2, <3>1
    <2> QED BY <1>4, <2>4, <2>5, <2>6, <2>7 DEF DeleteStep
  <1> QED BY <1>3, <1>4

LEMMA HandlerInv ==
    ASSUME VolumesInv, Next, NEW v \in Volumes,
           CreateStep(v) \/ UseStep(v) \/ DeleteStep(v)
    PROVE  VolumesInv'
  <1>1. TypeOK /\ VolumeInv(v) /\ Nested(v) /\ Publishing(v) BY DEF VolumesInv
  <1>2. TypeOK'
    BY <1>1, CreateShape, UseShape, StepType, DeleteType DEF VolumeInv
  <1>3. VolumeInv(v)'
    BY <1>1, GetInv, MakeInv, FitInv, MakeTaskInv, UndoStepInv, ISCSIInv, NVMeOFInv,
       UseInv, DeleteInv
    DEF CreateStep
  <1>4. Nested(v)' BY <1>1, NestedStep
  <1>5. Publishing(v)' BY <1>1, PublishingStep
  <1>6. ASSUME NEW w \in Volumes, w # v
        PROVE  VolumeInv(w)' /\ Nested(w)' /\ Publishing(w)'
    <2>1. VolumeInv(w) /\ Nested(w) /\ Publishing(w) BY DEF VolumesInv
    <2>2. VolumeInv(w)' /\ Nested(w)'
      BY <1>1, <1>6, <2>1, FrameStep, VolumeKept DEF Nested
    <2>3. faults \in Nat /\ faults' \in Nat /\ faults' >= faults
      BY <1>1, FaultsGrow DEF TypeOK
    <2>4. Publishing(w)' BY <1>1, <1>6, <2>1, <2>3, FrameStep DEF Publishing
    <2> QED BY <2>2, <2>4
  <1> QED BY <1>2, <1>3, <1>4, <1>5, <1>6 DEF VolumesInv

\* The CO's steps, deadlines and crashes.
LEMMA OtherInv ==
    ASSUME VolumesInv, Next,
           \/ \E v \in Volumes : CreateVolume(v) \/ Unwant(v)
                                   \/ DeleteVolume(v) \/ Expire(v)
                                   \/ ControllerExpandVolume(v)
                                   \/ ControllerPublishVolume(v)
                                   \/ ControllerUnpublishVolume(v)
           \/ Crash
    PROVE  VolumesInv'
  <1>1. TypeOK /\ TypeOK' BY OtherType DEF VolumesInv
  <1>2. UNCHANGED <<has, size, spare>>
    BY DEF CreateVolume, Unwant, DeleteVolume, Expire, ControllerExpandVolume,
           ControllerPublishVolume, ControllerUnpublishVolume, Crash, storeVars
  <1>3. ASSUME NEW w \in Volumes PROVE Nested(w)'
    BY <1>2 DEF VolumesInv, Nested
  <1>4. ASSUME NEW v \in Volumes, CreateVolume(v), NEW w \in Volumes
        PROVE  VolumeInv(w)'
    <2>1. VolumeInv(w) BY DEF VolumesInv
    <2>2. CASE w # v
      BY <1>1, <1>2, <1>4, <2>1, <2>2, VolumeKept
      DEF CreateVolume, coVars, TypeOK, TypeReq
    <2>3. CASE w = v
      <3>1. pc'[w] = "cGet" /\ want[w] = "create" /\ UNCHANGED coVars
        BY <1>1, <1>4, <2>3 DEF CreateVolume, TypeOK, TypeReq
      <3>2. OwnPhase(w)' /\ Building(w)' /\ Repairing(w)'
        BY <3>1
        DEF OwnPhase, Building, Repairing, coVars, DeletePCs, UsePCs, CreatePCs,
            EnsurePCs, ISCSIPCs, NVMeOFPCs
      <3> QED BY <1>2, <2>1, <3>1, <3>2 DEF VolumeInv, InUse, Fits, coVars
    <2> QED BY <2>2, <2>3
  <1>5. ASSUME NEW v \in Volumes, Unwant(v), NEW w \in Volumes
        PROVE  VolumeInv(w)'
    <2>1. VolumeInv(w) BY DEF VolumesInv
    <2>2. UNCHANGED <<pc, at, req, acked, promised>> BY <1>5 DEF Unwant, reqVars
    <2>3. CASE w # v
      BY <1>1, <1>2, <1>5, <2>1, <2>2, <2>3, VolumeKept
      DEF Unwant, TypeOK, TypeCO
    <2>4. CASE w = v
      <3>1. pc'[w] = "idle" /\ want'[w] = "delete"
        BY <1>1, <1>5, <2>2, <2>4 DEF Unwant, TypeOK, TypeCO
      <3> QED BY <3>1, IdleInv DEF InUse
    <2> QED BY <2>3, <2>4
  <1>6. ASSUME NEW v \in Volumes, DeleteVolume(v), NEW w \in Volumes
        PROVE  VolumeInv(w)'
    <2>1. VolumeInv(w) BY DEF VolumesInv
    <2>2. CASE w # v
      BY <1>1, <1>2, <1>6, <2>1, <2>2, VolumeKept
      DEF DeleteVolume, GotoAt, coVars, TypeOK, TypeReq
    <2>3. CASE w = v
      <3>1. pc'[w] = "dGet" /\ want[w] = "delete" /\ UNCHANGED want
        BY <1>1, <1>6, <2>3 DEF DeleteVolume, GotoAt, coVars, TypeOK, TypeReq
      <3> QED BY <1>1, <3>1, DeletingInv DEF DeletePCs
    <2> QED BY <2>2, <2>3
  <1>7. ASSUME NEW v \in Volumes, Expire(v), NEW w \in Volumes
        PROVE  VolumeInv(w)'
    <2>1. VolumeInv(w) BY DEF VolumesInv
    <2> QED BY <1>2, <1>7, <2>1, VolumeKept DEF Expire, coVars
  <1>8. ASSUME Crash, NEW w \in Volumes PROVE VolumeInv(w)'
    <2>1. VolumeInv(w) BY DEF VolumesInv
    <2>2. pc'[w] = "idle" /\ UNCHANGED <<want, acked, promised>>
      BY <1>8 DEF Crash
    <2> QED BY <1>2, <2>1, <2>2, IdleInv DEF VolumeInv, InUse, Fits
  <1>9. ASSUME NEW v \in Volumes, NEW w \in Volumes,
               ControllerExpandVolume(v) \/ ControllerPublishVolume(v)
        PROVE  VolumeInv(w)'
    <2>1. VolumeInv(w) BY DEF VolumesInv
    <2>2. CASE w # v
      BY <1>1, <1>2, <1>9, <2>1, <2>2, VolumeKept
      DEF ControllerExpandVolume, ControllerPublishVolume, Goto, GotoAt, GotoFor,
          coVars, TypeOK, TypeReq
    <2>3. CASE w = v
      <3>1. /\ InUse(w) /\ UNCHANGED coVars
            /\ (pc'[w] = "eInfo" /\ req'[w] >= promised[w]) \/ pc'[w] = "pGet"
        <4>1. CASE ControllerExpandVolume(v)
          <5>1. PICK n \in Grown : n > promised[v] /\ GotoFor(v, "eInfo", n)
            BY <4>1 DEF ControllerExpandVolume
          <5>2. n \in Nat /\ promised[v] \in Nat
            BY <1>1, ProvisioningAssumption DEF TypeOK, TypeCO
          <5> QED
            BY <1>1, <2>3, <4>1, <5>1, <5>2
            DEF ControllerExpandVolume, GotoFor, TypeOK, TypeReq
        <4>2. CASE ControllerPublishVolume(v)
          BY <1>1, <2>3, <4>2
          DEF ControllerPublishVolume, Goto, GotoAt, TypeOK, TypeReq
        <4> QED BY <1>9, <4>1, <4>2
      <3>2. OwnPhase(w)' /\ Building(w)' /\ Repairing(w)'
        BY <3>1
        DEF OwnPhase, Building, Repairing, InUse, coVars, DeletePCs, UsePCs, CreatePCs,
            EnsurePCs, ISCSIPCs, NVMeOFPCs
      <3> QED BY <1>2, <2>1, <3>1, <3>2 DEF VolumeInv, InUse, Fits, coVars
    <2> QED BY <2>2, <2>3
  <1>10. ASSUME NEW v \in Volumes, ControllerUnpublishVolume(v), NEW w \in Volumes
         PROVE  VolumeInv(w)'
    <2>1. VolumeInv(w) BY DEF VolumesInv
    <2> QED BY <1>2, <1>10, <2>1, VolumeKept DEF ControllerUnpublishVolume, reqVars
  <1>11. ASSUME NEW w \in Volumes PROVE Publishing(w)'
    <2>1. Publishing(w) BY DEF VolumesInv
    <2>2. faults \in Nat /\ faults' \in Nat /\ faults' >= faults
      BY <1>1, FaultsGrow DEF TypeOK
    <2>3. CASE Crash
      BY <2>1, <2>2, <2>3 DEF Publishing, Crash
    <2>4. ASSUME NEW v \in Volumes, Expire(v) PROVE Publishing(w)'
      <3>1. faults' = faults + 1 BY <2>4 DEF Expire, Fault
      <3> QED
        BY <1>1, <2>1, <2>2, <2>4, <3>1 DEF Publishing, Expire, coVars, TypeOK, TypeReq
    <2>5. ASSUME NEW v \in Volumes, \/ CreateVolume(v) \/ Unwant(v) \/ DeleteVolume(v)
                                     \/ ControllerExpandVolume(v)
                                     \/ ControllerPublishVolume(v)
                                     \/ ControllerUnpublishVolume(v)
          PROVE  Publishing(w)'
      <3>1. UNCHANGED <<ctxDone, faults>>
        BY <2>5
        DEF CreateVolume, Unwant, DeleteVolume, ControllerExpandVolume,
            ControllerPublishVolume, ControllerUnpublishVolume, Goto, GotoAt, GotoFor,
            reqVars
      <3>2. pc'[w] = "pProbe" => pc[w] = "pProbe"
        BY <1>1, <2>5
        DEF CreateVolume, Unwant, DeleteVolume, ControllerExpandVolume,
            ControllerPublishVolume, ControllerUnpublishVolume, Goto, GotoAt, GotoFor,
            reqVars, TypeOK, TypeReq
      <3>3. context'[w] \in {context[w], "none"}
        BY <1>1, <2>5
        DEF CreateVolume, Unwant, DeleteVolume, ControllerExpandVolume,
            ControllerPublishVolume, ControllerUnpublishVolume, Goto, GotoAt, GotoFor,
            coVars, TypeOK, TypeCO
      <3> QED BY <2>1, <3>1, <3>2, <3>3 DEF Publishing
    <2> QED BY <2>3, <2>4, <2>5
  <1> QED
    BY <1>1, <1>3, <1>4, <1>5, <1>6, <1>7, <1>8, <1>9, <1>10, <1>11 DEF VolumesInv

LEMMA InitInv == Init => VolumesInv
  <1> SUFFICES ASSUME Init PROVE VolumesInv OBVIOUS
  <1> USE DEF Init
  <1>1. TypeOK
    <2>1. spare \in [Volumes -> [Unnamed -> Int]]
      OBVIOUS
    <2>2. has \in [Volumes -> SUBSET Named] /\ ids \in [Volumes -> SUBSET Named]
      OBVIOUS
    <2>3. TypeStore BY <2>1, <2>2 DEF TypeStore
    <2>4. TypeReq BY <2>2 DEF TypeReq, PCs
    <2>5. TypeCO BY DEF TypeCO
    <2> QED BY <2>3, <2>4, <2>5 DEF TypeOK
  <1>2. ASSUME NEW v \in Volumes PROVE VolumeInv(v) /\ Nested(v) /\ Publishing(v)
    BY DEF VolumeInv, OwnPhase, Building, Repairing, InUse, Nested, Publishing, CreatePCs,
           UsePCs, DeletePCs, EnsurePCs, ISCSIPCs, NVMeOFPCs
  <1> QED BY <1>1, <1>2 DEF VolumesInv

-----------------------------------------------------------------------------
(***************************************************************************)
(* Theorems                                                                *)
(***************************************************************************)

\* The invariant holds in every behaviour: whatever fails, is lost or
\* crashes, a handler of controller.go finds what it relies on.
THEOREM VolumesInvariant == Spec => []VolumesInv
  <1>1. VolumesInv /\ [Next]_vars => VolumesInv'
    <2> SUFFICES ASSUME VolumesInv, [Next]_vars PROVE VolumesInv'
      OBVIOUS
    <2>1. CASE Next
      BY <2>1, HandlerInv, OtherInv DEF Next
    <2>2. CASE UNCHANGED vars
      BY <2>2
      DEF vars, storeVars, reqVars, coVars, VolumesInv, TypeOK, TypeStore,
          TypeReq, TypeCO, VolumeInv, OwnPhase, Building, Repairing, InUse,
          Fits, Nested, Publishing
    <2> QED BY <2>1, <2>2
  <1> QED BY <1>1, InitInv, PTL DEF Spec

\* Type correctness of the volume requests, for any volumes.
THEOREM ProvisioningTypes == Spec => []TypeOK
  <1>1. VolumesInv => TypeOK BY DEF VolumesInv
  <1> QED BY <1>1, VolumesInvariant, PTL

\* No retry, rollback, repair or crash takes away what an answer of
\* CreateVolume vouched for.
THEOREM AcknowledgedVolumesKept == Spec => []AcknowledgedKept
  <1>1. VolumesInv => AcknowledgedKept
    BY DEF VolumesInv, VolumeInv, AcknowledgedKept
  <1> QED BY <1>1, VolumesInvariant, PTL

\* An acknowledged volume is at least as large as any answer of CreateVolume
\* or ControllerExpandVolume said.
THEOREM VolumesLargeEnough == Spec => []LargeEnough
  <1>1. VolumesInv => LargeEnough
    BY DEF VolumesInv, VolumeInv, LargeEnough
  <1> QED BY <1>1, VolumesInvariant, PTL

\* A single failed query does not cost ControllerPublishVolume what a node
\* needs: the second look finds it.
THEOREM PublishesUsable == Spec => []PublishUsable
  <1>1. VolumesInv => PublishUsable
    BY DEF VolumesInv, Publishing, PublishUsable
  <1> QED BY <1>1, VolumesInvariant, PTL
=============================================================================
