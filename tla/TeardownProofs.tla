--------------------------- MODULE TeardownProofs ---------------------------
(***************************************************************************)
(* Provisioning without failed calls: nothing is left of deleted volumes.  *)
(* The shared NVMe-oF host makes this a matter of all volumes together.    *)
(***************************************************************************)
EXTENDS ProvisioningProofs

(***************************************************************************)
(* The chain, piece by piece                                               *)
(***************************************************************************)

LEMMA RequiredIs ==
    ASSUME NEW v \in Volumes
    PROVE  /\ Class[v] = "nfs" => Required(v) = {"dataset", "share"}
           /\ ISCSI(v) => Required(v) = {"dataset", "target", "extent", "assoc"}
           /\ Class[v] = "nvmeof" =>
                Required(v) = {"dataset", "subsys", "namespace", "portLink"}
           /\ Class[v] = "dhchap" =>
                Required(v) = {"dataset", "subsys", "namespace", "portLink", "hostLink"}
           /\ Class[v] = "nfs" \/ ISCSI(v) \/ Class[v] = "nvmeof" \/ Class[v] = "dhchap"
  <1> USE DEF Required, Chain, ISCSI, NVMeOF, Named, Unnamed
  <1>0. Class[v] \in Classes BY ProvisioningAssumption
  <1>1. CASE Class[v] = "nfs" BY <1>1 DEF createNFSVolume
  <1>2. CASE Class[v] = "iscsi" BY <1>2 DEF createISCSIVolume
  <1>3. CASE Class[v] = "chap" BY <1>3 DEF createISCSIVolume
  <1>4. CASE Class[v] = "nvmeof" BY <1>4 DEF createNVMeOFVolume
  <1>5. CASE Class[v] = "dhchap" BY <1>5 DEF createNVMeOFVolume
  <1> QED BY <1>0, <1>1, <1>2, <1>3, <1>4, <1>5 DEF Classes

\* The chain names no object twice, and links the host last.
LEMMA ChainOrder ==
    ASSUME NEW v \in Volumes
    PROVE  \A i \in 1..Len(Chain(v)) :
             /\ \A j \in 1..Len(Chain(v)) : Chain(v)[i] = Chain(v)[j] => i = j
             /\ Chain(v)[i] = "hostLink" => i = Len(Chain(v))
             /\ Chain(v)[i] = "host" => /\ Class[v] = "dhchap"
                                       /\ i + 1 = Len(Chain(v))
                                       /\ Chain(v)[i + 1] = "hostLink"
  <1> USE DEF Chain, ISCSI, NVMeOF
  <1>0. Class[v] \in Classes BY ProvisioningAssumption
  <1>1. CASE Class[v] = "nfs" BY <1>1 DEF createNFSVolume
  <1>2. CASE Class[v] = "iscsi" BY <1>2 DEF createISCSIVolume
  <1>3. CASE Class[v] = "chap" BY <1>3 DEF createISCSIVolume
  <1>4. CASE Class[v] = "nvmeof" BY <1>4 DEF createNVMeOFVolume
  <1>5. CASE Class[v] = "dhchap" BY <1>5 DEF createNVMeOFVolume
  <1> QED BY <1>0, <1>1, <1>2, <1>3, <1>4, <1>5 DEF Classes

\* Building the chain one object further.
LEMMA UptoFacts ==
    ASSUME NEW v \in Volumes
    PROVE  /\ Upto(v, 0) = {} /\ Upto(v, 1) = {"dataset"}
           /\ Upto(v, Len(Chain(v))) = Required(v)
           /\ \A n \in 1..Len(Chain(v)) :
                /\ Upto(v, n) = Upto(v, n - 1) \cup ({Chain(v)[n]} \cap Named)
                /\ Chain(v)[n] \notin Upto(v, n - 1)
  <1>1. Len(Chain(v)) \in 2..6 /\ Chain(v)[1] = "dataset" BY ChainFacts
  <1>2. Upto(v, 0) = {} /\ Upto(v, 1) = {"dataset"} BY <1>1 DEF Upto, Named
  <1>3. Upto(v, Len(Chain(v))) = Required(v) BY DEF Upto, Required
  <1>4. ASSUME NEW n \in 1..Len(Chain(v))
        PROVE  /\ Upto(v, n) = Upto(v, n - 1) \cup ({Chain(v)[n]} \cap Named)
               /\ Chain(v)[n] \notin Upto(v, n - 1)
    <2>1. 1..n = (1..(n - 1)) \cup {n} BY <1>1
    <2>2. Upto(v, n) = Upto(v, n - 1) \cup ({Chain(v)[n]} \cap Named)
      BY <2>1 DEF Upto
    <2>3. \A i \in 1..(n - 1) : i \in 1..Len(Chain(v)) /\ i # n BY <1>1
    <2>4. Chain(v)[n] \notin Upto(v, n - 1) BY <2>3, ChainOrder DEF Upto
    <2> QED BY <2>2, <2>4
  <1> QED BY <1>2, <1>3, <1>4

\* A rollback takes back one object at a time: what it deletes takes nothing
\* else with it that is still there.
LEMMA UndoFacts ==
    ASSUME NEW v \in Volumes, NEW n \in 1..(Len(Chain(v)) - 1),
           has[v] = Upto(v, n), NEW gone \in Falls(v, Chain(v)[n])
    PROVE  Upto(v, n) \ gone = Upto(v, n - 1)
  <1> USE DEF Chain, ISCSI, NVMeOF
  <1>0. Class[v] \in Classes BY ProvisioningAssumption
  <1>1. CASE Class[v] = "nfs"
    BY <1>1 DEF createNFSVolume, Upto, Falls, Named
  <1>2. CASE Class[v] = "iscsi"
    BY <1>2 DEF createISCSIVolume, Upto, Falls, Named
  <1>3. CASE Class[v] = "chap"
    BY <1>3 DEF createISCSIVolume, Upto, Falls, Named
  <1>4. CASE Class[v] = "nvmeof"
    BY <1>4 DEF createNVMeOFVolume, Upto, Falls, Named
  <1>5. CASE Class[v] = "dhchap"
    BY <1>5 DEF createNVMeOFVolume, Upto, Falls, Named
  <1> QED BY <1>0, <1>1, <1>2, <1>3, <1>4, <1>5 DEF Classes

LEMMA WholeIs ==
    ASSUME NEW v \in Volumes
    PROVE  /\ "dataset" \in Whole(v) /\ Required(v) \subseteq Whole(v)
           /\ Whole(v) \ Required(v) \subseteq {"task"}
           /\ "task" \notin Required(v)
           /\ v \in Scheduled \ Cloned => Whole(v) = Required(v) \cup {"task"}
           /\ v \notin Scheduled \ Cloned => Whole(v) = Required(v)
  BY RequiredIs DEF Whole

LEMMA DropIs ==
    /\ Len(DropOrder) = 8
    /\ DropOrder[1] = "target" /\ DropOrder[2] = "extent"
    /\ DropOrder[3] = "hostLink" /\ DropOrder[4] = "portLink"
    /\ DropOrder[5] = "namespace" /\ DropOrder[6] = "subsys"
    /\ DropOrder[7] = "share" /\ DropOrder[8] = "task"
  BY DEF DropOrder

\* What the teardown has left after each of its deletions, object by object.
LEMMA LeftIs ==
    ASSUME NEW v \in Volumes, NEW n \in 0..8
    PROVE  /\ Left(v, 0) = Whole(v) /\ Left(v, 8) = {"dataset"}
           /\ Left(v, n) \subseteq Whole(v)
           /\ n > 0 => "assoc" \notin Left(v, n)
           /\ \A i \in 1..8 : i <= n => DropOrder[i] \notin Left(v, n)
           /\ n > 0 => Left(v, n) = Left(v, n - 1) \ {DropOrder[n], "assoc"}
  <1>1. Left(v, 0) = Whole(v) BY DEF Left
  <1>2. {DropOrder[i] : i \in 1..8} =
          {"target", "extent", "hostLink", "portLink", "namespace", "subsys", "share", "task"}
    BY DropIs
  <1>3. Left(v, 8) = {"dataset"}
    BY <1>2, RequiredIs, WholeIs DEF Left
  <1>4. n > 0 => Left(v, n) = Left(v, n - 1) \ {DropOrder[n], "assoc"}
    <2> SUFFICES ASSUME n > 0 PROVE Left(v, n) = Left(v, n - 1) \ {DropOrder[n], "assoc"}
      OBVIOUS
    <2>1. 1..n = (1..(n - 1)) \cup {n} OBVIOUS
    <2> QED BY <2>1 DEF Left
  <1> QED BY <1>1, <1>3, <1>4 DEF Left

\* One deletion takes from what is left exactly its own object and, where it
\* is a target's or an extent's, the association.
LEMMA DropLeaves ==
    ASSUME NEW v \in Volumes, NEW n \in 1..8, has[v] = Left(v, n - 1)
    PROVE  /\ DropOrder[n] \in has[v] =>
                \A gone \in Falls(v, DropOrder[n]) : has[v] \ gone = Left(v, n)
           /\ DropOrder[n] \notin has[v] => Left(v, n) = has[v]
  <1>1. Left(v, n) = Left(v, n - 1) \ {DropOrder[n], "assoc"} BY LeftIs
  <1>2. n > 1 => "assoc" \notin has[v] BY LeftIs
  <1>3. n = 1 => has[v] = Whole(v) BY LeftIs
  <1>4. \A i \in 1..8 : i < n => DropOrder[i] \notin has[v] BY LeftIs
  <1>5. "target" \notin Whole(v) => "assoc" \notin Whole(v) BY RequiredIs, WholeIs
  <1>6. DropOrder[n] \notin has[v] => Left(v, n) = has[v]
    BY <1>1, <1>2, <1>3, <1>5, DropIs
  <1>7. ASSUME DropOrder[n] \in has[v], NEW gone \in Falls(v, DropOrder[n])
        PROVE  has[v] \ gone = Left(v, n)
    <2>1. CASE n \in {1, 2}
      <3>1. gone = {DropOrder[n], "assoc"} BY <1>7, <2>1, DropIs DEF Falls
      <3> QED BY <1>1, <3>1
    <2>2. CASE n \in 3..8
      <3>1. gone = {DropOrder[n]}
        <4>1. n = 6 => has[v] \cap {"namespace", "portLink", "hostLink"} = {}
          BY <1>4, DropIs
        <4> QED BY <1>7, <2>2, <4>1, DropIs DEF Falls
      <3> QED BY <1>1, <1>2, <2>2, <3>1
    <2> QED BY <2>1, <2>2
  <1> QED BY <1>6, <1>7

-----------------------------------------------------------------------------
(***************************************************************************)
(* One volume                                                              *)
(***************************************************************************)

\* No call has failed yet, and none fails in this step.
Quiet(v) == faults = 0 /\ ~ctxDone[v] /\ ~Fault

LEMMA QuietStep ==
    ASSUME VolumesInv, Next, faults' = 0, NEW v \in Volumes
    PROVE  Quiet(v)
  <1>1. faults \in Nat /\ faults' >= faults BY FaultsGrow DEF VolumesInv, TypeOK
  <1>2. Publishing(v) BY DEF VolumesInv
  <1> QED BY <1>1, <1>2 DEF Quiet, Publishing, Fault

\* Where a request goes on, ends or is answered
LEMMA MoveFacts ==
    ASSUME TypeOK, NEW v \in Volumes
    PROVE  /\ \A p, i : GotoAt(v, p, i) =>
                pc'[v] = p /\ at'[v] = i /\ UNCHANGED <<ids, acked, want>>
           /\ \A p, n : GotoFor(v, p, n) => pc'[v] = p /\ UNCHANGED <<ids, acked, want>>
           /\ Fail(v) => pc'[v] = "idle" /\ UNCHANGED <<acked, want>>
           /\ \A n : CreatedWith(v, n) => pc'[v] = "idle" /\ acked'[v] = "created"
           /\ Deleted(v) => pc'[v] = "idle" /\ acked'[v] = "deleted" /\ UNCHANGED want
           /\ \A n : Expanded(v, n) => pc'[v] = "idle" /\ UNCHANGED <<acked, want>>
           /\ \A c : Published(v, c) => pc'[v] = "idle" /\ UNCHANGED <<acked, want>>
  <1> USE DEF TypeOK, TypeReq, TypeCO, coVars
  <1>1. \A p, i : GotoAt(v, p, i) =>
                pc'[v] = p /\ at'[v] = i /\ UNCHANGED <<ids, acked, want>>
    BY DEF GotoAt
  <1>2. \A p, n : GotoFor(v, p, n) => pc'[v] = p /\ UNCHANGED <<ids, acked, want>>
    BY DEF GotoFor
  <1>3. Return(v) => pc'[v] = "idle" BY DEF Return
  <1>4. Fail(v) => pc'[v] = "idle" /\ UNCHANGED <<acked, want>> BY <1>3 DEF Fail
  <1>5. \A n : CreatedWith(v, n) => pc'[v] = "idle" /\ acked'[v] = "created"
    BY <1>3 DEF CreatedWith
  <1>6. Deleted(v) => pc'[v] = "idle" /\ acked'[v] = "deleted" /\ UNCHANGED want
    BY <1>3 DEF Deleted
  <1>7. \A n : Expanded(v, n) => pc'[v] = "idle" /\ UNCHANGED <<acked, want>>
    BY <1>3 DEF Expanded
  <1>8. \A c : Published(v, c) => pc'[v] = "idle" /\ UNCHANGED <<acked, want>>
    BY <1>3 DEF Published
  <1> QED BY <1>1, <1>2, <1>4, <1>5, <1>6, <1>7, <1>8

\* A request that is over has left the volume there or not there.
LEMMA Rests ==
    ASSUME NEW v \in Volumes, pc'[v] = "idle", has'[v] \in {{}, Whole(v)},
           acked'[v] = "deleted" => want'[v] = "delete" /\ has'[v] = {}
    PROVE  Unfailed(v)'
  BY DEF Unfailed, EnsurePCs, ISCSIPCs, NVMeOFPCs, WholePCs, UsePCs

\* A request that goes on with the volume as it is
LEMMA Stays ==
    ASSUME NEW v \in Volumes, NEW p, pc'[v] = p,
           acked'[v] # "deleted",
           \/ p \in {"cGet", "cAgain", "dGet"} /\ has'[v] \in {{}, Whole(v)}
           \/ p \in WholePCs /\ has'[v] = Whole(v)
           \/ p = "make" /\ has'[v] = Upto(v, at'[v] - 1)
           \/ p = "fit" /\ has'[v] = Upto(v, 1) /\ v \in Cloned
           \/ p = "task" /\ has'[v] = Required(v) /\ v \in Scheduled \ Cloned
           \/ p = "undo" /\ has'[v] = Upto(v, at'[v]) /\ at'[v] < Len(Chain(v))
           \/ /\ Whole(v) \ (ids'[v] \cup ByPath) \subseteq {"dataset", "assoc"}
              /\ \/ p = "drop" /\ has'[v] = Left(v, at'[v] - 1)
                 \/ p \in {"gcQuery", "gcDrop"} /\ at'[v] = 3 /\ has'[v] = Left(v, 3)
           \/ p = "dDataset" /\ has'[v] = {"dataset"}
    PROVE  Unfailed(v)'
  <1>1. WholePCs \cap {"idle", "cGet", "cAgain", "dGet", "make", "fit", "task", "undo",
                       "drop", "gcQuery", "gcDrop", "dDataset"} = {}
    BY DEF WholePCs, UsePCs
  <1>2. EnsurePCs \cap {"idle", "cGet", "cAgain", "dGet", "make", "fit", "task", "undo",
                        "drop", "gcQuery", "gcDrop", "dDataset"} = {}
    BY DEF EnsurePCs, ISCSIPCs, NVMeOFPCs
  <1> QED BY <1>1, <1>2 DEF Unfailed

\* Adding an object, and what a call does when none fails
LEMMA AddIs ==
    ASSUME TypeOK, NEW v \in Volumes, NEW k, Add(v, k)
    PROVE  has'[v] = IF k \in Named THEN has[v] \cup {k} ELSE has[v]
  BY DEF Add, TypeOK, TypeStore

LEMMA QuietCalls ==
    ASSUME NEW v \in Volumes, Quiet(v)
    PROVE  ~Errs(v) /\ ~Dropped(v)
  BY DEF Quiet, Errs, Dropped

LEMMA GetUnfailed ==
    ASSUME VolumesInv, NEW v \in Volumes, Unfailed(v), Quiet(v),
           CreateGet(v) \/ CreateAgain(v)
    PROVE  Unfailed(v)'
  <1>0. TypeOK /\ ~Errs(v) BY QuietCalls DEF VolumesInv
  <1>1. has[v] \in {{}, Whole(v)} /\ acked[v] # "deleted"
    BY DEF CreateGet, CreateAgain, Unfailed
  <1>2. has' = has BY DEF CreateGet, CreateAgain, storeVars
  <1>3. Fail(v) => Unfailed(v)' BY <1>0, <1>1, <1>2, MoveFacts, Rests
  <1>4. ASSUME "dataset" \in has[v], NEW n, Adopt(v, n) PROVE Unfailed(v)'
    <2>1. has'[v] = Whole(v) BY <1>1, <1>2, <1>4
    <2>2. CASE CreatedWith(v, n) BY <1>0, <2>1, <2>2, MoveFacts, Rests
    <2>3. ASSUME NEW p \in {"qExtent", "qNs"}, GotoFor(v, p, n) PROVE Unfailed(v)'
      BY <1>0, <1>1, <2>1, <2>3, MoveFacts, Stays DEF WholePCs
    <2> QED BY <1>4, <2>2, <2>3 DEF Adopt
  <1>5. ASSUME "dataset" \notin has[v], GotoAt(v, "make", 1) PROVE Unfailed(v)'
    <2>1. has'[v] = Upto(v, 0)
      <3>1. "dataset" \in Whole(v) /\ Upto(v, 0) = {} BY UptoFacts, WholeIs
      <3> QED BY <1>1, <1>2, <1>5, <3>1
    <2>2. pc'[v] = "make" /\ at'[v] - 1 = 0 /\ acked'[v] # "deleted"
      BY <1>0, <1>1, <1>5, MoveFacts
    <2> QED BY <2>1, <2>2, Stays
  <1>6. ASSUME "dataset" \notin has[v], Absent(v) PROVE Unfailed(v)'
    <2>1. CASE Goto(v, "cAgain")
      BY <1>0, <1>1, <1>2, <2>1, MoveFacts, Stays DEF Goto
    <2> QED BY <1>5, <1>6, <2>1 DEF Absent
  <1> QED BY <1>0, <1>3, <1>4, <1>5, <1>6 DEF CreateGet, CreateAgain

LEMMA MakeUnfailed ==
    ASSUME VolumesInv, NEW v \in Volumes, Unfailed(v), Quiet(v), Make(v)
    PROVE  Unfailed(v)'
  <1> DEFINE k == Chain(v)[at[v]]
  <1>0. TypeOK /\ ~Errs(v) /\ ~Dropped(v) BY QuietCalls DEF VolumesInv
  <1>1. /\ at[v] \in 1..Len(Chain(v)) /\ Len(Chain(v)) \in 2..6
        /\ has[v] = Upto(v, at[v] - 1) /\ acked[v] # "deleted"
    BY ChainFacts DEF VolumesInv, VolumeInv, Building, Unfailed, Make
  <1>2. ASSUME Add(v, k),
               IF at[v] = Len(Chain(v)) THEN Built(v)
               ELSE IF at[v] = 1 /\ v \in Cloned THEN Goto(v, "fit")
               ELSE GotoAt(v, "make", at[v] + 1)
        PROVE  Unfailed(v)'
    <2>1. has'[v] = Upto(v, at[v])
      <3>1. Upto(v, at[v]) = has[v] \cup ({k} \cap Named) BY <1>1, UptoFacts
      <3>2. has'[v] = IF k \in Named THEN has[v] \cup {k} ELSE has[v]
        BY <1>0, <1>2, AddIs
      <3> QED BY <3>1, <3>2
    <2>2. CASE at[v] = Len(Chain(v)) /\ Built(v)
      <3>1. has'[v] = Required(v) BY <2>1, <2>2, UptoFacts
      <3>2. CASE v \in Scheduled \ Cloned
        BY <1>0, <1>1, <2>2, <3>1, <3>2, MoveFacts, Stays DEF Built
      <3>3. CASE v \notin Scheduled \ Cloned
        BY <1>0, <2>2, <3>1, <3>3, MoveFacts, Rests, WholeIs DEF Built, Created
      <3> QED BY <3>2, <3>3
    <2>3. CASE at[v] = 1 /\ v \in Cloned /\ Goto(v, "fit")
      BY <1>0, <1>1, <2>1, <2>3, MoveFacts, Stays DEF Goto
    <2>4. CASE GotoAt(v, "make", at[v] + 1)
      <3>1. pc'[v] = "make" /\ at'[v] - 1 = at[v] /\ acked'[v] # "deleted"
        BY <1>0, <1>1, <2>4, MoveFacts
      <3> QED BY <2>1, <3>1, Stays
    <2> QED BY <1>2, <2>2, <2>3, <2>4
  <1>3. CASE Rollback(v) /\ UNCHANGED storeVars
    <2>1. has'[v] = Upto(v, at[v] - 1) BY <1>1, <1>3 DEF storeVars
    <2>2. CASE at[v] = 1
      BY <1>0, <1>1, <1>3, <2>1, <2>2, MoveFacts, Rests, UptoFacts DEF Rollback
    <2>3. CASE at[v] # 1
      <3>1. pc'[v] = "undo" /\ at'[v] = at[v] - 1 /\ acked'[v] # "deleted"
        BY <1>0, <1>1, <1>3, <2>3, MoveFacts DEF Rollback
      <3> QED BY <1>1, <2>1, <3>1, Stays
    <2> QED BY <2>2, <2>3
  <1> QED BY <1>0, <1>2, <1>3 DEF Make

LEMMA BuildUnfailed ==
    ASSUME VolumesInv, NEW v \in Volumes, Unfailed(v), Quiet(v),
           FitClone(v) \/ MakeTask(v)
    PROVE  Unfailed(v)'
  <1>0. TypeOK /\ ~Errs(v) /\ ~Dropped(v) BY QuietCalls DEF VolumesInv
  <1>1. CASE FitClone(v)
    <2>1. has'[v] = Upto(v, 2 - 1) /\ acked[v] # "deleted" /\ GotoAt(v, "make", 2)
      BY <1>0, <1>1 DEF FitClone, Unfailed, Resize
    <2> QED BY <1>0, <2>1, MoveFacts, Stays
  <1>2. CASE MakeTask(v)
    <2>1. has'[v] = Whole(v) /\ Created(v)
      BY <1>0, <1>2, AddIs, WholeIs DEF MakeTask, Unfailed, Named
    <2> QED BY <1>0, <2>1, MoveFacts, Rests DEF Created
  <1> QED BY <1>1, <1>2

LEMMA UndoUnfailed ==
    ASSUME VolumesInv, NEW v \in Volumes, Unfailed(v), Quiet(v), Undo(v)
    PROVE  Unfailed(v)'
  <1> DEFINE k == Chain(v)[at[v]]
  <1>0. TypeOK /\ ~Errs(v) /\ ~Dropped(v) BY QuietCalls DEF VolumesInv
  <1>1. /\ at[v] \in 1..(Len(Chain(v)) - 1) /\ Len(Chain(v)) \in 2..6
        /\ has[v] = Upto(v, at[v]) /\ acked[v] # "deleted"
    BY ChainFacts DEF VolumesInv, VolumeInv, Building, Unfailed, Undo
  <1>2. has'[v] = Upto(v, at[v] - 1)
    <2>1. CASE k # "host" /\ Remove(v, k)
      <3>1. PICK gone \in Falls(v, k) : has'[v] = has[v] \ gone
        BY <1>0, <2>1 DEF Remove, TypeOK, TypeStore
      <3> QED BY <1>1, <3>1, UndoFacts
    <2>2. CASE k = "host" /\ UNCHANGED storeVars
      BY <1>1, <2>2, UptoFacts DEF storeVars, Named
    <2> QED BY <1>0, <2>1, <2>2 DEF Undo
  <1>3. CASE at[v] = 1
    BY <1>0, <1>1, <1>2, <1>3, MoveFacts, Rests, UptoFacts DEF Undo
  <1>4. CASE at[v] # 1
    <2>1. pc'[v] = "undo" /\ at'[v] = at[v] - 1 /\ acked'[v] # "deleted"
      BY <1>0, <1>1, <1>4, MoveFacts DEF Undo
    <2> QED BY <1>1, <1>2, <2>1, Stays
  <1> QED BY <1>3, <1>4

\* A repair finds everything in its place.
LEMMA EnsureUnfailed ==
    ASSUME VolumesInv, NEW v \in Volumes, Unfailed(v), Quiet(v),
           ensureISCSIChain(v) \/ ensureNVMeOFChain(v)
    PROVE  Unfailed(v)'
  <1>0. TypeOK /\ ~Errs(v) /\ ~Dropped(v) BY QuietCalls DEF VolumesInv
  <1>1. pc[v] \in EnsurePCs
    BY DEF ensureISCSIChain, ensureTarget, ensureNVMeOFChain, EnsurePCs, ISCSIPCs,
           NVMeOFPCs
  <1>2. pc[v] \in WholePCs /\ has[v] = Whole(v) /\ acked[v] # "deleted"
    BY <1>1 DEF Unfailed, EnsurePCs, ISCSIPCs, NVMeOFPCs
  <1>3. pc[v] \in {"qExtent", "qAssoc", "qTarget", "qNs"}
    BY <1>1, <1>2 DEF WholePCs, UsePCs, EnsurePCs, ISCSIPCs, NVMeOFPCs
  <1>4. IF pc[v] = "qNs" THEN NVMeOF(v) ELSE ISCSI(v)
    BY <1>1, <1>3 DEF VolumesInv, VolumeInv, Repairing, ISCSIPCs
  <1>5. /\ ISCSI(v) => {"extent", "assoc", "target"} \subseteq has[v]
        /\ NVMeOF(v) => "namespace" \in has[v]
    BY <1>2, RequiredIs, WholeIs DEF NVMeOF
  <1>6. UNCHANGED has /\ (Created(v) \/ Goto(v, "qAssoc") \/ Goto(v, "qTarget"))
    BY <1>0, <1>3, <1>4, <1>5
    DEF ensureISCSIChain, ensureTarget, ensureNVMeOFChain, Query, QueryOrFail, storeVars
  <1> QED
    BY <1>0, <1>2, <1>6, MoveFacts, Rests, Stays DEF Created, Goto, WholePCs

LEMMA UseUnfailed ==
    ASSUME VolumesInv, NEW v \in Volumes, Unfailed(v), Quiet(v), UseStep(v)
    PROVE  Unfailed(v)'
  <1>0. TypeOK /\ ~Errs(v) /\ ~Dropped(v) BY QuietCalls DEF VolumesInv
  <1>1. pc[v] \in UsePCs
    BY DEF UseStep, ExpandInfo, ExpandUpdate, PublishGet, PublishInfo, PublishProbe, UsePCs
  <1>2. has[v] = Whole(v) /\ acked[v] # "deleted"
    BY <1>1 DEF Unfailed, WholePCs, UsePCs
  <1>3. UNCHANGED has
    BY DEF UseStep, ExpandInfo, ExpandUpdate, PublishGet, QueryOrFail, PublishInfo,
           PublishProbe, Resize, storeVars
  <1>4. CASE pc'[v] = "idle" /\ UNCHANGED <<acked, want>>
    BY <1>2, <1>3, <1>4, Rests
  <1>5. CASE pc'[v] \in WholePCs /\ UNCHANGED <<acked, want>>
    BY <1>2, <1>3, <1>5, Stays
  <1>6. \/ pc'[v] = "idle" /\ UNCHANGED <<acked, want>>
        \/ pc'[v] \in WholePCs /\ UNCHANGED <<acked, want>>
    <2>1. {"eUpdate", "pInfo", "pProbe"} \subseteq WholePCs BY DEF WholePCs, UsePCs
    <2>2. CASE ExpandInfo(v) BY <1>0, <2>1, <2>2, MoveFacts DEF ExpandInfo, Goto
    <2>3. CASE ExpandUpdate(v) BY <1>0, <2>3, MoveFacts DEF ExpandUpdate
    <2>4. CASE PublishGet(v) BY <1>0, <2>1, <2>4, MoveFacts DEF PublishGet, QueryOrFail, Goto
    <2>5. CASE PublishInfo(v) BY <1>0, <2>1, <2>5, MoveFacts DEF PublishInfo, Goto
    <2>6. CASE PublishProbe(v) BY <1>0, <2>6, MoveFacts DEF PublishProbe
    <2> QED BY <2>2, <2>3, <2>4, <2>5, <2>6 DEF UseStep
  <1> QED BY <1>4, <1>5, <1>6

\* On to the next deletion of the teardown, or to the dataset after the last.
LEMMA NextUnfailed ==
    ASSUME TypeOK, NEW v \in Volumes, at[v] \in 1..8, DropNext(v),
           acked[v] # "deleted", has'[v] = Left(v, at[v]),
           Whole(v) \ (ids[v] \cup ByPath) \subseteq {"dataset", "assoc"}
    PROVE  Unfailed(v)'
  <1>1. CASE at[v] = 8
    BY <1>1, DropIs, LeftIs, MoveFacts, Stays DEF DropNext, Goto
  <1>2. CASE at[v] # 8
    <2>1. /\ pc'[v] = "drop" /\ at'[v] = at[v] + 1 /\ acked'[v] # "deleted"
          /\ ids'[v] = ids[v]
      BY <1>2, DropIs, MoveFacts DEF DropNext
    <2>2. at'[v] - 1 = at[v] BY <2>1
    <2> QED BY <2>1, <2>2, Stays
  <1> QED BY <1>1, <1>2

LEMMA DropUnfailed ==
    ASSUME VolumesInv, NEW v \in Volumes, Unfailed(v), Quiet(v), DeleteDrop(v)
    PROVE  Unfailed(v)'
  <1> DEFINE k == DropOrder[at[v]]
  <1>0. TypeOK /\ ~Errs(v) /\ ~Dropped(v) BY QuietCalls DEF VolumesInv
  <1>1. /\ at[v] \in 1..8 /\ has[v] = Left(v, at[v] - 1) /\ acked[v] # "deleted"
        /\ Whole(v) \ (ids[v] \cup ByPath) \subseteq {"dataset", "assoc"}
    BY DropIs DEF VolumesInv, VolumeInv, OwnPhase, Unfailed, DeleteDrop
  <1>2. has[v] \subseteq Whole(v) /\ k \notin {"dataset", "assoc"}
    BY <1>1, LeftIs, DropIs
  <1>3. k = "hostLink" => at[v] = 3 BY <1>1, DropIs
  <1>4. CASE /\ k \in has[v] /\ Remove(v, k)
             /\ IF k = "hostLink" THEN GotoAt(v, "gcQuery", at[v]) ELSE DropNext(v)
    <2>1. has'[v] = Left(v, at[v])
      <3>1. PICK gone \in Falls(v, k) : has'[v] = has[v] \ gone
        BY <1>0, <1>4 DEF Remove, TypeOK, TypeStore
      <3> QED BY <1>1, <1>4, <3>1, DropLeaves
    <2>2. CASE k = "hostLink"
      <3>1. /\ pc'[v] = "gcQuery" /\ at'[v] = 3 /\ acked'[v] # "deleted"
            /\ ids'[v] = ids[v] /\ has'[v] = Left(v, 3)
        BY <1>0, <1>1, <1>3, <1>4, <2>1, <2>2, MoveFacts
      <3> QED BY <1>1, <3>1, Stays
    <2>3. CASE k # "hostLink" BY <1>0, <1>1, <1>4, <2>1, <2>3, NextUnfailed
    <2> QED BY <2>2, <2>3
  <1>5. CASE k \notin has[v] \cap (ids[v] \cup ByPath) /\ UNCHANGED storeVars /\ DropNext(v)
    <2>1. k \notin has[v] BY <1>1, <1>2, <1>5
    <2>2. has'[v] = Left(v, at[v]) BY <1>1, <1>5, <2>1, DropLeaves DEF storeVars
    <2> QED BY <1>0, <1>1, <1>5, <2>2, NextUnfailed
  <1> QED BY <1>0, <1>4, <1>5 DEF DeleteDrop

LEMMA DeleteUnfailed ==
    ASSUME VolumesInv, NEW v \in Volumes, Unfailed(v), Quiet(v), DeleteStep(v)
    PROVE  Unfailed(v)'
  <1>0. /\ TypeOK /\ ~Errs(v) /\ ~Dropped(v) /\ ~Fault
        /\ pc[v] \in DeletePCs => want[v] = "delete"
    BY QuietCalls DEF VolumesInv, VolumeInv, OwnPhase, Quiet
  <1>1. CASE DeleteGet(v)
    <2>1. has'[v] = has[v] /\ has[v] \in {{}, Whole(v)} /\ acked[v] # "deleted"
      BY <1>1 DEF DeleteGet, QueryOrFail, Unfailed, storeVars
    <2>2. CASE "dataset" \in has[v] /\ Goto(v, "dSnap")
      BY <1>0, <2>1, <2>2, MoveFacts, Stays DEF Goto, WholePCs
    <2>3. CASE "dataset" \notin has[v] /\ Deleted(v)
      <3>1. has'[v] = {} BY <2>1, <2>3, WholeIs
      <3>2. want[v] = "delete" BY <1>0, <1>1 DEF DeleteGet, DeletePCs
      <3> QED BY <1>0, <2>3, <3>1, <3>2, MoveFacts, Rests
    <2> QED BY <1>0, <1>1, <2>2, <2>3 DEF DeleteGet, QueryOrFail
  <1>2. CASE DeleteSnapshots(v)
    <2>1. /\ has'[v] = Whole(v) /\ acked[v] # "deleted" /\ Goto(v, "dInfo")
      BY <1>0, <1>2 DEF DeleteSnapshots, Unfailed, WholePCs, storeVars
    <2> QED BY <1>0, <2>1, MoveFacts, Stays DEF Goto, WholePCs
  <1>3. CASE DeleteInfo(v)
    <2>1. has'[v] = Whole(v) /\ has[v] = Whole(v) /\ acked'[v] # "deleted"
      BY <1>3 DEF DeleteInfo, Unfailed, WholePCs, storeVars, coVars
    <2>2. pc'[v] = "drop" /\ at'[v] = 1 /\ ids'[v] = Reconstructed(v)
      BY <1>0, <1>3 DEF DeleteInfo, TypeOK, TypeReq
    <2>3. Whole(v) \ (Reconstructed(v) \cup ByPath) \subseteq {"dataset", "assoc"}
      BY <2>1, RequiredIs, WholeIs DEF Reconstructed, ByPath
    <2>4. has'[v] = Left(v, at'[v] - 1)
      <3>1. at'[v] - 1 = 0 BY <2>2
      <3> QED BY <2>1, <3>1, LeftIs
    <2> QED BY <2>1, <2>2, <2>3, <2>4, Stays
  <1>4. CASE GcQuery(v) \/ GcDrop(v)
    <2>1. /\ at[v] = 3 /\ has'[v] = Left(v, 3) /\ acked[v] # "deleted"
          /\ Whole(v) \ (ids[v] \cup ByPath) \subseteq {"dataset", "assoc"}
      BY <1>4 DEF GcQuery, GcDrop, Unfailed, storeVars
    <2>2. CASE DropNext(v) BY <1>0, <2>1, <2>2, NextUnfailed
    <2>3. CASE GotoAt(v, "gcDrop", at[v]) BY <1>0, <2>1, <2>3, MoveFacts, Stays
    <2> QED BY <1>4, <2>2, <2>3 DEF GcQuery, GcDrop
  <1>5. CASE DeleteDataset(v)
    <2>1. has[v] = {"dataset"} /\ Remove(v, "dataset") /\ Deleted(v) /\ want[v] = "delete"
      BY <1>0, <1>5 DEF DeleteDataset, Unfailed, DeletePCs
    <2>2. has'[v] = {}
      BY <1>0, <2>1 DEF Remove, Falls, TypeOK, TypeStore
    <2> QED BY <1>0, <2>1, <2>2, MoveFacts, Rests
  <1> QED BY <1>1, <1>2, <1>3, <1>4, <1>5, DropUnfailed DEF DeleteStep

LEMMA HandlerUnfailed ==
    ASSUME VolumesInv, NEW v \in Volumes, Unfailed(v), Quiet(v),
           CreateStep(v) \/ UseStep(v) \/ DeleteStep(v)
    PROVE  Unfailed(v)'
  BY GetUnfailed, MakeUnfailed, BuildUnfailed, UndoUnfailed, EnsureUnfailed, UseUnfailed,
     DeleteUnfailed DEF CreateStep

\* It only depends on the volume's own state.
LEMMA UnfailedKept ==
    ASSUME NEW w \in Volumes, Unfailed(w), has'[w] = has[w], pc'[w] = pc[w],
           at'[w] = at[w], ids'[w] = ids[w], acked'[w] = acked[w], want'[w] = want[w]
    PROVE  Unfailed(w)'
  BY DEF Unfailed

\* The CO's steps
LEMMA COUnfailed ==
    ASSUME VolumesInv, NEW v \in Volumes, NEW w \in Volumes, Unfailed(w),
           \/ CreateVolume(v) \/ Unwant(v) \/ DeleteVolume(v)
           \/ ControllerExpandVolume(v) \/ ControllerPublishVolume(v)
           \/ ControllerUnpublishVolume(v)
    PROVE  /\ Unfailed(w)' /\ UNCHANGED storeVars
           /\ pc[w] # "idle" => pc'[w] = pc[w] /\ at'[w] = at[w]
  <1> USE DEF VolumesInv, TypeOK, TypeReq, TypeCO
  <1>0. UNCHANGED <<storeVars, ids, acked>> /\ UNCHANGED has
    BY DEF CreateVolume, Unwant, DeleteVolume, ControllerExpandVolume,
           ControllerPublishVolume, ControllerUnpublishVolume, Goto, GotoAt, GotoFor,
           reqVars, coVars, storeVars
  <1>1. CASE v # w \/ ControllerUnpublishVolume(v)
    <2>1. pc'[w] = pc[w] /\ at'[w] = at[w] /\ want'[w] = want[w]
      BY <1>1
      DEF CreateVolume, Unwant, DeleteVolume, ControllerExpandVolume,
          ControllerPublishVolume, ControllerUnpublishVolume, Goto, GotoAt, GotoFor,
          reqVars, coVars
    <2> QED BY <1>0, <2>1, UnfailedKept
  <1>2. CASE v = w /\ ~ControllerUnpublishVolume(v)
    <2>1. pc[w] = "idle" /\ has[w] \in {{}, Whole(w)}
      BY <1>2
      DEF CreateVolume, Unwant, DeleteVolume, ControllerExpandVolume,
          ControllerPublishVolume, Unfailed
    <2>2. CASE CreateVolume(v)
      <3>1. pc'[w] = "cGet" /\ acked[w] # "deleted"
        BY <1>2, <2>2 DEF CreateVolume, Unfailed
      <3> QED BY <1>0, <2>1, <3>1, Stays
    <2>3. CASE Unwant(v)
      <3>1. pc'[w] = "idle" /\ want'[w] = "delete"
        BY <1>2, <2>1, <2>3 DEF Unwant, reqVars
      <3> QED BY <1>0, <2>1, <3>1, Rests DEF Unfailed
    <2>4. CASE DeleteVolume(v)
      <3>1. pc'[w] = "dGet" /\ acked[w] # "deleted"
        BY <1>2, <2>4 DEF DeleteVolume, GotoAt
      <3> QED BY <1>0, <2>1, <3>1, Stays
    <2>5. CASE ControllerExpandVolume(v) \/ ControllerPublishVolume(v)
      <3>1. InUse(w) /\ pc'[w] \in {"eInfo", "pGet"}
        BY <1>2, <2>5
        DEF ControllerExpandVolume, ControllerPublishVolume, Goto, GotoAt, GotoFor
      <3>2. has[w] = Whole(w)
        <4>1. "dataset" \in has[w] BY <3>1 DEF VolumeInv, Vouched
        <4> QED BY <2>1, <4>1
      <3>3. acked[w] # "deleted" BY <3>1 DEF InUse
      <3>4. pc'[w] \in WholePCs BY <3>1 DEF WholePCs, UsePCs
      <3> QED BY <1>0, <2>1, <3>2, <3>3, <3>4, Stays
    <2> QED BY <1>0, <1>2, <2>1, <2>2, <2>3, <2>4, <2>5
  <1> QED BY <1>1, <1>2

-----------------------------------------------------------------------------
(***************************************************************************)
(* The shared host                                                         *)
(***************************************************************************)

\* Only a volume that authenticates its host is linked to it.
LEMMA LinkedClass ==
    ASSUME VolumesInv, NEW v \in Volumes, Unfailed(v), "hostLink" \in has[v]
    PROVE  Class[v] = "dhchap"
  <1>1. has[v] \subseteq Whole(v)
    <2>1. TypeOK /\ pc[v] \in PCs BY DEF VolumesInv, TypeOK, TypeReq
    <2>2. \A n \in 0..Len(Chain(v)) : Upto(v, n) \subseteq Whole(v)
      <3>1. Len(Chain(v)) \in 2..6 BY ChainFacts
      <3> QED BY <3>1 DEF Upto, Whole, Required
    <2>3. \A n \in 0..8 : Left(v, n) \subseteq Whole(v) BY LeftIs
    <2>4. CASE pc[v] \in {"make", "undo"}
      <3>1. at[v] \in 1..Len(Chain(v)) /\ Len(Chain(v)) \in 2..6
        BY <2>4, ChainFacts DEF VolumesInv, VolumeInv, Building
      <3>2. at[v] \in 0..Len(Chain(v)) /\ at[v] - 1 \in 0..Len(Chain(v)) BY <3>1
      <3> QED BY <2>2, <2>4, <3>2 DEF Unfailed
    <2>5. CASE pc[v] \in {"drop", "gcQuery", "gcDrop"}
      <3>1. pc[v] = "drop" => at[v] - 1 \in 0..8
        BY DropIs DEF VolumesInv, VolumeInv, OwnPhase
      <3> QED BY <2>3, <2>5, <3>1 DEF Unfailed
    <2>6. CASE pc[v] = "fit"
      <3>1. Upto(v, 1) \subseteq Whole(v) BY UptoFacts, WholeIs
      <3> QED BY <2>6, <3>1 DEF Unfailed
    <2>7. CASE pc[v] \notin {"make", "undo", "drop", "gcQuery", "gcDrop", "fit"}
      <3>1. \/ pc[v] \in WholePCs \/ pc[v] \in EnsurePCs
            \/ pc[v] \in {"idle", "cGet", "cAgain", "dGet", "task", "dDataset"}
        BY <2>1, <2>7 DEF PCs, CreatePCs, DeletePCs, WholePCs
      <3> QED BY <3>1, WholeIs DEF Unfailed
    <2> QED BY <2>4, <2>5, <2>6, <2>7
  <1> QED BY <1>1, RequiredIs, WholeIs

\* A link to the host is only deleted by the teardown, which then looks
\* after the host.
LEMMA LinkKept ==
    ASSUME VolumesInv, NEW v \in Volumes, Unfailed(v), Quiet(v),
           CreateStep(v) \/ UseStep(v) \/ DeleteStep(v), "hostLink" \in has[v]
    PROVE  "hostLink" \in has'[v] \/ pc'[v] = "gcQuery"
  <1>0. TypeOK /\ ~Errs(v) /\ ~Dropped(v) BY QuietCalls DEF VolumesInv
  <1>1. \A k : Add(v, k) => has[v] \subseteq has'[v]
    BY <1>0 DEF Add, TypeOK, TypeStore
  <1>2. \A k : Remove(v, k) /\ k # "hostLink" => "hostLink" \in has'[v]
    BY <1>0 DEF Remove, Falls, TypeOK, TypeStore
  <1>3. CASE Undo(v)
    <2>1. at[v] \in 1..Len(Chain(v)) /\ at[v] < Len(Chain(v))
      BY <1>3 DEF VolumesInv, VolumeInv, Building, Unfailed, Undo
    <2>2. Chain(v)[at[v]] # "hostLink" BY <2>1, ChainFacts, ChainOrder
    <2> QED BY <1>0, <1>2, <1>3, <2>2 DEF Undo, storeVars
  <1>4. CASE CreateStep(v) /\ ~Undo(v)
    BY <1>0, <1>1, <1>4
    DEF CreateStep, CreateGet, CreateAgain, Make, FitClone, MakeTask, ensureISCSIChain,
        ensureTarget, ensureNVMeOFChain, ensureNVMeHost, Query, QueryOrFail, Repair, Resize,
        storeVars
  <1>5. CASE UseStep(v)
    BY <1>5
    DEF UseStep, ExpandInfo, ExpandUpdate, PublishGet, QueryOrFail, PublishInfo,
        PublishProbe, Resize, storeVars
  <1>6. CASE DeleteDrop(v)
    <2>1. \A i : GotoAt(v, "gcQuery", i) => pc'[v] = "gcQuery" BY <1>0, MoveFacts
    <2> QED BY <1>0, <1>2, <1>6, <2>1 DEF DeleteDrop, storeVars
  <1>7. CASE DeleteStep(v) /\ ~DeleteDrop(v)
    BY <1>0, <1>2, <1>7
    DEF DeleteStep, DeleteGet, QueryOrFail, DeleteSnapshots, DeleteInfo, GcQuery, GcDrop,
        DeleteDataset, storeVars
  <1> QED BY <1>3, <1>4, <1>5, <1>6, <1>7

\* The host appears for a volume that goes on to link it.
LEMMA HostMade ==
    ASSUME VolumesInv, NEW v \in Volumes, Unfailed(v), Quiet(v),
           CreateStep(v) \/ UseStep(v) \/ DeleteStep(v), ~host, host'
    PROVE  HostUser(v)'
  <1>0. TypeOK /\ ~Errs(v) /\ ~Dropped(v) BY QuietCalls DEF VolumesInv
  <1>1. \A k : Add(v, k) => k = "host" BY DEF Add
  <1>2. \A k : ~Remove(v, k) BY DEF Remove
  <1>3. pc[v] # "fixHost"
    BY DEF Unfailed, EnsurePCs, NVMeOFPCs, WholePCs, UsePCs
  <1>4. CASE Make(v)
    <2>1. at[v] \in 1..Len(Chain(v)) BY <1>4 DEF VolumesInv, VolumeInv, Building, Make
    <2>2. Chain(v)[at[v]] = "host" BY <1>0, <1>1, <1>4 DEF Make, storeVars
    <2>3. /\ Class[v] = "dhchap" /\ at[v] + 1 = Len(Chain(v))
          /\ Chain(v)[at[v] + 1] = "hostLink"
      BY <2>1, <2>2, ChainOrder
    <2>4. at[v] # Len(Chain(v)) /\ at[v] # 1
      <3>1. Len(Chain(v)) \in 2..6 /\ Chain(v)[1] = "dataset" BY ChainFacts
      <3> QED BY <2>2, <2>3, <3>1
    <2>5. GotoAt(v, "make", at[v] + 1)
      BY <1>0, <1>4, <2>4 DEF Make, storeVars
    <2>6. pc'[v] = "make" /\ at'[v] = at[v] + 1 BY <1>0, <2>5, MoveFacts
    <2> QED BY <2>3, <2>6 DEF HostUser
  <1>5. CASE CreateStep(v) /\ ~Make(v)
    BY <1>0, <1>1, <1>2, <1>3, <1>5
    DEF CreateStep, CreateGet, CreateAgain, Undo, FitClone, MakeTask, ensureISCSIChain,
        ensureTarget, ensureNVMeOFChain, Query, QueryOrFail, Repair, Resize, storeVars
  <1>6. CASE UseStep(v)
    BY <1>6
    DEF UseStep, ExpandInfo, ExpandUpdate, PublishGet, QueryOrFail, PublishInfo,
        PublishProbe, Resize, storeVars
  <1>7. CASE DeleteStep(v)
    BY <1>0, <1>2, <1>7
    DEF DeleteStep, DeleteGet, QueryOrFail, DeleteSnapshots, DeleteInfo, DeleteDrop,
        GcQuery, GcDrop, DeleteDataset, storeVars
  <1> QED BY <1>4, <1>5, <1>6, <1>7

\* A user of the host stays one, leaves it to another that is linked, or has
\* deleted it.
LEMMA HostHandedOn ==
    ASSUME VolumesInv, NEW v \in Volumes, Unfailed(v), Quiet(v),
           CreateStep(v) \/ UseStep(v) \/ DeleteStep(v), HostUser(v), host, host'
    PROVE  HostUser(v)' \/ \E w \in Volumes : w # v /\ "hostLink" \in has[w]
  <1>0. TypeOK /\ ~Errs(v) /\ ~Dropped(v) BY QuietCalls DEF VolumesInv
  <1>1. CASE "hostLink" \in has[v] BY <1>1, LinkKept DEF HostUser
  <1>2. CASE pc[v] = "make" /\ Chain(v)[at[v]] = "hostLink"
    <2>1. /\ at[v] \in 1..Len(Chain(v)) /\ has[v] = Upto(v, at[v] - 1)
      BY <1>2 DEF VolumesInv, VolumeInv, Building, Unfailed
    <2>2. Accepts(v, "hostLink") BY <1>2, <2>1, UptoFacts DEF Accepts
    <2>3. Make(v)
      BY <1>2
      DEF CreateStep, UseStep, DeleteStep, CreateGet, CreateAgain, FitClone, MakeTask, Undo,
          ensureISCSIChain, ensureTarget, ensureNVMeOFChain, ExpandInfo, ExpandUpdate,
          PublishGet, PublishInfo, PublishProbe, DeleteGet, DeleteSnapshots, DeleteInfo,
          DeleteDrop, GcQuery, GcDrop, DeleteDataset
    <2>4. Add(v, "hostLink") BY <1>0, <1>2, <2>2, <2>3 DEF Make
    <2>5. "hostLink" \in has'[v] BY <1>0, <2>4, AddIs DEF Named
    <2> QED BY <2>5 DEF HostUser
  <1>3. CASE pc[v] \in {"gcQuery", "gcDrop"}
    <2>1. "hostLink" \notin has[v]
      <3>1. has[v] = Left(v, 3) BY <1>3 DEF Unfailed
      <3> QED BY <3>1, LeftIs, DropIs
    <2>2. GcQuery(v) \/ GcDrop(v)
      BY <1>3
      DEF CreateStep, UseStep, DeleteStep, CreateGet, CreateAgain, Make, FitClone, MakeTask,
          Undo, ensureISCSIChain, ensureTarget, ensureNVMeOFChain, ExpandInfo, ExpandUpdate,
          PublishGet, PublishInfo, PublishProbe, DeleteGet, DeleteSnapshots, DeleteInfo,
          DeleteDrop, DeleteDataset
    <2>3. CASE Linked BY <2>1, <2>3 DEF Linked
    <2>4. CASE ~Linked
      BY <1>0, <2>2, <2>4, MoveFacts DEF GcQuery, GcDrop, HostUser
    <2> QED BY <2>3, <2>4
  <1> QED BY <1>1, <1>2, <1>3 DEF HostUser

-----------------------------------------------------------------------------
(***************************************************************************)
(* All volumes                                                             *)
(***************************************************************************)

LEMMA HandlerQuiet ==
    ASSUME VolumesInv, UnfailedInv, Next, faults' = 0, NEW v \in Volumes,
           CreateStep(v) \/ UseStep(v) \/ DeleteStep(v)
    PROVE  UnfailedInv'
  <1>1. /\ TypeOK /\ VolumeInv(v) /\ Quiet(v) /\ \A w \in Volumes : Unfailed(w)
        /\ host => \E w \in Volumes : HostUser(w)
    BY QuietStep DEF VolumesInv, UnfailedInv, Quiet
  <1>2. ASSUME NEW w \in Volumes PROVE Unfailed(w)'
    <2>1. CASE w = v BY <1>1, <2>1, HandlerUnfailed
    <2>2. CASE w # v BY <1>1, <2>2, FrameStep, UnfailedKept
    <2> QED BY <2>1, <2>2
  <1>3. ASSUME NEW w \in Volumes, w # v, HostUser(w) PROVE HostUser(w)'
    BY <1>1, <1>3, FrameStep DEF HostUser
  <1>4. ASSUME host' PROVE \E w \in Volumes : HostUser(w)'
    <2>1. CASE ~host BY <1>1, <1>4, <2>1, HostMade
    <2>2. CASE host
      <3>1. PICK u \in Volumes : HostUser(u) BY <1>1, <2>2
      <3>2. CASE u # v BY <1>3, <3>1, <3>2
      <3>3. CASE u = v
        <4>1. HostUser(v)' \/ \E w \in Volumes : w # v /\ "hostLink" \in has[w]
          BY <1>1, <1>4, <2>2, <3>1, <3>3, HostHandedOn
        <4>2. \A w \in Volumes : "hostLink" \in has[w] => HostUser(w)
          BY <1>1, LinkedClass DEF HostUser
        <4> QED BY <1>3, <4>1, <4>2
      <3> QED BY <3>2, <3>3
    <2> QED BY <2>1, <2>2
  <1> QED BY <1>2, <1>4 DEF UnfailedInv

LEMMA OtherQuiet ==
    ASSUME VolumesInv, UnfailedInv, Next, faults' = 0,
           \/ \E v \in Volumes : CreateVolume(v) \/ Unwant(v)
                                   \/ DeleteVolume(v) \/ Expire(v)
                                   \/ ControllerExpandVolume(v)
                                   \/ ControllerPublishVolume(v)
                                   \/ ControllerUnpublishVolume(v)
           \/ Crash
    PROVE  UnfailedInv'
  <1>1. faults = 0 /\ ~Fault
    BY FaultsGrow DEF VolumesInv, TypeOK, Fault
  <1>2. PICK v \in Volumes : \/ CreateVolume(v) \/ Unwant(v) \/ DeleteVolume(v)
                             \/ ControllerExpandVolume(v) \/ ControllerPublishVolume(v)
                             \/ ControllerUnpublishVolume(v)
    BY <1>1 DEF Expire, Crash
  <1>3. ASSUME NEW w \in Volumes
        PROVE  /\ Unfailed(w)' /\ UNCHANGED storeVars
               /\ pc[w] # "idle" => pc'[w] = pc[w] /\ at'[w] = at[w]
    BY <1>1, <1>2, COUnfailed DEF UnfailedInv
  <1>4. ASSUME host' PROVE \E w \in Volumes : HostUser(w)'
    <2>1. UNCHANGED <<has, host>> BY <1>2, <1>3 DEF storeVars
    <2>2. PICK u \in Volumes : HostUser(u) BY <1>1, <1>4, <2>1 DEF UnfailedInv
    <2>3. HostUser(u)' BY <1>3, <2>1, <2>2 DEF HostUser
    <2> QED BY <2>3
  <1> QED BY <1>3, <1>4 DEF UnfailedInv

(***************************************************************************)
(* Theorems                                                                *)
(***************************************************************************)

\* The invariant holds in every behaviour: whatever fails, is lost or
\* crashes, a handler of controller.go finds what it relies on, and until a
\* first call fails every volume is whole, gone, or where its handler says.
THEOREM ProvisioningInvariant == Spec => []ProvisioningInv
  <1>1. Init => UnfailedInv
    BY DEF Init, UnfailedInv, Unfailed, EnsurePCs, ISCSIPCs, NVMeOFPCs, WholePCs, UsePCs
  <1>2. VolumesInv /\ UnfailedInv /\ [Next]_vars => UnfailedInv'
    <2> SUFFICES ASSUME VolumesInv, UnfailedInv, [Next]_vars PROVE UnfailedInv'
      OBVIOUS
    <2>1. CASE Next /\ faults' = 0
      BY <2>1, HandlerQuiet, OtherQuiet DEF Next
    <2>2. CASE faults' # 0 BY <2>2 DEF UnfailedInv
    <2>3. CASE UNCHANGED vars
      BY <2>3
      DEF vars, storeVars, reqVars, coVars, UnfailedInv, Unfailed, HostUser
    <2> QED BY <2>1, <2>2, <2>3
  <1> QED BY <1>1, <1>2, VolumesInvariant, PTL DEF Spec, ProvisioningInv

\* As long as no call fails DeleteVolume leaves nothing behind of a volume of
\* any class but the CHAP and initiator groups of a CHAP volume, and the last
\* of the volumes that share an NVMe-oF host takes the host with it, however
\* their creations and deletions interleave.
THEOREM NothingLeftAlways == Spec => []NothingLeft
  <1>1. ProvisioningInv => NothingLeft
    <2> SUFFICES ASSUME VolumesInv, UnfailedInv, faults = 0 PROVE NothingLeft
      BY DEF ProvisioningInv, NothingLeft
    <2>1. \A v \in Volumes : acked[v] = "deleted" => has[v] = {} /\ pc[v] = "idle"
      BY DEF UnfailedInv, Unfailed
    <2>2. \A v \in Volumes : Class[v] # "chap" => \A k \in Unnamed : spare[v][k] = 0
      BY DEF VolumesInv, Nested
    <2> QED BY <2>1, <2>2 DEF UnfailedInv, HostUser, NothingLeft
  <1> QED BY <1>1, ProvisioningInvariant, PTL

\* It takes a failed call, a lost answer, a deadline or a crash for CreateVolume
\* to acknowledge a volume whose chain is not complete.
THEOREM CompleteUntilFault == Spec => [](faults = 0 => ChainComplete)
  <1>1. ProvisioningInv => (faults = 0 => ChainComplete)
    <2> SUFFICES ASSUME VolumesInv, UnfailedInv, faults = 0, NEW v \in Volumes, InUse(v)
                 PROVE  Required(v) \subseteq has[v]
      BY DEF ProvisioningInv, ChainComplete
    <2>1. VolumeInv(v) /\ Unfailed(v) /\ pc[v] \in PCs
      BY DEF VolumesInv, UnfailedInv, TypeOK, TypeReq
    <2>2. "dataset" \in has[v] BY <2>1 DEF VolumeInv, Vouched
    <2>3. pc[v] \notin DeletePCs /\ pc[v] \notin {"undo", "fit", "task"}
      BY <2>1 DEF VolumeInv, OwnPhase, Building, InUse
    <2>4. pc[v] # "make"
      <3> SUFFICES ASSUME pc[v] = "make" PROVE FALSE OBVIOUS
      <3>1. at[v] \in 1..Len(Chain(v)) /\ ~(at[v] > 1)
        BY <2>1 DEF VolumeInv, Building, InUse
      <3>2. at[v] - 1 = 0 BY <3>1, ChainFacts
      <3>3. has[v] = Upto(v, 0) BY <2>1, <3>2 DEF Unfailed
      <3> QED BY <2>2, <3>3, UptoFacts
    <2>5. pc[v] \in {"idle", "cGet", "cAgain"} \/ pc[v] \in WholePCs
      BY <2>1, <2>3, <2>4 DEF PCs, CreatePCs, WholePCs, Unfailed
    <2>6. has[v] = Whole(v) BY <2>1, <2>2, <2>5 DEF Unfailed
    <2> QED BY <2>6, WholeIs
  <1> QED BY <1>1, ProvisioningInvariant, PTL
=============================================================================
