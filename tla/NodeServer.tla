----------------------------- MODULE NodeServer -----------------------------
(***************************************************************************)
(* The node server (pkg/driver/node.go, node_discovery.go and the protocol *)
(* handlers iscsi.go, nvmeof.go, nfs.go): the requests of one volume on    *)
(* one node.  Everything the server knows of a volume it reads back from   *)
(* the mount table, sysfs and the iSCSI node database; its only state is a *)
(* lock per volume, so volumes do not interact.                            *)
(*                                                                         *)
(* A step is one command, mount-table read or system call.  Steps fail,    *)
(* the plugin restarts between two of them, and the node reboots.  A       *)
(* request that finds the lock taken is answered Aborted and changes       *)
(* nothing.                                                                *)
(***************************************************************************)
EXTENDS Naturals

CONSTANTS
    Protocols,  \* the protocols the volume may have
    Workers,    \* gRPC handlers that run at the same time
    Targets,    \* publish target paths
    None,
    MaxSize,    \* bound: how often the ZVOL can grow
    MaxFaults   \* bound: failed steps, restarts and reboots

ASSUME NodeAssumption ==
    /\ Protocols \subseteq {"nfs", "iscsi", "nvmeof"}
    /\ None \notin Workers /\ None \notin Targets
    /\ MaxSize \in Nat \ {0} /\ MaxFaults \in Nat

VARIABLES
    protocol,   \* the volume's protocol, which never changes
    \* the node
    session,    \* "none", "half" (an NVMe controller without device), "live"
    severed,    \* the kernel removed the session by itself
    record,     \* the target's entry in the iSCSI node database
    staged,     \* the forms in which the volume is mounted at staging paths
    pub,        \* the targets it is mounted at
    late,       \* targets an abandoned NFS mount is still working on
    \* sizes of the ZVOL, of the device as the node sees it, and of the file
    \* system on it (0: none)
    zvol, dev, fsSize,
    \* the server
    lock, pc, arg,
    \* the container orchestrator: whether it wants the volume here, the last
    \* answer to Stage or Unstage that still holds for it, the targets it may
    \* have published and the capacity NodeExpandVolume answered
    want, told, bound, promised,
    faults

node   == <<protocol, session, severed, record, staged, pub, late>>
sizes  == <<zvol, dev, fsSize>>
server == <<lock, pc, arg>>
co     == <<want, told, bound, promised>>
vars   == <<node, sizes, server, co, faults>>

Forms  == {"fs", "block"}
NoArg  == [form |-> "fs", target |-> None, cap |-> 0]

StagePCs   == {"sList", "connect", "wait", "undo", "mount", "resize"}
UnstagePCs == {"uFind", "refs", "unmount", "logout", "forget", "verify"}
OtherPCs   == {"pCheck", "bind", "nfsWait", "unpub", "eLock", "eFind", "rescan", "grow"}

Init ==
    /\ protocol \in Protocols
    /\ session = "none" /\ severed = FALSE /\ record = FALSE
    /\ staged = {} /\ pub = {} /\ late = {}
    /\ zvol = 1 /\ dev = 0 /\ fsSize = 0
    /\ lock = None
    /\ pc = [w \in Workers |-> "idle"]
    /\ arg = [w \in Workers |-> NoArg]
    /\ want = "use" /\ told = "none" /\ bound = {} /\ promised = 0
    /\ faults = 0

-----------------------------------------------------------------------------
(***************************************************************************)
(* Requests                                                                *)
(***************************************************************************)

Works == UNCHANGED faults
Fault == faults < MaxFaults /\ faults' = faults + 1

\* MUTANT of TryAcquireLock: the volume is not locked.
TryAcquireNoLock(w) == lock' = w

TryAcquireLock(w) == lock = None /\ lock' = w

Begin(w, p, a) ==
    /\ pc[w] = "idle"
    /\ TryAcquireLock(w)
    /\ pc' = [pc EXCEPT ![w] = p]
    /\ arg' = [arg EXCEPT ![w] = a]
    /\ UNCHANGED <<node, sizes, faults>>

Goto(w, p) ==
    /\ pc' = [pc EXCEPT ![w] = p]
    /\ UNCHANGED <<lock, arg>>

\* The handler returns, and with it its deferred ReleaseLock.
Return(w) ==
    /\ lock' = None
    /\ pc' = [pc EXCEPT ![w] = "idle"]
    /\ arg' = [arg EXCEPT ![w] = NoArg]

\* An error, or an answer of which the orchestrator keeps no account.
Fail(w)  == Return(w) /\ UNCHANGED co
Reply(w) == Return(w) /\ UNCHANGED co

-----------------------------------------------------------------------------
(***************************************************************************)
(* NodeStageVolume                                                         *)
(***************************************************************************)

NodeStageVolume(w) ==
    /\ want = "use"
    /\ \E f \in Forms : Begin(w, "sList", [NoArg EXCEPT !.form = f])
    /\ told' = IF told = "unstaged" THEN "none" ELSE told
    /\ UNCHANGED <<want, bound, promised>>

Staged(w) == Return(w) /\ told' = "staged" /\ UNCHANGED <<want, bound, promised>>

\* What is mounted can be traced to the volume's live session.
discoverMountedVolume == session = "live"

\* MUTANT of StageList: only the requested form is looked for.
StageListOneForm(w) ==
    LET f == arg[w].form
    IN  /\ pc[w] = "sList"
        /\ \/ Works /\ f \notin staged /\ protocol # "nfs" /\ Goto(w, "connect") /\ UNCHANGED co
           \/ Works /\ protocol = "nfs" /\ f = "fs" /\ Staged(w)
           \/ Works /\ f \in staged /\ discoverMountedVolume /\ Staged(w)
           \/ Fault /\ Fail(w)
        /\ UNCHANGED <<node, sizes>>

\* The mount table decides: staged already, staged in the other form, or not
\* staged.  Staging an NFS volume does nothing.
StageList(w) ==
    LET f == arg[w].form
    IN  /\ pc[w] = "sList"
        /\ \/ Works /\ staged = {} /\ protocol # "nfs" /\ Goto(w, "connect") /\ UNCHANGED co
           \/ Works /\ staged = {} /\ protocol = "nfs" /\ f = "fs" /\ Staged(w)
           \/ Works /\ staged = {} /\ protocol = "nfs" /\ f = "block" /\ Fail(w)
           \/ Works /\ staged = {f} /\ discoverMountedVolume /\ Staged(w)
           \/ Works /\ staged # {} /\ ~(staged = {f} /\ discoverMountedVolume) /\ Fail(w)
           \/ Fault /\ Fail(w)
        /\ UNCHANGED <<node, sizes>>

\* A session comes up, and the device has the size the ZVOL has now.
Attach ==
    /\ session' = "live" /\ severed' = FALSE
    /\ dev' = IF session = "live" THEN dev ELSE zvol

\* iscsilib.Connect: node record, login, device; it may fail behind any of
\* them.  What it does to the record then is left open, except that iscsiadm
\* does not remove the record of a target that has a session.
ISCSIConnect(w) ==
    /\ pc[w] = "connect" /\ protocol = "iscsi"
    /\ \/ Works /\ Attach /\ record' = TRUE /\ Goto(w, "mount") /\ UNCHANGED co
       \/ Fault /\ Attach /\ record' = TRUE /\ Fail(w)
       \/ /\ Fault /\ record' \in BOOLEAN /\ (session = "live" => record') /\ Fail(w)
          /\ UNCHANGED <<session, severed, dev>>
    /\ UNCHANGED <<protocol, staged, pub, late, zvol, fsSize>>

\* connectAndDiscover: a device that is there is used; otherwise connect.
\* When that reports an error the device may yet appear.
nvmeConnect(w) ==
    /\ pc[w] = "connect" /\ protocol = "nvmeof"
    /\ \/ Works /\ session = "live" /\ Goto(w, "mount") /\ UNCHANGED <<session, severed, dev, co>>
       \/ Works /\ session = "none" /\ session' = "half" /\ Goto(w, "wait") /\ UNCHANGED <<severed, dev, co>>
       \/ Works /\ session = "half" /\ Attach /\ Goto(w, "mount") /\ UNCHANGED co
       \/ Fault /\ session # "live" /\ Attach /\ Goto(w, "mount") /\ UNCHANGED co
       \/ /\ Fault /\ session # "live" /\ session' \in {session, "half"} /\ Fail(w)
          /\ UNCHANGED <<severed, dev>>
    /\ UNCHANGED <<protocol, record, staged, pub, late, zvol, fsSize>>

\* MUTANT of waitForDevice: nothing ends the wait but the device.
waitForDeviceForever(w) ==
    /\ pc[w] = "wait"
    /\ \/ Works /\ session = "half" /\ Attach /\ Goto(w, "mount")
       \/ Fault /\ Goto(w, "undo") /\ UNCHANGED <<session, severed, dev>>
    /\ UNCHANGED <<protocol, record, staged, pub, late, zvol, fsSize, co>>

\* The device is looked for until it is there or the attempts are used up,
\* which they are without it when the kernel gave the controller up.
waitForDevice(w) ==
    /\ pc[w] = "wait"
    /\ \/ Works /\ session = "half" /\ Attach /\ Goto(w, "mount")
       \/ /\ Fault \/ (Works /\ session = "none")
          /\ Goto(w, "undo") /\ UNCHANGED <<session, severed, dev>>
    /\ UNCHANGED <<protocol, record, staged, pub, late, zvol, fsSize, co>>

\* "Roll back the half-open connection": its outcome is ignored.
nvmeRollback(w) ==
    /\ pc[w] = "undo"
    /\ (Works /\ session' = "none") \/ (Fault /\ UNCHANGED session)
    /\ Fail(w)
    /\ UNCHANGED <<protocol, severed, record, staged, pub, late, sizes>>

\* stageBlockDevice, or FormatAndMount, which formats a blank device first.
StageMount(w) ==
    LET f == arg[w].form
        formatted == IF f = "fs" /\ fsSize = 0 THEN dev ELSE fsSize
    IN  /\ pc[w] = "mount"
        /\ \/ /\ Works /\ session = "live"
              /\ staged' = staged \cup {f} /\ fsSize' = formatted
              /\ IF f = "fs" THEN Goto(w, "resize") /\ UNCHANGED co ELSE Staged(w)
           \/ /\ Fault /\ session = "live"
              /\ fsSize' \in {fsSize, formatted} /\ Fail(w) /\ UNCHANGED staged
           \/ Works /\ session # "live" /\ Fail(w) /\ UNCHANGED <<staged, fsSize>>
        /\ UNCHANGED <<protocol, session, severed, record, pub, late, zvol, dev>>

\* NeedResize and Resize; when the former fails nothing is resized.
StageResize(w) ==
    /\ pc[w] = "resize"
    /\ \/ Works /\ session = "live" /\ fsSize' = dev /\ Staged(w)
       \/ /\ Fault \/ (Works /\ session # "live")
          /\ UNCHANGED fsSize /\ (Staged(w) \/ Fail(w))
    /\ UNCHANGED <<node, zvol, dev>>

-----------------------------------------------------------------------------
(***************************************************************************)
(* NodeUnstageVolume                                                       *)
(***************************************************************************)

NodeUnstageVolume(w) ==
    /\ want = "release" => bound = {} /\ told # "unstaged"
    /\ Begin(w, "uFind", NoArg)
    /\ told' = IF told = "staged" THEN "none" ELSE told
    /\ UNCHANGED <<want, bound, promised>>

\* MUTANT of discoverDetachedVolume: a node record alone is no evidence.
discoverSessionOnly == session # "none"

\* Something is left of a volume without staging mount, found by its name.
discoverDetachedVolume == session # "none" \/ record

\* MUTANT of UnstageFind: a volume that is not there cannot be unstaged.
UnstageFindStrict(w) ==
    LET traced == staged # Forms /\ discoverMountedVolume
    IN  /\ pc[w] = "uFind"
        /\ \/ Works /\ staged # {} /\ traced /\ Goto(w, "refs") /\ UNCHANGED co
           \/ Works /\ staged # {} /\ ~traced /\ Fail(w)
           \/ Works /\ staged = {} /\ discoverDetachedVolume /\ Goto(w, "logout") /\ UNCHANGED co
           \/ Works /\ staged = {} /\ ~discoverDetachedVolume /\ Fail(w)
           \/ Fault /\ Fail(w)
        /\ UNCHANGED <<node, sizes>>

\* discoverUnstageState
UnstageFind(w) ==
    LET mounted == staged # {}
        traced  == staged # Forms /\ discoverMountedVolume
    IN  /\ pc[w] = "uFind"
        /\ \/ Works /\ mounted /\ traced /\ Goto(w, "refs") /\ UNCHANGED co
           \/ Works /\ mounted /\ ~traced /\ Fail(w)
           \/ Works /\ ~mounted /\ discoverDetachedVolume /\ Goto(w, "logout") /\ UNCHANGED co
           \/ Works /\ ~mounted /\ ~discoverDetachedVolume /\ Goto(w, "verify") /\ UNCHANGED co
           \/ Fault /\ Fail(w)
        /\ UNCHANGED <<node, sizes>>

\* MUTANT of UnstageRefs: publications are not looked for.
UnstageRefsUnchecked(w) ==
    /\ pc[w] = "refs"
    /\ (Works /\ Goto(w, "unmount") /\ UNCHANGED co) \/ (Fault /\ Fail(w))
    /\ UNCHANGED <<node, sizes>>

\* GetMountRefs: a published volume is not unstaged.
UnstageRefs(w) ==
    /\ pc[w] = "refs"
    /\ \/ Works /\ pub = {} /\ Goto(w, "unmount") /\ UNCHANGED co
       \/ Works /\ pub # {} /\ Fail(w)
       \/ Fault /\ Fail(w)
    /\ UNCHANGED <<node, sizes>>

\* MUTANT of UnstageUnmount: the session is closed although the unmount failed.
UnstageUnmountIgnored(w) ==
    /\ pc[w] = "unmount"
    /\ (Works /\ staged' = {}) \/ (Fault /\ UNCHANGED staged)
    /\ Goto(w, "logout")
    /\ UNCHANGED <<protocol, session, severed, record, pub, late, sizes, co>>

\* Unmount, and the look at the mount table that confirms it.
UnstageUnmount(w) ==
    /\ pc[w] = "unmount"
    /\ \/ Works /\ staged' = {} /\ Goto(w, "logout") /\ UNCHANGED co
       \/ Fault /\ staged' \in {staged, {}} /\ Fail(w)
    /\ UNCHANGED <<protocol, session, severed, record, pub, late, sizes>>

\* Log out of the portals found, or disconnect the subsystem; a target found
\* by its node record has no portals.  A session has its node record (NodeShape),
\* without which iscsiadm would not log out.  For NVMe-oF the check follows.
UnstageLogout(w) ==
    /\ pc[w] = "logout"
    /\ \/ /\ Works /\ session' = "none" /\ UNCHANGED co
          /\ Goto(w, IF protocol = "iscsi" THEN "forget" ELSE "verify")
       \/ Fault /\ session' \in {session, "none"} /\ Fail(w)
    /\ UNCHANGED <<protocol, severed, record, staged, pub, late, sizes>>

\* DeleteDBEntry, and the checks that neither session nor record is left.
UnstageForget(w) ==
    /\ pc[w] = "forget"
    /\ \/ /\ Works /\ record' = FALSE
          /\ IF session = "none" THEN Goto(w, "verify") /\ UNCHANGED co ELSE Fail(w)
       \/ Fault /\ (record' = FALSE \/ UNCHANGED record) /\ Fail(w)
    /\ UNCHANGED <<protocol, session, severed, staged, pub, late, sizes>>

\* Remove the directories, and look at the mount table once more.
UnstageVerify(w) ==
    /\ pc[w] = "verify"
    /\ \/ /\ Works /\ Return(w)
          /\ told' = IF staged = {} THEN "unstaged" ELSE told
          /\ UNCHANGED <<want, bound, promised>>
       \/ Fault /\ Fail(w)
    /\ UNCHANGED <<node, sizes>>

-----------------------------------------------------------------------------
(***************************************************************************)
(* NodePublishVolume and NodeUnpublishVolume                               *)
(***************************************************************************)

NodePublishVolume(w) ==
    /\ want = "use"
    /\ \E f \in Forms, t \in Targets :
         /\ Begin(w, "pCheck", [form |-> f, target |-> t, cap |-> 0])
         /\ bound' = bound \cup {t}
    /\ UNCHANGED <<want, told, promised>>

\* A target that is mounted already must be this volume's, and published
\* from the staging path of the requested form.
PublishCheck(w) ==
    LET t == arg[w].target
        same == protocol = "nfs" \/ (discoverMountedVolume /\ arg[w].form \in staged)
    IN  /\ pc[w] = "pCheck"
        /\ \/ Works /\ t \notin pub /\ Goto(w, IF protocol = "nfs" THEN "nfsWait" ELSE "bind") /\ UNCHANGED co
           \/ Works /\ t \in pub /\ same /\ Reply(w)
           \/ Works /\ t \in pub /\ ~same /\ Fail(w)
           \/ Fault /\ Fail(w)
        /\ UNCHANGED <<node, sizes>>

\* Bind mount from the staging path, which must be mounted; a read-only mount
\* is remounted, which may fail.
PublishBind(w) ==
    LET t == arg[w].target
    IN  /\ pc[w] = "bind"
        /\ \/ Works /\ arg[w].form \in staged /\ pub' = pub \cup {t}
           \/ Works /\ arg[w].form \notin staged /\ UNCHANGED pub
           \/ Fault /\ arg[w].form \in staged /\ pub' \in {pub, pub \cup {t}}
           \/ Fault /\ arg[w].form \notin staged /\ UNCHANGED pub
        /\ Reply(w)
        /\ UNCHANGED <<protocol, session, severed, record, staged, late, sizes>>

\* mountWithTimeout waits for the goroutine that mounts; a select that finds
\* both the mount done and the context over takes either.
PublishNFS(w) ==
    LET t == arg[w].target
    IN  /\ pc[w] = "nfsWait"
        /\ \/ Works /\ pub' = pub \cup {t} /\ UNCHANGED late
           \/ Fault /\ pub' \in {pub, pub \cup {t}} /\ UNCHANGED late
           \/ Fault /\ late' = late \cup {t} /\ UNCHANGED pub
        /\ Reply(w)
        /\ UNCHANGED <<protocol, session, severed, record, staged, sizes>>

\* The goroutine of a request that timed out ends.
LateMount(t) ==
    /\ t \in late /\ late' = late \ {t}
    /\ pub' \in {pub, pub \cup {t}}
    /\ UNCHANGED <<protocol, session, severed, record, staged, sizes, server, co, faults>>

NodeUnpublishVolume(w) ==
    /\ \E t \in Targets :
         /\ want = "release" => t \in bound
         /\ Begin(w, "unpub", [NoArg EXCEPT !.target = t])
    /\ UNCHANGED co

\* CleanupMountPoint
Unpublish(w) ==
    LET t == arg[w].target
    IN  /\ pc[w] = "unpub"
        /\ Return(w)
        /\ \/ /\ Works /\ pub' = pub \ {t}
              /\ bound' = bound \ {t} /\ UNCHANGED <<want, told, promised>>
           \/ Fault /\ pub' \in {pub, pub \ {t}} /\ UNCHANGED co
        /\ UNCHANGED <<protocol, session, severed, record, staged, late, sizes>>

-----------------------------------------------------------------------------
(***************************************************************************)
(* NodeExpandVolume, after the controller has grown the ZVOL               *)
(***************************************************************************)

Grow ==
    /\ zvol < MaxSize /\ zvol' = zvol + 1
    /\ UNCHANGED <<node, dev, fsSize, server, co, faults>>

\* The volume path is looked at before the lock is taken.
NodeExpandVolume(w) ==
    /\ want = "use" /\ pc[w] = "idle"
    /\ \E t \in pub : arg' = [arg EXCEPT ![w] = [form |-> "fs", target |-> t, cap |-> zvol]]
    /\ pc' = [pc EXCEPT ![w] = "eLock"]
    /\ UNCHANGED <<node, sizes, lock, co, faults>>

ExpandLock(w) ==
    /\ pc[w] = "eLock"
    /\ \/ TryAcquireLock(w) /\ pc' = [pc EXCEPT ![w] = "eFind"] /\ UNCHANGED arg
       \/ /\ lock # None /\ UNCHANGED lock
          /\ pc' = [pc EXCEPT ![w] = "idle"] /\ arg' = [arg EXCEPT ![w] = NoArg]
    /\ UNCHANGED <<node, sizes, co, faults>>

\* discoverExpandState; NFS volumes grow on the server.
ExpandFind(w) ==
    /\ pc[w] = "eFind"
    /\ \/ Works /\ protocol = "nfs" /\ Reply(w)
       \/ Works /\ protocol # "nfs" /\ staged # {} /\ discoverMountedVolume /\ Goto(w, "rescan") /\ UNCHANGED co
       \/ Works /\ protocol # "nfs" /\ ~(staged # {} /\ discoverMountedVolume) /\ Fail(w)
       \/ Fault /\ Fail(w)
    /\ UNCHANGED <<node, sizes>>

\* The volume path is a device; when it has been unpublished meanwhile there
\* is nothing at it, and the volume is taken for a file system.
isBlockVolumeExpansion(w) == arg[w].target \in pub /\ "block" \in staged

Rescanned(w) ==
    \/ isBlockVolumeExpansion(w) /\ Reply(w)
    \/ ~isBlockVolumeExpansion(w) /\ Goto(w, "grow") /\ UNCHANGED co

\* MUTANT of ExpandRescan: the device keeps its size.
ExpandNoRescan(w) ==
    /\ pc[w] = "rescan" /\ Works /\ Rescanned(w)
    /\ UNCHANGED <<node, sizes>>

\* The device is rescanned, which is all a raw block volume needs.  The kernel
\* is assumed to have taken the new size when the command returns, although
\* nvme ns-rescan only asks it to scan.
ExpandRescan(w) ==
    /\ pc[w] = "rescan"
    /\ \/ Works /\ dev' = zvol /\ Rescanned(w)
       \/ Fault /\ dev' \in {dev, zvol} /\ Fail(w)
    /\ UNCHANGED <<node, zvol, fsSize>>

\* Resize, which does nothing to a device without file system.
ExpandResize(w) ==
    /\ pc[w] = "grow"
    /\ \/ /\ Works /\ session = "live" /\ Return(w)
          /\ fsSize' = IF "block" \in staged /\ fsSize = 0 THEN 0 ELSE dev
          /\ promised' = IF "block" \in staged THEN promised ELSE arg[w].cap
          /\ UNCHANGED <<want, told, bound>>
       \/ (Fault \/ (Works /\ session # "live")) /\ Fail(w) /\ UNCHANGED fsSize
    /\ UNCHANGED <<node, zvol, dev>>

-----------------------------------------------------------------------------
(***************************************************************************)
(* The environment                                                         *)
(***************************************************************************)

\* The orchestrator moves the volume away: from now on it unpublishes and
\* unstages, and retries until it is answered.
Release ==
    /\ want = "use" /\ want' = "release"
    /\ UNCHANGED <<node, sizes, server, told, bound, promised, faults>>

\* The kernel gives up an NVMe controller after ctrl-loss-tmo.
Sever ==
    /\ Fault /\ protocol = "nvmeof" /\ session # "none"
    /\ session' = "none" /\ severed' = TRUE
    /\ UNCHANGED <<protocol, record, staged, pub, late, sizes, server, co>>

NoRequests ==
    /\ lock' = None
    /\ pc' = [w \in Workers |-> "idle"]
    /\ arg' = [w \in Workers |-> NoArg]

\* The plugin restarts; the node keeps its sessions and mounts.
Restart ==
    /\ Fault /\ NoRequests /\ late' = {}
    /\ UNCHANGED <<protocol, session, severed, record, staged, pub, sizes, co>>

\* Only the iSCSI node database survives a reboot.
Reboot ==
    /\ Fault /\ NoRequests
    /\ session' = "none" /\ severed' = FALSE
    /\ staged' = {} /\ pub' = {} /\ late' = {}
    /\ told' = IF told = "staged" THEN "none" ELSE told
    /\ UNCHANGED <<protocol, record, sizes, want, bound, promised>>

Step(w) ==
    \/ StageList(w) \/ ISCSIConnect(w) \/ nvmeConnect(w) \/ waitForDevice(w)
    \/ nvmeRollback(w) \/ StageMount(w) \/ StageResize(w)
    \/ UnstageFind(w) \/ UnstageRefs(w) \/ UnstageUnmount(w)
    \/ UnstageLogout(w) \/ UnstageForget(w) \/ UnstageVerify(w)
    \/ PublishCheck(w) \/ PublishBind(w) \/ PublishNFS(w) \/ Unpublish(w)
    \/ ExpandLock(w) \/ ExpandFind(w) \/ ExpandRescan(w) \/ ExpandResize(w)

Request(w) ==
    \/ NodeStageVolume(w) \/ NodeUnstageVolume(w) \/ NodePublishVolume(w)
    \/ NodeUnpublishVolume(w) \/ NodeExpandVolume(w)

Next ==
    \/ \E w \in Workers : Request(w) \/ Step(w)
    \/ \E t \in Targets : LateMount(t)
    \/ Grow \/ Release \/ Sever \/ Restart \/ Reboot

Spec == Init /\ [][Next]_vars

\* Handlers run on, and an orchestrator that wants the volume gone retries.
Fairness ==
    /\ \A w \in Workers : WF_vars(Step(w))
    /\ WF_vars(want = "release" /\ \E w \in Workers : NodeUnpublishVolume(w) \/ NodeUnstageVolume(w))

FairSpec == Spec /\ Fairness

-----------------------------------------------------------------------------
(***************************************************************************)
(* Properties                                                              *)
(***************************************************************************)

PCs == {"idle"} \cup StagePCs \cup UnstagePCs \cup OtherPCs

\* Every variable has its type.
TypeOK ==
    /\ protocol \in Protocols
    /\ session \in {"none", "half", "live"}
    /\ severed \in BOOLEAN /\ record \in BOOLEAN
    /\ staged \in SUBSET Forms /\ pub \in SUBSET Targets /\ late \in SUBSET Targets
    /\ zvol \in 1..MaxSize /\ dev \in 0..MaxSize /\ fsSize \in 0..MaxSize
    /\ lock \in Workers \cup {None}
    /\ pc \in [Workers -> PCs]
    /\ arg \in [Workers -> [form : Forms, target : Targets \cup {None}, cap : 0..MaxSize]]
    /\ want \in {"use", "release"} /\ told \in {"none", "staged", "unstaged"}
    /\ bound \in SUBSET Targets /\ promised \in 0..MaxSize
    /\ faults \in 0..MaxFaults

Lifecycle == INSTANCE NodeLifecycle WITH
    attached <- session = "live",
    staged <- staged # {},
    published <- IF protocol = "nfs" THEN {} ELSE pub

\* Sessions, staging mounts and publications of a block volume are put up and
\* taken down in order: whatever requests overlap, fail or are cut off, no
\* session is closed under a mount and no staging mount under a publication.
LayersInOrder == Lifecycle!Spec

\* What NodeStageVolume said is staged stays staged, and an iSCSI session
\* stays with it, until NodeUnstageVolume is called or the node reboots.
StagedKept ==
    told = "staged" /\ protocol # "nfs" =>
      staged # {} /\ (protocol = "iscsi" => session = "live")

\* After a successful NodeUnstageVolume nothing of the volume is left on the
\* node, the leavings of stagings that failed or were cut off included.
CleanAfterUnstage ==
    told = "unstaged" => session = "none" /\ ~record /\ staged = {}

\* No file system is ever made on a device that is staged raw, whatever form
\* a request asks for.
RawNotFormatted ==
    [][fsSize = 0 /\ fsSize' # 0 => "block" \notin staged \cup staged']_vars

\* A file system is as large as NodeExpandVolume said.
ExpandedFull == promised <= fsSize

\* A volume that is no longer wanted gets unstaged, unless the kernel gave its
\* NVMe controller up under the staging mount.
UnstageConverges == want = "release" ~> told = "unstaged" \/ (severed /\ staged # {})

\* Every request comes to an end and with it its lock on the volume, also one
\* that waits for the device of a controller the kernel has given up.
RequestsReturn == \A w \in Workers : pc[w] # "idle" ~> pc[w] = "idle"

(***************************************************************************)
(* The inductive invariant behind the theorems of NodeServerProofs         *)
(***************************************************************************)

\* What each kind of volume can have on the node.
NodeShape ==
    /\ staged # Forms
    /\ protocol = "nfs" => staged = {} /\ session = "none" /\ ~record
    /\ protocol = "iscsi" => session # "half" /\ (staged # {} => session = "live")
                            /\ (session = "live" => record)
    /\ protocol = "nvmeof" => ~record
    /\ protocol # "nfs" => late = {} /\ (pub # {} => staged # {})

\* A file system fits its device, and the device its ZVOL.
SizesNested ==
    /\ fsSize <= zvol /\ dev <= zvol /\ promised <= fsSize
    /\ session = "live" => fsSize <= dev

BlockPCs == {"connect", "wait", "undo", "mount", "resize", "refs", "unmount",
             "logout", "forget", "bind", "rescan", "grow"}

\* What a handler relies on between two of its steps.
WorkerInv(w) ==
    /\ pc[w] \notin {"idle", "eLock"} => lock = w
    /\ pc[w] \in BlockPCs => protocol # "nfs"
    /\ pc[w] \in StagePCs => told # "unstaged"
    /\ pc[w] \in UnstagePCs => told # "staged"
    /\ pc[w] \in {"wait", "undo"} => protocol = "nvmeof"
    /\ pc[w] \in {"connect", "wait", "undo", "mount", "logout", "forget", "verify"}
         => staged = {}
    /\ pc[w] = "resize" => staged = {"fs"}
    /\ pc[w] = "unmount" => pub = {}
    /\ pc[w] = "nfsWait" => protocol = "nfs"
    /\ pc[w] = "forget" => protocol = "iscsi" /\ session = "none"
    /\ pc[w] = "verify" => session = "none" /\ ~record
    /\ pc[w] = "rescan" => staged # {}
    /\ pc[w] = "grow" => staged # {} /\ arg[w].cap <= dev
    /\ arg[w].cap <= zvol
    /\ pc[w] \in {"pCheck", "bind", "nfsWait", "unpub"} => arg[w].target \in Targets

\* The invariant that is proved inductive: between two steps of a handler
\* nobody else changes what the volume has on the node.
NodeInv ==
    /\ TypeOK /\ NodeShape /\ SizesNested
    /\ StagedKept /\ CleanAfterUnstage
    /\ \A w \in Workers : WorkerInv(w)

(***************************************************************************)
(* What comments say of the code, and overlapping requests refute          *)
(***************************************************************************)

\* "Stage, Publish, Unpublish, Unstage, and Expand all use the same volume ID
\* so publication cannot race destructive teardown" (node.go:71): a volume is
\* mounted at a target only by a NodePublishVolume that is running.
PublishedUnderLock ==
    [][~(pub' \subseteq pub) => \E w \in Workers : pc[w] \in {"bind", "nfsWait"}]_vars

\* "filesystem tools must not inspect or modify workload-owned block contents"
\* (iscsi.go:435): no file system is resized on a device that is staged raw.
RawUntouched == [][fsSize' # fsSize => "block" \notin staged \cup staged']_vars
=============================================================================
