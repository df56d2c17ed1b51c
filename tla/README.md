# A verification project for ix-csi

ix-csi is a Container Storage Interface (CSI) driver that provisions NFS, iSCSI
and NVMe-oF volumes on a TrueNAS server. This directory holds TLA+ models of
the parts in which its difficulty lies, the TLC configurations that check
them on small instances, and proofs, checked by TLAPS, that the main results
hold for every instance. `PROJECT.json` maps every definition to the source
lines it models and lists runs, mutants, findings, hazards and theorems.

To check a run: `tlc -workers 2 -config <run>.cfg <module>`; to check a proof
module: `tlapm <module>.tla`.

## 1. Inventory

| Component | State it keeps | Operations | Interacts with |
|---|---|---|---|
| WebSocket client, `pkg/client/client.go` | the connection and its done channel, `closed`, `reconnecting`, pending requests, call permits, a status gauge | `Connect`, `dial`, `readLoop`, `pingLoop`, `handleDisconnect`, `reconnectLoop`, `Call`, `Close` | every handler of the controller calls `Call` concurrently; goroutines share the state under `connMu`, atomics and channels |
| API wrappers, `pkg/client/storage.go`, `nvme.go`, `replication.go` | none | one function per TrueNAS method, `WaitForJob` | `Client.Call` |
| Controller: volumes, `controller.go`, `driver.go` | none but the metrics' map of volumes; everything is looked up in TrueNAS | `CreateVolume`, also from a source, `ControllerExpandVolume`, `ControllerPublishVolume`, `DeleteVolume` | several API calls per request, no transaction and no lock; volumes share an NVMe-oF host |
| Controller: snapshots, restores and clones, `controller.go`, `detached.go` | none | `CreateSnapshot`, `DeleteSnapshot`, `createVolumeFromSource`, detached transfers | TrueNAS datasets, ZFS snapshots and their clones, replication jobs that outlive the request |
| Controller: queries | none | lists, capacity, validation | TrueNAS |
| Node server, `node.go`, `node_discovery.go`, `iscsi.go`, `nvmeof.go`, `nfs.go` | one lock per volume; the rest is read from the mount table, sysfs and the iSCSI node database | `NodeStageVolume`, `NodeUnstageVolume`, `NodePublishVolume`, `NodeUnpublishVolume`, `NodeExpandVolume` | iscsiadm, nvme-cli, mount, the kernel |
| Driver process, `cmd/main.go`, `driver.go`, `metrics_server.go` | the servers, the cached portal and port ids | `NewDriver`, `Run`, `Stop`, signal handling in `main` and in `Run`, look-up of portal and port by handlers | gRPC server, metrics server, client, the operating system |
| Metrics, identity, configuration, clean-up tool | counters; configuration | | |

What is hard:

* *Concurrency.* Five kinds of goroutine act on one client. Requests for
  different volumes share NVMe-oF hosts and the NVMe-oF port in TrueNAS;
  requests for copies share ZFS snapshots. Requests for one volume overlap on a
  node. A signal makes two goroutines stop the driver at once.
* *Failure.* A request is a sequence of calls or commands, each of which can
  fail, or be executed without its caller learning so; the process may restart
  between any two. Recovery is by retry: the driver keeps no journal and
  rediscovers what exists.
* *Ordering.* Disconnects are reported by several goroutines and late; answers
  arrive after their caller has given up; an NFS mount or a replication job
  ends after its request.
* *Timeouts.* A rollback runs with the context that has just expired; a
  shutdown that times out closes connections under handlers.

What makes each part correct:

* the client keeps one watched connection and at most one reconnecting
  goroutine, gives every caller its own answer, loses no permit, socket or
  pending entry, and every call with a deadline returns;
* provisioning never takes away or shrinks what it acknowledged, converges
  under retry, and deletes what it created;
* snapshots and copies that were acknowledged outlive the deletion of their
  sources and of each other, are complete, can be deleted in any order, and
  leave no temporary objects;
* the node server puts layers (session, staging mount, publication) up and
  takes them down in order, keeps what it acknowledged, leaves nothing behind
  when it says so, and does not touch raw block contents;
* the process stops when told to, and not under its handlers before the
  shutdown timeout, nor because of its metrics endpoint.

`PROJECT.json` lists the hazards behind these properties, each at its line.

## 2. Modules

| Module | Contents |
|---|---|
| `TrueNASClient` | the client: goroutines as processes |
| `TrueNASClientProofs`, `TrueNASCallProofs` | theorems about its connections and about its calls |
| `Provisioning` | the life of a volume in the controller, and the TrueNAS objects behind it |
| `ProvisioningProofs`, `TeardownProofs` | theorems about it: under faults, and before the first one |
| `SnapshotCatalogue` | abstract specification: what the controller promises of volumes, copies and snapshots |
| `Snapshots` | snapshots, restores, clones, detached transfers and the deletion of all these; implements `SnapshotCatalogue` |
| `SnapshotsProofs` | theorems about it, the implementation among them |
| `NodeLifecycle` | abstract specification: layers of a volume on a node, put up and taken down in order |
| `NodeServer` | the node server's requests for one volume; implements `NodeLifecycle` |
| `NodeServerProofs` | theorems about it, the implementation among them |
| `DriverProcess` | start-up, `Run`, `Stop` and the handlers' look-up of ports |
| `DriverProofs` | theorems about it |
| `MCTrueNASClient`, `MCProvisioning`, `MCSnapshots`, `MCNodeServer`, `MCDriverProcess` | instances for TLC |

The modules meet at these points. `TrueNASClient` justifies how a call ends in
the three modules of the controller: it works, it fails, or it is executed while
its caller is told it failed. `Snapshots` says where the content of a copy comes
from, `Provisioning` what happens to the copy's size and protocol objects and
how a volume is torn down; `FinishCopy` and `DeleteList` are the places where
one continues what the other describes. `DriverProcess` has the handlers of the
controller as `Handle` and the client as open or closed.

### TrueNASClient

A step is the code between two points at which another goroutine can see or
change shared state: a critical section of `connMu`, an atomic, a channel
operation, a read or write of the socket. `conn`, `connDone`, `reconnecting`,
`closed`, `pending`, `permits` are the fields of `Client`. A socket is a number
in the order of installation; its done channel has the same number, and
`doneClosed` and `panicked` record closing. `reader`, `pinger` and `hd` are the
goroutines of a socket and the progress of `handleDisconnect` on it; `dpc` is
the goroutine that runs `Connect` and the reconnect loops; `pc`, `cconn`,
`cid`, `err` are the locals of `Call`. The peer may break a connection, answer
or not answer, answer late, and report an expired login. Contexts expire at any
time, except those made from `context.Background()` (`Unbounded`), which
`GetVolumeInfo` uses. Back-off delays, TLS, JSON and the wording of errors are
left out; errors are told apart only as far as `Call` tells them apart.

### Provisioning

A step is one API call. After the request's deadline every further call of that
request fails, rollbacks included, and the controller may restart between two
calls. `has` are the named objects of a volume in TrueNAS (named after the
volume, so that a second one of a name is refused), `spare` counts the groups
without a name, `size` is the dataset's, `host` the shared NVMe-oF host.
`Chain` gives the objects of each storage class in order of creation; `Make`,
`FitClone`, `MakeTask`, `Undo`, `ensureISCSIChain`, `ensureNVMeOFChain`,
`DropOrder` and the `Delete...` actions follow the code's calls; `Expand...`
and `Publish...` are the two handlers that use a volume. The orchestrator's
side is `want`, `acked`, `promised` (the largest capacity it was told) and
`context` (whether the publish context names what a node needs).

A volume in `Cloned` gets its dataset with the size of its source and is then
resized; what failed on the way decides whether it is rolled back or stays.
`DeleteISCSITarget`, which deletes associations and then the target, is one step
that may also fail between the two. Whether an expansion tells the orchestrator
to expand on the node as well is left out: the node's part is in `NodeServer`.

### Snapshots and SnapshotCatalogue

Objects are volumes that exist from the start (`Origins`), volumes made from a
volume or snapshot (`Copies`) and CSI snapshots (`Snaps`); any copy may be the
source of the next. `ds`, `marked`, `zfs`, `managed`, `deferred` and `origin`
are the datasets, the detached-snapshot markers, the ZFS snapshots with their
properties and what each dataset is a clone of. A ZFS snapshot is named by the
dataset it is on, the kind of name and the object it is named after, so that two
restores of one detached snapshot meet at one temporary snapshot, as they do in
the code. `job` is the replication job that writes a dataset; it goes on when
its request ends. A dataset that is being received, or whose transfer failed,
is `"partial"`.

Every call of `CreateSnapshot`, `DeleteSnapshot`, `createVolumeFromSource`,
`createDetachedSnapshot`, `cloneDetachedSnapshot`, `cloneDetachedVolume`,
`transferDetachedSnapshot` and of the parts of `DeleteVolume` that look at
snapshots is a step. `SnapshotCatalogue` knows none of this: an object comes and
goes through requests for itself only, is there when it is reported created and
gone when it is reported deleted. `KeepsCatalogue` maps its set `live` to what a
CSI object is in TrueNAS (`Live`).

External, modelled from how the code uses it: a replication creates its target
as soon as it starts; a snapshot that is sent, a dataset that is received or
that has a snapshot with clones cannot be destroyed; a deferred deletion of a
snapshot takes effect with its last clone.

### NodeServer and NodeLifecycle

Volumes do not share anything on a node, so the model has one volume and any
number of concurrent requests for it. A step is one command, system call or
read of the mount table. `session` is the iSCSI session or NVMe controller
(`"half"`: a controller whose device has not appeared), `record` the iSCSI
node database entry, `staged` the forms (file system, raw) in which the volume
is mounted at its staging paths, `pub` the targets it is published at, `late`
NFS mounts whose request has timed out. `zvol`, `dev` and `fsSize` are the size
on TrueNAS, the size the node sees and the size of the file system. A request
that finds the lock taken is answered Aborted and changes nothing, so it is no
action; `NodeExpandVolume` looks at its volume path before it takes the lock,
so there the lock is a step of its own. Commands fail before or after having
had their effect, the plugin restarts (sessions and mounts stay), the node
reboots (only the node database stays), and the kernel gives up NVMe
controllers. What a failed `iscsilib.Connect` does to the node record is left
open, except that iscsiadm does not remove the record of a target that has a
session; a session without node record, which iscsiadm could not log out of, is
therefore no state of the model. External too: when a rescan returns the kernel
has taken the new size, although `nvme ns-rescan` only asks it to scan;
`ExpandedFull` rests on that for NVMe-oF.

`NodeLifecycle` knows three layers, `attached`, `staged` and `published`, and
the steps that may change them. `LayersInOrder` maps a live session, a
non-empty `staged` and, for block volumes, `pub` to them.

### DriverProcess

`main`, `run`, `serve` and `stop` are the program counters of `main` (with
`NewDriver`), of `Run`, of the goroutine of `server.Serve`, and of the two
calls of `Stop` that a signal brings about. `sigCh` and `ctxDone` are the signal
as `main` and as `Run` see it, `serverErr` and `errCh` the channels between
them. A handler (`request`) first looks up the portal or port id where it is not
cached (`portID`), creating a missing NVMe-oF port, and then does its work.
External: `GracefulStop` takes no more requests and waits for all handlers,
also in a second call; `Serve` of a stopped server returns an error; TrueNAS
has one port per address. The addresses of portal and port are configured;
without one every request for that protocol is refused before any call.

### Assumptions about the orchestrator and TrueNAS

* One request is in flight per volume or snapshot, as CSI asks of the
  orchestrator. A request that has run out of time still counts: the retry
  comes when its handler has returned. Two requests for one name at the same
  time are not modelled.
* `Protected`: the orchestrator does not ask to delete a volume or snapshot
  while something is being made from it, as the finalizers of Kubernetes see
  to. The code relies on it: `DeleteVolume` looks for dependent snapshots and
  deletes the dataset in two calls, and with `Protected = FALSE` TLC refutes
  `AcknowledgedKept` of `Snapshots` without any fault (the snapshot is taken
  and acknowledged in between).
* A volume that is published is not deleted.
* On a node: the volume path of `NodeExpandVolume` is a target the volume was
  published at when the request came in, and the request names no access type
  (the code says it cannot be relied on); the staging path is in the request.

## 3. Runs

All bounds are constants. They count events that the code repeats without
limit (connections, calls, faults, growth); each is large enough for every
action to fire and for the events a property relates to meet.

| Run | Instance | Shows |
|---|---|---|
| `ClientCalls` | 2 callers, one of them without deadline, 1 permit, 2 calls, 1 connection, Close, fairness | `TypeOK`, `PermitsConserved`, `PendingOwned`, `OwnAnswer`, `CallsReturn`, `DeadPeerNoticed`, `LoopsStopAfterClose` |
| `ClientLifecycle` | 1 caller, 2 connections, 2 loops, 1 reconnect attempt, Close | `ConnDoneClosedOnce`, `OneReconnector`, `ConnectionWatched`, `NoSocketLeak`, `DialReplacesNothing` |
| `ProvisionPair` | a DH-CHAP NVMe-oF volume with a snapshot task and a clone on the same host that is larger than its source, an expansion, 2 faults | `PublishUsable`, `NothingLeft`, `ProvisioningInv` |
| `ProvisionConverge` | a CHAP iSCSI volume with a snapshot task and a cloned NFS volume, 2 capacities and an expansion, 1 fault, fairness | `AcknowledgedKept`, `LargeEnough`, `RetriesConverge`, `DeletesConverge` |
| `SnapshotRequests` | a volume, a snapshot and a copy, regular or detached, 3 faults, fairness | `DeletedGone`, `SnapshotsInv`, `KeepsCatalogue`, `CreatesConverge`, `DeletesConverge` |
| `SnapshotSharing` | a volume, a snapshot and 2 copies, also of each other, 1 fault | `AcknowledgedKept`, `WholeWhenTold`, `NoTempLeft` |
| `NodeRequests` | 3 protocols, 2 workers, 1 target, 2 sizes, 2 faults, fairness | `StagedKept`, `CleanAfterUnstage`, `ExpandedFull`, `NodeInv`, `LayersInOrder`, `RawNotFormatted`, `UnstageConverges`, `RequestsReturn` |
| `DriverLife` | 3 requests, 2 of them for NVMe-oF, 2 faults, fairness | `DriverInv`, `Drained`, `MetricsOptional`, `SignalEnds`, `PortsConverge` |
| `ClientAbandoned` | violation | `AutomaticReconnection` |
| `ProvisionIncomplete` | violation | `ChainComplete` |
| `SnapshotCutOff` | violation | `WaitsForCompletion` |
| `NodeLateMount` | violation | `PublishedUnderLock` |

Why the bounds are enough: the second connection is the one a stale disconnect
of the first could take down; the second caller is the one that waits behind
the permit of the first; two faults are a lost answer followed by a failed
rollback, or a failed command followed by a restart in the retry, and the third
of `SnapshotRequests` lets a clean-up fail after both; two copies share the
temporary snapshot of a detached source, and one of the other is the chain of
clones that has to be deleted in any order; two requests for NVMe-oF race for
the port, the third shares nothing with them; two workers are what it takes for
requests to overlap on a node, and one target is enough because targets are
independent of each other. `ClientCalls` has one connection, so that a call that
lost it waits for another until its deadline. A retry that goes out on a second
connection multiplies the states beyond what can be checked beside two callers
and `Close`; `CallsReturn` also holds of the instance with `Callers = {c1}`,
`Unbounded = {}`, `MaxCalls = 1`, `MaxSockets = 2` and `Stops = FALSE`. Symmetry is used in runs without liveness only, for
names of callers, loops, copies and snapshots. Deadlock is not checked: each
instance comes to rest when its bounded calls or faults are used up, a stopped
process, a stopped client or a deleted volume being the system's own end states.

What the liveness properties except, because the code does not recover from it:

* `RetriesConverge`: a volume of which an object survived a rollback that
  removed its dataset (the retry starts over and is refused the name), and a
  dataset that was left smaller than what is asked for (every retry takes it
  for another volume). The comparison is the code's: with the capacity of the
  retry that is looking at the dataset.
* `CreatesConverge`: a detached snapshot whose transfer was cut off or whose
  marker was not set, so that its target stays for ever without the marker:
  every retry takes it for a collision. A transfer that is merely under way is
  not excepted, nor is anything before the first fault.
* `DeletesConverge` of `Snapshots`: a source volume that keeps the snapshot of
  an attempt to clone it, which has the time in its name and is dropped
  best-effort (controller.go:1588). The leak is there; the property says that
  it is the only thing in the way.
* `UnstageConverges`: a volume whose NVMe controller the kernel gave up under
  its staging mount. The mount can no longer be traced to the volume, and every
  `NodeUnstageVolume` fails until the node reboots. A controller that is lost
  while nothing is staged is not excepted.

### Findings

The four violation runs take a sentence of the code's comments or documentation
and show that the code does not keep it.

* `ClientAbandoned`: a new connection that breaks before the loop that made it
  has cleared `reconnecting` is never replaced.
* `ProvisionIncomplete`: after a restart between namespace and port link, a
  retried `CreateVolume` acknowledges a volume that no node can reach. The same
  is so for an NFS dataset without share.
* `SnapshotCutOff`: a detached restore or clone whose request is cut off while
  its replication job runs is acknowledged by the retry before the data has
  arrived, or although the job failed. A detached snapshot is protected from
  this by its marker, which `WholeWhenTold` confirms.
* `NodeLateMount`: an NFS mount that timed out may mount after its request has
  returned and after a later unpublish.

The modules state further sentences of comments that TLC refutes when they
take the place of the property of a configuration:

| Property | Configuration | What happens |
|---|---|---|
| `ClosedForGood` | `ClientAbandoned`, `Stops = TRUE` | a dial that read `closed` before `Close` publishes its connection after it |
| `GaugeCurrent` | `ClientAbandoned` | the gauge is set outside the lock, so its last write need not be the latest |
| `ConnectionErrorsRetried` | `ClientAbandoned`, `MaxCalls = 1`, as a PROPERTY | whether an error is retried depends on whether the client is connected when the question is asked |
| `OperationsBounded` | `ClientCalls`, as a PROPERTY | a call with `context.Background()` waits without end while TrueNAS is unreachable |
| `AuthRemoved` | `ProvisionIncomplete`, with the volumes and classes of `ProvisionConverge` | `DeleteVolume` never deletes CHAP and initiator groups, because their ids are not reconstructed |
| `RawUntouched` | `NodeLateMount`, iSCSI, 2 workers, `MaxSize = 2` | an unpublish between `NodeExpandVolume`'s look at its path and its lock makes it resize a file system on a device staged raw |
| `StopsGracefully` | `DriverLife` | a signal before `Run` has made the gRPC server: `Stop`, called by `main`, uses a nil server and panics |

Three more weaknesses follow from reading the code and are not modelled: two
CHAP volumes created at once compute the same next auth tag and then share a
group (controller.go:1268); the target that a retried `CreateVolume` repairs is
made with auth tag 0 (controller.go:1130, 1164), so a repaired CHAP volume no
longer asks for CHAP, and `Vouched`, which only counts objects, does not see
it; and a resize that fails in `NodeStageVolume` is not tried again by the
retry, which finds the volume staged (iscsi.go:256).

## 4. Fairness

* `TrueNASClient`: weak fairness of every goroutine, since the Go scheduler
  runs what can run, of the timers behind pings, back-off and deadlines, and of
  nothing the network or TrueNAS does: they may never answer.
* `Provisioning` and `Snapshots`: weak fairness of a running handler's steps and
  of the orchestrator's retry of a request that was not acknowledged, as CSI
  prescribes, and of the end of a replication job. Faults are finitely many.
* `NodeServer`: the same: handlers run on, and an orchestrator that wants a
  volume gone retries unpublish and unstage. No fairness of staging,
  publishing, growth or the end of a late mount.
* `DriverProcess`: weak fairness of `main`, `Run`, `Serve` and `Stop`, the
  shutdown timer included, and of no handler: `SignalEnds` holds although
  handlers hang. Only `PortsConverge`, which is about answers, has as its
  hypothesis that no handler hangs and the orchestrator calls again
  (`Handling`).

## 5. Proofs

All theorems are of the form `Spec => []P` or `Spec => [][A]_vars`, for every
value of the constants that satisfies the named assumption of the module, hence
for any number of callers, connections, volumes, workers, targets, requests and
faults.

* **Connections.** `ConnInv` is inductive. Beyond the properties it needs:
  nothing refers to a connection that was not installed, `connDone` is open
  until `Close` has run its critical section, callers past the top of their loop
  hold a connection, and whoever dials is alone and finds no connection. From it
  follow `TypeCorrect`, `NoDoubleClose`, `SingleReconnector`, `AlwaysWatched`,
  `SocketsReclaimed` and `NothingReplaced`.
* **Calls.** `CallInv` says that every pending entry has its caller, which waits
  under that id, that ids only go up, and that an answer on the wire with the id
  of a pending entry is the answer to it. It gives
  `NoStalePending` and `AnswersMatch`. `PermitsBalance` counts: a step moves at
  most one caller in or out of the set that holds a permit, and the cardinality
  of that set changes with `permits`.
* **Provisioning.** `ProvisioningInv` has two parts. `VolumesInv` says, per
  volume, what a handler relies on at each program point: a creation has built
  the chain up to its position and nobody was told of the volume before, a
  rollback is of such a volume only, a clone is resized before its chain is
  built, a repair's look-ups still hold at its next call, a subsystem stays
  while it has a namespace, and an expansion asks for no less than what was
  promised. From it follow `AcknowledgedVolumesKept`, `VolumesLargeEnough` and
  `PublishesUsable`. `UnfailedInv` (`TeardownProofs`) is about the time before
  the first fault and says what a volume has exactly: all of its objects or none
  when it is at rest, the first *n* of its chain in a creation or a rollback,
  all but the first *n* of `DropOrder` in a teardown, whose ids cover what is
  left. It also says of the shared host that, while it exists, some volume is
  linked to it, about to link it, or on its way to delete it; a user of the host
  stays one or hands it on to another that is linked (`HostHandedOn`). The one
  rollback that happens without a fault, of a creation that lost the host to the
  garbage collection of another volume, is covered. `NothingLeft` excepts the
  CHAP and initiator groups of CHAP volumes, which `DeleteVolume` does leave
  behind (`AuthRemoved`); that no other volume has any is part of `VolumesInv`.
  From it follow
  `NothingLeftAlways` and `CompleteUntilFault`: the finding
  `ProvisionIncomplete` needs its fault.
* **Snapshots.** All theorems of `SnapshotsProofs` assume `Protected` (section 2),
  without which TLC refutes `AcknowledgedKept`. `SnapshotsInv` says for every
  object what its request relies on at each call, which of the ZFS snapshots it may name,
  what has been received where, and that whatever something is made from stays;
  `Owned` accounts for every snapshot that is not settled by a request that will
  drop it, as long as nothing has failed. The argument is one of frames: a step
  changes one object's request and at most one ZFS snapshot or dataset, and the
  lemmas `MoveLive`, `MoveNamed`, `MoveSettled` and `OthersStep` say once what
  such a step leaves to all other objects, so that each action's own lemma is
  about its own object only. From the invariant follow `AcknowledgedKeptAlways`,
  `DeletedGoneAlways`, `WholeWhenToldAlways` and `NoTempLeftAlways`.
  `CatalogueKept` shows with it that every step is a step of `SnapshotCatalogue`
  or leaves its variables alone (`StepRefines`, `OthersRefine`).
* **Node.** `NodeInv` rests on the lock: while a handler is between two steps
  every other one is idle or waits for the lock (lemma `Alone`), so what it
  found in the mount table holds when it acts on it. It contains what each
  protocol can have on the node, that sizes are nested, and what is mounted at
  each program point. From it follow `StagingKept`, `UnstagingClean`,
  `ExpansionFull` and `RawDevicesNotFormatted`, and that every step is a step
  of `NodeLifecycle` or invisible to it (`NodeImplementsLifecycle`).
* **Process.** `DriverInv` orders `NewDriver`, `Run` and `Stop`, ties every stop
  to its cause, and says that a call of `Stop` past its wait has a stopped
  server and either no handler left or an expired timeout, which no second call
  can undo. From it follow `DriverDrains` and `MetricsNeverStop`.

Only model-checked: liveness (`CallsReturn`, `DeadPeerNoticed`,
`LoopsStopAfterClose`, `RetriesConverge`, `CreatesConverge`, both
`DeletesConverge`, `UnstageConverges`, `RequestsReturn`, `SignalEnds`,
`PortsConverge`), which is
out of the prover's reach. Every invariant and action property of a passing run
is also a theorem.

## 6. Not modelled, and the plan

Done: client, provisioning with clones, expansion and publication, snapshots and
detached transfers with their abstract specification, node server with its
abstract specification, driver process, and the proofs of their safety
properties. Next:

1. Concurrent requests for one volume in `Provisioning`, and CHAP tags.
2. An abstract specification of volumes for `Provisioning`, like
   `SnapshotCatalogue`, and the proof that it is implemented.

Left out for good, as they change no state that anything else depends on:

* the queries of the controller (`ListVolumes`, `ListSnapshots` with their
  paging, `GetCapacity`, `ValidateVolumeCapabilities`, `ControllerGetVolume`),
  the identity server and node statistics, which only read;
* flags, environment and configuration files, validation of parameters, dataset
  paths and the choice of the API version's URL, which are string processing;
* the JSON and option structs of the API wrappers; what the calls do is in the
  modules that use them;
* counters and histograms of the metrics, and what the metrics server serves;
* the clean-up tool, a sequential one-shot program for leftovers of tests;
* on a node: mounts visible only through host mirrors, multipath, several
  sessions or targets that match one volume, stacked mounts on one target.
