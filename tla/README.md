# TLA+ models of the JuiceFS CSI driver

The JuiceFS CSI driver gives Kubernetes pods volumes of JuiceFS, a FUSE file
system.  On every node a CSI node service answers the kubelet's
`NodePublishVolume` and `NodeUnpublishVolume`; it runs the FUSE client in a
*mount pod* per volume (or, with `--by-process`, in its own container), binds
the FUSE mount to the target path of each application, and keeps track of who
uses which mount pod.  A controller service creates and deletes dynamic volumes.
This directory holds models of the parts where threads, processes and failures
meet, TLC configurations that check them on small instances, and proofs of
the most important safety properties for all instances.

Paths below are relative to `src/`.

## 1. Inventory

| Component | State it keeps | Operations | Hard behaviour | What makes it correct |
|---|---|---|---|---|
| Mount pod life cycle (`pkg/juicefs/mount/pod_mount.go`, `pkg/juicefs/juicefs.go`, `pkg/driver/node.go`) | annotations of the mount pod (one reference per target, `juicefs-delete-at`), the pod's secret, mounts | `createOrAddRef`, `AddRefOfMount`, `waitUtilMountReady`, `BindTarget`, `JfsUnmount`, `UmountTarget`, `GetMountRef`, `JUmount` | calls of different targets and the driver work on one pod; every step is a request to the API server | a reference lives as long as its user; a pod is deleted only unused; nothing leaks; calls return |
| PodDriver (`pkg/controller/pod_driver.go`) | none between runs; works on a copy of the pod | `Run`, `checkAnnotations`, `podDeletedHandler`, `podErrorHandler`, `podPendingHandler`, `podReadyHandler`, `recoverTarget`, `umountTargetUntilRemain`, `checkMountPodStuck` | stale copies, cancelled contexts, re-creation of pods | dead mounts are recovered; references survive a re-creation; the mount stack stays bounded |
| Kubelet poller and mountinfo (`pkg/controller/reconciler.go`, `mountinfo.go`) | `lastPodStatus`, back-off, parsed mountinfo | `doReconcile`, `resolveTarget`, `resolveTargetItem` | one error cancels the whole round; mountinfo is read once per round | what is recovered is what was there |
| Pod lock (`pkg/config/config.go`) | 1024 mutexes | `GetPodLock` | names share a mutex by hash | mutual exclusion on every return path; no deadlock |
| Process mount (`pkg/juicefs/mount/process_mount.go`, `pkg/util/util.go`) | mountinfo, `UUIDMaps`, `CacheDirMaps` | `jmount`, `GetMountRef`, `JUmount`, `CleanCache` | no lock at all; references are counted in mountinfo | nobody's mount is taken away; the mount path goes with the last user |
| Provisioner (`pkg/driver/provisioner.go`) | PV objects, the finalizer of secrets | `Provision`, `Delete` | check-then-act over several volumes; retries; leader restarts | data is deleted when and only when nobody needs it; the secret outlives its volumes |
| Volume jobs and JobController (`pod_mount.go` `JDeleteVolume`, `builder/job.go`, `pkg/controller/job_controller.go`) | jobs and their secrets | create, wait, fall back, collect | time-outs, jobs that fail, names that are used again | a volume that is reported deleted is deleted |
| PodController, MountController (`pkg/controller/pod_controller.go`, `mount_controller.go`, `cmd/app`) | watch queues | run PodDriver from events; finish pods of nodes without a CSI node | two processes read one pod and patch it by name; the CSI node leaves and comes | references go only with their applications; a pod keeps its finalizer while it lives; deleted pods go |
| AppController (`app_controller.go`) | watch queue | unmount FUSE sidecars of finished pods | container states arrive late; a command in one of several sidecars fails | nothing is unmounted under a running application; the pod completes |
| SecretController (`secret_controller.go`) | watch queue | refresh `initconfig` of secrets | users write the secret during the auth command; its own updates trigger it | what users write stays; the configuration becomes current |
| Controller service (`pkg/driver/controller.go`) | `vols` (capacities), `volLocks` | `CreateVolume`, `DeleteVolume`, `ControllerExpandVolume`, `SetQuota` | calls are abandoned and repeated; commands go on in the background; nodes write the quota too | the quota follows the size; creation, expansion and deletion come to an end |
| Webhook and builders (`pkg/webhook`, `pkg/juicefs/mount/builder`) | the secret of each sidecar | inject sidecars; build pod, job and secret objects | several volumes in one pod, injection asked for twice, four builders, racing admissions | the pod is wired as its volumes say |
| Settings (`pkg/config/setting.go`, `config.go`) | the configuration file, reloaded | parse secrets, attributes, options; patches of the mount pod | options are rewritten by several functions in turn | cache directories and quota path fit what is mounted |
| Dashboard (`pkg/dashboard`, `dashboard-ui`) | indexes in creation order, claim to volume, node to CSI node pod | three controllers, list handlers | predicates and workers write the same tables; names are used again | the lists agree with the cluster |
| Clients and commands (`pkg/k8sclient`, `cmd`) | none | wrappers, start-up | – | – |

How they interact: the node service and the PodDriver run in one process and
share the pod lock and the mount pods in the API server; the PodDriver is
started by the kubelet poller (or by the PodController) with a copy of the
pod; both change the mounts of the node.  MountController acts on the same
pods from the CSI controller, a different process without that lock.  The
provisioner and the volume jobs share the API server's PVs, secrets and jobs
with each other and with users.  The controller service and every node set the
quota of a volume.  Webhook and AppController meet in the sidecars of a pod,
webhook and SecretController in secrets.

`PROJECT.json` lists every component with its status, and under `hazards` the
places in the code where these interactions can go wrong.

## 2. Modules

| Module | Models | Checked by | Proved in |
|---|---|---|---|
| `MountRef` | mount pods of one volume on one node: publish, unpublish, PodDriver, kubelet | `MCMountRef`: refs, live, recovery, lost_ref_deleted | `MountRefProofs` |
| `RecoverTarget` | the stack of bind mounts at one target and its subPath mount, and their recovery | `MCRecoverTarget`: recover_target | `RecoverTargetProofs` |
| `Provision` | Provision, Delete, delete jobs, secret finalizers | `MCProvision`: provision, provision_shared | `ProvisionProofs` |
| `ProcessMount` | publish and unpublish with `--by-process` | `MCProcessMount`: process | `ProcessMountProofs` |
| `ControllerService` | CreateVolume, DeleteVolume, ControllerExpandVolume and everyone who sets quotas | `MCControllerService`: quota | `ControllerServiceProofs` |
| `MountWatch`, `SecretRefresh`, composed in `Managers` | the controllers of the two managers: PodController, MountController; SecretController | `MCManagers`: controllers | `ManagersProofs` |
| `RefreshedSecret` | abstract specification of the refresh of a secret, implemented by `SecretRefresh` | `MCManagers`: controllers | `ManagersProofs` |
| `MountSidecar` | settings and the four builders, as operators | through `Sidecar` | `SidecarProofs` |
| `Sidecar` | the webhook, the containers of the pod, AppController | `MCSidecar`: sidecar | `SidecarProofs` |
| `TimeIndex` | the time-ordered list and the pages, as operators | through `Dashboard` | `DashboardProofs` |
| `Dashboard` | informers, predicates, three controllers, list handlers | `MCDashboard`: dashboard | `DashboardProofs` |

Definitions with a comment *Seeded fault* are variants of the definition that
follows them with a plausible bug; they are used by no
specification.  `PROJECT.json` names for every property a variant that violates
it, which shows that the property can tell the difference.

### MountRef

State ↔ code: `pod` is the pod object (annotations `refs`, `deleteAt`,
deletion timestamp, finalizer, phase); `secret` the secrets `<pod>-secret`;
`fuse` the pods whose mount path holds a live mount; `bind` and `dead` the
targets' bind mounts and whether their FUSE mount is gone; `kvol` what the
kubelet believes (a failed call leaves it *uncertain*, and it repeats the
call); `lock` the array of `config.GetPodLock`; `op[t]` the call for target `t`
with its program counter, `drv[p]` the PodDriver run for pod `p` with the copy
(`snap`) it works from.  One step is one request to the API server or one mount
operation; two are merged only when the lock keeps everyone else out.

Actions carry the names of the functions they model.  `OpFail` and `DrvFail`
are the error returns of a request anywhere in a call or run, `DrvAbort` the
cancellation of the round's context, `DrvTimeout` the round's own time-out,
`Crash` the loss of everything in memory.  The environment starts, restarts,
fails and removes mount pods, deletes them from outside, ends applications.

Known abstractions: `BindTarget` compares the target with the minor number of
the *last* line of mountinfo (the pointer to the loop variable), so for a
target that is already bound the model lets the comparison come out either
way; delete-at is a countdown of one clock; the back-off and `lastPodStatus`
of the poller only delay a run and are left out; the mount path is represented
by the pod that serves it.

### RecoverTarget

One target path (`base`) and one volumeMount subPath (`sub`), each with its
entries in mountinfo as a sequence; `drv` holds the mountinfo parsed at the
start of the round and the items resolved from it.  Actions: publish
(`CreateTarget`, `BindTarget`), unpublish (`UmountTarget`,
`CleanupMountPoint`), one round (`doReconcile`, `parse`, `podReadyHandler`,
`resolveTarget`, `recoverTarget`, `recoverMount`), the FUSE process dying and
coming back, and the removal of the directory behind the subPath.

### Provision

A claim goes from `pending` through `bound` and `released` to `gone`.  `call`
is the Provision or Delete call for a volume with its program counter; the
provision controller (external) starts up to `Workers` of them and repeats
those that fail; `NewProvisionerService` and `Run` leave the library's default
of four (`provisioner.go:89`).  `job` and `rmr` are the delete job and its
running pod; a job that outlives its call is *aged*.  `secret` has the
finalizer.  `met` is a history variable: the volumes that were bound while
their directory was being removed (`dir`), those whose Provision a Delete of
another volume overtook (`secret`), and the secrets for which two Deletes met
(`deletes`).

### ProcessMount

`table` is mountinfo, a sequence of (mount point, device); a mount point's last
line covers the earlier ones.  The references that `JUmount` reads are the set
of the other lines of the target's device, each with its mount point: it asks
only whether there is one, and for its path.  `mounting` holds the `juicefs mount` commands
that run on their own and have not mounted yet; `dead` the devices whose
process is gone; `dir` says whether the volume's directory exists in the
volume and under the bare mount path.  A target in `ReadOnly` is published
read-only with a subPath: `JCreateVolume` then makes the directory on a mount
of its own, which it unmounts (`JCreateVolumeUmount`) before `jmount` goes on;
`made` remembers that this is done.

### ControllerService

`vols` and `volLocks` are the fields of the service, `call` the calls it is
serving (a slot each), `pub` the publications of the nodes, `bg` quota commands
of the community edition that outlived their four seconds.  A sidecar that
gives up waiting (`GiveUp`) calls again while the first call goes on.
`client` is the juicefs client: its edition, and whether it knows quotas, since
`wrapSetQuotaErr` takes "unknown command" for success.  `job` is the job of an
abandoned DeleteVolume, which removes the directory later, or fails and is
then taken for done.
`claim` and `pv` belong to the cluster: what the user asks for and what the PV
object says.  `solo` and `sound` are history variables: they say when the last
writer of the quota had the field to itself, which the code does not arrange.

### MountWatch, SecretRefresh, Managers

`mountPod` is the mount pod in the API server with finalizer and references,
`appPods` the applications' pods (labelled before their reference is written,
as `JMount` does), `csi` the CSI node pod.  `podW` and `mountW` are the
Reconcile under way of PodController and MountController; the former carries
the copy it read and the list of applications.  A step is one request.
A pod may lack resources (`lack`: failed, or not to be scheduled); then
`podErrorHandler` or `podPendingHandler` takes the finalizer off the live pod,
deletes it, waits for it to go and creates it without resource requests (`res`;
the steps `resFinalizer`, `resDelete`, `resWait`, `resCreatePod`).
`crossed` and `bared` are history variables for LiveProtected (a pod created
between a controller's look and its patch; a finalizer taken for a deletion
that did not follow), `passed` is one for Collected.
Publish and unpublish are those of `MountRef` reduced to their effect on the
pod; the pod lock is kept (`Unlocked`).

`SecretRefresh` has the secret with its resource version, the user's part
(token, access key under the new and the old name) and the configuration;
`issued` counts what the console hands out.  `RefreshedSecret` has no
controller: users write, the console issues, and `Refresh` replaces the
configuration in one step.  The mapping is in `Managers`: the user's part, the
count of writes and the configuration are the secret's; what the controller
carries is hidden.  `Managers` composes the two: a restart of the CSI
controller hits both of its controllers in one step.

### MountSidecar and Sidecar

A volume is a record of what attributes, annotations, options and secret say;
a name or path is the sequence of its parts, so that `"%s-%s"` is a
concatenation.  `ParseSetting`, `getQuotaPath`, `overwriteSubdirWithSubPath`
and the builders are operators; a builder returns a container with options,
quota path, volumes and mounts.  `Sidecar` runs `Handle` (`adm`) with its
requests as separate steps between those of other admissions, then the
containers (`st`, `mounted`) and AppController, which sees `status`, an older
state of them.

### Dashboard and TimeIndex

`cache` is what the informers hold, `events` the notifications whose
predicates are yet to run, `queue` and `worker` those of the three controllers.
`indexes`, `csiNodeIndex` and `pairs` are the fields of `API`.  `addIndex` is
modelled as it runs: after the removal of a stale entry the walk ends, because
`list.Remove` clears the element's links.  `leftover` is a history variable
that records when such an entry, or an object that had gone, was met, or when
two volumes carried the name of one claim; `rebound` holds the claims that came
back behind the predicates (a Lost claim bound again; a volume created again
without the claim's name).  Of the system pods, mount pods (`Mounts`) and CSI
node pods share an index; a claim may be bound to a volume of another driver.

Known abstraction: `Reconcile` of pvController asks for the claim
(`controller.go:195`) and adds the volume to the index (`:199`) in one step.
With two steps a claim that goes in between would be listed without object;
`Add` records that in `leftover`, which `Paired` and `TimeOrdered` except, and
`AllListed` does not speak of claims.

## 3. Runs

| Run | States | Checks | Shows |
|---|---|---|---|
| `refs` | 1.45M | `LockOwned`, `RefKept`, `SecretKept`, `DeletesOnlyUnused`, `DropsOnlyUnusedRefs` | two targets, one pod, delete delay, one failing request, no deletion from outside |
| `live` | 268k | `CallsReturn`, `NoLeak` | a crash, a cancelled round, a deletion, a resource error, the round's time-out |
| `recovery` | 431k | `Recovers` | restart, failure and deletion of the mount pod, one failing request |
| `recover_target` | 502k | `RootKept`, `Bounded`, `Unpublished`, `NeverBare`, `Recovers` | the code's limit of 5 entries, 6 deaths of the FUSE mount, unpublish at any time |
| `provision` | 45k | `DataDeleted`, `ReleasedGone` | two volumes, two calls at once, failing requests and patches, a job that times out, one that fails, a restart |
| `provision_shared` | 3.5M | `DirKept`, `FinalizerKept`, `SecretReleased` | three volumes with one secret, two with one directory, the four workers of the library, a job that times out, a restart, a user who deletes the secret |
| `process` | 3.5M | `Served`, `Released`, `NoMountLeft` | two targets, one of them read-only, an overlapping call, a slow mount, two faults |
| `quota` | 430k | `QuotaCovers`, `Created`, `Expanded`, `Deleted` | one volume, two calls at once, a node, an abandoned call, a job left behind, a failing and a slow command, a restart; both editions, with and without quotas |
| `controllers` | 740k | `LiveProtected`, `DropsOnlyGone`, `Collected`, `ConfFresh`, `RefreshesAtomically` | two applications, deletions from outside, a pod that lacks resources, a CSI node that leaves and comes, a failing request, a restart; a secret written three times |
| `sidecar` | 268k | `Wired`, `CachesBacked`, `QuotaOnMounted`, `ServedWhileRunning`, `Completes` | 50 pods with up to three uses of two claims, four builders, a reload, racing admissions, a second request, one failure, one restart |
| `dashboard` | 2.2M | `AllListed`, `CSINodeFound`, `Paired`, `TimeOrdered` | application pods, or a mount pod and the CSI node pods of a node, or a volume and its claim: three objects, names used again, a claim Lost and bound again, any number of restarts |
| `lost_ref_deleted` | violation | `RefKept` | the finding of section 5 |

Deadlock is not checked: all these systems may come to rest, when every
application has gone and every volume is deleted.  The temporal properties
(`CallsReturn`, `NoLeak`, `ReleasedGone`, the two `Recovers`, `Created`,
`Expanded`, `Deleted`, `Collected`, `ConfFresh`, `Completes`) say that they do
not rest too early.  Six type invariants are theorems (`TypeCorrect`
in section 4); those of the other modules document their variables.

Several properties name the cases in which the code does not keep them, as a
condition that can be read off: `Left` in `Collected`, `crossed` and `bared` in
`LiveProtected`, `Stranded` in `Completes`, `sound` in `QuotaCovers`, failed
jobs in `Deleted` and `DataDeleted`, `met` in `DirKept`, `FinalizerKept` and
`SecretReleased`, `leftover` in `Paired` and `TimeOrdered`, `rebound` in
`Paired`, `Orderly` in `Served`.  Section 5 says what happens there.

### Bounds

All bounds are constants named `Max...` and appear as guards of the failures
they bound; nothing else is bounded.  Two targets are what it takes for one
call to lose or misread what another added.  The runs of `MountRef` have one
pod name: two mount pods of a volume at once, which two concurrent publishes
produce, occur only in the theorems, where the set of names is arbitrary.  The
one lock of the runs (`SameLock`) is the worst case of the hash.  The limit of five entries in `RecoverTarget` is the
code's own, and six deaths exceed it, so the branch that unmounts one entry and
leaves the recovery to the next round is taken.  In `Provision` two volumes
suffice for a check of one to be overtaken by the other, and the third volume
of `provision_shared` has a directory of its own and keeps the shared secret
in use; the four workers never keep a call of one of three volumes waiting.  `ProcessMount` needs three devices: two bound, one being mounted.
One volume is enough for the quota: volumes share nothing but `vols`, whose
entries are apart; two slots are an abandoned call and its repetition.
`MCManagers` lists records of bounds instead of one: each lets one or two kinds
of disturbance happen often, and the part that is not looked at rest (the two
parts share nothing but the process).  Two applications are what it takes for a
pod to be used by one while the other's reference is dropped; two deletions for
a deletion of the re-created pod; one pod that lacks resources with a
deletion, or with a failing request and a CSI node that leaves, for the
handlers to be cut short at each of their steps; three writes for a secret that is deleted and
created again during the auth command.  `MCSidecar` lists pods: layouts for all
builders, claims in all states, jobs in all restart policies; two claims, one
of them twice, are what a clash of names takes.  In `MCDashboard` three objects
under one or two names per kind let a name be used again next to another
object; the kinds that share no table are looked at one after the other (`names`
in `Init`).
`EarlyRound` in `RecoverTarget` is an assumption on the environment: with
FALSE a round begins only after the target is bound.

### Fairness

* Threads of the node service run (weak fairness of their steps).
* `sync.Mutex` serves waiters in order after 1 ms (starvation mode), so a
  waiter gets the lock even if others keep taking it: strong fairness of the
  lock steps.
* The kubelet repeats calls and starts and removes pods; the clock advances;
  rounds repeat (a pod that was skipped because `lastPodStatus` had it is
  handled after ten minutes at the latest).
* The provision controller retries with back-off, so a call that is possible
  again and again is made: strong fairness of its steps, since other calls can
  take the worker in between.  Jobs run, and end by their TTL.
* The sidecars of Kubernetes repeat calls until they succeed; calls and
  commands of the controller service end (weak fairness per call).
* Work queues: a worker goes on with what is queued and returns to what
  failed; a requeue after ten minutes or an hour fires (weak fairness of the
  worker and of the timer).  A CSI node pod that starts comes up; none is
  assumed to come where there is none.
* The kubelet reports the states of containers, runs hooks, and a mount process
  ends when it is unmounted.
* No fairness for failures, deletions from outside, users or applications.

## 4. Proofs

All constants are arbitrary: any finite set of targets, any set of pods and
locks with any hash, any number of volumes, nodes, applications and calls, any
bounds on failures.  What is assumed of them, by name, in the module that
declares them:

* `MountRef`: `NamesAssumption`, `StripeAssumption`, `BoundAssumption` (targets,
  pods and the special names are different; the hash maps names to locks; the
  bounds are naturals);
* `RecoverTarget`: `RemainAssumption` (the limit is above one, as in the code);
* `Provision`: `VolumeAssumption` (every volume has a directory, a secret and a
  reclaim policy; without a pathPattern the directories differ, since they are
  named after the volume), `CallAssumption` (bounds are naturals);
* `ControllerService`: `SizeAssumption` (sizes and the unit of quotas are
  positive), `BoundAssumption`;
* `ProcessMount`: `MountPathAssumption` (the mount path is none of the targets),
  `ReadOnlyAssumption` (the read-only ones are targets), `BoundAssumption`;
* `Dashboard`: `DashboardAssumption` (the four kinds have names of their own,
  there is a time, the bounds are naturals; the number of events is not
  restricted);
* `Sidecar`: `InputAssumption`, which says what a pod is: one of the four
  builders, a list of claims each with a volume, numbers where the attributes
  have numbers, and a cache-dir option that names at least one directory, as
  what `strings.Split` returns is never empty.

Some theorems have a condition on the constants besides.  Each is needed:
section 5 names the violation without it.

| Condition | Says | Theorems |
|---|---|---|
| `OwnDeletions` | nobody but the driver deletes mount pods, and none is refused for want of resources | `RefsKept`, `SecretsKept` |
| `~EarlyRound` | a round of the driver begins after the target was bound | `RootStays` |
| `OwnPaths` | no two volumes have the same directory | `DataIsDeleted`, `DirStays` |

### Mount pods

* `MountRefProofs!TypeCorrect`: `TypeOK` is inductive together with
  `Named`, which says that a call past `genMountPodName` has a pod name:
  without it `pod[op[t].name]` need not be defined.
* `MountRefProofs!LockSafe`: `LockOwned` is inductive with the types.  The two
  lemmas `OpStepUsesLock`/`DrvStepUsesLock` reduce each action to one of four
  moves (keeps its lock, takes it, gives it back, was outside), so that the
  invariant is argued once per move and not once per action.
* `MountRefProofs!DeletesUnused`: a pod is deleted in a step *after* the one
  that saw it without references.  The invariant `DelInv` says that at
  `unDelete` and `chkDelete` the pod still has none; it is kept because every
  step that adds a reference to a pod holds the pod's lock
  (`OpStepWritesPod`, `DrvStepWritesPod`), and by `LockOwned` two threads do
  not hold it together (`OneAtATime`).
* `MountRefProofs!DropsUnused`, with no condition.  `checkAnnotations` acts
  on a copy of the pod and a list of applications that are both old.
  `RefsInv` says why this is harmless: a reference, a call or a mount exists
  only after its application came (`KnownInv`), unpublish calls belong to
  applications that end (`EndsInv`), so one that is in the copy and not in the
  list is gone and stays so (`GoneInv`); and what `AddRefOfMount` writes back
  is what the pod holds, since the lock is held from the read to the patch
  (`AddInv`).
* `MountRefProofs!RefsKept`, `SecretsKept`: `RefKept` is about a moment
  when the application runs on the mount; it takes the whole history of the
  call.  `KeptInv` says that a call has its reference from `AddRefOfMount` on,
  and on a pod that is not being deleted (`HeldInv`); that a pod which goes has
  no reference and one that stays has its secret (`DownInv`); and that no run
  re-creates a pod from its copy (`RunInv`), which is where `OwnDeletions`
  comes in.  It rests on `DelInv` and `RefsInv`.

### Mount points

* `RecoverTargetProofs!TypeCorrect`, with lemmas on initial parts of sequences.
* `RecoverTargetProofs!StackBounded`: `Bounded` is not inductive: the bind is
  made on the word of a count taken earlier.  `BoundInv` adds that between the
  count and the bind the real stack is no longer than the count: only the
  driver's own round pushes, others only pop.
* `RecoverTargetProofs!StaysCovered`: from the bound's argument (an entry is
  only removed when there are more than one) and `DownInv` (a run that believes
  the application is being deleted is right).
* `RecoverTargetProofs!StaysUnpublished`: `DoneInv` adds that the target
  directory is gone, which is what stops a late bind.
* `RecoverTargetProofs!RootStays`: a recovery binds the root that was parsed
  from mountinfo, some steps earlier.  `RootInv` carries the root from the
  stack through the parse to the item (`StackInv`, `ItemInv`); `RoundInv` says
  that a parse that found nothing at the target still describes it when the
  item is resolved, for then the target is unpublished.

* `ProcessMountProofs!TypeCorrect`, and lemmas on what mountinfo holds after a
  mount and an umount (`PutFacts`, `CutFacts`): they need that a set of lines
  has a last one, which comes from the library's theorem on well-founded
  relations.
* `ProcessMountProofs!StaysReleased`, with no condition.  `TargetInv`: a target
  is mounted at most once, because between the look at it and the bind only its
  own call could bind it; so one umount leaves it bare.
* `ProcessMountProofs!StaysServed`: `Served` speaks of histories in which calls
  came one at a time and mounts were in time (`Orderly`).  `OrderlyInv`: then
  every publication has a device of its own, so the one reference that
  `JUmount` finds besides the target is the mount path, and still is when it is
  unmounted.  Restarts, killed processes and lost replies are allowed.
* `ProcessMountProofs!NothingLeft`: when nothing failed either, `FaultlessInv`
  says that the mount path is mounted only for a target with the same device or
  for a call under way.

### Volumes

* `ProvisionProofs!TypeCorrect`.
* `ProvisionProofs!DataIsDeleted`, `DirStays`: `CallInv` ties a call to the
  state of its volume, and a job and its pod to a volume nobody uses; the
  second theorem, that `SharedDirKept` does hold for volumes with directories
  of their own, follows from it.  For the first, `DataInv` says at which
  points (job complete, call past the wait, waiting call whose job is not there
  any more, volume gone) the directory has been removed: a job that disappeared
  under a waiting call was done, unless one failed, which `DataDeleted` itself
  excludes.
* `ProvisionProofs!SharedDirStays`, with no condition on workers, failures or
  restarts: `DirInv` says that from a clean `CheckForSubPath` until the pod of
  its job is done, also when the call has gone, every other volume with that
  directory has come meanwhile and is in `met.dir`.
* `ProvisionProofs!FinalizerStays`, likewise: `GuardInv` says that when Delete
  is about to remove the finalizer every other volume with the secret came
  after its look (`met.secret`), and that a Provision whose copy shows the
  finalizer, and a stored volume, do have it otherwise; `SecretInv` that a
  secret which is being deleted has its finalizer, and one that is gone none.
* `ProvisionProofs!FinalizerGoes`, likewise: unless two Deletes met, at most
  one is past its look at the PV objects (`OneInv`), and the finalizer is on a
  secret only while a volume is stored or a call is under way that will remove
  it (`HeldInv`).
* `ControllerServiceProofs!TypeCorrect`, `QuotaFollows`: `QuotaCovers` speaks
  of volumes whose last writer was alone; the invariant says what that means
  for the writers under way (`AloneInv`: there is at most one), for the size
  they work with (`FreshInv`: it is that of the PV now, or larger), for sizes
  (`SizeInv`: they only grow) and for the quota at each point of an expansion
  (`QuotaInv`).

### Controllers

* `ManagersProofs!StaysProtected`: `PatchInv` adds that a worker which is
  about to patch still faces a deleted pod; the handlers of pods that lack
  resources take the finalizer of a live one, which is the pod they delete
  next (`resDelete`), or `bared` remembers that they did not.
* `ManagersProofs!DropsGone`: `RefInv` adds that an application is referred to
  only after it was labelled, and that those PodController will drop are gone.
* `ManagersProofs!RefreshRefines`: every step of `Managers` is a step of
  `RefreshedSecret` or leaves its state alone.  `CopyInv` says what the
  resource version is for: a secret with the version of the copy is that copy,
  also if it was deleted and made again; `PrintedInv` that what the auth
  command printed fits the copy and is no older than what it holds.

### Sidecars

`MountSidecar` and `Sidecar` filter and number sequences with recursive
functions.  What those compute is proved by induction over positions, in the
form the prover takes: a set of naturals that is not empty has a least element
(`Least`), so one that holds 0 and with each number up to n its successor holds
all of 0..n (`Steps`).  `Keeps` then says what a filtered list is for any list
and any positions.

* `SidecarProofs!StaysServed`: three actors meet here, the kubelet that starts
  containers in turn, the sidecars that mount, and AppController, which acts on
  states it was told earlier.  The invariant: sidecars come before the
  containers of the application (`InFront`, which is what `injectContainer`
  is for); a container has started only after those before it, and a sidecar
  before it has run its postStart hook (`InTurn`); a sidecar that has not failed
  stays mounted until every container of the application has ended once
  (`MountedInv`); those that AppController believes ended have ended
  (`SeenEnded`), since a container that was started again has ended once too;
  so it unmounts only after all have (`UnmountsLate`).
* `SidecarProofs!QuotaSet`: the quota path is read from the options before
  `overwriteSubdirWithSubPath` drops all subdir options and appends one; of
  options given twice the last one counts in both, for any list of options.
* `SidecarProofs!CachesStayBacked`: each builder makes a mount for each cache
  directory, on a volume it returns; `Deduplicate` renames a volume and its
  first mount alike; `injectVolume` leaves out only volumes whose name the pod
  has already; later injections keep the names of the pod's volumes.  The
  invariant says it of every sidecar from its injection on (`CacheInv`), in
  front of which further ones may come.

### Dashboard

* `DashboardProofs!TypeCorrect`, and `Placed`: every name is in the events,
  queue, worker and index of its own kind only.
* `DashboardProofs!NothingLost`: `AllListed` speaks of states at rest, and says
  nothing of how one gets there.  `ListInv` does: for an object that is to be
  listed, either an event that puts it into the queue comes after the last one
  that removes its name (`Comes`); or no removing event comes any more and the
  name is in the queue, or with the worker, or in the index.  A worker may hold
  an older object of that name: then the name is in the queue again, or its
  event comes.  This needs that a uid is one object's for ever, and that a
  worker with the uid of the cached object holds an earlier state of it
  (`CacheUid`, `WorkerUid`).  At rest only the index is left.
* `DashboardProofs!CSINodeKnown`: the same argument for the entry of
  `csiNodeIndex` (`CsiInv`), which the deletion of any CSI node pod of the
  node clears, and which a worker with the old pod may still write: of these
  pods at most one is in the cache at a time (`OneCsi`).
* `DashboardProofs!ClaimsPaired`: the entry of a claim is written by
  pvController and pvcController and deleted by both.  `PairInv` follows volume
  and claim at once: the entry is there, or one of the two controllers is going
  to handle its object with the reference to the other (a claim on a volume of
  another driver has no entry, `PairOf`), unless the claim is in `rebound`;
  `ClaimInv` says that a
  worker with an older state of the claim is not the last to see it,
  `SharedInv` that `leftover` remembers a second volume with the claim's name.
* `DashboardProofs!IndexesOrdered`: `TimeOrdered` is inductive with the types.
  `addIndex` walks from the back to the first entry that is older; the lemmas
  say which entries stand where after an insertion and a removal.
* `DashboardProofs!PagesCovered`: the first k pages are the first k times the
  page size entries of the list, so page k + 1 goes on where they end
  (`PageNext`); what `listSysPod` removes from a page after it was cut is what
  it would have removed from the list (`KeepInCat`).  `PagesCover` is in no run:
  it looks at one list at one moment, whatever the states around it.

### Model-checked only

* The liveness properties (`CallsReturn`, `NoLeak`, the two `Recovers`,
  `ReleasedGone`, `Created`, `Expanded`, `Deleted`,
  `Collected`, `ConfFresh`, `Completes`): fairness and ENABLED are beyond the
  prover.
* `Wired` in `Sidecar`: it counts sidecars and says that all names are
  different.  Names are built from numbers in decimal, of which `Digit` has a
  table as long as the run needs; beyond it the model says nothing of names.
  `CachesStayBacked` proves the part of it that does not depend on numbers: a
  mount of a cache directory and its volume are renamed together.

## 5. Findings

**A reference is lost when a pod is re-created** (`lost_ref_deleted`).
`Run` reads the pod again with no lock held (`pod_driver.go:100`);
`podDeletedHandler` re-creates it from that copy, and forgets a reference
that `AddRefOfMount` added in between.  The pod is later deleted under its
user.

Further limits met while modelling, which the instances or the conditions of
the properties exclude and the constants in brackets show.

Mount pods:

* A cancelled round loses a recovery: the finalizer is removed first, then the
  driver waits for the pod to go; if the round is cancelled there, because
  another pod's run returned an error, the pod disappears from the kubelet's
  list and nobody re-creates it (`recovery` with `MaxAbort = 1` violates
  `Recovers`).
* `podPendingHandler` and `podErrorHandler` re-create from the copy of the
  round, and lose references in the same way (`refs` with `MaxResource = 1`).
  If the pod that has lost a reference is then deleted from outside while the
  last target it still knows is unpublished, the unpublish deletes pod and
  secret and `podDeletedHandler` re-creates the pod from its copy: a pod in use
  without its secret (two targets on one pod, `MaxDelete = 1`,
  `MaxResource = 1`, violate `SecretKept`).
* `ShouldDelay` looks at the delete-at of the copy: a pod that was used and
  released again is deleted before its new delay is over (two targets,
  `DeleteDelay = 1`, an action property that deletions by the driver find
  `deleteAt = 0`).
* A round that parsed mountinfo before the target was bound, and resolves it
  after its mount died, binds the top of the file system over it
  (`recover_target` with `EarlyRound = TRUE` violates `RootKept`).

Volumes and processes:

* The directory of a bound claim is removed.  With a pathPattern several volumes
  may have one directory; "if multiple pv using the same subPath, do not delete
  the subPath" says `provisioner.go:209`.  `Delete` reads the PV objects first
  and then runs the job that removes the directory, and the library serves four
  volumes at once: a claim whose PV is stored in between loses its data
  (`provision_shared` violates `SharedDirKept`, also with all failures at 0).
  `DirKept`, which holds and is proved, says that this window (`met.dir`) is
  the only one; a job that outlived its call keeps it open for longer.
* Unpublish in process mode unmounts another application's target after
  overlapping calls: `JUmount` takes the one other mount point of the device
  for the mount path (`process` with three targets, `MaxOverlap = 2` and
  `Served` without `Orderly`; compare `process_mount.go:318`).
* Two volumes that share a directory and are deleted together both spare it
  (`DataDeleted` in `provision_shared`).  With one secret both leave the
  finalizer on it (`met.deletes` in `SecretReleased`).
* The finalizer is taken off a secret whose new volume is being provisioned:
  `AddSecretFinalizer` looks at the copy that Provision read, and
  `CheckForSecretFinalizer` at stored PV objects (`met.secret` in
  `FinalizerKept`).
* A failed job that is gone by its TTL is taken for a successful one
  (`pod_mount.go:408`), by the provisioner (`DataDeleted` without its first
  condition, `MaxJobFail = 1`) and by `DeleteVolume` after an abandoned call
  (`Deleted` without `job[v] = "failed"`).
* In process mode an overlapping call can unmount the mount path between the
  look at mountinfo and the bind, so that the target shows the node's own
  directory; two overlapping unpublishes leave the mount path mounted; a slow
  mount command can mount over a later one (`Served` without `Orderly`).

Quotas:

* A publish that cannot read the PV uses the capacity at creation time and
  shrinks the quota of a volume that was expanded (`node.go:172`).  A publish
  and an expansion that overlap leave the quota of whichever ends last.
* A quota command of the community edition that takes longer than four seconds
  is reported as success, and may end after a later one (`juicefs.go:887`).  A
  client without quotas answers every expansion with success (`:895`).
* `DeleteVolume` without secrets succeeds and leaves the directory
  (`controller.go:142`).  The quota is rounded down to GiB (`juicefs.go:837`).

Controllers:

* `RemoveFinalizer` patches by name only (`util/pod.go:125`): it can hit a pod
  that was created again in between.  That pod lives without finalizer, its
  next deletion goes unnoticed, and its references are lost (`crossed`).
* `podErrorHandler` and `podPendingHandler` remove the finalizer of a live pod
  before they delete it (`pod_driver.go:221`, `:435`): when the deletion fails
  or the service stops there, the pod lives on without finalizer (`bared`).
  When the removal fails, which is ignored, and the deletion succeeds, they
  wait for a pod that keeps its finalizer; under PodController without
  deadline (`WaitsUnpatched`).
* MountController does not look again at a pod it left to a CSI node pod
  (`mount_controller.go:83`; a resync is dropped at line 132): when that
  leaves, the deleted pod stays (`LeftToNobody`).
* PodController repeats requests for ever when the PV is gone
  (`pod_controller.go:92`), and drops them when the PV has no claim (line 103);
  in both cases a deleted mount pod keeps its finalizer (`WithoutClaim`).
* Under PodController the context of `podDeletedHandler` has no deadline.
  When the pod it let go is created by a publish before it takes the lock, and
  deleted again, it waits with the lock and with the only worker for a pod
  whose finalizer nobody else removes (`pod_driver.go:351`, `WaitsForOwn`);
  under the kubelet poller the round's five minutes end this.
* `AuthFs` copies the access key from its old name over the new one while the
  old one stays in the secret (`juicefs.go:718`): a later edit under the new
  name has no effect.

Sidecars:

* The comment at `app_controller.go:203` speaks of containers that exit with
  0; the code looks for Terminated only (line 207), so that with `OnFailure` a
  failed container is restarted on an unmounted volume.
* `ShouldInQueue` needs all sidecars running: when one of two has been
  unmounted and the other's command fails, or the controller restarts, the
  other stays and the pod does not complete (`Stranded`).  A sidecar whose
  patched lifecycle has no preStop hook is never unmounted (line 88).
* `GetVolumes` returns the error of an unknown storage class only for the last
  claim (`util/volume.go:73`); two racing admissions may make one fail with
  AlreadyExists, which is not retried (`sidecar.go:279`); a VCI pod that names a
  claim twice has a sidecar without volume (`vci-serverless.go:162`);
  application volumes called `jfs-dir` or `updatedb` are taken for the driver's
  (`sidecar.go:153`); the settings of a static PV do not know the claim, so
  patches with a selector are skipped (`config.go:251`).

Dashboard:

* After a stale entry `addIndex` puts the name to the front, whatever its age,
  and may list it twice (`index.go:83`).
* A worker that read an object before it went adds it after its removal; an
  application pod without label that is deleted at once stays in the index
  (`controller.go:126`).
* When the name of a claim is used again while its old volume still carries
  it, `pairs` leads to the old volume, or the new pair is deleted with it
  (`controller.go:171`, `:192`).  A Bound claim whose volume had no claim
  reference yet, or that was not cached, is never listed (`:195`).
* A Lost claim that is bound again, as its volume came back, is dropped by the
  predicate (`controller.go:307`), and a volume created again without claim
  reference writes no pair (`:186`): the claim has no entry in `pairs` until
  the dashboard restarts (`rebound`).
* `listSysPod` leaves pods of unknown nodes out of a page and counts them in
  the total (`pod.go:233`); `pairs` is read without its lock (`pv.go:217`).

Known hazards without a model: `juicefs-delete-at` is written in local time
and read as UTC (`util.go:301`); `BindTarget` compares with the minor number of
the last line of mountinfo (`juicefs.go:230`), which `MountRef` has as a choice;
`setUUIDAnnotation` and others replace all annotations they read
(`pod_mount.go:471`); in process mode the cache is cleaned while targets on
older devices use it (`juicefs.go:588`); the fuse abort below.

## 6. Not modelled

The fuse abort of `checkMountPodStuck`; the cache clean-up jobs; the validating
webhooks for secrets and PVs (one request, one answer; the check for a
duplicate volume handle races two creations, `handler.go:178`); the text of
commands, probes and resources; the dashboard's handlers that follow objects to
related ones, and its logs and debug pages.  `k8sclient` and `cmd` have no
logic of their own beyond what the actions contain, and the user interface only
shows what the dashboard serves.  Of the API server only its effect on the
objects is modelled; requests are linearizable, watches deliver in order per
kind.

## 7. Plan

Written so far: `MountRef` (the heart of the driver), `RecoverTarget`,
`Provision`, `ProcessMount`, with the first theorems; then
`ControllerService`, the controllers with the refinement of `RefreshedSecret`,
the sidecars and the dashboard; then the theorems of section 4, last those on
sidecars and dashboard.  Every safety property of the runs but `Wired` is now
a theorem.  Next, in this order:

1. `StuckCheck`: device table, grace period and fuse abort of
   `checkMountPodStuck`; the mount path as a stack like in `ProcessMount`, also
   under `umountSource`.
2. Cache clean-up: `setUUIDAnnotation`, `CleanCache` jobs, and the concurrent
   replacement of annotations.
3. Abstract specification of a reference count, refined by `MountRef` without
   deletions from outside.
4. `Wired` for every pod, with numbers of any length and what `%s-%d` makes of
   them.
