------------------------------ MODULE MountRef ------------------------------
(***************************************************************************)
(* The life of the mount pods of one volume on one node.                   *)
(*                                                                         *)
(* Three kinds of threads of the CSI node service work on the same mount   *)
(* pods through the API server: NodePublishVolume and NodeUnpublishVolume  *)
(* calls (one at a time per target path, as the kubelet issues them), and  *)
(* PodDriver.Run, which the reconciler starts for every mount pod it sees  *)
(* in the kubelet's pod list.  They are coordinated by the references kept *)
(* in the mount pod's annotations (one per target) and by the striped pod  *)
(* locks of config.GetPodLock.  One step of a thread is one request to the *)
(* API server or one mount operation, so all interleavings are explored;   *)
(* two requests are one step only where the pod lock keeps every other     *)
(* thread out between them.                                                *)
(***************************************************************************)
EXTENDS Integers, FiniteSets

CONSTANTS
    Targets,      \* target paths; a path holds the uid of one application pod
    PodNames,     \* names of mount pods
    NoName,       \* the empty pod name
    NoOne,        \* nobody holds the lock
    Stripes,      \* the indices of the pod lock array
    Stripe,       \* the index a pod name hashes to
    DeleteDelay,  \* juicefs-delete-delay of the volume, 0 when it is not set
    MaxFail,      \* bound: requests that fail in Publish, Unpublish, checkAnnotations
    MaxDelete,    \* bound: deletions of a mount pod by somebody else
    MaxRestart,   \* bound: restarts of a mount pod's container
    MaxError,     \* bound: mount pods that fail (not for want of resources)
    MaxResource,  \* bound: mount pods refused for want of resources
    MaxAbort,     \* bound: driver contexts cancelled while a pod is re-created
    MaxCrash,     \* bound: crashes of the CSI node service
    RoundTimesOut \* whether a round may last until ReconcileTimeout

ASSUME NamesAssumption ==
    /\ Targets \cap PodNames = {}
    /\ NoOne \notin Targets \cup PodNames
    /\ NoName \notin PodNames
    /\ IsFiniteSet(Targets)

ASSUME StripeAssumption == Stripe \in [PodNames \cup {NoName} -> Stripes]

ASSUME BoundAssumption ==
    /\ DeleteDelay \in Nat /\ MaxFail \in Nat
    /\ MaxDelete \in Nat /\ MaxRestart \in Nat /\ MaxError \in Nat
    /\ MaxResource \in Nat /\ MaxAbort \in Nat /\ MaxCrash \in Nat
    /\ RoundTimesOut \in BOOLEAN

VARIABLES
    pod,      \* pod name -> the pod object in the API server
    secret,   \* the pod names whose "-secret" exists
    fuse,     \* the pod names whose mount path holds a live FUSE mount
    bind,     \* target -> the pod whose mount it is bound to, NoName if unbound
    dead,     \* the bound targets whose FUSE mount is gone (corrupted mounts)
    app,      \* target -> state of the application pod in the kubelet's list
    kvol,     \* target -> what the kubelet knows of the volume
    lock,     \* lock index -> the thread that holds it
    op,       \* target -> its Publish or Unpublish call
    drv,      \* pod name -> its PodDriver.Run
    left      \* what is left of the bounds

vars == <<pod, secret, fuse, bind, dead, app, kvol, lock, op, drv, left>>

api     == <<pod, secret>>
mounts  == <<fuse, bind, dead>>
kubelet == <<app, kvol>>

-----------------------------------------------------------------------------
(* Pod objects *)

Phases == {"pending", "ready", "restarting", "error", "outOf", "unschedulable"}

NoTime == -1

(* refs: targets t with annotation GetReferenceKey(t) = t.  deleteAt: the   *)
(* juicefs-delete-at annotation as the time that is left until then, NoTime *)
(* when it is absent.  hasRes: the spec requests resources.  "outOf" is a   *)
(* pod that failed for want of resources, "unschedulable" one that waits.   *)
Pod == [exists: BOOLEAN, refs: SUBSET Targets, deleting: BOOLEAN, finalizer: BOOLEAN,
        deleteAt: {NoTime} \cup 0..DeleteDelay, phase: Phases, hasRes: BOOLEAN]

NoPod == [exists |-> FALSE, refs |-> {}, deleting |-> FALSE, finalizer |-> FALSE,
          deleteAt |-> NoTime, phase |-> "pending", hasRes |-> FALSE]

NewMountPod(t) ==
    [exists |-> TRUE, refs |-> {t}, deleting |-> FALSE, finalizer |-> TRUE,
     deleteAt |-> NoTime, phase |-> "pending", hasRes |-> TRUE]

(* A pod created again from the labels, annotations and spec of another.    *)
CopyOfPod(po, res) ==
    [po EXCEPT !.exists = TRUE, !.deleting = FALSE, !.finalizer = TRUE,
               !.phase = "pending", !.hasRes = res]

getPodStatus(po) ==
    CASE po.deleting -> "podDeleted"
      [] ~po.deleting /\ po.phase \in {"error", "outOf"} -> "podError"
      [] ~po.deleting /\ po.phase = "ready" -> "podReady"
      [] OTHER -> "podPending"

IsPodResourceError(po) == po.phase \in {"outOf", "unschedulable"}

(* util.ShouldDelay on a copy of the pod: "no", "yes", or "set" when the    *)
(* delete-at annotation has first to be written.                            *)
ShouldDelay(po) ==
    CASE DeleteDelay = 0 -> "no"
      [] DeleteDelay # 0 /\ po.deleteAt = NoTime -> "set"
      [] OTHER -> IF po.deleteAt > 0 THEN "yes" ELSE "no"

WriteDeleteAt(p) == [pod EXCEPT ![p].deleteAt = DeleteDelay]

GetPodLock(name) == Stripe[name]

Acquire(name, who) ==
    /\ lock[GetPodLock(name)] = NoOne
    /\ lock' = [lock EXCEPT ![GetPodLock(name)] = who]

Release(name) == lock' = [lock EXCEPT ![GetPodLock(name)] = NoOne]

-----------------------------------------------------------------------------
(* Threads *)

PublishPCs   == {"pubLock", "pubGet", "addGet", "addPatch", "pubWait", "pubBind", "pubQuota"}
UnpublishPCs == {"unLock", "unUmount", "unGet", "unCheck", "unPatch", "unRef",
                 "jUmount", "unDelete"}
OpLocked     == {"pubGet", "addGet", "addPatch", "unUmount", "unGet", "unCheck", "unPatch",
                 "unRef", "jUmount", "unDelete"}

OpPCs  == {"idle"} \cup PublishPCs \cup UnpublishPCs

Op     == [pc: OpPCs, name: PodNames \cup {NoName}, refs: SUBSET Targets]
IdleOp == [pc |-> "idle", name |-> NoName, refs |-> {}]

DrvPCs    == {"idle", "chkLock", "chkGet", "chkPatch", "chkDelay", "chkDelGet", "chkDelete",
              "dispatch", "recover", "resLock", "resFinalizer", "resDelete", "resWait",
              "deleted", "umount", "recLock", "recWait", "recReady"}
DrvLocked == {"chkGet", "chkPatch", "chkDelay", "chkDelGet", "chkDelete",
              "resFinalizer", "resDelete", "resWait", "recWait", "recReady"}

(* snap: the pod object the run works from; apps, down: the application     *)
(* pods in the kubelet's list, and those of them that are being deleted.    *)
Drv     == [pc: DrvPCs, snap: Pod, apps: SUBSET Targets, down: SUBSET Targets]
IdleDrv == [pc |-> "idle", snap |-> NoPod, apps |-> {}, down |-> {}]

Left == [fail: 0..MaxFail, delete: 0..MaxDelete, restart: 0..MaxRestart,
         error: 0..MaxError, resource: 0..MaxResource, abort: 0..MaxAbort,
         crash: 0..MaxCrash]

TypeOK ==
    /\ pod \in [PodNames -> Pod]
    /\ secret \in SUBSET PodNames
    /\ fuse \in SUBSET PodNames
    /\ bind \in [Targets -> PodNames \cup {NoName}]
    /\ dead \in SUBSET Targets
    /\ app \in [Targets -> {"new", "running", "terminating", "gone"}]
    /\ kvol \in [Targets -> {"unmounted", "uncertain", "mounted"}]
    /\ lock \in [Stripes -> Targets \cup PodNames \cup {NoOne}]
    /\ op \in [Targets -> Op]
    /\ drv \in [PodNames -> Drv]
    /\ left \in Left

Init ==
    /\ pod = [p \in PodNames |-> NoPod]
    /\ secret = {}
    /\ fuse = {}
    /\ bind = [t \in Targets |-> NoName]
    /\ dead = {}
    /\ app = [t \in Targets |-> "new"]
    /\ kvol = [t \in Targets |-> "unmounted"]
    /\ lock = [s \in Stripes |-> NoOne]
    /\ op = [t \in Targets |-> IdleOp]
    /\ drv = [p \in PodNames |-> IdleDrv]
    /\ left = [fail |-> MaxFail, delete |-> MaxDelete, restart |-> MaxRestart,
               error |-> MaxError, resource |-> MaxResource, abort |-> MaxAbort,
               crash |-> MaxCrash]

-----------------------------------------------------------------------------
(* NodePublishVolume: CreateTarget, JMount, BindTarget *)

Goto(t, pc) == op' = [op EXCEPT ![t].pc = pc]

Return(t, k) ==
    /\ op' = [op EXCEPT ![t] = IdleOp]
    /\ kvol' = [kvol EXCEPT ![t] = k]

(* A random name: one that no pod, mount or thread of the node knows.       *)
Fresh(p) ==
    /\ ~pod[p].exists /\ p \notin fuse /\ drv[p].pc = "idle"
    /\ \A t \in Targets : bind[t] # p /\ op[t].name # p

(* The name of a mount pod that is not being deleted, else a new one; the   *)
(* list is read without any lock.                                           *)
genMountPodName(p) ==
    LET usable == {q \in PodNames : pod[q].exists /\ ~pod[q].deleting}
    IN  p \in usable \/ (usable = {} /\ Fresh(p))

(* A target that is a corrupted mount is unmounted first.                   *)
CreateTarget(t) ==
    /\ bind' = IF t \in dead THEN [bind EXCEPT ![t] = NoName] ELSE bind
    /\ dead' = dead \ {t}

NodePublishVolume(t) ==
    /\ op[t].pc = "idle" /\ app[t] = "running" /\ kvol[t] # "mounted"
    /\ CreateTarget(t)
    /\ kvol' = [kvol EXCEPT ![t] = "uncertain"]
    /\ \E p \in PodNames :
        /\ genMountPodName(p)
        /\ op' = [op EXCEPT ![t] = [pc |-> "pubLock", name |-> p, refs |-> {}]]
    /\ UNCHANGED <<api, fuse, app, lock, drv, left>>

LockCreateOrAddRef(t) ==
    /\ op[t].pc = "pubLock"
    /\ Acquire(op[t].name, t)
    /\ Goto(t, "pubGet")
    /\ UNCHANGED <<api, mounts, kubelet, drv, left>>

(* While the pod is being deleted the loop goes round, the lock held.       *)
createOrAddRef(t) ==
    LET p == op[t].name IN
    /\ op[t].pc = "pubGet"
    /\ \/ /\ ~pod[p].exists
          /\ pod' = [pod EXCEPT ![p] = NewMountPod(t)]
          /\ Release(p)
          /\ Goto(t, "pubWait")
       \/ /\ pod[p].exists /\ ~pod[p].deleting
          /\ Goto(t, "addGet")
          /\ UNCHANGED <<pod, lock>>
    /\ secret' = secret \cup {p}
    /\ UNCHANGED <<mounts, kubelet, drv, left>>

(* Seeded fault: the early return forgets the lock.                         *)
createOrAddRefTimeoutNoUnlock(t) ==
    LET p == op[t].name IN
    /\ op[t].pc = "pubGet" /\ pod[p].exists /\ pod[p].deleting
    /\ Return(t, "uncertain")
    /\ UNCHANGED <<api, mounts, app, lock, drv, left>>

(* Seeded fault: the wait has no deadline.                                  *)
createOrAddRefNoTimeout(t) ==
    /\ op[t].pc = "pubGet" /\ FALSE
    /\ UNCHANGED vars

(* waitCtx: 60 seconds have passed and the old pod is still there.          *)
createOrAddRefTimeout(t) ==
    LET p == op[t].name IN
    /\ op[t].pc = "pubGet" /\ pod[p].exists /\ pod[p].deleting
    /\ Release(p)
    /\ Return(t, "uncertain")
    /\ UNCHANGED <<api, mounts, app, drv, left>>

AddRefOfMountGet(t) ==
    LET p == op[t].name IN
    /\ op[t].pc = "addGet"
    /\ \/ /\ ~pod[p].exists \/ pod[p].deleting
          /\ Release(p)
          /\ Return(t, "uncertain")
       \/ /\ pod[p].exists /\ ~pod[p].deleting
          /\ \/ /\ t \in pod[p].refs
                /\ Release(p)
                /\ Goto(t, "pubWait")
             \/ /\ t \notin pod[p].refs
                /\ op' = [op EXCEPT ![t].pc = "addPatch", ![t].refs = pod[p].refs]
                /\ UNCHANGED lock
          /\ UNCHANGED kvol
    /\ UNCHANGED <<api, mounts, app, drv, left>>

(* Seeded fault: the new map holds only the caller's reference.             *)
AddRefOfMountPatchAlone(t) ==
    LET p == op[t].name IN
    /\ op[t].pc = "addPatch"
    /\ Release(p)
    /\ \/ /\ ~pod[p].exists
          /\ Return(t, "uncertain")
          /\ UNCHANGED pod
       \/ /\ pod[p].exists
          /\ pod' = [pod EXCEPT ![p].refs = {t}, ![p].deleteAt = NoTime]
          /\ op' = [op EXCEPT ![t].pc = "pubWait", ![t].refs = {}]
          /\ UNCHANGED kvol
    /\ UNCHANGED <<secret, mounts, app, drv, left>>

(* ReplacePodAnnotation: the whole map is written, without resourceVersion. *)
AddRefOfMountPatch(t) ==
    LET p == op[t].name IN
    /\ op[t].pc = "addPatch"
    /\ Release(p)
    /\ \/ /\ ~pod[p].exists
          /\ Return(t, "uncertain")
          /\ UNCHANGED pod
       \/ /\ pod[p].exists
          /\ pod' = [pod EXCEPT ![p].refs = op[t].refs \cup {t}, ![p].deleteAt = NoTime]
          /\ op' = [op EXCEPT ![t].pc = "pubWait", ![t].refs = {}]
          /\ UNCHANGED kvol
    /\ UNCHANGED <<secret, mounts, app, drv, left>>

waitUtilMountReady(t) ==
    /\ op[t].pc = "pubWait"
    /\ \/ op[t].name \in fuse /\ Goto(t, "pubBind") /\ UNCHANGED kvol
       \/ op[t].name \notin fuse /\ Return(t, "uncertain")
    /\ UNCHANGED <<api, mounts, app, lock, drv, left>>

(* *targetMinor is the minor of the last line of mountinfo, whatever the    *)
(* target is bound to: a bound target may be taken for one already bound to *)
(* the mount path.                                                          *)
BindTarget(t) ==
    LET p == op[t].name IN
    /\ op[t].pc = "pubBind"
    /\ \/ /\ p \notin fuse
          /\ Return(t, "uncertain")
          /\ UNCHANGED <<bind, dead>>
       \/ /\ p \in fuse
          /\ Goto(t, "pubQuota")
          /\ \/ /\ bind' = [bind EXCEPT ![t] = p]
                /\ dead' = dead \ {t}
             \/ /\ bind[t] # NoName
                /\ UNCHANGED <<bind, dead>>
          /\ UNCHANGED kvol
    /\ UNCHANGED <<api, fuse, app, lock, drv, left>>

(* An error of SetQuota is only logged.                                     *)
SetQuotaAndReply(t) ==
    /\ op[t].pc = "pubQuota"
    /\ Return(t, "mounted")
    /\ UNCHANGED <<api, mounts, app, lock, drv, left>>

-----------------------------------------------------------------------------
(* NodeUnpublishVolume: JfsUnmount, UmountTarget, JUmount *)

(* The pod that carries the reference, found before the lock is taken.      *)
JfsUnmount(t) ==
    LET holders == {p \in PodNames : pod[p].exists /\ t \in pod[p].refs} IN
    /\ op[t].pc = "idle" /\ kvol[t] # "unmounted" /\ app[t] \in {"terminating", "gone"}
    /\ \E name \in (IF holders = {} THEN {NoName} ELSE holders) :
        op' = [op EXCEPT ![t] = [pc |-> "unLock", name |-> name, refs |-> {}]]
    /\ UNCHANGED <<api, mounts, kubelet, lock, drv, left>>

LockJfsUnmount(t) ==
    /\ op[t].pc = "unLock"
    /\ Acquire(op[t].name, t)
    /\ Goto(t, "unUmount")
    /\ UNCHANGED <<api, mounts, kubelet, drv, left>>

(* Lazy umount until the target is not mounted any more.                    *)
UmountTarget(t) ==
    /\ op[t].pc = "unUmount"
    /\ bind' = [bind EXCEPT ![t] = NoName]
    /\ dead' = dead \ {t}
    /\ \/ /\ op[t].name = NoName
          /\ Release(NoName)
          /\ Return(t, "unmounted")
       \/ /\ op[t].name # NoName
          /\ Goto(t, "unGet")
          /\ UNCHANGED <<kvol, lock>>
    /\ UNCHANGED <<api, fuse, app, drv, left>>

UmountTargetGet(t) ==
    /\ op[t].pc = "unGet"
    /\ Goto(t, IF pod[op[t].name].exists THEN "unCheck" ELSE "unRef")
    /\ UNCHANGED <<api, mounts, kubelet, lock, drv, left>>

(* The pod is read once more; that it has gone meanwhile is an error.       *)
UmountTargetCheck(t) ==
    LET p == op[t].name IN
    /\ op[t].pc = "unCheck"
    /\ \/ /\ pod[p].exists
          /\ Goto(t, IF t \in pod[p].refs THEN "unPatch" ELSE "unRef")
          /\ UNCHANGED <<kvol, lock>>
       \/ ~pod[p].exists /\ Release(p) /\ Return(t, kvol[t])
    /\ UNCHANGED <<api, mounts, app, drv, left>>

(* JSON patch "remove" fails when the pod or the key is not there.          *)
UmountTargetPatch(t) ==
    LET p == op[t].name IN
    /\ op[t].pc = "unPatch"
    /\ \/ /\ pod[p].exists /\ t \in pod[p].refs
          /\ pod' = [pod EXCEPT ![p].refs = @ \ {t}]
          /\ Goto(t, "unRef")
          /\ UNCHANGED <<kvol, lock>>
       \/ /\ ~pod[p].exists \/ t \notin pod[p].refs
          /\ Release(p)
          /\ Return(t, kvol[t])
          /\ UNCHANGED pod
    /\ UNCHANGED <<secret, mounts, app, drv, left>>

GetMountRef(t) ==
    LET p == op[t].name IN
    /\ op[t].pc = "unRef"
    /\ \/ /\ pod[p].refs = {}
          /\ Goto(t, "jUmount")
          /\ UNCHANGED <<kvol, lock>>
       \/ /\ pod[p].refs # {}
          /\ Release(p)
          /\ Return(t, "unmounted")
    /\ UNCHANGED <<api, mounts, app, drv, left>>

JUmount(t) ==
    LET p == op[t].name IN
    /\ op[t].pc = "jUmount"
    /\ \/ /\ pod[p].exists /\ pod[p].refs = {} /\ ShouldDelay(pod[p]) = "no"
          /\ Goto(t, "unDelete")
          /\ UNCHANGED <<pod, kvol, lock>>
       \/ /\ ~pod[p].exists \/ pod[p].refs # {} \/ ShouldDelay(pod[p]) # "no"
          /\ pod' = IF pod[p].exists /\ pod[p].refs = {} /\ ShouldDelay(pod[p]) = "set"
                    THEN WriteDeleteAt(p)
                    ELSE pod
          /\ Release(p)
          /\ Return(t, "unmounted")
    /\ UNCHANGED <<secret, mounts, app, drv, left>>

JUmountDelete(t) ==
    LET p == op[t].name IN
    /\ op[t].pc = "unDelete"
    /\ Release(p)
    /\ \/ /\ pod[p].exists
          /\ pod' = [pod EXCEPT ![p].deleting = TRUE]
          /\ secret' = secret \ {p}
          /\ Return(t, "unmounted")
       \/ /\ ~pod[p].exists
          /\ Return(t, kvol[t])
          /\ UNCHANGED api
    /\ UNCHANGED <<mounts, app, drv, left>>

(* Any request of the call fails: the handler returns the error.            *)
OpFail(t) ==
    /\ op[t].pc # "idle" /\ left.fail > 0
    /\ left' = [left EXCEPT !.fail = @ - 1]
    /\ IF op[t].pc \in OpLocked THEN Release(op[t].name) ELSE UNCHANGED lock
    /\ Return(t, kvol[t])
    /\ UNCHANGED <<api, mounts, app, drv>>

-----------------------------------------------------------------------------
(* PodDriver.Run: checkAnnotations, then the handler of the pod's status *)

DGoto(p, pc) == drv' = [drv EXCEPT ![p].pc = pc]

DEnd(p) == drv' = [drv EXCEPT ![p] = IdleDrv]

(* The reconciler hands the run one answer of the kubelet: the mount pod    *)
(* and the application pods of the node.                                    *)
Run(p) ==
    /\ drv[p].pc = "idle" /\ pod[p].exists
    /\ drv' = [drv EXCEPT ![p] =
         [pc |-> "chkLock", snap |-> pod[p],
          apps |-> {t \in Targets : app[t] \in {"running", "terminating"}},
          down |-> {t \in Targets : app[t] = "terminating"}]]
    /\ UNCHANGED <<api, mounts, kubelet, lock, op, left>>

(* Seeded fault: a pod that is being deleted counts as gone.                *)
delAnnotationsOfTerminating(d) == d.snap.refs \ (d.apps \ d.down)

(* Seeded fault: references that nobody uses stay.                          *)
delAnnotationsNever(d) == {}

(* References of application pods that are not in the list, and the rest.   *)
delAnnotations(d) == d.snap.refs \ d.apps
existTargets(d)   == d.snap.refs \cap d.apps
delDeleteAt(d)    == existTargets(d) # {} /\ d.snap.deleteAt # NoTime
noTargets(d)      == existTargets(d) = {} /\ ~d.snap.deleting

checkAnnotations(p) ==
    LET d == drv[p]
        patch == delAnnotations(d) # {} \/ delDeleteAt(d)
    IN
    /\ d.pc = "chkLock"
    /\ lock[GetPodLock(p)] = NoOne
    /\ \/ /\ patch \/ noTargets(d)
          /\ Acquire(p, p)
          /\ DGoto(p, IF patch THEN "chkGet" ELSE "chkDelay")
       \/ /\ ~patch /\ ~noTargets(d)
          /\ DGoto(p, "dispatch")
          /\ UNCHANGED lock
    /\ UNCHANGED <<api, mounts, kubelet, op, left>>

(* The pod has another number of references than the copy: conflict.        *)
checkAnnotationsGet(p) ==
    LET d == drv[p]
        same == pod[p].exists /\ Cardinality(pod[p].refs) = Cardinality(d.snap.refs)
    IN
    /\ d.pc = "chkGet"
    /\ \/ same /\ DGoto(p, "chkPatch") /\ UNCHANGED lock
       \/ ~same /\ Release(p) /\ DEnd(p)
    /\ UNCHANGED <<api, mounts, kubelet, op, left>>

(* JSON patch "remove" of every key; it fails when one is not there.        *)
checkAnnotationsPatch(p) ==
    LET d == drv[p]
        applies == /\ pod[p].exists
                   /\ delAnnotations(d) \subseteq pod[p].refs
                   /\ delDeleteAt(d) => pod[p].deleteAt # NoTime
    IN
    /\ d.pc = "chkPatch"
    /\ \/ /\ applies
          /\ pod' = [pod EXCEPT ![p].refs = @ \ delAnnotations(d),
                                ![p].deleteAt = IF delDeleteAt(d) THEN NoTime ELSE @]
          /\ \/ noTargets(d) /\ DGoto(p, "chkDelay") /\ UNCHANGED lock
             \/ ~noTargets(d) /\ Release(p) /\ DGoto(p, "dispatch")
       \/ /\ ~applies
          /\ Release(p)
          /\ DEnd(p)
          /\ UNCHANGED pod
    /\ UNCHANGED <<secret, mounts, kubelet, op, left>>

(* ShouldDelay looks at the copy, and writes delete-at to the pod.          *)
checkAnnotationsDelay(p) ==
    LET d == drv[p] IN
    /\ d.pc = "chkDelay"
    /\ \/ /\ ShouldDelay(d.snap) = "no"
          /\ DGoto(p, "chkDelGet")
          /\ UNCHANGED <<pod, lock>>
       \/ /\ ShouldDelay(d.snap) = "set" /\ pod[p].exists
          /\ pod' = WriteDeleteAt(p)
          /\ Release(p)
          /\ DGoto(p, "dispatch")
       \/ /\ ShouldDelay(d.snap) = "set" /\ ~pod[p].exists
          /\ Release(p)
          /\ DEnd(p)
          /\ UNCHANGED pod
       \/ /\ ShouldDelay(d.snap) = "yes"
          /\ Release(p)
          /\ DGoto(p, "dispatch")
          /\ UNCHANGED pod
    /\ UNCHANGED <<secret, mounts, kubelet, op, left>>

(* Seeded fault: the references are not counted again before the deletion.  *)
checkAnnotationsDelGetUnchecked(p) ==
    LET unused == pod[p].exists IN
    /\ drv[p].pc = "chkDelGet"
    /\ \/ unused /\ DGoto(p, "chkDelete") /\ UNCHANGED lock
       \/ ~unused /\ Release(p) /\ DEnd(p)
    /\ UNCHANGED <<api, mounts, kubelet, op, left>>

(* Seeded fault: the secret is deleted before the references are counted.   *)
checkAnnotationsDelGetSecretFirst(p) ==
    LET unused == pod[p].exists /\ pod[p].refs = {} IN
    /\ drv[p].pc = "chkDelGet"
    /\ \/ unused /\ DGoto(p, "chkDelete") /\ UNCHANGED lock
       \/ ~unused /\ Release(p) /\ DEnd(p)
    /\ secret' = secret \ {p}
    /\ UNCHANGED <<pod, mounts, kubelet, op, left>>

checkAnnotationsDelGet(p) ==
    LET unused == pod[p].exists /\ pod[p].refs = {} IN
    /\ drv[p].pc = "chkDelGet"
    /\ \/ unused /\ DGoto(p, "chkDelete") /\ UNCHANGED lock
       \/ ~unused /\ Release(p) /\ DEnd(p)
    /\ UNCHANGED <<api, mounts, kubelet, op, left>>

checkAnnotationsDelete(p) ==
    /\ drv[p].pc = "chkDelete"
    /\ Release(p)
    /\ \/ /\ pod[p].exists
          /\ pod' = [pod EXCEPT ![p].deleting = TRUE]
          /\ secret' = secret \ {p}
          /\ DGoto(p, "dispatch")
       \/ /\ ~pod[p].exists
          /\ DEnd(p)
          /\ UNCHANGED api
    /\ UNCHANGED <<mounts, kubelet, op, left>>

(* The handler for a pod object; one that finds nothing to do ends the run. *)
handlers(po) ==
    CASE getPodStatus(po) = "podReady" -> "recover"
      [] getPodStatus(po) = "podDeleted" -> IF po.finalizer THEN "deleted" ELSE "idle"
      [] OTHER -> IF IsPodResourceError(po) /\ po.hasRes THEN "resLock" ELSE "idle"

(* For the statuses podError and podDeleted the pod is read again, with no  *)
(* lock held; the other handlers work on the kubelet's copy.                *)
dispatch(p) ==
    LET d == drv[p]
        again == getPodStatus(d.snap) \in {"podError", "podDeleted"}
        po == IF again THEN pod[p] ELSE d.snap
        to == IF po.exists THEN handlers(po) ELSE "idle"
    IN
    /\ d.pc = "dispatch"
    /\ drv' = [drv EXCEPT ![p] = IF to = "idle" THEN IdleDrv
                                 ELSE [d EXCEPT !.pc = to, !.snap = po, !.apps = {}]]
    /\ UNCHANGED <<api, mounts, kubelet, lock, op, left>>

(* Seeded fault: the test for a deleted application pod is inverted.        *)
RecoveredInverted(d) == {t \in dead : t \in d.snap.refs /\ t \in d.down}

(* recoverTarget for the targets of the pod: a corrupted target is bound    *)
(* again unless its application pod is in the list as being deleted (an     *)
(* application pod that is not in the list counts as alive here).           *)
Recovered(d) == {t \in dead : t \in d.snap.refs /\ t \notin d.down}

recover(p) ==
    LET rec == Recovered(drv[p]) IN
    /\ dead' = dead \ rec
    /\ bind' = [t \in Targets |-> IF t \in rec THEN p ELSE bind[t]]

podReadyHandler(p) ==
    /\ drv[p].pc = "recover"
    /\ IF p \in fuse THEN recover(p) ELSE UNCHANGED <<bind, dead>>
    /\ DEnd(p)
    /\ UNCHANGED <<api, fuse, kubelet, lock, op, left>>

-----------------------------------------------------------------------------
(* podErrorHandler and podPendingHandler: the same body, deploy the pod     *)
(* again without resources; the first gets the pod as read by Run, the      *)
(* second the kubelet's copy.                                               *)

podErrorHandler(p) ==
    /\ drv[p].pc = "resLock"
    /\ Acquire(p, p)
    /\ DGoto(p, "resFinalizer")
    /\ UNCHANGED <<api, mounts, kubelet, op, left>>

(* The error of RemoveFinalizer is ignored.                                 *)
resRemoveFinalizer(p) ==
    /\ drv[p].pc = "resFinalizer"
    /\ pod' = [pod EXCEPT ![p].finalizer = FALSE]
    /\ DGoto(p, "resDelete")
    /\ UNCHANGED <<secret, mounts, kubelet, lock, op, left>>

resDeletePod(p) ==
    /\ drv[p].pc = "resDelete"
    /\ \/ /\ pod[p].exists
          /\ pod' = [pod EXCEPT ![p].deleting = TRUE]
          /\ DGoto(p, "resWait")
          /\ UNCHANGED lock
       \/ /\ ~pod[p].exists
          /\ Release(p)
          /\ DEnd(p)
          /\ UNCHANGED pod
    /\ UNCHANGED <<secret, mounts, kubelet, op, left>>

resCreatePod(p) ==
    /\ drv[p].pc = "resWait" /\ ~pod[p].exists
    /\ pod' = [pod EXCEPT ![p] = CopyOfPod(drv[p].snap, FALSE)]
    /\ Release(p)
    /\ DEnd(p)
    /\ UNCHANGED <<secret, mounts, kubelet, op, left>>

-----------------------------------------------------------------------------
(* podDeletedHandler *)

podDeletedHandler(p) ==
    LET d == drv[p]
        to == CASE IsPodResourceError(d.snap) -> "idle"
                [] ~IsPodResourceError(d.snap) /\ d.snap.refs = {} -> "umount"
                [] OTHER -> "recLock"
    IN
    /\ d.pc = "deleted"
    /\ \/ /\ pod[p].exists
          /\ pod' = [pod EXCEPT ![p].finalizer = FALSE]
          /\ IF to = "idle" THEN DEnd(p) ELSE DGoto(p, to)
       \/ ~pod[p].exists /\ DEnd(p) /\ UNCHANGED pod
    /\ UNCHANGED <<secret, mounts, kubelet, lock, op, left>>

(* UmountPath and CleanupMountPoint of the mount path, with no lock held.   *)
umountSource(p) ==
    /\ drv[p].pc = "umount"
    /\ fuse' = fuse \ {p}
    /\ DEnd(p)
    /\ UNCHANGED <<api, bind, dead, kubelet, lock, op, left>>

lockRecreate(p) ==
    /\ drv[p].pc = "recLock"
    /\ Acquire(p, p)
    /\ DGoto(p, "recWait")
    /\ UNCHANGED <<api, mounts, kubelet, op, left>>

(* The old pod is gone: create it again.  Created elsewhere: add the        *)
(* references.  While it is being deleted the loop goes round.              *)
recreatePod(p) ==
    LET d == drv[p] IN
    /\ d.pc = "recWait"
    /\ \/ /\ ~pod[p].exists
          /\ \E res \in {d.snap.hasRes, TRUE} :
                pod' = [pod EXCEPT ![p] = CopyOfPod(d.snap, res)]
          /\ fuse' = fuse \ {p}
          /\ DGoto(p, "recReady")
          /\ UNCHANGED lock
       \/ /\ pod[p].exists /\ ~pod[p].deleting
          /\ pod' = [pod EXCEPT ![p].refs = @ \cup d.snap.refs]
          /\ Release(p)
          /\ DEnd(p)
          /\ UNCHANGED fuse
    /\ UNCHANGED <<secret, bind, dead, kubelet, op, left>>

(* WaitUtilMountReady, 30 seconds, then recover, under the lock.            *)
recoverRecreated(p) ==
    /\ drv[p].pc = "recReady"
    /\ IF p \in fuse THEN recover(p) ELSE UNCHANGED <<bind, dead>>
    /\ Release(p)
    /\ DEnd(p)
    /\ UNCHANGED <<api, fuse, kubelet, op, left>>

(* A request of the run fails before a pod is being re-created.             *)
DrvFail(p) ==
    /\ drv[p].pc \notin {"idle", "resWait", "recLock", "recWait", "recReady"}
    /\ left.fail > 0
    /\ left' = [left EXCEPT !.fail = @ - 1]
    /\ IF drv[p].pc \in DrvLocked THEN Release(p) ELSE UNCHANGED lock
    /\ DEnd(p)
    /\ UNCHANGED <<api, mounts, kubelet, op>>

(* The context of the round is cancelled (another pod's run returned an     *)
(* error, or the round timed out) while the old pod is still being deleted. *)
DrvAbort(p) ==
    /\ drv[p].pc \in {"resWait", "recWait"} /\ left.abort > 0
    /\ left' = [left EXCEPT !.abort = @ - 1]
    /\ Release(p)
    /\ DEnd(p)
    /\ UNCHANGED <<api, mounts, kubelet, op>>

(* ReconcileTimeout: the pod waited for cannot go away, because the run     *)
(* that would remove its finalizer is the one that waits.                   *)
DrvTimeout(p) ==
    /\ RoundTimesOut /\ drv[p].pc \in {"resWait", "recWait"}
    /\ pod[p].exists /\ pod[p].deleting /\ pod[p].finalizer
    /\ Release(p)
    /\ DEnd(p)
    /\ UNCHANGED <<api, mounts, kubelet, op, left>>

-----------------------------------------------------------------------------
(* The API server, the kubelet, users, time *)

(* A mount pod's FUSE mount disappears: what is bound to it is corrupted.   *)
KillMount(p) ==
    /\ fuse' = fuse \ {p}
    /\ dead' = dead \cup {t \in Targets : bind[t] = p}

MountPodReady(p) ==
    /\ pod[p].exists /\ ~pod[p].deleting /\ pod[p].phase \in {"pending", "restarting", "error"}
    /\ pod' = [pod EXCEPT ![p].phase = "ready"]
    /\ fuse' = fuse \cup {p}
    /\ UNCHANGED <<secret, bind, dead, kubelet, lock, op, drv, left>>

MountPodRestart(p) ==
    /\ pod[p].exists /\ ~pod[p].deleting /\ pod[p].phase = "ready" /\ left.restart > 0
    /\ left' = [left EXCEPT !.restart = @ - 1]
    /\ pod' = [pod EXCEPT ![p].phase = "restarting"]
    /\ KillMount(p)
    /\ UNCHANGED <<secret, bind, kubelet, lock, op, drv>>

MountPodFailed(p) ==
    /\ pod[p].exists /\ pod[p].phase \in {"pending", "ready"} /\ left.error > 0
    /\ left' = [left EXCEPT !.error = @ - 1]
    /\ pod' = [pod EXCEPT ![p].phase = "error"]
    /\ KillMount(p)
    /\ UNCHANGED <<secret, bind, kubelet, lock, op, drv>>

MountPodNoResource(p) ==
    /\ pod[p].exists /\ pod[p].phase = "pending" /\ pod[p].hasRes /\ left.resource > 0
    /\ left' = [left EXCEPT !.resource = @ - 1]
    /\ \E ph \in {"outOf", "unschedulable"} : pod' = [pod EXCEPT ![p].phase = ph]
    /\ UNCHANGED <<secret, mounts, kubelet, lock, op, drv>>

(* kubectl delete, an eviction, the dashboard.                              *)
DeletedElsewhere(p) ==
    /\ pod[p].exists /\ ~pod[p].deleting /\ left.delete > 0
    /\ left' = [left EXCEPT !.delete = @ - 1]
    /\ pod' = [pod EXCEPT ![p].deleting = TRUE]
    /\ UNCHANGED <<secret, mounts, kubelet, lock, op, drv>>

MountPodGone(p) ==
    /\ pod[p].exists /\ pod[p].deleting /\ ~pod[p].finalizer
    /\ pod' = [pod EXCEPT ![p] = NoPod]
    /\ KillMount(p)
    /\ UNCHANGED <<secret, bind, kubelet, lock, op, drv, left>>

AppStep(t) ==
    /\ \/ app[t] = "new" /\ app' = [app EXCEPT ![t] = "running"]
       \/ app[t] = "running" /\ app' = [app EXCEPT ![t] = "terminating"]
       \/ app[t] = "terminating" /\ app' = [app EXCEPT ![t] = "gone"]
    /\ UNCHANGED <<api, mounts, kvol, lock, op, drv, left>>

(* Time passes: for the pods and for the copies the runs work from.         *)
Later(po) == [po EXCEPT !.deleteAt = IF @ > 0 THEN @ - 1 ELSE @]

Tick ==
    /\ \E p \in PodNames : pod[p].deleteAt > 0 \/ drv[p].snap.deleteAt > 0
    /\ pod' = [p \in PodNames |-> Later(pod[p])]
    /\ drv' = [p \in PodNames |-> [drv[p] EXCEPT !.snap = Later(@)]]
    /\ UNCHANGED <<secret, mounts, kubelet, lock, op, left>>

(* The node service starts anew: calls, runs and locks were in its memory.  *)
Crash ==
    /\ left.crash > 0
    /\ left' = [left EXCEPT !.crash = @ - 1]
    /\ op' = [t \in Targets |-> IdleOp]
    /\ drv' = [p \in PodNames |-> IdleDrv]
    /\ lock' = [s \in Stripes |-> NoOne]
    /\ UNCHANGED <<api, mounts, kubelet>>

-----------------------------------------------------------------------------
OpLock(t) == LockCreateOrAddRef(t) \/ LockJfsUnmount(t)

OpStep(t) ==
    \/ NodePublishVolume(t) \/ createOrAddRef(t) \/ createOrAddRefTimeout(t)
    \/ AddRefOfMountGet(t) \/ AddRefOfMountPatch(t) \/ waitUtilMountReady(t)
    \/ BindTarget(t) \/ SetQuotaAndReply(t)
    \/ JfsUnmount(t) \/ UmountTarget(t) \/ UmountTargetGet(t) \/ UmountTargetCheck(t)
    \/ UmountTargetPatch(t) \/ GetMountRef(t) \/ JUmount(t) \/ JUmountDelete(t)

DrvLock(p) == checkAnnotations(p) \/ podErrorHandler(p) \/ lockRecreate(p)

DrvStep(p) ==
    \/ Run(p) \/ checkAnnotationsGet(p) \/ checkAnnotationsPatch(p)
    \/ checkAnnotationsDelay(p) \/ checkAnnotationsDelGet(p) \/ checkAnnotationsDelete(p)
    \/ dispatch(p) \/ podReadyHandler(p)
    \/ resRemoveFinalizer(p) \/ resDeletePod(p) \/ resCreatePod(p)
    \/ podDeletedHandler(p) \/ umountSource(p) \/ recreatePod(p) \/ recoverRecreated(p)
    \/ DrvTimeout(p)

Environment ==
    \/ \E p \in PodNames :
          \/ MountPodReady(p) \/ MountPodRestart(p) \/ MountPodFailed(p)
          \/ MountPodNoResource(p) \/ DeletedElsewhere(p) \/ MountPodGone(p)
    \/ \E t \in Targets : AppStep(t)
    \/ Tick
    \/ Crash

Next ==
    \/ \E t \in Targets : OpLock(t) \/ OpStep(t) \/ OpFail(t)
    \/ \E p \in PodNames : DrvLock(p) \/ DrvStep(p) \/ DrvFail(p) \/ DrvAbort(p)
    \/ Environment

Spec == Init /\ [][Next]_vars

(* Threads run; a sync.Mutex hands the lock to a waiter (strong fairness);  *)
(* the kubelet starts and removes pods; the clock advances.                 *)
Fairness ==
    /\ \A t \in Targets : WF_vars(OpStep(t)) /\ SF_vars(OpLock(t))
    /\ \A p \in PodNames :
          /\ WF_vars(DrvStep(p)) /\ SF_vars(DrvLock(p))
          /\ WF_vars(MountPodReady(p)) /\ WF_vars(MountPodGone(p))
    /\ WF_vars(Tick)

FairSpec == Spec /\ Fairness

-----------------------------------------------------------------------------
(* Properties *)

(* A mutex of the lock array is held by exactly the thread that is between  *)
(* Lock and Unlock, on every return path of createOrAddRef, JfsUnmount,     *)
(* checkAnnotations and the handlers: two threads never work on the same    *)
(* pod under the lock, and no lock is left behind.                          *)
HoldsLock(who, s) ==
    \/ who \in Targets /\ op[who].pc \in OpLocked /\ GetPodLock(op[who].name) = s
    \/ who \in PodNames /\ drv[who].pc \in DrvLocked /\ GetPodLock(who) = s

LockOwned ==
    \A s \in Stripes : \A who \in Targets \cup PodNames :
        HoldsLock(who, s) <=> lock[s] = who

(* A target that the kubelet has mounted for a running application keeps    *)
(* its reference on a mount pod, or a run of the driver that is about to    *)
(* re-create the pod still has it in hand (pod_mount.go AddRefOfMount,      *)
(* pod_driver.go checkAnnotations and podDeletedHandler).                   *)
InUse(t) == kvol[t] = "mounted" /\ app[t] = "running"

RefHeld(t) ==
    \E p \in PodNames :
        \/ pod[p].exists /\ t \in pod[p].refs
        \/ drv[p].pc \in {"recLock", "recWait"} /\ t \in drv[p].snap.refs

RefKept == \A t \in Targets : InUse(t) => RefHeld(t)

(* The secret of a mount pod is there as long as an application uses the    *)
(* pod: JUmount and checkAnnotations delete it with the pod,                *)
(* createOrAddRef writes it before the reference.                           *)
SecretKept ==
    \A p \in PodNames : \A t \in Targets :
        (InUse(t) /\ bind[t] = p /\ pod[p].exists /\ ~pod[p].deleting) => p \in secret

(* JUmount and checkAnnotations delete a mount pod only while it has no     *)
(* reference, whatever was published since they looked.                     *)
DeletedByCSI(p) ==
    /\ pod[p].exists /\ ~pod[p].deleting /\ pod'[p].deleting
    /\ left' = left /\ drv[p].pc # "resDelete"

DeletesOnlyUnused == [][\A p \in PodNames : DeletedByCSI(p) => pod[p].refs = {}]_vars

(* A reference leaves the annotations of a pod only when NodeUnpublish of   *)
(* its target removes it, or when its application is gone: no writer of the *)
(* annotations overwrites what another one added.                           *)
DropsOnlyUnusedRefs ==
    [][\A p \in PodNames : \A t \in Targets :
          (pod[p].exists /\ pod'[p].exists /\ t \in pod[p].refs /\ t \notin pod'[p].refs)
             => (app[t] = "gone" \/ op[t].pc = "unPatch")]_vars

(* Every NodePublish and NodeUnpublish call returns, also when it waits,    *)
(* the lock held, for a pod whose finalizer the driver can only remove      *)
(* after it has had that lock.                                              *)
CallsReturn == \A t \in Targets : op[t].pc # "idle" ~> op[t].pc = "idle"

(* When no application is left, all mount pods disappear: the driver drops  *)
(* the references of calls that failed half way and of applications that    *)
(* are gone, deletes the pods and removes their finalizers.                 *)
NoLeak ==
    (\A t \in Targets : app[t] = "gone") ~> (\A p \in PodNames : ~pod[p].exists)

(* A target whose mount died (mount pod restarted, or deleted by somebody)  *)
(* is bound to a live mount again as long as its application runs.          *)
Recovers ==
    \A t \in Targets : (InUse(t) /\ t \in dead) ~> (t \notin dead \/ ~InUse(t))

=============================================================================
