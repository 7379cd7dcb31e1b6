----------------------------- MODULE MountWatch -----------------------------
(***************************************************************************)
(* Two controllers for the same mount pod.  PodController runs PodDriver   *)
(* in the CSI node service of the pod's node when the kubelet cannot be    *)
(* asked: it drops the references of applications that are gone, lets a    *)
(* deleted pod go and creates it again when it is still referred to, and   *)
(* replaces a pod that lacks resources by one that requests none.          *)
(* MountController, in the CSI controller, lets a deleted pod go when its  *)
(* node has no CSI node pod any more.  Both are told of changes, read the  *)
(* pod from the API server, and patch it by its name.                      *)
(*                                                                         *)
(* One node, one volume and one name for its mount pod are followed.       *)
(* Publishing and unpublishing are those of MountRef, as far as they       *)
(* change the pod; no delay of deletions is configured.                    *)
(***************************************************************************)
EXTENDS FiniteSets, Naturals

CONSTANT Apps   \* applications on the node that use the volume

VARIABLES
    mountPod,   \* the mount pod in the API server
    appPods,    \* app -> its pod in the API server
    pv,         \* the PV: "claimed", "unclaimed" or "gone"
    csi,        \* the CSI node pod of the node: "none", "starting" or "up"
    podQ,       \* whether the mount pod is in PodController's queue
    podTimer,   \* whether a requeue after ten minutes is pending
    podW,       \* PodController's Reconcile under way
    mountQ,     \* whether the mount pod is in MountController's queue
    mountW,     \* MountController's Reconcile under way
    passed,     \* history: MountController left the pod to the CSI node
    crossed,    \* history: the pod was replaced while a controller was about to patch it
    bared,      \* history: the pod's finalizer was taken for a deletion that did not follow
    watchLeft   \* what is left of the bounds: apps, delete, lack, csi, fail

podController   == <<podQ, podTimer, podW>>
mountController == <<mountQ, mountW>>
history         == <<passed, crossed, bared>>
cluster         == <<appPods, pv, csi>>
watchVars == <<mountPod, cluster, podController, mountController, history, watchLeft>>

(* res: the pod requests resources; lack: it failed ("outOf") or waits      *)
(* ("unschedulable") for want of resources.                                 *)
NoPod   == [state |-> "none", fin |-> FALSE, refs |-> {}, res |-> FALSE, lack |-> "no"]
PodIdle == [pc |-> "idle", copy |-> NoPod, list |-> {}]
MountIdle == "idle"
Exists  == mountPod.state # "none"
Deleting(p) == p.state = "deleting"

WatchInit(bounds) ==
    /\ mountPod = NoPod
    /\ appPods = [a \in Apps |-> "none"]
    /\ pv = "claimed" /\ csi = "up"
    /\ podQ = FALSE /\ podTimer = FALSE /\ podW = PodIdle
    /\ mountQ = FALSE /\ mountW = MountIdle
    /\ passed = FALSE /\ crossed = FALSE /\ bared = FALSE
    /\ watchLeft = bounds

SpendWatch(k) == watchLeft[k] > 0 /\ watchLeft' = [watchLeft EXCEPT ![k] = @ - 1]

(* The predicates of the two watches, for a change of the mount pod to p.   *)
PodEvent      == podQ' = (podQ \/ csi = "up")
MountEvent(p) == mountQ' = (mountQ \/ (Deleting(p) /\ p.fin))

(* The pod changes to p, both controllers are told.                         *)
Change(p) == mountPod' = p /\ PodEvent /\ MountEvent(p)

(* A pod is created in the place of one that a controller has read.         *)
Replaced ==
    /\ crossed' = (crossed \/ mountW # MountIdle \/ podW.pc = "patch")
    /\ bared' = FALSE
    /\ UNCHANGED passed

(* A live pod without finalizer is not deleted after all.                   *)
Bare == mountPod.state = "live" /\ ~mountPod.fin

-----------------------------------------------------------------------------
(* The cluster                                                              *)

(* The pod lock: checkAnnotations, podErrorHandler, podPendingHandler and   *)
(* the end of podDeletedHandler hold it.                                    *)
Unlocked == podW.pc \notin {"delete", "resDelete", "resWait", "wait"}

(* NodePublishVolume: the application's pod gets its label (setMountLabel), *)
(* then the mount pod gets the reference, or is created with it.            *)
Label(a) ==
    /\ csi = "up" /\ pv = "claimed" /\ appPods[a] = "none" /\ SpendWatch("apps")
    /\ appPods' = [appPods EXCEPT ![a] = "labelled"]
    /\ UNCHANGED <<mountPod, pv, csi, podController, mountController, history>>

AddRef(a) ==
    /\ csi = "up" /\ appPods[a] = "labelled" /\ Unlocked /\ ~Deleting(mountPod)
    /\ Change([state |-> "live", fin |-> Exists => mountPod.fin, refs |-> mountPod.refs \cup {a},
               res |-> Exists => mountPod.res, lack |-> mountPod.lack])
    /\ appPods' = [appPods EXCEPT ![a] = "running"]
    /\ IF Exists THEN UNCHANGED history ELSE Replaced
    /\ UNCHANGED <<pv, csi, podTimer, podW, mountW, watchLeft>>

(* The pod of the application ends; NodeUnpublishVolume removes the         *)
(* reference, and the pod with the last one.                                *)
AppEnds(a) ==
    /\ appPods[a] \in {"labelled", "running"}
    /\ appPods' = [appPods EXCEPT ![a] = "ended"]
    /\ UNCHANGED <<mountPod, pv, csi, podController, mountController, history, watchLeft>>

Delete(p) == [p EXCEPT !.state = "deleting"]

RemoveRef(a) ==
    /\ csi = "up" /\ appPods[a] = "ended" /\ Unlocked /\ a \in mountPod.refs
    /\ LET p == [mountPod EXCEPT !.refs = @ \ {a}]
       IN  Change(IF p.refs = {} /\ ~Deleting(p) THEN Delete(p) ELSE p)
    /\ UNCHANGED <<cluster, podTimer, podW, mountW, history, watchLeft>>

(* The application's pod goes, perhaps with its reference still there.      *)
AppGone(a) ==
    /\ appPods[a] = "ended"
    /\ appPods' = [appPods EXCEPT ![a] = "gone"]
    /\ UNCHANGED <<mountPod, pv, csi, podController, mountController, history, watchLeft>>

(* Somebody deletes the mount pod.                                          *)
DeletedOutside ==
    /\ mountPod.state = "live" /\ SpendWatch("delete")
    /\ Change(Delete(mountPod))
    /\ UNCHANGED <<cluster, podTimer, podW, mountW, history>>

(* The node has not the resources the pod requests, or has them again; also *)
(* a running pod can be refused, by a restarted kubelet.                    *)
PodLacks ==
    /\ mountPod.state = "live" /\ mountPod.lack = "no" /\ SpendWatch("lack")
    /\ \E l \in {"outOf", "unschedulable"} : Change([mountPod EXCEPT !.lack = l])
    /\ UNCHANGED <<cluster, podTimer, podW, mountW, history>>

PodScheduled ==
    /\ mountPod.lack = "unschedulable"
    /\ Change([mountPod EXCEPT !.lack = "no"])
    /\ UNCHANGED <<cluster, podTimer, podW, mountW, history, watchLeft>>

(* A deleted pod without finalizer goes.                                    *)
PodGone ==
    /\ Deleting(mountPod) /\ ~mountPod.fin
    /\ Change(NoPod)
    /\ passed' = FALSE
    /\ UNCHANGED <<cluster, podTimer, podW, mountW, crossed, bared, watchLeft>>

(* The claim of a volume no application uses is deleted; the PV goes, or is *)
(* made ready for another claim.                                            *)
VolumeGone ==
    /\ pv = "claimed" /\ \A a \in Apps : appPods[a] \in {"none", "gone"}
    /\ pv' \in {"unclaimed", "gone"}
    /\ UNCHANGED <<mountPod, appPods, csi, podController, mountController, history, watchLeft>>

(* The CSI node pod leaves the node, or its container is restarted.         *)
CsiLeaves ==
    /\ csi # "none" /\ SpendWatch("csi")
    /\ csi' \in {"none", "starting"} \ {csi}
    /\ podQ' = FALSE /\ podTimer' = FALSE /\ podW' = PodIdle
    /\ bared' = (bared \/ (podW.pc = "resDelete" /\ Bare))
    /\ UNCHANGED <<mountPod, appPods, pv, mountController, passed, crossed>>

CsiComes ==
    /\ csi = "none"
    /\ csi' = "starting"
    /\ UNCHANGED <<mountPod, appPods, pv, podController, mountController, history, watchLeft>>

(* The service starts, and its watch lists the mount pods.                  *)
CsiUp ==
    /\ csi = "starting"
    /\ csi' = "up"
    /\ podQ' = Exists
    /\ UNCHANGED <<mountPod, appPods, pv, podTimer, podW, mountController, history, watchLeft>>

-----------------------------------------------------------------------------
(* PodController.Reconcile                                                  *)

PodStep(pc) == podW' = [podW EXCEPT !.pc = pc] /\ UNCHANGED <<podQ, podTimer>>
PodDone     == podW' = PodIdle /\ podTimer' = TRUE /\ UNCHANGED podQ
PodDropped  == podW' = PodIdle /\ UNCHANGED <<podQ, podTimer>>
PodRetry    == podW' = PodIdle /\ podQ' = TRUE /\ UNCHANGED podTimer
PodOnly     == UNCHANGED <<cluster, mountController, history>>

PodGet ==
    /\ podQ /\ podW.pc = "idle"
    /\ podQ' = FALSE
    /\ podW' = IF Exists THEN [podW EXCEPT !.pc = "volumes", !.copy = mountPod] ELSE PodIdle
    /\ PodOnly /\ UNCHANGED <<mountPod, podTimer, watchLeft>>

(* Without a PV the request is repeated, without a claim it is dropped.     *)
ListVolumes ==
    /\ podW.pc = "volumes"
    /\ \/ pv = "claimed" /\ PodStep("apps") /\ UNCHANGED watchLeft
       \/ pv = "unclaimed" /\ PodDropped /\ UNCHANGED watchLeft
       \/ pv = "gone" /\ PodRetry /\ UNCHANGED watchLeft
       \/ SpendWatch("fail") /\ PodRetry
    /\ PodOnly /\ UNCHANGED mountPod

(* Seeded fault: applications that are being deleted are left out.          *)
ListedRunning == {a \in Apps : appPods[a] \in {"labelled", "running"}}

(* Applications with the label, also those that are being deleted.          *)
Listed == {a \in Apps : appPods[a] \in {"labelled", "running", "ended"}}

ListApps ==
    /\ podW.pc = "apps"
    /\ \/ podW' = [podW EXCEPT !.pc = "annotations", !.list = Listed] /\ UNCHANGED <<podQ, podTimer, watchLeft>>
       \/ SpendWatch("fail") /\ PodRetry
    /\ PodOnly /\ UNCHANGED mountPod

(* checkAnnotations takes the references of the applications that are not   *)
(* listed, unless the pod has got another number of references since.       *)
Dead      == podW.copy.refs \ podW.list
Unused    == Dead = podW.copy.refs /\ ~Deleting(podW.copy)
Handler   == CASE Deleting(podW.copy) \/ podW.copy.lack = "outOf" -> "handler"
               [] ~Deleting(podW.copy) /\ podW.copy.lack = "unschedulable" /\ podW.copy.res -> "resFinalizer"
               [] OTHER -> "done"
AfterRefs == IF Unused THEN "delete" ELSE Handler
Unchanged == Exists /\ Cardinality(mountPod.refs) = Cardinality(podW.copy.refs) /\ Dead \subseteq mountPod.refs

checkAnnotations ==
    /\ podW.pc = "annotations"
    /\ \/ Dead = {} /\ PodStep(AfterRefs) /\ UNCHANGED <<mountPod, mountQ, watchLeft>>
       \/ /\ Dead # {} /\ Unchanged
          /\ Change([mountPod EXCEPT !.refs = @ \ Dead])
          /\ podW' = [podW EXCEPT !.pc = AfterRefs] /\ UNCHANGED <<podTimer, watchLeft>>
       \/ Dead # {} /\ ~Unchanged /\ PodRetry /\ UNCHANGED <<mountPod, mountQ, watchLeft>>
       \/ Dead # {} /\ SpendWatch("fail") /\ PodRetry /\ UNCHANGED <<mountPod, mountQ>>
    /\ UNCHANGED <<cluster, mountW, history>>

StillUnused == Exists /\ mountPod.refs = {}

deleteUnused ==
    /\ podW.pc = "delete"
    /\ \/ /\ StillUnused
          /\ Change(Delete(mountPod))
          /\ podW' = [podW EXCEPT !.pc = Handler] /\ UNCHANGED <<podTimer, watchLeft>>
       \/ ~StillUnused /\ PodRetry /\ UNCHANGED <<mountPod, mountQ, watchLeft>>
       \/ SpendWatch("fail") /\ PodRetry /\ UNCHANGED <<mountPod, mountQ>>
    /\ UNCHANGED <<cluster, mountW, history>>

(* podReadyHandler, and the other handlers when they have nothing to do,    *)
(* leave the pod alone.                                                     *)
PodRequeue ==
    /\ podW.pc = "done"
    /\ PodDone
    /\ PodOnly /\ UNCHANGED <<mountPod, watchLeft>>

(* A pod that was deleted or has failed is read again, and handled as it is *)
(* now.                                                                     *)
HandlerNow ==
    CASE Deleting(mountPod) /\ mountPod.fin -> "patch"
      [] ~Deleting(mountPod) /\ mountPod.lack # "no" /\ mountPod.res -> "resFinalizer"
      [] OTHER -> "done"

GetAgain ==
    /\ podW.pc = "handler"
    /\ IF Exists
       THEN podW' = [podW EXCEPT !.pc = HandlerNow, !.copy = mountPod] /\ UNCHANGED <<podQ, podTimer>>
       ELSE PodRetry
    /\ PodOnly /\ UNCHANGED <<mountPod, watchLeft>>

(* The patch names the pod and replaces its finalizers, whichever they are; *)
(* one that has none any more cannot be patched.                            *)
CanPatch        == Exists /\ mountPod.fin
RemoveFinalizer == Change([mountPod EXCEPT !.fin = FALSE])

(* podErrorHandler and podPendingHandler, under the pod lock: an error of   *)
(* RemoveFinalizer is ignored; the pod that was deleted is waited for, and  *)
(* created again with the references of the copy.                           *)
resRemoveFinalizer ==
    /\ podW.pc = "resFinalizer"
    /\ \/ /\ CanPatch /\ RemoveFinalizer
          /\ podW' = [podW EXCEPT !.pc = "resDelete"] /\ UNCHANGED <<podTimer, watchLeft>>
       \/ ~CanPatch /\ PodStep("resDelete") /\ UNCHANGED <<mountPod, mountQ, watchLeft>>
       \/ SpendWatch("fail") /\ PodStep("resDelete") /\ UNCHANGED <<mountPod, mountQ>>
    /\ UNCHANGED <<cluster, mountW, history>>

resDeletePod ==
    /\ podW.pc = "resDelete"
    /\ \/ /\ Exists /\ Change(Delete(mountPod))
          /\ podW' = [podW EXCEPT !.pc = "resWait"] /\ UNCHANGED <<podTimer, bared, watchLeft>>
       \/ ~Exists /\ PodStep("done") /\ UNCHANGED <<mountPod, mountQ, bared, watchLeft>>
       \/ SpendWatch("fail") /\ PodStep("done") /\ bared' = Bare /\ UNCHANGED <<mountPod, mountQ>>
    /\ UNCHANGED <<cluster, mountW, passed, crossed>>

resCreatePod ==
    /\ podW.pc = "resWait"
    /\ \/ /\ ~Exists
          /\ Change([state |-> "live", fin |-> TRUE, refs |-> podW.copy.refs, res |-> FALSE, lack |-> "no"])
          /\ Replaced
          /\ podW' = [podW EXCEPT !.pc = "done"] /\ UNCHANGED <<podTimer, watchLeft>>
       \/ SpendWatch("fail") /\ PodStep("done") /\ UNCHANGED <<mountPod, mountQ, history>>
    /\ UNCHANGED <<cluster, mountW>>

(* podDeletedHandler; a pod that lacks resources is not created again.      *)
PodPatch ==
    /\ podW.pc = "patch"
    /\ \/ /\ CanPatch /\ RemoveFinalizer
          /\ podW' = [podW EXCEPT !.pc = IF podW.copy.refs = {} \/ podW.copy.lack # "no" THEN "done" ELSE "lock"]
          /\ UNCHANGED <<podTimer, watchLeft>>
       \/ ~CanPatch /\ PodRetry /\ UNCHANGED <<mountPod, mountQ, watchLeft>>
       \/ SpendWatch("fail") /\ PodRetry /\ UNCHANGED <<mountPod, mountQ>>
    /\ UNCHANGED <<cluster, mountW, history>>

PodLock ==
    /\ podW.pc = "lock"
    /\ PodStep("wait")
    /\ PodOnly /\ UNCHANGED <<mountPod, watchLeft>>

(* Under the pod lock: the pod is created again with the references of the  *)
(* copy; one that somebody else has created gets them in addition.  When    *)
(* the pod cannot be read, the handler gives up.                            *)
Recreate ==
    /\ podW.pc = "wait"
    /\ \/ /\ ~Exists
          /\ Change([podW.copy EXCEPT !.state = "live", !.fin = TRUE]) /\ Replaced
          /\ podW' = [podW EXCEPT !.pc = "done"] /\ UNCHANGED <<podTimer, watchLeft>>
       \/ /\ mountPod.state = "live"
          /\ Change([mountPod EXCEPT !.refs = @ \cup podW.copy.refs])
          /\ podW' = [podW EXCEPT !.pc = "done"] /\ UNCHANGED <<podTimer, history, watchLeft>>
       \/ SpendWatch("fail") /\ PodStep("done") /\ UNCHANGED <<mountPod, mountQ, history>>
    /\ UNCHANGED <<cluster, mountW>>

TenMinutesPass ==
    /\ podTimer
    /\ podTimer' = FALSE /\ podQ' = TRUE
    /\ PodOnly /\ UNCHANGED <<mountPod, podW, watchLeft>>

-----------------------------------------------------------------------------
(* MountController.Reconcile                                                *)

MountOnly  == UNCHANGED <<cluster, podTimer, podW>>

(* Seeded fault: a request that failed is not repeated.                     *)
MountRetryNever == mountW' = MountIdle /\ UNCHANGED mountQ

MountRetry == mountW' = MountIdle /\ mountQ' = TRUE

(* Seeded fault: whether the pod is deleted is not looked at again.         *)
MountGetUnchecked ==
    /\ mountQ /\ mountW = MountIdle
    /\ mountQ' = FALSE
    /\ mountW' = IF mountPod.fin THEN "list" ELSE MountIdle
    /\ MountOnly /\ UNCHANGED <<mountPod, podQ, history, watchLeft>>

MountGet ==
    /\ mountQ /\ mountW = MountIdle
    /\ mountQ' = FALSE
    /\ mountW' = IF Deleting(mountPod) /\ mountPod.fin THEN "list" ELSE MountIdle
    /\ MountOnly /\ UNCHANGED <<mountPod, podQ, history, watchLeft>>

NodeServed == csi # "none"

(* A pod whose node has a CSI node pod is left to it, and not looked at     *)
(* again before it changes.                                                 *)
MountList ==
    /\ mountW = "list"
    /\ \/ NodeServed /\ mountW' = MountIdle /\ passed' = TRUE /\ UNCHANGED <<mountQ, watchLeft>>
       \/ ~NodeServed /\ mountW' = "patch" /\ UNCHANGED <<mountQ, passed, watchLeft>>
       \/ SpendWatch("fail") /\ MountRetry /\ UNCHANGED passed
    /\ MountOnly /\ UNCHANGED <<mountPod, podQ, crossed, bared>>

MountPatch ==
    /\ mountW = "patch"
    /\ \/ CanPatch /\ RemoveFinalizer /\ mountW' = MountIdle /\ UNCHANGED watchLeft
       \/ ~CanPatch /\ MountRetry /\ UNCHANGED <<mountPod, podQ, watchLeft>>
       \/ SpendWatch("fail") /\ MountRetry /\ UNCHANGED <<mountPod, podQ>>
    /\ MountOnly /\ UNCHANGED history

(* A new CSI controller lists the mount pods.                               *)
MountRestarts ==
    /\ mountW' = MountIdle
    /\ mountQ' = (Deleting(mountPod) /\ mountPod.fin)
    /\ UNCHANGED <<mountPod, cluster, podController, history, watchLeft>>

-----------------------------------------------------------------------------
PodWorks == \/ PodGet \/ ListVolumes \/ ListApps \/ checkAnnotations \/ deleteUnused
            \/ GetAgain \/ resRemoveFinalizer \/ resDeletePod \/ resCreatePod \/ PodPatch \/ PodLock \/ Recreate \/ PodRequeue
MountWorks == MountGet \/ MountList \/ MountPatch

WatchNext ==
    \/ \E a \in Apps : Label(a) \/ AddRef(a) \/ AppEnds(a) \/ RemoveRef(a) \/ AppGone(a)
    \/ DeletedOutside \/ PodLacks \/ PodScheduled \/ PodGone \/ VolumeGone
    \/ CsiLeaves \/ CsiComes \/ CsiUp
    \/ PodWorks \/ TenMinutesPass
    \/ MountWorks

(* The workers go on, a started CSI node pod comes up, the kubelet and the  *)
(* API server let a pod without finalizer go.                               *)
WatchFairness ==
    /\ WF_watchVars(PodWorks) /\ WF_watchVars(TenMinutesPass)
    /\ WF_watchVars(MountWorks)
    /\ WF_watchVars(PodGone) /\ WF_watchVars(CsiUp)

=============================================================================
