--------------------------- MODULE ManagersProofs ---------------------------
(***************************************************************************)
(* What the managers promise, for every set of applications, tokens and    *)
(* keys and for every bound: a mount pod that is not deleted keeps its     *)
(* finalizer, PodController drops only references of applications that are *)
(* gone, and SecretController refreshes a secret as if in one step.        *)
(***************************************************************************)
EXTENDS Managers, TLAPS

-----------------------------------------------------------------------------
(* The mount pod and its two controllers                                    *)

Lacks     == {"no", "outOf", "unschedulable"}
PodRecord == [state: {"none", "live", "deleting"}, fin: BOOLEAN, refs: SUBSET Apps, res: BOOLEAN, lack: Lacks]
PodPCs    == {"idle", "volumes", "apps", "annotations", "delete", "done", "handler",
              "patch", "lock", "wait", "resFinalizer", "resDelete", "resWait"}
AppStates == {"none", "labelled", "running", "ended", "gone"}

PodWork   == [pc: PodPCs, copy: PodRecord, list: SUBSET Apps]

WatchType ==
    /\ mountPod \in PodRecord
    /\ appPods \in [Apps -> AppStates]
    /\ podW \in PodWork
    /\ mountW \in {"idle", "list", "patch"}
    /\ crossed \in BOOLEAN /\ bared \in BOOLEAN

(* A controller that is about to patch has seen a deleted pod, and as long  *)
(* as no pod was created in its place none is live; the handlers of a pod   *)
(* that lacks resources take the finalizer of a live one.                   *)
PatchInv ==
    ~crossed =>
        /\ mountPod.state = "live" => mountPod.fin \/ podW.pc = "resDelete" \/ bared
        /\ mountW # MountIdle => mountPod.state # "live"
        /\ podW.pc = "patch" => mountPod.state # "live"

(* An application is referred to only after it got its label; so one that   *)
(* is referred to in PodController's copy of the pod and not in its list,   *)
(* which is the younger of the two, is gone.                                *)
Published(a) == appPods[a] \in {"running", "ended", "gone"}
RefInv ==
    /\ \A a \in mountPod.refs \cup podW.copy.refs : Published(a)
    /\ podW.pc = "annotations" => \A a \in podW.copy.refs \ podW.list : appPods[a] = "gone"

WatchInv == WatchType /\ PatchInv /\ RefInv

(* In the beginning there is no pod and no application.                     *)
LEMMA WatchInitially == ASSUME NEW b, WatchInit(b) PROVE WatchInv
BY DEF WatchInit, WatchInv, WatchType, PatchInv, RefInv, Published, NoPod, PodIdle, MountIdle,
       PodRecord, PodWork, PodPCs, AppStates, Lacks

(* What the steps do to the pod and to PodController's Reconcile.           *)
LEMMA PodFields ==
    ASSUME NEW p \in PodRecord
    PROVE  /\ p.state \in {"none", "live", "deleting"} /\ p.fin \in BOOLEAN /\ p.refs \subseteq Apps
           /\ [p EXCEPT !.fin = FALSE] \in PodRecord
           /\ [p EXCEPT !.fin = FALSE].state = p.state
           /\ [p EXCEPT !.fin = FALSE].refs = p.refs
           /\ p.res \in BOOLEAN /\ p.lack \in Lacks
           /\ \A l \in Lacks :
                 /\ [p EXCEPT !.lack = l] \in PodRecord
                 /\ [p EXCEPT !.lack = l].state = p.state
                 /\ [p EXCEPT !.lack = l].fin = p.fin
                 /\ [p EXCEPT !.lack = l].refs = p.refs
           /\ \A r \in SUBSET Apps :
                 /\ [p EXCEPT !.refs = r] \in PodRecord
                 /\ [p EXCEPT !.refs = r].state = p.state
                 /\ [p EXCEPT !.refs = r].fin = p.fin
                 /\ [p EXCEPT !.refs = r].refs = r
BY DEF PodRecord

(* The fields of the work of PodController, and what is left of it when some are assigned. *)
LEMMA WorkFields ==
    ASSUME NEW w \in PodWork
    PROVE  /\ w.pc \in PodPCs /\ w.copy \in PodRecord /\ w.list \subseteq Apps
           /\ \A pc \in PodPCs :
                 /\ [w EXCEPT !.pc = pc] \in PodWork /\ [w EXCEPT !.pc = pc].pc = pc
                 /\ [w EXCEPT !.pc = pc].copy = w.copy /\ [w EXCEPT !.pc = pc].list = w.list
           /\ \A pc \in PodPCs, p \in PodRecord :
                 /\ [w EXCEPT !.pc = pc, !.copy = p] \in PodWork
                 /\ [w EXCEPT !.pc = pc, !.copy = p].pc = pc
                 /\ [w EXCEPT !.pc = pc, !.copy = p].copy = p
           /\ \A pc \in PodPCs, l \in SUBSET Apps :
                 /\ [w EXCEPT !.pc = pc, !.list = l] \in PodWork
                 /\ [w EXCEPT !.pc = pc, !.list = l].pc = pc
                 /\ [w EXCEPT !.pc = pc, !.list = l].copy = w.copy
                 /\ [w EXCEPT !.pc = pc, !.list = l].list = l
<1> USE DEF PodWork
<1>1. w.pc \in PodPCs /\ w.copy \in PodRecord /\ w.list \subseteq Apps
  OBVIOUS
<1>2. ASSUME NEW pc \in PodPCs
      PROVE  /\ [w EXCEPT !.pc = pc] \in PodWork /\ [w EXCEPT !.pc = pc].pc = pc
             /\ [w EXCEPT !.pc = pc].copy = w.copy /\ [w EXCEPT !.pc = pc].list = w.list
  OBVIOUS
<1>3. ASSUME NEW pc \in PodPCs, NEW p \in PodRecord
      PROVE  /\ [w EXCEPT !.pc = pc, !.copy = p] \in PodWork
             /\ [w EXCEPT !.pc = pc, !.copy = p].pc = pc
             /\ [w EXCEPT !.pc = pc, !.copy = p].copy = p
  OBVIOUS
<1>4. ASSUME NEW pc \in PodPCs, NEW l \in SUBSET Apps
      PROVE  /\ [w EXCEPT !.pc = pc, !.list = l] \in PodWork
             /\ [w EXCEPT !.pc = pc, !.list = l].pc = pc
             /\ [w EXCEPT !.pc = pc, !.list = l].copy = w.copy
             /\ [w EXCEPT !.pc = pc, !.list = l].list = l
  OBVIOUS
<1> HIDE DEF PodWork
<1> QED BY <1>1, <1>2, <1>3, <1>4

(* What an idle PodController and a missing pod look like. *)
LEMMA IdleFields ==
    /\ NoPod \in PodRecord /\ NoPod.state = "none" /\ ~NoPod.fin /\ NoPod.refs = {}
    /\ PodIdle \in PodWork /\ PodIdle.pc = "idle" /\ PodIdle.copy = NoPod /\ PodIdle.list = {}
BY DEF NoPod, PodIdle, PodRecord, PodWork, PodPCs, Lacks

(* A deletion keeps the references.                                         *)
LEMMA DeleteType ==
    ASSUME NEW p \in PodRecord
    PROVE  Delete(p) \in PodRecord /\ Delete(p).state # "live" /\ Delete(p).refs = p.refs
BY DEF Delete, PodRecord

(* Users and the cluster keep the invariant.                                *)
LEMMA ClusterStep ==
    ASSUME WatchInv,
           \/ \E a \in Apps : Label(a) \/ AddRef(a) \/ AppEnds(a) \/ RemoveRef(a) \/ AppGone(a)
           \/ DeletedOutside \/ PodLacks \/ PodScheduled \/ PodGone \/ VolumeGone
           \/ CsiLeaves \/ CsiComes \/ CsiUp
    PROVE  WatchInv'
<1> USE DEF WatchInv, WatchType, PatchInv, RefInv, Published, AppStates,
            podController, mountController, history, cluster, MountIdle, Exists, Deleting
<1>a. /\ mountPod \in PodRecord /\ mountPod.state \in {"none", "live", "deleting"} /\ mountPod.refs \subseteq Apps
      /\ podW.copy.refs \subseteq Apps
  BY PodFields, WorkFields
<1>1. ASSUME NEW a \in Apps, Label(a) PROVE WatchInv'
  BY <1>1 DEF Label
<1>2. ASSUME NEW a \in Apps, AddRef(a) PROVE WatchInv'
  <2> DEFINE p == [state |-> "live", fin |-> Exists => mountPod.fin, refs |-> mountPod.refs \cup {a},
                  res |-> Exists => mountPod.res, lack |-> mountPod.lack]
  <2>1. p \in PodRecord /\ p.state = "live" /\ p.refs = mountPod.refs \cup {a} /\ (p.fin <=> (Exists => mountPod.fin))
    BY <1>a, PodFields DEF PodRecord
  <2>2. mountPod' = p /\ appPods' = [appPods EXCEPT ![a] = "running"] /\ UNCHANGED <<podW, mountW>>
        /\ mountPod.state \in {"none", "live"} /\ (IF Exists THEN UNCHANGED history ELSE Replaced)
    BY <1>2, <1>a DEF AddRef, Change
  <2> HIDE DEF p
  <2>3. WatchType'
    BY <2>1, <2>2 DEF Replaced
  <2>4. PatchInv'
    <3>1. CASE Exists
      BY <2>1, <2>2, <3>1
    <3>2. CASE ~Exists
      <4>1. ~crossed' => ~crossed /\ mountW = MountIdle /\ podW.pc # "patch"
        BY <2>2, <3>2 DEF Replaced
      <4> QED BY <2>1, <2>2, <3>2, <4>1
    <3> QED BY <3>1, <3>2
  <2>5. RefInv'
    <3>1. appPods[a] = "labelled"
      BY <1>2 DEF AddRef
    <3>2. \A b \in Apps : b # a => appPods'[b] = appPods[b]
      BY <2>2
    <3>3. appPods'[a] = "running"
      BY <2>2
    <3>4. a \notin podW.copy.refs
      BY <3>1
    <3> QED BY <2>1, <2>2, <1>a, <3>2, <3>3, <3>4
  <2> QED BY <2>3, <2>4, <2>5
<1>3. ASSUME NEW a \in Apps, AppEnds(a) PROVE WatchInv'
  BY <1>3, <1>a DEF AppEnds
<1>4. ASSUME NEW a \in Apps, RemoveRef(a) PROVE WatchInv'
  <2> DEFINE p == [mountPod EXCEPT !.refs = @ \ {a}]
  <2>1. p \in PodRecord /\ p.refs = mountPod.refs \ {a} /\ p.state = mountPod.state /\ p.fin = mountPod.fin
    BY <1>a DEF PodRecord
  <2>2. mountPod' = IF p.refs = {} /\ ~Deleting(p) THEN Delete(p) ELSE p
    BY <1>4 DEF RemoveRef, Change
  <2>3. UNCHANGED <<appPods, podW, mountW, crossed, bared>>
    BY <1>4 DEF RemoveRef
  <2> HIDE DEF p
  <2> QED BY <2>1, <2>2, <2>3, DeleteType
<1>5. ASSUME NEW a \in Apps, AppGone(a) PROVE WatchInv'
  BY <1>5, <1>a DEF AppGone
<1>6. CASE DeletedOutside
  BY <1>6, DeleteType DEF DeletedOutside, Change
<1>7. CASE PodGone
  BY <1>7, IdleFields DEF PodGone, Change
<1>9. CASE PodLacks \/ PodScheduled
  <2>1. PICK l \in Lacks : mountPod' = [mountPod EXCEPT !.lack = l]
    BY <1>9 DEF PodLacks, PodScheduled, Change, Lacks
  <2>2. /\ mountPod' \in PodRecord /\ mountPod'.state = mountPod.state
        /\ mountPod'.fin = mountPod.fin /\ mountPod'.refs = mountPod.refs
    BY <2>1, <1>a, PodFields
  <2>3. UNCHANGED <<appPods, podW, mountW, crossed, bared>>
    BY <1>9 DEF PodLacks, PodScheduled
  <2> QED BY <2>2, <2>3
<1>8. CASE VolumeGone \/ CsiLeaves \/ CsiComes \/ CsiUp
  BY <1>8, IdleFields DEF VolumeGone, CsiLeaves, CsiComes, CsiUp, Bare
<1> QED BY <1>1, <1>2, <1>3, <1>4, <1>5, <1>6, <1>7, <1>8, <1>9

(* PodController keeps the invariant.                                       *)
LEMMA PodStepKeeps ==
    ASSUME WatchInv, PodWorks \/ TenMinutesPass
    PROVE  WatchInv'
<1>a. /\ mountPod \in PodRecord /\ mountPod.state \in {"none", "live", "deleting"}
      /\ mountPod.refs \subseteq Apps /\ podW.copy.refs \subseteq Apps
  BY PodFields, WorkFields DEF WatchInv, WatchType
<1> USE DEF WatchInv, WatchType, PatchInv, RefInv, Published, AppStates,
            podController, mountController, history, cluster, MountIdle, Exists, Deleting,
            PodOnly, PodStep, PodDone, PodDropped, PodRetry, PodPCs, PodWork
<1>1. CASE PodGet
  BY <1>1, IdleFields DEF PodGet
<1>2. CASE ListVolumes
  BY <1>2, IdleFields DEF ListVolumes
<1>3. CASE ListApps
  BY ZenonT(60), <1>3, IdleFields, <1>a DEF ListApps, Listed
<1>4. CASE checkAnnotations
  <2>1. AfterRefs \in {"delete", "handler", "resFinalizer", "done"}
    BY DEF AfterRefs, Handler
  <2>2. ASSUME Dead # {}, Unchanged, Change([mountPod EXCEPT !.refs = @ \ Dead]),
               podW' = [podW EXCEPT !.pc = AfterRefs]
        PROVE  WatchInv'
    <3>1. /\ mountPod' \in PodRecord /\ mountPod'.refs \subseteq mountPod.refs
          /\ mountPod'.state = mountPod.state /\ mountPod'.fin = mountPod.fin
      BY <2>2, <1>a DEF Change, PodRecord
    <3> QED BY <1>4, <2>1, <2>2, <3>1 DEF checkAnnotations
  <2>3. ASSUME UNCHANGED mountPod, PodStep(AfterRefs) \/ PodRetry
        PROVE  WatchInv'
    BY <1>4, <2>1, <2>3, IdleFields DEF checkAnnotations
  <2> QED BY <1>4, <2>2, <2>3 DEF checkAnnotations
<1>5. CASE deleteUnused
  <2>1. Handler \in {"handler", "resFinalizer", "done"}
    BY DEF Handler
  <2> QED BY <1>5, <2>1, DeleteType, IdleFields DEF deleteUnused, Change
<1>6. CASE GetAgain
  <2>1. HandlerNow \in {"patch", "resFinalizer", "done"} /\ (HandlerNow = "patch" => mountPod.state # "live")
    BY DEF HandlerNow
  <2> QED BY <1>6, <2>1, IdleFields DEF GetAgain
<1>10. CASE resRemoveFinalizer
  <2>0. podW' = [podW EXCEPT !.pc = "resDelete"] /\ UNCHANGED <<appPods, mountW, crossed, bared>>
    BY <1>10 DEF resRemoveFinalizer
  <2>1. mountPod' \in PodRecord /\ mountPod'.refs = mountPod.refs /\ mountPod'.state = mountPod.state
    <3>1. mountPod' = mountPod \/ mountPod' = [mountPod EXCEPT !.fin = FALSE]
      BY ONLY <1>10 DEF resRemoveFinalizer, RemoveFinalizer, Change
    <3>2. mountPod \in PodRecord
      BY <1>a
    <3> QED BY ONLY <3>1, <3>2, PodFields
  <2> QED BY <2>0, <2>1
<1>11. CASE resDeletePod
  <2>0. podW.pc = "resDelete" /\ UNCHANGED <<appPods, mountW, crossed>>
    BY <1>11 DEF resDeletePod
  <2>1. CASE Exists /\ Change(Delete(mountPod)) /\ podW' = [podW EXCEPT !.pc = "resWait"] /\ UNCHANGED bared
    BY <2>0, <2>1, DeleteType DEF Change
  <2>2. CASE ~Exists /\ PodStep("done") /\ UNCHANGED <<mountPod, bared>>
    BY <2>0, <2>2
  <2>3. CASE PodStep("done") /\ bared' = Bare /\ UNCHANGED mountPod
    BY <2>0, <2>3 DEF Bare
  <2> QED BY <1>11, <2>1, <2>2, <2>3 DEF resDeletePod
<1>12. CASE resCreatePod
  <2>0. podW.pc = "resWait" /\ UNCHANGED <<appPods, mountW>>
    BY <1>12 DEF resCreatePod
  <2> DEFINE p == [state |-> "live", fin |-> TRUE, refs |-> podW.copy.refs, res |-> FALSE, lack |-> "no"]
  <2>1. CASE Change(p) /\ Replaced /\ podW' = [podW EXCEPT !.pc = "done"]
    <3>1. /\ mountPod' \in PodRecord /\ mountPod'.refs = podW.copy.refs
          /\ mountPod'.state = "live" /\ mountPod'.fin
      BY <2>1, <1>a DEF Change, PodRecord, Lacks
    <3>2. crossed' \in BOOLEAN /\ bared' \in BOOLEAN /\ (~crossed' => ~crossed /\ mountW = MountIdle)
      BY <2>1 DEF Replaced
    <3> HIDE DEF p
    <3> QED BY <2>0, <2>1, <3>1, <3>2
  <2>2. CASE PodStep("done") /\ UNCHANGED <<mountPod, history>>
    BY <2>0, <2>2
  <2> QED BY <1>12, <2>1, <2>2 DEF resCreatePod
<1>7. CASE PodPatch
  <2>1. ASSUME CanPatch, RemoveFinalizer,
               podW' = [podW EXCEPT !.pc = IF podW.copy.refs = {} \/ podW.copy.lack # "no" THEN "done" ELSE "lock"]
        PROVE  WatchInv'
    <3>1. mountPod' \in PodRecord /\ mountPod'.refs = mountPod.refs /\ mountPod'.state = mountPod.state
      BY <2>1, <1>a DEF RemoveFinalizer, Change, PodRecord
    <3> QED BY <1>7, <2>1, <3>1 DEF PodPatch
  <2>2. ASSUME UNCHANGED mountPod, PodRetry
        PROVE  WatchInv'
    BY <1>7, <2>2, IdleFields DEF PodPatch
  <2> QED BY <1>7, <2>1, <2>2 DEF PodPatch
<1>8. CASE PodLock \/ PodRequeue \/ TenMinutesPass
  BY <1>8, IdleFields DEF PodLock, PodRequeue, TenMinutesPass
<1>9. CASE Recreate
  <2>0. podW.pc = "wait" /\ UNCHANGED <<appPods, mountW>>
    BY <1>9 DEF Recreate
  <2>1. ASSUME ~Exists, Change([podW.copy EXCEPT !.state = "live", !.fin = TRUE]), Replaced,
               podW' = [podW EXCEPT !.pc = "done"]
        PROVE  WatchInv'
    <3>1. /\ mountPod' \in PodRecord /\ mountPod'.refs = podW.copy.refs
          /\ mountPod'.state = "live" /\ mountPod'.fin
      BY <2>1, <1>a DEF Change, PodRecord
    <3>2. crossed' \in BOOLEAN /\ bared' \in BOOLEAN /\ (~crossed' => ~crossed /\ mountW = MountIdle)
      BY <2>1 DEF Replaced
    <3> QED BY <2>0, <2>1, <3>1, <3>2
  <2>2. ASSUME mountPod.state = "live", Change([mountPod EXCEPT !.refs = @ \cup podW.copy.refs]),
               podW' = [podW EXCEPT !.pc = "done"], UNCHANGED history
        PROVE  WatchInv'
    <3>1. /\ mountPod' \in PodRecord /\ mountPod'.refs = mountPod.refs \cup podW.copy.refs
          /\ mountPod'.state = "live" /\ mountPod'.fin = mountPod.fin
      BY <2>2, <1>a DEF Change, PodRecord
    <3> QED BY <2>0, <2>2, <3>1
  <2>3. ASSUME PodStep("done"), UNCHANGED <<mountPod, history>>
        PROVE  WatchInv'
    BY <2>0, <2>3
  <2> QED BY <1>9, <2>1, <2>2, <2>3 DEF Recreate
<1> QED BY <1>1, <1>2, <1>3, <1>4, <1>5, <1>6, <1>7, <1>8, <1>9, <1>10, <1>11, <1>12 DEF PodWorks

(* MountController keeps the invariant, also when it restarts.              *)
LEMMA MountStepKeeps ==
    ASSUME WatchInv, MountWorks \/ MountRestarts
    PROVE  WatchInv'
<1> USE DEF WatchInv, WatchType, PatchInv, RefInv, Published, AppStates,
            podController, mountController, history, cluster, MountIdle, Exists, Deleting,
            MountOnly, MountRetry
<1>1. CASE MountGet
  BY <1>1 DEF MountGet
<1>2. CASE MountList
  BY <1>2 DEF MountList
<1>3. CASE MountPatch
  BY ZenonT(60), <1>3, PodFields DEF MountPatch, CanPatch, RemoveFinalizer, Change
<1>4. CASE MountRestarts
  BY <1>4 DEF MountRestarts
<1> QED BY <1>1, <1>2, <1>3, <1>4 DEF MountWorks

(* WatchInv is an invariant.                                                *)
LEMMA WatchStep == WatchInv /\ [Next]_vars => WatchInv'
<1> SUFFICES ASSUME WatchInv, [Next]_vars PROVE WatchInv'
  OBVIOUS
<1>1. CASE WatchNext
  BY <1>1, ClusterStep, PodStepKeeps, MountStepKeeps DEF WatchNext
<1>2. CASE RefreshNext /\ UNCHANGED <<watchVars, restarts>>
  BY <1>2 DEF watchVars, podController, mountController, history, cluster,
              WatchInv, WatchType, PatchInv, RefInv, Published
<1>3. CASE ControllerRestarts
  BY <1>3, MountStepKeeps DEF ControllerRestarts
<1>4. CASE UNCHANGED vars
  BY <1>4 DEF vars, watchVars, podController, mountController, history, cluster,
              WatchInv, WatchType, PatchInv, RefInv, Published
<1> QED BY <1>1, <1>2, <1>3, <1>4 DEF Next

(* The invariant of the two controllers holds in every reachable state. *)
LEMMA WatchInvariant == Spec => []WatchInv
<1>1. Init => WatchInv
  BY WatchInitially DEF Init
<1> QED BY <1>1, WatchStep, PTL DEF Spec

(* For any number of applications, deletions, failing requests and          *)
(* restarts: a mount pod that is not deleted has its finalizer, unless a    *)
(* handler of a pod that lacks resources is about to delete it, or was kept *)
(* from it, or the pod was created between a controller's look and its      *)
(* patch (RemoveFinalizer in podErrorHandler, podPendingHandler and, for a  *)
(* pod seen deleted, podDeletedHandler and MountController).                *)
THEOREM StaysProtected == Spec => []LiveProtected
<1>1. WatchInv => LiveProtected
  BY DEF WatchInv, PatchInv, LiveProtected
<1> QED BY <1>1, WatchInvariant, PTL

(* What a step of PodController does to the references and to the pod.      *)
LEMMA DropStep ==
    ASSUME WatchInv, [Next]_vars, podW' # podW
    PROVE  /\ podW.pc = "annotations" => \A a \in mountPod.refs \ mountPod'.refs : appPods[a] = "gone"
           /\ podW.pc = "delete" /\ mountPod' # mountPod => mountPod.refs = {}
<1> USE DEF podController, mountController, history, cluster
<1>1. CASE checkAnnotations
  <2>1. podW.pc = "annotations" /\ mountPod \in PodRecord
    BY <1>1 DEF checkAnnotations, WatchInv, WatchType
  <2>2. mountPod' = mountPod \/ mountPod' = [mountPod EXCEPT !.refs = @ \ Dead]
    BY <1>1 DEF checkAnnotations, Change
  <2>3. mountPod.refs \ mountPod'.refs \subseteq Dead
    BY <2>1, <2>2 DEF PodRecord
  <2> QED BY <2>1, <2>3 DEF WatchInv, RefInv, Dead
<1>2. CASE deleteUnused
  BY <1>2 DEF deleteUnused, StillUnused
<1>3. CASE CsiLeaves
  BY <1>3 DEF CsiLeaves
<1>4. CASE ~checkAnnotations /\ ~deleteUnused /\ ~CsiLeaves
  <2>1. WatchNext
    BY DEF Next, ControllerRestarts, MountRestarts, vars, watchVars
  <2>2. podW.pc \notin {"annotations", "delete"}
    <3>1. CASE PodWorks
      BY <3>1, <1>4 DEF PodWorks, PodGet, ListVolumes, ListApps, GetAgain, resRemoveFinalizer,
            resDeletePod, resCreatePod, PodPatch, PodLock, Recreate, PodRequeue
    <3>2. CASE MountWorks
      BY <3>2 DEF MountWorks, MountGet, MountList, MountPatch, MountOnly
    <3>3. CASE ~PodWorks /\ ~MountWorks
      BY <2>1, <1>4, <3>3 DEF WatchNext, Label, AddRef, AppEnds, RemoveRef, AppGone,
            DeletedOutside, PodLacks, PodScheduled, PodGone, VolumeGone, CsiComes, CsiUp, TenMinutesPass
    <3> QED BY <3>1, <3>2, <3>3
  <2> QED BY <2>2
<1> QED BY <1>1, <1>2, <1>3, <1>4

(* For any number of applications: a reference that PodController drops is  *)
(* that of an application that is gone, and a pod it deletes has none.      *)
THEOREM DropsGone == Spec => DropsOnlyGone
<1>1. WatchInv /\ [Next]_vars =>
        [podW' # podW =>
            /\ podW.pc = "annotations" => \A a \in mountPod.refs \ mountPod'.refs : appPods[a] = "gone"
            /\ podW.pc = "delete" /\ mountPod' # mountPod => mountPod.refs = {}]_vars
  BY DropStep
<1> QED BY <1>1, WatchInvariant, PTL DEF Spec, DropsOnlyGone

-----------------------------------------------------------------------------
(* The secret and its controller                                            *)

Confs    == [token: Tokens \cup {"none"}, key: Names, issue: Nat]
SecretRecord == [rv: Nat, token: Tokens \cup {"none"}, key: Names, legacy: Names, conf: Confs]

RefreshType ==
    /\ issued \in Nat
    /\ secret \in SecretRecord
    /\ refreshW \in [pc: {"idle", "auth", "update"}, copy: SecretRecord, conf: Confs]

(* Only the secret that is not there has the version 0, and no secret holds *)
(* a configuration the console has not handed out yet.                      *)
SecretInv ==
    /\ secret.rv = 0 => secret = NoSecret
    /\ secret.conf.issue <= issued

(* What the resource version is for: while Reconcile is under way a secret  *)
(* with the version of its copy is that copy; a later secret has a later    *)
(* version, also when it was deleted and made again.                        *)
CopyInv ==
    refreshW.pc # "idle" =>
        /\ secret.rv # 0 => refreshW.copy.rv <= secret.rv
        /\ secret.rv # 0 /\ refreshW.copy.rv = secret.rv => refreshW.copy = secret
        /\ refreshW.copy.conf.issue <= issued

(* What the auth command printed fits the copy and is not older than what   *)
(* the copy holds.                                                          *)
PrintedInv ==
    refreshW.pc = "update" =>
        /\ refreshW.conf.token = refreshW.copy.token
        /\ refreshW.conf.key = AuthKey(refreshW.copy)
        /\ refreshW.copy.conf.issue <= refreshW.conf.issue
        /\ refreshW.conf.issue <= issued

RefreshInv == RefreshType /\ SecretInv /\ CopyInv /\ PrintedInv

(* In the beginning there is no secret.                                     *)
LEMMA RefreshInitially == ASSUME NEW b, RefreshInit(b) PROVE RefreshInv
BY DEF RefreshInit, RefreshInv, RefreshType, SecretInv, CopyInv, PrintedInv, NoSecret, NoConf,
       RefreshIdle, SecretRecord, Confs, Names

(* The key the auth command is called with.                                 *)
LEMMA AuthKeyType == ASSUME NEW s \in SecretRecord PROVE AuthKey(s) \in Names
BY DEF AuthKey, SecretRecord

(* A missing secret and an idle SecretController are well formed. *)
LEMMA NoSecretType ==
    /\ NoSecret \in SecretRecord /\ NoSecret.rv = 0 /\ NoSecret.conf = NoConf
    /\ NoConf \in Confs /\ NoConf.issue = 0
    /\ RefreshIdle \in [pc: {"idle", "auth", "update"}, copy: SecretRecord, conf: Confs]
    /\ RefreshIdle.pc = "idle"
<1>1. NoConf \in Confs /\ NoConf.issue = 0
  BY DEF NoConf, Confs, Names
<1>2. NoSecret \in SecretRecord /\ NoSecret.rv = 0 /\ NoSecret.conf = NoConf
  BY <1>1 DEF NoSecret, SecretRecord, Names
<1> QED BY <1>1, <1>2 DEF RefreshIdle

(* Users and the console keep the invariant.                                *)
LEMMA UserStepKeeps ==
    ASSUME RefreshInv,
           \/ \E t \in Tokens, k, l \in Names : UserWrites(t, k, l)
           \/ UserDeletes \/ ConsoleIssues
    PROVE  RefreshInv'
<1> USE DEF RefreshInv, RefreshType, SecretInv, CopyInv, PrintedInv
<1>a. secret.conf \in Confs /\ secret.rv \in Nat /\ refreshW.copy \in SecretRecord /\ refreshW.copy.rv \in Nat
      /\ refreshW.copy.conf \in Confs /\ refreshW.conf \in Confs
      /\ secret.conf.issue \in Nat /\ refreshW.copy.conf.issue \in Nat /\ refreshW.conf.issue \in Nat
  BY DEF SecretRecord, Confs
<1>1. ASSUME NEW t \in Tokens, NEW k \in Names, NEW l \in Names, UserWrites(t, k, l)
      PROVE  RefreshInv'
  <2>1. PICK c \in {secret.conf, NoConf} :
           secret' = [rv |-> NextVersion, token |-> t, key |-> k, legacy |-> l, conf |-> c]
    BY <1>1 DEF UserWrites
  <2>2. UNCHANGED <<issued, refreshW>>
    BY <1>1 DEF UserWrites
  <2>3. NextVersion \in Nat /\ NextVersion # 0 /\ NextVersion > secret.rv
        /\ (secret.rv = 0 => NextVersion > refreshW.copy.rv)
    BY <1>a DEF NextVersion
  <2>4. c \in Confs /\ c.issue <= issued
    BY <1>a, NoSecretType
  <2>5. secret' \in SecretRecord /\ secret'.rv = NextVersion /\ secret'.conf = c
    BY <2>1, <2>3, <2>4 DEF SecretRecord
  <2> QED BY <2>2, <2>3, <2>4, <2>5, <1>a
<1>2. CASE UserDeletes
  BY <1>2, NoSecretType DEF UserDeletes
<1>3. CASE ConsoleIssues
  BY <1>3, <1>a DEF ConsoleIssues
<1> QED BY <1>1, <1>2, <1>3

(* The secret that UpdateSecret writes.                                     *)
LEMMA WrittenFields ==
    ASSUME RefreshType
    PROVE  \A v \in Nat : LET w == [Written EXCEPT !.rv = v] IN
              /\ w \in SecretRecord /\ w.rv = v /\ w.conf = refreshW.conf
              /\ w.token = refreshW.copy.token /\ w.legacy = refreshW.copy.legacy
              /\ w.key = AuthKey(refreshW.copy)
BY AuthKeyType DEF RefreshType, Written, SecretRecord

(* Reconcile, the hour and a restart keep the invariant.                    *)
LEMMA RefreshStepKeeps ==
    ASSUME RefreshInv, RefreshWorks \/ HourPasses \/ RefreshRestarts
    PROVE  RefreshInv'
<1> USE DEF RefreshInv, RefreshType, SecretInv, CopyInv, PrintedInv, RefreshRetry
<1>a. /\ secret.rv \in Nat /\ secret.conf.issue \in Nat
      /\ refreshW.copy \in SecretRecord /\ refreshW.conf \in Confs /\ refreshW.conf.issue \in Nat
      /\ refreshW.copy.token \in Tokens \cup {"none"} /\ refreshW.copy.conf.issue \in Nat
  BY DEF SecretRecord, Confs
<1>1. CASE SecretGet
  BY <1>1, <1>a, NoSecretType DEF SecretGet
<1>2. CASE AuthFs
  <2> DEFINE c == [token |-> refreshW.copy.token, key |-> AuthKey(refreshW.copy), issue |-> issued]
  <2>1. c \in Confs /\ c.token = refreshW.copy.token /\ c.key = AuthKey(refreshW.copy) /\ c.issue = issued
    BY <1>a, AuthKeyType DEF Confs
  <2>2. refreshW' = [refreshW EXCEPT !.pc = "update", !.conf = c] /\ UNCHANGED <<secret, issued>>
        /\ refreshW.pc = "auth"
    BY <1>2 DEF AuthFs
  <2> HIDE DEF c
  <2>3. /\ refreshW' \in [pc: {"idle", "auth", "update"}, copy: SecretRecord, conf: Confs]
        /\ refreshW'.pc = "update" /\ refreshW'.copy = refreshW.copy /\ refreshW'.conf = c
    BY <2>1, <2>2
  <2> QED BY <1>a, <2>1, <2>2, <2>3
<1>3. CASE AuthFsFails \/ UpdateSecretFails
  BY <1>3, NoSecretType DEF AuthFsFails, UpdateSecretFails
<1>4. CASE UpdateSecret
  <2>1. refreshW.pc = "update" /\ refreshW' = RefreshIdle /\ UNCHANGED issued /\ secret.rv # 0
    BY <1>4 DEF UpdateSecret, UpdateAdmitted
  <2>2. CASE UNCHANGED secret
    BY <2>1, <2>2, NoSecretType
  <2>3. CASE secret' = [Written EXCEPT !.rv = NextVersion]
    <3>1. NextVersion \in Nat /\ NextVersion # 0
      BY <1>a, <2>1 DEF NextVersion
    <3>2. secret' \in SecretRecord /\ secret'.rv # 0 /\ secret'.conf = refreshW.conf
      BY <2>3, <3>1, WrittenFields
    <3> QED BY <2>1, <3>2, NoSecretType
  <2> QED BY <1>4, <2>2, <2>3 DEF UpdateSecret
<1>5. CASE HourPasses \/ RefreshRestarts
  BY <1>5, NoSecretType DEF HourPasses, RefreshRestarts
<1> QED BY <1>1, <1>2, <1>3, <1>4, <1>5 DEF RefreshWorks

(* Every step keeps the invariant of the refresh. *)
LEMMA RefreshStep == RefreshInv /\ [Next]_vars => RefreshInv'
<1> SUFFICES ASSUME RefreshInv, [Next]_vars PROVE RefreshInv'
  OBVIOUS
<1>1. CASE RefreshNext
  BY <1>1, UserStepKeeps, RefreshStepKeeps DEF RefreshNext, Names
<1>2. CASE ControllerRestarts
  BY <1>2, RefreshStepKeeps DEF ControllerRestarts
<1>3. CASE UNCHANGED refreshVars
  BY <1>3 DEF refreshVars, RefreshInv, RefreshType, SecretInv, CopyInv, PrintedInv
<1> QED BY <1>1, <1>2, <1>3 DEF Next, vars

(* A secret that is there is told apart from none in the abstract state.    *)
LEMMA PartIsNotNone == Part # NoSecret
<1>1. DOMAIN Part = {"token", "key", "legacy"}
  BY DEF Part
<1>2. DOMAIN NoSecret = {"rv", "token", "key", "legacy", "conf"}
  BY DEF NoSecret
<1> QED BY <1>1, <1>2

(* Every step of the controllers is a step of RefreshedSecret or leaves the *)
(* user's part and the configuration alone.                                 *)
LEMMA RefreshImplements == RefreshInv /\ [Next]_vars => [Atomic!Next]_(Atomic!vars)
<1> DEFINE User == IF secret = NoSecret THEN NoSecret ELSE Part
<1> SUFFICES ASSUME RefreshInv, [Next]_vars
             PROVE  [Atomic!Next]_(Atomic!vars)
  OBVIOUS
<1> USE DEF RefreshInv, RefreshType
<1>a. /\ secret.rv \in Nat /\ refreshW.copy \in SecretRecord /\ refreshW.conf \in Confs
      /\ refreshW.conf.issue \in Nat
  BY DEF SecretRecord, Confs
<1>1. ASSUME NEW t \in Tokens, NEW k \in Names, NEW l \in Names, UserWrites(t, k, l)
      PROVE  Atomic!UserWrites
  <2>1. PICK c \in {secret.conf, NoConf} :
           secret' = [rv |-> NextVersion, token |-> t, key |-> k, legacy |-> l, conf |-> c]
    BY <1>1 DEF UserWrites
  <2>2. NextVersion # 0
    BY <1>a DEF NextVersion, SecretRecord
  <2>3. secret' # NoSecret /\ Part' = [token |-> t, key |-> k, legacy |-> l] /\ secret'.conf = c
    BY <2>1, <2>2 DEF NoSecret, Part
  <2>4. User' \in [token: Tokens, key: Names, legacy: Names]
    BY <2>3
  <2>5. written' = written + 1 /\ UNCHANGED issued
    BY <1>1 DEF UserWrites, Write
  <2> QED BY <2>1, <2>3, <2>4, <2>5 DEF Atomic!UserWrites
<1>2. ASSUME UserDeletes
      PROVE  Atomic!UserDeletes
  BY <1>2, PartIsNotNone, NoSecretType DEF UserDeletes, Write, Atomic!UserDeletes
<1>3. ASSUME ConsoleIssues
      PROVE  Atomic!Issues
  BY <1>3 DEF ConsoleIssues, Atomic!Issues, Part
<1>4. ASSUME UpdateSecret, secret' # secret
      PROVE  Atomic!Refresh
  <2>1. refreshW.pc = "update" /\ secret # NoSecret /\ secret.rv = refreshW.copy.rv
        /\ secret' = [Written EXCEPT !.rv = NextVersion] /\ UNCHANGED <<issued, written>>
    BY <1>4 DEF UpdateSecret, UpdateAdmitted
  <2>2. refreshW.copy = secret
    BY <2>1 DEF CopyInv, SecretInv
  <2>3. NextVersion \in Nat /\ NextVersion # 0
    BY <1>a, <2>1 DEF NextVersion, SecretInv
  <2>4. /\ secret' \in SecretRecord /\ secret'.rv # 0 /\ secret'.conf = refreshW.conf
        /\ secret'.token = secret.token /\ secret'.legacy = secret.legacy /\ secret'.key = AuthKey(secret)
    BY <2>1, <2>2, <2>3, WrittenFields
  <2>5. User = Part /\ User' = Part' /\ Part # NoSecret
    BY <2>1, <2>4, NoSecretType, PartIsNotNone
  <2>6. Atomic!AuthKey(User) = AuthKey(secret)
    BY <2>5 DEF Atomic!AuthKey, AuthKey, Part
  <2>7. User' = [User EXCEPT !.key = AuthKey(secret)]
    BY <2>4, <2>5 DEF Part
  <2>8. refreshW.conf = [token |-> User.token, key |-> AuthKey(secret), issue |-> refreshW.conf.issue]
    BY <1>a, <2>1, <2>2, <2>5 DEF PrintedInv, Confs, Part
  <2>9. refreshW.conf.issue \in 0..issued /\ secret.conf.issue <= refreshW.conf.issue
    BY <1>a, <2>1, <2>2 DEF PrintedInv
  <2> QED BY <2>1, <2>4, <2>5, <2>6, <2>7, <2>8, <2>9 DEF Atomic!Refresh
<1>5. ASSUME UNCHANGED <<secret, issued, written>>
      PROVE  UNCHANGED Atomic!vars
  BY <1>5 DEF Atomic!vars, Part
<1>6. CASE RefreshNext
  <2>1. CASE \E t \in Tokens, k, l \in Names : UserWrites(t, k, l)
    BY <2>1, <1>1 DEF Atomic!Next
  <2>2. CASE UserDeletes \/ ConsoleIssues
    BY <2>2, <1>2, <1>3 DEF Atomic!Next
  <2>3. CASE UpdateSecret
    <3>1. UNCHANGED <<issued, written>>
      BY <2>3 DEF UpdateSecret
    <3> QED BY <2>3, <3>1, <1>4, <1>5 DEF Atomic!Next
  <2>4. CASE SecretGet \/ AuthFs \/ AuthFsFails \/ UpdateSecretFails \/ HourPasses
    BY <2>4, <1>5 DEF SecretGet, AuthFs, AuthFsFails, UpdateSecretFails, HourPasses
  <2> QED BY <1>6, <2>1, <2>2, <2>3, <2>4 DEF RefreshNext, RefreshWorks, Names
<1>7. CASE ControllerRestarts
  BY <1>7, <1>5 DEF ControllerRestarts, RefreshRestarts
<1>8. CASE UNCHANGED refreshVars
  BY <1>8, <1>5 DEF refreshVars
<1> QED BY <1>6, <1>7, <1>8 DEF Next, vars

(* SecretController implements RefreshedSecret for all tokens, keys and     *)
(* bounds: what a user wrote between the read and UpdateSecret is never     *)
(* undone, the configuration always fits what the secret holds, and it is   *)
(* never replaced by an older one.                                          *)
THEOREM RefreshRefines == Spec => RefreshesAtomically
<1>1. Init => RefreshInv
  BY RefreshInitially DEF Init
<1>2. Init => Atomic!Init
  BY DEF Init, RefreshInit, NoSecret, Atomic!Init
<1> QED BY <1>1, <1>2, RefreshStep, RefreshImplements, PTL DEF Spec, RefreshesAtomically, Atomic!Spec

=============================================================================
