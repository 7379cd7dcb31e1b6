--------------------------- MODULE MountRefProofs ---------------------------
(***************************************************************************)
(* Theorems about MountRef, for any sets of targets and pod names, any     *)
(* assignment of pod names to locks and any values of the bounds: types,   *)
(* the pod locks, the deletion of pods, who may drop references, and that  *)
(* those of running applications are kept.                                 *)
(***************************************************************************)
EXTENDS MountRef, TLAPS

-----------------------------------------------------------------------------
(* Type correctness *)

(* What is known of a pod object.                                           *)
LEMMA PodType ==
    /\ NoPod \in Pod
    /\ \A t \in Targets : NewMountPod(t) \in Pod
    /\ \A po \in Pod, res \in BOOLEAN : CopyOfPod(po, res) \in Pod
    /\ \A po \in Pod : Later(po) \in Pod
<1>1. NoPod \in Pod
  BY BoundAssumption DEF NoPod, Pod, NoTime, Phases
<1>2. \A t \in Targets : NewMountPod(t) \in Pod
  BY BoundAssumption DEF NewMountPod, Pod, NoTime, Phases
<1>3. \A po \in Pod, res \in BOOLEAN : CopyOfPod(po, res) \in Pod
  BY BoundAssumption DEF CopyOfPod, Pod, NoTime, Phases
<1>4. \A po \in Pod : Later(po) \in Pod
  BY BoundAssumption DEF Later, Pod, NoTime, Phases
<1>5. QED BY <1>1, <1>2, <1>3, <1>4

LEMMA ThreadType ==
    /\ IdleOp \in Op
    /\ IdleDrv \in Drv
    /\ \A pc \in OpPCs, p \in PodNames \cup {NoName} :
          [pc |-> pc, name |-> p, refs |-> {}] \in Op
<1>1. IdleOp \in Op
  BY DEF IdleOp, Op, OpPCs
<1>2. IdleDrv \in Drv
  BY PodType DEF IdleDrv, Drv, DrvPCs
<1>3. \A pc \in OpPCs, p \in PodNames \cup {NoName} :
          [pc |-> pc, name |-> p, refs |-> {}] \in Op
  BY DEF Op
<1>4. QED BY <1>1, <1>2, <1>3

LEMMA TypeInit == Init => TypeOK
  BY PodType, ThreadType, BoundAssumption DEF Init, TypeOK, Left

(* What the steps do to the variables keeps the types. *)

LEMMA LockType ==
    ASSUME TypeOK, NEW name \in PodNames \cup {NoName}
    PROVE  /\ Release(name) => lock' \in [Stripes -> Targets \cup PodNames \cup {NoOne}]
           /\ \A who \in Targets \cup PodNames :
                 Acquire(name, who) => lock' \in [Stripes -> Targets \cup PodNames \cup {NoOne}]
<1> GetPodLock(name) \in Stripes
  BY StripeAssumption DEF GetPodLock
<1> QED BY DEF TypeOK, Release, Acquire

LEMMA OpType ==
    ASSUME TypeOK, NEW t \in Targets
    PROVE  /\ op[t].name \in PodNames \cup {NoName}
           /\ op[t].refs \in SUBSET Targets
           /\ \A pc \in OpPCs : Goto(t, pc) => op' \in [Targets -> Op]
           /\ \A k \in {"unmounted", "uncertain", "mounted"} :
                 Return(t, k) => /\ op' \in [Targets -> Op]
                                 /\ kvol' \in [Targets -> {"unmounted", "uncertain", "mounted"}]
<1>1. op[t].name \in PodNames \cup {NoName} /\ op[t].refs \in SUBSET Targets
  <2>1. op[t] \in Op
    BY DEF TypeOK
  <2>2. QED BY <2>1 DEF Op
<1>2. \A pc \in OpPCs : Goto(t, pc) => op' \in [Targets -> Op]
  <2>1. op \in [Targets -> Op]
    BY DEF TypeOK
  <2>2. QED BY <2>1 DEF Goto, Op
<1>3. \A k \in {"unmounted", "uncertain", "mounted"} :
          Return(t, k) => /\ op' \in [Targets -> Op]
                          /\ kvol' \in [Targets -> {"unmounted", "uncertain", "mounted"}]
  BY ThreadType DEF TypeOK, Return
<1>4. QED BY <1>1, <1>2, <1>3

LEMMA DrvType ==
    ASSUME TypeOK, NEW p \in PodNames
    PROVE  /\ drv[p].snap \in Pod
           /\ \A pc \in DrvPCs : DGoto(p, pc) => drv' \in [PodNames -> Drv]
           /\ DEnd(p) => drv' \in [PodNames -> Drv]
<1>1. drv[p].snap \in Pod
  BY DEF TypeOK, Drv
<1>2. \A pc \in DrvPCs : DGoto(p, pc) => drv' \in [PodNames -> Drv]
  <2>1. drv \in [PodNames -> Drv]
    BY DEF TypeOK
  <2>2. QED BY <2>1 DEF DGoto, Drv
<1>3. DEnd(p) => drv' \in [PodNames -> Drv]
  BY ThreadType DEF TypeOK, DEnd
<1>4. QED BY <1>1, <1>2, <1>3

LEMMA PodFieldType ==
    ASSUME TypeOK, NEW p \in PodNames
    PROVE  /\ pod[p].refs \in SUBSET Targets
           /\ \A po \in Pod : [pod EXCEPT ![p] = po] \in [PodNames -> Pod]
           /\ [pod EXCEPT ![p].deleting = TRUE] \in [PodNames -> Pod]
           /\ [pod EXCEPT ![p].finalizer = FALSE] \in [PodNames -> Pod]
           /\ [pod EXCEPT ![p].deleteAt = DeleteDelay] \in [PodNames -> Pod]
           /\ \A r \in SUBSET Targets : [pod EXCEPT ![p].refs = r] \in [PodNames -> Pod]
           /\ \A r \in SUBSET Targets, d \in {NoTime, pod[p].deleteAt} :
                 [pod EXCEPT ![p].refs = r, ![p].deleteAt = d] \in [PodNames -> Pod]
           /\ \A ph \in Phases : [pod EXCEPT ![p].phase = ph] \in [PodNames -> Pod]
<1>2. \A po \in Pod : [pod EXCEPT ![p] = po] \in [PodNames -> Pod]
  BY DEF TypeOK
<1> USE BoundAssumption DEF TypeOK, Pod, NoTime
<1>1. pod[p].refs \in SUBSET Targets
  OBVIOUS
<1>3. [pod EXCEPT ![p].deleting = TRUE] \in [PodNames -> Pod]
  BY ZenonT(60)
<1>4. [pod EXCEPT ![p].finalizer = FALSE] \in [PodNames -> Pod]
  BY ZenonT(60)
<1>5. [pod EXCEPT ![p].deleteAt = DeleteDelay] \in [PodNames -> Pod]
  OBVIOUS
<1>6. \A r \in SUBSET Targets : [pod EXCEPT ![p].refs = r] \in [PodNames -> Pod]
  OBVIOUS
<1>7. ASSUME NEW r \in SUBSET Targets, NEW d \in {NoTime, pod[p].deleteAt}
      PROVE  [pod EXCEPT ![p].refs = r, ![p].deleteAt = d] \in [PodNames -> Pod]
  <2>1. [pod[p] EXCEPT !.refs = r, !.deleteAt = d] \in Pod
    BY ZenonT(60)
  <2>2. [pod EXCEPT ![p].refs = r, ![p].deleteAt = d]
          = [pod EXCEPT ![p] = [pod[p] EXCEPT !.refs = r, !.deleteAt = d]]
    OBVIOUS
  <2>3. QED BY <1>2, <2>1, <2>2
<1>8. \A ph \in Phases : [pod EXCEPT ![p].phase = ph] \in [PodNames -> Pod]
  OBVIOUS
<1>9. QED BY <1>1, <1>2, <1>3, <1>4, <1>5, <1>6, <1>7, <1>8

(* A call has found the name of its mount pod before it touches the pod. *)
Named ==
    \A t \in Targets :
        op[t].pc \notin {"idle", "unLock", "unUmount"} => op[t].name \in PodNames

(* The steps of a NodePublish or NodeUnpublish call *)

LEMMA OpStepType ==
    ASSUME TypeOK, Named, NEW t \in Targets, OpLock(t) \/ OpStep(t) \/ OpFail(t)
    PROVE  TypeOK'
<1> DEFINE KVols == {"unmounted", "uncertain", "mounted"}
<1>a. /\ op \in [Targets -> Op] /\ op[t] \in Op
      /\ kvol \in [Targets -> KVols] /\ kvol[t] \in KVols
  BY DEF TypeOK
<1> USE LockType, OpType
    DEF TypeOK, OpPCs, PublishPCs, UnpublishPCs, api, mounts, kubelet
<1>1. CASE LockCreateOrAddRef(t)
  BY <1>1 DEF LockCreateOrAddRef
<1>2. CASE LockJfsUnmount(t)
  BY <1>2 DEF LockJfsUnmount
<1>3. CASE NodePublishVolume(t)
  <2>1. PICK p \in PodNames : op' = [op EXCEPT ![t] = [pc |-> "pubLock", name |-> p, refs |-> {}]]
    BY <1>3 DEF NodePublishVolume
  <2>2. [pc |-> "pubLock", name |-> p, refs |-> {}] \in Op
    BY ThreadType
  <2>3. op' \in [Targets -> Op]
    BY <1>a, <2>1, <2>2
  <2>4. bind' \in [Targets -> PodNames \cup {NoName}]
    BY <1>3 DEF NodePublishVolume, CreateTarget
  <2>5. kvol' \in [Targets -> KVols]
    BY <1>3 DEF NodePublishVolume
  <2>6. QED BY <1>3, <2>3, <2>4, <2>5 DEF NodePublishVolume, CreateTarget
<1>4. CASE createOrAddRef(t)
  <2>1. op[t].name \in PodNames
    BY SMTT(30), <1>4 DEF createOrAddRef, Named
  <2>2. NewMountPod(t) \in Pod
    BY PodType
  <2>3. [pod EXCEPT ![op[t].name] = NewMountPod(t)] \in [PodNames -> Pod]
    BY <2>1, <2>2, PodFieldType
  <2>4. QED BY <1>4, <2>1, <2>3 DEF createOrAddRef
<1>5. CASE createOrAddRefTimeout(t)
  BY <1>5 DEF createOrAddRefTimeout
<1>6. CASE AddRefOfMountGet(t)
  <2>1. op[t].name \in PodNames
    BY SMTT(30), <1>6 DEF AddRefOfMountGet, Named
  <2>2. pod[op[t].name].refs \in SUBSET Targets
    BY <2>1, PodFieldType
  <2>3. [op EXCEPT ![t].pc = "addPatch", ![t].refs = pod[op[t].name].refs] \in [Targets -> Op]
    <3>1. [op[t] EXCEPT !.pc = "addPatch", !.refs = pod[op[t].name].refs] \in Op
      BY <1>a, <2>2 DEF Op
    <3>2. [op EXCEPT ![t].pc = "addPatch", ![t].refs = pod[op[t].name].refs]
            = [op EXCEPT ![t] = [op[t] EXCEPT !.pc = "addPatch", !.refs = pod[op[t].name].refs]]
      BY <1>a DEF Op
    <3>3. QED BY <1>a, <3>1, <3>2
  <2>4. op' \in [Targets -> Op]
    BY <1>6, <2>3 DEF AddRefOfMountGet
  <2>5. kvol' \in [Targets -> KVols]
    BY <1>6 DEF AddRefOfMountGet
  <2>6. lock' \in [Stripes -> Targets \cup PodNames \cup {NoOne}]
    BY <1>6 DEF AddRefOfMountGet
  <2>7. QED BY <1>6, <2>4, <2>5, <2>6 DEF AddRefOfMountGet
<1>7. CASE AddRefOfMountPatch(t)
  <2>1. op[t].name \in PodNames
    BY <1>7 DEF AddRefOfMountPatch, Named
  <2>2. [pod EXCEPT ![op[t].name].refs = op[t].refs \cup {t}, ![op[t].name].deleteAt = NoTime]
          \in [PodNames -> Pod]
    <3>1. op[t].refs \cup {t} \in SUBSET Targets
      OBVIOUS
    <3>2. QED BY <2>1, <3>1, PodFieldType
  <2>3. [op EXCEPT ![t].pc = "pubWait", ![t].refs = {}] \in [Targets -> Op]
    <3>1. [op[t] EXCEPT !.pc = "pubWait", !.refs = {}] \in Op
      BY <1>a DEF Op
    <3>2. [op EXCEPT ![t].pc = "pubWait", ![t].refs = {}]
            = [op EXCEPT ![t] = [op[t] EXCEPT !.pc = "pubWait", !.refs = {}]]
      BY <1>a DEF Op
    <3>3. QED BY <1>a, <3>1, <3>2
  <2>4. op' \in [Targets -> Op] /\ kvol' \in [Targets -> KVols]
    BY <1>7, <2>3 DEF AddRefOfMountPatch
  <2>5. pod' \in [PodNames -> Pod]
    BY <1>7, <2>2 DEF AddRefOfMountPatch
  <2>6. lock' \in [Stripes -> Targets \cup PodNames \cup {NoOne}]
    BY <1>7 DEF AddRefOfMountPatch
  <2>7. QED BY <1>7, <2>4, <2>5, <2>6 DEF AddRefOfMountPatch
<1>8. CASE waitUtilMountReady(t)
  BY <1>8 DEF waitUtilMountReady
<1>9. CASE BindTarget(t)
  <2>1. bind' \in [Targets -> PodNames \cup {NoName}] /\ dead' \in SUBSET Targets
    BY <1>9 DEF BindTarget
  <2>2. op' \in [Targets -> Op] /\ kvol' \in [Targets -> KVols]
    BY <1>9 DEF BindTarget
  <2>3. QED BY <1>9, <2>1, <2>2 DEF BindTarget
<1>10. CASE SetQuotaAndReply(t)
  BY <1>10 DEF SetQuotaAndReply
<1>11. CASE JfsUnmount(t)
  <2>1. PICK p \in PodNames \cup {NoName} :
            op' = [op EXCEPT ![t] = [pc |-> "unLock", name |-> p, refs |-> {}]]
    BY <1>11 DEF JfsUnmount
  <2>2. [pc |-> "unLock", name |-> p, refs |-> {}] \in Op
    BY ThreadType
  <2>3. op' \in [Targets -> Op]
    BY <1>a, <2>1, <2>2
  <2>4. QED BY <1>11, <2>3 DEF JfsUnmount
<1>12. CASE UmountTarget(t)
  BY <1>12 DEF UmountTarget
<1>13. CASE UmountTargetGet(t) \/ UmountTargetCheck(t)
  BY <1>13 DEF UmountTargetGet, UmountTargetCheck
<1>14. CASE UmountTargetPatch(t)
  <2>1. op[t].name \in PodNames
    BY SMTT(30), <1>14 DEF UmountTargetPatch, Named
  <2>2. [pod EXCEPT ![op[t].name].refs = @ \ {t}] \in [PodNames -> Pod]
    <3>1. pod[op[t].name].refs \ {t} \in SUBSET Targets
      BY <2>1, PodFieldType
    <3>2. QED BY <2>1, <3>1, PodFieldType
  <2>3. op' \in [Targets -> Op] /\ kvol' \in [Targets -> KVols]
    BY <1>14, <1>a DEF UmountTargetPatch
  <2>4. pod' \in [PodNames -> Pod]
    BY <1>14, <2>2 DEF UmountTargetPatch
  <2>5. lock' \in [Stripes -> Targets \cup PodNames \cup {NoOne}]
    BY <1>14 DEF UmountTargetPatch
  <2>6. QED BY <1>14, <2>3, <2>4, <2>5 DEF UmountTargetPatch
<1>15. CASE GetMountRef(t)
  BY <1>15 DEF GetMountRef
<1>16. CASE JUmount(t)
  <2>1. op[t].name \in PodNames
    BY SMTT(30), <1>16 DEF JUmount, Named
  <2>2. [pod EXCEPT ![op[t].name].deleteAt = DeleteDelay] \in [PodNames -> Pod]
    BY <2>1, PodFieldType
  <2>3. QED BY <1>16, <2>2 DEF JUmount, WriteDeleteAt
<1>17. CASE JUmountDelete(t)
  <2>1. op[t].name \in PodNames
    BY SMTT(30), <1>17 DEF JUmountDelete, Named
  <2>2. [pod EXCEPT ![op[t].name].deleting = TRUE] \in [PodNames -> Pod]
    BY <2>1, PodFieldType
  <2>3. op' \in [Targets -> Op] /\ kvol' \in [Targets -> KVols]
    BY <1>17, <1>a DEF JUmountDelete
  <2>4. QED BY <1>17, <2>2, <2>3 DEF JUmountDelete
<1>18. CASE OpFail(t)
  <2>1. left' \in Left
    BY <1>18, BoundAssumption DEF OpFail, Left
  <2>2. op' \in [Targets -> Op] /\ kvol' \in [Targets -> KVols]
    BY <1>18, <1>a DEF OpFail
  <2>3. QED BY <1>18, <2>1, <2>2 DEF OpFail
<1>19. QED
  BY <1>1, <1>2, <1>3, <1>4, <1>5, <1>6, <1>7, <1>8, <1>9, <1>10, <1>11, <1>12,
     <1>13, <1>14, <1>15, <1>16, <1>17, <1>18 DEF OpLock, OpStep

(* The steps of PodDriver.Run *)

LEMMA DrvStepType ==
    ASSUME TypeOK, NEW p \in PodNames,
           DrvLock(p) \/ DrvStep(p) \/ DrvFail(p) \/ DrvAbort(p)
    PROVE  TypeOK'
<1>a. /\ drv \in [PodNames -> Drv] /\ drv[p] \in Drv /\ pod[p] \in Pod
      /\ p \in PodNames \cup {NoName} /\ p \in Targets \cup PodNames
  BY DEF TypeOK
<1>b. drv[p].snap \in Pod /\ drv[p].snap.refs \in SUBSET Targets /\ drv[p].snap.hasRes \in BOOLEAN
  BY <1>a DEF Drv, Pod
<1>c. recover(p) => bind' \in [Targets -> PodNames \cup {NoName}] /\ dead' \in SUBSET Targets
  BY DEF recover, TypeOK
<1> USE LockType, DrvType, <1>a DEF TypeOK, DrvPCs, api, mounts, kubelet
<1>1. CASE checkAnnotations(p)
  BY <1>1 DEF checkAnnotations
<1>2. CASE podErrorHandler(p)
  BY <1>2 DEF podErrorHandler
<1>3. CASE lockRecreate(p)
  BY <1>3 DEF lockRecreate
<1>4. CASE Run(p)
  <2> DEFINE d == [pc |-> "chkLock", snap |-> pod[p],
                   apps |-> {t \in Targets : app[t] \in {"running", "terminating"}},
                   down |-> {t \in Targets : app[t] = "terminating"}]
  <2>1. d \in Drv
    BY DEF Drv
  <2>2. drv' = [drv EXCEPT ![p] = d]
    BY <1>4 DEF Run
  <2>3. drv' \in [PodNames -> Drv]
    BY <2>1, <2>2
  <2>4. QED BY <1>4, <2>3 DEF Run
<1>5. CASE checkAnnotationsGet(p)
  BY <1>5 DEF checkAnnotationsGet
<1>6. CASE checkAnnotationsPatch(p)
  <2> DEFINE r == pod[p].refs \ delAnnotations(drv[p])
             a == IF delDeleteAt(drv[p]) THEN NoTime ELSE pod[p].deleteAt
  <2>1. r \in SUBSET Targets /\ a \in {NoTime, pod[p].deleteAt}
    BY PodFieldType
  <2>2. [pod EXCEPT ![p].refs = r, ![p].deleteAt = a] \in [PodNames -> Pod]
    BY <2>1, PodFieldType
  <2>3. pod' \in [PodNames -> Pod]
    BY <1>6, <2>2 DEF checkAnnotationsPatch
  <2>4. drv' \in [PodNames -> Drv]
    BY <1>6 DEF checkAnnotationsPatch
  <2>5. lock' \in [Stripes -> Targets \cup PodNames \cup {NoOne}]
    BY <1>6 DEF checkAnnotationsPatch
  <2>6. QED BY SMTT(30), <1>6, <2>3, <2>4, <2>5 DEF checkAnnotationsPatch
<1>7. CASE checkAnnotationsDelay(p)
  <2>1. [pod EXCEPT ![p].deleteAt = DeleteDelay] \in [PodNames -> Pod]
    BY PodFieldType
  <2>2. QED BY SMTT(30), <1>7, <2>1 DEF checkAnnotationsDelay, WriteDeleteAt
<1>8. CASE checkAnnotationsDelGet(p)
  BY <1>8 DEF checkAnnotationsDelGet
<1>9. CASE checkAnnotationsDelete(p)
  <2>1. [pod EXCEPT ![p].deleting = TRUE] \in [PodNames -> Pod]
    BY PodFieldType
  <2>2. QED BY <1>9, <2>1 DEF checkAnnotationsDelete
<1>10. CASE dispatch(p)
  <2> DEFINE po == IF getPodStatus(drv[p].snap) \in {"podError", "podDeleted"}
                   THEN pod[p] ELSE drv[p].snap
             to == IF po.exists THEN handlers(po) ELSE "idle"
             d  == [drv[p] EXCEPT !.pc = to, !.snap = po, !.apps = {}]
  <2>1. po \in Pod
    BY <1>b
  <2>2. to \in DrvPCs
    BY DEF handlers
  <2>3. d \in Drv
    BY <2>1, <2>2 DEF Drv
  <2>4. drv' = [drv EXCEPT ![p] = IF to = "idle" THEN IdleDrv ELSE d]
    BY <1>10 DEF dispatch
  <2>5. drv' \in [PodNames -> Drv]
    BY <2>3, <2>4, ThreadType
  <2>6. QED BY <1>10, <2>5 DEF dispatch
<1>11. CASE podReadyHandler(p)
  BY <1>11, <1>c DEF podReadyHandler
<1>12. CASE resRemoveFinalizer(p)
  <2>1. [pod EXCEPT ![p].finalizer = FALSE] \in [PodNames -> Pod]
    BY PodFieldType
  <2>2. QED BY SMTT(30), <1>12, <2>1 DEF resRemoveFinalizer
<1>13. CASE resDeletePod(p)
  <2>1. [pod EXCEPT ![p].deleting = TRUE] \in [PodNames -> Pod]
    BY PodFieldType
  <2>2. QED BY <1>13, <2>1 DEF resDeletePod
<1>14. CASE resCreatePod(p)
  <2>1. CopyOfPod(drv[p].snap, FALSE) \in Pod
    BY <1>b, PodType
  <2>2. [pod EXCEPT ![p] = CopyOfPod(drv[p].snap, FALSE)] \in [PodNames -> Pod]
    BY <2>1, PodFieldType
  <2>3. QED BY <1>14, <2>2 DEF resCreatePod
<1>15. CASE podDeletedHandler(p)
  <2>1. [pod EXCEPT ![p].finalizer = FALSE] \in [PodNames -> Pod]
    BY PodFieldType
  <2>2. QED BY <1>15, <2>1 DEF podDeletedHandler
<1>16. CASE umountSource(p)
  BY <1>16 DEF umountSource
<1>17. CASE recreatePod(p)
  <2>1. \A res \in {drv[p].snap.hasRes, TRUE} :
            [pod EXCEPT ![p] = CopyOfPod(drv[p].snap, res)] \in [PodNames -> Pod]
    <3>1. \A res \in {drv[p].snap.hasRes, TRUE} : CopyOfPod(drv[p].snap, res) \in Pod
      BY <1>b, PodType
    <3>2. QED BY <3>1, PodFieldType
  <2>2. [pod EXCEPT ![p].refs = @ \cup drv[p].snap.refs] \in [PodNames -> Pod]
    <3>1. pod[p].refs \cup drv[p].snap.refs \in SUBSET Targets
      BY <1>b, PodFieldType
    <3>2. QED BY <3>1, PodFieldType
  <2>3. pod' \in [PodNames -> Pod]
    BY ZenonT(60), <1>17, <2>1, <2>2 DEF recreatePod
  <2>4. drv' \in [PodNames -> Drv] /\ fuse' \in SUBSET PodNames
    BY <1>17 DEF recreatePod
  <2>5. lock' \in [Stripes -> Targets \cup PodNames \cup {NoOne}]
    BY <1>17 DEF recreatePod
  <2>6. QED BY <1>17, <2>3, <2>4, <2>5 DEF recreatePod
<1>18. CASE recoverRecreated(p)
  BY <1>18, <1>c DEF recoverRecreated
<1>19. CASE DrvTimeout(p)
  BY <1>19 DEF DrvTimeout
<1>20. CASE DrvFail(p)
  <2>1. left' \in Left
    BY <1>20, BoundAssumption DEF DrvFail, Left
  <2>2. QED BY <1>20, <2>1 DEF DrvFail
<1>21. CASE DrvAbort(p)
  <2>1. left' \in Left
    BY SMTT(30), <1>21, BoundAssumption DEF DrvAbort, Left
  <2>2. QED BY <1>21, <2>1 DEF DrvAbort
<1>22. QED
  BY <1>1, <1>2, <1>3, <1>4, <1>5, <1>6, <1>7, <1>8, <1>9, <1>10, <1>11, <1>12, <1>13,
     <1>14, <1>15, <1>16, <1>17, <1>18, <1>19, <1>20, <1>21 DEF DrvLock, DrvStep

(* The steps of everybody else *)

LEMMA EnvironmentType ==
    ASSUME TypeOK, Environment
    PROVE  TypeOK'
<1>a. ASSUME NEW p \in PodNames, KillMount(p)
      PROVE  fuse' \in SUBSET PodNames /\ dead' \in SUBSET Targets
  BY <1>a DEF KillMount, TypeOK
<1> USE DEF TypeOK, api, mounts, kubelet
<1>1. ASSUME NEW p \in PodNames, MountPodReady(p)
      PROVE  TypeOK'
  BY <1>1, PodFieldType DEF MountPodReady, Phases
<1>2. ASSUME NEW p \in PodNames, MountPodRestart(p)
      PROVE  TypeOK'
  <2>1. left' \in Left
    BY SMTT(30), <1>2, BoundAssumption DEF MountPodRestart, Left
  <2>2. [pod EXCEPT ![p].phase = "restarting"] \in [PodNames -> Pod]
    BY PodFieldType DEF Phases
  <2>3. QED BY <1>2, <1>a, <2>1, <2>2 DEF MountPodRestart
<1>3. ASSUME NEW p \in PodNames, MountPodFailed(p)
      PROVE  TypeOK'
  <2>1. left' \in Left
    BY SMTT(30), <1>3, BoundAssumption DEF MountPodFailed, Left
  <2>2. [pod EXCEPT ![p].phase = "error"] \in [PodNames -> Pod]
    BY PodFieldType DEF Phases
  <2>3. QED BY <1>3, <1>a, <2>1, <2>2 DEF MountPodFailed
<1>4. ASSUME NEW p \in PodNames, MountPodNoResource(p)
      PROVE  TypeOK'
  <2>1. left' \in Left
    BY SMTT(30), <1>4, BoundAssumption DEF MountPodNoResource, Left
  <2>2. \A ph \in {"outOf", "unschedulable"} : [pod EXCEPT ![p].phase = ph] \in [PodNames -> Pod]
    BY PodFieldType DEF Phases
  <2>3. QED BY <1>4, <2>1, <2>2 DEF MountPodNoResource
<1>5. ASSUME NEW p \in PodNames, DeletedElsewhere(p)
      PROVE  TypeOK'
  <2>1. left' \in Left
    BY SMTT(30), <1>5, BoundAssumption DEF DeletedElsewhere, Left
  <2>2. [pod EXCEPT ![p].deleting = TRUE] \in [PodNames -> Pod]
    BY PodFieldType
  <2>3. QED BY <1>5, <2>1, <2>2 DEF DeletedElsewhere
<1>6. ASSUME NEW p \in PodNames, MountPodGone(p)
      PROVE  TypeOK'
  <2>1. [pod EXCEPT ![p] = NoPod] \in [PodNames -> Pod]
    BY PodType, PodFieldType
  <2>2. QED BY SMTT(30), <1>6, <1>a, <2>1 DEF MountPodGone
<1>7. ASSUME NEW t \in Targets, AppStep(t)
      PROVE  TypeOK'
  BY <1>7 DEF AppStep
<1>8. CASE Tick
  <2>1. pod' \in [PodNames -> Pod]
    BY <1>8, PodType DEF Tick
  <2>2. \A p \in PodNames : [drv[p] EXCEPT !.snap = Later(@)] \in Drv
    BY PodType DEF Drv
  <2>3. drv' \in [PodNames -> Drv]
    BY <1>8, <2>2 DEF Tick
  <2>4. QED BY <1>8, <2>1, <2>3 DEF Tick
<1>9. CASE Crash
  <2>1. left' \in Left
    BY <1>9, BoundAssumption DEF Crash, Left
  <2>2. op' \in [Targets -> Op] /\ drv' \in [PodNames -> Drv]
    BY <1>9, ThreadType DEF Crash
  <2>3. QED BY <1>9, <2>1, <2>2 DEF Crash
<1>10. QED
  BY <1>1, <1>2, <1>3, <1>4, <1>5, <1>6, <1>7, <1>8, <1>9 DEF Environment

-----------------------------------------------------------------------------
(* The inductive invariant TypeOK /\ Named *)

LEMMA NamedNext ==
    ASSUME TypeOK, Named, Next
    PROVE  Named'
<1>a. op \in [Targets -> Op]
  BY DEF TypeOK
<1>b. ASSUME UNCHANGED op
      PROVE  Named'
  BY <1>b DEF Named
<1>1. ASSUME NEW t \in Targets, OpLock(t) \/ OpStep(t) \/ OpFail(t)
      PROVE  Named'
  <2>1. ASSUME NEW k, Return(t, k)
        PROVE  Named'
    BY <1>a, <2>1 DEF Return, Named, IdleOp
  <2>2. ASSUME NEW pc, Goto(t, pc), op[t].pc \notin {"idle", "unLock", "unUmount"}
        PROVE  Named'
    BY <1>a, <2>2 DEF Goto, Named, Op
  <2>3. CASE OpLock(t)
    BY <1>a, <2>3 DEF OpLock, LockCreateOrAddRef, LockJfsUnmount, Goto, Named, Op
  <2>4. CASE NodePublishVolume(t)
    BY <1>a, <2>4 DEF NodePublishVolume, Named
  <2>5. CASE createOrAddRef(t)
    BY <2>2, <2>5 DEF createOrAddRef
  <2>6. CASE createOrAddRefTimeout(t)
    BY <2>1, <2>6 DEF createOrAddRefTimeout
  <2>7. CASE AddRefOfMountGet(t)
    <3>1. CASE op' = [op EXCEPT ![t].pc = "addPatch", ![t].refs = pod[op[t].name].refs]
      BY <1>a, <2>7, <3>1 DEF AddRefOfMountGet, Named, Op
    <3>2. QED BY <2>1, <2>2, <2>7, <3>1 DEF AddRefOfMountGet
  <2>8. CASE AddRefOfMountPatch(t)
    <3>1. CASE op' = [op EXCEPT ![t].pc = "pubWait", ![t].refs = {}]
      BY <1>a, <2>8, <3>1 DEF AddRefOfMountPatch, Named, Op
    <3>2. QED BY <2>1, <2>8, <3>1 DEF AddRefOfMountPatch
  <2>9. CASE waitUtilMountReady(t)
    BY <2>1, <2>2, <2>9 DEF waitUtilMountReady
  <2>10. CASE BindTarget(t)
    BY <2>1, <2>2, <2>10 DEF BindTarget
  <2>11. CASE SetQuotaAndReply(t)
    BY <2>1, <2>11 DEF SetQuotaAndReply
  <2>12. CASE JfsUnmount(t)
    BY <1>a, <2>12 DEF JfsUnmount, Named
  <2>13. CASE UmountTarget(t)
    <3>1. CASE op[t].name # NoName /\ Goto(t, "unGet")
      BY <1>a, <2>13, <3>1 DEF UmountTarget, Goto, Named, Op
    <3>2. QED BY <2>1, <2>13, <3>1 DEF UmountTarget
  <2>14. CASE UmountTargetGet(t) \/ UmountTargetCheck(t)
    BY <2>1, <2>2, <2>14 DEF UmountTargetGet, UmountTargetCheck
  <2>15. CASE UmountTargetPatch(t)
    BY <2>1, <2>2, <2>15 DEF UmountTargetPatch
  <2>16. CASE GetMountRef(t)
    BY <2>1, <2>2, <2>16 DEF GetMountRef
  <2>17. CASE JUmount(t)
    BY <2>1, <2>2, <2>17 DEF JUmount
  <2>18. CASE JUmountDelete(t)
    BY <2>1, <2>18 DEF JUmountDelete
  <2>19. CASE OpFail(t)
    BY <2>1, <2>19 DEF OpFail
  <2>20. QED
    BY <1>1, <2>3, <2>4, <2>5, <2>6, <2>7, <2>8, <2>9, <2>10, <2>11, <2>12, <2>13,
       <2>14, <2>15, <2>16, <2>17, <2>18, <2>19 DEF OpStep
<1>2. ASSUME NEW p \in PodNames, DrvLock(p) \/ DrvStep(p) \/ DrvFail(p) \/ DrvAbort(p)
      PROVE  Named'
  <2>1. UNCHANGED op
    BY <1>2 DEF DrvLock, DrvStep, checkAnnotations, podErrorHandler, lockRecreate, Run,
         checkAnnotationsGet, checkAnnotationsPatch, checkAnnotationsDelay,
         checkAnnotationsDelGet, checkAnnotationsDelete, dispatch, podReadyHandler,
         resRemoveFinalizer, resDeletePod, resCreatePod, podDeletedHandler, umountSource,
         recreatePod, recoverRecreated, DrvTimeout, DrvFail, DrvAbort
  <2>2. QED BY <1>b, <2>1
<1>3. CASE Environment
  <2>1. CASE Crash
    BY <2>1 DEF Crash, Named, IdleOp
  <2>2. CASE ~Crash
    BY <1>3, <1>b, <2>2 DEF Environment, MountPodReady, MountPodRestart, MountPodFailed,
         MountPodNoResource, DeletedElsewhere, MountPodGone, AppStep, Tick
  <2>3. QED BY <2>1, <2>2
<1>4. QED BY <1>1, <1>2, <1>3 DEF Next

LEMMA TypeNext ==
    ASSUME TypeOK, Named, [Next]_vars
    PROVE  TypeOK' /\ Named'
<1>1. CASE Next
  <2>1. TypeOK'
    BY <1>1, OpStepType, DrvStepType, EnvironmentType DEF Next
  <2>2. Named'
    BY <1>1, NamedNext
  <2>3. QED BY <2>1, <2>2
<1>2. CASE UNCHANGED vars
  BY <1>2 DEF vars, TypeOK, Named
<1>3. QED BY <1>1, <1>2

(* Every state the node service, the API server and the kubelet can reach  *)
(* is of the declared types; in particular every write of a mount pod      *)
(* object, by whichever thread, leaves a pod object, and a call never      *)
(* works on a mount pod before it has found its name.                      *)
THEOREM TypeCorrect == Spec => [](TypeOK /\ Named)
<1>1. Init => TypeOK /\ Named
  BY TypeInit DEF Init, Named, IdleOp
<1>2. TypeOK /\ Named /\ [Next]_vars => (TypeOK /\ Named)'
  BY TypeNext
<1>3. QED BY <1>1, <1>2, PTL DEF Spec

-----------------------------------------------------------------------------
(* The pod locks *)

(* What a step of the call for target t may do to the locks: nothing, take  *)
(* the lock of its pod, or release it.                                      *)
OpUsesLock(t) ==
    /\ \A u \in Targets \ {t} : op'[u] = op[u]
    /\ \A p \in PodNames : drv'[p].pc = drv[p].pc
    /\ \/ /\ lock' = lock
          /\ op'[t].pc \in OpLocked <=> op[t].pc \in OpLocked
          /\ op[t].pc \in OpLocked => op'[t].name = op[t].name
       \/ /\ Acquire(op[t].name, t)
          /\ op[t].pc \notin OpLocked /\ op'[t].pc \in OpLocked
          /\ op'[t].name = op[t].name
       \/ /\ Release(op[t].name)
          /\ op[t].pc \in OpLocked /\ op'[t].pc \notin OpLocked

(* The same for the run of pod p. *)
DrvUsesLock(p) ==
    /\ op' = op
    /\ \A q \in PodNames \ {p} : drv'[q].pc = drv[q].pc
    /\ \/ /\ lock' = lock
          /\ drv'[p].pc \in DrvLocked <=> drv[p].pc \in DrvLocked
       \/ /\ Acquire(p, p)
          /\ drv[p].pc \notin DrvLocked /\ drv'[p].pc \in DrvLocked
       \/ /\ Release(p)
          /\ drv[p].pc \in DrvLocked /\ drv'[p].pc \notin DrvLocked

LEMMA OpKeepsLockOwned ==
    ASSUME TypeOK, LockOwned, NEW t \in Targets, OpUsesLock(t)
    PROVE  LockOwned'
<1> DEFINE s0 == GetPodLock(op[t].name)
<1>1. s0 \in Stripes /\ lock \in [Stripes -> Targets \cup PodNames \cup {NoOne}]
  BY StripeAssumption, OpType DEF GetPodLock, TypeOK
<1>2. ASSUME NEW s \in Stripes, NEW who \in Targets \cup PodNames, who # t
      PROVE  HoldsLock(who, s)' <=> HoldsLock(who, s)
  BY <1>2, NamesAssumption DEF OpUsesLock, HoldsLock, GetPodLock
<1>3. ASSUME NEW s \in Stripes
      PROVE  HoldsLock(t, s) <=> op[t].pc \in OpLocked /\ s = s0
  BY NamesAssumption DEF HoldsLock
<1>4. ASSUME NEW s \in Stripes
      PROVE  HoldsLock(t, s)' <=> op'[t].pc \in OpLocked /\ s = GetPodLock(op'[t].name)
  BY NamesAssumption DEF HoldsLock, GetPodLock
<1>5. NoOne \notin Targets \cup PodNames
  BY NamesAssumption
<1>6. \A s \in Stripes : \A who \in Targets \cup PodNames : HoldsLock(who, s) <=> lock[s] = who
  BY DEF LockOwned
<1>7. ASSUME NEW s \in Stripes, NEW who \in Targets \cup PodNames
      PROVE  HoldsLock(who, s)' <=> lock'[s] = who
  <2>1. CASE lock' = lock
    <3>1. (op'[t].pc \in OpLocked <=> op[t].pc \in OpLocked)
          /\ (op[t].pc \in OpLocked => op'[t].name = op[t].name)
      BY <1>1, <1>3, <1>5, <1>6, <2>1 DEF OpUsesLock, Acquire, Release
    <3>2. QED BY <1>2, <1>3, <1>4, <1>6, <2>1, <3>1
  <2>2. CASE Acquire(op[t].name, t) /\ op[t].pc \notin OpLocked
             /\ op'[t].pc \in OpLocked /\ op'[t].name = op[t].name
    BY <1>1, <1>2, <1>3, <1>4, <1>5, <1>6, <2>2 DEF Acquire
  <2>3. CASE Release(op[t].name) /\ op[t].pc \in OpLocked /\ op'[t].pc \notin OpLocked
    BY <1>1, <1>2, <1>3, <1>4, <1>5, <1>6, <2>3 DEF Release
  <2>4. QED BY <2>1, <2>2, <2>3 DEF OpUsesLock
<1>8. QED BY <1>7 DEF LockOwned

LEMMA DrvKeepsLockOwned ==
    ASSUME TypeOK, LockOwned, NEW p \in PodNames, DrvUsesLock(p)
    PROVE  LockOwned'
<1> DEFINE s0 == GetPodLock(p)
<1>1. s0 \in Stripes /\ lock \in [Stripes -> Targets \cup PodNames \cup {NoOne}]
  BY StripeAssumption DEF GetPodLock, TypeOK
<1>2. ASSUME NEW s \in Stripes, NEW who \in Targets \cup PodNames, who # p
      PROVE  HoldsLock(who, s)' <=> HoldsLock(who, s)
  BY <1>2, NamesAssumption DEF DrvUsesLock, HoldsLock, GetPodLock
<1>3. ASSUME NEW s \in Stripes
      PROVE  HoldsLock(p, s) <=> drv[p].pc \in DrvLocked /\ s = s0
  BY NamesAssumption DEF HoldsLock
<1>4. ASSUME NEW s \in Stripes
      PROVE  HoldsLock(p, s)' <=> drv'[p].pc \in DrvLocked /\ s = s0
  BY NamesAssumption DEF HoldsLock, GetPodLock
<1>5. NoOne \notin Targets \cup PodNames
  BY NamesAssumption
<1>6. \A s \in Stripes : \A who \in Targets \cup PodNames : HoldsLock(who, s) <=> lock[s] = who
  BY DEF LockOwned
<1>7. ASSUME NEW s \in Stripes, NEW who \in Targets \cup PodNames
      PROVE  HoldsLock(who, s)' <=> lock'[s] = who
  <2>1. CASE lock' = lock /\ (drv'[p].pc \in DrvLocked <=> drv[p].pc \in DrvLocked)
    BY <1>2, <1>3, <1>4, <1>6, <2>1
  <2>2. CASE Acquire(p, p) /\ drv[p].pc \notin DrvLocked /\ drv'[p].pc \in DrvLocked
    BY <1>1, <1>2, <1>3, <1>4, <1>5, <1>6, <2>2 DEF Acquire
  <2>3. CASE Release(p) /\ drv[p].pc \in DrvLocked /\ drv'[p].pc \notin DrvLocked
    BY <1>1, <1>2, <1>3, <1>4, <1>5, <1>6, <2>3 DEF Release
  <2>4. QED BY <2>1, <2>2, <2>3 DEF DrvUsesLock
<1>8. QED BY <1>7 DEF LockOwned

(* How Goto, Return, DGoto and DEnd change the threads *)

LEMMA OpMoves ==
    ASSUME TypeOK, NEW t \in Targets
    PROVE  /\ \A pc : Goto(t, pc) =>
                  /\ op'[t].pc = pc /\ op'[t].name = op[t].name /\ op'[t].refs = op[t].refs
                  /\ \A u \in Targets \ {t} : op'[u] = op[u]
           /\ \A k : Return(t, k) =>
                  /\ op'[t] = IdleOp /\ op'[t].pc = "idle"
                  /\ kvol'[t] = k
                  /\ \A u \in Targets \ {t} : op'[u] = op[u] /\ kvol'[u] = kvol[u]
<1>1. op \in [Targets -> Op] /\ op[t] \in Op
  BY DEF TypeOK
<1>2. ASSUME NEW pc, Goto(t, pc)
      PROVE  /\ op'[t].pc = pc /\ op'[t].name = op[t].name /\ op'[t].refs = op[t].refs
             /\ \A u \in Targets \ {t} : op'[u] = op[u]
  BY <1>1, <1>2 DEF Goto, Op
<1>3. ASSUME NEW k, Return(t, k)
      PROVE  /\ op'[t] = IdleOp /\ op'[t].pc = "idle"
             /\ kvol'[t] = k
             /\ \A u \in Targets \ {t} : op'[u] = op[u] /\ kvol'[u] = kvol[u]
  BY <1>1, <1>3 DEF Return, IdleOp, TypeOK
<1>4. QED BY <1>2, <1>3

LEMMA DrvMoves ==
    ASSUME TypeOK, NEW p \in PodNames
    PROVE  /\ \A pc : DGoto(p, pc) =>
                  /\ drv'[p].pc = pc /\ drv'[p].snap = drv[p].snap
                  /\ drv'[p].apps = drv[p].apps
                  /\ \A q \in PodNames \ {p} : drv'[q] = drv[q]
           /\ DEnd(p) =>
                  /\ drv'[p] = IdleDrv /\ drv'[p].pc = "idle"
                  /\ \A q \in PodNames \ {p} : drv'[q] = drv[q]
<1>1. drv \in [PodNames -> Drv] /\ drv[p] \in Drv
  BY DEF TypeOK
<1>2. ASSUME NEW pc, DGoto(p, pc)
      PROVE  /\ drv'[p].pc = pc /\ drv'[p].snap = drv[p].snap
             /\ drv'[p].apps = drv[p].apps
             /\ \A q \in PodNames \ {p} : drv'[q] = drv[q]
  BY <1>1, <1>2 DEF DGoto, Drv
<1>3. ASSUME DEnd(p)
      PROVE  /\ drv'[p] = IdleDrv /\ drv'[p].pc = "idle"
             /\ \A q \in PodNames \ {p} : drv'[q] = drv[q]
  BY <1>1, <1>3 DEF DEnd, IdleDrv
<1>4. QED BY <1>2, <1>3

LEMMA OpStepUsesLock ==
    ASSUME TypeOK, NEW t \in Targets, OpLock(t) \/ OpStep(t) \/ OpFail(t)
    PROVE  OpUsesLock(t)
<1>a. op \in [Targets -> Op] /\ op[t] \in Op
  BY DEF TypeOK
<1> USE OpMoves DEF OpUsesLock, OpLocked
<1>1. CASE LockCreateOrAddRef(t)
  BY <1>1 DEF LockCreateOrAddRef
<1>2. CASE LockJfsUnmount(t)
  BY <1>2 DEF LockJfsUnmount
<1>3. CASE NodePublishVolume(t)
  BY <1>3, <1>a DEF NodePublishVolume
<1>4. CASE createOrAddRef(t)
  BY <1>4 DEF createOrAddRef
<1>5. CASE createOrAddRefTimeout(t)
  BY <1>5 DEF createOrAddRefTimeout
<1>6. CASE AddRefOfMountGet(t)
  <2>1. CASE op' = [op EXCEPT ![t].pc = "addPatch", ![t].refs = pod[op[t].name].refs] /\ lock' = lock
    <3>1. op'[t].pc = "addPatch" /\ op'[t].name = op[t].name
          /\ \A u \in Targets \ {t} : op'[u] = op[u]
      BY <1>a, <2>1 DEF Op
    <3>2. QED BY <1>6, <2>1, <3>1 DEF AddRefOfMountGet
  <2>2. QED BY <1>6, <2>1 DEF AddRefOfMountGet
<1>7. CASE AddRefOfMountPatch(t)
  <2>1. CASE op' = [op EXCEPT ![t].pc = "pubWait", ![t].refs = {}]
    <3>1. op'[t].pc = "pubWait" /\ \A u \in Targets \ {t} : op'[u] = op[u]
      BY <1>a, <2>1 DEF Op
    <3>2. QED BY <1>7, <3>1 DEF AddRefOfMountPatch
  <2>2. QED BY <1>7, <2>1 DEF AddRefOfMountPatch
<1>8. CASE waitUtilMountReady(t)
  BY <1>8 DEF waitUtilMountReady
<1>9. CASE BindTarget(t)
  BY <1>9 DEF BindTarget
<1>10. CASE SetQuotaAndReply(t)
  BY <1>10 DEF SetQuotaAndReply
<1>11. CASE JfsUnmount(t)
  BY <1>11, <1>a DEF JfsUnmount
<1>12. CASE UmountTarget(t)
  BY <1>12 DEF UmountTarget
<1>13. CASE UmountTargetGet(t) \/ UmountTargetCheck(t)
  BY <1>13 DEF UmountTargetGet, UmountTargetCheck
<1>14. CASE UmountTargetPatch(t)
  BY <1>14 DEF UmountTargetPatch
<1>15. CASE GetMountRef(t)
  BY <1>15 DEF GetMountRef
<1>16. CASE JUmount(t)
  BY <1>16 DEF JUmount
<1>17. CASE JUmountDelete(t)
  BY <1>17 DEF JUmountDelete
<1>18. CASE OpFail(t)
  BY <1>18 DEF OpFail
<1>19. QED
  BY <1>1, <1>2, <1>3, <1>4, <1>5, <1>6, <1>7, <1>8, <1>9, <1>10, <1>11, <1>12,
     <1>13, <1>14, <1>15, <1>16, <1>17, <1>18 DEF OpLock, OpStep

LEMMA DrvStepUsesLock ==
    ASSUME TypeOK, NEW p \in PodNames,
           DrvLock(p) \/ DrvStep(p) \/ DrvFail(p) \/ DrvAbort(p)
    PROVE  DrvUsesLock(p)
<1>a. drv \in [PodNames -> Drv]
  BY DEF TypeOK
<1> USE DrvMoves DEF DrvUsesLock, DrvLocked
<1>1. CASE checkAnnotations(p)
  BY <1>1 DEF checkAnnotations
<1>2. CASE podErrorHandler(p)
  BY <1>2 DEF podErrorHandler
<1>3. CASE lockRecreate(p)
  BY <1>3 DEF lockRecreate
<1>4. CASE Run(p)
  BY <1>4, <1>a DEF Run
<1>5. CASE checkAnnotationsGet(p)
  BY <1>5 DEF checkAnnotationsGet
<1>6. CASE checkAnnotationsPatch(p)
  BY <1>6 DEF checkAnnotationsPatch
<1>7. CASE checkAnnotationsDelay(p)
  BY <1>7 DEF checkAnnotationsDelay
<1>8. CASE checkAnnotationsDelGet(p)
  BY <1>8 DEF checkAnnotationsDelGet
<1>9. CASE checkAnnotationsDelete(p)
  BY <1>9 DEF checkAnnotationsDelete
<1>10. CASE dispatch(p)
  <2>1. drv'[p].pc \in {"idle", "recover", "deleted", "resLock"}
        /\ \A q \in PodNames \ {p} : drv'[q] = drv[q]
    BY <1>10, <1>a DEF dispatch, handlers, IdleDrv, Drv
  <2>2. QED BY <1>10, <2>1 DEF dispatch
<1>11. CASE podReadyHandler(p)
  BY <1>11 DEF podReadyHandler
<1>12. CASE resRemoveFinalizer(p)
  BY <1>12 DEF resRemoveFinalizer
<1>13. CASE resDeletePod(p)
  BY <1>13 DEF resDeletePod
<1>14. CASE resCreatePod(p)
  BY <1>14 DEF resCreatePod
<1>15. CASE podDeletedHandler(p)
  BY <1>15 DEF podDeletedHandler
<1>16. CASE umountSource(p)
  BY <1>16 DEF umountSource
<1>17. CASE recreatePod(p)
  BY <1>17 DEF recreatePod
<1>18. CASE recoverRecreated(p)
  BY <1>18 DEF recoverRecreated
<1>19. CASE DrvTimeout(p)
  BY <1>19 DEF DrvTimeout
<1>20. CASE DrvFail(p)
  BY <1>20 DEF DrvFail
<1>21. CASE DrvAbort(p)
  BY <1>21 DEF DrvAbort
<1>22. QED
  BY <1>1, <1>2, <1>3, <1>4, <1>5, <1>6, <1>7, <1>8, <1>9, <1>10, <1>11, <1>12, <1>13,
     <1>14, <1>15, <1>16, <1>17, <1>18, <1>19, <1>20, <1>21 DEF DrvLock, DrvStep

(* Everybody else leaves the threads and the locks alone, except Crash,     *)
(* after which there are none.                                              *)
LEMMA EnvironmentThreads ==
    ASSUME TypeOK, Environment
    PROVE  \/ Crash
           \/ /\ UNCHANGED <<lock, op>>
              /\ \A p \in PodNames : drv'[p].pc = drv[p].pc
<1>1. CASE Tick
  <2>1. \A p \in PodNames : drv'[p].pc = drv[p].pc
    BY <1>1 DEF Tick, TypeOK, Drv
  <2>2. QED BY <1>1, <2>1 DEF Tick
<1>2. CASE ~Tick
  BY <1>2 DEF Environment, MountPodReady, MountPodRestart, MountPodFailed,
       MountPodNoResource, DeletedElsewhere, MountPodGone, AppStep
<1>3. QED BY <1>1, <1>2

LEMMA LockNext ==
    ASSUME TypeOK, LockOwned, [Next]_vars
    PROVE  LockOwned'
<1>1. ASSUME NEW t \in Targets, OpLock(t) \/ OpStep(t) \/ OpFail(t)
      PROVE  LockOwned'
  BY <1>1, OpStepUsesLock, OpKeepsLockOwned
<1>2. ASSUME NEW p \in PodNames, DrvLock(p) \/ DrvStep(p) \/ DrvFail(p) \/ DrvAbort(p)
      PROVE  LockOwned'
  BY <1>2, DrvStepUsesLock, DrvKeepsLockOwned
<1>3. CASE Environment
  <2>1. CASE Crash
    BY <2>1, NamesAssumption DEF Crash, LockOwned, HoldsLock, IdleOp, IdleDrv, OpLocked, DrvLocked
  <2>2. CASE UNCHANGED <<lock, op>> /\ \A p \in PodNames : drv'[p].pc = drv[p].pc
    BY <2>2 DEF LockOwned, HoldsLock, GetPodLock
  <2>3. QED BY <1>3, <2>1, <2>2, EnvironmentThreads
<1>4. CASE UNCHANGED vars
  BY <1>4 DEF vars, LockOwned, HoldsLock, GetPodLock
<1>5. QED BY <1>1, <1>2, <1>3, <1>4 DEF Next

(* Mutual exclusion by the striped pod locks, and no lock left behind: in   *)
(* every reachable state a mutex of the array is held by exactly the        *)
(* thread that is between its Lock and its Unlock, however many pods and    *)
(* targets share it and wherever a call, a run or the process fails.        *)
THEOREM LockSafe == Spec => []LockOwned
<1>1. Init => LockOwned
  BY NamesAssumption DEF Init, LockOwned, HoldsLock, IdleOp, IdleDrv, OpLocked, DrvLocked
<1>2. TypeOK /\ LockOwned /\ [Next]_vars => LockOwned'
  BY LockNext
<1>3. QED BY <1>1, <1>2, TypeCorrect, PTL DEF Spec

-----------------------------------------------------------------------------
(* Who writes a mount pod *)

(* What is visible of a pod object to the reference counting. *)
SameRefs(p) == /\ pod'[p].exists = pod[p].exists
               /\ pod'[p].refs = pod[p].refs
               /\ pod'[p].deleting = pod[p].deleting

OpWritesPod(t, p) ==
    /\ op[t].name = p
    /\ \/ /\ op[t].pc = "pubGet" /\ op'[t].pc = "pubWait"
          /\ ~pod[p].exists /\ pod'[p] = NewMountPod(t)
       \/ /\ op[t].pc = "addPatch" /\ op'[t].pc = "pubWait"
          /\ pod[p].exists /\ pod'[p].exists /\ pod'[p].deleting = pod[p].deleting
          /\ pod'[p].refs = op[t].refs \cup {t}
       \/ /\ op[t].pc = "unPatch" /\ op'[t].pc = "unRef"
          /\ pod'[p].exists = pod[p].exists /\ pod'[p].deleting = pod[p].deleting
          /\ pod'[p].refs = pod[p].refs \ {t}
       \/ /\ op[t].pc = "unDelete" /\ op'[t].pc = "idle"
          /\ pod'[p].exists = pod[p].exists /\ pod'[p].refs = pod[p].refs /\ pod'[p].deleting

DrvWritesPod(p) ==
    \/ /\ drv[p].pc = "chkPatch"
       /\ pod'[p].exists = pod[p].exists /\ pod'[p].deleting = pod[p].deleting
       /\ pod'[p].refs = pod[p].refs \ delAnnotations(drv[p])
    \/ /\ drv[p].pc \in {"chkDelete", "resDelete"}
       /\ pod'[p].exists = pod[p].exists /\ pod'[p].refs = pod[p].refs /\ pod'[p].deleting
    \/ /\ drv[p].pc \in {"resWait", "recWait"} /\ drv'[p].pc \in {"idle", "recReady"}
       /\ ~pod[p].exists /\ pod'[p].exists
       /\ pod'[p].refs = drv[p].snap.refs /\ ~pod'[p].deleting
    \/ /\ drv[p].pc = "recWait" /\ drv'[p].pc = "idle"
       /\ pod[p].exists /\ pod'[p].exists /\ ~pod[p].deleting /\ ~pod'[p].deleting
       /\ pod'[p].refs = pod[p].refs \cup drv[p].snap.refs

OthersWritePod(p) ==
    \/ pod[p].deleting /\ pod'[p] = NoPod
    \/ /\ pod'[p].exists = pod[p].exists /\ pod'[p].refs = pod[p].refs
       /\ pod'[p].deleting /\ left' # left /\ left.delete > 0

LEMMA OpStepWritesPod ==
    ASSUME TypeOK, Named, NEW t \in Targets, OpLock(t) \/ OpStep(t) \/ OpFail(t),
           NEW p \in PodNames
    PROVE  SameRefs(p) \/ OpWritesPod(t, p)
<1> DEFINE n == op[t].name
<1>a. /\ pod \in [PodNames -> Pod] /\ pod[p] \in Pod
      /\ op \in [Targets -> Op] /\ op[t] \in Op
  BY DEF TypeOK
<1>b. ASSUME UNCHANGED pod
      PROVE  SameRefs(p)
  BY <1>b DEF SameRefs
<1>c. ASSUME NEW q, q # p, NEW v, pod' = [pod EXCEPT ![q] = v]
      PROVE  SameRefs(p)
  BY <1>a, <1>c DEF SameRefs
<1>1. CASE createOrAddRef(t)
  <2>1. CASE pod' = [pod EXCEPT ![n] = NewMountPod(t)] /\ ~pod[n].exists /\ Goto(t, "pubWait")
    <3>1. CASE n = p
      BY <1>1, <1>a, <2>1, <3>1, OpMoves DEF createOrAddRef, OpWritesPod
    <3>2. CASE n # p
      BY <1>c, <2>1, <3>2
    <3>3. QED BY <3>1, <3>2
  <2>2. QED BY <1>1, <1>b, <2>1 DEF createOrAddRef
<1>2. CASE AddRefOfMountPatch(t)
  <2>1. CASE /\ pod[n].exists
             /\ pod' = [pod EXCEPT ![n].refs = op[t].refs \cup {t}, ![n].deleteAt = NoTime]
             /\ op' = [op EXCEPT ![t].pc = "pubWait", ![t].refs = {}]
    <3>1. op'[t].pc = "pubWait"
      BY <1>a, <2>1 DEF Op
    <3>2. CASE n = p
      <4>1. pod'[p] = [pod[p] EXCEPT !.refs = op[t].refs \cup {t}, !.deleteAt = NoTime]
        BY <1>a, <2>1, <3>2 DEF Pod
      <4>2. /\ pod'[p].exists = pod[p].exists /\ pod'[p].deleting = pod[p].deleting
            /\ pod'[p].refs = op[t].refs \cup {t}
        BY <1>a, <4>1 DEF Pod
      <4>3. QED BY <1>2, <2>1, <3>1, <3>2, <4>2 DEF AddRefOfMountPatch, OpWritesPod
    <3>3. CASE n # p
      BY <1>a, <2>1, <3>3 DEF SameRefs
    <3>4. QED BY <3>2, <3>3
  <2>2. QED BY <1>2, <1>b, <2>1 DEF AddRefOfMountPatch
<1>3. CASE UmountTargetPatch(t)
  <2>1. CASE pod' = [pod EXCEPT ![n].refs = @ \ {t}] /\ Goto(t, "unRef")
    <3>1. CASE n = p
      <4>1. pod'[p] = [pod[p] EXCEPT !.refs = pod[p].refs \ {t}]
        BY <1>a, <2>1, <3>1 DEF Pod
      <4>2. /\ pod'[p].exists = pod[p].exists /\ pod'[p].deleting = pod[p].deleting
            /\ pod'[p].refs = pod[p].refs \ {t}
        BY <1>a, <4>1 DEF Pod
      <4>3. QED BY <1>3, <2>1, <3>1, <4>2, OpMoves DEF UmountTargetPatch, OpWritesPod
    <3>2. CASE n # p
      BY <1>a, <2>1, <3>2 DEF SameRefs
    <3>3. QED BY <3>1, <3>2
  <2>2. QED BY <1>3, <1>b, <2>1 DEF UmountTargetPatch
<1>4. CASE JUmount(t)
  <2>1. CASE pod' = [pod EXCEPT ![n].deleteAt = DeleteDelay]
    BY <1>a, <2>1 DEF SameRefs, Pod
  <2>2. QED BY <1>4, <1>b, <2>1 DEF JUmount, WriteDeleteAt
<1>5. CASE JUmountDelete(t)
  <2>1. CASE pod' = [pod EXCEPT ![n].deleting = TRUE]
    <3>1. op'[t].pc = "idle"
      BY <1>5, OpMoves DEF JUmountDelete
    <3>2. CASE n = p
      <4>1. pod'[p] = [pod[p] EXCEPT !.deleting = TRUE]
        BY <1>a, <2>1, <3>2 DEF Pod
      <4>2. pod'[p].exists = pod[p].exists /\ pod'[p].refs = pod[p].refs /\ pod'[p].deleting
        BY <1>a, <4>1 DEF Pod
      <4>3. QED BY <1>5, <3>1, <3>2, <4>2 DEF JUmountDelete, OpWritesPod
    <3>3. CASE n # p
      BY <1>a, <2>1, <3>3 DEF SameRefs
    <3>4. QED BY <3>2, <3>3
  <2>2. QED BY <1>5, <1>b, <2>1 DEF JUmountDelete, api
<1>6. QED
  BY <1>1, <1>2, <1>3, <1>4, <1>5, <1>b DEF OpLock, OpStep, api,
     LockCreateOrAddRef, LockJfsUnmount, NodePublishVolume, createOrAddRefTimeout,
     AddRefOfMountGet, waitUtilMountReady, BindTarget, SetQuotaAndReply, JfsUnmount,
     UmountTarget, UmountTargetGet, UmountTargetCheck, GetMountRef, OpFail

LEMMA DrvStepWritesPod ==
    ASSUME TypeOK, NEW r \in PodNames,
           DrvLock(r) \/ DrvStep(r) \/ DrvFail(r) \/ DrvAbort(r), NEW p \in PodNames
    PROVE  SameRefs(p) \/ (r = p /\ DrvWritesPod(p))
<1>a. /\ pod \in [PodNames -> Pod] /\ pod[p] \in Pod /\ pod[r] \in Pod
      /\ drv[r] \in Drv /\ drv[r].snap \in Pod
  BY DrvType DEF TypeOK
<1>b. ASSUME UNCHANGED pod
      PROVE  SameRefs(p)
  BY <1>b DEF SameRefs
<1>c. ASSUME NEW v, v.exists = pod[r].exists, v.refs = pod[r].refs, v.deleting = pod[r].deleting,
             pod' = [pod EXCEPT ![r] = v]
      PROVE  SameRefs(p)
  BY <1>a, <1>c DEF SameRefs
<1>d. ASSUME NEW v, r # p, pod' = [pod EXCEPT ![r] = v]
      PROVE  SameRefs(p)
  BY <1>a, <1>d DEF SameRefs
<1>1. CASE checkAnnotationsPatch(r)
  <2> DEFINE v == [pod[r] EXCEPT !.refs = @ \ delAnnotations(drv[r]),
                                 !.deleteAt = IF delDeleteAt(drv[r]) THEN NoTime ELSE @]
  <2>1. CASE pod' = [pod EXCEPT ![r].refs = @ \ delAnnotations(drv[r]),
                                ![r].deleteAt = IF delDeleteAt(drv[r]) THEN NoTime ELSE @]
    <3>1. pod' = [pod EXCEPT ![r] = v]
      BY <1>a, <2>1 DEF Pod
    <3>2. /\ v.exists = pod[r].exists /\ v.deleting = pod[r].deleting
          /\ v.refs = pod[r].refs \ delAnnotations(drv[r])
      BY <1>a DEF Pod
    <3> HIDE DEF v
    <3>3. CASE r = p
      BY <1>1, <1>a, <3>1, <3>2, <3>3 DEF checkAnnotationsPatch, DrvWritesPod
    <3>4. QED BY <1>d, <3>1, <3>3
  <2>2. QED BY <1>1, <1>b, <2>1 DEF checkAnnotationsPatch
<1>2. CASE checkAnnotationsDelay(r)
  <2>1. CASE pod' = [pod EXCEPT ![r].deleteAt = DeleteDelay]
    BY <1>a, <2>1 DEF SameRefs, Pod
  <2>2. QED BY <1>2, <1>b, <2>1 DEF checkAnnotationsDelay, WriteDeleteAt
<1>3. CASE checkAnnotationsDelete(r) \/ resDeletePod(r)
  <2> DEFINE v == [pod[r] EXCEPT !.deleting = TRUE]
  <2>1. CASE pod' = [pod EXCEPT ![r].deleting = TRUE]
    <3>1. pod' = [pod EXCEPT ![r] = v]
      BY <1>a, <2>1 DEF Pod
    <3>2. v.exists = pod[r].exists /\ v.deleting /\ v.refs = pod[r].refs
      BY <1>a DEF Pod
    <3> HIDE DEF v
    <3>3. CASE r = p
      BY <1>3, <1>a, <3>1, <3>2, <3>3 DEF checkAnnotationsDelete, resDeletePod, DrvWritesPod
    <3>4. QED BY <1>d, <3>1, <3>3
  <2>2. QED BY <1>3, <1>b, <2>1 DEF checkAnnotationsDelete, resDeletePod, api
<1>4. CASE resRemoveFinalizer(r) \/ podDeletedHandler(r)
  <2>1. CASE pod' = [pod EXCEPT ![r].finalizer = FALSE]
    BY <1>a, <2>1 DEF SameRefs, Pod
  <2>2. QED BY <1>4, <1>b, <2>1 DEF resRemoveFinalizer, podDeletedHandler
<1>5. ASSUME NEW res \in BOOLEAN, pod' = [pod EXCEPT ![r] = CopyOfPod(drv[r].snap, res)]
      PROVE  SameRefs(p) \/ (r = p /\ pod'[p].exists /\ ~pod'[p].deleting
                                   /\ pod'[p].refs = drv[p].snap.refs)
  <2>1. /\ CopyOfPod(drv[r].snap, res).exists /\ ~CopyOfPod(drv[r].snap, res).deleting
        /\ CopyOfPod(drv[r].snap, res).refs = drv[r].snap.refs
    BY <1>a DEF CopyOfPod, Pod
  <2>2. CASE r = p
    BY <1>5, <1>a, <2>1, <2>2
  <2>3. QED BY <1>5, <1>d, <2>2
<1>6. CASE resCreatePod(r)
  BY <1>6, <1>5, DrvMoves DEF resCreatePod, DrvWritesPod
<1>7. CASE recreatePod(r)
  <2>1. CASE /\ ~pod[r].exists /\ DGoto(r, "recReady")
             /\ \E res \in {drv[r].snap.hasRes, TRUE} :
                   pod' = [pod EXCEPT ![r] = CopyOfPod(drv[r].snap, res)]
    <3>1. PICK res \in BOOLEAN : pod' = [pod EXCEPT ![r] = CopyOfPod(drv[r].snap, res)]
      BY <1>a, <2>1 DEF Pod
    <3>2. QED BY ZenonT(60), <1>7, <1>5, <2>1, <3>1, DrvMoves DEF recreatePod, DrvWritesPod
  <2>2. CASE /\ pod[r].exists /\ ~pod[r].deleting /\ DEnd(r)
             /\ pod' = [pod EXCEPT ![r].refs = @ \cup drv[r].snap.refs]
    <3> DEFINE v == [pod[r] EXCEPT !.refs = @ \cup drv[r].snap.refs]
    <3>1. pod' = [pod EXCEPT ![r] = v]
      BY <1>a, <2>2 DEF Pod
    <3>2. /\ v.exists = pod[r].exists /\ v.deleting = pod[r].deleting
          /\ v.refs = pod[r].refs \cup drv[r].snap.refs
      BY <1>a DEF Pod
    <3> HIDE DEF v
    <3>3. CASE r = p
      BY <1>7, <1>a, <2>2, <3>1, <3>2, <3>3, DrvMoves DEF recreatePod, DrvWritesPod
    <3>4. QED BY <1>d, <3>1, <3>3
  <2>3. QED BY <1>7, <2>1, <2>2 DEF recreatePod
<1>8. QED
  BY <1>1, <1>2, <1>3, <1>4, <1>6, <1>7, <1>b DEF DrvLock, DrvStep, api,
     checkAnnotations, podErrorHandler, lockRecreate, Run, checkAnnotationsGet,
     checkAnnotationsDelGet, dispatch, podReadyHandler, umountSource, recoverRecreated,
     DrvTimeout, DrvFail, DrvAbort

LEMMA EnvironmentWritesPod ==
    ASSUME TypeOK, Environment, NEW p \in PodNames
    PROVE  SameRefs(p) \/ OthersWritePod(p)
<1>a. pod \in [PodNames -> Pod] /\ pod[p] \in Pod /\ left \in Left
  BY DEF TypeOK
<1>b. ASSUME UNCHANGED pod
      PROVE  SameRefs(p)
  BY <1>b DEF SameRefs
<1>c. ASSUME NEW r \in PodNames, NEW ph, pod' = [pod EXCEPT ![r].phase = ph]
      PROVE  SameRefs(p)
  BY <1>a, <1>c DEF SameRefs, Pod
<1>1. ASSUME NEW r \in PodNames,
             MountPodReady(r) \/ MountPodRestart(r) \/ MountPodFailed(r) \/ MountPodNoResource(r)
      PROVE  SameRefs(p)
  BY <1>1, <1>c DEF MountPodReady, MountPodRestart, MountPodFailed, MountPodNoResource
<1>2. ASSUME NEW r \in PodNames, DeletedElsewhere(r)
      PROVE  SameRefs(p) \/ OthersWritePod(p)
  <2>1. left' # left /\ left.delete > 0
    BY <1>2, <1>a, BoundAssumption DEF DeletedElsewhere, Left
  <2>2. SameRefs(p) \/ (pod'[p].exists = pod[p].exists /\ pod'[p].refs = pod[p].refs
                           /\ pod'[p].deleting)
    BY <1>2, <1>a DEF DeletedElsewhere, SameRefs, Pod
  <2>3. QED BY <2>1, <2>2 DEF OthersWritePod
<1>3. ASSUME NEW r \in PodNames, MountPodGone(r)
      PROVE  SameRefs(p) \/ OthersWritePod(p)
  BY <1>3, <1>a DEF MountPodGone, SameRefs, OthersWritePod
<1>4. CASE Tick
  <2>1. pod'[p] = Later(pod[p])
    BY <1>4 DEF Tick
  <2>2. QED BY <1>a, <2>1 DEF Later, SameRefs, Pod
<1>5. QED
  BY <1>1, <1>2, <1>3, <1>4, <1>b DEF Environment, AppStep, Crash, api

(* Of all the threads only one at a time works on a pod under its lock. *)
LEMMA OneAtATime ==
    ASSUME TypeOK, LockOwned, NEW p \in PodNames
    PROVE  /\ \A t, u \in Targets :
                 /\ op[t].pc \in OpLocked /\ op[t].name = p
                 /\ op[u].pc \in OpLocked /\ op[u].name = p
                 => t = u
           /\ \A t \in Targets :
                 ~(op[t].pc \in OpLocked /\ op[t].name = p /\ drv[p].pc \in DrvLocked)
<1>1. GetPodLock(p) \in Stripes
  BY StripeAssumption DEF GetPodLock
<1>2. QED BY <1>1, NamesAssumption DEF LockOwned, HoldsLock

-----------------------------------------------------------------------------
(* Mount pods are deleted only while they have no reference *)

(* When GetMountRef and the recheck of JUmount, or the recheck of           *)
(* checkAnnotations, have found a pod without references, it still has none *)
(* when the delete request is sent.                                         *)
DelInv ==
    /\ \A t \in Targets : op[t].pc = "unDelete" => pod[op[t].name].refs = {}
    /\ \A p \in PodNames : drv[p].pc = "chkDelete" => pod[p].refs = {}

LEMMA OpReachesDelete ==
    ASSUME TypeOK, NEW t \in Targets, OpLock(t) \/ OpStep(t) \/ OpFail(t),
           op'[t].pc = "unDelete"
    PROVE  UNCHANGED pod /\ op'[t].name = op[t].name /\ pod[op[t].name].refs = {}
<1>a. op \in [Targets -> Op] /\ op[t] \in Op
  BY DEF TypeOK
<1>1. CASE JUmount(t)
  BY <1>1, OpMoves DEF JUmount
<1>2. ASSUME NEW pc, Goto(t, pc)
      PROVE  pc = "unDelete"
  BY <1>2, OpMoves
<1>3. ASSUME NEW k, Return(t, k)
      PROVE  FALSE
  BY <1>3, OpMoves
<1>4. CASE NodePublishVolume(t) \/ JfsUnmount(t) \/ AddRefOfMountGet(t) \/ AddRefOfMountPatch(t)
  BY <1>4, <1>a, <1>2, <1>3 DEF NodePublishVolume, JfsUnmount, AddRefOfMountGet,
       AddRefOfMountPatch, Op
<1>5. QED
  BY <1>1, <1>2, <1>3, <1>4 DEF OpLock, OpStep, LockCreateOrAddRef, LockJfsUnmount,
     createOrAddRef, createOrAddRefTimeout, waitUtilMountReady, BindTarget,
     SetQuotaAndReply, UmountTarget, UmountTargetGet, UmountTargetCheck, UmountTargetPatch, GetMountRef,
     JUmountDelete, OpFail

LEMMA DrvReachesDelete ==
    ASSUME TypeOK, NEW p \in PodNames,
           DrvLock(p) \/ DrvStep(p) \/ DrvFail(p) \/ DrvAbort(p), drv'[p].pc = "chkDelete"
    PROVE  UNCHANGED pod /\ pod[p].refs = {}
<1>a. drv \in [PodNames -> Drv] /\ drv[p] \in Drv
  BY DEF TypeOK
<1>1. CASE checkAnnotationsDelGet(p)
  BY <1>1, DrvMoves DEF checkAnnotationsDelGet, api
<1>2. ASSUME NEW pc, DGoto(p, pc)
      PROVE  pc = "chkDelete"
  BY <1>2, DrvMoves
<1>3. ASSUME DEnd(p)
      PROVE  FALSE
  BY <1>3, DrvMoves
<1>4. CASE Run(p)
  BY <1>4, <1>a DEF Run
<1>5. CASE dispatch(p)
  BY <1>5, <1>a DEF dispatch, handlers, IdleDrv, Drv
<1>6. QED
  BY <1>1, <1>2, <1>3, <1>4, <1>5 DEF DrvLock, DrvStep, checkAnnotations, podErrorHandler,
     lockRecreate, checkAnnotationsGet, checkAnnotationsPatch, checkAnnotationsDelay,
     checkAnnotationsDelete, podReadyHandler, resRemoveFinalizer, resDeletePod,
     resCreatePod, podDeletedHandler, umountSource, recreatePod, recoverRecreated,
     DrvTimeout, DrvFail, DrvAbort

LEMMA DelNext ==
    ASSUME TypeOK, Named, LockOwned, DelInv, [Next]_vars
    PROVE  DelInv'
<1>1. ASSUME NEW t \in Targets, OpLock(t) \/ OpStep(t) \/ OpFail(t)
      PROVE  DelInv'
  <2>1. /\ \A u \in Targets \ {t} : op'[u] = op[u]
        /\ \A p \in PodNames : drv'[p].pc = drv[p].pc
    BY <1>1, OpStepUsesLock DEF OpUsesLock
  <2>2. ASSUME NEW u \in Targets, op'[u].pc = "unDelete"
        PROVE  pod'[op'[u].name].refs = {}
    <3>1. CASE u = t
      BY <1>1, <2>2, <3>1, OpReachesDelete
    <3>2. CASE u # t
      <4>1. op[u].pc = "unDelete" /\ op'[u].name = op[u].name /\ op[u].name \in PodNames
        BY <2>1, <2>2, <3>2 DEF Named
      <4>2. pod[op[u].name].refs = {}
        BY <4>1 DEF DelInv
      <4>3. ~OpWritesPod(t, op[u].name)
        BY <3>2, <4>1, OneAtATime DEF OpWritesPod, OpLocked
      <4>4. SameRefs(op[u].name)
        BY <1>1, <4>1, <4>3, OpStepWritesPod
      <4>5. QED BY <4>1, <4>2, <4>4 DEF SameRefs
    <3>3. QED BY <3>1, <3>2
  <2>3. ASSUME NEW p \in PodNames, drv'[p].pc = "chkDelete"
        PROVE  pod'[p].refs = {}
    <3>1. drv[p].pc = "chkDelete" /\ pod[p].refs = {}
      BY <2>1, <2>3 DEF DelInv
    <3>2. ~OpWritesPod(t, p)
      BY <3>1, OneAtATime DEF OpWritesPod, OpLocked, DrvLocked
    <3>3. SameRefs(p)
      BY <1>1, <3>2, OpStepWritesPod
    <3>4. QED BY <3>1, <3>3 DEF SameRefs
  <2>4. QED BY <2>2, <2>3 DEF DelInv
<1>2. ASSUME NEW r \in PodNames, DrvLock(r) \/ DrvStep(r) \/ DrvFail(r) \/ DrvAbort(r)
      PROVE  DelInv'
  <2>1. op' = op /\ \A q \in PodNames \ {r} : drv'[q].pc = drv[q].pc
    BY <1>2, DrvStepUsesLock DEF DrvUsesLock
  <2>2. ASSUME NEW u \in Targets, op'[u].pc = "unDelete"
        PROVE  pod'[op'[u].name].refs = {}
    <3>1. op[u].pc = "unDelete" /\ op'[u].name = op[u].name /\ op[u].name \in PodNames
      BY <2>1, <2>2 DEF Named
    <3>2. pod[op[u].name].refs = {}
      BY <3>1 DEF DelInv
    <3>3. ~DrvWritesPod(op[u].name)
      BY <3>1, OneAtATime DEF DrvWritesPod, OpLocked, DrvLocked
    <3>4. SameRefs(op[u].name)
      BY <1>2, <3>1, <3>3, DrvStepWritesPod
    <3>5. QED BY <3>1, <3>2, <3>4 DEF SameRefs
  <2>3. ASSUME NEW p \in PodNames, drv'[p].pc = "chkDelete"
        PROVE  pod'[p].refs = {}
    <3>1. CASE p = r
      BY <1>2, <2>3, <3>1, DrvReachesDelete
    <3>2. CASE p # r
      <4>1. drv[p].pc = "chkDelete" /\ pod[p].refs = {}
        BY <2>1, <2>3, <3>2 DEF DelInv
      <4>2. SameRefs(p)
        BY <1>2, <3>2, DrvStepWritesPod
      <4>3. QED BY <4>1, <4>2 DEF SameRefs
    <3>3. QED BY <3>1, <3>2
  <2>4. QED BY <2>2, <2>3 DEF DelInv
<1>3. CASE Environment
  <2>1. CASE Crash
    BY <2>1 DEF Crash, DelInv, IdleOp, IdleDrv
  <2>2. CASE UNCHANGED <<lock, op>> /\ \A p \in PodNames : drv'[p].pc = drv[p].pc
    <3>1. ASSUME NEW p \in PodNames, pod[p].refs = {}
          PROVE  pod'[p].refs = {}
      <4>1. pod'[p].refs = pod[p].refs \/ pod'[p] = NoPod
        BY <1>3, EnvironmentWritesPod DEF SameRefs, OthersWritePod
      <4>2. QED BY <3>1, <4>1 DEF NoPod
    <3>2. QED BY <2>2, <3>1 DEF DelInv, Named
  <2>3. QED BY <1>3, <2>1, <2>2, EnvironmentThreads
<1>4. CASE UNCHANGED vars
  BY <1>4 DEF vars, DelInv
<1>5. QED BY <1>1, <1>2, <1>3, <1>4 DEF Next

LEMMA DeleteStep ==
    ASSUME TypeOK, Named, LockOwned, DelInv, Next, NEW p \in PodNames, DeletedByCSI(p)
    PROVE  pod[p].refs = {}
<1>a. pod[p] \in Pod /\ pod[p].exists /\ ~pod[p].deleting /\ pod'[p].deleting
      /\ left' = left /\ drv[p].pc # "resDelete"
  BY DEF DeletedByCSI, TypeOK
<1>b. ~SameRefs(p)
  BY <1>a DEF SameRefs
<1>1. ASSUME NEW t \in Targets, OpLock(t) \/ OpStep(t) \/ OpFail(t)
      PROVE  pod[p].refs = {}
  <2>1. OpWritesPod(t, p)
    BY <1>1, <1>b, OpStepWritesPod
  <2>2. op[t].pc = "unDelete" /\ op[t].name = p
    BY <1>a, <2>1 DEF OpWritesPod
  <2>3. QED BY <2>2 DEF DelInv
<1>2. ASSUME NEW r \in PodNames, DrvLock(r) \/ DrvStep(r) \/ DrvFail(r) \/ DrvAbort(r)
      PROVE  pod[p].refs = {}
  <2>1. DrvWritesPod(p)
    BY <1>2, <1>b, DrvStepWritesPod
  <2>2. drv[p].pc = "chkDelete"
    BY <1>a, <2>1 DEF DrvWritesPod
  <2>3. QED BY <2>2 DEF DelInv
<1>3. CASE Environment
  <2>1. OthersWritePod(p)
    BY <1>3, <1>b, EnvironmentWritesPod
  <2>2. QED BY <1>a, <2>1 DEF OthersWritePod, NoPod
<1>4. QED BY <1>1, <1>2, <1>3 DEF Next

(* NodeUnpublish (JUmount) and the driver (checkAnnotations) delete a mount *)
(* pod only while no target refers to it, for any number of targets, pods   *)
(* and locks and with any failures: the recheck of the references under the *)
(* pod lock is enough, whatever the earlier, unlocked reads saw.            *)
THEOREM DeletesUnused == Spec => DeletesOnlyUnused
<1>1. Init => DelInv
  BY DEF Init, DelInv, IdleOp, IdleDrv
<1>2. TypeOK /\ Named /\ LockOwned /\ DelInv /\ [Next]_vars => DelInv'
  BY DelNext
<1>3. TypeOK /\ Named /\ LockOwned /\ DelInv /\ [Next]_vars =>
        [\A p \in PodNames : DeletedByCSI(p) => pod[p].refs = {}]_vars
  BY DeleteStep
<1>4. QED BY <1>1, <1>2, <1>3, TypeCorrect, LockSafe, PTL DEF Spec, DeletesOnlyUnused

-----------------------------------------------------------------------------
(* The applications behind references, calls and runs *)

(* A run that is about to compare the references of its copy with the list *)
(* of application pods.                                                     *)
ChkPCs == {"chkLock", "chkGet", "chkPatch"}

(* Whatever has been done for a target was done after its application came. *)
KnownInv ==
    /\ \A p \in PodNames : \A u \in pod[p].refs : app[u] # "new"
    /\ \A p \in PodNames : \A u \in drv[p].snap.refs : app[u] # "new"
    /\ \A u \in Targets : op[u].pc # "idle" \/ kvol[u] # "unmounted" => app[u] # "new"

(* The kubelet unpublishes only what ends.                                  *)
EndsInv ==
    \A u \in Targets : op[u].pc \in UnpublishPCs => app[u] \in {"terminating", "gone"}

(* The references that checkAnnotations will remove are those of            *)
(* applications that are gone, although copy and list are old.              *)
GoneInv ==
    \A p \in PodNames : drv[p].pc \in ChkPCs =>
        \A u \in delAnnotations(drv[p]) : app[u] = "gone"

(* The map that AddRefOfMount writes back holds what is in the pod: the     *)
(* lock is held between the read and the write.                             *)
AddInv ==
    \A u \in Targets : op[u].pc = "addPatch" /\ pod[op[u].name].exists =>
        op[u].refs = pod[op[u].name].refs

RefsInv == KnownInv /\ EndsInv /\ GoneInv /\ AddInv

-----------------------------------------------------------------------------
(* What a step does to its own call or run *)

(* A call has added the reference and waits for the mount.                  *)
WaitPCs == {"pubWait", "pubBind", "pubQuota"}

OpGoesOn(t) ==
    /\ UNCHANGED <<app, drv>>
    /\ \A u \in Targets \ {t} : op'[u] = op[u] /\ kvol'[u] = kvol[u]
    /\ op'[t].pc # "idle" \/ kvol'[t] # "unmounted" =>
          op[t].pc # "idle" \/ kvol[t] # "unmounted" \/ app[t] = "running"
    /\ op'[t].pc \in UnpublishPCs =>
          op[t].pc \in UnpublishPCs \/ app[t] \in {"terminating", "gone"}
    /\ op'[t].pc = "addPatch" =>
          /\ op'[t].name = op[t].name /\ op'[t].refs = pod[op[t].name].refs
          /\ pod[op[t].name].exists /\ ~pod[op[t].name].deleting /\ UNCHANGED pod
    /\ op'[t].pc \in WaitPCs =>
          /\ op'[t].name = op[t].name
          /\ op[t].pc \in WaitPCs \/ t \in pod'[op[t].name].refs
    /\ kvol'[t] = "mounted" => kvol[t] = "mounted" \/ op[t].pc = "pubQuota"

(* The steps of a publish or unpublish call: which ones add a reference,    *)
(* read the references, or report the volume mounted.                       *)
LEMMA OpStepGoesOn ==
    ASSUME TypeOK, Named, NEW t \in Targets, OpLock(t) \/ OpStep(t) \/ OpFail(t)
    PROVE  OpGoesOn(t)
<1> DEFINE n == op[t].name
<1>a. /\ op \in [Targets -> Op] /\ op[t] \in Op
      /\ kvol \in [Targets -> {"unmounted", "uncertain", "mounted"}]
      /\ pod \in [PodNames -> Pod]
  BY DEF TypeOK
<1>b. ASSUME NEW pc, Goto(t, pc)
      PROVE  /\ op'[t].pc = pc /\ op'[t].name = op[t].name
             /\ \A u \in Targets \ {t} : op'[u] = op[u]
  BY <1>b, OpMoves
<1>c. ASSUME NEW k, Return(t, k)
      PROVE  /\ op'[t].pc = "idle" /\ kvol'[t] = k
             /\ \A u \in Targets \ {t} : op'[u] = op[u] /\ kvol'[u] = kvol[u]
  BY <1>c, OpMoves
<1> USE DEF OpGoesOn, WaitPCs, UnpublishPCs
<1>1. CASE NodePublishVolume(t)
  BY <1>1, <1>a DEF NodePublishVolume
<1>2. CASE createOrAddRef(t)
  <2>1. CASE pod' = [pod EXCEPT ![n] = NewMountPod(t)] /\ Goto(t, "pubWait")
    <3>1. n \in PodNames
      BY <1>2 DEF createOrAddRef, Named
    <3>2. t \in pod'[n].refs
      BY <1>a, <2>1, <3>1 DEF NewMountPod
    <3> QED BY <1>2, <1>b, <2>1, <3>2 DEF createOrAddRef, kubelet
  <2>2. CASE Goto(t, "addGet")
    BY <1>2, <1>b, <2>2 DEF createOrAddRef, kubelet
  <2> QED BY <1>2, <2>1, <2>2 DEF createOrAddRef
<1>3. CASE AddRefOfMountGet(t)
  <2>1. CASE op' = [op EXCEPT ![t].pc = "addPatch", ![t].refs = pod[n].refs]
    <3>1. /\ op'[t].pc = "addPatch" /\ op'[t].name = op[t].name /\ op'[t].refs = pod[n].refs
          /\ \A u \in Targets \ {t} : op'[u] = op[u]
      BY <1>a, <2>1 DEF Op
    <3>2. op[t].pc = "addGet" /\ UNCHANGED <<pod, app, drv>>
      BY <1>3 DEF AddRefOfMountGet, api
    <3>3. pod[n].exists /\ ~pod[n].deleting /\ UNCHANGED kvol
      BY <1>3, <1>c, <3>1 DEF AddRefOfMountGet
    <3> QED BY <3>1, <3>2, <3>3
  <2>2. CASE t \in pod[n].refs /\ Goto(t, "pubWait") /\ UNCHANGED kvol
    BY <1>3, <1>b, <2>2 DEF AddRefOfMountGet, api
  <2>3. CASE Return(t, "uncertain")
    BY <1>3, <1>c, <2>3 DEF AddRefOfMountGet
  <2> QED BY <1>3, <2>1, <2>2, <2>3 DEF AddRefOfMountGet
<1>4. CASE AddRefOfMountPatch(t)
  <2>1. CASE /\ pod' = [pod EXCEPT ![n].refs = op[t].refs \cup {t}, ![n].deleteAt = NoTime]
             /\ op' = [op EXCEPT ![t].pc = "pubWait", ![t].refs = {}]
             /\ UNCHANGED kvol
    <3>1. /\ op'[t].pc = "pubWait" /\ op'[t].name = op[t].name
          /\ \A u \in Targets \ {t} : op'[u] = op[u]
      BY <1>a, <2>1 DEF Op
    <3>2. n \in PodNames
      BY <1>4 DEF AddRefOfMountPatch, Named
    <3>3. t \in pod'[n].refs
      BY <1>a, <2>1, <3>2 DEF Pod
    <3> QED BY <1>4, <2>1, <3>1, <3>3 DEF AddRefOfMountPatch
  <2>2. CASE Return(t, "uncertain")
    BY <1>4, <1>c, <2>2 DEF AddRefOfMountPatch
  <2> QED BY <1>4, <2>1, <2>2 DEF AddRefOfMountPatch
<1>5. CASE JfsUnmount(t)
  BY <1>5, <1>a DEF JfsUnmount, kubelet
<1>6. CASE waitUtilMountReady(t) \/ BindTarget(t) \/ SetQuotaAndReply(t)
  BY <1>6, <1>b, <1>c DEF waitUtilMountReady, BindTarget, SetQuotaAndReply
<1>7. CASE OpLock(t) \/ createOrAddRefTimeout(t)
  BY <1>7, <1>b, <1>c DEF OpLock, LockCreateOrAddRef, LockJfsUnmount, createOrAddRefTimeout, kubelet
<1>8. CASE UmountTarget(t) \/ UmountTargetGet(t) \/ UmountTargetCheck(t) \/ UmountTargetPatch(t)
  BY <1>8, <1>b, <1>c DEF UmountTarget, UmountTargetGet, UmountTargetCheck, UmountTargetPatch, kubelet
<1>9. CASE GetMountRef(t) \/ JUmount(t) \/ JUmountDelete(t) \/ OpFail(t)
  BY <1>9, <1>b, <1>c DEF GetMountRef, JUmount, JUmountDelete, OpFail
<1> QED BY <1>1, <1>2, <1>3, <1>4, <1>5, <1>6, <1>7, <1>8, <1>9 DEF OpStep
(* A run deploys the pod again.                                             *)
Redeploy == {"resLock", "resFinalizer", "resDelete", "resWait", "recLock", "recWait", "recReady"}

DrvGoesOn(p) ==
    /\ UNCHANGED <<app, kvol, op>>
    /\ \A q \in PodNames \ {p} : drv'[q] = drv[q]
    /\ drv'[p].snap \in {drv[p].snap, pod[p], NoPod}
    /\ drv'[p].pc \in ChkPCs =>
          \/ drv[p].pc \in ChkPCs /\ drv'[p].snap = drv[p].snap /\ drv'[p].apps = drv[p].apps
          \/ /\ drv'[p].snap = pod[p]
             /\ drv'[p].apps = {t \in Targets : app[t] \in {"running", "terminating"}}
    /\ drv'[p].pc = "deleted" => drv'[p].snap = pod[p] /\ pod[p].deleting
    /\ drv'[p].pc \in Redeploy =>
          \/ drv[p].pc \in Redeploy
          \/ IsPodResourceError(drv'[p].snap)
          \/ drv[p].pc = "deleted" /\ drv[p].snap.refs # {}

(* The steps of a run: where its copy of the pod comes from, and when it    *)
(* deploys the pod again.                                                   *)
LEMMA DrvStepGoesOn ==
    ASSUME TypeOK, NEW p \in PodNames,
           DrvLock(p) \/ DrvStep(p) \/ DrvFail(p) \/ DrvAbort(p)
    PROVE  DrvGoesOn(p)
<1>a. drv \in [PodNames -> Drv] /\ drv[p] \in Drv
  BY DEF TypeOK
<1>b. ASSUME NEW pc, DGoto(p, pc)
      PROVE  /\ drv'[p].pc = pc /\ drv'[p].snap = drv[p].snap /\ drv'[p].apps = drv[p].apps
             /\ \A q \in PodNames \ {p} : drv'[q] = drv[q]
  BY <1>b, DrvMoves
<1>c. ASSUME DEnd(p)
      PROVE  /\ drv'[p].pc = "idle" /\ drv'[p].snap = NoPod
             /\ \A q \in PodNames \ {p} : drv'[q] = drv[q]
  BY <1>c, DrvMoves DEF IdleDrv
<1> USE DEF DrvGoesOn, ChkPCs, Redeploy
<1>1. CASE Run(p)
  <2>1. /\ drv'[p].pc = "chkLock" /\ drv'[p].snap = pod[p]
        /\ drv'[p].apps = {t \in Targets : app[t] \in {"running", "terminating"}}
        /\ \A q \in PodNames \ {p} : drv'[q] = drv[q]
    BY <1>1, <1>a DEF Run
  <2> QED BY <1>1, <2>1 DEF Run, kubelet
<1>2. CASE dispatch(p)
  <2> DEFINE again == getPodStatus(drv[p].snap) \in {"podError", "podDeleted"}
             po == IF again THEN pod[p] ELSE drv[p].snap
             to == IF po.exists THEN handlers(po) ELSE "idle"
             d  == IF to = "idle" THEN IdleDrv ELSE [drv[p] EXCEPT !.pc = to, !.snap = po, !.apps = {}]
  <2>1. drv' = [drv EXCEPT ![p] = d] /\ UNCHANGED <<app, kvol, op>>
    BY <1>2 DEF dispatch, kubelet
  <2>2. \/ d.pc = "idle" /\ d.snap = NoPod
        \/ to # "idle" /\ d.pc = to /\ d.snap = po
    BY <1>a DEF Drv, IdleDrv
  <2>3. po \in {drv[p].snap, pod[p]}
    OBVIOUS
  <2>4. to \in {"idle", "recover", "deleted", "resLock"}
    BY DEF handlers
  <2>5. to = "resLock" => IsPodResourceError(po)
    BY DEF handlers
  <2>6. to = "deleted" => po = pod[p] /\ pod[p].deleting
    BY DEF handlers, getPodStatus
  <2>7. drv'[p] = d /\ \A q \in PodNames \ {p} : drv'[q] = drv[q]
    BY <1>a, <2>1
  <2> HIDE DEF d, po, to
  <2> QED BY <2>1, <2>2, <2>3, <2>4, <2>5, <2>6, <2>7
<1>3. CASE podDeletedHandler(p)
  <2>1. drv[p].pc = "deleted" /\ UNCHANGED <<app, kvol, op>>
    BY <1>3 DEF podDeletedHandler, kubelet
  <2>2. \/ DEnd(p) \/ DGoto(p, "umount") \/ (DGoto(p, "recLock") /\ drv[p].snap.refs # {})
    BY <1>3 DEF podDeletedHandler
  <2> QED BY <1>b, <1>c, <2>1, <2>2
<1>4. CASE checkAnnotations(p) \/ checkAnnotationsGet(p) \/ checkAnnotationsPatch(p)
  BY <1>4, <1>b, <1>c DEF checkAnnotations, checkAnnotationsGet, checkAnnotationsPatch, kubelet
<1>5. CASE checkAnnotationsDelay(p) \/ checkAnnotationsDelGet(p) \/ checkAnnotationsDelete(p)
  BY <1>5, <1>b, <1>c DEF checkAnnotationsDelay, checkAnnotationsDelGet, checkAnnotationsDelete, kubelet
<1>6. CASE podReadyHandler(p) \/ umountSource(p) \/ DrvFail(p) \/ DrvAbort(p) \/ DrvTimeout(p)
  BY <1>6, <1>c DEF podReadyHandler, umountSource, DrvFail, DrvAbort, DrvTimeout, kubelet
<1>7. CASE \/ podErrorHandler(p) \/ resRemoveFinalizer(p) \/ resDeletePod(p) \/ resCreatePod(p)
          \/ lockRecreate(p) \/ recreatePod(p) \/ recoverRecreated(p)
  <2>1. drv[p].pc \in Redeploy /\ UNCHANGED <<app, kvol, op>>
    BY <1>7 DEF podErrorHandler, resRemoveFinalizer, resDeletePod, resCreatePod,
         lockRecreate, recreatePod, recoverRecreated, kubelet
  <2>2. DEnd(p) \/ \E pc \in Redeploy : DGoto(p, pc)
    BY <1>7 DEF podErrorHandler, resRemoveFinalizer, resDeletePod, resCreatePod,
         lockRecreate, recreatePod, recoverRecreated
  <2>3. CASE DEnd(p)
    BY <1>c, <2>1, <2>3
  <2>4. CASE \E pc \in Redeploy : DGoto(p, pc)
    BY <1>b, <2>1, <2>4
  <2> QED BY <2>2, <2>3, <2>4
<1> QED BY <1>1, <1>2, <1>3, <1>4, <1>5, <1>6, <1>7 DEF DrvLock, DrvStep

(* What goes on around the node service: applications only move on, and a   *)
(* copy of a pod only grows older.                                          *)
EnvGoesOn ==
    /\ UNCHANGED kvol
    /\ \/ /\ UNCHANGED <<op, app>>
          /\ \A p \in PodNames : /\ drv'[p].pc = drv[p].pc /\ drv'[p].apps = drv[p].apps
                                 /\ drv'[p].snap.refs = drv[p].snap.refs
                                 /\ drv'[p].snap.phase = drv[p].snap.phase
       \/ /\ UNCHANGED <<op, drv, pod>>
          /\ \A u \in Targets : \/ app'[u] = app[u]
                                \/ app[u] = "new" /\ app'[u] = "running"
                                \/ app[u] = "running" /\ app'[u] = "terminating"
                                \/ app[u] = "terminating" /\ app'[u] = "gone"
       \/ /\ UNCHANGED <<pod, app>>
          /\ \A u \in Targets : op'[u] = IdleOp
          /\ \A p \in PodNames : drv'[p] = IdleDrv

(* The steps of the kubelet, of users and of a crash, in these terms.       *)
LEMMA EnvironmentGoesOn == ASSUME TypeOK, Environment PROVE EnvGoesOn
<1>1. CASE Tick
  <2>1. ASSUME NEW p \in PodNames
        PROVE  /\ drv'[p].pc = drv[p].pc /\ drv'[p].apps = drv[p].apps
               /\ drv'[p].snap.refs = drv[p].snap.refs /\ drv'[p].snap.phase = drv[p].snap.phase
    <3>1. drv[p] \in Drv /\ drv[p].snap \in Pod
      BY DrvType DEF TypeOK
    <3>2. drv'[p] = [drv[p] EXCEPT !.snap = Later(drv[p].snap)]
      BY <1>1 DEF Tick
    <3>3. /\ drv'[p].pc = drv[p].pc /\ drv'[p].apps = drv[p].apps
          /\ drv'[p].snap = Later(drv[p].snap)
      BY <3>1, <3>2 DEF Drv
    <3>4. Later(drv[p].snap).refs = drv[p].snap.refs /\ Later(drv[p].snap).phase = drv[p].snap.phase
      BY <3>1 DEF Later, Pod
    <3> QED BY <3>3, <3>4
  <2> QED BY <1>1, <2>1 DEF Tick, EnvGoesOn, kubelet
<1>2. ASSUME NEW u \in Targets, AppStep(u) PROVE EnvGoesOn
  BY <1>2 DEF AppStep, EnvGoesOn, TypeOK, api
<1>3. CASE Crash
  BY <1>3 DEF Crash, EnvGoesOn, kubelet, api
<1>4. ASSUME NEW p \in PodNames,
             \/ MountPodReady(p) \/ MountPodRestart(p) \/ MountPodFailed(p)
             \/ MountPodNoResource(p) \/ DeletedElsewhere(p) \/ MountPodGone(p)
      PROVE  EnvGoesOn
  BY <1>4 DEF EnvGoesOn, MountPodReady, MountPodRestart, MountPodFailed,
       MountPodNoResource, DeletedElsewhere, MountPodGone, kubelet
<1> QED BY <1>1, <1>2, <1>3, <1>4 DEF Environment

-----------------------------------------------------------------------------
(* Who drops a reference *)

(* A reference disappears from a pod with the pod, by the Unpublish of its  *)
(* target, or because its application is gone.                              *)
LEMMA RefDropped ==
    ASSUME TypeOK, Named, LockOwned, RefsInv, [Next]_vars,
           NEW p \in PodNames, NEW u \in pod[p].refs, u \notin pod'[p].refs, pod[p].exists
    PROVE  \/ app[u] = "gone"
           \/ op[u].pc = "unPatch" /\ u \in Targets
           \/ pod[p].deleting /\ pod'[p] = NoPod
<1>a. ~SameRefs(p) /\ u \in Targets
  BY PodFieldType DEF SameRefs
<1>1. ASSUME NEW t \in Targets, OpLock(t) \/ OpStep(t) \/ OpFail(t)
      PROVE  op[u].pc = "unPatch"
  <2>1. OpWritesPod(t, p)
    BY <1>1, <1>a, OpStepWritesPod
  <2>2. ~(op[t].pc = "addPatch" /\ pod'[p].refs = op[t].refs \cup {t})
    BY <2>1 DEF OpWritesPod, RefsInv, AddInv
  <2> QED BY <2>1, <2>2 DEF OpWritesPod
<1>2. ASSUME NEW r \in PodNames, DrvLock(r) \/ DrvStep(r) \/ DrvFail(r) \/ DrvAbort(r)
      PROVE  app[u] = "gone"
  <2>1. DrvWritesPod(p)
    BY <1>2, <1>a, DrvStepWritesPod
  <2>2. drv[p].pc = "chkPatch" /\ u \in delAnnotations(drv[p])
    BY <2>1 DEF DrvWritesPod
  <2> QED BY <2>2 DEF RefsInv, GoneInv, ChkPCs
<1>3. CASE Environment
  BY <1>3, <1>a, EnvironmentWritesPod DEF OthersWritePod
<1>4. CASE UNCHANGED vars
  BY <1>4, <1>a DEF vars, SameRefs
<1> QED BY <1>1, <1>2, <1>3, <1>4, <1>a DEF Next
(* An application only moves on.                                            *)
LEMMA AppMoves ==
    ASSUME TypeOK, Named, [Next]_vars, NEW u \in Targets
    PROVE  /\ app[u] # "new" => app'[u] # "new"
           /\ app[u] \in {"terminating", "gone"} => app'[u] \in {"terminating", "gone"}
           /\ app[u] = "gone" => app'[u] = "gone"
           /\ app'[u] = "running" => app[u] \in {"new", "running"}
<1>1. ASSUME NEW t \in Targets, OpLock(t) \/ OpStep(t) \/ OpFail(t) PROVE UNCHANGED app
  BY <1>1, OpStepGoesOn DEF OpGoesOn
<1>2. ASSUME NEW r \in PodNames, DrvLock(r) \/ DrvStep(r) \/ DrvFail(r) \/ DrvAbort(r)
      PROVE  UNCHANGED app
  BY <1>2, DrvStepGoesOn DEF DrvGoesOn
<1>3. CASE UNCHANGED app
  BY <1>3
<1>4. CASE Environment
  BY <1>4, EnvironmentGoesOn DEF EnvGoesOn
<1> QED BY <1>1, <1>2, <1>3, <1>4 DEF Next, vars

(* A reference that appears is that of a call under way, or comes from the  *)
(* copy of a run.                                                           *)
LEMMA RefAdded ==
    ASSUME TypeOK, Named, RefsInv, [Next]_vars, NEW p \in PodNames, NEW u \in pod'[p].refs
    PROVE  \/ u \in pod[p].refs \/ u \in drv[p].snap.refs
           \/ u \in Targets /\ op[u].pc # "idle"
<1>a. CASE SameRefs(p)
  BY <1>a DEF SameRefs
<1>1. ASSUME NEW t \in Targets, OpLock(t) \/ OpStep(t) \/ OpFail(t), ~SameRefs(p)
      PROVE  u \in pod[p].refs \/ (u = t /\ op[t].pc # "idle")
  <2>1. OpWritesPod(t, p)
    BY <1>1, OpStepWritesPod
  <2> QED BY <2>1 DEF OpWritesPod, NewMountPod, RefsInv, AddInv
<1>2. ASSUME NEW r \in PodNames, DrvLock(r) \/ DrvStep(r) \/ DrvFail(r) \/ DrvAbort(r), ~SameRefs(p)
      PROVE  u \in pod[p].refs \/ u \in drv[p].snap.refs
  <2>1. DrvWritesPod(p)
    BY <1>2, DrvStepWritesPod
  <2> QED BY <2>1 DEF DrvWritesPod
<1>3. CASE Environment /\ ~SameRefs(p)
  BY <1>3, EnvironmentWritesPod DEF OthersWritePod, NoPod
<1>4. CASE UNCHANGED vars
  BY <1>4, <1>a DEF vars, SameRefs
<1> QED BY <1>a, <1>1, <1>2, <1>3, <1>4 DEF Next

(* Calls, mounts and references come after their application.               *)
LEMMA KnownNext ==
    ASSUME TypeOK, TypeOK', Named, RefsInv, [Next]_vars
    PROVE  KnownInv'
<1>a. KnownInv
  BY DEF RefsInv
<1>b. /\ \A p \in PodNames : pod[p].refs \subseteq Targets /\ pod'[p].refs \subseteq Targets
      /\ \A p \in PodNames : drv'[p].snap.refs \subseteq Targets
  BY DEF TypeOK, Drv, Pod
<1>1. ASSUME NEW p \in PodNames, NEW u \in pod'[p].refs PROVE app'[u] # "new"
  <2>1. u \in Targets /\ app[u] # "new"
    BY <1>a, <1>b, <1>1, RefAdded DEF KnownInv
  <2> QED BY <2>1, AppMoves
<1>2. ASSUME NEW p \in PodNames, NEW u \in drv'[p].snap.refs PROVE app'[u] # "new"
  <2>1. \/ u \in drv[p].snap.refs \/ u \in pod[p].refs
    <3>1. ASSUME NEW t \in Targets, OpLock(t) \/ OpStep(t) \/ OpFail(t) PROVE u \in drv[p].snap.refs
      BY <1>2, <3>1, OpStepGoesOn DEF OpGoesOn
    <3>2. ASSUME NEW r \in PodNames, DrvLock(r) \/ DrvStep(r) \/ DrvFail(r) \/ DrvAbort(r)
          PROVE  u \in drv[p].snap.refs \/ u \in pod[p].refs
      BY <1>2, <3>2, DrvStepGoesOn DEF DrvGoesOn, NoPod
    <3>3. CASE Environment
      BY <1>2, <3>3, EnvironmentGoesOn DEF EnvGoesOn, IdleDrv, NoPod
    <3> QED BY <1>2, <3>1, <3>2, <3>3 DEF Next, vars
  <2>2. u \in Targets /\ app[u] # "new"
    BY <1>a, <1>b, <1>2, <2>1 DEF KnownInv
  <2> QED BY <2>2, AppMoves
<1>3. ASSUME NEW u \in Targets, op'[u].pc # "idle" \/ kvol'[u] # "unmounted" PROVE app'[u] # "new"
  <2>1. op[u].pc # "idle" \/ kvol[u] # "unmounted" \/ app[u] = "running"
    <3>1. ASSUME NEW t \in Targets, OpLock(t) \/ OpStep(t) \/ OpFail(t)
          PROVE  op[u].pc # "idle" \/ kvol[u] # "unmounted" \/ app[u] = "running"
      BY <1>3, <3>1, OpStepGoesOn DEF OpGoesOn
    <3>2. ASSUME NEW r \in PodNames, DrvLock(r) \/ DrvStep(r) \/ DrvFail(r) \/ DrvAbort(r)
          PROVE  UNCHANGED <<op, kvol>>
      BY <3>2, DrvStepGoesOn DEF DrvGoesOn
    <3>3. CASE Environment
      BY <1>3, <3>3, EnvironmentGoesOn DEF EnvGoesOn, IdleOp
    <3> QED BY <1>3, <3>1, <3>2, <3>3 DEF Next, vars
  <2> QED BY <1>a, <2>1, AppMoves DEF KnownInv
<1> QED BY <1>1, <1>2, <1>3 DEF KnownInv

(* An application that ends does not run again.                             *)
LEMMA EndsNext ==
    ASSUME TypeOK, Named, RefsInv, [Next]_vars
    PROVE  EndsInv'
<1> SUFFICES ASSUME NEW u \in Targets, op'[u].pc \in UnpublishPCs
             PROVE  app'[u] \in {"terminating", "gone"}
  BY DEF EndsInv
<1>1. ASSUME NEW t \in Targets, OpLock(t) \/ OpStep(t) \/ OpFail(t)
      PROVE  op[u].pc \in UnpublishPCs \/ app[u] \in {"terminating", "gone"}
  BY <1>1, OpStepGoesOn DEF OpGoesOn
<1>2. ASSUME NEW r \in PodNames, DrvLock(r) \/ DrvStep(r) \/ DrvFail(r) \/ DrvAbort(r)
      PROVE  op[u].pc \in UnpublishPCs
  BY <1>2, DrvStepGoesOn DEF DrvGoesOn
<1>3. CASE Environment
  BY <1>3, EnvironmentGoesOn, AppMoves DEF EnvGoesOn, IdleOp, UnpublishPCs, RefsInv, EndsInv
<1> QED BY <1>1, <1>2, <1>3, AppMoves DEF Next, vars, RefsInv, EndsInv

(* Copy and list are of one answer of the kubelet, and an application that  *)
(* was referred to and is not listed does not come back.                    *)
LEMMA GoneNext ==
    ASSUME TypeOK, Named, RefsInv, [Next]_vars
    PROVE  GoneInv'
<1> SUFFICES ASSUME NEW p \in PodNames, drv'[p].pc \in ChkPCs, NEW u \in delAnnotations(drv'[p])
             PROVE  app'[u] = "gone"
  BY DEF GoneInv, delAnnotations
<1>a. drv[p].snap \in Pod /\ pod[p] \in Pod /\ GoneInv /\ app \in [Targets -> {"new", "running", "terminating", "gone"}]
  BY DrvType DEF TypeOK, RefsInv
<1>b. ASSUME drv[p].pc \in ChkPCs, drv'[p].snap.refs = drv[p].snap.refs, drv'[p].apps = drv[p].apps
      PROVE  app'[u] = "gone"
  <2>1. u \in Targets /\ app[u] = "gone"
    BY <1>a, <1>b DEF delAnnotations, GoneInv, Pod
  <2> QED BY <2>1, AppMoves
<1>1. ASSUME NEW t \in Targets, OpLock(t) \/ OpStep(t) \/ OpFail(t)
      PROVE  UNCHANGED drv
  BY <1>1, OpStepGoesOn DEF OpGoesOn
<1>2. ASSUME NEW r \in PodNames, DrvLock(r) \/ DrvStep(r) \/ DrvFail(r) \/ DrvAbort(r)
      PROVE  app'[u] = "gone"
  <2>1. CASE \/ r # p
             \/ drv[p].pc \in ChkPCs /\ drv'[p].snap = drv[p].snap /\ drv'[p].apps = drv[p].apps
    BY <1>2, <1>b, <2>1, DrvStepGoesOn DEF DrvGoesOn
  <2>2. CASE /\ drv'[p].snap = pod[p] /\ UNCHANGED app
             /\ drv'[p].apps = {t \in Targets : app[t] \in {"running", "terminating"}}
    <3>1. u \in pod[p].refs /\ u \in Targets /\ app[u] \notin {"running", "terminating"}
      BY <1>a, <2>2 DEF delAnnotations, Pod
    <3>2. app[u] # "new"
      BY <3>1 DEF RefsInv, KnownInv
    <3> QED BY <1>a, <2>2, <3>1, <3>2
  <2> QED BY <1>2, <2>1, <2>2, DrvStepGoesOn DEF DrvGoesOn
<1>3. CASE Environment
  BY <1>3, <1>b, EnvironmentGoesOn DEF EnvGoesOn, IdleDrv, ChkPCs
<1> QED BY <1>1, <1>2, <1>3, <1>b DEF Next, vars

(* Nobody else writes the references between the read and the patch of      *)
(* AddRefOfMount: that takes the lock of the pod.                           *)
LEMMA AddNext ==
    ASSUME TypeOK, Named, Named', LockOwned, RefsInv, [Next]_vars
    PROVE  AddInv'
<1> SUFFICES ASSUME NEW u \in Targets, op'[u].pc = "addPatch", pod'[op'[u].name].exists
             PROVE  op'[u].refs = pod'[op'[u].name].refs
  BY DEF AddInv
<1>a. ASSUME op'[u] = op[u], SameRefs(op[u].name) PROVE op'[u].refs = pod'[op'[u].name].refs
  BY <1>a DEF SameRefs, RefsInv, AddInv
<1>b. ASSUME op'[u] = op[u] PROVE op[u].name \in PodNames
  BY <1>b DEF Named
<1>1. ASSUME NEW t \in Targets, OpLock(t) \/ OpStep(t) \/ OpFail(t)
      PROVE  op'[u].refs = pod'[op'[u].name].refs
  <2>1. CASE t = u
    BY <1>1, <2>1, OpStepGoesOn DEF OpGoesOn
  <2>2. CASE t # u
    <3>1. op'[u] = op[u]
      BY <1>1, <2>2, OpStepGoesOn DEF OpGoesOn
    <3>2. ~OpWritesPod(t, op[u].name)
      BY <1>b, <2>2, <3>1, OneAtATime DEF OpWritesPod, OpLocked
    <3> QED BY <1>1, <1>a, <1>b, <3>1, <3>2, OpStepWritesPod
  <2> QED BY <2>1, <2>2
<1>2. ASSUME NEW r \in PodNames, DrvLock(r) \/ DrvStep(r) \/ DrvFail(r) \/ DrvAbort(r)
      PROVE  op'[u].refs = pod'[op'[u].name].refs
  <2>1. op'[u] = op[u]
    BY <1>2, DrvStepGoesOn DEF DrvGoesOn
  <2>2. ~DrvWritesPod(op[u].name)
    BY <1>b, <2>1, OneAtATime DEF DrvWritesPod, OpLocked, DrvLocked
  <2> QED BY <1>2, <1>a, <1>b, <2>1, <2>2, DrvStepWritesPod
<1>3. CASE Environment
  <2>1. op'[u] = op[u]
    BY <1>3, EnvironmentGoesOn DEF EnvGoesOn, IdleOp
  <2>2. SameRefs(op[u].name) \/ OthersWritePod(op[u].name)
    BY <1>3, <1>b, <2>1, EnvironmentWritesPod
  <2> QED BY <1>a, <2>1, <2>2 DEF OthersWritePod, NoPod, RefsInv, AddInv
<1>4. CASE UNCHANGED vars
  BY <1>4, <1>a DEF vars, SameRefs
<1> QED BY <1>1, <1>2, <1>3, <1>4 DEF Next

(* In the beginning there are no references.                                *)
LEMMA RefsInit == Init => RefsInv
BY DEF Init, RefsInv, KnownInv, EndsInv, GoneInv, AddInv, NoPod, IdleOp, IdleDrv, ChkPCs, UnpublishPCs

(* The four facts hold together.                                            *)
LEMMA RefsAlways == Spec => []RefsInv
<1>1. TypeOK /\ TypeOK' /\ Named /\ Named' /\ LockOwned /\ RefsInv /\ [Next]_vars => RefsInv'
  BY KnownNext, EndsNext, GoneNext, AddNext DEF RefsInv
<1> QED BY <1>1, RefsInit, TypeCorrect, LockSafe, PTL DEF Spec

(* No writer of the annotations loses a reference that another one added:   *)
(* AddRefOfMount writes the whole map back, checkAnnotations removes by a   *)
(* copy and a list that are old, and still a reference leaves a pod only by *)
(* the Unpublish of its target or when its application is gone.             *)
THEOREM DropsUnused == Spec => DropsOnlyUnusedRefs
<1>1. TypeOK /\ Named /\ LockOwned /\ RefsInv /\ [Next]_vars =>
        [\A p \in PodNames : \A t \in Targets :
            (pod[p].exists /\ pod'[p].exists /\ t \in pod[p].refs /\ t \notin pod'[p].refs)
               => (app[t] = "gone" \/ op[t].pc = "unPatch")]_vars
  BY RefDropped DEF NoPod
<1> QED BY <1>1, RefsAlways, TypeCorrect, LockSafe, PTL DEF Spec, DropsOnlyUnusedRefs

-----------------------------------------------------------------------------
(* Pods that only the node service deletes *)

(* Nobody else deletes a mount pod, and none is refused for want of         *)
(* resources: the cases in which a run creates a pod again from its copy.   *)
OwnDeletions == MaxDelete = 0 /\ MaxResource = 0

BudgetInv == left.delete = 0 /\ left.resource = 0

(* A pod that is going or gone has no references, one that is not has its   *)
(* secret.                                                                  *)
DownInv ==
    \A p \in PodNames :
        /\ pod[p].deleting \/ ~pod[p].exists => pod[p].refs = {}
        /\ pod[p].exists /\ ~pod[p].deleting => p \in secret

(* No run creates a pod again.                                              *)
RunInv ==
    \A p \in PodNames :
        /\ ~IsPodResourceError(pod[p]) /\ ~IsPodResourceError(drv[p].snap)
        /\ drv[p].pc \notin Redeploy
        /\ drv[p].pc = "deleted" => drv[p].snap.refs = {}

(* A call adds its reference to a pod that stays, and has it until its      *)
(* application ends; so has a target that is mounted.                       *)
HeldInv ==
    \A u \in Targets :
        /\ op[u].pc = "addPatch" => pod[op[u].name].exists /\ ~pod[op[u].name].deleting
        /\ op[u].pc \in WaitPCs /\ app[u] = "running" => u \in pod[op[u].name].refs
        /\ InUse(u) => \E p \in PodNames : u \in pod[p].refs

KeptInv == BudgetInv /\ DownInv /\ RunInv /\ HeldInv

(* A budget that is used up stays so.                                       *)
LEMMA BudgetNext ==
    ASSUME TypeOK, BudgetInv, [Next]_vars
    PROVE  BudgetInv'
<1>a. left \in Left
  BY DEF TypeOK
<1>1. CASE UNCHANGED left
  BY <1>1 DEF BudgetInv
<1>2. CASE \/ left' = [left EXCEPT !.fail = @ - 1] \/ left' = [left EXCEPT !.restart = @ - 1]
           \/ left' = [left EXCEPT !.error = @ - 1] \/ left' = [left EXCEPT !.abort = @ - 1]
           \/ left' = [left EXCEPT !.crash = @ - 1]
  BY SMTT(30), <1>a, <1>2 DEF BudgetInv, Left
<1>3. ASSUME NEW t \in Targets, OpLock(t) \/ OpStep(t) \/ OpFail(t) PROVE BudgetInv'
  BY <1>1, <1>2, <1>3 DEF OpLock, OpStep, OpFail, LockCreateOrAddRef, LockJfsUnmount,
     NodePublishVolume, createOrAddRef, createOrAddRefTimeout, AddRefOfMountGet, AddRefOfMountPatch,
     waitUtilMountReady, BindTarget, SetQuotaAndReply, JfsUnmount, UmountTarget, UmountTargetGet, UmountTargetCheck,
     UmountTargetPatch, GetMountRef, JUmount, JUmountDelete
<1>4. ASSUME NEW r \in PodNames, DrvLock(r) \/ DrvStep(r) \/ DrvFail(r) \/ DrvAbort(r) PROVE BudgetInv'
  BY <1>1, <1>2, <1>4 DEF DrvLock, DrvStep, DrvFail, DrvAbort, DrvTimeout, checkAnnotations,
     podErrorHandler, lockRecreate, Run, checkAnnotationsGet, checkAnnotationsPatch,
     checkAnnotationsDelay, checkAnnotationsDelGet, checkAnnotationsDelete, dispatch,
     podReadyHandler, resRemoveFinalizer, resDeletePod, resCreatePod, podDeletedHandler,
     umountSource, recreatePod, recoverRecreated
<1>5. CASE Environment
  BY <1>1, <1>2, <1>5 DEF BudgetInv, Environment, MountPodReady, MountPodRestart, MountPodFailed,
     MountPodNoResource, DeletedElsewhere, MountPodGone, AppStep, Tick, Crash
<1> QED BY <1>1, <1>3, <1>4, <1>5 DEF Next, vars
(* A pod is only refused for want of resources while the budget lasts.      *)
LEMMA PhaseNext ==
    ASSUME TypeOK, Named, BudgetInv, RunInv, [Next]_vars, NEW p \in PodNames
    PROVE  ~IsPodResourceError(pod'[p])
<1>a. pod \in [PodNames -> Pod] /\ pod[p] \in Pod /\ ~IsPodResourceError(pod[p]) /\ drv[p].snap \in Pod
  BY DrvType DEF TypeOK, RunInv
<1>b. CASE pod'[p].phase = pod[p].phase \/ pod'[p].phase \in {"pending", "ready", "restarting", "error"}
  BY <1>a, <1>b DEF IsPodResourceError
<1>c. ASSUME NEW n \in PodNames, NEW po, pod' = [pod EXCEPT ![n] = po], po.phase \in {pod[n].phase, "pending"}
      PROVE  pod'[p].phase \in {pod[p].phase, "pending"}
  BY <1>a, <1>c
<1>d. ASSUME NEW n \in PodNames
      PROVE  /\ \A x, y : pod' = [pod EXCEPT ![n].refs = x, ![n].deleteAt = y] => pod'[p].phase = pod[p].phase
             /\ \A x : pod' = [pod EXCEPT ![n].refs = x] => pod'[p].phase = pod[p].phase
             /\ \A x : pod' = [pod EXCEPT ![n].deleteAt = x] => pod'[p].phase = pod[p].phase
             /\ \A x : pod' = [pod EXCEPT ![n].deleting = x] => pod'[p].phase = pod[p].phase
             /\ \A x : pod' = [pod EXCEPT ![n].finalizer = x] => pod'[p].phase = pod[p].phase
  BY <1>a DEF Pod
<1>1. ASSUME NEW t \in Targets, OpLock(t) \/ OpStep(t) \/ OpFail(t)
      PROVE  pod'[p].phase \in {pod[p].phase, "pending"}
  <2>1. op[t].pc \notin {"idle", "unLock", "unUmount"} => op[t].name \in PodNames
    BY DEF Named
  <2>2. CASE createOrAddRef(t)
    BY <1>c, <2>1, <2>2 DEF createOrAddRef, NewMountPod
  <2>3. CASE AddRefOfMountPatch(t)
    BY <1>d, <2>1, <2>3 DEF AddRefOfMountPatch
  <2>4. CASE UmountTargetPatch(t)
    BY <1>d, <2>1, <2>4 DEF UmountTargetPatch
  <2>5. CASE JUmount(t)
    BY <1>d, <2>1, <2>5 DEF JUmount, WriteDeleteAt
  <2>6. CASE JUmountDelete(t)
    BY <1>d, <2>1, <2>6 DEF JUmountDelete, api
  <2> QED BY <1>1, <2>2, <2>3, <2>4, <2>5, <2>6 DEF OpLock, OpStep, api,
       LockCreateOrAddRef, LockJfsUnmount, NodePublishVolume, createOrAddRefTimeout,
       AddRefOfMountGet, waitUtilMountReady, BindTarget, SetQuotaAndReply, JfsUnmount,
       UmountTarget, UmountTargetGet, UmountTargetCheck, GetMountRef, OpFail
<1>2. ASSUME NEW r \in PodNames, DrvLock(r) \/ DrvStep(r) \/ DrvFail(r) \/ DrvAbort(r)
      PROVE  pod'[p].phase = pod[p].phase
  <2>1. drv[r].pc \notin Redeploy
    BY DEF RunInv
  <2>2. CASE checkAnnotationsPatch(r)
    BY <1>a, <2>2 DEF checkAnnotationsPatch, Pod
  <2>3. CASE checkAnnotationsDelay(r)
    BY <1>d, <2>3 DEF checkAnnotationsDelay, WriteDeleteAt
  <2>4. CASE checkAnnotationsDelete(r)
    BY <1>d, <2>4 DEF checkAnnotationsDelete, api
  <2>5. CASE podDeletedHandler(r)
    BY <1>d, <2>5 DEF podDeletedHandler
  <2> QED BY <1>2, <2>1, <2>2, <2>3, <2>4, <2>5 DEF DrvLock, DrvStep, api, Redeploy,
       checkAnnotations, podErrorHandler, lockRecreate, Run, checkAnnotationsGet,
       checkAnnotationsDelGet, dispatch, podReadyHandler, umountSource, recoverRecreated,
       resRemoveFinalizer, resDeletePod, resCreatePod, recreatePod, DrvTimeout, DrvFail, DrvAbort
<1>3. CASE Environment
  <2>1. CASE Tick
    <3>1. pod'[p] = Later(pod[p])
      BY <2>1 DEF Tick
    <3> QED BY <1>a, <1>b, <3>1 DEF Later, Pod
  <2>2. ASSUME NEW n \in PodNames, MountPodReady(n) \/ MountPodRestart(n) \/ MountPodFailed(n)
        PROVE  pod'[p].phase \in {pod[p].phase, "ready", "restarting", "error"}
    BY <1>a, <2>2 DEF MountPodReady, MountPodRestart, MountPodFailed, Pod
  <2>3. ASSUME NEW n \in PodNames PROVE ~MountPodNoResource(n) /\ ~DeletedElsewhere(n)
    BY DEF BudgetInv, MountPodNoResource, DeletedElsewhere
  <2>4. ASSUME NEW n \in PodNames, MountPodGone(n) PROVE pod'[p].phase \in {pod[p].phase, "pending"}
    BY <1>c, <2>4 DEF MountPodGone, NoPod
  <2> QED BY <1>3, <1>b, <2>1, <2>2, <2>3, <2>4 DEF Environment, AppStep, Crash, api
<1>4. CASE UNCHANGED vars
  BY <1>4, <1>b DEF vars
<1> QED BY <1>1, <1>2, <1>3, <1>4, <1>b DEF Next

(* A run re-creates a pod that had references or lacked resources: none.    *)
LEMMA RunNext ==
    ASSUME TypeOK, Named, BudgetInv, DownInv, RunInv, [Next]_vars
    PROVE  RunInv'
<1> SUFFICES ASSUME NEW p \in PodNames
             PROVE  /\ ~IsPodResourceError(pod'[p]) /\ ~IsPodResourceError(drv'[p].snap)
                    /\ drv'[p].pc \notin Redeploy
                    /\ drv'[p].pc = "deleted" => drv'[p].snap.refs = {}
  BY DEF RunInv, IsPodResourceError
<1>a. /\ ~IsPodResourceError(pod[p]) /\ ~IsPodResourceError(drv[p].snap) /\ ~IsPodResourceError(NoPod)
      /\ drv[p].pc \notin Redeploy /\ (drv[p].pc = "deleted" => drv[p].snap.refs = {})
      /\ pod[p].deleting => pod[p].refs = {}
  BY DEF RunInv, DownInv, IsPodResourceError, NoPod
<1>b. ~IsPodResourceError(pod'[p])
  BY PhaseNext
<1>c. CASE drv'[p] = drv[p]
  BY <1>a, <1>b, <1>c
<1>1. ASSUME NEW t \in Targets, OpLock(t) \/ OpStep(t) \/ OpFail(t) PROVE drv'[p] = drv[p]
  BY <1>1, OpStepGoesOn DEF OpGoesOn
<1>2. ASSUME NEW r \in PodNames, DrvLock(r) \/ DrvStep(r) \/ DrvFail(r) \/ DrvAbort(r), drv'[p] # drv[p]
      PROVE  /\ ~IsPodResourceError(drv'[p].snap) /\ drv'[p].pc \notin Redeploy
             /\ drv'[p].pc = "deleted" => drv'[p].snap.refs = {}
  <2>1. DrvGoesOn(p)
    BY <1>2, DrvStepGoesOn DEF DrvGoesOn
  <2> QED BY <1>a, <2>1 DEF DrvGoesOn
<1>3. CASE Environment
  <2>1. CASE drv'[p] = IdleDrv
    BY <1>a, <1>b, <2>1 DEF IdleDrv, NoPod, Redeploy
  <2>2. CASE drv'[p].pc = drv[p].pc /\ drv'[p].snap.refs = drv[p].snap.refs /\ drv'[p].snap.phase = drv[p].snap.phase
    BY <1>a, <1>b, <2>2 DEF IsPodResourceError
  <2> QED BY <1>3, <1>c, <2>1, <2>2, EnvironmentGoesOn DEF EnvGoesOn
<1> QED BY <1>1, <1>2, <1>3, <1>b, <1>c DEF Next, vars

(* The secret of a pod is only deleted with the pod, and written before it. *)
LEMMA SecretMoves ==
    ASSUME TypeOK, Named, RunInv, [Next]_vars, NEW p \in PodNames
    PROVE  /\ p \in secret /\ p \notin secret' => pod'[p].deleting
           /\ ~pod[p].exists /\ pod'[p].exists => p \in secret'
<1>a. pod \in [PodNames -> Pod] /\ pod[p] \in Pod
  BY DEF TypeOK
<1>b. ASSUME NEW n \in PodNames, pod' = [pod EXCEPT ![n].deleting = TRUE]
      PROVE  pod'[n].deleting /\ \A q \in PodNames : pod'[q].exists = pod[q].exists
  BY SMTT(30), <1>b, <1>a DEF Pod
<1>1. ASSUME NEW t \in Targets, OpLock(t) \/ OpStep(t) \/ OpFail(t)
      PROVE  /\ p \in secret /\ p \notin secret' => pod'[p].deleting
             /\ ~pod[p].exists /\ pod'[p].exists => p \in secret'
  <2>1. op[t].pc \notin {"idle", "unLock", "unUmount"} => op[t].name \in PodNames
    BY DEF Named
  <2>2. SameRefs(p) \/ OpWritesPod(t, p)
    BY <1>1, OpStepWritesPod
  <2>3. CASE createOrAddRef(t)
    BY <1>a, <2>1, <2>2, <2>3 DEF createOrAddRef, OpWritesPod, SameRefs
  <2>4. CASE JUmountDelete(t)
    BY <1>b, <2>1, <2>4 DEF JUmountDelete, api
  <2>5. CASE UNCHANGED secret /\ op[t].pc # "pubGet"
    BY <2>2, <2>5 DEF SameRefs, OpWritesPod
  <2>6. CASE UNCHANGED <<secret, pod>>
    BY <2>6
  <2> QED BY <1>1, <2>3, <2>4, <2>5, <2>6 DEF OpLock, OpStep, api,
       LockCreateOrAddRef, LockJfsUnmount, NodePublishVolume, createOrAddRefTimeout,
       AddRefOfMountGet, AddRefOfMountPatch, waitUtilMountReady, BindTarget, SetQuotaAndReply,
       JfsUnmount, UmountTarget, UmountTargetGet, UmountTargetCheck, UmountTargetPatch, GetMountRef, JUmount, OpFail
<1>2. ASSUME NEW r \in PodNames, DrvLock(r) \/ DrvStep(r) \/ DrvFail(r) \/ DrvAbort(r)
      PROVE  /\ p \in secret /\ p \notin secret' => pod'[p].deleting
             /\ ~pod[p].exists /\ pod'[p].exists => p \in secret'
  <2>1. ~(~pod[p].exists /\ pod'[p].exists)
    BY <1>2, DrvStepWritesPod DEF RunInv, SameRefs, DrvWritesPod, Redeploy
  <2>2. CASE checkAnnotationsDelete(r)
    BY <1>b, <2>1, <2>2 DEF checkAnnotationsDelete, api
  <2>3. CASE UNCHANGED secret
    BY <2>1, <2>3
  <2> QED BY <1>2, <2>2, <2>3 DEF DrvLock, DrvStep, api, checkAnnotations, podErrorHandler,
       lockRecreate, Run, checkAnnotationsGet, checkAnnotationsPatch, checkAnnotationsDelay,
       checkAnnotationsDelGet, dispatch, podReadyHandler, resRemoveFinalizer, resDeletePod,
       resCreatePod, podDeletedHandler, umountSource, recreatePod, recoverRecreated,
       DrvTimeout, DrvFail, DrvAbort
<1>3. CASE Environment
  <2>1. UNCHANGED secret
    BY <1>3 DEF Environment, MountPodReady, MountPodRestart, MountPodFailed,
       MountPodNoResource, DeletedElsewhere, MountPodGone, AppStep, Tick, Crash, api
  <2> QED BY <1>3, <2>1, EnvironmentWritesPod DEF SameRefs, OthersWritePod, NoPod
<1> QED BY <1>1, <1>2, <1>3 DEF Next, vars

(* A pod goes after its last reference, and its secret goes with it.        *)
LEMMA DownNext ==
    ASSUME TypeOK, Named, DelInv, KeptInv, [Next]_vars
    PROVE  DownInv'
<1> SUFFICES ASSUME NEW p \in PodNames
             PROVE  /\ pod'[p].deleting \/ ~pod'[p].exists => pod'[p].refs = {}
                    /\ pod'[p].exists /\ ~pod'[p].deleting => p \in secret'
  BY DEF DownInv
<1> DEFINE Fine == /\ pod'[p].deleting \/ ~pod'[p].exists => pod'[p].refs = {}
                   /\ pod[p].exists /\ pod[p].deleting => pod'[p].deleting \/ ~pod'[p].exists
<1>a. /\ pod[p].deleting \/ ~pod[p].exists => pod[p].refs = {}
      /\ pod[p].exists /\ ~pod[p].deleting => p \in secret
      /\ left.delete = 0
  BY DEF KeptInv, DownInv, BudgetInv
<1>b. ASSUME SameRefs(p) PROVE Fine
  BY <1>a, <1>b DEF SameRefs
<1>1. ASSUME NEW t \in Targets, OpLock(t) \/ OpStep(t) \/ OpFail(t) PROVE Fine
  <2>1. CASE OpWritesPod(t, p)
    BY <1>a, <2>1 DEF OpWritesPod, NewMountPod, DelInv, KeptInv, HeldInv
  <2> QED BY <1>1, <1>b, <2>1, OpStepWritesPod
<1>2. ASSUME NEW r \in PodNames, DrvLock(r) \/ DrvStep(r) \/ DrvFail(r) \/ DrvAbort(r) PROVE Fine
  <2>1. CASE DrvWritesPod(p)
    BY <1>a, <2>1 DEF DrvWritesPod, DelInv, KeptInv, RunInv, Redeploy
  <2> QED BY <1>2, <1>b, <2>1, DrvStepWritesPod
<1>3. ASSUME Environment PROVE Fine
  BY <1>3, <1>a, <1>b, EnvironmentWritesPod DEF OthersWritePod, NoPod
<1>4. Fine
  BY <1>1, <1>2, <1>3, <1>b DEF Next, vars, SameRefs
<1>5. pod'[p].exists /\ ~pod'[p].deleting => p \in secret'
  BY <1>4, <1>a, SecretMoves DEF KeptInv
<1> QED BY <1>4, <1>5

(* The reference of a running application stays where it is.               *)
LEMMA RefStays ==
    ASSUME TypeOK, Named, LockOwned, RefsInv, KeptInv, [Next]_vars,
           NEW p \in PodNames, NEW u \in pod[p].refs, app[u] = "running"
    PROVE  u \in pod'[p].refs
<1>1. pod[p].exists /\ ~pod[p].deleting /\ u \in Targets
  BY PodFieldType DEF KeptInv, DownInv
<1>2. op[u].pc # "unPatch"
  BY <1>1 DEF RefsInv, EndsInv, UnpublishPCs
<1> QED BY <1>1, <1>2, RefDropped

(* From AddRefOfMount until its application ends a target is referred to.   *)
LEMMA HeldNext ==
    ASSUME TypeOK, Named, Named', LockOwned, RefsInv, KeptInv, [Next]_vars
    PROVE  HeldInv'
<1> SUFFICES ASSUME NEW u \in Targets
             PROVE  /\ op'[u].pc = "addPatch" => pod'[op'[u].name].exists /\ ~pod'[op'[u].name].deleting
                    /\ op'[u].pc \in WaitPCs /\ app'[u] = "running" => u \in pod'[op'[u].name].refs
                    /\ InUse(u)' => \E p \in PodNames : u \in pod'[p].refs
  BY DEF HeldInv
<1>a. /\ op[u].pc = "addPatch" => pod[op[u].name].exists /\ ~pod[op[u].name].deleting
      /\ op[u].pc \in WaitPCs /\ app[u] = "running" => u \in pod[op[u].name].refs
      /\ InUse(u) => \E p \in PodNames : u \in pod[p].refs
  BY DEF KeptInv, HeldInv
<1>b. app'[u] = "running" /\ (op[u].pc # "idle" \/ kvol[u] # "unmounted") => app[u] = "running"
  BY AppMoves DEF RefsInv, KnownInv
<1>1. ASSUME op'[u].pc = "addPatch" PROVE pod'[op'[u].name].exists /\ ~pod'[op'[u].name].deleting
  <2> DEFINE n == op[u].name
  <2>a. ASSUME op'[u] = op[u], SameRefs(n) PROVE pod'[op'[u].name].exists /\ ~pod'[op'[u].name].deleting
    BY <1>1, <1>a, <2>a DEF SameRefs
  <2>b. ASSUME op'[u] = op[u] PROVE n \in PodNames
    BY <1>1, <2>b DEF Named
  <2>1. ASSUME NEW t \in Targets, OpLock(t) \/ OpStep(t) \/ OpFail(t)
        PROVE  pod'[op'[u].name].exists /\ ~pod'[op'[u].name].deleting
    <3>1. CASE t = u
      BY <1>1, <2>1, <3>1, OpStepGoesOn DEF OpGoesOn
    <3>2. CASE t # u
      <4>1. op'[u] = op[u]
        BY <2>1, <3>2, OpStepGoesOn DEF OpGoesOn
      <4>2. ~OpWritesPod(t, n)
        BY <1>1, <2>b, <3>2, <4>1, OneAtATime DEF OpWritesPod, OpLocked
      <4> QED BY <2>1, <2>a, <2>b, <4>1, <4>2, OpStepWritesPod
    <3> QED BY <3>1, <3>2
  <2>2. ASSUME NEW r \in PodNames, DrvLock(r) \/ DrvStep(r) \/ DrvFail(r) \/ DrvAbort(r)
        PROVE  pod'[op'[u].name].exists /\ ~pod'[op'[u].name].deleting
    <3>1. op'[u] = op[u]
      BY <2>2, DrvStepGoesOn DEF DrvGoesOn
    <3>2. ~DrvWritesPod(n)
      BY <1>1, <2>b, <3>1, OneAtATime DEF DrvWritesPod, OpLocked, DrvLocked
    <3> QED BY <2>2, <2>a, <2>b, <3>1, <3>2, DrvStepWritesPod
  <2>3. CASE Environment
    <3>1. op'[u] = op[u]
      BY <1>1, <2>3, EnvironmentGoesOn DEF EnvGoesOn, IdleOp
    <3>2. ~OthersWritePod(n)
      BY <1>1, <1>a, <3>1 DEF OthersWritePod, KeptInv, BudgetInv
    <3> QED BY <2>3, <2>a, <2>b, <3>1, <3>2, EnvironmentWritesPod
  <2>4. CASE UNCHANGED vars
    BY <2>4, <2>a DEF vars, SameRefs
  <2> QED BY <2>1, <2>2, <2>3, <2>4 DEF Next
<1>2. ASSUME op'[u].pc \in WaitPCs, app'[u] = "running" PROVE u \in pod'[op'[u].name].refs
  <2>1. \/ op[u].pc \in WaitPCs /\ op'[u].name = op[u].name
        \/ u \in pod'[op'[u].name].refs
    <3>1. ASSUME NEW t \in Targets, OpLock(t) \/ OpStep(t) \/ OpFail(t)
          PROVE  \/ op[u].pc \in WaitPCs /\ op'[u].name = op[u].name
                 \/ u \in pod'[op'[u].name].refs
      BY <1>2, <3>1, OpStepGoesOn DEF OpGoesOn
    <3>2. ASSUME NEW r \in PodNames, DrvLock(r) \/ DrvStep(r) \/ DrvFail(r) \/ DrvAbort(r)
          PROVE  op' = op
      BY <3>2, DrvStepGoesOn DEF DrvGoesOn
    <3>3. CASE Environment
      BY <1>2, <3>3, EnvironmentGoesOn DEF EnvGoesOn, IdleOp, WaitPCs
    <3> QED BY <1>2, <3>1, <3>2, <3>3 DEF Next, vars
  <2>2. CASE op[u].pc \in WaitPCs /\ op'[u].name = op[u].name
    <3>1. op[u].name \in PodNames /\ op[u].pc # "idle"
      BY <2>2 DEF Named, WaitPCs
    <3> QED BY <1>2, <1>a, <1>b, <2>2, <3>1, RefStays
  <2> QED BY <2>1, <2>2
<1>3. ASSUME InUse(u)' PROVE \E p \in PodNames : u \in pod'[p].refs
  <2>1. kvol[u] = "mounted" \/ op[u].pc = "pubQuota"
    <3>1. ASSUME NEW t \in Targets, OpLock(t) \/ OpStep(t) \/ OpFail(t)
          PROVE  kvol[u] = "mounted" \/ op[u].pc = "pubQuota"
      BY <1>3, <3>1, OpStepGoesOn DEF OpGoesOn, InUse
    <3>2. ASSUME NEW r \in PodNames, DrvLock(r) \/ DrvStep(r) \/ DrvFail(r) \/ DrvAbort(r)
          PROVE  kvol' = kvol
      BY <3>2, DrvStepGoesOn DEF DrvGoesOn
    <3>3. CASE Environment
      BY <1>3, <3>3, EnvironmentGoesOn DEF EnvGoesOn, InUse
    <3> QED BY <1>3, <3>1, <3>2, <3>3 DEF Next, vars, InUse
  <2>2. app[u] = "running"
    BY <1>3, <1>b, <2>1 DEF InUse
  <2>3. CASE kvol[u] = "mounted"
    <3>1. PICK p \in PodNames : u \in pod[p].refs
      BY <1>a, <2>2, <2>3 DEF InUse
    <3> QED BY <2>2, <3>1, RefStays
  <2>4. CASE op[u].pc = "pubQuota"
    <3>1. op[u].name \in PodNames /\ u \in pod[op[u].name].refs
      BY <1>a, <2>2, <2>4 DEF Named, WaitPCs
    <3> QED BY <2>2, <3>1, RefStays
  <2> QED BY <2>1, <2>3, <2>4
<1> QED BY <1>1, <1>2, <1>3

(* In the beginning nothing is used.                                        *)
LEMMA KeptInit == OwnDeletions /\ Init => KeptInv
BY DEF OwnDeletions, Init, KeptInv, BudgetInv, DownInv, RunInv, HeldInv, InUse, NoPod, IdleOp, IdleDrv,
   IsPodResourceError, Redeploy, WaitPCs

(* The invariant behind DeletesUnused: no reference comes before the delete.*)
LEMMA DelAlways == Spec => []DelInv
<1>1. Init => DelInv
  BY DEF Init, DelInv, IdleOp, IdleDrv
<1>2. TypeOK /\ Named /\ LockOwned /\ DelInv /\ [Next]_vars => DelInv'
  BY DelNext
<1> QED BY <1>1, <1>2, TypeCorrect, LockSafe, PTL DEF Spec

(* The strengthening of RefKept and SecretKept is an invariant.             *)
LEMMA KeptAlways == OwnDeletions => (Spec => []KeptInv)
<1> SUFFICES ASSUME OwnDeletions PROVE Spec => []KeptInv
  OBVIOUS
<1>1. Init => KeptInv
  BY KeptInit
<1>2. TypeOK /\ Named /\ Named' /\ LockOwned /\ DelInv /\ RefsInv /\ KeptInv /\ [Next]_vars => KeptInv'
  BY BudgetNext, DownNext, RunNext, HeldNext DEF KeptInv
<1> QED BY <1>1, <1>2, TypeCorrect, LockSafe, DelAlways, RefsAlways, PTL DEF Spec

(* As long as mount pods are deleted by the node service alone, a target    *)
(* that is mounted for a running application has its reference on a mount   *)
(* pod, however publish and unpublish calls, runs of the driver, failures   *)
(* of requests, restarts of mount pods and crashes are interleaved.         *)
THEOREM RefsKept == OwnDeletions => (Spec => []RefKept)
<1> SUFFICES ASSUME OwnDeletions PROVE Spec => []RefKept
  OBVIOUS
<1>1. KeptInv => RefKept
  <2> SUFFICES ASSUME KeptInv, NEW t \in Targets, InUse(t) PROVE RefHeld(t)
    BY DEF RefKept
  <2>1. PICK p \in PodNames : t \in pod[p].refs
    BY DEF KeptInv, HeldInv
  <2>2. pod[p].exists
    BY <2>1 DEF KeptInv, DownInv
  <2> QED BY <2>1, <2>2 DEF RefHeld
<1> QED BY <1>1, KeptAlways, PTL

(* Under the same condition the secret of a mount pod is there as long as   *)
(* the pod is used: the two places that delete it delete the pod with it.   *)
THEOREM SecretsKept == OwnDeletions => (Spec => []SecretKept)
<1> SUFFICES ASSUME OwnDeletions PROVE Spec => []SecretKept
  OBVIOUS
<1>1. KeptInv => SecretKept
  BY DEF KeptInv, DownInv, SecretKept
<1> QED BY <1>1, KeptAlways, PTL

=============================================================================
