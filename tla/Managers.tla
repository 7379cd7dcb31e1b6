------------------------------ MODULE Managers ------------------------------
(***************************************************************************)
(* The managers of the CSI controller and of a CSI node together:          *)
(* MountController and SecretController live and restart in one process,   *)
(* the CSI controller; PodController lives in the CSI node.                *)
(***************************************************************************)
EXTENDS MountWatch, SecretRefresh

CONSTANT Budgets   \* the bounds of the two parts: records [watch, refresh, restart]

VARIABLE restarts  \* restarts of the CSI controller that are left

vars == <<watchVars, refreshVars, restarts>>

Init == \E b \in Budgets : WatchInit(b.watch) /\ RefreshInit(b.refresh) /\ restarts = b.restart

ControllerRestarts ==
    /\ restarts > 0 /\ restarts' = restarts - 1
    /\ MountRestarts /\ RefreshRestarts

Next ==
    \/ WatchNext /\ UNCHANGED <<refreshVars, restarts>>
    \/ RefreshNext /\ UNCHANGED <<watchVars, restarts>>
    \/ ControllerRestarts

Spec     == Init /\ [][Next]_vars
FairSpec == Spec /\ WatchFairness /\ RefreshFairness

-----------------------------------------------------------------------------
(* PodController takes a reference off a mount pod only when the            *)
(* application's pod is gone, not while it is being published or deleted,   *)
(* and deletes a mount pod only when nobody refers to it, however its       *)
(* copies of pod and list have aged (setMountLabel before createOrAddRef,   *)
(* the pod read before the list, the checks of checkAnnotations).           *)
DropsOnlyGone ==
    [][podW' # podW =>
        /\ podW.pc = "annotations" => \A a \in mountPod.refs \ mountPod'.refs : appPods[a] = "gone"
        /\ podW.pc = "delete" /\ mountPod' # mountPod => mountPod.refs = {}]_vars

(* A mount pod that is not deleted keeps its finalizer: without it the next *)
(* deletion would go unnoticed and its references be lost.  The exceptions: *)
(* podErrorHandler or podPendingHandler is about to delete the pod, or has  *)
(* failed or was stopped before it did; or the pod was created while a      *)
(* controller, which removes finalizers by the name of the pod, was between *)
(* its look at the old pod of that name and its patch.                      *)
LiveProtected ==
    mountPod.state = "live" => mountPod.fin \/ podW.pc = "resDelete" \/ bared \/ crossed

(* The ways in which a deleted mount pod stays: MountController left it to  *)
(* a CSI node pod that has gone since; PodController does not find the      *)
(* claim of the volume any more; a handler of PodController waits, without  *)
(* an end and with the pod lock, for the deletion of a pod whose finalizer  *)
(* only PodController would take: podDeletedHandler for a pod that was      *)
(* created in the meantime, podErrorHandler and podPendingHandler for one   *)
(* whose finalizer they failed to remove.                                   *)
LeftToNobody   == csi = "none" /\ passed /\ ~mountQ /\ mountW = MountIdle
WithoutClaim   == csi # "none" /\ pv # "claimed"
WaitsForOwn    == podW.pc = "wait" /\ mountPod.fin
WaitsUnpatched == podW.pc = "resWait" /\ mountPod.fin
Left           == LeftToNobody \/ WithoutClaim \/ WaitsForOwn \/ WaitsUnpatched

(* A deleted mount pod goes, or is left in one of these four ways: by one   *)
(* controller or the other, although each is only told of changes, requests *)
(* fail and both services restart.                                          *)
Collected == Deleting(mountPod) ~> (~Deleting(mountPod) \/ Left)

(* The configuration that fits the secret.                                  *)
Current == [token |-> secret.token, key |-> AuthKey(secret), issue |-> issued]

(* The configuration in a secret the console accepts becomes the one the    *)
(* console hands out now, also after it has changed without any change of   *)
(* the secret, in spite of conflicts, failing commands and restarts         *)
(* (RequeueAfter).                                                          *)
ConfFresh == secret.token \in Valid ~> (secret.conf = Current \/ secret.token \notin Valid)

Part   == [token |-> secret.token, key |-> secret.key, legacy |-> secret.legacy]
Names  == Keys \cup {"none"}
Atomic == INSTANCE RefreshedSecret WITH
            Users <- [token: Tokens, key: Names, legacy: Names], NoUser <- NoSecret, NoConf <- NoConf,
            user <- IF secret = NoSecret THEN NoSecret ELSE Part,
            writes <- written, issued <- issued, conf <- secret.conf

(* Reading the secret, running the auth command and writing the secret back *)
(* implement one atomic step: what a user wrote meanwhile is never undone,  *)
(* and the configuration is always one for what the secret holds            *)
(* (UpdateSecret with the resource version that was read).                  *)
RefreshesAtomically == Atomic!Spec

=============================================================================
