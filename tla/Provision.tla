----------------------------- MODULE Provision -----------------------------
(***************************************************************************)
(* Dynamic volumes of one storage class: provisionerService.Provision and  *)
(* Delete, the job that removes a volume's directory, and the finalizer    *)
(* that keeps the volume's secret until the directory is removed.          *)
(*                                                                         *)
(* The provision controller (a library) calls Provision for a claim that   *)
(* has no volume and Delete for a released volume, one call per volume at  *)
(* a time and up to Workers calls at once, and calls again after an error. *)
(* One step is one request to the API server, so calls for two volumes     *)
(* interleave between their checks and what they do after them.            *)
(***************************************************************************)
EXTENDS Integers, FiniteSets

CONSTANTS
    Vols,         \* claims, with the volume that is provisioned for each
    Paths,        \* directories of the file system
    Secrets,      \* volume secrets
    PathOf,       \* volume -> its subPath
    SecretOf,     \* volume -> its secret
    PolicyOf,     \* volume -> reclaim policy
    PathPattern,  \* whether the storage class has a pathPattern
    Workers,      \* calls of the provision controller in progress at once
    UserDeletes,  \* whether somebody deletes the secrets
    MaxFail,      \* bound: requests that fail
    MaxPatchFail, \* bound: finalizer patches that fail (the error is only logged)
    MaxTimeout,   \* bound: jobs that are not done after 40 seconds
    MaxJobFail,   \* bound: jobs that fail
    MaxCrash      \* bound: restarts of the controller

(* Without pathPattern the subPath is the volume's name.                    *)
ASSUME VolumeAssumption ==
    /\ PathOf \in [Vols -> Paths] /\ SecretOf \in [Vols -> Secrets]
    /\ PolicyOf \in [Vols -> {"Delete", "Retain"}]
    /\ PathPattern \in BOOLEAN /\ UserDeletes \in BOOLEAN
    /\ ~PathPattern => \A v, w \in Vols : PathOf[v] = PathOf[w] => v = w

ASSUME CallAssumption ==
    /\ Workers \in Nat /\ MaxFail \in Nat /\ MaxPatchFail \in Nat
    /\ MaxTimeout \in Nat /\ MaxJobFail \in Nat /\ MaxCrash \in Nat

VARIABLES
    pv,      \* volume -> state of the claim and its PV object
    data,    \* the directories that exist
    secret,  \* secret -> the secret object
    job,     \* volume -> its "-delvol" job
    rmr,     \* the volumes whose job has a pod that is removing the directory
    call,    \* volume -> the Provision or Delete call for it
    met,     \* history: which calls met another one half-way
    left     \* what is left of the bounds

vars == <<pv, data, secret, job, rmr, call, met, left>>

(* A job is "aged" when it outlived the call that created it.               *)
PVStates  == {"none", "pending", "bound", "released", "terminating", "gone"}
JobStates == {"none", "active", "aged", "complete", "failed"}
Running   == {"active", "aged"}
Secret    == [exists: BOOLEAN, deleting: BOOLEAN, finalizer: BOOLEAN]
CallPCs   == {"idle", "addFinalizer", "store", "getSecret", "createJob", "jobSecret",
              "jobWait", "checkSecret", "removeFinalizer", "deletePV"}

(* finalizer: whether the copy of the secret the call read carries it.      *)
Call     == [pc: CallPCs, finalizer: BOOLEAN]
IdleCall == [pc |-> "idle", finalizer |-> FALSE]

(* dir: volumes stored while their directory was being removed.              *)
(* secret: volumes whose finalizer was taken off while they were being      *)
(* provisioned, or by their own Delete.                                     *)
(* deletes: secrets with two Delete calls at once.                          *)
Met == [dir: SUBSET Vols, secret: SUBSET Vols, deletes: SUBSET Secrets]

Left == [fail: 0..MaxFail, patch: 0..MaxPatchFail, timeout: 0..MaxTimeout,
         job: 0..MaxJobFail, crash: 0..MaxCrash]

TypeOK ==
    /\ pv \in [Vols -> PVStates]
    /\ data \in SUBSET Paths
    /\ secret \in [Secrets -> Secret]
    /\ job \in [Vols -> JobStates]
    /\ rmr \in SUBSET Vols
    /\ call \in [Vols -> Call]
    /\ met \in Met
    /\ left \in Left

Init ==
    /\ pv = [v \in Vols |-> "none"]
    /\ data = {}
    /\ secret = [s \in Secrets |-> [exists |-> TRUE, deleting |-> FALSE, finalizer |-> FALSE]]
    /\ job = [v \in Vols |-> "none"]
    /\ rmr = {}
    /\ call = [v \in Vols |-> IdleCall]
    /\ met = [dir |-> {}, secret |-> {}, deletes |-> {}]
    /\ left = [fail |-> MaxFail, patch |-> MaxPatchFail, timeout |-> MaxTimeout,
               job |-> MaxJobFail, crash |-> MaxCrash]

Goto(v, pc) == call' = [call EXCEPT ![v].pc = pc]
End(v)      == call' = [call EXCEPT ![v] = IdleCall]

FreeWorker == Cardinality({v \in Vols : call[v].pc # "idle"}) < Workers

(* From the look at the other volumes until the pod of the job has ended.   *)
Removing(v) == v \in rmr \/ call[v].pc \in {"getSecret", "createJob", "jobSecret"}

(* Where a call is once it has read the secret in Provision, and in Delete. *)
NewPCs == {"addFinalizer", "store"}
DelPCs == {"getSecret", "createJob", "jobSecret", "jobWait", "checkSecret", "removeFinalizer",
           "deletePV"}

(* The volumes that have the secret of v.                                   *)
Sharing(v) == {w \in Vols : SecretOf[w] = SecretOf[v]}

(* The other PV objects that are not being deleted.                         *)
Others(v) == {w \in Vols \ {v} : pv[w] \in {"bound", "released"}}

-----------------------------------------------------------------------------
(* Provision *)

(* A claim that is refused (selector, read-only without pathPattern) or     *)
(* whose secret is not there stays as it is.                                *)
Provision(v) ==
    LET s == secret[SecretOf[v]] IN
    /\ pv[v] = "pending" /\ call[v].pc = "idle" /\ FreeWorker
    /\ s.exists
    /\ call' = [call EXCEPT ![v] = [pc |-> "addFinalizer", finalizer |-> s.finalizer]]
    /\ met' = [met EXCEPT !.secret = @ \ {v}]
    /\ UNCHANGED <<pv, data, secret, job, rmr, left>>

(* patchSecretFinalizer: a secret that is being deleted takes no new        *)
(* finalizer, and goes away with its last one.                              *)
patchSecretFinalizer(s, on) ==
    secret' = [secret EXCEPT ![s] =
        CASE ~@.exists -> @
          [] @.exists /\ on -> [@ EXCEPT !.finalizer = @ \/ ~secret[s].deleting]
          [] OTHER -> [@ EXCEPT !.finalizer = FALSE, !.exists = ~secret[s].deleting]]

(* The error of the patch is only logged.                                   *)
AddSecretFinalizer(v) ==
    /\ call[v].pc = "addFinalizer"
    /\ Goto(v, "store")
    /\ \/ /\ PolicyOf[v] = "Delete" /\ ~call[v].finalizer
          /\ \/ patchSecretFinalizer(SecretOf[v], TRUE) /\ UNCHANGED left
             \/ /\ left.patch > 0
                /\ left' = [left EXCEPT !.patch = @ - 1]
                /\ UNCHANGED secret
       \/ /\ PolicyOf[v] = "Retain" \/ call[v].finalizer
          /\ UNCHANGED <<secret, left>>
    /\ UNCHANGED <<pv, data, job, rmr, met>>

(* The library stores the returned PV object.                               *)
StoreVolume(v) ==
    /\ call[v].pc = "store"
    /\ pv' = [pv EXCEPT ![v] = "bound"]
    /\ End(v)
    /\ met' = [met EXCEPT
          !.dir = @ \cup {u \in {v} : \E w \in Vols : PathOf[w] = PathOf[v] /\ Removing(w)},
          !.secret = @ \cup {u \in {v} : \E w \in Sharing(v) : call[w].pc = "removeFinalizer"}]
    /\ UNCHANGED <<data, secret, job, rmr, left>>

-----------------------------------------------------------------------------
(* Delete *)

(* Seeded fault: the other volumes are not looked at.                       *)
CheckForSubPathAlways(v) == TRUE

CheckForSubPath(v) ==
    PathPattern => \A w \in Others(v) : PathOf[w] # PathOf[v]

(* A volume that shares its directory is done without further steps.        *)
Delete(v) ==
    /\ pv[v] = "released" /\ call[v].pc = "idle" /\ FreeWorker
    /\ PolicyOf[v] = "Delete"
    /\ Goto(v, IF CheckForSubPath(v) THEN "getSecret" ELSE "deletePV")
    /\ met' = [met EXCEPT !.deletes =
          @ \cup {s \in {SecretOf[v]} : \E w \in Sharing(v) : call[w].pc \in DelPCs}]
    /\ UNCHANGED <<pv, data, secret, job, rmr, left>>

DeleteGetSecret(v) ==
    LET s == secret[SecretOf[v]] IN
    /\ call[v].pc = "getSecret"
    /\ call' = [call EXCEPT ![v] = IF s.exists THEN [pc |-> "createJob", finalizer |-> s.finalizer]
                                   ELSE IdleCall]
    /\ UNCHANGED <<pv, data, secret, job, rmr, met, left>>

(* A job of that name that is still there is used.                          *)
JDeleteVolume(v) ==
    /\ call[v].pc = "createJob"
    /\ job' = [job EXCEPT ![v] = IF @ = "none" THEN "active" ELSE @]
    /\ Goto(v, "jobSecret")
    /\ UNCHANGED <<pv, data, secret, rmr, met, left>>

(* The pod of the job starts once the job's secret is there.                *)
createOrUpdateSecret(v) ==
    /\ call[v].pc = "jobSecret"
    /\ rmr' = IF job[v] \in Running THEN rmr \cup {v} ELSE rmr
    /\ Goto(v, "jobWait")
    /\ UNCHANGED <<pv, data, secret, job, met, left>>

(* Seeded fault: a job that is not there is waited for.                     *)
waitUtilJobCompletedOnly(v) ==
    /\ call[v].pc = "jobWait" /\ job[v] = "complete"
    /\ Goto(v, "checkSecret")
    /\ UNCHANGED <<pv, data, secret, job, rmr, met, left>>

(* A job that is not there (any more) counts as completed.                  *)
waitUtilJobCompleted(v) ==
    /\ call[v].pc = "jobWait" /\ job[v] \in {"none", "complete"}
    /\ Goto(v, "checkSecret")
    /\ UNCHANGED <<pv, data, secret, job, rmr, met, left>>

(* Seeded fault: the error of the wait is lost.                             *)
jobTimeoutIgnored(v) ==
    /\ call[v].pc = "jobWait" /\ job[v] \in Running \cup {"failed"} /\ left.timeout > 0
    /\ left' = [left EXCEPT !.timeout = @ - 1]
    /\ job' = [job EXCEPT ![v] = "none"]
    /\ Goto(v, "checkSecret")
    /\ UNCHANGED <<pv, data, secret, rmr, met>>

(* A job that outlives the call that waited for it.                         *)
Aged(j) == IF j = "active" THEN "aged" ELSE j

(* Not completed after 40 seconds: the job is deleted, in the background,   *)
(* so its pod may go on for a while; the error of DeleteJob is only logged. *)
jobTimeout(v) ==
    /\ call[v].pc = "jobWait" /\ job[v] \in Running \cup {"failed"} /\ left.timeout > 0
    /\ left' = [left EXCEPT !.timeout = @ - 1]
    /\ \/ job' = [job EXCEPT ![v] = "none"]
       \/ job' = [job EXCEPT ![v] = Aged(@)]
    /\ End(v)
    /\ UNCHANGED <<pv, data, secret, rmr, met>>

(* Seeded fault: the secret is taken to belong to one volume.               *)
CheckForSecretFinalizerOwn(v) == TRUE

CheckForSecretFinalizer(v) == \A w \in Others(v) : SecretOf[w] # SecretOf[v]

DeleteCheckSecret(v) ==
    /\ call[v].pc = "checkSecret"
    /\ Goto(v, IF CheckForSecretFinalizer(v) THEN "removeFinalizer" ELSE "deletePV")
    /\ UNCHANGED <<pv, data, secret, job, rmr, met, left>>

(* The finalizer is off for v, and for what is being provisioned.           *)
Unguarded(v) ==
    met' = [met EXCEPT !.secret = @ \cup {v} \cup {w \in Sharing(v) : call[w].pc \in NewPCs}]

(* Seeded fault: the test of the copy is inverted.                          *)
RemoveSecretFinalizerInverted(v) ==
    /\ call[v].pc = "removeFinalizer"
    /\ Goto(v, "deletePV")
    /\ IF ~call[v].finalizer THEN patchSecretFinalizer(SecretOf[v], FALSE) /\ Unguarded(v)
                             ELSE UNCHANGED <<secret, met>>
    /\ UNCHANGED <<pv, data, job, rmr, left>>

(* Nothing is patched when the copy, read before the job, has no finalizer; *)
(* the error of the patch is dropped.                                       *)
RemoveSecretFinalizer(v) ==
    /\ call[v].pc = "removeFinalizer"
    /\ Goto(v, "deletePV")
    /\ \/ /\ call[v].finalizer
          /\ \/ /\ patchSecretFinalizer(SecretOf[v], FALSE)
                /\ Unguarded(v)
                /\ UNCHANGED left
             \/ /\ left.patch > 0
                /\ left' = [left EXCEPT !.patch = @ - 1]
                /\ UNCHANGED <<secret, met>>
       \/ ~call[v].finalizer /\ UNCHANGED <<secret, met, left>>
    /\ UNCHANGED <<pv, data, job, rmr>>

(* Delete has returned nil: the library deletes the PV object.              *)
DeletePV(v) ==
    /\ call[v].pc = "deletePV"
    /\ pv' = [pv EXCEPT ![v] = "terminating"]
    /\ End(v)
    /\ UNCHANGED <<data, secret, job, rmr, met, left>>

(* A request of the call fails; the library calls again later.  An error in *)
(* waitUtilJobCompleted is jobTimeout.                                      *)
Fail(v) ==
    /\ call[v].pc \notin {"idle", "addFinalizer", "jobWait", "removeFinalizer"}
    /\ left.fail > 0
    /\ left' = [left EXCEPT !.fail = @ - 1]
    /\ End(v)
    /\ UNCHANGED <<pv, data, secret, job, rmr, met>>

Crash ==
    /\ left.crash > 0
    /\ left' = [left EXCEPT !.crash = @ - 1]
    /\ call' = [v \in Vols |-> IdleCall]
    /\ job' = [v \in Vols |-> Aged(job[v])]
    /\ UNCHANGED <<pv, data, secret, rmr, met>>

-----------------------------------------------------------------------------
(* The job *)

(* rmr of the directory, when it exists; a pod whose job was deleted may    *)
(* still get there before it is killed.                                     *)
JobRemoves(v) ==
    /\ v \in rmr
    /\ data' = data \ {PathOf[v]}
    /\ rmr' = rmr \ {v}
    /\ job' = [job EXCEPT ![v] = IF @ \in Running THEN "complete" ELSE @]
    /\ UNCHANGED <<pv, secret, call, met, left>>

JobPodKilled(v) ==
    /\ v \in rmr /\ job[v] = "none"
    /\ rmr' = rmr \ {v}
    /\ UNCHANGED <<pv, data, secret, job, call, met, left>>

(* The pod is restarted with a growing delay: the limit is reached after     *)
(* minutes, never within the 40 seconds of the first wait.                  *)
JobFails(v) ==
    /\ v \in rmr /\ job[v] = "aged" /\ left.job > 0
    /\ left' = [left EXCEPT !.job = @ - 1]
    /\ rmr' = rmr \ {v}
    /\ job' = [job EXCEPT ![v] = "failed"]
    /\ UNCHANGED <<pv, data, secret, call, met>>

(* JobController: a finished job that has a completion time and outlived    *)
(* its TTL is deleted.                                                      *)
IsJobShouldBeRecycled(v) == job[v] = "complete"

Reconcile(v) ==
    /\ IsJobShouldBeRecycled(v)
    /\ job' = [job EXCEPT ![v] = "none"]
    /\ UNCHANGED <<pv, data, secret, rmr, call, met, left>>

(* TTLSecondsAfterFinished: Kubernetes removes finished jobs, failed ones   *)
(* too, after five seconds.                                                 *)
JobTTL(v) ==
    /\ job[v] \in {"complete", "failed"}
    /\ job' = [job EXCEPT ![v] = "none"]
    /\ UNCHANGED <<pv, data, secret, rmr, call, met, left>>

-----------------------------------------------------------------------------
(* Users and Kubernetes *)

ClaimStep(v) ==
    /\ \/ pv[v] = "none" /\ pv' = [pv EXCEPT ![v] = "pending"]
       \/ pv[v] = "bound" /\ pv' = [pv EXCEPT ![v] = "released"]
    /\ UNCHANGED <<data, secret, job, rmr, call, met, left>>

(* A retained volume is deleted by hand.                                    *)
RetainedDeleted(v) ==
    /\ pv[v] = "released" /\ PolicyOf[v] = "Retain"
    /\ pv' = [pv EXCEPT ![v] = "terminating"]
    /\ UNCHANGED <<data, secret, job, rmr, call, met, left>>

PVGone(v) ==
    /\ pv[v] = "terminating"
    /\ pv' = [pv EXCEPT ![v] = "gone"]
    /\ UNCHANGED <<data, secret, job, rmr, call, met, left>>

(* An application that uses the volume creates the directory and writes.    *)
AppWrites(v) ==
    /\ pv[v] = "bound"
    /\ data' = data \cup {PathOf[v]}
    /\ UNCHANGED <<pv, secret, job, rmr, call, met, left>>

SecretDeleted(s) ==
    /\ UserDeletes /\ secret[s].exists /\ ~secret[s].deleting
    /\ secret' = [secret EXCEPT ![s] =
                    IF @.finalizer THEN [@ EXCEPT !.deleting = TRUE]
                    ELSE [@ EXCEPT !.exists = FALSE]]
    /\ UNCHANGED <<pv, data, job, rmr, call, met, left>>

-----------------------------------------------------------------------------
CallStep(v) ==
    \/ Provision(v) \/ AddSecretFinalizer(v) \/ StoreVolume(v)
    \/ Delete(v) \/ DeleteGetSecret(v) \/ JDeleteVolume(v) \/ createOrUpdateSecret(v)
    \/ waitUtilJobCompleted(v) \/ DeleteCheckSecret(v) \/ RemoveSecretFinalizer(v)
    \/ DeletePV(v)

JobStep(v) == JobRemoves(v) \/ JobPodKilled(v) \/ JobTTL(v)

Next ==
    \/ \E v \in Vols :
          \/ CallStep(v) \/ jobTimeout(v) \/ Fail(v)
          \/ JobStep(v) \/ JobFails(v) \/ Reconcile(v)
          \/ ClaimStep(v) \/ RetainedDeleted(v) \/ PVGone(v) \/ AppWrites(v)
    \/ \E s \in Secrets : SecretDeleted(s)
    \/ Crash

Spec == Init /\ [][Next]_vars

(* The library calls again until a call succeeds and gives every volume its *)
(* turn; jobs run to their end and are removed.                             *)
Fairness ==
    \A v \in Vols : SF_vars(CallStep(v)) /\ WF_vars(JobStep(v)) /\ WF_vars(PVGone(v))

FairSpec == Spec /\ Fairness

-----------------------------------------------------------------------------
(* Properties *)

(* Delete removes what it should: once the PV object of a volume with       *)
(* reclaim policy Delete is deleted and no other volume uses or retains the *)
(* directory, the directory is gone (Provision and Delete of other volumes, *)
(* job timeouts, retries and restarts in between), as long as no job has    *)
(* failed: waitUtilJobCompleted takes a failed job that is gone for done.   *)
DataDeleted ==
    left.job = MaxJobFail => \A v \in Vols :
        (/\ pv[v] \in {"terminating", "gone"}
         /\ \A w \in Vols : PathOf[w] = PathOf[v] =>
               PolicyOf[w] = "Delete" /\ pv[w] \notin {"bound", "released"})
           => PathOf[v] \notin data

(* A directory that volumes share is removed under a claim that is bound to *)
(* it only when the claim was bound while the directory was being removed,  *)
(* between CheckForSubPath and the end of the job's pod, by a call in       *)
(* progress, or by one that gave up or was cut short and left its job.      *)
DirKept ==
    [][\A v \in Vols :
          (pv[v] = "bound" /\ PathOf[v] \in data /\ PathOf[v] \notin data') => v \in met.dir]_vars

(* What the comment of Delete claims without that condition: the directory   *)
(* is not removed when several volumes have it.                             *)
SharedDirKept ==
    [][\A v \in Vols :
          (pv[v] = "bound" /\ PathOf[v] \in data) => PathOf[v] \in data']_vars

(* What the finalizer is for: the secret of a volume that is in use, or     *)
(* that is still to be deleted, carries it, however Provision and Delete of *)
(* the volumes with that secret interleave; unless adding it failed, or     *)
(* Delete of another volume took it off between the Provision call's read   *)
(* of the secret and the PV object (AddSecretFinalizer trusts its copy,     *)
(* CheckForSecretFinalizer does not see what is being provisioned).         *)
FinalizerKept ==
    left.patch = MaxPatchFail => \A v \in Vols :
        (/\ pv[v] \in {"bound", "released"} /\ PolicyOf[v] = "Delete"
         /\ v \notin met.secret /\ secret[SecretOf[v]].exists)
           => secret[SecretOf[v]].finalizer

(* A finalizer is not left behind: when the PV objects of all volumes with  *)
(* a secret are deleted it is off the secret.  Excepted: two Delete calls   *)
(* at once (each sees the other's PV object and leaves it on), a patch that *)
(* failed, and volumes that Delete is done with before it gets there:       *)
(* retained ones, and ones that share a directory across secrets.           *)
SecretReleased ==
    left.patch = MaxPatchFail => \A s \in Secrets \ met.deletes :
        (\A v \in Vols : SecretOf[v] = s =>
            /\ PolicyOf[v] = "Delete" /\ pv[v] \in {"none", "terminating", "gone"}
            /\ \A w \in Vols : PathOf[w] = PathOf[v] => SecretOf[w] = s)
           => ~secret[s].finalizer

(* A released volume with reclaim policy Delete is deleted in the end.      *)
ReleasedGone ==
    \A v \in Vols : (pv[v] = "released" /\ PolicyOf[v] = "Delete") ~> pv[v] = "gone"

=============================================================================
