-------------------------- MODULE ProvisionProofs --------------------------
(***************************************************************************)
(* Directories and secrets of dynamic volumes, for any number of volumes,  *)
(* calls at once, failures, timeouts and restarts: what Delete removes     *)
(* when no two volumes have the same directory, and what interleaved calls *)
(* do to the directories and secrets that volumes share.                   *)
(***************************************************************************)
EXTENDS Provision, TLAPS

(* Without pathPattern, and with one that tells the volumes apart.          *)
OwnPaths == \A v, w \in Vols : PathOf[v] = PathOf[w] => v = w

DonePCs == {"checkSecret", "removeFinalizer", "deletePV"}
JobPCs  == {"jobSecret", "jobWait"}
Used    == {"bound", "released"}
Over    == {"terminating", "gone"}

(* A call is for a volume in the state that asked for it; a job and its pod *)
(* are for a volume that nobody uses any more.                              *)
CallInv(v) ==
    /\ call[v].pc \in DelPCs => pv[v] = "released" /\ PolicyOf[v] = "Delete"
    /\ call[v].pc \in NewPCs => pv[v] = "pending"
    /\ job[v] # "none" \/ v \in rmr => pv[v] \in {"released"} \cup Over

(* Unless a job failed: when the job is done, the directory is not there.   *)
(* A job that is not there any more was done when the call created it or    *)
(* found it, and still waits for it.                                        *)
Removed(v) ==
    \/ job[v] = "complete"
    \/ call[v].pc \in DonePCs
    \/ call[v].pc \in JobPCs /\ job[v] = "none"
    \/ pv[v] \in Over /\ PolicyOf[v] = "Delete"

DataInv(v) ==
    left.job = MaxJobFail => job[v] # "failed" /\ (Removed(v) => PathOf[v] \notin data)

CallsInv == TypeOK /\ \A v \in Vols : CallInv(v)
OwnInv   == \A v \in Vols : DataInv(v)

-----------------------------------------------------------------------------
(* Shared directories and secrets *)

(* Who has the directory that is being removed came while that was going on. *)
DirInv(v) == Removing(v) => \A w \in Others(v) : PathOf[w] = PathOf[v] => w \in met.dir

SharedDirInv == \A v \in Vols : DirInv(v)

(* Only a secret with a finalizer is being deleted, and none is kept by a   *)
(* secret that is gone.                                                     *)
SecretInv ==
    \A s \in Secrets : /\ secret[s].exists /\ secret[s].deleting => secret[s].finalizer
                       /\ secret[s].finalizer => secret[s].exists

(* The call has made sure of the finalizer, or its volume needs it.         *)
Needs(v) == call[v].pc = "store" \/ pv[v] \in Used

(* Who has the secret that Delete found to be its own came later; a copy    *)
(* with the finalizer is right, and what needs it has it.                   *)
GuardInv(v) ==
    /\ call[v].pc = "removeFinalizer" =>
          \A w \in Others(v) : SecretOf[w] = SecretOf[v] => w \in met.secret
    /\ (v \notin met.secret /\ secret[SecretOf[v]].exists) =>
          /\ call[v].pc = "addFinalizer" /\ call[v].finalizer => secret[SecretOf[v]].finalizer
          /\ left.patch = MaxPatchFail /\ PolicyOf[v] = "Delete" /\ Needs(v)
                => secret[SecretOf[v]].finalizer

GuardsInv == SecretInv /\ \A v \in Vols : GuardInv(v)

-----------------------------------------------------------------------------
(* Types *)

(* The table of calls after a call has moved.                               *)
At(v, pc) == call' \in [Vols -> Call] /\ call'[v].pc = pc /\ \A w \in Vols \ {v} : call'[w] = call[w]

(* A call that moves on is at its new label and keeps what it has read. *)
LEMMA CallGoes ==
    ASSUME TypeOK, NEW v \in Vols, NEW pc \in CallPCs, Goto(v, pc)
    PROVE  At(v, pc)
BY DEF TypeOK, Call, Goto, At

(* A call that returns is idle. *)
LEMMA CallEnds ==
    ASSUME TypeOK, NEW v \in Vols, End(v)
    PROVE  At(v, "idle")
BY DEF TypeOK, Call, CallPCs, IdleCall, End, At

(* A call assigned as a whole is at the label assigned. *)
LEMMA CallSets ==
    ASSUME TypeOK, NEW v \in Vols, NEW pc \in CallPCs, NEW f \in BOOLEAN,
           call' = [call EXCEPT ![v] = [pc |-> pc, finalizer |-> f]]
    PROVE  At(v, pc)
BY DEF TypeOK, Call, At

(* The place of a call after each of its steps.                             *)
LEMMA CallMoves ==
    ASSUME TypeOK, NEW v \in Vols
    PROVE  /\ Provision(v) => At(v, "addFinalizer")
           /\ AddSecretFinalizer(v) => At(v, "store")
           /\ StoreVolume(v) \/ DeletePV(v) \/ jobTimeout(v) \/ Fail(v) => At(v, "idle")
           /\ Delete(v) => At(v, IF CheckForSubPath(v) THEN "getSecret" ELSE "deletePV")
           /\ DeleteGetSecret(v) => At(v, "createJob") \/ At(v, "idle")
           /\ JDeleteVolume(v) => At(v, "jobSecret")
           /\ createOrUpdateSecret(v) => At(v, "jobWait")
           /\ waitUtilJobCompleted(v) => At(v, "checkSecret")
           /\ DeleteCheckSecret(v) => At(v, IF CheckForSecretFinalizer(v) THEN "removeFinalizer" ELSE "deletePV")
           /\ RemoveSecretFinalizer(v) => At(v, "deletePV")
<1>a. /\ SecretOf[v] \in Secrets /\ secret[SecretOf[v]] \in Secret
      /\ secret[SecretOf[v]].finalizer \in BOOLEAN
  BY VolumeAssumption DEF TypeOK, Secret
<1>b. \A pc \in CallPCs : Goto(v, pc) => At(v, pc)
  BY CallGoes
<1>1. Provision(v) => At(v, "addFinalizer")
  <2>1. "addFinalizer" \in CallPCs
    BY DEF CallPCs
  <2> QED BY <1>a, <2>1, CallSets DEF Provision
<1>2. DeleteGetSecret(v) => At(v, "createJob") \/ At(v, "idle")
  <2>1. "createJob" \in CallPCs
    BY DEF CallPCs
  <2>2. DeleteGetSecret(v) /\ secret[SecretOf[v]].exists => At(v, "createJob")
    BY <1>a, <2>1, CallSets DEF DeleteGetSecret
  <2>3. DeleteGetSecret(v) /\ ~secret[SecretOf[v]].exists => At(v, "idle")
    BY CallEnds DEF DeleteGetSecret, End
  <2> QED BY <2>2, <2>3
<1>3. StoreVolume(v) \/ DeletePV(v) \/ jobTimeout(v) \/ Fail(v) => At(v, "idle")
  BY CallEnds DEF StoreVolume, DeletePV, jobTimeout, Fail
<1>4. Delete(v) => At(v, IF CheckForSubPath(v) THEN "getSecret" ELSE "deletePV")
  BY <1>b DEF Delete, CallPCs
<1>5. DeleteCheckSecret(v) => At(v, IF CheckForSecretFinalizer(v) THEN "removeFinalizer" ELSE "deletePV")
  BY <1>b DEF DeleteCheckSecret, CallPCs
<1>6. /\ AddSecretFinalizer(v) => At(v, "store")
      /\ JDeleteVolume(v) => At(v, "jobSecret")
      /\ createOrUpdateSecret(v) => At(v, "jobWait")
      /\ waitUtilJobCompleted(v) => At(v, "checkSecret")
      /\ RemoveSecretFinalizer(v) => At(v, "deletePV")
  BY <1>b DEF AddSecretFinalizer, JDeleteVolume, createOrUpdateSecret, waitUtilJobCompleted,
              RemoveSecretFinalizer, CallPCs
<1> QED BY <1>1, <1>2, <1>3, <1>4, <1>5, <1>6

(* A patch of the finalizer, or the deletion by a user, gives a secret.     *)
LEMMA PatchType ==
    ASSUME TypeOK, NEW s \in Secrets, NEW on \in BOOLEAN, patchSecretFinalizer(s, on)
    PROVE  secret' \in [Secrets -> Secret]
BY DEF TypeOK, Secret, patchSecretFinalizer

(* A secret that is deleted, or marked for it, is still a secret. *)
LEMMA DeletedType ==
    ASSUME TypeOK, NEW s \in Secrets, SecretDeleted(s)
    PROVE  secret' \in [Secrets -> Secret]
BY DEF TypeOK, Secret, SecretDeleted

(* What the steps that meet other calls add to the history.                 *)
LEMMA MetSteps ==
    ASSUME TypeOK, NEW v \in Vols
    PROVE  /\ Provision(v) => /\ met' \in Met /\ met'.dir = met.dir /\ met'.deletes = met.deletes
                              /\ met'.secret = met.secret \ {v}
           /\ StoreVolume(v) => /\ met' \in Met /\ met.dir \subseteq met'.dir
                                /\ met.secret \subseteq met'.secret /\ met'.deletes = met.deletes
                                /\ \A w \in Vols : PathOf[w] = PathOf[v] /\ Removing(w) => v \in met'.dir
                                /\ \A w \in Vols : SecretOf[w] = SecretOf[v] /\ call[w].pc = "removeFinalizer"
                                      => v \in met'.secret
           /\ Delete(v) => /\ met' \in Met /\ met'.dir = met.dir /\ met'.secret = met.secret
                           /\ met.deletes \subseteq met'.deletes
                           /\ \A w \in Vols : SecretOf[w] = SecretOf[v] /\ call[w].pc \in DelPCs
                                 => SecretOf[v] \in met'.deletes
           /\ Unguarded(v) => /\ met' \in Met /\ met'.dir = met.dir /\ met'.deletes = met.deletes
                              /\ met.secret \subseteq met'.secret /\ v \in met'.secret
                              /\ \A w \in Vols : SecretOf[w] = SecretOf[v] /\ call[w].pc \in NewPCs
                                    => w \in met'.secret
<1>a. /\ met \in Met /\ SecretOf[v] \in Secrets
  BY VolumeAssumption DEF TypeOK
<1> DEFINE dirs == {u \in {v} : \E w \in Vols : PathOf[w] = PathOf[v] /\ Removing(w)}
           guards == {u \in {v} : \E w \in Sharing(v) : call[w].pc = "removeFinalizer"}
           dels == {s \in {SecretOf[v]} : \E w \in Sharing(v) : call[w].pc \in DelPCs}
           news == {v} \cup {w \in Sharing(v) : call[w].pc \in NewPCs}
<1>b. /\ dirs \subseteq Vols /\ guards \subseteq Vols /\ dels \subseteq Secrets /\ news \subseteq Vols
  BY <1>a DEF Sharing
<1>c. /\ \A w \in Vols : PathOf[w] = PathOf[v] /\ Removing(w) => v \in dirs
      /\ \A w \in Vols : SecretOf[w] = SecretOf[v] /\ call[w].pc = "removeFinalizer" => v \in guards
      /\ \A w \in Vols : SecretOf[w] = SecretOf[v] /\ call[w].pc \in DelPCs => SecretOf[v] \in dels
      /\ \A w \in Vols : SecretOf[w] = SecretOf[v] /\ call[w].pc \in NewPCs => w \in news
      /\ v \in news
  BY DEF Sharing
<1>d. /\ StoreVolume(v) => met' = [met EXCEPT !.dir = @ \cup dirs, !.secret = @ \cup guards]
      /\ Delete(v) => met' = [met EXCEPT !.deletes = @ \cup dels]
  BY DEF StoreVolume, Delete
<1>e. Unguarded(v) => met' = [met EXCEPT !.secret = @ \cup news]
  <2>1. Unguarded(v) => met' = [met EXCEPT !.secret = @ \cup {v} \cup {w \in Sharing(v) : call[w].pc \in NewPCs}]
    BY DEF Unguarded
  <2>2. \A A, B, C : (A \cup B) \cup C = A \cup (B \cup C)
    OBVIOUS
  <2> QED BY <2>1, <2>2
<1> HIDE DEF dirs, guards, dels, news
<1>1. Provision(v) => /\ met' \in Met /\ met'.dir = met.dir /\ met'.deletes = met.deletes
                      /\ met'.secret = met.secret \ {v}
  BY <1>a DEF Provision, Met
<1>2. StoreVolume(v) => met' \in Met /\ met'.dir = met.dir \cup dirs /\ met'.secret = met.secret \cup guards
                        /\ met'.deletes = met.deletes
  BY <1>a, <1>b, <1>d DEF Met
<1>3. Delete(v) => met' \in Met /\ met'.dir = met.dir /\ met'.secret = met.secret
                   /\ met'.deletes = met.deletes \cup dels
  BY <1>a, <1>b, <1>d DEF Met
<1>4. Unguarded(v) => met' \in Met /\ met'.dir = met.dir /\ met'.secret = met.secret \cup news
                      /\ met'.deletes = met.deletes
  BY <1>a, <1>b, <1>e DEF Met
<1>5. StoreVolume(v) =>
         /\ met' \in Met /\ met.dir \subseteq met'.dir
         /\ met.secret \subseteq met'.secret /\ met'.deletes = met.deletes
         /\ \A w \in Vols : PathOf[w] = PathOf[v] /\ Removing(w) => v \in met'.dir
         /\ \A w \in Vols : SecretOf[w] = SecretOf[v] /\ call[w].pc = "removeFinalizer" => v \in met'.secret
  BY <1>2, <1>c
<1>6. Delete(v) =>
         /\ met' \in Met /\ met'.dir = met.dir /\ met'.secret = met.secret
         /\ met.deletes \subseteq met'.deletes
         /\ \A w \in Vols : SecretOf[w] = SecretOf[v] /\ call[w].pc \in DelPCs => SecretOf[v] \in met'.deletes
  BY <1>3, <1>c
<1>7. Unguarded(v) =>
         /\ met' \in Met /\ met'.dir = met.dir /\ met'.deletes = met.deletes
         /\ met.secret \subseteq met'.secret /\ v \in met'.secret
         /\ \A w \in Vols : SecretOf[w] = SecretOf[v] /\ call[w].pc \in NewPCs => w \in met'.secret
  BY <1>4, <1>c
<1> QED BY <1>1, <1>5, <1>6, <1>7

(* What is left of a bound.                                                 *)
LEMMA LeftType ==
    ASSUME TypeOK
    PROVE  /\ left.patch > 0 /\ left' = [left EXCEPT !.patch = @ - 1] => left' \in Left /\ left'.job = left.job
           /\ left.timeout > 0 /\ left' = [left EXCEPT !.timeout = @ - 1] => left' \in Left /\ left'.job = left.job
           /\ left.fail > 0 /\ left' = [left EXCEPT !.fail = @ - 1] => left' \in Left /\ left'.job = left.job
           /\ left.crash > 0 /\ left' = [left EXCEPT !.crash = @ - 1] => left' \in Left /\ left'.job = left.job
           /\ left.job > 0 /\ left' = [left EXCEPT !.job = @ - 1] => left' \in Left /\ left'.job < left.job
BY CallAssumption DEF TypeOK, Left

(* Which calls of the provision controller change which tables.             *)
LEMMA CallTypes ==
    ASSUME TypeOK, NEW v \in Vols, CallStep(v) \/ jobTimeout(v) \/ Fail(v)
    PROVE  TypeOK'
<1>a. SecretOf[v] \in Secrets
  BY VolumeAssumption
<1>1. call' \in [Vols -> Call]
  BY CallMoves DEF CallStep, At
<1>2. secret' \in [Secrets -> Secret]
  BY <1>a, PatchType DEF TypeOK, CallStep, jobTimeout, Fail, Provision, AddSecretFinalizer, StoreVolume, Delete,
     DeleteGetSecret, JDeleteVolume, createOrUpdateSecret, waitUtilJobCompleted, DeleteCheckSecret,
     RemoveSecretFinalizer, DeletePV
<1>3. left' \in Left
  BY LeftType DEF TypeOK, CallStep, jobTimeout, Fail, Provision, AddSecretFinalizer, StoreVolume, Delete,
     DeleteGetSecret, JDeleteVolume, createOrUpdateSecret, waitUtilJobCompleted, DeleteCheckSecret,
     RemoveSecretFinalizer, DeletePV
<1>4. /\ pv' \in [Vols -> PVStates] /\ job' \in [Vols -> JobStates] /\ rmr' \in SUBSET Vols
      /\ data' \in SUBSET Paths
  BY DEF TypeOK, CallStep, jobTimeout, Fail, Provision, AddSecretFinalizer, StoreVolume, Delete,
     DeleteGetSecret, JDeleteVolume, createOrUpdateSecret, waitUtilJobCompleted, DeleteCheckSecret,
     RemoveSecretFinalizer, DeletePV, PVStates, JobStates, Running, Aged
<1>5. met' \in Met
  BY MetSteps DEF TypeOK, CallStep, jobTimeout, Fail, AddSecretFinalizer,
     DeleteGetSecret, JDeleteVolume, createOrUpdateSecret, waitUtilJobCompleted, DeleteCheckSecret,
     RemoveSecretFinalizer, DeletePV
<1> QED BY <1>1, <1>2, <1>3, <1>4, <1>5 DEF TypeOK

(* The steps of the delete job keep the types. *)
LEMMA JobTypes ==
    ASSUME TypeOK, NEW v \in Vols, JobStep(v) \/ JobFails(v) \/ Reconcile(v)
    PROVE  TypeOK'
<1>1. left' \in Left
  BY LeftType DEF TypeOK, JobStep, JobRemoves, JobPodKilled, JobTTL, JobFails, Reconcile
<1>2. job' \in [Vols -> JobStates]
  BY DEF TypeOK, JobStep, JobRemoves, JobPodKilled, JobTTL, JobFails, Reconcile, JobStates, Running
<1> QED BY <1>1, <1>2 DEF TypeOK, JobStep, JobRemoves, JobPodKilled, JobTTL, JobFails, Reconcile

(* The steps of users, applications and the volume controller keep the types. *)
LEMMA UserTypes ==
    ASSUME TypeOK, NEW v \in Vols, ClaimStep(v) \/ RetainedDeleted(v) \/ PVGone(v) \/ AppWrites(v)
    PROVE  TypeOK'
<1>1. pv' \in [Vols -> PVStates]
  BY DEF TypeOK, ClaimStep, RetainedDeleted, PVGone, AppWrites, PVStates
<1>2. data' \in SUBSET Paths
  BY VolumeAssumption DEF TypeOK, ClaimStep, RetainedDeleted, PVGone, AppWrites
<1> QED BY <1>1, <1>2 DEF TypeOK, ClaimStep, RetainedDeleted, PVGone, AppWrites

(* After a crash no call is under way.                                      *)
LEMMA CrashEffect ==
    ASSUME TypeOK, Crash
    PROVE  /\ TypeOK'
           /\ \A v \in Vols : call'[v].pc = "idle" /\ job'[v] = Aged(job[v])
           /\ left'.job = left.job
<1>1. call' \in [Vols -> Call] /\ \A v \in Vols : call'[v].pc = "idle"
  BY DEF Crash, Call, CallPCs, IdleCall
<1>2. job' \in [Vols -> JobStates] /\ \A v \in Vols : job'[v] = Aged(job[v])
  BY DEF TypeOK, Crash, JobStates, Aged
<1>3. left' \in Left /\ left'.job = left.job
  BY LeftType DEF Crash
<1> QED BY <1>1, <1>2, <1>3 DEF TypeOK, Crash

(* Every step keeps the types. *)
LEMMA TypeStep == TypeOK /\ [Next]_vars => TypeOK'
<1> SUFFICES ASSUME TypeOK, [Next]_vars PROVE TypeOK'
  OBVIOUS
<1>1. ASSUME NEW s \in Secrets, SecretDeleted(s) PROVE TypeOK'
  <2>1. secret' \in [Secrets -> Secret]
    BY <1>1, DeletedType
  <2> QED BY <1>1, <2>1 DEF TypeOK, SecretDeleted
<1>2. CASE UNCHANGED vars
  BY <1>2 DEF TypeOK, vars
<1> QED BY <1>1, <1>2, CallTypes, JobTypes, UserTypes, CrashEffect DEF Next

(* The initial state has the types. *)
LEMMA InitType == Init => TypeOK
<1> SUFFICES ASSUME Init PROVE TypeOK
  OBVIOUS
<1>1. left \in Left
  BY CallAssumption DEF Init, Left
<1>2. secret \in [Secrets -> Secret] /\ call \in [Vols -> Call]
  BY DEF Init, Secret, Call, CallPCs, IdleCall
<1>3. met \in Met
  BY DEF Init, Met
<1> QED BY <1>1, <1>2, <1>3 DEF Init, TypeOK, PVStates, JobStates

(* Type correctness of the provisioner, the jobs and the secrets.           *)
THEOREM TypeCorrect == Spec => []TypeOK
BY InitType, TypeStep, PTL DEF Spec

-----------------------------------------------------------------------------
(* Calls and jobs *)

(* A step that concerns one volume only.                                    *)
Local(v) ==
    \A w \in Vols \ {v} : UNCHANGED <<call[w], pv[w], job[w]>> /\ (w \in rmr' <=> w \in rmr)

VolStep(v) ==
    \/ CallStep(v) \/ jobTimeout(v) \/ Fail(v)
    \/ JobStep(v) \/ JobFails(v) \/ Reconcile(v)
    \/ ClaimStep(v) \/ RetainedDeleted(v) \/ PVGone(v) \/ AppWrites(v)

(* A step of one volume leaves call, job, claim and PV of the others alone. *)
LEMMA VolStepLocal ==
    ASSUME TypeOK, NEW v \in Vols, VolStep(v)
    PROVE  Local(v)
<1>1. CASE CallStep(v) \/ jobTimeout(v) \/ Fail(v)
  <2>1. \A w \in Vols \ {v} : call'[w] = call[w]
    BY <1>1, CallMoves DEF CallStep, At
  <2>2. \A w \in Vols \ {v} : UNCHANGED <<pv[w], job[w]>> /\ (w \in rmr' <=> w \in rmr)
    BY <1>1 DEF TypeOK, CallStep, jobTimeout, Fail, Provision, AddSecretFinalizer, StoreVolume, Delete,
       DeleteGetSecret, JDeleteVolume, createOrUpdateSecret, waitUtilJobCompleted, DeleteCheckSecret,
       RemoveSecretFinalizer, DeletePV
  <2> QED BY <2>1, <2>2 DEF Local
<1>2. CASE JobStep(v) \/ JobFails(v) \/ Reconcile(v)
  BY <1>2 DEF TypeOK, Local, JobStep, JobRemoves, JobPodKilled, JobTTL, JobFails, Reconcile
<1>3. CASE ClaimStep(v) \/ RetainedDeleted(v) \/ PVGone(v) \/ AppWrites(v)
  BY <1>3 DEF TypeOK, Local, ClaimStep, RetainedDeleted, PVGone, AppWrites
<1> QED BY <1>1, <1>2, <1>3 DEF VolStep

(* A step is one of a volume, the deletion of a secret or a crash. *)
LEMMA StepCases ==
    ASSUME Next
    PROVE  \/ \E v \in Vols : VolStep(v)
           \/ \E s \in Secrets : SecretDeleted(s)
           \/ Crash
BY DEF Next, VolStep

(* A step of a volume keeps what its own call relies on. *)
LEMMA CallInvOwn ==
    ASSUME TypeOK, NEW v \in Vols, CallInv(v), VolStep(v)
    PROVE  CallInv(v)'
<1> USE DEF CallInv, NewPCs, DelPCs, DonePCs, JobPCs, Over
<1>a. /\ pv \in [Vols -> PVStates] /\ job \in [Vols -> JobStates] /\ call[v] \in Call
      /\ call[v].pc \in CallPCs
  BY DEF TypeOK, Call
<1>1. CASE Provision(v)
  BY <1>a, <1>1, CallMoves DEF Provision, At
<1>2. CASE AddSecretFinalizer(v)
  BY <1>a, <1>2, CallMoves DEF AddSecretFinalizer, At
<1>3. CASE StoreVolume(v)
  <2>1. At(v, "idle")
    BY <1>3, CallMoves
  <2> QED BY <1>a, <1>3, <2>1 DEF StoreVolume, At
<1>4. CASE Delete(v)
  <2>1. At(v, "getSecret") \/ At(v, "deletePV")
    BY <1>4, CallMoves
  <2> QED BY <1>a, <1>4, <2>1 DEF Delete, At
<1>5. CASE DeleteGetSecret(v)
  BY <1>a, <1>5, CallMoves DEF DeleteGetSecret, At
<1>6. CASE JDeleteVolume(v)
  <2>1. At(v, "jobSecret")
    BY <1>6, CallMoves
  <2> QED BY <1>a, <1>6, <2>1 DEF JDeleteVolume, At
<1>7. CASE createOrUpdateSecret(v)
  <2>1. At(v, "jobWait")
    BY <1>7, CallMoves
  <2> QED BY <1>a, <1>7, <2>1 DEF createOrUpdateSecret, At
<1>8. CASE waitUtilJobCompleted(v)
  BY <1>a, <1>8, CallMoves DEF waitUtilJobCompleted, At
<1>9. CASE DeleteCheckSecret(v)
  <2>1. At(v, "removeFinalizer") \/ At(v, "deletePV")
    BY <1>9, CallMoves
  <2> QED BY <1>a, <1>9, <2>1 DEF DeleteCheckSecret, At
<1>10. CASE RemoveSecretFinalizer(v)
  BY <1>a, <1>10, CallMoves DEF RemoveSecretFinalizer, At
<1>11. CASE DeletePV(v)
  <2>1. At(v, "idle")
    BY <1>11, CallMoves
  <2> QED BY <1>a, <1>11, <2>1 DEF DeletePV, At
<1>12. CASE jobTimeout(v)
  <2>1. At(v, "idle")
    BY <1>12, CallMoves
  <2> QED BY <1>a, <1>12, <2>1 DEF jobTimeout, At, Aged, Running
<1>13. CASE Fail(v)
  <2>1. At(v, "idle")
    BY <1>13, CallMoves
  <2> QED BY <1>a, <1>13, <2>1 DEF Fail, At
<1>14. CASE JobStep(v) \/ JobFails(v) \/ Reconcile(v)
  BY <1>a, <1>14 DEF JobStep, JobRemoves, JobPodKilled, JobTTL, JobFails, Reconcile, Running,
     IsJobShouldBeRecycled
<1>15. CASE ClaimStep(v) \/ PVGone(v) \/ AppWrites(v)
  BY <1>a, <1>15 DEF ClaimStep, PVGone, AppWrites
<1>16. CASE RetainedDeleted(v)
  BY <1>a, <1>16 DEF RetainedDeleted
<1> QED BY <1>1, <1>2, <1>3, <1>4, <1>5, <1>6, <1>7, <1>8, <1>9, <1>10, <1>11, <1>12, <1>13, <1>14,
           <1>15, <1>16 DEF VolStep, CallStep

(* Every step keeps what the calls rely on. *)
LEMMA CallsStep == CallsInv /\ [Next]_vars => CallsInv'
<1> SUFFICES ASSUME CallsInv, [Next]_vars PROVE CallsInv'
  OBVIOUS
<1>a. TypeOK /\ TypeOK'
  BY TypeStep DEF CallsInv
<1> SUFFICES ASSUME NEW w \in Vols PROVE CallInv(w)'
  BY <1>a DEF CallsInv
<1>b. CallInv(w)
  BY DEF CallsInv
<1>1. ASSUME NEW v \in Vols, VolStep(v) PROVE CallInv(w)'
  <2>1. CASE w = v
    BY <1>a, <1>b, <1>1, <2>1, CallInvOwn
  <2>2. CASE w # v
    BY <1>a, <1>b, <1>1, <2>2, VolStepLocal DEF Local, CallInv
  <2> QED BY <2>1, <2>2
<1>2. CASE Crash
  BY <1>a, <1>b, <1>2, CrashEffect DEF Crash, CallInv, Aged, NewPCs, DelPCs, DonePCs, JobPCs
<1>3. ASSUME NEW s \in Secrets, SecretDeleted(s) PROVE CallInv(w)'
  BY <1>b, <1>3 DEF SecretDeleted, CallInv
<1>4. CASE UNCHANGED vars
  BY <1>b, <1>4 DEF vars, CallInv
<1> QED BY <1>1, <1>2, <1>3, <1>4, StepCases

(* The calls find what they rely on in every reachable state. *)
LEMMA CallsAlways == Spec => []CallsInv
<1>1. Init => CallsInv
  <2>1. Init => \A v \in Vols : CallInv(v)
    BY DEF Init, CallInv, IdleCall, NewPCs, DelPCs, DonePCs, JobPCs
  <2> QED BY <2>1, InitType DEF CallsInv
<1> QED BY <1>1, CallsStep, PTL DEF Spec

-----------------------------------------------------------------------------
(* Directories of their own *)

(* Job failures are only counted when they happen.                          *)
LEMMA JobFailures ==
    ASSUME TypeOK, TypeOK', [Next]_vars, left'.job = MaxJobFail
    PROVE  left.job = MaxJobFail /\ \A v \in Vols : ~JobFails(v)
<1>a. left.job \in 0..MaxJobFail /\ MaxJobFail \in Nat /\ left'.job = MaxJobFail
  BY CallAssumption DEF TypeOK, Left
<1>1. UNCHANGED left \/ left'.job = left.job \/ left'.job < left.job
  <2>1. ASSUME NEW v \in Vols, VolStep(v) PROVE UNCHANGED left \/ left'.job = left.job \/ left'.job < left.job
    <3>1. CASE AddSecretFinalizer(v) \/ RemoveSecretFinalizer(v)
      BY <3>1, LeftType DEF AddSecretFinalizer, RemoveSecretFinalizer
    <3>2. CASE jobTimeout(v) \/ Fail(v) \/ JobFails(v)
      BY <3>2, LeftType DEF jobTimeout, Fail, JobFails
    <3>3. CASE UNCHANGED left
      BY <3>3
    <3> QED BY <2>1, <3>1, <3>2, <3>3 DEF VolStep, CallStep, Provision, StoreVolume, Delete,
       DeleteGetSecret, JDeleteVolume, createOrUpdateSecret, waitUtilJobCompleted, DeleteCheckSecret,
       DeletePV, JobStep, JobRemoves, JobPodKilled, JobTTL, Reconcile,
       ClaimStep, RetainedDeleted, PVGone, AppWrites
  <2>2. CASE Crash
    BY <2>2, CrashEffect
  <2>3. ASSUME NEW s \in Secrets, SecretDeleted(s) PROVE UNCHANGED left
    BY <2>3 DEF SecretDeleted
  <2>4. CASE UNCHANGED vars
    BY <2>4 DEF vars
  <2> QED BY <2>1, <2>2, <2>3, <2>4, StepCases
<1>2. ASSUME NEW v \in Vols, JobFails(v) PROVE FALSE
  <2>1. left'.job < left.job
    BY <1>2, LeftType DEF JobFails
  <2> QED BY <1>a, <2>1
<1> QED BY <1>a, <1>1, <1>2

(* With a directory for each volume, every step keeps the history of its removal. *)
LEMMA OwnStep ==
    ASSUME OwnPaths, CallsInv, OwnInv, [Next]_vars
    PROVE  OwnInv'
<1> SUFFICES ASSUME NEW w \in Vols, left'.job = MaxJobFail
             PROVE  job'[w] # "failed" /\ (Removed(w)' => PathOf[w] \notin data')
  BY DEF OwnInv, DataInv
<1>a. TypeOK /\ CallInv(w) /\ CallsInv'
  BY CallsStep DEF CallsInv
<1>b. CallInv(w)' /\ DataInv(w) /\ TypeOK'
  BY <1>a DEF CallsInv, OwnInv
<1>c. /\ pv \in [Vols -> PVStates] /\ job \in [Vols -> JobStates] /\ call[w] \in Call
      /\ call[w].pc \in CallPCs
  BY <1>a DEF TypeOK, Call
<1>d. /\ \A v \in Vols : ~JobFails(v)
      /\ job[w] # "failed" /\ (Removed(w) => PathOf[w] \notin data)
  BY <1>a, <1>b, JobFailures DEF DataInv
<1>1. ASSUME NEW v \in Vols, VolStep(v), w # v PROVE job'[w] # "failed" /\ (Removed(w)' => PathOf[w] \notin data')
  <2>0. AppWrites(v) /\ PathOf[w] \in data' => PathOf[w] \in data
    BY <1>1 DEF OwnPaths, AppWrites
  <2>1. PathOf[w] \in data' => PathOf[w] \in data
    BY <1>1, <2>0 DEF VolStep, CallStep, jobTimeout, Fail, Provision, AddSecretFinalizer,
       StoreVolume, Delete, DeleteGetSecret, JDeleteVolume, createOrUpdateSecret, waitUtilJobCompleted,
       DeleteCheckSecret, RemoveSecretFinalizer, DeletePV, JobStep, JobRemoves, JobPodKilled, JobTTL,
       JobFails, Reconcile, ClaimStep, RetainedDeleted, PVGone
  <2>2. job'[w] = job[w] /\ (Removed(w)' => Removed(w))
    BY <1>a, <1>1, VolStepLocal DEF Local, Removed
  <2> QED BY <1>d, <2>1, <2>2
<1>2. CASE VolStep(w)
  <2> USE DEF Removed, DonePCs, JobPCs, Over
  <2>1. CASE Provision(w)
    BY <1>c, <1>d, <2>1, <1>a, CallMoves DEF Provision, At
  <2>2. CASE AddSecretFinalizer(w)
    BY <1>c, <1>d, <2>2, <1>a, CallMoves DEF AddSecretFinalizer, At
  <2>3. CASE StoreVolume(w)
    <3>1. At(w, "idle")
      BY <1>a, <2>3, CallMoves
    <3> QED BY <1>c, <1>d, <2>3, <3>1 DEF StoreVolume, At
  <2>4. CASE Delete(w)
    <3>1. CheckForSubPath(w)
      BY DEF CheckForSubPath, Others, OwnPaths
    <3>2. At(w, "getSecret")
      BY <1>a, <2>4, <3>1, CallMoves
    <3> QED BY <1>c, <1>d, <2>4, <3>2 DEF Delete, At
  <2>5. CASE DeleteGetSecret(w)
    BY <1>c, <1>d, <2>5, <1>a, CallMoves DEF DeleteGetSecret, At
  <2>6. CASE JDeleteVolume(w)
    <3>1. At(w, "jobSecret")
      BY <1>a, <2>6, CallMoves
    <3> QED BY <1>c, <1>d, <2>6, <3>1 DEF JDeleteVolume, At
  <2>7. CASE createOrUpdateSecret(w)
    <3>1. At(w, "jobWait")
      BY <1>a, <2>7, CallMoves
    <3> QED BY <1>c, <1>d, <2>7, <3>1 DEF createOrUpdateSecret, At
  <2>8. CASE waitUtilJobCompleted(w)
    BY <1>c, <1>d, <2>8, <1>a, CallMoves DEF waitUtilJobCompleted, At
  <2>9. CASE DeleteCheckSecret(w)
    <3>1. At(w, "removeFinalizer") \/ At(w, "deletePV")
      BY <1>a, <2>9, CallMoves
    <3> QED BY <1>c, <1>d, <2>9, <3>1 DEF DeleteCheckSecret, At
  <2>10. CASE RemoveSecretFinalizer(w)
    BY <1>c, <1>d, <2>10, <1>a, CallMoves DEF RemoveSecretFinalizer, At
  <2>11. CASE DeletePV(w)
    <3>1. At(w, "idle")
      BY <1>a, <2>11, CallMoves
    <3> QED BY <1>c, <1>d, <2>11, <3>1 DEF DeletePV, At
  <2>12. CASE jobTimeout(w)
    <3>1. At(w, "idle")
      BY <1>a, <2>12, CallMoves
    <3> QED BY <1>c, <1>d, <2>12, <3>1 DEF jobTimeout, At, Aged, Running
  <2>13. CASE Fail(w)
    <3>1. At(w, "idle")
      BY <1>a, <2>13, CallMoves
    <3> QED BY <1>c, <1>d, <2>13, <3>1 DEF Fail, At
  <2>14. CASE JobRemoves(w)
    BY <1>c, <1>d, <2>14 DEF JobRemoves, Running
  <2>15. CASE JobPodKilled(w)
    BY <1>d, <2>15 DEF JobPodKilled
  <2>16. CASE JobTTL(w) \/ Reconcile(w)
    <3>1. job[w] = "complete" /\ job' = [job EXCEPT ![w] = "none"] /\ UNCHANGED <<data, pv, call>>
      BY <1>d, <2>16 DEF JobTTL, Reconcile, IsJobShouldBeRecycled
    <3> QED BY <1>c, <1>d, <3>1
  <2>17. CASE ClaimStep(w)
    BY <1>c, <1>d, <2>17 DEF ClaimStep
  <2>18. CASE RetainedDeleted(w)
    BY <1>c, <1>d, <2>18 DEF RetainedDeleted
  <2>19. CASE PVGone(w)
    BY <1>c, <1>d, <2>19 DEF PVGone
  <2>20. CASE AppWrites(w)
    BY <1>a, <1>b, <1>d, <2>20 DEF AppWrites, CallInv, DelPCs
  <2> QED BY <1>2, <1>d, <2>1, <2>2, <2>3, <2>4, <2>5, <2>6, <2>7, <2>8, <2>9, <2>10, <2>11, <2>12, <2>13,
             <2>14, <2>15, <2>16, <2>17, <2>18, <2>19, <2>20 DEF VolStep, CallStep, JobStep
<1>3. CASE Crash
  BY <1>a, <1>d, <1>3, CrashEffect DEF Crash, Removed, Aged, DonePCs, JobPCs
<1>4. ASSUME NEW s \in Secrets, SecretDeleted(s) PROVE UNCHANGED <<pv, data, job, call>>
  BY <1>4 DEF SecretDeleted
<1>5. CASE UNCHANGED <<pv, data, job, call>>
  BY <1>d, <1>5 DEF Removed
<1>6. CASE UNCHANGED vars
  BY <1>5, <1>6 DEF vars
<1> QED BY <1>1, <1>2, <1>3, <1>4, <1>5, <1>6, StepCases

(* The directory of a volume that Delete is done with is gone, when no two  *)
(* volumes have the same directory: with any number of calls at once, after *)
(* timeouts of the wait, repeated calls that find the job of an earlier     *)
(* one, restarts, and jobs that their TTL or JobController removed.         *)
THEOREM DataIsDeleted == OwnPaths => (Spec => []DataDeleted)
<1> SUFFICES ASSUME OwnPaths PROVE Spec => []DataDeleted
  OBVIOUS
<1>1. Init => OwnInv
  BY DEF Init, OwnInv, DataInv, Removed, IdleCall, DonePCs, JobPCs, Over
<1>2. CallsInv /\ OwnInv /\ [Next]_vars => OwnInv'
  BY OwnStep
<1>3. OwnInv => DataDeleted
  BY DEF OwnInv, DataInv, Removed, DataDeleted, Over
<1> QED BY <1>1, <1>2, <1>3, CallsAlways, PTL DEF Spec

(* Under the same condition no job removes the directory of a claim that is *)
(* bound: a job, even one that a timed-out call left behind, is for a       *)
(* volume that has been released.                                           *)
THEOREM DirStays == OwnPaths => (Spec => SharedDirKept)
<1> SUFFICES ASSUME OwnPaths PROVE Spec => SharedDirKept
  OBVIOUS
<1> DEFINE Kept == \A v \in Vols : (pv[v] = "bound" /\ PathOf[v] \in data) => PathOf[v] \in data'
<1>1. CallsInv /\ [Next]_vars => [Kept]_vars
  <2> SUFFICES ASSUME CallsInv, Next, NEW w \in Vols, pv[w] = "bound", PathOf[w] \in data
               PROVE  PathOf[w] \in data'
    BY DEF Kept
  <2>1. ASSUME NEW v \in Vols, JobRemoves(v) PROVE PathOf[w] \in data'
    BY <2>1 DEF JobRemoves, OwnPaths, CallsInv, CallInv, Over
  <2>2. ASSUME NEW v \in Vols, AppWrites(v) PROVE PathOf[w] \in data'
    BY <2>2 DEF AppWrites
  <2> QED BY <2>1, <2>2 DEF Next, CallStep, jobTimeout, Fail, Provision, AddSecretFinalizer,
       StoreVolume, Delete, DeleteGetSecret, JDeleteVolume, createOrUpdateSecret, waitUtilJobCompleted,
       DeleteCheckSecret, RemoveSecretFinalizer, DeletePV, JobStep, JobPodKilled, JobTTL,
       JobFails, Reconcile, ClaimStep, RetainedDeleted, PVGone, SecretDeleted, Crash
<1> QED BY <1>1, CallsAlways, PTL DEF Spec, SharedDirKept

-----------------------------------------------------------------------------
(* What calls leave to each other *)

(* The steps that do not touch the history.                                 *)
LEMMA MetKept ==
    ASSUME Next, \A v \in Vols : ~Provision(v) /\ ~StoreVolume(v) /\ ~Delete(v) /\ ~Unguarded(v)
    PROVE  UNCHANGED met
BY DEF Next, CallStep, jobTimeout, Fail, AddSecretFinalizer, DeleteGetSecret, JDeleteVolume,
       createOrUpdateSecret, waitUtilJobCompleted, DeleteCheckSecret, RemoveSecretFinalizer, DeletePV,
       JobStep, JobRemoves, JobPodKilled, JobTTL, JobFails, Reconcile, ClaimStep, RetainedDeleted,
       PVGone, AppWrites, SecretDeleted, Crash

(* Nothing is taken out of the history, but by a new Provision call.        *)
LEMMA MetGrows ==
    ASSUME TypeOK, [Next]_vars
    PROVE  /\ met.dir \subseteq met'.dir /\ met.deletes \subseteq met'.deletes
           /\ \A v \in met.secret : v \in met'.secret \/ Provision(v)
<1>1. ASSUME NEW v \in Vols, Provision(v) \/ StoreVolume(v) \/ Delete(v) \/ Unguarded(v)
      PROVE  /\ met.dir \subseteq met'.dir /\ met.deletes \subseteq met'.deletes
             /\ \A w \in met.secret : w \in met'.secret \/ Provision(w)
  BY <1>1, MetSteps
<1>2. CASE UNCHANGED met
  BY <1>2
<1> QED BY <1>1, <1>2, MetKept DEF vars

(* A PV object comes into use when Provision stores it.                     *)
LEMMA OthersCome ==
    ASSUME TypeOK, [Next]_vars, NEW w \in Vols, pv'[w] \in Used, pv[w] \notin Used
    PROVE  StoreVolume(w)
<1>1. ASSUME NEW u \in Vols, VolStep(u), u # w PROVE FALSE
  BY <1>1, VolStepLocal DEF Local
<1>2. CASE VolStep(w)
  BY <1>2 DEF Used, TypeOK, VolStep, CallStep, jobTimeout, Fail, Provision, AddSecretFinalizer, StoreVolume,
       Delete, DeleteGetSecret, JDeleteVolume, createOrUpdateSecret, waitUtilJobCompleted,
       DeleteCheckSecret, RemoveSecretFinalizer, DeletePV, JobStep, JobRemoves, JobPodKilled, JobTTL,
       JobFails, Reconcile, ClaimStep, RetainedDeleted, PVGone, AppWrites
<1>3. CASE UNCHANGED pv
  BY <1>3
<1> QED BY <1>1, <1>2, <1>3, StepCases DEF SecretDeleted, Crash, vars

(* Where a call that stands at a place after a step came from.              *)
LEMMA CallsCome ==
    ASSUME TypeOK, [Next]_vars, NEW v \in Vols
    PROVE  /\ call'[v].pc = "removeFinalizer" =>
                 call[v].pc = "removeFinalizer" \/ (DeleteCheckSecret(v) /\ CheckForSecretFinalizer(v))
           /\ call'[v].pc \in {"getSecret", "createJob", "jobSecret"} =>
                 call[v].pc \in {"getSecret", "createJob", "jobSecret"} \/ (Delete(v) /\ CheckForSubPath(v))
           /\ call'[v].pc \in DelPCs => call[v].pc \in DelPCs \/ Delete(v)
           /\ call'[v].pc = "deletePV" =>
                 \/ call[v].pc = "deletePV" \/ RemoveSecretFinalizer(v)
                 \/ Delete(v) /\ ~CheckForSubPath(v)
                 \/ DeleteCheckSecret(v) /\ ~CheckForSecretFinalizer(v)
<1> USE DEF DelPCs
<1>1. ASSUME NEW u \in Vols, VolStep(u), u # v PROVE call'[v] = call[v]
  BY <1>1, VolStepLocal DEF Local
<1>2. CASE VolStep(v)
  <2>1. CASE Provision(v) \/ AddSecretFinalizer(v)
    <3>1. At(v, "addFinalizer") \/ At(v, "store")
      BY <2>1, CallMoves
    <3> QED BY <3>1 DEF At
  <2>2. CASE StoreVolume(v) \/ DeletePV(v) \/ jobTimeout(v) \/ Fail(v)
    BY <2>2, CallMoves DEF At
  <2>3. CASE Delete(v)
    BY <2>3, CallMoves DEF At
  <2>4. CASE DeleteGetSecret(v)
    BY <2>4, CallMoves DEF At, DeleteGetSecret
  <2>5. CASE JDeleteVolume(v) \/ createOrUpdateSecret(v)
    <3>1. /\ JDeleteVolume(v) => At(v, "jobSecret") /\ call[v].pc = "createJob"
          /\ createOrUpdateSecret(v) => At(v, "jobWait") /\ call[v].pc = "jobSecret"
      BY CallMoves DEF JDeleteVolume, createOrUpdateSecret
    <3> QED BY <2>5, <3>1 DEF At
  <2>6. CASE waitUtilJobCompleted(v) \/ RemoveSecretFinalizer(v)
    <3>1. /\ waitUtilJobCompleted(v) => At(v, "checkSecret") /\ call[v].pc = "jobWait"
          /\ RemoveSecretFinalizer(v) => At(v, "deletePV") /\ call[v].pc = "removeFinalizer"
      BY CallMoves DEF waitUtilJobCompleted, RemoveSecretFinalizer
    <3> QED BY <2>6, <3>1 DEF At
  <2>7. CASE DeleteCheckSecret(v)
    <3>1. call[v].pc = "checkSecret"
      BY <2>7 DEF DeleteCheckSecret
    <3> QED BY <2>7, <3>1, CallMoves DEF At
  <2>8. CASE UNCHANGED call
    BY <2>8
  <2> QED BY <1>2, <2>1, <2>2, <2>3, <2>4, <2>5, <2>6, <2>7, <2>8 DEF VolStep, CallStep, JobStep,
       JobRemoves, JobPodKilled, JobTTL, JobFails, Reconcile, ClaimStep, RetainedDeleted, PVGone, AppWrites
<1>3. CASE Crash
  BY <1>3, CrashEffect
<1>4. CASE UNCHANGED call
  BY <1>4
<1> QED BY <1>1, <1>2, <1>3, <1>4, StepCases DEF SecretDeleted, vars

-----------------------------------------------------------------------------
(* Shared directories *)

(* A removal begins when Delete has found the directory to be its own.      *)
LEMMA RemovingBegins ==
    ASSUME TypeOK, [Next]_vars, NEW v \in Vols, Removing(v)'
    PROVE  Removing(v) \/ (Delete(v) /\ CheckForSubPath(v))
<1>1. CASE v \in rmr' /\ v \notin rmr
  <2>1. ASSUME NEW u \in Vols, VolStep(u), u # v PROVE FALSE
    BY <1>1, <2>1, VolStepLocal DEF Local
  <2>2. CASE VolStep(v)
    <3>1. createOrUpdateSecret(v)
      BY <1>1, <2>2 DEF VolStep, CallStep, jobTimeout, Fail, Provision, AddSecretFinalizer,
         StoreVolume, Delete, DeleteGetSecret, JDeleteVolume, waitUtilJobCompleted,
         DeleteCheckSecret, RemoveSecretFinalizer, DeletePV, JobStep, JobRemoves, JobPodKilled, JobTTL,
         JobFails, Reconcile, ClaimStep, RetainedDeleted, PVGone, AppWrites
    <3> QED BY <3>1 DEF createOrUpdateSecret, Removing
  <2> QED BY <1>1, <2>1, <2>2, StepCases DEF SecretDeleted, Crash, vars
<1>2. CASE v \in rmr
  BY <1>2 DEF Removing
<1>3. CASE call'[v].pc \in {"getSecret", "createJob", "jobSecret"}
  BY <1>3, CallsCome DEF Removing
<1> QED BY <1>1, <1>2, <1>3 DEF Removing

(* Every step keeps what is known of the users of a directory being removed. *)
LEMMA SharedDirStep == TypeOK /\ SharedDirInv /\ [Next]_vars => SharedDirInv'
<1> SUFFICES ASSUME TypeOK, SharedDirInv, [Next]_vars, NEW v \in Vols, Removing(v)',
                    NEW w \in Others(v)', PathOf[w] = PathOf[v]
             PROVE  w \in met'.dir
  BY DEF SharedDirInv, DirInv
<1>a. w \in Vols \ {v} /\ pv'[w] \in Used
  BY DEF Others, Used
<1>b. DirInv(v) /\ met.dir \subseteq met'.dir
  BY MetGrows DEF SharedDirInv
<1>1. CASE Removing(v) /\ pv[w] \in Used
  <2>1. w \in Others(v)
    BY <1>a, <1>1 DEF Others, Used
  <2> QED BY <1>b, <1>1, <2>1 DEF DirInv
<1>2. CASE Removing(v) /\ pv[w] \notin Used
  <2>1. StoreVolume(w)
    BY <1>a, <1>2, OthersCome
  <2> QED BY <1>a, <1>2, <2>1, MetSteps
<1>3. CASE Delete(v) /\ CheckForSubPath(v)
  <2>1. w \in Others(v)
    BY <1>3, <1>a DEF Delete, Others, Used
  <2> QED BY <1>a, <1>3, <2>1, VolumeAssumption DEF CheckForSubPath
<1> QED BY <1>1, <1>2, <1>3, RemovingBegins

(* A directory is removed under a bound claim only when the claim was bound *)
(* while it was being removed: for any number of calls at once, with        *)
(* timeouts, failures and restarts that leave jobs behind.                  *)
THEOREM SharedDirStays == Spec => DirKept
<1> DEFINE Kept == \A v \in Vols :
        (pv[v] = "bound" /\ PathOf[v] \in data /\ PathOf[v] \notin data') => v \in met.dir
<1>1. CallsInv /\ SharedDirInv /\ [Next]_vars => [Kept]_vars
  <2> SUFFICES ASSUME CallsInv, SharedDirInv, Next, NEW w \in Vols, pv[w] = "bound",
                      PathOf[w] \in data, PathOf[w] \notin data'
               PROVE  w \in met.dir
    BY DEF Kept
  <2>1. ASSUME NEW v \in Vols, JobRemoves(v) PROVE w \in met.dir
    <3>1. PathOf[w] = PathOf[v] /\ Removing(v)
      BY <2>1 DEF JobRemoves, Removing
    <3>2. pv[v] # "bound"
      BY <2>1 DEF JobRemoves, CallsInv, CallInv, Over
    <3>3. w \in Others(v)
      BY <3>2 DEF Others
    <3> QED BY <3>1, <3>3 DEF SharedDirInv, DirInv
  <2>2. ASSUME NEW v \in Vols, AppWrites(v) PROVE FALSE
    BY <2>2 DEF AppWrites
  <2> QED BY <2>1, <2>2 DEF Next, CallStep, jobTimeout, Fail, Provision, AddSecretFinalizer,
       StoreVolume, Delete, DeleteGetSecret, JDeleteVolume, createOrUpdateSecret, waitUtilJobCompleted,
       DeleteCheckSecret, RemoveSecretFinalizer, DeletePV, JobStep, JobPodKilled, JobTTL,
       JobFails, Reconcile, ClaimStep, RetainedDeleted, PVGone, SecretDeleted, Crash
<1>2. Init => SharedDirInv
  BY DEF Init, SharedDirInv, DirInv, Removing, IdleCall
<1> QED BY <1>1, <1>2, SharedDirStep, TypeCorrect, CallsAlways, PTL DEF Spec, DirKept

-----------------------------------------------------------------------------
(* Shared secrets *)

(* A patch that adds the finalizer.                                         *)
LEMMA PatchOn ==
    ASSUME TypeOK, NEW s \in Secrets, patchSecretFinalizer(s, TRUE)
    PROVE  /\ \A t \in Secrets \ {s} : secret'[t] = secret[t]
           /\ secret'[s].exists = secret[s].exists /\ secret'[s].deleting = secret[s].deleting
           /\ secret'[s].finalizer = (secret[s].finalizer \/ (secret[s].exists /\ ~secret[s].deleting))
<1>a. secret \in [Secrets -> Secret] /\ secret[s] \in Secret
  BY DEF TypeOK
<1> DEFINE new == [secret[s] EXCEPT !.finalizer = @ \/ ~secret[s].deleting]
           old == [secret[s] EXCEPT !.finalizer = FALSE, !.exists = ~secret[s].deleting]
<1>1. secret' = [secret EXCEPT ![s] = CASE ~secret[s].exists -> secret[s]
                                        [] secret[s].exists /\ TRUE -> new
                                        [] OTHER -> old]
  BY DEF patchSecretFinalizer
<1> HIDE DEF new, old
<1>2. \A t \in Secrets \ {s} : secret'[t] = secret[t]
  BY <1>a, <1>1
<1>3. CASE secret[s].exists
  <2>1. secret'[s] = new
    BY <1>a, <1>1, <1>3
  <2>2. /\ new.exists = secret[s].exists /\ new.deleting = secret[s].deleting
        /\ new.finalizer = (secret[s].finalizer \/ ~secret[s].deleting)
    BY <1>a DEF new, Secret
  <2> QED BY <1>2, <1>3, <2>1, <2>2
<1>4. CASE ~secret[s].exists
  <2>1. secret'[s] = secret[s]
    BY <1>a, <1>1, <1>4
  <2>2. secret[s].finalizer \in BOOLEAN /\ secret[s].exists \in BOOLEAN
    BY <1>a DEF Secret
  <2> QED BY <1>2, <1>4, <2>1, <2>2
<1> QED BY <1>3, <1>4

(* A patch that removes it.                                                 *)
LEMMA PatchOff ==
    ASSUME TypeOK, NEW s \in Secrets, patchSecretFinalizer(s, FALSE)
    PROVE  /\ \A t \in Secrets \ {s} : secret'[t] = secret[t]
           /\ ~secret[s].exists => secret'[s] = secret[s]
           /\ secret[s].exists => /\ ~secret'[s].finalizer /\ secret'[s].deleting = secret[s].deleting
                                  /\ secret'[s].exists = ~secret[s].deleting
<1>a. secret \in [Secrets -> Secret] /\ secret[s] \in Secret
  BY DEF TypeOK
<1> DEFINE new == [secret[s] EXCEPT !.finalizer = @ \/ ~secret[s].deleting]
           old == [secret[s] EXCEPT !.finalizer = FALSE, !.exists = ~secret[s].deleting]
<1>1. secret' = [secret EXCEPT ![s] = CASE ~secret[s].exists -> secret[s]
                                        [] secret[s].exists /\ FALSE -> new
                                        [] OTHER -> old]
  BY DEF patchSecretFinalizer
<1> HIDE DEF new, old
<1>2. \A t \in Secrets \ {s} : secret'[t] = secret[t]
  BY <1>a, <1>1
<1>3. ~secret[s].exists => secret'[s] = secret[s]
  BY <1>a, <1>1
<1>4. secret[s].exists => secret'[s] = old
  BY <1>a, <1>1
<1>5. ~old.finalizer /\ old.deleting = secret[s].deleting /\ old.exists = ~secret[s].deleting
  BY <1>a DEF old, Secret
<1> QED BY <1>2, <1>3, <1>4, <1>5

(* The deletion by a user.                                                  *)
LEMMA SecretGoes ==
    ASSUME TypeOK, NEW s \in Secrets, SecretDeleted(s)
    PROVE  /\ \A t \in Secrets \ {s} : secret'[t] = secret[t]
           /\ secret'[s].finalizer = secret[s].finalizer
           /\ secret[s].exists
           /\ secret[s].finalizer => secret'[s].exists = secret[s].exists
           /\ ~secret[s].finalizer => ~secret'[s].exists
BY DEF TypeOK, Secret, SecretDeleted

(* The steps that change a secret.                                          *)
LEMMA SecretCases ==
    ASSUME [Next]_vars
    PROVE  \/ UNCHANGED secret
           \/ \E v \in Vols : AddSecretFinalizer(v) /\ patchSecretFinalizer(SecretOf[v], TRUE)
           \/ \E v \in Vols : /\ RemoveSecretFinalizer(v) /\ call[v].finalizer /\ Unguarded(v)
                              /\ patchSecretFinalizer(SecretOf[v], FALSE)
           \/ \E s \in Secrets : SecretDeleted(s)
BY DEF Next, CallStep, jobTimeout, Fail, Provision, AddSecretFinalizer,
       StoreVolume, Delete, DeleteGetSecret, JDeleteVolume, createOrUpdateSecret, waitUtilJobCompleted,
       DeleteCheckSecret, RemoveSecretFinalizer, DeletePV, JobStep, JobRemoves, JobPodKilled, JobTTL,
       JobFails, Reconcile, ClaimStep, RetainedDeleted, PVGone, AppWrites, Crash, vars

(* Every step keeps the form of the secrets.                                *)
LEMMA SecretStep ==
    ASSUME TypeOK, TypeOK', SecretInv, [Next]_vars
    PROVE  SecretInv'
<1> SUFFICES ASSUME NEW s \in Secrets
             PROVE  /\ secret'[s].exists /\ secret'[s].deleting => secret'[s].finalizer
                    /\ secret'[s].finalizer => secret'[s].exists
  BY DEF SecretInv
<1>a. /\ secret[s].exists /\ secret[s].deleting => secret[s].finalizer
      /\ secret[s].finalizer => secret[s].exists
  BY DEF SecretInv
<1>1. CASE secret'[s] = secret[s]
  BY <1>a, <1>1
<1>2. ASSUME NEW v \in Vols, patchSecretFinalizer(SecretOf[v], TRUE), secret'[s] # secret[s]
      PROVE  /\ secret'[s].exists /\ secret'[s].deleting => secret'[s].finalizer
             /\ secret'[s].finalizer => secret'[s].exists
  <2>1. SecretOf[v] \in Secrets
    BY VolumeAssumption
  <2> QED BY <1>a, <1>2, <2>1, PatchOn
<1>3. ASSUME NEW v \in Vols, patchSecretFinalizer(SecretOf[v], FALSE), secret'[s] # secret[s]
      PROVE  /\ secret'[s].exists /\ secret'[s].deleting => secret'[s].finalizer
             /\ secret'[s].finalizer => secret'[s].exists
  <2>1. SecretOf[v] \in Secrets
    BY VolumeAssumption
  <2>2. s = SecretOf[v] /\ secret[s].exists
    BY <1>3, <2>1, PatchOff
  <2> QED BY <1>3, <2>1, <2>2, PatchOff
<1>4. ASSUME NEW t \in Secrets, SecretDeleted(t), secret'[s] # secret[s]
      PROVE  /\ secret'[s].exists /\ secret'[s].deleting => secret'[s].finalizer
             /\ secret'[s].finalizer => secret'[s].exists
  <2>1. s = t
    BY <1>4, SecretGoes
  <2>2. /\ secret'[s].finalizer = secret[s].finalizer
        /\ secret[s].finalizer => secret'[s].exists = secret[s].exists
        /\ ~secret[s].finalizer => ~secret'[s].exists
    BY <1>4, <2>1, SecretGoes
  <2> QED BY <1>a, <2>2
<1> QED BY <1>1, <1>2, <1>3, <1>4, SecretCases

(* A secret that is still there keeps its finalizer, unless a patch removes it. *)
LEMMA FinalizerStep ==
    ASSUME TypeOK, SecretInv, [Next]_vars, NEW s \in Secrets
    PROVE  /\ secret'[s].exists => secret[s].exists
           /\ \/ secret'[s].exists /\ secret[s].finalizer => secret'[s].finalizer
              \/ \E v \in Vols : RemoveSecretFinalizer(v) /\ Unguarded(v) /\ SecretOf[v] = s
           /\ \/ secret'[s].finalizer => secret[s].finalizer
              \/ \E v \in Vols : AddSecretFinalizer(v) /\ SecretOf[v] = s
<1>a. secret[s].finalizer => secret[s].exists
  BY DEF SecretInv
<1>1. CASE secret'[s] = secret[s]
  BY <1>1
<1>2. ASSUME NEW v \in Vols, AddSecretFinalizer(v), patchSecretFinalizer(SecretOf[v], TRUE), SecretOf[v] = s
      PROVE  /\ secret'[s].exists = secret[s].exists /\ (secret[s].finalizer => secret'[s].finalizer)
  <2>1. SecretOf[v] \in Secrets
    BY VolumeAssumption
  <2> QED BY <1>2, <2>1, PatchOn
<1>3. ASSUME NEW v \in Vols, patchSecretFinalizer(SecretOf[v], FALSE), SecretOf[v] = s,
             secret'[s] # secret[s]
      PROVE  secret[s].exists /\ ~secret'[s].finalizer
  <2>1. SecretOf[v] \in Secrets
    BY VolumeAssumption
  <2> QED BY <1>3, <2>1, PatchOff
<1>4. ASSUME NEW v \in Vols, patchSecretFinalizer(SecretOf[v], TRUE) \/ patchSecretFinalizer(SecretOf[v], FALSE),
             SecretOf[v] # s
      PROVE  secret'[s] = secret[s]
  <2>1. SecretOf[v] \in Secrets
    BY VolumeAssumption
  <2> QED BY <1>4, <2>1, PatchOn, PatchOff
<1>5. ASSUME NEW t \in Secrets, SecretDeleted(t), secret'[s] # secret[s]
      PROVE  secret[s].exists /\ secret'[s].finalizer = secret[s].finalizer
  <2>1. s = t
    BY <1>5, SecretGoes
  <2> QED BY <1>5, <2>1, SecretGoes
<1> QED BY <1>1, <1>2, <1>3, <1>4, <1>5, SecretCases

(* Patches that fail are counted.                                           *)
LEMMA PatchFailures ==
    ASSUME TypeOK, [Next]_vars, left'.patch = MaxPatchFail
    PROVE  /\ left.patch = MaxPatchFail
           /\ ~(left.patch > 0 /\ left' = [left EXCEPT !.patch = @ - 1])
<1>a. left \in Left /\ MaxPatchFail \in Nat /\ left.patch \in 0..MaxPatchFail
  BY CallAssumption DEF TypeOK, Left
<1>1. CASE left' = [left EXCEPT !.patch = @ - 1]
  <2>1. left'.patch = left.patch - 1
    BY <1>a, <1>1 DEF Left
  <2> QED BY <1>a, <2>1
<1>2. CASE \/ left' = [left EXCEPT !.timeout = @ - 1] \/ left' = [left EXCEPT !.fail = @ - 1]
           \/ left' = [left EXCEPT !.crash = @ - 1] \/ left' = [left EXCEPT !.job = @ - 1]
           \/ left' = left
  <2>1. left'.patch = left.patch
    BY <1>a, <1>2 DEF Left
  <2>2. ~(left' = [left EXCEPT !.patch = @ - 1])
    <3>1. left' = [left EXCEPT !.patch = @ - 1] => left'.patch = left.patch - 1
      BY <1>a DEF Left
    <3> QED BY <1>a, <2>1, <3>1
  <2> QED BY <2>1, <2>2
<1> QED BY <1>1, <1>2 DEF Next, CallStep, jobTimeout, Fail, Provision, AddSecretFinalizer,
       StoreVolume, Delete, DeleteGetSecret, JDeleteVolume, createOrUpdateSecret, waitUtilJobCompleted,
       DeleteCheckSecret, RemoveSecretFinalizer, DeletePV, JobStep, JobRemoves, JobPodKilled, JobTTL,
       JobFails, Reconcile, ClaimStep, RetainedDeleted, PVGone, AppWrites, SecretDeleted, Crash, vars

(* Where a Provision call that stands at a place after a step came from.    *)
LEMMA NewCome ==
    ASSUME TypeOK, [Next]_vars, NEW v \in Vols
    PROVE  /\ call'[v].pc = "addFinalizer" =>
                 (call'[v] = call[v] /\ ~Provision(v)) \/ (Provision(v) /\ call'[v].finalizer = secret[SecretOf[v]].finalizer)
           /\ call'[v].pc = "store" => call'[v] = call[v] \/ AddSecretFinalizer(v)
<1>1. ASSUME NEW u \in Vols, VolStep(u), u # v PROVE call'[v] = call[v]
  BY <1>1, VolStepLocal DEF Local
<1>2. CASE VolStep(v)
  <2>1. CASE Provision(v)
    <3>1. call'[v] = [pc |-> "addFinalizer", finalizer |-> secret[SecretOf[v]].finalizer]
      BY <2>1 DEF Provision, TypeOK
    <3> QED BY <2>1, <3>1
  <2>2. CASE AddSecretFinalizer(v)
    BY <2>2, CallMoves DEF At
  <2>3. CASE \/ StoreVolume(v) \/ DeletePV(v) \/ jobTimeout(v) \/ Fail(v)
    BY <2>3, CallMoves DEF At
  <2>4. CASE Delete(v) \/ DeleteGetSecret(v) \/ DeleteCheckSecret(v)
    <3>1. \/ At(v, "getSecret") \/ At(v, "deletePV") \/ At(v, "createJob") \/ At(v, "idle")
          \/ At(v, "removeFinalizer")
      BY <2>4, CallMoves
    <3> QED BY <3>1 DEF At
  <2>5. CASE JDeleteVolume(v) \/ createOrUpdateSecret(v) \/ waitUtilJobCompleted(v) \/ RemoveSecretFinalizer(v)
    <3>1. At(v, "jobSecret") \/ At(v, "jobWait") \/ At(v, "checkSecret") \/ At(v, "deletePV")
      BY <2>5, CallMoves
    <3> QED BY <3>1 DEF At
  <2>6. CASE UNCHANGED call
    <3>1. ~Provision(v) \/ call[v].pc = "idle"
      BY DEF Provision
    <3> QED BY <2>6, <3>1
  <2> QED BY <1>2, <2>1, <2>2, <2>3, <2>4, <2>5, <2>6 DEF VolStep, CallStep, JobStep,
       JobRemoves, JobPodKilled, JobTTL, JobFails, Reconcile, ClaimStep, RetainedDeleted, PVGone, AppWrites
<1>3. CASE Crash
  BY <1>3, CrashEffect
<1>4. CASE UNCHANGED call
  <2>1. ~Provision(v) \/ call[v].pc = "idle"
    BY DEF Provision
  <2> QED BY <1>4, <2>1
<1>5. call'[v] = call[v] /\ Provision(v) => call'[v].pc = "idle"
  BY DEF Provision
<1> QED BY <1>1, <1>2, <1>3, <1>4, <1>5, StepCases DEF SecretDeleted, vars

(* The volumes that have the secret a Delete call found to be its own came  *)
(* after it had looked.                                                     *)
LEMMA LaterStep ==
    ASSUME TypeOK, GuardsInv, [Next]_vars, NEW v \in Vols, call'[v].pc = "removeFinalizer",
           NEW w \in Others(v)', SecretOf[w] = SecretOf[v]
    PROVE  w \in met'.secret
<1>a. w \in Vols \ {v} /\ pv'[w] \in Used /\ GuardInv(v)
  BY DEF Others, Used, GuardsInv
<1>1. CASE call[v].pc = "removeFinalizer" /\ pv[w] \in Used
  <2>1. w \in Others(v)
    BY <1>a, <1>1 DEF Others, Used
  <2>2. w \in met.secret /\ ~Provision(w)
    BY <1>a, <1>1, <2>1 DEF GuardInv, Provision, Used
  <2> QED BY <2>2, MetGrows
<1>2. CASE call[v].pc = "removeFinalizer" /\ pv[w] \notin Used
  <2>1. StoreVolume(w)
    BY <1>a, <1>2, OthersCome
  <2> QED BY <1>a, <1>2, <2>1, MetSteps
<1>3. CASE DeleteCheckSecret(v) /\ CheckForSecretFinalizer(v)
  <2>1. w \in Others(v)
    BY <1>3, <1>a DEF DeleteCheckSecret, Others, Used
  <2> QED BY <1>3, <2>1 DEF CheckForSecretFinalizer
<1> QED BY <1>1, <1>2, <1>3, CallsCome

(* A finalizer that Delete takes off is missed by none but the volumes the  *)
(* history names.                                                           *)
LEMMA GuardOff ==
    ASSUME TypeOK, GuardsInv, NEW u \in Vols, RemoveSecretFinalizer(u), Unguarded(u),
           NEW v \in Vols, SecretOf[v] = SecretOf[u], v \notin met'.secret
    PROVE  call'[v].pc \notin NewPCs /\ pv'[v] \notin Used
<1>1. v # u /\ call[v].pc \notin NewPCs /\ met.secret \subseteq met'.secret
  BY MetSteps
<1>2. call'[v] = call[v] /\ pv' = pv
  BY <1>1, CallMoves DEF At, RemoveSecretFinalizer
<1>3. ASSUME pv[v] \in Used PROVE FALSE
  <2>1. v \in Others(u) /\ call[u].pc = "removeFinalizer"
    BY <1>1, <1>3 DEF Others, Used, RemoveSecretFinalizer
  <2>2. v \in met.secret
    BY <2>1 DEF GuardsInv, GuardInv
  <2> QED BY <1>1, <2>2
<1> QED BY <1>1, <1>2, <1>3

(* Every step keeps what is known of the finalizers.                        *)
LEMMA GuardsStep == CallsInv /\ GuardsInv /\ [Next]_vars => GuardsInv'
<1> SUFFICES ASSUME CallsInv, GuardsInv, [Next]_vars PROVE GuardsInv'
  OBVIOUS
<1>a. TypeOK /\ TypeOK' /\ SecretInv
  BY TypeStep DEF CallsInv, GuardsInv
<1>b. SecretInv'
  BY <1>a, SecretStep
<1> SUFFICES ASSUME NEW v \in Vols PROVE GuardInv(v)'
  BY <1>b DEF GuardsInv
<1> DEFINE s == SecretOf[v]
<1>c. s \in Secrets /\ GuardInv(v) /\ CallInv(v)
  BY VolumeAssumption DEF GuardsInv, CallsInv
<1>d. /\ secret'[s].exists => secret[s].exists
      /\ \/ secret'[s].exists /\ secret[s].finalizer => secret'[s].finalizer
         \/ \E u \in Vols : RemoveSecretFinalizer(u) /\ Unguarded(u) /\ SecretOf[u] = s
  BY <1>a, <1>c, FinalizerStep
<1>1. call'[v].pc = "removeFinalizer" => \A w \in Others(v)' : SecretOf[w] = SecretOf[v] => w \in met'.secret
  BY <1>a, LaterStep
<1>2. ASSUME v \notin met'.secret, secret'[s].exists,
             call'[v].pc = "addFinalizer", call'[v].finalizer
      PROVE  secret'[s].finalizer
  <2>1. CASE \E u \in Vols : RemoveSecretFinalizer(u) /\ Unguarded(u) /\ SecretOf[u] = s
    BY <1>a, <1>2, <2>1, GuardOff DEF NewPCs
  <2>2. CASE secret[s].finalizer => secret'[s].finalizer
    <3>1. CASE Provision(v) /\ call'[v].finalizer = secret[s].finalizer
      BY <1>2, <2>2, <3>1
    <3>2. CASE call'[v] = call[v] /\ ~Provision(v)
      <4>1. v \notin met.secret
        BY <1>a, <1>2, <3>2, MetGrows
      <4> QED BY <1>c, <1>d, <1>2, <2>2, <3>2, <4>1 DEF GuardInv
    <3> QED BY <1>a, <1>2, <3>1, <3>2, NewCome
  <2> QED BY <1>d, <1>2, <2>1, <2>2
<1>3. ASSUME v \notin met'.secret, secret'[s].exists, left'.patch = MaxPatchFail,
             PolicyOf[v] = "Delete", Needs(v)'
      PROVE  secret'[s].finalizer
  <2>1. CASE \E u \in Vols : RemoveSecretFinalizer(u) /\ Unguarded(u) /\ SecretOf[u] = s
    BY <1>a, <1>3, <2>1, GuardOff DEF NewPCs, Needs
  <2>2. CASE secret[s].finalizer => secret'[s].finalizer
    <3>0. left.patch = MaxPatchFail /\ ~(left.patch > 0 /\ left' = [left EXCEPT !.patch = @ - 1])
      BY <1>a, <1>3, PatchFailures
    <3>1. CASE AddSecretFinalizer(v)
      <4>0. v \notin met.secret /\ call[v].pc = "addFinalizer"
        BY <1>3, <3>1 DEF AddSecretFinalizer
      <4>1. CASE call[v].finalizer
        BY <1>c, <1>d, <1>3, <2>2, <4>0, <4>1 DEF GuardInv
      <4>2. CASE ~call[v].finalizer
        <5>1. patchSecretFinalizer(s, TRUE)
          BY <1>3, <3>0, <3>1, <4>2 DEF AddSecretFinalizer
        <5>2. secret'[s].finalizer = (secret[s].finalizer \/ (secret[s].exists /\ ~secret[s].deleting))
          BY <1>a, <1>c, <5>1, PatchOn
        <5> QED BY <1>a, <1>c, <1>d, <1>3, <5>2 DEF SecretInv
      <4> QED BY <4>1, <4>2
    <3>2. CASE ~AddSecretFinalizer(v)
      <4>1. Needs(v)
        <5>1. CASE pv'[v] \in Used /\ pv[v] \notin Used
          BY <1>a, <5>1, OthersCome DEF StoreVolume, Needs
        <5>2. CASE call'[v].pc = "store"
          BY <1>a, <3>2, <5>2, NewCome DEF Needs
        <5> QED BY <1>3, <5>1, <5>2 DEF Needs
      <4>2. ~Provision(v)
        BY <4>1 DEF Needs, Provision, Used
      <4>3. v \notin met.secret
        BY <1>a, <1>3, <4>2, MetGrows
      <4> QED BY <1>c, <1>d, <1>3, <2>2, <3>0, <4>1, <4>3 DEF GuardInv
    <3> QED BY <3>1, <3>2
  <2> QED BY <1>d, <1>3, <2>1, <2>2
<1> QED BY <1>1, <1>2, <1>3 DEF GuardInv

(* The secret of a volume that is in use, or still to be deleted, carries   *)
(* the finalizer, but for the volumes that were provisioned while Delete of *)
(* another one took it off, and for patches that failed: for any number of  *)
(* calls at once, failures, timeouts and restarts.                          *)
THEOREM FinalizerStays == Spec => []FinalizerKept
<1>1. Init => GuardsInv
  BY DEF Init, GuardsInv, SecretInv, GuardInv, Needs, IdleCall, Used
<1>2. GuardsInv => FinalizerKept
  BY DEF GuardsInv, GuardInv, Needs, FinalizerKept, Used
<1> QED BY <1>1, <1>2, GuardsStep, CallsAlways, PTL DEF Spec

-----------------------------------------------------------------------------
(* Finalizers are taken off *)

(* Where Delete holds a copy of the secret.                                 *)
CopyPCs == DelPCs \ {"getSecret", "deletePV"}

(* The volume will take the finalizer off, or see to it that another does.  *)
Holds(v) ==
    /\ pv[v] \in {"pending"} \cup Used
    /\ call[v].pc # "deletePV"
    /\ call[v].pc \in CopyPCs => call[v].finalizer

(* Delete reaches the finalizer for all volumes of the secret.              *)
Closed(s) ==
    \A v \in Vols : SecretOf[v] = s =>
        PolicyOf[v] = "Delete" /\ \A w \in Vols : PathOf[w] = PathOf[v] => SecretOf[w] = s

OneInv(s) ==
    s \notin met.deletes => \A v, w \in Vols :
        (/\ SecretOf[v] = s /\ SecretOf[w] = s
         /\ call[v].pc \in DelPCs /\ call[w].pc \in DelPCs) => v = w

HeldInv(s) ==
    (left.patch = MaxPatchFail /\ s \notin met.deletes /\ Closed(s) /\ secret[s].finalizer)
        => \E v \in Vols : SecretOf[v] = s /\ Holds(v)

ReleaseInv == \A s \in Secrets : OneInv(s) /\ HeldInv(s)

(* Two Delete calls for one secret are in the history.                      *)
LEMMA OneStep ==
    ASSUME TypeOK, [Next]_vars, NEW s \in Secrets, OneInv(s)
    PROVE  OneInv(s)'
<1> SUFFICES ASSUME s \notin met'.deletes, NEW v \in Vols, NEW w \in Vols, SecretOf[v] = s, SecretOf[w] = s,
                    call'[v].pc \in DelPCs, call'[w].pc \in DelPCs
             PROVE  v = w
  BY DEF OneInv
<1>a. s \notin met.deletes
  BY MetGrows
<1>1. ASSUME NEW u \in Vols, NEW x \in Vols, SecretOf[u] = s, SecretOf[x] = s, Delete(u), call'[x].pc \in DelPCs
      PROVE  x = u
  <2>1. SUFFICES ASSUME x # u PROVE FALSE
    OBVIOUS
  <2>2. call'[x] = call[x]
    BY <1>1, <2>1, CallMoves DEF At
  <2> QED BY <1>1, <2>2, MetSteps
<1>2. CASE call[v].pc \in DelPCs /\ call[w].pc \in DelPCs
  BY <1>a, <1>2 DEF OneInv
<1> QED BY <1>1, <1>2, CallsCome

(* A call that moves on keeps its copy of the secret.                       *)
LEMMA CopyKept ==
    ASSUME TypeOK, NEW v \in Vols,
           JDeleteVolume(v) \/ createOrUpdateSecret(v) \/ waitUtilJobCompleted(v) \/ DeleteCheckSecret(v)
    PROVE  call'[v].finalizer = call[v].finalizer
<1>1. \A pc \in CallPCs : Goto(v, pc) => call'[v].finalizer = call[v].finalizer
  BY DEF TypeOK, Call, Goto
<1> QED BY <1>1 DEF JDeleteVolume, createOrUpdateSecret, waitUtilJobCompleted, DeleteCheckSecret, CallPCs

(* Who holds the finalizer holds it after the step, or leaves it to another *)
(* volume that it has seen.                                                 *)
LEMMA HolderStep ==
    ASSUME TypeOK, SecretInv, NEW v \in Vols, Holds(v), secret[SecretOf[v]].finalizer,
           secret'[SecretOf[v]].finalizer, PolicyOf[v] = "Delete", VolStep(v),
           ~(left.patch > 0 /\ left' = [left EXCEPT !.patch = @ - 1])
    PROVE  \/ Holds(v)'
           \/ Delete(v) /\ ~CheckForSubPath(v)
           \/ DeleteCheckSecret(v) /\ ~CheckForSecretFinalizer(v)
<1> USE DEF CopyPCs, DelPCs, Used
<1>a. /\ pv \in [Vols -> PVStates] /\ call[v] \in Call /\ SecretOf[v] \in Secrets
      /\ secret[SecretOf[v]].exists /\ pv[v] \in {"pending", "bound", "released"}
  BY VolumeAssumption DEF TypeOK, SecretInv, Holds
<1>1. CASE Provision(v) \/ AddSecretFinalizer(v)
  <2>1. At(v, "addFinalizer") \/ At(v, "store")
    BY <1>1, CallMoves
  <2>2. pv' = pv
    BY <1>1 DEF Provision, AddSecretFinalizer
  <2> QED BY <1>a, <2>1, <2>2 DEF Holds, At
<1>2. CASE StoreVolume(v)
  <2>1. At(v, "idle") /\ pv'[v] = "bound"
    BY <1>a, <1>2, CallMoves DEF StoreVolume
  <2> QED BY <2>1 DEF Holds, At
<1>3. CASE Delete(v)
  <2>1. pv' = pv
    BY <1>3 DEF Delete
  <2>2. CheckForSubPath(v) => At(v, "getSecret")
    BY <1>3, CallMoves
  <2> QED BY <1>a, <1>3, <2>1, <2>2 DEF Holds, At
<1>4. CASE DeleteGetSecret(v)
  <2>1. pv' = pv /\ call'[v] = [pc |-> "createJob", finalizer |-> secret[SecretOf[v]].finalizer]
    BY <1>a, <1>4 DEF DeleteGetSecret, TypeOK
  <2> QED BY <1>a, <2>1 DEF Holds
<1>5. CASE JDeleteVolume(v) \/ createOrUpdateSecret(v) \/ waitUtilJobCompleted(v)
  <2>1. /\ At(v, "jobSecret") \/ At(v, "jobWait") \/ At(v, "checkSecret")
        /\ call'[v].finalizer = call[v].finalizer /\ pv' = pv
        /\ call[v].pc \in CopyPCs
    BY <1>5, CallMoves, CopyKept DEF JDeleteVolume, createOrUpdateSecret, waitUtilJobCompleted
  <2> QED BY <1>a, <2>1 DEF Holds, At
<1>6. CASE DeleteCheckSecret(v)
  <2>1. /\ CheckForSecretFinalizer(v) => At(v, "removeFinalizer")
        /\ call'[v].finalizer = call[v].finalizer /\ pv' = pv /\ call[v].pc \in CopyPCs
    BY <1>6, CallMoves, CopyKept DEF DeleteCheckSecret
  <2> QED BY <1>a, <1>6, <2>1 DEF Holds, At
<1>7. CASE RemoveSecretFinalizer(v)
  <2>1. call[v].finalizer
    BY <1>7 DEF RemoveSecretFinalizer, Holds
  <2>2. patchSecretFinalizer(SecretOf[v], FALSE)
    BY <1>7, <2>1 DEF RemoveSecretFinalizer
  <2> QED BY <1>a, <2>2, PatchOff
<1>8. CASE DeletePV(v)
  BY <1>8 DEF DeletePV, Holds
<1>9. CASE jobTimeout(v) \/ Fail(v)
  <2>1. At(v, "idle") /\ pv' = pv
    BY <1>9, CallMoves DEF jobTimeout, Fail
  <2> QED BY <1>a, <2>1 DEF Holds, At
<1>10. CASE JobStep(v) \/ JobFails(v) \/ Reconcile(v) \/ AppWrites(v)
  <2>1. UNCHANGED <<pv, call>>
    BY <1>10 DEF JobStep, JobRemoves, JobPodKilled, JobTTL, JobFails, Reconcile, AppWrites
  <2> QED BY <2>1 DEF Holds
<1>11. CASE ClaimStep(v)
  <2>1. UNCHANGED call /\ pv'[v] \in {"pending", "bound", "released"}
    BY <1>a, <1>11 DEF ClaimStep
  <2> QED BY <2>1 DEF Holds
<1>12. CASE RetainedDeleted(v) \/ PVGone(v)
  BY <1>a, <1>12 DEF RetainedDeleted, PVGone
<1> QED BY <1>1, <1>2, <1>3, <1>4, <1>5, <1>6, <1>7, <1>8, <1>9, <1>10, <1>11, <1>12 DEF VolStep, CallStep

(* A finalizer that is on has a volume that holds it.                       *)
LEMMA HeldStep ==
    ASSUME CallsInv, SecretInv, [Next]_vars, NEW s \in Secrets, OneInv(s), HeldInv(s)
    PROVE  HeldInv(s)'
<1>a. TypeOK /\ TypeOK'
  BY TypeStep DEF CallsInv
<1> SUFFICES ASSUME left'.patch = MaxPatchFail, s \notin met'.deletes, Closed(s), secret'[s].finalizer
             PROVE  \E v \in Vols : SecretOf[v] = s /\ Holds(v)'
  BY DEF HeldInv, Closed
<1>b. /\ left.patch = MaxPatchFail /\ ~(left.patch > 0 /\ left' = [left EXCEPT !.patch = @ - 1])
      /\ s \notin met.deletes
  BY <1>a, PatchFailures, MetGrows
<1>1. CASE ~secret[s].finalizer
  <2>1. PICK v \in Vols : AddSecretFinalizer(v) /\ SecretOf[v] = s
    BY <1>a, <1>1, FinalizerStep
  <2>2. At(v, "store") /\ pv' = pv /\ pv[v] = "pending"
    BY <1>a, <2>1, CallMoves DEF AddSecretFinalizer, CallsInv, CallInv, NewPCs
  <2>3. Holds(v)'
    BY <2>2 DEF Holds, At, CopyPCs, DelPCs
  <2> QED BY <2>1, <2>3
<1>2. CASE secret[s].finalizer
  <2>1. PICK v \in Vols : SecretOf[v] = s /\ Holds(v)
    BY <1>b, <1>2 DEF HeldInv
  <2>2. PolicyOf[v] = "Delete"
    BY <2>1 DEF Closed
  <2>3. ASSUME NEW u \in Vols, VolStep(u), u # v PROVE Holds(v)'
    BY <1>a, <2>1, <2>3, VolStepLocal DEF Local, Holds
  <2>4. CASE Crash
    BY <1>a, <2>1, <2>4, CrashEffect DEF Crash, Holds, CopyPCs, DelPCs
  <2>5. CASE UNCHANGED <<pv, call>>
    BY <2>1, <2>5 DEF Holds
  <2>6. ASSUME NEW w \in Others(v), SecretOf[w] = s, Delete(v) \/ DeleteCheckSecret(v)
        PROVE  Holds(w)'
    <3>1. w \in Vols \ {v} /\ pv[w] \in Used /\ pv' = pv
      BY <2>6 DEF Others, Used, Delete, DeleteCheckSecret
    <3>2. call'[w] = call[w]
      BY <1>a, <2>6, <3>1, CallMoves DEF At
    <3>3. call[w].pc \notin DelPCs
      <4>1. CASE Delete(v)
        BY <1>a, <2>1, <2>6, <3>1, <4>1, MetSteps
      <4>2. CASE DeleteCheckSecret(v)
        BY <1>b, <2>1, <2>6, <3>1, <4>2 DEF OneInv, DeleteCheckSecret, DelPCs
      <4> QED BY <2>6, <4>1, <4>2
    <3> QED BY <3>1, <3>2, <3>3 DEF Holds, CopyPCs, DelPCs
  <2>7. CASE Delete(v) /\ ~CheckForSubPath(v)
    <3>1. PICK w \in Others(v) : PathOf[w] = PathOf[v]
      BY <2>7 DEF CheckForSubPath
    <3>2. w \in Vols /\ SecretOf[w] = s
      BY <2>1, <3>1 DEF Others, Closed
    <3> QED BY <2>6, <2>7, <3>2
  <2>8. CASE DeleteCheckSecret(v) /\ ~CheckForSecretFinalizer(v)
    <3>1. PICK w \in Others(v) : SecretOf[w] = s
      BY <2>1, <2>8 DEF CheckForSecretFinalizer
    <3>2. w \in Vols
      BY <3>1 DEF Others
    <3> QED BY <2>6, <2>8, <3>1, <3>2
  <2>9. VolStep(v) => Holds(v)' \/ (Delete(v) /\ ~CheckForSubPath(v))
                      \/ (DeleteCheckSecret(v) /\ ~CheckForSecretFinalizer(v))
    BY <1>a, <1>b, <1>2, <2>1, <2>2, HolderStep
  <2>10. \/ UNCHANGED <<pv, call>> \/ Crash \/ \E u \in Vols : VolStep(u)
    BY StepCases DEF SecretDeleted, vars
  <2> QED BY <2>1, <2>3, <2>4, <2>5, <2>7, <2>8, <2>9, <2>10
<1> QED BY <1>1, <1>2

(* The finalizer is off a secret whose volumes are all deleted, unless two  *)
(* Delete calls for its volumes met, a patch failed, or Delete had no       *)
(* business with one of them: for any number of calls at once.              *)
THEOREM FinalizerGoes == Spec => []SecretReleased
<1>1. Init => ReleaseInv
  BY DEF Init, ReleaseInv, OneInv, HeldInv, IdleCall, DelPCs
<1>2. CallsInv /\ GuardsInv /\ ReleaseInv /\ [Next]_vars => ReleaseInv'
  <2> SUFFICES ASSUME CallsInv, GuardsInv, ReleaseInv, [Next]_vars, NEW s \in Secrets
               PROVE  OneInv(s)' /\ HeldInv(s)'
    BY DEF ReleaseInv
  <2>1. OneInv(s) /\ HeldInv(s) /\ SecretInv /\ TypeOK
    BY DEF ReleaseInv, GuardsInv, CallsInv
  <2> QED BY <2>1, OneStep, HeldStep
<1>3. ReleaseInv => SecretReleased
  BY DEF ReleaseInv, HeldInv, Closed, Holds, Used, SecretReleased
<1>4. Init => GuardsInv
  BY DEF Init, GuardsInv, SecretInv, GuardInv, Needs, IdleCall, Used
<1> QED BY <1>1, <1>2, <1>3, <1>4, GuardsStep, CallsAlways, PTL DEF Spec

=============================================================================
