------------------------- MODULE ControllerService -------------------------
(***************************************************************************)
(* The CSI controller service without its own provisioner, and the quota   *)
(* that keeps a volume's directory to the volume's size: CreateVolume,     *)
(* DeleteVolume and ControllerExpandVolume, called by the sidecars of      *)
(* Kubernetes (external), and the quota that NodePublishVolume sets.       *)
(*                                                                         *)
(* A sidecar makes one call per volume, but it may give up waiting and     *)
(* call again while the first call is still being served.  Sizes are       *)
(* counted in parts of a GiB; the quota is counted in GiB.                 *)
(***************************************************************************)
EXTENDS Integers, FiniteSets

CONSTANTS
    Vols,       \* names of dynamic volumes
    Slots,      \* calls the controller can be serving at once
    Nodes,      \* nodes that can be publishing a volume
    Sizes,      \* sizes a claim may ask for
    GiB,        \* units in a GiB
    MaxFail,    \* bound: requests and commands that fail
    MaxSlow,    \* bound: quota commands that take more than four seconds
    MaxGiveUp,  \* bound: calls a sidecar no longer waits for
    MaxCrash    \* bound: restarts of the controller

ASSUME SizeAssumption == GiB \in Nat \ {0} /\ Sizes \subseteq Nat \ {0}
ASSUME BoundAssumption ==
    MaxFail \in Nat /\ MaxSlow \in Nat /\ MaxGiveUp \in Nat /\ MaxCrash \in Nat

VARIABLES
    client,    \* the juicefs client: its edition, and whether it has quotas
    claim,     \* volume -> the claim it is made for
    pv,        \* volume -> sizes in its PV object: of the spec, and at creation
    secret,    \* the volumes whose secret still exists
    dir,       \* the volumes whose directory exists
    job,       \* volume -> its "-delvol" job that no call waits for
    quota,     \* volume -> quota of its directory in GiB, 0 when none
    vols,      \* controllerService.vols: volume -> size, 0 when not there
    volLocks,  \* controllerService.volLocks
    call,      \* slot -> the DeleteVolume or ControllerExpandVolume it serves
    pub,       \* node -> the NodePublishVolume under way there
    bg,        \* quota commands of the community edition left in the background
    solo,      \* history: no quota writer began while another was at work
    sound,     \* history: no writer overlapped, was left in the background or
               \* used another size than the PV's since one finished alone
    left       \* what is left of the bounds

env  == <<claim, pv, secret>>
vars == <<client, env, dir, job, quota, vols, volLocks, call, pub, bg, solo, sound, left>>

Size0    == Sizes \cup {0}
Clients  == [ce: BOOLEAN, quota: BOOLEAN]
States   == {"pending", "bound", "released", "gone"}

(* A job is "left" by the call that waited for it; a "failed" one may have  *)
(* been removed since.                                                      *)
JobStates == {"none", "left", "failed"}

IdleCall == [op |-> "idle", vol |-> "none", pc |-> "none", size |-> 0, waits |-> FALSE]
Calls    == [op: {"delete", "expand"}, vol: Vols, size: Size0, waits: BOOLEAN,
             pc: {"lock", "job", "quota", "answer"}]
IdlePub  == [vol |-> "none", size |-> 0, read |-> FALSE]

TypeOK ==
    /\ client \in Clients
    /\ claim \in [Vols -> [st: States, want: Sizes, ro: BOOLEAN]]
    /\ pv \in [Vols -> [size: Size0, created: Size0]]
    /\ secret \in SUBSET Vols /\ dir \in SUBSET Vols /\ volLocks \in SUBSET Vols
    /\ job \in [Vols -> JobStates]
    /\ quota \in [Vols -> Nat]
    /\ vols \in [Vols -> Size0]
    /\ call \in [Slots -> Calls \cup {IdleCall}]
    /\ pub \in [Nodes -> [vol: Vols, size: Sizes, read: BOOLEAN] \cup {IdlePub}]
    /\ bg \in SUBSET (Vols \X Sizes)
    /\ solo \in [Vols -> BOOLEAN] /\ sound \in [Vols -> BOOLEAN]
    /\ left \in [fail: 0..MaxFail, slow: 0..MaxSlow, giveUp: 0..MaxGiveUp, crash: 0..MaxCrash]

Init ==
    /\ client \in Clients
    /\ claim \in [Vols -> [st: {"pending"}, want: Sizes, ro: BOOLEAN]]
    /\ pv = [v \in Vols |-> [size |-> 0, created |-> 0]]
    /\ secret = Vols /\ dir = {} /\ volLocks = {} /\ bg = {}
    /\ job = [v \in Vols |-> "none"]
    /\ quota = [v \in Vols |-> 0] /\ vols = [v \in Vols |-> 0]
    /\ call = [c \in Slots |-> IdleCall]
    /\ pub = [n \in Nodes |-> IdlePub]
    /\ solo = [v \in Vols |-> TRUE] /\ sound = [v \in Vols |-> TRUE]
    /\ left = [fail |-> MaxFail, slow |-> MaxSlow, giveUp |-> MaxGiveUp, crash |-> MaxCrash]

Spend(k) == left[k] > 0 /\ left' = [left EXCEPT ![k] = @ - 1]
End(c)   == call' = [call EXCEPT ![c] = IdleCall]

(* A sidecar calls when it waits for no other call for the volume.          *)
Waiting(v) == \E c \in Slots : call[c].vol = v /\ call[c].waits
Begin(c, op, v, pc, size) ==
    /\ call[c] = IdleCall /\ ~Waiting(v)
    /\ call' = [call EXCEPT ![c] = [op |-> op, vol |-> v, pc |-> pc, size |-> size, waits |-> TRUE]]

(* Everything that may yet write the quota of v, or tell its size.          *)
Expanding(v)  == \E c \in Slots : call[c].vol = v /\ call[c].op = "expand"
Publishing(v) == \E n \in Nodes : pub[n].vol = v
QuotaBusy(v)  == Expanding(v) \/ Publishing(v) \/ \E q \in bg : q[1] = v

(* History of the writers.                                                  *)
BeginWriter(v) == /\ solo' = [solo EXCEPT ![v] = ~QuotaBusy(v)]
                  /\ sound' = [sound EXCEPT ![v] = @ /\ ~QuotaBusy(v)]
EndWriter(v, read) ==
    sound' = [sound EXCEPT ![v] = read /\ bg' = bg /\ (@ \/ solo[v])]

-----------------------------------------------------------------------------
(* CreateVolume: memory only, so one step with the sidecar storing the PV;  *)
(* the answer may get lost.                                                 *)

(* Seeded fault: a repeated request of the same size is refused.            *)
CreateAdmittedOnce(v) == vols[v] = 0 \/ vols[v] > claim[v].want

CreateAdmitted(v) == vols[v] = 0 \/ vols[v] >= claim[v].want

(* The table is written before a read-only claim is refused.                *)
CreateVolume(v) ==
    /\ claim[v].st = "pending" /\ CreateAdmitted(v)
    /\ vols' = [vols EXCEPT ![v] = claim[v].want]
    /\ \/ /\ ~claim[v].ro
          /\ pv' = [pv EXCEPT ![v] = [size |-> claim[v].want, created |-> claim[v].want]]
          /\ claim' = [claim EXCEPT ![v].st = "bound"]
          /\ UNCHANGED left
       \/ ~claim[v].ro /\ Spend("fail") /\ UNCHANGED <<claim, pv>>
       \/ claim[v].ro /\ UNCHANGED <<claim, pv, left>>
    /\ UNCHANGED <<client, secret, dir, job, quota, volLocks, call, pub, bg, solo, sound>>

-----------------------------------------------------------------------------
(* DeleteVolume *)

(* The sidecar deletes the PV object when the call has succeeded.           *)
Succeed(c) ==
    /\ claim' = [claim EXCEPT ![call[c].vol].st = IF call[c].waits THEN "gone" ELSE @]
    /\ End(c)

(* A sidecar that does not find the secret calls without; then nothing is   *)
(* done, and the call succeeds.                                             *)
DeleteVolume(c, v) ==
    /\ claim[v].st = "released"
    /\ Begin(c, "delete", v, "lock", 0)
    /\ UNCHANGED <<client, env, dir, job, quota, vols, volLocks, pub, bg, solo, sound, left>>

DeleteSkipped(c) ==
    /\ call[c].op = "delete" /\ call[c].pc = "lock" /\ call[c].vol \notin secret
    /\ Succeed(c)
    /\ UNCHANGED <<client, pv, secret, dir, job, quota, vols, volLocks, pub, bg, solo, sound, left>>

TryAcquire(v) == v \notin volLocks

DeleteLock(c) ==
    LET v == call[c].vol IN
    /\ call[c].op = "delete" /\ call[c].pc = "lock" /\ v \in secret
    /\ \/ /\ TryAcquire(v)
          /\ volLocks' = volLocks \cup {v}
          /\ call' = [call EXCEPT ![c].pc = "job"]
       \/ ~TryAcquire(v) /\ End(c) /\ UNCHANGED volLocks
    /\ UNCHANGED <<client, env, dir, job, quota, vols, pub, bg, solo, sound, left>>

(* Seeded fault: the lock is given back on success only.                    *)
JfsDeleteVolLeak(c) ==
    LET v == call[c].vol IN
    /\ call[c].op = "delete" /\ call[c].pc = "job"
    /\ \/ /\ Succeed(c)
          /\ volLocks' = volLocks \ {v}
          /\ dir' = dir \ {v} /\ vols' = [vols EXCEPT ![v] = 0]
          /\ UNCHANGED left
       \/ Spend("fail") /\ End(c) /\ UNCHANGED <<claim, dir, vols, volLocks>>
    /\ UNCHANGED <<client, pv, secret, job, quota, pub, bg, solo, sound>>

(* The job (module Provision) removes the directory, or one that was left   *)
(* behind has failed and is gone by its TTL, which is taken for success; or *)
(* there is an error, and the job may be left and may be done all the same. *)
JfsDeleteVol(c) ==
    LET v == call[c].vol IN
    /\ call[c].op = "delete" /\ call[c].pc = "job"
    /\ volLocks' = volLocks \ {v}
    /\ \/ /\ Succeed(c)
          /\ vols' = [vols EXCEPT ![v] = 0]
          /\ \/ dir' = dir \ {v} /\ job' = [job EXCEPT ![v] = "none"]
             \/ job[v] = "failed" /\ UNCHANGED <<dir, job>>
          /\ UNCHANGED left
       \/ /\ Spend("fail") /\ End(c)
          /\ \/ dir' \in {dir, dir \ {v}} /\ UNCHANGED job
             \/ job' = [job EXCEPT ![v] = "left"] /\ UNCHANGED dir
          /\ UNCHANGED <<claim, vols>>
    /\ UNCHANGED <<client, pv, secret, quota, pub, bg, solo, sound>>

(* A job without a call that waits for it.                                  *)
JobRemoves(v) ==
    /\ job[v] = "left"
    /\ job' = [job EXCEPT ![v] = "none"] /\ dir' = dir \ {v}
    /\ UNCHANGED <<client, env, quota, vols, volLocks, call, pub, bg, solo, sound, left>>

JobFails(v) ==
    /\ job[v] = "left" /\ Spend("fail")
    /\ job' = [job EXCEPT ![v] = "failed"]
    /\ UNCHANGED <<client, env, dir, quota, vols, volLocks, call, pub, bg, solo, sound>>

-----------------------------------------------------------------------------
(* SetQuota *)

QuotaOf(size) == size \div GiB
isCe          == client.ce

(* The command's effect; a client without quotas has none, and its error is *)
(* taken for success.                                                       *)
Written(v, size) == IF client.quota THEN [quota EXCEPT ![v] = QuotaOf(size)] ELSE quota

(* SetQuota that returns nil: the command was run, or, in the community     *)
(* edition, goes on in the background after four seconds or when the caller *)
(* has gone (killed).                                                       *)
SetQuota(v, size, killed) ==
    /\ QuotaOf(size) > 0
    /\ \/ /\ ~killed
          /\ quota' = Written(v, size)
          /\ UNCHANGED <<bg, left>>
       \/ /\ isCe
          /\ IF killed THEN UNCHANGED left ELSE Spend("slow")
          /\ bg' = bg \cup {<<v, size>>} /\ UNCHANGED quota

(* SetQuota that returns an error: the size is below a GiB, or the auth or  *)
(* the quota command failed or was killed, perhaps after its effect.        *)
SetQuotaFails(v, size, killed) ==
    \/ QuotaOf(size) = 0 /\ UNCHANGED <<quota, bg, left>>
    \/ QuotaOf(size) > 0 /\ killed /\ ~isCe /\ UNCHANGED <<quota, bg, left>>
    \/ /\ QuotaOf(size) > 0 /\ ~killed /\ Spend("fail") /\ UNCHANGED bg
       /\ quota' \in {quota, Written(v, size)}

(* A command in the background ends, or has failed.                         *)
QuotaInBackground(q) ==
    /\ q \in bg
    /\ bg' = bg \ {q}
    /\ \/ quota' = Written(q[1], q[2]) /\ UNCHANGED left
       \/ Spend("fail") /\ UNCHANGED quota
    /\ UNCHANGED <<client, env, dir, job, vols, volLocks, call, pub, solo, sound>>

-----------------------------------------------------------------------------
(* ControllerExpandVolume *)

(* Seeded fault: only volumes in the table are expanded.                    *)
ControllerExpandKnown(c, v) ==
    /\ claim[v].st = "bound" /\ claim[v].want > pv[v].size /\ vols[v] # 0
    /\ Begin(c, "expand", v, "quota", claim[v].want)
    /\ BeginWriter(v)
    /\ UNCHANGED <<client, env, dir, job, quota, vols, volLocks, pub, bg, left>>

ControllerExpandVolume(c, v) ==
    /\ claim[v].st = "bound" /\ claim[v].want > pv[v].size
    /\ Begin(c, "expand", v, "quota", claim[v].want)
    /\ BeginWriter(v)
    /\ UNCHANGED <<client, env, dir, job, quota, vols, volLocks, pub, bg, left>>

ExpandQuota(c) ==
    LET e == call[c] IN
    /\ e.op = "expand" /\ e.pc = "quota"
    /\ \/ /\ SetQuota(e.vol, e.size, ~e.waits)
          /\ call' = [call EXCEPT ![c].pc = "answer"]
          /\ EndWriter(e.vol, TRUE)
       \/ SetQuotaFails(e.vol, e.size, ~e.waits) /\ End(c) /\ UNCHANGED sound
    /\ UNCHANGED <<client, env, dir, job, vols, volLocks, pub, solo>>

(* The sidecar puts the new size into the PV object.                        *)
ExpandTold(c) ==
    LET e == call[c] IN
    /\ e.op = "expand" /\ e.pc = "answer"
    /\ pv' = [pv EXCEPT ![e.vol].size = IF e.waits THEN e.size ELSE @]
    /\ End(c)
    /\ UNCHANGED <<client, claim, secret, dir, job, quota, vols, volLocks, pub, bg, solo, sound, left>>

-----------------------------------------------------------------------------
(* NodePublishVolume *)

(* Seeded fault: the size is always that of the attributes.                 *)
NodePublishCreated(n, v) ==
    /\ pub[n] = IdlePub /\ claim[v].st = "bound"
    /\ BeginWriter(v)
    /\ pub' = [pub EXCEPT ![n] = [vol |-> v, size |-> pv[v].created, read |-> TRUE]]
    /\ UNCHANGED <<client, env, dir, job, quota, vols, volLocks, call, bg, left>>

(* Settings reads the PV object; when that fails the size at creation, from *)
(* the volume's attributes, is used instead.                                *)
NodePublishVolume(n, v) ==
    /\ pub[n] = IdlePub /\ claim[v].st = "bound"
    /\ BeginWriter(v)
    /\ \/ pub' = [pub EXCEPT ![n] = [vol |-> v, size |-> pv[v].size, read |-> TRUE]] /\ UNCHANGED left
       \/ /\ Spend("fail")
          /\ pub' = [pub EXCEPT ![n] = [vol |-> v, size |-> pv[v].created, read |-> FALSE]]
    /\ UNCHANGED <<client, env, dir, job, quota, vols, volLocks, call, bg>>

(* The mount, the directory and the bind are there; an error of SetQuota is *)
(* only logged.                                                             *)
PublishQuota(n) ==
    LET p == pub[n] IN
    /\ p # IdlePub
    /\ dir' = dir \cup {p.vol}
    /\ pub' = [pub EXCEPT ![n] = IdlePub]
    /\ \/ SetQuota(p.vol, p.size, FALSE) /\ EndWriter(p.vol, p.read)
       \/ /\ SetQuotaFails(p.vol, p.size, FALSE)
          /\ sound' = [sound EXCEPT ![p.vol] = @ /\ p.read]
    /\ UNCHANGED <<client, env, job, vols, volLocks, call, solo>>

-----------------------------------------------------------------------------
(* The sidecars, users, and crashes *)

GiveUp(c) ==
    /\ call[c].waits /\ Spend("giveUp")
    /\ call' = [call EXCEPT ![c].waits = FALSE]
    /\ UNCHANGED <<client, env, dir, job, quota, vols, volLocks, pub, bg, solo, sound>>

(* A claim may only grow; it goes when no pod uses it.                      *)
ClaimGrows(v) ==
    /\ claim[v].st = "bound"
    /\ \E s \in Sizes : s > claim[v].want /\ claim' = [claim EXCEPT ![v].want = s]
    /\ UNCHANGED <<client, pv, secret, dir, job, quota, vols, volLocks, call, pub, bg, solo, sound, left>>

ClaimReleased(v) ==
    /\ claim[v].st = "bound" /\ ~Publishing(v)
    /\ claim' = [claim EXCEPT ![v].st = "released"]
    /\ UNCHANGED <<client, pv, secret, dir, job, quota, vols, volLocks, call, pub, bg, solo, sound, left>>

SecretDeleted(v) ==
    /\ claim[v].st = "released" /\ v \in secret
    /\ secret' = secret \ {v}
    /\ UNCHANGED <<client, claim, pv, dir, job, quota, vols, volLocks, call, pub, bg, solo, sound, left>>

(* The controller restarts: its memory and its commands are gone; two       *)
(* concurrent writes of vols are such a crash, too.                         *)
Crash ==
    /\ Spend("crash")
    /\ call' = [c \in Slots |-> IdleCall] /\ volLocks' = {} /\ bg' = {}
    /\ vols' = [v \in Vols |-> 0]
    /\ \E jobs \in SUBSET {v \in Vols : \E c \in Slots : call[c].vol = v /\ call[c].pc = "job"} :
          job' = [v \in Vols |-> IF v \in jobs THEN "left" ELSE job[v]]
    /\ UNCHANGED <<client, env, dir, quota, pub, solo, sound>>

-----------------------------------------------------------------------------
Serve(c) ==
    \/ \E v \in Vols : DeleteVolume(c, v) \/ ControllerExpandVolume(c, v)
    \/ DeleteSkipped(c) \/ DeleteLock(c) \/ JfsDeleteVol(c)
    \/ ExpandQuota(c) \/ ExpandTold(c)

Next ==
    \/ \E c \in Slots : Serve(c) \/ GiveUp(c)
    \/ \E v \in Vols : CreateVolume(v) \/ ClaimGrows(v) \/ ClaimReleased(v) \/ SecretDeleted(v)
                     \/ JobRemoves(v) \/ JobFails(v)
    \/ \E n \in Nodes : PublishQuota(n) \/ \E v \in Vols : NodePublishVolume(n, v)
    \/ \E q \in bg : QuotaInBackground(q)
    \/ Crash

(* The sidecars call until they succeed; calls and commands end.            *)
Fairness ==
    /\ \A c \in Slots : WF_vars(Serve(c))
    /\ \A v \in Vols : WF_vars(CreateVolume(v))
    /\ \A n \in Nodes : WF_vars(PublishQuota(n))
    /\ \A q \in Vols \X Sizes : WF_vars(QuotaInBackground(q))

Spec     == Init /\ [][Next]_vars
FairSpec == Spec /\ Fairness

-----------------------------------------------------------------------------
(* Properties *)

(* The quota follows the size.  A directory with a quota is never held below *)
(* the size its PV object tells, and at rest holds exactly that size, unless *)
(* two quota writers of the volume (ControllerExpandVolume, SetQuota of     *)
(* NodePublishVolume) overlapped, one left its command in the background or *)
(* could not read the PV object, and none has finished alone since.         *)
QuotaCovers ==
    \A v \in Vols :
        (sound[v] /\ quota[v] # 0 /\ claim[v].st = "bound") =>
            /\ quota[v] >= pv[v].size \div GiB
            /\ (~QuotaBusy(v) /\ claim[v].want = pv[v].size) => quota[v] = pv[v].size \div GiB

(* A writable claim gets its volume, though CreateVolume is repeated after  *)
(* lost answers and restarts with what it left in vols.                     *)
Created == \A v \in Vols : ~claim[v].ro ~> claim[v].st # "pending"

(* An expansion to a GiB or more comes through in the end.                  *)
Expanded ==
    \A v \in Vols :
        (claim[v].st = "bound" /\ claim[v].want > pv[v].size /\ claim[v].want >= GiB)
            ~> (claim[v].st # "bound" \/ claim[v].want = pv[v].size)

(* A released volume goes, and its directory with it, except when the       *)
(* secret was deleted first, or when a job that outlived the DeleteVolume   *)
(* that created it failed and the next one took it for done.                *)
Deleted ==
    \A v \in Vols : claim[v].st = "released" ~>
        (claim[v].st = "gone" /\ (v \notin dir \/ v \notin secret \/ job[v] = "failed"))

=============================================================================
