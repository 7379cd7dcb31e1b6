--------------------------- MODULE RecoverTarget ---------------------------
(***************************************************************************)
(* The stack of bind mounts at a published target path and at the subPath  *)
(* mount of its container, and what podReadyHandler does to them: after    *)
(* the FUSE mount died, recoverTarget binds the new one over the dead      *)
(* entries and keeps the stack below a limit.  It works from a parse of    *)
(* /proc/self/mountinfo that may be minutes old, without the pod lock, so  *)
(* NodePublishVolume, NodeUnpublishVolume and further failures of the FUSE *)
(* mount come in between.                                                  *)
(***************************************************************************)
EXTENDS Integers, Sequences

CONSTANTS
    Remain,      \* defaultTargetMountCounts
    MaxDeath,    \* bound: how often the FUSE mount dies
    EarlyRound   \* whether a round may begin before the target is bound

ASSUME RemainAssumption ==
    Remain \in Nat /\ Remain > 1 /\ MaxDeath \in Nat /\ EarlyRound \in BOOLEAN

VARIABLES
    stack,  \* mount point -> its entries in mountinfo, the oldest first
    dir,    \* whether the target directory exists
    up,     \* whether the mount path holds a live FUSE mount
    gone,   \* whether the directory behind the subPath was removed
    app,    \* the application pod
    call,   \* progress of NodePublishVolume, then of NodeUnpublishVolume
    drv,    \* the run of the driver for the mount pod
    deaths  \* how often the FUSE mount has died

vars == <<stack, dir, up, gone, app, call, drv, deaths>>

(* The target itself and the volume-subpaths mount of the container.        *)
Points == {"base", "sub"}

(* Where in the file system an entry is rooted: the volume's subPath, a     *)
(* directory below it, or the top of the file system.                       *)
Roots == {"vol", "volSub", "top"}
Entry == [live: BOOLEAN, root: Roots]

RootOf(m) == IF m = "base" THEN "vol" ELSE "volSub"

Statuses == {"NotExist", "Mounted", "NotMount", "Corrupt"}
Item     == [count: Nat, root: Roots, inconsistent: BOOLEAN, status: Statuses]

CallPCs == {"none", "bind", "published", "umount", "cleanup", "done"}
DrvPCs  == {"idle", "parse", "stat", "resolve", "base", "baseMount", "sub", "subMount"}

(* down: the application pod is in the kubelet's list as being deleted;     *)
(* mis: mountinfo as parsed; items: what resolveTarget found.               *)
Drv     == [pc: DrvPCs, down: BOOLEAN, mis: [Points -> Seq(Entry)], items: [Points -> Item]]
NoItem  == [count |-> 0, root |-> "top", inconsistent |-> FALSE, status |-> "NotMount"]
IdleDrv == [pc |-> "idle", down |-> FALSE, mis |-> [m \in Points |-> <<>>],
            items |-> [m \in Points |-> NoItem]]

TypeOK ==
    /\ stack \in [Points -> Seq(Entry)]
    /\ dir \in BOOLEAN /\ up \in BOOLEAN /\ gone \in BOOLEAN
    /\ app \in {"running", "terminating", "gone"}
    /\ call \in CallPCs
    /\ drv \in Drv
    /\ deaths \in 0..MaxDeath

LiveEntry(m) == [live |-> TRUE, root |-> RootOf(m)]

Init ==
    /\ up = TRUE /\ gone = FALSE /\ app = "running" /\ drv = IdleDrv /\ deaths = 0
    /\ dir = FALSE /\ call = "none" /\ stack = [m \in Points |-> <<>>]

Mounted(m)  == stack[m] # <<>>
TopEntry(m) == stack[m][Len(stack[m])]
Pop(m)      == stack' = [stack EXCEPT ![m] = SubSeq(@, 1, Len(@) - 1)]

-----------------------------------------------------------------------------
(* NodePublishVolume and NodeUnpublishVolume *)

CreateTarget ==
    /\ call = "none" /\ app = "running"
    /\ dir' = TRUE
    /\ call' = "bind"
    /\ UNCHANGED <<stack, up, gone, app, drv, deaths>>

(* The mount path has to be mounted; the kubelet calls again on an error.   *)
BindTarget ==
    /\ call = "bind" /\ up /\ ~Mounted("base")
    /\ stack' = [stack EXCEPT !["base"] = Append(@, LiveEntry("base"))]
    /\ call' = "published"
    /\ UNCHANGED <<dir, up, gone, app, drv, deaths>>

(* umount -l until the target is not mounted; the kubelet calls when the    *)
(* containers have ended and the subPath mount is gone.                     *)
UmountTarget ==
    /\ \/ call \in {"bind", "published"} /\ app # "running" /\ ~Mounted("sub")
       \/ call = "umount"
    /\ IF Mounted("base") THEN Pop("base") /\ call' = "umount"
                          ELSE call' = "cleanup" /\ UNCHANGED stack
    /\ UNCHANGED <<dir, up, gone, app, drv, deaths>>

(* Seeded fault: the directory is left.                                     *)
CleanupMountPointKeepsDir ==
    /\ call = "cleanup"
    /\ call' = "done"
    /\ UNCHANGED <<stack, dir, up, gone, app, drv, deaths>>

(* The directory is removed, which fails while something is mounted on it:  *)
(* the kubelet calls again.                                                 *)
CleanupMountPoint ==
    /\ call = "cleanup"
    /\ IF Mounted("base") THEN call' = "umount" /\ UNCHANGED dir
                          ELSE call' = "done" /\ dir' = FALSE
    /\ UNCHANGED <<stack, up, gone, app, drv, deaths>>

-----------------------------------------------------------------------------
(* The run of the driver for a ready mount pod *)

End == drv' = IdleDrv

(* doReconcile: the kubelet's pod list, then mountinfo.                     *)
doReconcile ==
    /\ drv.pc = "idle" /\ call # "none" /\ (call = "bind" => EarlyRound)
    /\ drv' = [drv EXCEPT !.pc = "parse", !.down = (app = "terminating")]
    /\ UNCHANGED <<stack, dir, up, gone, app, call, deaths>>

parse ==
    /\ drv.pc = "parse"
    /\ drv' = [drv EXCEPT !.pc = "stat", !.mis = stack]
    /\ UNCHANGED <<stack, dir, up, gone, app, call, deaths>>

podReadyHandler ==
    /\ drv.pc = "stat"
    /\ IF up THEN drv' = [drv EXCEPT !.pc = "resolve"] ELSE End
    /\ UNCHANGED <<stack, dir, up, gone, app, call, deaths>>

(* os.Stat of a mount point now.                                            *)
Stat(m) ==
    CASE ~Mounted(m) -> IF m = "base" /\ dir THEN "ok" ELSE "ENOENT"
      [] Mounted(m) /\ ~TopEntry(m).live -> "ENOTCONN"
      [] OTHER -> IF m = "sub" /\ gone THEN "ENOENT" ELSE "ok"

check(m, mounted) ==
    CASE Stat(m) = "ENOENT" -> "NotExist"
      [] Stat(m) = "ENOTCONN" -> "Corrupt"
      [] OTHER -> IF mounted THEN "Mounted" ELSE "NotMount"

(* The status is of now, the count and the root are of the parse; without   *)
(* an entry the root is empty, which stands for the top.                    *)
resolveTargetItem(m) ==
    LET es == drv.mis[m] IN
    [count |-> Len(es),
     root |-> IF es = <<>> THEN "top" ELSE es[1].root,
     inconsistent |-> \E i \in 1..Len(es) : es[i].root # es[1].root,
     status |-> check(m, es # <<>>)]

resolveTarget ==
    /\ drv.pc = "resolve"
    /\ drv' = [drv EXCEPT !.pc = "base", !.items = [m \in Points |-> resolveTargetItem(m)]]
    /\ UNCHANGED <<stack, dir, up, gone, app, call, deaths>>

MountPC(m) == IF m = "base" THEN "baseMount" ELSE "subMount"

Done(m) == IF m = "base" THEN drv' = [drv EXCEPT !.pc = "sub"] ELSE End

(* umountTargetUntilRemain parses mountinfo anew; a subPath mount that is   *)
(* not there any more gets the count of the target.                         *)
Count(m) == IF m = "sub" /\ ~Mounted(m) THEN Len(stack["base"]) ELSE Len(stack[m])

(* Seeded fault: the comparison of the count is off by one.                 *)
BelowRemainOff(m) == Count(m) <= Remain

BelowRemain(m) == Count(m) < Remain

(* Seeded fault: the test for a deleted application pod is inverted.        *)
ToRecoverDeleted(m) ==
    /\ drv.items[m].status = "Corrupt" /\ ~drv.items[m].inconsistent /\ drv.down
    /\ m = "sub" => drv.items[m].count > 0

ToRecover(m) ==
    /\ drv.items[m].status = "Corrupt" /\ ~drv.items[m].inconsistent /\ ~drv.down
    /\ m = "sub" => drv.items[m].count > 0

(* Seeded fault: all entries are unmounted before the new one is bound.     *)
recoverTargetAll(m) ==
    /\ drv.pc = m
    /\ IF ToRecover(m)
         THEN /\ stack' = [stack EXCEPT ![m] = <<>>]
              /\ drv' = [drv EXCEPT !.pc = MountPC(m)]
         ELSE Done(m) /\ UNCHANGED stack
    /\ UNCHANGED <<dir, up, gone, app, call, deaths>>

(* Below the limit the new mount follows.  At the limit one entry is        *)
(* unmounted and the select that follows waits for the end of the context:  *)
(* after two minutes the target is given up for this round.  A mount point  *)
(* that does not exist is unmounted for a deleted application.              *)
recoverTarget(m) ==
    LET it == drv.items[m] IN
    /\ drv.pc = m
    /\ \/ /\ ToRecover(m) /\ BelowRemain(m)
          /\ drv' = [drv EXCEPT !.pc = MountPC(m)]
          /\ UNCHANGED stack
       \/ /\ ToRecover(m) /\ ~BelowRemain(m)
          /\ Pop(m)
          /\ Done(m)
       \/ /\ it.status = "NotExist" /\ it.count > 0 /\ drv.down
          /\ stack' = [stack EXCEPT ![m] =
                          SubSeq(@, 1, IF Len(@) > it.count THEN Len(@) - it.count ELSE 0)]
          /\ Done(m)
       \/ /\ ~ToRecover(m) /\ ~(it.status = "NotExist" /\ it.count > 0 /\ drv.down)
          /\ Done(m)
          /\ UNCHANGED stack
    /\ UNCHANGED <<dir, up, gone, app, call, deaths>>

(* Seeded fault: the new mount is of the mount path itself.                 *)
recoverMountTop(m) ==
    /\ drv.pc = MountPC(m)
    /\ stack' = IF m = "base" /\ ~dir THEN stack
                ELSE [stack EXCEPT ![m] = Append(@, [live |-> up, root |-> "top"])]
    /\ Done(m)
    /\ UNCHANGED <<dir, up, gone, app, call, deaths>>

(* mount -o bind of the mount path and the root found; a root that cannot   *)
(* be read is not mounted.                                                  *)
recoverMount(m) ==
    LET r == drv.items[m].root IN
    /\ drv.pc = MountPC(m)
    /\ IF \/ r # "top" /\ (~up \/ (r = "volSub" /\ gone))
          \/ ~Mounted(m) /\ (m = "base" => ~dir)
         THEN UNCHANGED stack
         ELSE stack' = [stack EXCEPT ![m] = Append(@, [live |-> up, root |-> r])]
    /\ Done(m)
    /\ UNCHANGED <<dir, up, gone, app, call, deaths>>

-----------------------------------------------------------------------------
(* The mount pod, the kubelet, the application *)

FuseDies ==
    /\ up /\ deaths < MaxDeath
    /\ up' = FALSE
    /\ deaths' = deaths + 1
    /\ stack' = [m \in Points |-> [i \in 1..Len(stack[m]) |-> [stack[m][i] EXCEPT !.live = FALSE]]]
    /\ UNCHANGED <<dir, gone, app, call, drv>>

FuseBack ==
    /\ ~up
    /\ up' = TRUE
    /\ UNCHANGED <<stack, dir, gone, app, call, drv, deaths>>

(* The kubelet prepares the subPath mount of the container.                 *)
SubPathMount ==
    /\ call = "published" /\ app = "running" /\ ~Mounted("sub") /\ ~gone
    /\ Mounted("base") /\ TopEntry("base").live
    /\ stack' = [stack EXCEPT !["sub"] = <<LiveEntry("sub")>>]
    /\ UNCHANGED <<dir, up, gone, app, call, drv, deaths>>

(* The kubelet unmounts the subPath mount when the containers have ended.   *)
SubPathUnmount ==
    /\ app # "running" /\ Mounted("sub")
    /\ Pop("sub")
    /\ UNCHANGED <<dir, up, gone, app, call, drv, deaths>>

SourceRemoved ==
    /\ ~gone /\ up /\ Mounted("sub")
    /\ gone' = TRUE
    /\ UNCHANGED <<stack, dir, up, app, call, drv, deaths>>

AppStep ==
    /\ \/ app = "running" /\ app' = "terminating"
       \/ app = "terminating" /\ app' = "gone"
    /\ UNCHANGED <<stack, dir, up, gone, call, drv, deaths>>

-----------------------------------------------------------------------------
CallStep == CreateTarget \/ BindTarget \/ UmountTarget \/ CleanupMountPoint

DrvStep ==
    \/ doReconcile \/ parse \/ podReadyHandler \/ resolveTarget
    \/ \E m \in Points : recoverTarget(m) \/ recoverMount(m)

Next ==
    \/ CallStep \/ DrvStep
    \/ FuseDies \/ FuseBack \/ SubPathMount \/ SubPathUnmount \/ SourceRemoved \/ AppStep

Spec == Init /\ [][Next]_vars

(* Rounds follow one another (doReconcile never ends), the kubelet restarts *)
(* the mount pod's container and calls again, threads run.                  *)
Fairness == WF_vars(DrvStep) /\ WF_vars(CallStep) /\ WF_vars(FuseBack)

FairSpec == Spec /\ Fairness

-----------------------------------------------------------------------------
(* Properties *)

Running(m) == app = "running" /\ (m = "base" => call = "published")

(* While the application runs, a mount point it got is never left without   *)
(* any mount, dead or alive, by recoverTarget: it would write to the disk   *)
(* of the node.                                                             *)
NeverBare ==
    [][\A m \in Points : (Running(m) /\ Mounted(m)) => Mounted(m)']_vars

(* The entries for one mount point in mountinfo stay within the limit of    *)
(* umountTargetUntilRemain, however often the mount pod is restarted.       *)
Bounded == \A m \in Points : Len(stack[m]) <= Remain

(* A recovered mount point shows the application the directory that it      *)
(* showed before (resolveTargetItem takes it from mountinfo, recoverTarget  *)
(* binds it).                                                               *)
RootKept ==
    \A m \in Points :
        (Mounted(m) /\ TopEntry(m).live) => TopEntry(m).root = RootOf(m)

(* NodeUnpublishVolume has returned: nothing is mounted at the target, and  *)
(* no run of the driver that is still busy mounts there again.              *)
Unpublished == call = "done" => ~Mounted("base")

(* podReadyHandler gives a running application its mount points back, as    *)
(* long as the directory behind the subPath is there.                       *)
Recovers ==
    \A m \in Points :
        (Running(m) /\ Mounted(m) /\ ~TopEntry(m).live) ~>
            (~Running(m) \/ gone \/ (Mounted(m) /\ TopEntry(m).live))

=============================================================================
