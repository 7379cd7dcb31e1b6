---------------------------- MODULE ProcessMount ----------------------------
(***************************************************************************)
(* One volume on one node when JuiceFS runs in the CSI node service's own  *)
(* container (--by-process), community edition.  There are no mount pods,  *)
(* no annotations and no locks: what the driver knows of the users of the  *)
(* volume is what it reads in mountinfo.  The clients, NodePublishVolume   *)
(* and NodeUnpublishVolume calls of different targets, run concurrently;   *)
(* one step is one look at mountinfo or one mount operation.               *)
(***************************************************************************)
EXTENDS Integers, Sequences, FiniteSetsExt, SequencesExt

CONSTANTS
    Targets,    \* target paths of the application pods
    ReadOnly,   \* those that are published read-only, of a volume with a subPath
    MountPath,  \* the path the volume is mounted on, before it is bound to targets
    MaxDev,     \* bound: FUSE devices of the volume that exist at the same time
    MaxOverlap, \* bound: calls that start while another one is under way
    MaxSlow,    \* bound: mounts that take longer than 30 seconds
    MaxFault    \* bound: directories not made, replies lost, processes killed, crashes

ASSUME MountPathAssumption == MountPath \notin Targets
ASSUME ReadOnlyAssumption == ReadOnly \subseteq Targets
ASSUME BoundAssumption ==
    /\ MaxDev \in Nat /\ MaxOverlap \in Nat /\ MaxSlow \in Nat /\ MaxFault \in Nat

VARIABLES
    table,     \* mountinfo: the mounts in the order they were made
    mounting,  \* devices of mount commands that have started and not mounted yet
    dead,      \* devices whose process is gone
    dir,       \* where the volume's directory exists: in the volume, under the bare path
    known,     \* whether UUIDMaps and CacheDirMaps hold the volume
    app,       \* target -> state of the application pod
    kvol,      \* target -> what the kubelet knows of the volume
    op,        \* target -> its call
    left       \* what is left of the bounds

vars == <<table, mounting, dead, dir, known, app, kvol, op, left>>

procs   == <<mounting, dead>>
kubelet == <<app, kvol>>

-----------------------------------------------------------------------------
(* mountinfo *)

Host  == 0             \* the device of the node's own file system
Devs  == 1..MaxDev
Paths == Targets \cup {MountPath}
Entry == [mp: Paths, dev: Devs \cup {Host}]

(* Of several mounts on one path the last one covers the others.            *)
LinesOf(mp) == {i \in DOMAIN table : table[i].mp = mp}
Mounted(mp) == LinesOf(mp) # {}
TopLine(mp) == Max(LinesOf(mp))
Device(mp)  == table[TopLine(mp)].dev

Corrupted(mp) == Mounted(mp) /\ Device(mp) \in dead
Live(mp)      == Mounted(mp) /\ Device(mp) \notin dead

Umounted(mp) == RemoveAt(table, TopLine(mp))

(* Mount points of the path's device, each with its line.                   *)
RefsAt(lines) == {<<i, table[i].mp>> : i \in lines}

(* Seeded fault: the line of the path itself is counted.                    *)
GetMountDeviceRefsSelf(mp) == RefsAt({i \in DOMAIN table : table[i].dev = Device(mp)})

(* The other mount points of the path's device.  The node's own file system *)
(* is mounted in many places that the table leaves out.                     *)
GetMountDeviceRefs(mp) ==
    IF Device(mp) = Host THEN {0, 1} \X {mp}
    ELSE RefsAt({i \in DOMAIN table : i # TopLine(mp) /\ table[i].dev = Device(mp)})

(* JUmount asks whether there is just one, and for its path.                *)
OnlyOne(refs) == \E r \in refs : refs = {r}
First(refs)   == (CHOOSE r \in refs : TRUE)[2]

-----------------------------------------------------------------------------
PCs == {"idle", "target", "check", "umount", "start", "wait", "make", "unmake", "vol", "parse",
        "unbind", "bind", "reply", "jUmount", "umTarget", "umRef", "clean"}

(* made: JCreateVolume is done; last: GetMountRef returned 1; refs: the     *)
(* references JUmount has read; err: what JUmount is going to return.       *)
Op     == [pc: PCs, made: BOOLEAN, last: BOOLEAN, refs: SUBSET (Nat \X Paths), err: BOOLEAN]
IdleOp == [pc |-> "idle", made |-> FALSE, last |-> FALSE, refs |-> {}, err |-> FALSE]

Left == [overlap: 0..MaxOverlap, slow: 0..MaxSlow, fault: 0..MaxFault]

TypeOK ==
    /\ table \in Seq(Entry)
    /\ mounting \subseteq Devs /\ dead \subseteq Devs
    /\ dir \subseteq {"volume", "host"}
    /\ known \in BOOLEAN
    /\ app \in [Targets -> {"new", "running", "gone"}]
    /\ kvol \in [Targets -> {"unmounted", "uncertain", "mounted"}]
    /\ op \in [Targets -> Op]
    /\ left \in Left

(* dir starts empty for a volume with a new subPath; without a subPath the  *)
(* directory is the mount path itself.                                      *)
Init ==
    /\ table = <<>>
    /\ mounting = {} /\ dead = {}
    /\ dir \in {{}, {"volume", "host"}}
    /\ known = FALSE
    /\ app = [t \in Targets |-> "new"]
    /\ kvol = [t \in Targets |-> "unmounted"]
    /\ op = [t \in Targets |-> IdleOp]
    /\ left = [overlap |-> MaxOverlap, slow |-> MaxSlow, fault |-> MaxFault]

Goto(t, pc) == op' = [op EXCEPT ![t].pc = pc]

Return(t, k) ==
    /\ op' = [op EXCEPT ![t] = IdleOp]
    /\ kvol' = [kvol EXCEPT ![t] = k]

Use(what) == left[what] > 0 /\ left' = [left EXCEPT ![what] = @ - 1]

(* The kubelet has at most one call per target under way.                   *)
StartCall(t) ==
    /\ op[t].pc = "idle"
    /\ \/ (\A u \in Targets : op[u].pc = "idle") /\ UNCHANGED left
       \/ (\E u \in Targets : op[u].pc # "idle") /\ Use("overlap")

-----------------------------------------------------------------------------
(* NodePublishVolume *)

NodePublishVolume(t) ==
    /\ StartCall(t) /\ app[t] = "running" /\ kvol[t] # "mounted"
    /\ kvol' = [kvol EXCEPT ![t] = "uncertain"]
    /\ Goto(t, "target")
    /\ UNCHANGED <<table, procs, dir, known, app>>

(* Corrupted mounts are unmounted until the path can be read; then          *)
(* genJfsSettings records the volume for the cache clean-up.                *)
CreateTarget(t) ==
    /\ op[t].pc = "target"
    /\ \/ /\ Corrupted(t)
          /\ table' = Umounted(t)
          /\ UNCHANGED <<known, op>>
       \/ /\ ~Corrupted(t)
          /\ known' = TRUE
          /\ Goto(t, "check")
          /\ UNCHANGED table
    /\ UNCHANGED <<procs, dir, kubelet, left>>

(* PathExists fails on a corrupted mount path; a mounted one is unmounted.  *)
jmount(t) ==
    /\ op[t].pc = "check"
    /\ IF Corrupted(MountPath) THEN Return(t, "uncertain")
       ELSE /\ Goto(t, IF Mounted(MountPath) THEN "umount" ELSE "start")
            /\ UNCHANGED kvol
    /\ UNCHANGED <<table, procs, dir, known, app, left>>

(* Seeded fault: umount --all-targets.                                      *)
jmountUnmountAll(t) ==
    /\ op[t].pc = "umount"
    /\ IF Mounted(MountPath)
       THEN /\ table' = SelectSeq(table, LAMBDA e : e.dev # Device(MountPath))
            /\ Goto(t, "start") /\ UNCHANGED kvol
       ELSE Return(t, "uncertain") /\ UNCHANGED table
    /\ UNCHANGED <<procs, dir, known, app, left>>

jmountUnmount(t) ==
    /\ op[t].pc = "umount"
    /\ IF Mounted(MountPath)
       THEN table' = Umounted(MountPath) /\ Goto(t, "start") /\ UNCHANGED kvol
       ELSE Return(t, "uncertain") /\ UNCHANGED table
    /\ UNCHANGED <<procs, dir, known, app, left>>

(* The command runs on its own; the kernel gives it a free device number.   *)
jmountStart(t) ==
    LET free == {d \in Devs \ mounting : \A i \in DOMAIN table : table[i].dev # d} IN
    /\ op[t].pc = "start" /\ free # {}
    /\ mounting' = mounting \cup {Min(free)}
    /\ dead' = dead \ {Min(free)}
    /\ Goto(t, "wait")
    /\ UNCHANGED <<table, dir, known, kubelet, left>>

(* A root inode under the mount path, whoever mounted it, or 30 seconds.    *)
jmountWait(t) ==
    /\ op[t].pc = "wait"
    /\ \/ /\ Live(MountPath)
          /\ Goto(t, IF t \in ReadOnly /\ ~op[t].made THEN "make" ELSE "vol")
          /\ UNCHANGED <<kvol, left>>
       \/ ~Live(MountPath) /\ Use("slow") /\ Return(t, "uncertain")
       \/ Corrupted(MountPath) /\ Return(t, "uncertain") /\ UNCHANGED left
    /\ UNCHANGED <<table, procs, dir, known, app>>

(* The volume's directory is made in whatever is found at the mount path.   *)
(* It may fail, on a read-only mount for one.                               *)
MakeDir(t, pc) ==
    /\ \/ /\ ~Corrupted(MountPath)
          /\ dir' = dir \cup {IF Mounted(MountPath) THEN "volume" ELSE "host"}
          /\ Goto(t, pc)
          /\ UNCHANGED <<kvol, left>>
       \/ Corrupted(MountPath) /\ Return(t, "uncertain") /\ UNCHANGED <<dir, left>>
       \/ Use("fault") /\ Return(t, "uncertain") /\ UNCHANGED dir
    /\ UNCHANGED <<table, procs, known, app>>

(* For a read-only mount the directory is made on a mount of its own, which *)
(* is taken off again before jmount is called once more.                    *)
JCreateVolume(t) == op[t].pc = "make" /\ MakeDir(t, "unmake")

JCreateVolumeUmount(t) ==
    /\ op[t].pc = "unmake"
    /\ IF Mounted(MountPath)
       THEN /\ table' = Umounted(MountPath)
            /\ op' = [op EXCEPT ![t].pc = "check", ![t].made = TRUE]
            /\ UNCHANGED kvol
       ELSE Return(t, "uncertain") /\ UNCHANGED table
    /\ UNCHANGED <<procs, dir, known, app, left>>

CreateVol(t) == op[t].pc = "vol" /\ MakeDir(t, "parse")

(* The target's minor is compared by its pointer to the loop variable, so   *)
(* it is the minor of the last line of mountinfo, of this volume or not.    *)
BindTargetParse(t) ==
    /\ op[t].pc = "parse"
    /\ \/ ~Mounted(MountPath) /\ Return(t, "uncertain")
       \/ /\ Mounted(MountPath)
          /\ \/ ~Mounted(t) /\ Goto(t, "bind")
             \/ Mounted(t) /\ Last(table).dev = Device(MountPath) /\ Goto(t, "reply")
             \/ Mounted(t) /\ Goto(t, "unbind")
          /\ UNCHANGED kvol
    /\ UNCHANGED <<table, procs, dir, known, app, left>>

(* Seeded fault: the old mount is covered by the new one.                   *)
BindTargetCover(t) ==
    /\ op[t].pc = "unbind"
    /\ Goto(t, "bind")
    /\ UNCHANGED <<table, procs, dir, known, kubelet, left>>

BindTargetUmount(t) ==
    /\ op[t].pc = "unbind"
    /\ table' = IF Mounted(t) THEN Umounted(t) ELSE table
    /\ Goto(t, "bind")
    /\ UNCHANGED <<procs, dir, known, kubelet, left>>

BindTarget(t) ==
    LET where == IF Mounted(MountPath) THEN "volume" ELSE "host"
        dev   == IF Mounted(MountPath) THEN Device(MountPath) ELSE Host
    IN
    /\ op[t].pc = "bind"
    /\ IF ~Corrupted(MountPath) /\ where \in dir
       THEN /\ table' = Append(table, [mp |-> t, dev |-> dev])
            /\ Goto(t, "reply")
            /\ UNCHANGED kvol
       ELSE Return(t, "uncertain") /\ UNCHANGED table
    /\ UNCHANGED <<procs, dir, known, app, left>>

(* The reply reaches the kubelet, or does not.                              *)
PublishReply(t) ==
    /\ op[t].pc = "reply"
    /\ \/ Return(t, "mounted") /\ UNCHANGED left
       \/ Use("fault") /\ Return(t, "uncertain")
    /\ UNCHANGED <<table, procs, dir, known, app>>

-----------------------------------------------------------------------------
(* NodeUnpublishVolume: GetMountRef, JUmount, CleanCache *)

JfsUnmount(t) ==
    /\ StartCall(t) /\ kvol[t] # "unmounted" /\ app[t] = "gone"
    /\ op' = [op EXCEPT ![t].pc = "jUmount",
                        ![t].last = Mounted(t) /\ OnlyOne(GetMountDeviceRefs(t))]
    /\ UNCHANGED <<table, procs, dir, known, kubelet>>

JUmount(t) ==
    /\ op[t].pc = "jUmount"
    /\ op' = [op EXCEPT ![t].pc = IF Mounted(t) THEN "umTarget" ELSE "clean",
                        ![t].refs = IF Mounted(t) THEN GetMountDeviceRefs(t) ELSE {}]
    /\ UNCHANGED <<table, procs, dir, known, kubelet, left>>

JUmountTarget(t) ==
    /\ op[t].pc = "umTarget"
    /\ IF Mounted(t)
       THEN /\ table' = Umounted(t)
            /\ Goto(t, IF OnlyOne(op[t].refs) THEN "umRef" ELSE "clean")
       ELSE /\ op' = [op EXCEPT ![t].pc = "clean", ![t].err = TRUE]
            /\ UNCHANGED table
    /\ UNCHANGED <<procs, dir, known, kubelet, left>>

JUmountRef(t) ==
    LET ref == First(op[t].refs) IN
    /\ op[t].pc = "umRef"
    /\ table' = IF Mounted(ref) THEN Umounted(ref) ELSE table
    /\ op' = [op EXCEPT ![t].pc = "clean", ![t].err = ~Mounted(ref)]
    /\ UNCHANGED <<procs, dir, known, kubelet, left>>

(* An error of JUmount is returned after the maps have been cleared.        *)
CleanCache(t) ==
    /\ op[t].pc = "clean"
    /\ known' = (known /\ ~op[t].last)
    /\ Return(t, IF op[t].err THEN "uncertain" ELSE "unmounted")
    /\ UNCHANGED <<table, procs, dir, app, left>>

-----------------------------------------------------------------------------
(* The mount commands, the applications, failures *)

(* The client refuses a corrupted mount point and covers a live one.        *)
MountCommand(d) ==
    /\ d \in mounting
    /\ mounting' = mounting \ {d}
    /\ table' = IF Corrupted(MountPath) THEN table
                ELSE Append(table, [mp |-> MountPath, dev |-> d])
    /\ UNCHANGED <<dead, dir, known, kubelet, op, left>>

MountProcessDies(d) ==
    /\ d \notin dead /\ \E i \in DOMAIN table : table[i].dev = d
    /\ Use("fault")
    /\ dead' = dead \cup {d}
    /\ UNCHANGED <<table, mounting, dir, known, kubelet, op>>

AppStep(t) ==
    /\ \/ app[t] = "new" /\ app' = [app EXCEPT ![t] = "running"]
       \/ app[t] = "running" /\ app' = [app EXCEPT ![t] = "gone"]
    /\ UNCHANGED <<table, procs, dir, known, kvol, op, left>>

(* The container takes its mount processes with it; mountinfo stays.        *)
Crash ==
    /\ Use("fault")
    /\ mounting' = {} /\ dead' = Devs
    /\ known' = FALSE
    /\ op' = [t \in Targets |-> IdleOp]
    /\ UNCHANGED <<table, dir, kubelet>>

-----------------------------------------------------------------------------
Step(t) ==
    \/ NodePublishVolume(t) \/ CreateTarget(t) \/ jmount(t) \/ jmountUnmount(t)
    \/ jmountStart(t) \/ jmountWait(t) \/ JCreateVolume(t) \/ JCreateVolumeUmount(t)
    \/ CreateVol(t) \/ BindTargetParse(t)
    \/ BindTargetUmount(t) \/ BindTarget(t) \/ PublishReply(t)
    \/ JfsUnmount(t) \/ JUmount(t) \/ JUmountTarget(t) \/ JUmountRef(t) \/ CleanCache(t)

Next ==
    \/ \E t \in Targets : Step(t) \/ AppStep(t)
    \/ \E d \in Devs : MountCommand(d) \/ MountProcessDies(d)
    \/ Crash

Spec == Init /\ [][Next]_vars

-----------------------------------------------------------------------------
(* Properties *)

InUse(t) == kvol[t] = "mounted" /\ app[t] = "running"

(* Calls came one at a time and no mount took longer than jmount waits.     *)
Orderly == left.overlap = MaxOverlap /\ left.slow = MaxSlow

(* A target that was published for a running application stays mounted:     *)
(* JUmount of another target takes off the mount path, when its target was  *)
(* the only one left, and never somebody else's target.  The code keeps     *)
(* this promise only to calls that do not overlap.                          *)
Served == Orderly => \A t \in Targets : InUse(t) => Mounted(t)

(* A target whose NodeUnpublishVolume has succeeded is not mounted, also if *)
(* the call before it failed, was repeated or overlapped with others:       *)
(* JUmount takes off one mount, so BindTarget must never leave two.         *)
Released == \A t \in Targets : kvol[t] = "unmounted" => ~Mounted(t)

(* When every target is released, nothing of the volume stays mounted, as   *)
(* long as nothing failed: the mount path goes with the last target of its  *)
(* device, whatever the order in which the targets were published.          *)
Quiet == mounting = {} /\ \A t \in Targets : op[t].pc = "idle" /\ kvol[t] = "unmounted"

NoMountLeft == (Quiet /\ Orderly /\ left.fault = MaxFault) => table = <<>>

=============================================================================
