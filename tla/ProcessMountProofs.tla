------------------------- MODULE ProcessMountProofs -------------------------
(***************************************************************************)
(* In process mode mountinfo is all the driver knows.  Whatever overlaps,  *)
(* a released target is not mounted; when calls come one at a time, the    *)
(* targets of running applications stay mounted, and, when nothing fails   *)
(* either, nothing stays mounted behind the last one.                      *)
(***************************************************************************)
EXTENDS ProcessMount, SequenceTheorems, WellFoundedInduction, TLAPS

-----------------------------------------------------------------------------
(* The inductive invariant *)

(* d is the device of a mount on mp.                                        *)
On(mp, d) == \E i \in LinesOf(mp) : table[i].dev = d

(* There is at most one mount on mp.                                        *)
Once(mp) == \A i, j \in LinesOf(mp) : i = j

PubPCs == {"target", "check", "umount", "start", "wait", "make", "unmake", "vol", "parse", "unbind", "bind",
           "reply"}
UnPCs  == {"jUmount", "umTarget", "umRef", "clean"}

(* Whatever overlaps: a target is mounted once, and where its call is       *)
(* about to bind it or has unmounted it, it is not mounted.                 *)
TargetInv(t) ==
    /\ Once(t)
    /\ kvol[t] = "unmounted" => op[t].pc = "idle" /\ ~Mounted(t)
    /\ op[t].pc \in {"bind", "umRef", "clean"} => ~Mounted(t)
    /\ op[t].pc \in PubPCs => kvol[t] # "mounted"
    /\ op[t].pc \in UnPCs => app[t] = "gone"
    /\ app[t] = "new" => kvol[t] = "unmounted"
    /\ op[t].pc = "umRef" => OnlyOne(op[t].refs)

Targeted == \A t \in Targets : TargetInv(t)

-----------------------------------------------------------------------------
(* Calls one at a time *)

(* The mount path has been mounted for the call that is under way.          *)
OwnPCs == {"make", "unmake", "vol", "parse", "unbind", "bind"}

(* One call is under way, and a mount command only while it waits for it.   *)
CallsInv ==
    /\ \A t, u \in Targets : op[t].pc # "idle" /\ op[u].pc # "idle" => t = u
    /\ mounting # {} => ~Mounted(MountPath) /\ \E t \in Targets : op[t].pc = "wait"
    /\ \A d, e \in mounting : d = e
    /\ \A d \in mounting, mp \in Paths : ~On(mp, d)

(* Every publication has a device of its own.                               *)
DeviceInv ==
    /\ Once(MountPath)
    /\ \A mp \in Paths : ~On(mp, Host)
    /\ \A t, u \in Targets, d \in Devs : On(t, d) /\ On(u, d) => t = u

(* What a call has seen of the mount path and of the references still holds.*)
OrderlyCall(t) ==
    /\ op[t].pc \in OwnPCs \cup {"umount"} => Mounted(MountPath)
    /\ op[t].pc = "start" => ~Mounted(MountPath)
    /\ op[t].pc \in OwnPCs \cup {"wait"} => \A u \in Targets, d \in Devs : ~(On(MountPath, d) /\ On(u, d))
    /\ op[t].pc \in {"parse", "unbind", "bind"} => "volume" \in dir
    /\ op[t].pc = "reply" => Mounted(t)
    /\ op[t].pc \in {"umTarget", "umRef"} => \A r \in op[t].refs : r[2] = MountPath
    /\ op[t].pc = "umTarget" => \A d \in Devs : On(MountPath, d) /\ On(t, d) => OnlyOne(op[t].refs)
    /\ InUse(t) => Mounted(t)

OrderlyNow == CallsInv /\ DeviceInv /\ \A t \in Targets : OrderlyCall(t)
OrderlyInv == Orderly => OrderlyNow

-----------------------------------------------------------------------------
(* And nothing fails *)

Faultless == Orderly /\ left.fault = MaxFault

(* A target that is being published was not mounted, nor is one that no     *)
(* call is for and that is not published.                                   *)
Bare == \A t \in Targets :
    op[t].pc \in PubPCs \ {"reply"} \/ (op[t].pc = "idle" /\ kvol[t] # "mounted") => ~Mounted(t)

(* Nothing is mounted at the mount path but for a publication or a call.    *)
Needed == \A d \in Devs : On(MountPath, d) =>
    \/ \E t \in Targets : On(t, d)
    \/ \E t \in Targets : op[t].pc \in OwnPCs \cup {"wait", "umRef"}

FaultlessInv == Faultless => dead = {} /\ Bare /\ Needed

IInv == TypeOK /\ Targeted /\ OrderlyInv /\ FaultlessInv

-----------------------------------------------------------------------------
(* Lines of mountinfo *)

(* A set of naturals has a least element.                                   *)
LEMMA Least ==
    ASSUME NEW S \in SUBSET Nat, S # {}
    PROVE  \E x \in S : \A y \in S : x <= y
<1> DEFINE Less == {ss \in Nat \X Nat : ss[1] < ss[2]}
<1>1. IsWellFoundedOn(Less, Nat)
  BY NatLessThanWellFounded, Zenon DEF OpToRel
<1>2. ASSUME NEW x \in Nat, NEW y \in Nat, y < x PROVE <<y, x>> \in Less
  BY <1>2
<1> HIDE DEF Less
<1>3. PICK x \in S : \A y \in S : ~ (<<y, x>> \in Less)
  BY <1>1, WFMin
<1>4. ASSUME NEW y \in S PROVE x <= y
  <2>1. ~(y < x)
    BY <1>2, <1>3
  <2> QED BY <2>1
<1> QED BY <1>4

(* The device number that jmount's command gets.                            *)
LEMMA MinExists == ASSUME NEW S \in SUBSET Nat, S # {} PROVE Min(S) \in S
BY Least DEF Min

(* A set of lines has a last one.                                           *)
LEMMA MaxExists ==
    ASSUME NEW n \in Nat, NEW S \in SUBSET (1..n), S # {}
    PROVE  Max(S) \in S
<1> DEFINE T == {k \in Nat : n - k \in S}
<1>1. T \in SUBSET Nat
  OBVIOUS
<1>2. ASSUME NEW z \in S PROVE n - z \in T
  <2>1. n - z \in Nat /\ n - (n - z) = z
    OBVIOUS
  <2> QED BY <2>1
<1>3. T # {}
  BY <1>2
<1> HIDE DEF T
<1>4. PICK k \in T : \A l \in T : k <= l
  BY <1>1, <1>3, Least
<1>5. k \in Nat /\ n - k \in S
  BY DEF T
<1>6. ASSUME NEW z \in S PROVE n - k >= z
  BY <1>2, <1>4, <1>5
<1>7. \E x \in S : \A z \in S : x >= z
  BY <1>5, <1>6
<1> QED BY <1>7 DEF Max

(* What is left when a line is taken out.                                   *)
LEMMA RemoveLine ==
    ASSUME NEW S, NEW s \in Seq(S), NEW i \in 1..Len(s)
    PROVE  /\ RemoveAt(s, i) \in Seq(S)
           /\ Len(RemoveAt(s, i)) = Len(s) - 1
           /\ \A j \in 1..(Len(s) - 1) : RemoveAt(s, i)[j] = IF j < i THEN s[j] ELSE s[j + 1]
<1> DEFINE a == SubSeq(s, 1, i - 1)
           b == SubSeq(s, i + 1, Len(s))
<1>0. Len(s) \in Nat /\ i \in Nat
  BY LenProperties
<1>1. a \in Seq(S) /\ Len(a) = i - 1 /\ \A j \in 1..(i - 1) : a[j] = s[j]
  BY <1>0, SubSeqProperties
<1>2. b \in Seq(S) /\ Len(b) = Len(s) - i /\ \A j \in 1..(Len(s) - i) : b[j] = s[i + j]
  BY <1>0, SubSeqProperties
<1> HIDE DEF a, b
<1>3. /\ a \o b \in Seq(S) /\ Len(a \o b) = Len(a) + Len(b)
      /\ \A j \in 1..(Len(a) + Len(b)) : (a \o b)[j] = IF j <= Len(a) THEN a[j] ELSE b[j - Len(a)]
  BY <1>1, <1>2, ConcatProperties
<1>4. ASSUME NEW j \in 1..(Len(s) - 1) PROVE (a \o b)[j] = IF j < i THEN s[j] ELSE s[j + 1]
  <2>1. CASE j < i
    BY <1>0, <1>1, <1>2, <1>3, <2>1
  <2>2. CASE ~(j < i)
    <3>1. (a \o b)[j] = b[j - (i - 1)]
      BY <1>0, <1>1, <1>2, <1>3, <2>2
    <3>2. j - (i - 1) \in 1..(Len(s) - i) /\ i + (j - (i - 1)) = j + 1
      BY <1>0, <2>2
    <3> QED BY <1>2, <2>2, <3>1, <3>2
  <2> QED BY <2>1, <2>2
<1>5. RemoveAt(s, i) = a \o b
  BY DEF RemoveAt, a, b
<1>6. Len(a \o b) = Len(s) - 1
  BY <1>0, <1>1, <1>2, <1>3
<1> QED BY <1>3, <1>4, <1>5, <1>6

(* The line on top is one of the path's.                                    *)
LEMMA TopIsLine ==
    ASSUME TypeOK, NEW mp, Mounted(mp)
    PROVE  TopLine(mp) \in LinesOf(mp) /\ On(mp, Device(mp))
<1>1. Len(table) \in Nat /\ DOMAIN table = 1..Len(table)
  BY LenProperties DEF TypeOK
<1>2. LinesOf(mp) \in SUBSET (1..Len(table)) /\ LinesOf(mp) # {}
  BY <1>1 DEF LinesOf, Mounted
<1>3. TopLine(mp) \in LinesOf(mp)
  BY <1>1, <1>2, MaxExists DEF TopLine
<1> QED BY <1>3 DEF On, Device

(* A mount on mp is taken off: mounts on other paths stay as they are.      *)
Cut(mp) == Mounted(mp) /\ table' = Umounted(mp)

(* A mount of device d on mp is added.                                      *)
Put(mp, d) == table' = Append(table, [mp |-> mp, dev |-> d])

(* What a table says of paths and devices, after a mount was taken off.     *)
LEMMA CutFacts ==
    ASSUME TypeOK, NEW mp \in Paths, Cut(mp)
    PROVE  /\ table' \in Seq(Entry)
           /\ \A q, d : On(q, d)' => On(q, d)
           /\ \A q, d : q # mp => (On(q, d)' <=> On(q, d))
           /\ \A q : q # mp => (Mounted(q)' <=> Mounted(q))
           /\ \A q : Mounted(q)' => Mounted(q)
           /\ \A q : Once(q) => Once(q)'
           /\ Once(mp) => ~Mounted(mp)'
<1> DEFINE k == TopLine(mp)
           n == Len(table)
<1>0. table \in Seq(Entry) /\ n \in Nat /\ DOMAIN table = 1..n
  BY LenProperties DEF TypeOK
<1>1. k \in 1..n /\ table[k].mp = mp
  BY <1>0, TopIsLine DEF Cut, LinesOf
<1>2. table' = RemoveAt(table, k)
  BY DEF Cut, Umounted
<1> HIDE DEF k, n
<1>3. /\ table' \in Seq(Entry) /\ DOMAIN table' = 1..(n - 1)
      /\ \A j \in 1..(n - 1) : table'[j] = IF j < k THEN table[j] ELSE table[j + 1]
  <2>1. Len(table') = n - 1 /\ table' \in Seq(Entry)
    BY <1>0, <1>1, <1>2, RemoveLine DEF n
  <2>2. DOMAIN table' = 1..(n - 1)
    BY <2>1, LenProperties
  <2>3. \A j \in 1..(n - 1) : table'[j] = IF j < k THEN table[j] ELSE table[j + 1]
    BY <1>0, <1>1, <1>2, RemoveLine DEF n
  <2> QED BY <2>1, <2>2, <2>3
<1>a. ASSUME NEW j \in 1..(n - 1)
      PROVE  \E i \in 1..n : /\ i # k /\ table'[j] = table[i] /\ i = IF j < k THEN j ELSE j + 1
  <2>1. (IF j < k THEN j ELSE j + 1) \in 1..n
    BY <1>0, <1>1
  <2> QED BY <1>0, <1>1, <1>3, <2>1
<1>b. ASSUME NEW i \in 1..n, i # k
      PROVE  \E j \in 1..(n - 1) : table'[j] = table[i]
  <2> DEFINE j == IF i < k THEN i ELSE i - 1
  <2>1. j \in 1..(n - 1) /\ (IF j < k THEN j ELSE j + 1) = i
    BY <1>0, <1>1, <1>b
  <2> QED BY <1>0, <1>1, <1>3, <2>1
<1>4. ASSUME NEW q, NEW d, On(q, d)' PROVE On(q, d)
  BY <1>0, <1>3, <1>4, <1>a DEF On, LinesOf
<1>5. ASSUME NEW q, NEW d, q # mp, On(q, d) PROVE On(q, d)'
  BY <1>0, <1>1, <1>3, <1>5, <1>b DEF On, LinesOf
<1>6. ASSUME NEW q, Mounted(q)' PROVE Mounted(q)
  BY <1>0, <1>3, <1>6, <1>a DEF Mounted, LinesOf
<1>7. ASSUME NEW q, q # mp, Mounted(q) PROVE Mounted(q)'
  <2>1. PICK i \in 1..n : table[i].mp = q
    BY <1>0, <1>7 DEF Mounted, LinesOf
  <2>2. PICK j \in 1..(n - 1) : table'[j] = table[i]
    BY <1>1, <1>7, <1>b, <2>1
  <2> QED BY <1>3, <2>1, <2>2 DEF Mounted, LinesOf
<1>8. ASSUME NEW q, Once(q) PROVE Once(q)'
  <2> SUFFICES ASSUME NEW x \in 1..(n - 1), NEW y \in 1..(n - 1), table'[x].mp = q, table'[y].mp = q
               PROVE  x = y
    BY <1>3 DEF Once, LinesOf
  <2>1. PICK i \in 1..n : table'[x] = table[i] /\ i = IF x < k THEN x ELSE x + 1
    BY <1>a
  <2>2. PICK j \in 1..n : table'[y] = table[j] /\ j = IF y < k THEN y ELSE y + 1
    BY <1>a
  <2>3. i = j
    BY <1>0, <1>8, <2>1, <2>2 DEF Once, LinesOf
  <2> QED BY <1>0, <1>1, <2>1, <2>2, <2>3
<1>9. ASSUME Once(mp), Mounted(mp)' PROVE FALSE
  <2>1. PICK x \in 1..(n - 1) : table'[x].mp = mp
    BY <1>3, <1>9 DEF Mounted, LinesOf
  <2>2. PICK i \in 1..n : i # k /\ table[i].mp = mp
    BY <1>a, <2>1
  <2> QED BY <1>0, <1>1, <1>9, <2>2 DEF Once, LinesOf
<1> QED BY <1>3, <1>4, <1>5, <1>6, <1>7, <1>8, <1>9

(* And after one was added.                                                 *)
LEMMA PutFacts ==
    ASSUME TypeOK, NEW mp \in Paths, NEW d \in Devs \cup {Host}, Put(mp, d)
    PROVE  /\ table' \in Seq(Entry)
           /\ \A q, e : On(q, e)' <=> On(q, e) \/ (q = mp /\ e = d)
           /\ \A q : Mounted(q)' <=> Mounted(q) \/ q = mp
           /\ \A q : q # mp /\ Once(q) => Once(q)'
           /\ ~Mounted(mp) => Once(mp)'
<1> DEFINE n == Len(table)
<1>0. table \in Seq(Entry) /\ n \in Nat /\ DOMAIN table = 1..n
  BY LenProperties DEF TypeOK
<1> DEFINE e0 == [mp |-> mp, dev |-> d]
<1>1. e0 \in Entry /\ e0.mp = mp /\ e0.dev = d
  BY DEF Entry
<1>2. table' = Append(table, e0)
  BY DEF Put
<1> HIDE DEF n, e0
<1>3. /\ table' \in Seq(Entry) /\ DOMAIN table' = 1..(n + 1)
      /\ \A j \in 1..n : table'[j] = table[j]
      /\ table'[n + 1] = e0
  <2>1. Len(table') = n + 1 /\ table' \in Seq(Entry)
    BY <1>0, <1>1, <1>2, AppendProperties DEF n
  <2>2. DOMAIN table' = 1..(n + 1)
    BY <2>1, LenProperties
  <2> QED BY <1>0, <1>1, <1>2, <2>1, <2>2, AppendProperties DEF n
<1>4. \A j \in 1..(n + 1) : j \in 1..n \/ j = n + 1
  BY <1>0
<1>5. \A j \in 1..n : j \in 1..(n + 1)
  BY <1>0
<1>6. n + 1 \in 1..(n + 1) /\ n + 1 \notin 1..n
  BY <1>0
<1>7. ASSUME NEW q PROVE LinesOf(q)' = LinesOf(q) \cup {j \in {n + 1} : q = mp}
  BY <1>0, <1>1, <1>3, <1>4, <1>5, <1>6 DEF LinesOf
<1>8. ASSUME NEW q, NEW i \in LinesOf(q) PROVE table'[i] = table[i] /\ i \in 1..n
  BY <1>0, <1>3 DEF LinesOf
<1>9. ASSUME NEW q, NEW e PROVE On(q, e)' <=> On(q, e) \/ (q = mp /\ e = d)
  BY <1>1, <1>3, <1>7, <1>8 DEF On
<1>10. ASSUME NEW q PROVE Mounted(q)' <=> Mounted(q) \/ q = mp
  BY <1>7 DEF Mounted
<1>11. ASSUME NEW q, q # mp, Once(q) PROVE Once(q)'
  BY <1>7, <1>11 DEF Once
<1>12. ASSUME ~Mounted(mp) PROVE Once(mp)'
  BY <1>7, <1>12 DEF Once, Mounted
<1> QED BY <1>3, <1>9, <1>10, <1>11, <1>12

-----------------------------------------------------------------------------
(* Types *)

KVols == {"unmounted", "uncertain", "mounted"}
Apps  == {"new", "running", "gone"}

(* The call of t goes on at pc, with the references it has.                 *)
At(t, pc) ==
    /\ op' \in [Targets -> Op]
    /\ op'[t].pc = pc /\ op'[t].refs = op[t].refs
    /\ \A u \in Targets \ {t} : op'[u] = op[u]

(* The call of t returns, and the kubelet takes the volume to be k.         *)
Back(t, k) ==
    /\ op' \in [Targets -> Op] /\ op'[t].pc = "idle" /\ op'[t].refs = {}
    /\ \A u \in Targets \ {t} : op'[u] = op[u]
    /\ kvol' \in [Targets -> KVols] /\ kvol'[t] = k
    /\ \A u \in Targets \ {t} : kvol'[u] = kvol[u]

(* What Goto and Return do to the calls.                                    *)
LEMMA OpMoves ==
    ASSUME TypeOK, NEW t \in Targets
    PROVE  /\ \A pc \in PCs : Goto(t, pc) => At(t, pc)
           /\ \A k \in KVols : Return(t, k) => Back(t, k)
           /\ JCreateVolumeUmount(t) /\ Mounted(MountPath) => At(t, "check")
           /\ op[t] \in Op
<1>1. op \in [Targets -> Op] /\ op[t] \in Op
  BY DEF TypeOK
<1>2. ASSUME NEW pc \in PCs, Goto(t, pc) PROVE At(t, pc)
  <2>1. op' = [op EXCEPT ![t] = [op[t] EXCEPT !.pc = pc]]
    BY <1>2 DEF Goto
  <2>2. /\ [op[t] EXCEPT !.pc = pc] \in Op
        /\ [op[t] EXCEPT !.pc = pc].pc = pc
        /\ [op[t] EXCEPT !.pc = pc].refs = op[t].refs
    BY <1>1 DEF Op
  <2> QED BY <1>1, <2>1, <2>2 DEF At
<1>3. IdleOp \in Op /\ IdleOp.pc = "idle" /\ IdleOp.refs = {}
  BY DEF IdleOp, Op, PCs
<1>4. ASSUME NEW k \in KVols, Return(t, k) PROVE Back(t, k)
  BY <1>1, <1>3, <1>4 DEF Return, Back, TypeOK, KVols
<1>5. ASSUME JCreateVolumeUmount(t), Mounted(MountPath) PROVE At(t, "check")
  <2> DEFINE o == [op[t] EXCEPT !.pc = "check", !.made = TRUE]
  <2>1. op' = [op EXCEPT ![t] = o]
    BY <1>5 DEF JCreateVolumeUmount
  <2>2. o \in Op /\ o.pc = "check" /\ o.refs = op[t].refs
    BY <1>1 DEF Op, PCs
  <2> HIDE DEF o
  <2> QED BY <1>1, <2>1, <2>2 DEF At
<1> QED BY <1>1, <1>2, <1>4, <1>5

(* What is left of the bounds only gets less.                               *)
LEMMA UseFacts ==
    ASSUME TypeOK
    PROVE  /\ \A w \in {"overlap", "slow", "fault"} :
                 Use(w) => left' \in Left /\ (Orderly' => Orderly) /\ ~Faultless'
           /\ Use("overlap") \/ Use("slow") => ~Orderly'
           /\ UNCHANGED left => left' \in Left /\ (Orderly' <=> Orderly) /\ (Faultless' <=> Faultless)
<1> USE BoundAssumption
<1>1. left \in Left
  BY DEF TypeOK
<1>2. ASSUME Use("overlap")
      PROVE  left' \in Left /\ (Orderly' => Orderly) /\ ~Faultless' /\ ~Orderly'
  <2>1. left' = [left EXCEPT !.overlap = @ - 1] /\ left.overlap > 0
    BY <1>2 DEF Use
  <2> QED BY <1>1, <2>1 DEF Left, Orderly, Faultless
<1>3. ASSUME Use("slow")
      PROVE  left' \in Left /\ (Orderly' => Orderly) /\ ~Faultless' /\ ~Orderly'
  <2>1. left' = [left EXCEPT !.slow = @ - 1] /\ left.slow > 0
    BY <1>3 DEF Use
  <2> QED BY <1>1, <2>1 DEF Left, Orderly, Faultless
<1>4. ASSUME Use("fault")
      PROVE  left' \in Left /\ (Orderly' => Orderly) /\ ~Faultless'
  <2>1. left' = [left EXCEPT !.fault = @ - 1] /\ left.fault > 0
    BY <1>4 DEF Use
  <2> QED BY <1>1, <2>1 DEF Left, Orderly, Faultless
<1>5. UNCHANGED left => left' \in Left /\ (Orderly' <=> Orderly) /\ (Faultless' <=> Faultless)
  BY <1>1 DEF Orderly, Faultless
<1> QED BY <1>2, <1>3, <1>4, <1>5

(* The references of a target are lines with mount points.                  *)
LEMMA RefsType ==
    ASSUME TypeOK, NEW t \in Targets
    PROVE  GetMountDeviceRefs(t) \in SUBSET (Nat \X Paths)
<1>1. \A i \in DOMAIN table : i \in Nat /\ table[i].mp \in Paths
  <2>1. DOMAIN table = 1..Len(table) /\ Len(table) \in Nat /\ table \in Seq(Entry)
    BY LenProperties DEF TypeOK
  <2>2. \A i \in 1..Len(table) : table[i] \in Entry
    BY <2>1, ElementOfSeq
  <2> QED BY <2>1, <2>2 DEF Entry
<1>2. t \in Paths
  BY DEF Paths
<1> QED BY <1>1, <1>2 DEF GetMountDeviceRefs, RefsAt

(* The device at the mount path is a device.                                *)
LEMMA DeviceType ==
    ASSUME TypeOK, NEW mp, Mounted(mp)
    PROVE  Device(mp) \in Devs \cup {Host}
<1>1. DOMAIN table = 1..Len(table) /\ table \in Seq(Entry)
  BY LenProperties DEF TypeOK
<1>2. \A i \in 1..Len(table) : table[i] \in Entry
  BY <1>1, ElementOfSeq
<1>3. TopLine(mp) \in 1..Len(table)
  BY <1>1, TopIsLine DEF LinesOf
<1> QED BY <1>2, <1>3 DEF Device, Entry

(* What the steps of NodeUnpublishVolume do to the calls.                   *)
Unmounting(t, pc, refs) ==
    /\ op' \in [Targets -> Op]
    /\ op'[t].pc = pc /\ op'[t].refs = refs
    /\ \A u \in Targets \ {t} : op'[u] = op[u]

(* GetMountRef and JUmount read mountinfo before they unmount.              *)
LEMMA Unmounts ==
    ASSUME TypeOK, NEW t \in Targets
    PROVE  /\ JfsUnmount(t) => Unmounting(t, "jUmount", op[t].refs)
           /\ JUmount(t) => IF Mounted(t) THEN Unmounting(t, "umTarget", GetMountDeviceRefs(t))
                            ELSE Unmounting(t, "clean", {})
           /\ JUmountTarget(t) => Unmounting(t, IF Mounted(t) /\ OnlyOne(op[t].refs) THEN "umRef" ELSE "clean",
                                             op[t].refs)
           /\ JUmountRef(t) => Unmounting(t, "clean", op[t].refs)
<1>0. op \in [Targets -> Op] /\ op[t] \in Op
  BY DEF TypeOK
<1>a. ASSUME NEW o \in Op, op' = [op EXCEPT ![t] = o] PROVE Unmounting(t, o.pc, o.refs)
  BY <1>0, <1>a DEF Unmounting
<1>1. ASSUME JfsUnmount(t) PROVE Unmounting(t, "jUmount", op[t].refs)
  <2> DEFINE l == Mounted(t) /\ OnlyOne(GetMountDeviceRefs(t))
             o == [op[t] EXCEPT !.pc = "jUmount", !.last = l]
  <2>1. op' = [op EXCEPT ![t] = o]
    BY <1>1 DEF JfsUnmount
  <2>2. l \in BOOLEAN
    BY DEF Mounted, OnlyOne
  <2> HIDE DEF l
  <2>3. o \in Op /\ o.pc = "jUmount" /\ o.refs = op[t].refs
    BY <1>0, <2>2 DEF Op, PCs
  <2> HIDE DEF o
  <2> QED BY <1>a, <2>1, <2>3
<1>2. ASSUME JUmount(t)
      PROVE  IF Mounted(t) THEN Unmounting(t, "umTarget", GetMountDeviceRefs(t))
             ELSE Unmounting(t, "clean", {})
  <2> DEFINE p == IF Mounted(t) THEN "umTarget" ELSE "clean"
             r == IF Mounted(t) THEN GetMountDeviceRefs(t) ELSE {}
             o == [op[t] EXCEPT !.pc = p, !.refs = r]
  <2>1. op' = [op EXCEPT ![t] = o]
    BY <1>2 DEF JUmount
  <2>2. p \in PCs /\ r \in SUBSET (Nat \X Paths)
    BY RefsType DEF PCs
  <2>4. (Mounted(t) => p = "umTarget" /\ r = GetMountDeviceRefs(t)) /\ (~Mounted(t) => p = "clean" /\ r = {})
    OBVIOUS
  <2> HIDE DEF p, r
  <2>3. o \in Op /\ o.pc = p /\ o.refs = r
    BY <1>0, <2>2 DEF Op
  <2> HIDE DEF o
  <2>5. Unmounting(t, p, r)
    BY <1>a, <2>1, <2>3
  <2> QED BY <2>4, <2>5
<1>3. ASSUME JUmountTarget(t)
      PROVE  Unmounting(t, IF Mounted(t) /\ OnlyOne(op[t].refs) THEN "umRef" ELSE "clean", op[t].refs)
  <2>1. CASE Mounted(t)
    <3> DEFINE p == IF OnlyOne(op[t].refs) THEN "umRef" ELSE "clean"
    <3>1. p \in PCs /\ Goto(t, p)
      BY <1>3, <2>1 DEF JUmountTarget, PCs
    <3> HIDE DEF p
    <3>2. At(t, p)
      BY <3>1, OpMoves
    <3> QED BY <2>1, <3>2 DEF At, Unmounting, p
  <2>2. CASE ~Mounted(t)
    <3> DEFINE o == [op[t] EXCEPT !.pc = "clean", !.err = TRUE]
    <3>1. op' = [op EXCEPT ![t] = o]
      BY <1>3, <2>2 DEF JUmountTarget
    <3>2. o \in Op /\ o.pc = "clean" /\ o.refs = op[t].refs
      BY <1>0 DEF Op, PCs
    <3> HIDE DEF o
    <3> QED BY <1>a, <2>2, <3>1, <3>2
  <2> QED BY <2>1, <2>2
<1>4. ASSUME JUmountRef(t) PROVE Unmounting(t, "clean", op[t].refs)
  <2> DEFINE e == ~Mounted(First(op[t].refs))
             o == [op[t] EXCEPT !.pc = "clean", !.err = e]
  <2>1. op' = [op EXCEPT ![t] = o]
    BY <1>4 DEF JUmountRef
  <2>2. e \in BOOLEAN
    OBVIOUS
  <2> HIDE DEF e
  <2>3. o \in Op /\ o.pc = "clean" /\ o.refs = op[t].refs
    BY <1>0, <2>2 DEF Op, PCs
  <2> HIDE DEF o
  <2> QED BY <1>a, <2>1, <2>3
<1> QED BY <1>1, <1>2, <1>3, <1>4

(* Umounting keeps the table a table; so does BindTarget's way of it.       *)
LEMMA CutType ==
    ASSUME TypeOK, NEW mp \in Paths, table' = Umounted(mp), Mounted(mp)
    PROVE  table' \in Seq(Entry)
BY CutFacts DEF Cut

(* The reference that JUmount unmounts is a path.                           *)
LEMMA FirstIsRef ==
    ASSUME NEW S, NEW refs \in SUBSET (Nat \X S), OnlyOne(refs)
    PROVE  \E r \in refs : refs = {r} /\ First(refs) = r[2] /\ First(refs) \in S
<1>1. PICK r \in refs : refs = {r}
  BY DEF OnlyOne
<1>2. (CHOOSE x \in refs : TRUE) = r
  BY <1>1
<1> QED BY <1>1, <1>2 DEF First

(* Calls.                                                                   *)
LEMMA TypeCall ==
    ASSUME TypeOK, Targeted, NEW t \in Targets, Step(t)
    PROVE  TypeOK'
<1> USE DEF procs, kubelet
<1>0. /\ op[t] \in Op /\ t \in Paths /\ MountPath \in Paths
      /\ op \in [Targets -> Op] /\ kvol \in [Targets -> KVols]
  BY DEF TypeOK, Paths, KVols
<1>a. ASSUME NEW pc \in PCs, Goto(t, pc) PROVE op' \in [Targets -> Op]
  BY <1>a, OpMoves DEF At
<1>b. ASSUME NEW k \in KVols, Return(t, k) PROVE op' \in [Targets -> Op] /\ kvol' \in [Targets -> KVols]
  BY <1>b, OpMoves DEF Back
<1>c. StartCall(t) => left' \in Left
  BY UseFacts DEF StartCall
<1>d. \A w \in {"overlap", "slow", "fault"} : Use(w) => left' \in Left
  BY UseFacts
<1>e. \A mp \in Paths : Mounted(mp) /\ table' = Umounted(mp) => table' \in Seq(Entry)
  BY CutType
<1>1. CASE NodePublishVolume(t)
  <2>1. op' \in [Targets -> Op]
    BY <1>1, <1>a DEF NodePublishVolume, PCs
  <2>2. kvol' \in [Targets -> KVols]
    BY <1>0, <1>1 DEF NodePublishVolume, KVols
  <2> QED BY <1>1, <1>c, <2>1, <2>2 DEF NodePublishVolume, TypeOK, KVols
<1>2. CASE CreateTarget(t)
  <2>1. op' \in [Targets -> Op]
    BY <1>0, <1>2, <1>a DEF CreateTarget, PCs
  <2>2. table' \in Seq(Entry)
    BY <1>0, <1>2, <1>e DEF CreateTarget, Corrupted, TypeOK
  <2> QED BY <1>2, <2>1, <2>2 DEF CreateTarget, TypeOK
<1>3. CASE jmount(t)
  <2>1. op' \in [Targets -> Op] /\ kvol' \in [Targets -> KVols]
    BY <1>0, <1>3, <1>a, <1>b DEF jmount, PCs, KVols
  <2> QED BY <1>3, <2>1 DEF jmount, TypeOK, KVols
<1>4. CASE jmountUnmount(t)
  <2>1. op' \in [Targets -> Op] /\ kvol' \in [Targets -> KVols]
    BY <1>0, <1>4, <1>a, <1>b DEF jmountUnmount, PCs, KVols
  <2>2. table' \in Seq(Entry)
    BY <1>0, <1>4, <1>e DEF jmountUnmount, TypeOK
  <2> QED BY <1>4, <2>1, <2>2 DEF jmountUnmount, TypeOK, KVols
<1>5. CASE jmountStart(t)
  <2> DEFINE free == {d \in Devs \ mounting : \A i \in DOMAIN table : table[i].dev # d}
  <2>1. op' \in [Targets -> Op]
    BY <1>5, <1>a DEF jmountStart, PCs
  <2>2. free \in SUBSET Nat /\ free # {}
    BY <1>5, BoundAssumption DEF jmountStart, Devs
  <2>3. Min(free) \in Devs
    BY <2>2, MinExists
  <2> HIDE DEF free
  <2>4. mounting' = mounting \cup {Min(free)} /\ dead' = dead \ {Min(free)}
    BY <1>5 DEF jmountStart, free
  <2> QED BY <1>5, <2>1, <2>3, <2>4 DEF jmountStart, TypeOK
<1>6. CASE jmountWait(t)
  <2>1. op' \in [Targets -> Op] /\ kvol' \in [Targets -> KVols] /\ left' \in Left
    BY <1>0, <1>6, <1>a, <1>b, <1>d DEF jmountWait, PCs, KVols, TypeOK
  <2> QED BY <1>6, <2>1 DEF jmountWait, TypeOK, KVols
<1>7. CASE JCreateVolume(t) \/ CreateVol(t)
  <2>1. PICK pc \in {"unmake", "parse"} : MakeDir(t, pc)
    BY <1>7 DEF JCreateVolume, CreateVol
  <2>2. op' \in [Targets -> Op] /\ kvol' \in [Targets -> KVols] /\ left' \in Left
    BY <1>0, <1>a, <1>b, <1>d, <2>1 DEF MakeDir, PCs, KVols, TypeOK
  <2>3. dir' \subseteq {"volume", "host"}
    BY <2>1 DEF MakeDir, TypeOK
  <2> QED BY <2>1, <2>2, <2>3 DEF MakeDir, TypeOK, KVols
<1>17. CASE JCreateVolumeUmount(t)
  <2>1. op' \in [Targets -> Op] /\ kvol' \in [Targets -> KVols]
    BY <1>0, <1>17, <1>b, OpMoves DEF JCreateVolumeUmount, KVols, At
  <2>2. table' \in Seq(Entry)
    BY <1>0, <1>17, <1>e DEF JCreateVolumeUmount, TypeOK
  <2> QED BY <1>17, <2>1, <2>2 DEF JCreateVolumeUmount, TypeOK, KVols
<1>8. CASE BindTargetParse(t)
  <2>1. op' \in [Targets -> Op] /\ kvol' \in [Targets -> KVols]
    BY <1>0, <1>8, <1>a, <1>b DEF BindTargetParse, PCs, KVols
  <2> QED BY <1>8, <2>1 DEF BindTargetParse, TypeOK, KVols
<1>9. CASE BindTargetUmount(t)
  <2>1. op' \in [Targets -> Op]
    BY <1>9, <1>a DEF BindTargetUmount, PCs
  <2>2. table' \in Seq(Entry)
    BY <1>0, <1>9, <1>e DEF BindTargetUmount, TypeOK
  <2> QED BY <1>9, <2>1, <2>2 DEF BindTargetUmount, TypeOK
<1>10. CASE BindTarget(t)
  <2>1. op' \in [Targets -> Op] /\ kvol' \in [Targets -> KVols]
    BY <1>0, <1>10, <1>a, <1>b DEF BindTarget, PCs, KVols
  <2>2. table' = table \/ \E d \in Devs \cup {Host} : Put(t, d)
    BY <1>0, <1>10, DeviceType DEF BindTarget, Put
  <2>3. table' \in Seq(Entry)
    BY <1>0, <2>2, PutFacts DEF TypeOK
  <2> QED BY <1>10, <2>1, <2>3 DEF BindTarget, TypeOK, KVols
<1>11. CASE PublishReply(t)
  <2>1. op' \in [Targets -> Op] /\ kvol' \in [Targets -> KVols] /\ left' \in Left
    BY <1>0, <1>11, <1>b, <1>d DEF PublishReply, KVols, TypeOK
  <2> QED BY <1>11, <2>1 DEF PublishReply, TypeOK, KVols
<1>12. CASE JfsUnmount(t)
  <2>1. op' \in [Targets -> Op]
    BY <1>12, Unmounts DEF Unmounting
  <2> QED BY <1>12, <1>c, <2>1 DEF JfsUnmount, TypeOK
<1>13. CASE JUmount(t)
  <2>1. op' \in [Targets -> Op]
    BY <1>13, Unmounts DEF Unmounting
  <2> QED BY <1>13, <2>1 DEF JUmount, TypeOK
<1>14. CASE JUmountTarget(t)
  <2>1. op' \in [Targets -> Op]
    BY <1>14, Unmounts DEF Unmounting
  <2>2. table' \in Seq(Entry)
    BY <1>0, <1>14, <1>e DEF JUmountTarget, TypeOK
  <2> QED BY <1>14, <2>1, <2>2 DEF JUmountTarget, TypeOK
<1>15. CASE JUmountRef(t)
  <2>1. op' \in [Targets -> Op]
    BY <1>15, Unmounts DEF Unmounting
  <2>2. First(op[t].refs) \in Paths
    BY <1>0, <1>15, FirstIsRef DEF JUmountRef, Targeted, TargetInv, Op
  <2>3. table' \in Seq(Entry)
    BY <1>15, <1>e, <2>2 DEF JUmountRef, TypeOK
  <2> QED BY <1>15, <2>1, <2>3 DEF JUmountRef, TypeOK
<1>16. CASE CleanCache(t)
  <2>1. op' \in [Targets -> Op] /\ kvol' \in [Targets -> KVols]
    BY <1>16, <1>b DEF CleanCache, KVols
  <2>2. known' \in BOOLEAN
    BY <1>16 DEF CleanCache
  <2> QED BY <1>16, <2>1, <2>2 DEF CleanCache, TypeOK, KVols
<1> QED BY <1>1, <1>2, <1>3, <1>4, <1>5, <1>6, <1>7, <1>8, <1>9, <1>10, <1>11, <1>12, <1>13, <1>14, <1>15, <1>16,
           <1>17 DEF Step

(* Mount commands, applications and failures.                               *)
LEMMA TypeOther ==
    ASSUME TypeOK
    PROVE  /\ \A t \in Targets : AppStep(t) => TypeOK'
           /\ \A d \in Devs : MountCommand(d) \/ MountProcessDies(d) => TypeOK'
           /\ Crash => TypeOK'
           /\ UNCHANGED vars => TypeOK'
<1> USE DEF procs, kubelet
<1>0. MountPath \in Paths
  BY DEF Paths
<1>1. ASSUME NEW t \in Targets, AppStep(t) PROVE TypeOK'
  <2>1. app' \in [Targets -> Apps]
    BY <1>1 DEF AppStep, TypeOK, Apps
  <2> QED BY <1>1, <2>1 DEF AppStep, TypeOK, Apps
<1>2. ASSUME NEW d \in Devs, MountCommand(d) PROVE TypeOK'
  <2>1. table' = table \/ Put(MountPath, d)
    BY <1>2 DEF MountCommand, Put
  <2>2. table' \in Seq(Entry)
    BY <1>0, <2>1, PutFacts DEF TypeOK
  <2> QED BY <1>2, <2>2 DEF MountCommand, TypeOK
<1>3. ASSUME NEW d \in Devs, MountProcessDies(d) PROVE TypeOK'
  <2>1. left' \in Left
    BY <1>3, UseFacts DEF MountProcessDies
  <2> QED BY <1>3, <2>1 DEF MountProcessDies, TypeOK
<1>4. ASSUME Crash PROVE TypeOK'
  <2>1. left' \in Left
    BY <1>4, UseFacts DEF Crash
  <2>2. op' \in [Targets -> Op]
    BY <1>4 DEF Crash, IdleOp, Op, PCs
  <2> QED BY <1>4, <2>1, <2>2 DEF Crash, TypeOK
<1>5. ASSUME UNCHANGED vars PROVE TypeOK'
  BY <1>5 DEF vars, TypeOK
<1> QED BY <1>1, <1>2, <1>3, <1>4, <1>5

-----------------------------------------------------------------------------
(* Targets *)

(* What a step of a call does to mountinfo: nothing, or one umount, or the  *)
(* bind of its own target.                                                  *)
LEMMA TableMoves ==
    ASSUME TypeOK, Targeted, NEW t \in Targets, Step(t)
    PROVE  \/ UNCHANGED table
           \/ \E mp \in Paths : Cut(mp)
           \/ op[t].pc = "bind" /\ \E d \in Devs \cup {Host} : Put(t, d)
<1>0. t \in Paths /\ MountPath \in Paths /\ op[t] \in Op
  BY DEF Paths, TypeOK
<1>1. CASE \/ CreateTarget(t) \/ jmountUnmount(t) \/ JCreateVolumeUmount(t) \/ BindTargetUmount(t)
           \/ JUmountTarget(t)
  BY <1>0, <1>1 DEF CreateTarget, jmountUnmount, JCreateVolumeUmount, BindTargetUmount, JUmountTarget, Cut, Corrupted
<1>2. CASE JUmountRef(t)
  <2>1. First(op[t].refs) \in Paths
    BY <1>0, <1>2, FirstIsRef DEF JUmountRef, Targeted, TargetInv, Op
  <2> QED BY <1>2, <2>1 DEF JUmountRef, Cut
<1>3. CASE BindTarget(t)
  BY <1>0, <1>3, DeviceType DEF BindTarget, Put
<1>4. CASE \/ NodePublishVolume(t) \/ jmount(t) \/ jmountStart(t) \/ jmountWait(t) \/ JCreateVolume(t) \/ CreateVol(t)
           \/ BindTargetParse(t) \/ PublishReply(t) \/ JfsUnmount(t) \/ JUmount(t) \/ CleanCache(t)
  BY <1>4 DEF NodePublishVolume, jmount, jmountStart, jmountWait, JCreateVolume, CreateVol, MakeDir, BindTargetParse,
              PublishReply, JfsUnmount, JUmount, CleanCache
<1> QED BY <1>1, <1>2, <1>3, <1>4 DEF Step

(* Only its own bind mounts a target, and only when it is not mounted.      *)
LEMMA TargetLines ==
    ASSUME TypeOK, Targeted, NEW t \in Targets, Step(t), NEW u \in Targets
    PROVE  /\ Once(u)'
           /\ Mounted(u)' => Mounted(u) \/ (u = t /\ op[t].pc = "bind")
<1>0. u \in Paths /\ Once(u) /\ (op[t].pc = "bind" => ~Mounted(t)) /\ t \in Paths
  BY DEF Paths, Targeted, TargetInv
<1>1. CASE UNCHANGED table
  BY <1>0, <1>1 DEF Once, Mounted, LinesOf
<1>2. CASE \E mp \in Paths : Cut(mp)
  BY <1>0, <1>2, CutFacts
<1>3. CASE op[t].pc = "bind" /\ \E d \in Devs \cup {Host} : Put(t, d)
  BY <1>0, <1>3, PutFacts
<1> QED BY <1>1, <1>2, <1>3, TableMoves

(* A target that a step leaves alone.                                       *)
LEMMA TargetAlone ==
    ASSUME NEW u \in Targets, TargetInv(u), Once(u)', Mounted(u)' => Mounted(u),
           op'[u] = op[u], kvol'[u] = kvol[u],
           app'[u] = app[u] \/ (op[u].pc \notin UnPCs /\ app'[u] # "new")
    PROVE  TargetInv(u)'
BY DEF TargetInv

(* A step of the call of the target itself.                                 *)
LEMMA TargetOwn ==
    ASSUME TypeOK, Targeted, NEW t \in Targets, Step(t)
    PROVE  TargetInv(t)'
<1> USE DEF procs, kubelet
<1>0. /\ TargetInv(t) /\ t \in Paths /\ Once(t)'
      /\ Mounted(t)' => Mounted(t) \/ op[t].pc = "bind"
      /\ op[t] \in Op /\ kvol[t] \in KVols
  BY TargetLines DEF Targeted, Paths, TypeOK, KVols
<1>a. ASSUME NEW pc \in PCs, Goto(t, pc) PROVE At(t, pc)
  BY <1>a, OpMoves
<1>b. ASSUME NEW k \in KVols, Return(t, k) PROVE Back(t, k)
  BY <1>b, OpMoves
<1>c. ASSUME Cut(t) PROVE ~Mounted(t)'
  BY <1>0, <1>c, CutFacts DEF TargetInv
<1>d. ASSUME At(t, op'[t].pc), op'[t].pc \in PubPCs, op[t].pc \in PubPCs, UNCHANGED <<kvol, app>>,
             op'[t].pc = "bind" => ~Mounted(t)'
      PROVE  TargetInv(t)'
  BY <1>0, <1>d DEF TargetInv, PubPCs, UnPCs
<1>e. ASSUME Back(t, kvol'[t]), UNCHANGED app, op[t].pc # "idle", kvol'[t] = "unmounted" => ~Mounted(t)'
      PROVE  TargetInv(t)'
  BY <1>0, <1>e DEF TargetInv, PubPCs, UnPCs, Back
<1>f. ASSUME NEW pc \in UnPCs, NEW refs, Unmounting(t, pc, refs), app[t] = "gone", UNCHANGED <<kvol, app>>,
             kvol[t] # "unmounted",
             pc = "umRef" => OnlyOne(refs), pc \in {"umRef", "clean"} => ~Mounted(t)'
      PROVE  TargetInv(t)'
  BY <1>0, <1>f DEF TargetInv, PubPCs, UnPCs, Unmounting
<1>1. CASE NodePublishVolume(t)
  <2>1. At(t, "target") /\ kvol'[t] = "uncertain" /\ app[t] = "running" /\ UNCHANGED app
    BY <1>1, <1>a DEF NodePublishVolume, PCs, TypeOK
  <2> QED BY <1>0, <2>1 DEF TargetInv, PubPCs, UnPCs, At
<1>2. CASE CreateTarget(t)
  <2>1. CASE Corrupted(t)
    <3>1. op'[t] = op[t] /\ UNCHANGED <<kvol, app>> /\ op[t].pc = "target"
      BY <1>2, <2>1 DEF CreateTarget
    <3> QED BY <1>0, <3>1 DEF TargetInv
  <2>2. CASE ~Corrupted(t)
    <3>1. At(t, "check") /\ op[t].pc = "target" /\ UNCHANGED <<kvol, app>>
      BY <1>2, <1>a, <2>2 DEF CreateTarget, PCs
    <3> QED BY <1>d, <3>1 DEF PubPCs, At
  <2> QED BY <2>1, <2>2
<1>3. CASE \/ jmount(t) \/ jmountUnmount(t) \/ jmountWait(t) \/ JCreateVolume(t) \/ JCreateVolumeUmount(t)
           \/ CreateVol(t)
  <2>1. CASE \/ Back(t, "uncertain") /\ UNCHANGED app /\ op[t].pc # "idle"
             \/ /\ op[t].pc \in PubPCs /\ UNCHANGED <<kvol, app>>
                /\ \E pc \in {"umount", "start", "make", "unmake", "check", "vol", "parse"} : At(t, pc)
    BY <1>d, <1>e, <2>1 DEF At, Back, PubPCs
  <2>2. CASE jmount(t) \/ jmountUnmount(t) \/ jmountWait(t)
    BY <1>a, <1>b, <2>1, <2>2 DEF jmount, jmountUnmount, jmountWait, PCs, PubPCs, KVols
  <2>3. CASE JCreateVolume(t) \/ CreateVol(t)
    BY <1>a, <1>b, <2>1, <2>3 DEF JCreateVolume, CreateVol, MakeDir, PCs, PubPCs, KVols
  <2>4. CASE JCreateVolumeUmount(t)
    BY <1>b, <2>1, <2>4, OpMoves DEF JCreateVolumeUmount, PubPCs, KVols
  <2> QED BY <1>3, <2>2, <2>3, <2>4
<1>4. CASE jmountStart(t)
  <2>1. At(t, "wait") /\ op[t].pc = "start" /\ UNCHANGED <<kvol, app>>
    BY <1>4, <1>a DEF jmountStart, PCs
  <2> QED BY <1>d, <2>1 DEF PubPCs, At
<1>5. CASE BindTargetParse(t)
  <2>1. CASE Back(t, "uncertain") /\ UNCHANGED app /\ op[t].pc # "idle"
    BY <1>e, <2>1 DEF Back
  <2>2. CASE /\ (At(t, "bind") /\ ~Mounted(t)') \/ At(t, "reply") \/ At(t, "unbind")
             /\ op[t].pc = "parse" /\ UNCHANGED <<kvol, app>>
    BY <1>d, <2>2 DEF At, PubPCs
  <2>3. Mounted(t)' <=> Mounted(t)
    BY <1>5 DEF BindTargetParse, Mounted, LinesOf
  <2> QED BY <1>5, <1>a, <1>b, <2>1, <2>2, <2>3 DEF BindTargetParse, PCs, KVols
<1>6. CASE BindTargetUmount(t)
  <2>1. At(t, "bind") /\ op[t].pc = "unbind" /\ UNCHANGED <<kvol, app>>
    BY <1>6, <1>a DEF BindTargetUmount, PCs
  <2>2. ~Mounted(t)'
    BY <1>0, <1>6, <1>c, <2>1 DEF BindTargetUmount, Cut
  <2> QED BY <1>d, <2>1, <2>2 DEF PubPCs, At
<1>7. CASE BindTarget(t) \/ PublishReply(t)
  <2>1. CASE Back(t, kvol'[t]) /\ kvol'[t] # "unmounted" /\ UNCHANGED app /\ op[t].pc # "idle"
    BY <1>e, <2>1
  <2>2. CASE At(t, "reply") /\ op[t].pc = "bind" /\ UNCHANGED <<kvol, app>>
    BY <1>d, <2>2 DEF At, PubPCs
  <2>3. Back(t, "uncertain") \/ Back(t, "mounted") => Back(t, kvol'[t]) /\ kvol'[t] # "unmounted"
    BY DEF Back
  <2> QED BY <1>7, <1>a, <1>b, <2>1, <2>2, <2>3 DEF BindTarget, PublishReply, PCs, KVols
<1>8. CASE JfsUnmount(t)
  <2>1. Unmounting(t, "jUmount", op[t].refs) /\ app[t] = "gone" /\ UNCHANGED <<kvol, app>> /\ kvol[t] # "unmounted"
    BY <1>8, Unmounts DEF JfsUnmount
  <2> QED BY <1>f, <2>1 DEF UnPCs
<1>9. CASE JUmount(t) \/ JUmountTarget(t) \/ JUmountRef(t)
  <2>1. app[t] = "gone" /\ UNCHANGED <<kvol, app>> /\ kvol[t] # "unmounted" /\ op[t].pc # "bind"
    BY <1>0, <1>9 DEF TargetInv, UnPCs, JUmount, JUmountTarget, JUmountRef
  <2>2. CASE JUmount(t)
    <3>1. Mounted(t)' <=> Mounted(t)
      BY <2>2 DEF JUmount, Mounted, LinesOf
    <3> QED BY <1>f, <2>1, <2>2, <3>1, Unmounts DEF UnPCs
  <2>3. CASE JUmountTarget(t)
    <3>1. ~Mounted(t)'
      BY <1>0, <1>c, <2>1, <2>3 DEF JUmountTarget, Cut
    <3> QED BY <1>f, <2>1, <2>3, <3>1, Unmounts DEF UnPCs
  <2>4. CASE JUmountRef(t)
    <3>1. ~Mounted(t)'
      BY <1>0, <2>4 DEF JUmountRef, TargetInv
    <3> QED BY <1>f, <2>1, <2>4, <3>1, Unmounts DEF UnPCs
  <2> QED BY <1>9, <2>2, <2>3, <2>4
<1>10. CASE CleanCache(t)
  <2>1. Back(t, kvol'[t]) /\ UNCHANGED app /\ op[t].pc = "clean"
    BY <1>10, <1>b DEF CleanCache, KVols, Back
  <2>2. ~Mounted(t)'
    BY <1>0, <2>1 DEF TargetInv
  <2> QED BY <1>e, <2>1, <2>2
<1> QED BY <1>1, <1>2, <1>3, <1>4, <1>5, <1>6, <1>7, <1>8, <1>9, <1>10 DEF Step

(* A step of one call leaves the other calls alone.                         *)
LEMMA StepOthers ==
    ASSUME TypeOK, Targeted, NEW t \in Targets, Step(t)
    PROVE  /\ \A u \in Targets \ {t} : op'[u] = op[u] /\ kvol'[u] = kvol[u]
           /\ UNCHANGED app
<1> USE DEF procs, kubelet
<1>a. ASSUME NEW pc \in PCs, Goto(t, pc) PROVE \A u \in Targets \ {t} : op'[u] = op[u]
  BY <1>a, OpMoves DEF At
<1>b. ASSUME NEW k \in KVols, Return(t, k)
      PROVE  \A u \in Targets \ {t} : op'[u] = op[u] /\ kvol'[u] = kvol[u]
  BY <1>b, OpMoves DEF Back
<1>1. CASE NodePublishVolume(t)
  <2>1. \A u \in Targets \ {t} : kvol'[u] = kvol[u]
    BY <1>1 DEF NodePublishVolume, TypeOK
  <2> QED BY <1>1, <1>a, <2>1 DEF NodePublishVolume, PCs
<1>2. CASE CreateTarget(t) \/ jmount(t) \/ jmountUnmount(t) \/ jmountStart(t)
  BY <1>2, <1>a, <1>b DEF CreateTarget, jmount, jmountUnmount, jmountStart, PCs, KVols
<1>3. CASE jmountWait(t) \/ JCreateVolume(t) \/ CreateVol(t) \/ BindTargetParse(t) \/ BindTargetUmount(t)
  BY <1>3, <1>a, <1>b DEF jmountWait, JCreateVolume, CreateVol, MakeDir, BindTargetParse, BindTargetUmount, PCs, KVols
<1>6. CASE JCreateVolumeUmount(t)
  BY <1>6, <1>b, OpMoves DEF JCreateVolumeUmount, At, KVols
<1>4. CASE BindTarget(t) \/ PublishReply(t) \/ CleanCache(t)
  BY <1>4, <1>a, <1>b DEF BindTarget, PublishReply, CleanCache, PCs, KVols
<1>5. CASE JfsUnmount(t) \/ JUmount(t) \/ JUmountTarget(t) \/ JUmountRef(t)
  <2>1. \A u \in Targets \ {t} : op'[u] = op[u]
    BY <1>5, Unmounts DEF Unmounting
  <2> QED BY <1>5, <2>1 DEF JfsUnmount, JUmount, JUmountTarget, JUmountRef
<1> QED BY <1>1, <1>2, <1>3, <1>4, <1>5, <1>6 DEF Step

(* Targets under the steps of others.                                       *)
LEMMA TargetedStep == TypeOK /\ Targeted /\ [Next]_vars => TypeOK' /\ Targeted'
<1> SUFFICES ASSUME TypeOK, Targeted, [Next]_vars PROVE TypeOK' /\ Targeted'
  OBVIOUS
<1> USE DEF procs, kubelet
<1>a. ASSUME UNCHANGED table, NEW u \in Targets PROVE Once(u)' /\ (Mounted(u)' <=> Mounted(u))
  BY <1>a DEF Targeted, TargetInv, Once, Mounted, LinesOf
<1>1. ASSUME NEW t \in Targets, Step(t) PROVE TypeOK' /\ Targeted'
  <2>1. ASSUME NEW u \in Targets, u # t PROVE TargetInv(u)'
    <3>1. op'[u] = op[u] /\ kvol'[u] = kvol[u] /\ app' = app
      BY <1>1, <2>1, StepOthers
    <3> QED BY <1>1, <2>1, <3>1, TargetLines, TargetAlone DEF Targeted
  <2> QED BY <1>1, <2>1, TypeCall, TargetOwn DEF Targeted
<1>2. ASSUME NEW t \in Targets, AppStep(t) PROVE TypeOK' /\ Targeted'
  <2>1. ASSUME NEW u \in Targets PROVE TargetInv(u)'
    <3>1. UNCHANGED <<table, kvol, op>> /\ (app'[u] = app[u] \/ (app[u] # "gone" /\ app'[u] # "new"))
      BY <1>2 DEF AppStep, TypeOK
    <3>2. op[u].pc \in UnPCs => app[u] = "gone"
      BY DEF Targeted, TargetInv
    <3> QED BY <1>a, <3>1, <3>2, TargetAlone DEF Targeted
  <2> QED BY <1>2, <2>1, TypeOther DEF Targeted
<1>3. ASSUME NEW d \in Devs, MountCommand(d) PROVE TypeOK' /\ Targeted'
  <2>1. table' = table \/ Put(MountPath, d)
    BY <1>3 DEF MountCommand, Put
  <2>2. ASSUME NEW u \in Targets PROVE TargetInv(u)'
    <3>1. Once(u)' /\ (Mounted(u)' => Mounted(u))
      BY <1>a, <2>1, PutFacts, MountPathAssumption DEF Targeted, TargetInv, Paths
    <3> QED BY <1>3, <3>1, TargetAlone DEF MountCommand, Targeted
  <2> QED BY <1>3, <2>2, TypeOther DEF Targeted
<1>4. ASSUME NEW d \in Devs, MountProcessDies(d) PROVE TypeOK' /\ Targeted'
  BY <1>4, <1>a, TargetAlone, TypeOther DEF Targeted, MountProcessDies
<1>5. ASSUME Crash PROVE TypeOK' /\ Targeted'
  <2>1. ASSUME NEW u \in Targets PROVE TargetInv(u)'
    <3>1. op'[u].pc = "idle" /\ UNCHANGED <<table, kvol, app>>
      BY <1>5 DEF Crash, IdleOp
    <3> QED BY <1>a, <3>1 DEF Targeted, TargetInv, PubPCs, UnPCs
  <2> QED BY <1>5, <2>1, TypeOther DEF Targeted
<1>6. ASSUME UNCHANGED vars PROVE TypeOK' /\ Targeted'
  BY <1>6, <1>a, TargetAlone, TypeOther DEF Targeted, vars
<1> QED BY <1>1, <1>2, <1>3, <1>4, <1>5, <1>6 DEF Next

(* In the beginning nothing is mounted.                                     *)
LEMMA InitTargeted == Init => TypeOK /\ Targeted
<1> SUFFICES ASSUME Init PROVE TypeOK /\ Targeted
  OBVIOUS
<1>1. table = <<>> /\ \A mp : LinesOf(mp) = {}
  BY EmptySeq DEF Init, LinesOf
<1>2. op \in [Targets -> Op] /\ left \in Left
  BY BoundAssumption DEF Init, IdleOp, Op, PCs, Left
<1>3. TypeOK
  BY <1>1, <1>2, EmptySeq DEF Init, TypeOK
<1>4. ASSUME NEW t \in Targets PROVE TargetInv(t)
  <2>1. op[t].pc = "idle" /\ kvol[t] = "unmounted"
    BY DEF Init, IdleOp
  <2> QED BY <1>1, <2>1 DEF TargetInv, Once, Mounted, PubPCs, UnPCs
<1> QED BY <1>3, <1>4 DEF Targeted

(* Type correctness of process mode: mountinfo, calls and references stay   *)
(* well formed for any number of targets, devices, overlaps and failures.   *)
THEOREM TypeCorrect == Spec => []TypeOK
BY InitTargeted, TargetedStep, PTL DEF Spec

(* For any number of targets, however calls overlap, fail and are repeated, *)
(* whatever dies or restarts: a target that NodeUnpublishVolume released is *)
(* not mounted, because JUmount takes off one mount and BindTarget never    *)
(* leaves two.                                                              *)
THEOREM StaysReleased == Spec => []Released
<1>1. Targeted => Released
  BY DEF Targeted, TargetInv, Released
<1> QED BY <1>1, InitTargeted, TargetedStep, PTL DEF Spec

-----------------------------------------------------------------------------
(* Calls one at a time *)

(* Paths that are mounted, and their devices.                               *)
LEMMA OnFacts ==
    ASSUME TypeOK, NEW mp
    PROVE  /\ Mounted(mp) => On(mp, Device(mp)) /\ Device(mp) \in Devs \cup {Host}
           /\ \A d : On(mp, d) => Mounted(mp)
           /\ Once(mp) => \A d : On(mp, d) => d = Device(mp)
<1>1. Mounted(mp) => On(mp, Device(mp)) /\ Device(mp) \in Devs \cup {Host} /\ TopLine(mp) \in LinesOf(mp)
  BY TopIsLine, DeviceType
<1>2. \A d : On(mp, d) => Mounted(mp)
  BY DEF On, Mounted
<1>3. ASSUME Once(mp), NEW d, On(mp, d) PROVE d = Device(mp)
  BY <1>1, <1>2, <1>3 DEF On, Once, Device
<1> QED BY <1>1, <1>2, <1>3

(* Targets and the mount path are different.                                *)
LEMMA PathFacts == MountPath \in Paths /\ \A t \in Targets : t \in Paths /\ t # MountPath
BY MountPathAssumption DEF Paths

(* With a device per publication, the only reference JUmount can find is    *)
(* the mount path, and it finds it when it is of the target's device.       *)
LEMMA RefsOrderly ==
    ASSUME TypeOK, Targeted, DeviceInv, NEW t \in Targets, Mounted(t)
    PROVE  /\ \A r \in GetMountDeviceRefs(t) : r[2] = MountPath
           /\ \A d \in Devs : On(MountPath, d) /\ On(t, d) => OnlyOne(GetMountDeviceRefs(t))
<1> DEFINE dev == Device(t)
           lines == {i \in DOMAIN table : i # TopLine(t) /\ table[i].dev = dev}
<1>0. Once(t) /\ Once(MountPath) /\ t \in Paths
  BY PathFacts DEF Targeted, TargetInv, DeviceInv
<1>1. On(t, dev) /\ dev \in Devs /\ dev # Host /\ TopLine(t) \in LinesOf(t)
  BY <1>0, OnFacts, TopIsLine DEF DeviceInv
<1>2. GetMountDeviceRefs(t) = {<<i, table[i].mp>> : i \in lines}
  BY <1>1 DEF GetMountDeviceRefs, RefsAt
<1> HIDE DEF dev
<1>3. ASSUME NEW i \in lines PROVE table[i].mp = MountPath /\ i \in LinesOf(MountPath)
  <2>1. i \in DOMAIN table /\ i # TopLine(t) /\ table[i].dev = dev
    OBVIOUS
  <2>2. table[i].mp \in Paths
    <3>1. DOMAIN table = 1..Len(table) /\ table \in Seq(Entry)
      BY LenProperties DEF TypeOK
    <3>2. \A j \in 1..Len(table) : table[j] \in Entry
      BY <3>1, ElementOfSeq
    <3> QED BY <2>1, <3>1, <3>2 DEF Entry
  <2>3. i \in LinesOf(table[i].mp) /\ On(table[i].mp, dev)
    BY <2>1 DEF LinesOf, On
  <2>4. CASE table[i].mp \in Targets
    <3>1. table[i].mp = t
      BY <1>1, <2>3, <2>4 DEF DeviceInv
    <3> QED BY <1>0, <1>1, <2>1, <2>3, <3>1 DEF Once
  <2> QED BY <2>2, <2>3, <2>4 DEF Paths
<1>4. \A r \in GetMountDeviceRefs(t) : r[2] = MountPath
  BY <1>2, <1>3
<1>5. ASSUME NEW d \in Devs, On(MountPath, d), On(t, d) PROVE OnlyOne(GetMountDeviceRefs(t))
  <2>1. d = dev
    BY <1>0, <1>5, OnFacts DEF dev
  <2>2. PICK i \in LinesOf(MountPath) : table[i].dev = dev
    BY <1>5, <2>1 DEF On
  <2>3. i \in lines
    BY <1>1, <2>2, PathFacts DEF LinesOf
  <2>4. \A j \in lines : j = i
    BY <1>0, <1>3, <2>2 DEF Once
  <2> HIDE DEF lines
  <2>5. GetMountDeviceRefs(t) = {<<i, table[i].mp>>}
    BY <1>2, <2>3, <2>4
  <2> QED BY <2>5 DEF OnlyOne
<1> QED BY <1>4, <1>5

(* No step makes calls orderly again, or undoes a failure.                  *)
LEMMA StaysOrderly ==
    ASSUME TypeOK, [Next]_vars
    PROVE  (Orderly' => Orderly) /\ (Faultless' => Faultless)
<1>1. CASE UNCHANGED left \/ \E w \in {"overlap", "slow", "fault"} : Use(w)
  BY <1>1, UseFacts
<1>2. ASSUME NEW t \in Targets, Step(t) PROVE UNCHANGED left \/ \E w \in {"overlap", "slow", "fault"} : Use(w)
  BY <1>2 DEF Step, NodePublishVolume, CreateTarget, jmount, jmountUnmount, jmountStart, jmountWait,
     JCreateVolume, JCreateVolumeUmount, CreateVol, MakeDir, BindTargetParse, BindTargetUmount, BindTarget, PublishReply, JfsUnmount, JUmount, JUmountTarget, JUmountRef,
     CleanCache, StartCall
<1>3. ASSUME NEW t \in Targets, AppStep(t) PROVE UNCHANGED left
  BY <1>3 DEF AppStep
<1>4. ASSUME NEW d \in Devs, MountCommand(d) \/ MountProcessDies(d) PROVE UNCHANGED left \/ Use("fault")
  BY <1>4 DEF MountCommand, MountProcessDies
<1> QED BY <1>1, <1>2, <1>3, <1>4 DEF Next, vars, Crash

(* In an orderly step no other call is under way, and no mount command but  *)
(* the one that the call waits for.                                         *)
LEMMA Alone ==
    ASSUME TypeOK, OrderlyNow, NEW t \in Targets, Step(t), Orderly'
    PROVE  /\ \A u \in Targets \ {t} : op[u].pc = "idle"
           /\ op[t].pc # "wait" \/ Mounted(MountPath) => mounting = {}
<1>1. \A u \in Targets \ {t} : op[u].pc = "idle"
  <2>1. CASE StartCall(t)
    BY <2>1, UseFacts DEF StartCall
  <2>2. CASE op[t].pc # "idle"
    BY <2>2 DEF OrderlyNow, CallsInv
  <2> QED BY <2>1, <2>2 DEF Step, NodePublishVolume, CreateTarget, jmount, jmountUnmount, jmountStart, jmountWait,
          JCreateVolume, JCreateVolumeUmount, CreateVol, MakeDir, BindTargetParse, BindTargetUmount, BindTarget,
          PublishReply, JfsUnmount, JUmount, JUmountTarget, JUmountRef, CleanCache
<1>2. mounting # {} => op[t].pc = "wait" /\ ~Mounted(MountPath)
  BY <1>1 DEF OrderlyNow, CallsInv
<1> QED BY <1>1, <1>2

(* Orderly calls change mountinfo at their target and at the mount path.    *)
LEMMA OrderlyTable ==
    ASSUME TypeOK, Targeted, OrderlyNow, NEW t \in Targets, Step(t)
    PROVE  \/ UNCHANGED table
           \/ Cut(t)
           \/ Cut(MountPath)
           \/ op[t].pc = "bind" /\ Put(t, Device(MountPath)) /\ Device(MountPath) \in Devs
<1>0. op[t] \in Op /\ OrderlyCall(t) /\ DeviceInv
  BY DEF TypeOK, OrderlyNow
<1>1. CASE \/ CreateTarget(t) \/ jmountUnmount(t) \/ JCreateVolumeUmount(t) \/ BindTargetUmount(t)
           \/ JUmountTarget(t)
  BY <1>1 DEF CreateTarget, jmountUnmount, JCreateVolumeUmount, BindTargetUmount, JUmountTarget, Cut, Corrupted
<1>2. CASE JUmountRef(t)
  <2>1. PICK r \in op[t].refs : op[t].refs = {r}
    BY <1>2 DEF JUmountRef, Targeted, TargetInv, OnlyOne
  <2>2. First(op[t].refs) = r[2]
    BY <2>1 DEF First
  <2>3. r[2] = MountPath
    BY <1>0, <1>2 DEF JUmountRef, OrderlyCall
  <2> QED BY <1>2, <2>2, <2>3 DEF JUmountRef, Cut
<1>3. CASE BindTarget(t)
  <2>1. Mounted(MountPath)
    BY <1>0, <1>3 DEF BindTarget, OrderlyCall, OwnPCs
  <2>2. Device(MountPath) \in Devs
    BY <1>0, <2>1, OnFacts, PathFacts DEF DeviceInv
  <2> QED BY <1>3, <2>1, <2>2 DEF BindTarget, Put
<1>4. CASE \/ NodePublishVolume(t) \/ jmount(t) \/ jmountStart(t) \/ jmountWait(t) \/ JCreateVolume(t) \/ CreateVol(t)
           \/ BindTargetParse(t) \/ PublishReply(t) \/ JfsUnmount(t) \/ JUmount(t) \/ CleanCache(t)
  BY <1>4 DEF NodePublishVolume, jmount, jmountStart, jmountWait, JCreateVolume, CreateVol, MakeDir, BindTargetParse,
              PublishReply, JfsUnmount, JUmount, CleanCache
<1> QED BY <1>1, <1>2, <1>3, <1>4 DEF Step

(* A publication binds its target to the device that was mounted for it.    *)
LEMMA DeviceStep ==
    ASSUME TypeOK, Targeted, OrderlyNow, NEW t \in Targets, Step(t)
    PROVE  DeviceInv'
<1>0. DeviceInv /\ OrderlyCall(t)
  BY DEF OrderlyNow
<1>1. CASE UNCHANGED table
  BY <1>0, <1>1 DEF DeviceInv, Once, On, LinesOf
<1>2. ASSUME NEW mp \in Paths, Cut(mp) PROVE DeviceInv'
  BY <1>0, <1>2, CutFacts DEF DeviceInv
<1>3. CASE op[t].pc = "bind" /\ Put(t, Device(MountPath)) /\ Device(MountPath) \in Devs
  <2> DEFINE dev == Device(MountPath)
  <2>1. Mounted(MountPath) /\ On(MountPath, dev) /\ \A u \in Targets : ~On(u, dev)
    BY <1>0, <1>3, OnFacts DEF OrderlyCall, OwnPCs
  <2>2. dev \in Devs /\ dev # Host
    BY <1>3, BoundAssumption DEF Devs, Host
  <2> HIDE DEF dev
  <2>3. /\ \A q, e : On(q, e)' <=> On(q, e) \/ (q = t /\ e = dev)
        /\ \A q : q # t /\ Once(q) => Once(q)'
    BY <1>3, <2>2, PutFacts, PathFacts DEF dev
  <2> QED BY <1>0, <2>1, <2>2, <2>3, PathFacts DEF DeviceInv
<1> QED BY <1>1, <1>2, <1>3, OrderlyTable, PathFacts

(* The mount command of a call is the only one.                             *)
LEMMA CallsStep ==
    ASSUME TypeOK, Targeted, OrderlyNow, NEW t \in Targets, Step(t), Orderly'
    PROVE  CallsInv'
<1> USE DEF procs, kubelet
<1>0. /\ \A u \in Targets \ {t} : op'[u].pc = "idle"
      /\ op[t].pc # "wait" \/ Mounted(MountPath) => mounting = {}
  BY Alone, StepOthers
<1>1. CASE jmountStart(t)
  <2> DEFINE free == {d \in Devs \ mounting : \A i \in DOMAIN table : table[i].dev # d}
  <2>1. free \in SUBSET Nat /\ free # {}
    BY <1>1, BoundAssumption DEF jmountStart, Devs
  <2>2. Min(free) \in free
    BY <2>1, MinExists
  <2>3. PICK d \in Devs : mounting' = mounting \cup {d} /\ \A i \in DOMAIN table : table[i].dev # d
    BY <1>1, <2>2 DEF jmountStart
  <2>4. mounting = {} /\ UNCHANGED table /\ Goto(t, "wait") /\ ~Mounted(MountPath)
    BY <1>0, <1>1 DEF jmountStart, OrderlyNow, OrderlyCall
  <2>5. op'[t].pc = "wait"
    BY <2>4, OpMoves DEF At, PCs
  <2>6. \A mp : ~On(mp, d)'
    BY <2>3, <2>4 DEF On, LinesOf
  <2>7. ~Mounted(MountPath)'
    BY <2>4 DEF Mounted, LinesOf
  <2>8. mounting' = {d}
    BY <2>3, <2>4
  <2> QED BY <1>0, <2>5, <2>6, <2>7, <2>8 DEF CallsInv
<1>2. CASE jmountWait(t)
  <2>1. mounting' = {}
    BY <1>0, <1>2, UseFacts DEF jmountWait, Live, Corrupted
  <2> QED BY <1>0, <2>1 DEF CallsInv
<1>3. CASE ~jmountStart(t) /\ ~jmountWait(t)
  <2>1. op[t].pc # "wait" /\ mounting' = mounting
    BY <1>3 DEF Step, NodePublishVolume, CreateTarget, jmount, jmountUnmount, JCreateVolume,
       JCreateVolumeUmount, CreateVol, MakeDir, BindTargetParse, BindTargetUmount, BindTarget, PublishReply, JfsUnmount, JUmount, JUmountTarget, JUmountRef, CleanCache, StartCall
  <2> QED BY <1>0, <2>1 DEF CallsInv
<1> QED BY <1>1, <1>2, <1>3

(* The applications that another call finds, it leaves mounted.             *)
LEMMA OthersStep ==
    ASSUME TypeOK, Targeted, OrderlyNow, NEW t \in Targets, Step(t), Orderly', NEW u \in Targets, u # t
    PROVE  OrderlyCall(u)'
<1>1. op'[u].pc = "idle" /\ kvol'[u] = kvol[u] /\ app'[u] = app[u]
  BY Alone, StepOthers
<1>2. Mounted(u) => Mounted(u)'
  <2>1. CASE UNCHANGED table
    BY <2>1 DEF Mounted, LinesOf
  <2>2. CASE Cut(t) \/ Cut(MountPath)
    BY <2>2, CutFacts, PathFacts
  <2>3. CASE Put(t, Device(MountPath)) /\ Device(MountPath) \in Devs
    BY <2>3, PutFacts, PathFacts
  <2> QED BY <2>1, <2>2, <2>3, OrderlyTable
<1>3. InUse(u) => Mounted(u)
  BY DEF OrderlyNow, OrderlyCall
<1> QED BY <1>1, <1>2, <1>3 DEF OrderlyCall, OwnPCs, InUse

(* What a call will rely on in its next step.                               *)
LEMMA OwnStep ==
    ASSUME TypeOK, Targeted, Targeted', OrderlyNow, NEW t \in Targets, Step(t), Orderly'
    PROVE  OrderlyCall(t)'
<1> USE DEF procs, kubelet
<1>0. OrderlyCall(t) /\ DeviceInv /\ Once(MountPath) /\ Once(t) /\ op[t] \in Op
  BY DEF OrderlyNow, DeviceInv, Targeted, TargetInv, TypeOK
<1>a. ASSUME NEW pc \in PCs, Goto(t, pc) PROVE op'[t].pc = pc /\ op'[t].refs = op[t].refs
  BY <1>a, OpMoves DEF At
<1>b. ASSUME NEW k \in KVols, Return(t, k) PROVE op'[t].pc = "idle" /\ kvol'[t] = k
  BY <1>b, OpMoves DEF Back
<1>c. ASSUME op'[t].pc \in {"target", "check", "jUmount", "clean"} PROVE OrderlyCall(t)'
  BY <1>c DEF OrderlyCall, OwnPCs, InUse, Targeted, TargetInv, PubPCs, UnPCs
<1>d. ASSUME op'[t].pc = "idle", kvol'[t] \in {"uncertain", "unmounted"} PROVE OrderlyCall(t)'
  BY <1>d DEF OrderlyCall, OwnPCs, InUse
<1>e. ASSUME op'[t].pc \in PubPCs \cup UnPCs PROVE ~InUse(t)'
  BY <1>e DEF InUse, Targeted, TargetInv
<1>f. ASSUME UNCHANGED table
      PROVE  /\ \A mp : Mounted(mp)' <=> Mounted(mp)
             /\ \A mp, d : On(mp, d)' <=> On(mp, d)
  BY <1>f DEF Mounted, On, LinesOf
<1>1. CASE NodePublishVolume(t) \/ CreateTarget(t)
  BY <1>1, <1>a, <1>c DEF NodePublishVolume, CreateTarget, PCs
<1>2. CASE jmount(t)
  <2>1. CASE Return(t, "uncertain")
    BY <1>b, <1>d, <2>1 DEF KVols
  <2>2. CASE Goto(t, IF Mounted(MountPath) THEN "umount" ELSE "start")
    <3>1. op'[t].pc = IF Mounted(MountPath) THEN "umount" ELSE "start"
      BY <1>a, <2>2 DEF PCs
    <3> QED BY <1>2, <1>e, <1>f, <3>1 DEF jmount, OrderlyCall, OwnPCs, PubPCs
  <2> QED BY <1>2, <2>1, <2>2 DEF jmount
<1>3. CASE jmountUnmount(t)
  <2>1. Mounted(MountPath)
    BY <1>0, <1>3 DEF jmountUnmount, OrderlyCall
  <2>2. op'[t].pc = "start" /\ Cut(MountPath)
    BY <1>3, <1>a, <2>1 DEF jmountUnmount, PCs, Cut
  <2>3. ~Mounted(MountPath)'
    BY <1>0, <2>2, CutFacts, PathFacts
  <2> QED BY <1>e, <2>2, <2>3 DEF OrderlyCall, OwnPCs, PubPCs
<1>4. CASE jmountStart(t)
  <2>1. ~Mounted(MountPath) /\ UNCHANGED table /\ op'[t].pc = "wait"
    BY <1>0, <1>4, <1>a DEF jmountStart, OrderlyCall, PCs
  <2>2. \A d : ~On(MountPath, d)'
    BY <1>f, <2>1, OnFacts
  <2> QED BY <1>e, <2>1, <2>2 DEF OrderlyCall, OwnPCs, PubPCs
<1>5. CASE jmountWait(t)
  <2>1. CASE Return(t, "uncertain")
    BY <1>b, <1>d, <2>1 DEF KVols
  <2>2. CASE Live(MountPath) /\ (Goto(t, "make") \/ Goto(t, "vol"))
    <3>1. Mounted(MountPath)' /\ op'[t].pc \in {"make", "vol"}
      BY <1>5, <1>a, <1>f, <2>2 DEF jmountWait, Live, PCs
    <3>2. \A u \in Targets, d \in Devs : ~(On(MountPath, d) /\ On(u, d))'
      BY <1>0, <1>5, <1>f DEF jmountWait, OrderlyCall
    <3> QED BY <1>e, <3>1, <3>2 DEF OrderlyCall, OwnPCs, PubPCs
  <2> QED BY <1>5, <2>1, <2>2 DEF jmountWait
<1>6. CASE JCreateVolume(t) \/ CreateVol(t)
  <2>0. PICK pc \in {"unmake", "parse"} : MakeDir(t, pc) /\ op[t].pc \in OwnPCs
    BY <1>6 DEF JCreateVolume, CreateVol, OwnPCs
  <2>1. CASE Return(t, "uncertain")
    BY <1>b, <1>d, <2>1 DEF KVols
  <2>2. CASE Goto(t, pc) /\ dir' = dir \cup {IF Mounted(MountPath) THEN "volume" ELSE "host"}
    <3>0. UNCHANGED table
      BY <2>0 DEF MakeDir
    <3>1. Mounted(MountPath) /\ Mounted(MountPath)' /\ op'[t].pc \in {"unmake", "parse"} /\ "volume" \in dir'
      BY <1>0, <1>a, <1>f, <2>0, <2>2, <3>0 DEF OrderlyCall, PCs
    <3>2. \A u \in Targets, d \in Devs : ~(On(MountPath, d) /\ On(u, d))'
      BY <1>0, <1>f, <2>0, <3>0 DEF OrderlyCall
    <3> QED BY <1>e, <3>1, <3>2 DEF OrderlyCall, OwnPCs, PubPCs
  <2> QED BY <2>0, <2>1, <2>2 DEF MakeDir
<1>16. CASE JCreateVolumeUmount(t)
  <2>1. CASE Mounted(MountPath)
    BY <1>16, <1>c, <2>1, OpMoves DEF At
  <2>2. CASE ~Mounted(MountPath)
    BY <1>16, <1>b, <1>d, <2>2 DEF JCreateVolumeUmount, KVols
  <2> QED BY <2>1, <2>2
<1>7. CASE BindTargetParse(t)
  <2>1. Mounted(MountPath)' /\ "volume" \in dir'
    BY <1>0, <1>7, <1>f DEF BindTargetParse, OrderlyCall, OwnPCs
  <2>2. \A u \in Targets, d \in Devs : ~(On(MountPath, d) /\ On(u, d))'
    BY <1>0, <1>7, <1>f DEF BindTargetParse, OrderlyCall, OwnPCs
  <2>3. \/ op'[t].pc \in {"bind", "unbind"}
        \/ op'[t].pc = "reply" /\ Mounted(t)'
        \/ op'[t].pc = "idle" /\ kvol'[t] = "uncertain"
    BY <1>7, <1>a, <1>b, <1>f DEF BindTargetParse, PCs, KVols
  <2> QED BY <1>d, <1>e, <2>1, <2>2, <2>3 DEF OrderlyCall, OwnPCs, PubPCs
<1>8. CASE BindTargetUmount(t)
  <2>1. Mounted(MountPath) /\ op'[t].pc = "bind" /\ "volume" \in dir'
    BY <1>0, <1>8, <1>a DEF BindTargetUmount, OrderlyCall, OwnPCs, PCs
  <2>2. UNCHANGED table \/ Cut(t)
    BY <1>8 DEF BindTargetUmount, Cut
  <2>3. Mounted(MountPath)' /\ \A mp, d : On(mp, d)' => On(mp, d)
    BY <1>f, <2>1, <2>2, CutFacts, PathFacts
  <2>4. \A u \in Targets, d \in Devs : ~(On(MountPath, d) /\ On(u, d))
    BY <1>0, <1>8 DEF BindTargetUmount, OrderlyCall, OwnPCs
  <2>5. \A u \in Targets, d \in Devs : ~(On(MountPath, d) /\ On(u, d))'
    BY <2>3, <2>4
  <2> QED BY <1>e, <2>1, <2>3, <2>5 DEF OrderlyCall, OwnPCs, PubPCs
<1>9. CASE BindTarget(t)
  <2>1. CASE Return(t, "uncertain")
    BY <1>b, <1>d, <2>1 DEF KVols
  <2>2. CASE Goto(t, "reply") /\ \E d \in Devs \cup {Host} : Put(t, d)
    <3>1. op'[t].pc = "reply" /\ Mounted(t)'
      BY <1>a, <2>2, PutFacts, PathFacts DEF PCs
    <3> QED BY <1>e, <3>1 DEF OrderlyCall, OwnPCs, PubPCs
  <2> QED BY <1>9, <2>1, <2>2, DeviceType DEF BindTarget, Put
<1>10. CASE PublishReply(t)
  <2>1. Mounted(t)'
    BY <1>0, <1>10, <1>f DEF PublishReply, OrderlyCall
  <2>2. op'[t].pc = "idle"
    BY <1>10, <1>b DEF PublishReply, KVols
  <2> QED BY <2>1, <2>2 DEF OrderlyCall, OwnPCs
<1>11. CASE JfsUnmount(t)
  BY <1>11, <1>c, Unmounts DEF Unmounting
<1>12. CASE JUmount(t)
  <2>1. CASE Mounted(t)
    <3>1. op'[t].pc = "umTarget" /\ op'[t].refs = GetMountDeviceRefs(t)
      BY <1>12, <2>1, Unmounts DEF Unmounting
    <3>2. /\ \A r \in op'[t].refs : r[2] = MountPath
          /\ \A d \in Devs : On(MountPath, d)' /\ On(t, d)' => OnlyOne(op'[t].refs)
      BY <1>0, <1>12, <1>f, <2>1, <3>1, RefsOrderly DEF JUmount
    <3> QED BY <1>e, <3>1, <3>2 DEF OrderlyCall, OwnPCs, UnPCs
  <2>2. CASE ~Mounted(t)
    BY <1>12, <1>c, <2>2, Unmounts DEF Unmounting
  <2> QED BY <2>1, <2>2
<1>13. CASE JUmountTarget(t)
  <2>1. op'[t].pc \in {"umRef", "clean"} /\ op'[t].refs = op[t].refs
    BY <1>13, Unmounts DEF Unmounting
  <2>2. \A r \in op'[t].refs : r[2] = MountPath
    BY <1>0, <1>13, <2>1 DEF JUmountTarget, OrderlyCall
  <2> QED BY <1>c, <1>e, <2>1, <2>2 DEF OrderlyCall, OwnPCs, UnPCs
<1>14. CASE JUmountRef(t)
  BY <1>14, <1>c, Unmounts DEF Unmounting
<1>15. CASE CleanCache(t)
  BY <1>15, <1>b, <1>d DEF CleanCache, KVols
<1> QED BY <1>1, <1>2, <1>3, <1>4, <1>5, <1>6, <1>7, <1>8, <1>9, <1>10, <1>11, <1>12, <1>13, <1>14, <1>15,
           <1>16 DEF Step

(* The whole step of an orderly call.                                       *)
LEMMA OrderlyStep ==
    ASSUME TypeOK, Targeted, OrderlyNow, NEW t \in Targets, Step(t), Orderly'
    PROVE  OrderlyNow'
<1>1. Targeted'
  BY TargetedStep DEF Next
<1>2. \A u \in Targets : OrderlyCall(u)'
  BY <1>1, OthersStep, OwnStep
<1> QED BY <1>2, DeviceStep, CallsStep DEF OrderlyNow

(* Between the steps of calls: the mount command mounts the device that its *)
(* call waits for, on a path that is not mounted.                           *)
LEMMA OrderlyOther ==
    ASSUME TypeOK, Targeted, OrderlyNow
    PROVE  /\ \A t \in Targets : AppStep(t) => OrderlyNow'
           /\ \A d \in Devs : MountCommand(d) \/ MountProcessDies(d) => OrderlyNow'
           /\ Crash => OrderlyNow'
           /\ UNCHANGED vars => OrderlyNow'
<1> USE DEF procs, kubelet
<1>0. CallsInv /\ DeviceInv /\ \A t \in Targets : OrderlyCall(t)
  BY DEF OrderlyNow
<1>a. ASSUME UNCHANGED table
      PROVE  /\ \A mp : Mounted(mp)' <=> Mounted(mp)
             /\ \A mp, d : On(mp, d)' <=> On(mp, d)
             /\ DeviceInv'
  <2>1. /\ \A mp : Mounted(mp)' <=> Mounted(mp)
        /\ \A mp, d : On(mp, d)' <=> On(mp, d)
        /\ Once(MountPath)' <=> Once(MountPath)
    BY <1>a DEF Mounted, On, Once, LinesOf
  <2> QED BY <1>0, <2>1 DEF DeviceInv
<1>b. ASSUME UNCHANGED <<table, op, dir>>, mounting' = mounting,
             \A u \in Targets : InUse(u)' => InUse(u)
      PROVE  OrderlyNow'
  <2>1. CallsInv'
    BY <1>0, <1>a, <1>b DEF CallsInv
  <2>2. \A u \in Targets : OrderlyCall(u)'
    BY <1>0, <1>a, <1>b DEF OrderlyCall
  <2> QED BY <1>a, <1>b, <2>1, <2>2 DEF OrderlyNow
<1>1. ASSUME NEW t \in Targets, AppStep(t) PROVE OrderlyNow'
  <2>1. ASSUME NEW u \in Targets, InUse(u)' PROVE InUse(u)
    <3>1. app'[u] = app[u] \/ app[u] = "new" \/ app'[u] = "gone"
      BY <1>1 DEF AppStep, TypeOK
    <3>2. kvol'[u] = kvol[u] /\ (app[u] = "new" => kvol[u] = "unmounted")
      BY <1>1 DEF AppStep, Targeted, TargetInv
    <3> QED BY <2>1, <3>1, <3>2 DEF InUse
  <2> QED BY <1>1, <1>b, <2>1 DEF AppStep
<1>2. ASSUME NEW d \in Devs, MountCommand(d) PROVE OrderlyNow'
  <2>1. d \in mounting /\ ~Mounted(MountPath) /\ mounting' = {} /\ UNCHANGED <<op, dir, app, kvol>>
    BY <1>0, <1>2 DEF MountCommand, CallsInv
  <2>2. Put(MountPath, d)
    BY <1>2, <2>1 DEF MountCommand, Put, Corrupted
  <2>3. PICK t \in Targets : op[t].pc = "wait" /\ \A u \in Targets \ {t} : op[u].pc = "idle"
    BY <1>0, <2>1 DEF CallsInv
  <2>4. /\ \A q, e : On(q, e)' <=> On(q, e) \/ (q = MountPath /\ e = d)
        /\ \A q : Mounted(q) => Mounted(q)'
        /\ Once(MountPath)'
    BY <2>1, <2>2, PutFacts, PathFacts
  <2>5. \A mp \in Paths : ~On(mp, d)
    BY <1>0, <2>1 DEF CallsInv
  <2>6. CallsInv'
    BY <1>0, <2>1 DEF CallsInv
  <2>7. d # Host
    BY BoundAssumption DEF Devs, Host
  <2>8. DeviceInv'
    BY <1>0, <2>4, <2>7, PathFacts DEF DeviceInv
  <2>9. ASSUME NEW u \in Targets PROVE OrderlyCall(u)'
    <3>1. CASE u # t
      <4>1. op'[u].pc = "idle" /\ (InUse(u)' => InUse(u))
        BY <2>1, <2>3, <3>1 DEF InUse
      <4> QED BY <1>0, <2>4, <4>1 DEF OrderlyCall, OwnPCs
    <3>2. CASE u = t
      <4>1. op'[u].pc = "wait" /\ (InUse(u)' => InUse(u))
        BY <2>1, <2>3, <3>2 DEF InUse
      <4>2. \A v \in Targets, e \in Devs : ~(On(MountPath, e) /\ On(v, e))'
        <5> SUFFICES ASSUME NEW v \in Targets, NEW e \in Devs, On(MountPath, e)', On(v, e)' PROVE FALSE
          OBVIOUS
        <5>1. On(v, e) /\ e # d
          BY <2>4, <2>5, PathFacts
        <5>2. On(MountPath, e)
          BY <2>4, <5>1
        <5> QED BY <2>1, <5>2, OnFacts
      <4> QED BY <1>0, <2>4, <4>1, <4>2 DEF OrderlyCall, OwnPCs
    <3> QED BY <3>1, <3>2
  <2> QED BY <2>6, <2>8, <2>9 DEF OrderlyNow
<1>3. ASSUME NEW d \in Devs, MountProcessDies(d) PROVE OrderlyNow'
  BY <1>3, <1>b DEF MountProcessDies, InUse
<1>4. ASSUME Crash PROVE OrderlyNow'
  <2>1. /\ UNCHANGED <<table, app, kvol>> /\ mounting' = {}
        /\ \A u \in Targets : op'[u].pc = "idle"
    BY <1>4 DEF Crash, IdleOp
  <2>2. CallsInv'
    BY <2>1 DEF CallsInv
  <2>3. \A u \in Targets : OrderlyCall(u)'
    BY <1>0, <1>a, <2>1 DEF OrderlyCall, OwnPCs, InUse
  <2> QED BY <1>a, <2>1, <2>2, <2>3 DEF OrderlyNow
<1>5. ASSUME UNCHANGED vars PROVE OrderlyNow'
  BY <1>5, <1>b DEF vars, InUse
<1> QED BY <1>1, <1>2, <1>3, <1>4, <1>5

(* The invariant of orderly calls.                                          *)
LEMMA OrderlyNext == TypeOK /\ Targeted /\ OrderlyInv /\ [Next]_vars => OrderlyInv'
<1> SUFFICES ASSUME TypeOK, Targeted, OrderlyInv, [Next]_vars, Orderly' PROVE OrderlyNow'
  BY DEF OrderlyInv
<1>1. OrderlyNow
  BY StaysOrderly DEF OrderlyInv
<1> QED BY <1>1, OrderlyStep, OrderlyOther DEF Next

(* In the beginning there is nothing.                                       *)
LEMMA OrderlyInit == Init => OrderlyInv /\ FaultlessInv
<1> SUFFICES ASSUME Init PROVE OrderlyInv /\ FaultlessInv
  OBVIOUS
<1>1. \A mp : LinesOf(mp) = {}
  BY EmptySeq DEF Init, LinesOf
<1>2. (\A mp : ~Mounted(mp)) /\ (\A mp, d : ~On(mp, d)) /\ Once(MountPath)
  BY <1>1 DEF Mounted, On, Once
<1>3. \A t \in Targets : op[t].pc = "idle" /\ kvol[t] = "unmounted"
  BY DEF Init, IdleOp
<1>4. mounting = {} /\ dead = {}
  BY DEF Init
<1>5. CallsInv /\ DeviceInv
  BY <1>2, <1>3, <1>4 DEF CallsInv, DeviceInv
<1>6. \A t \in Targets : OrderlyCall(t)
  BY <1>3 DEF OrderlyCall, OwnPCs, InUse
<1> QED BY <1>2, <1>4, <1>5, <1>6 DEF OrderlyInv, OrderlyNow, FaultlessInv, Bare, Needed

(* For any number of targets: when calls come one at a time, and mounts do  *)
(* not outlast jmount's patience, the target of a running application stays *)
(* mounted, whatever fails, dies or restarts: JUmount takes off the mount   *)
(* path, never another target.                                              *)
THEOREM StaysServed == Spec => []Served
<1>1. OrderlyInv => Served
  BY DEF OrderlyInv, OrderlyNow, OrderlyCall, Served
<1> QED BY <1>1, InitTargeted, OrderlyInit, TargetedStep, OrderlyNext, PTL DEF Spec

-----------------------------------------------------------------------------
(* And nothing fails *)

(* Without failures a call mounts its target only with its bind.            *)
LEMMA BareStep ==
    ASSUME TypeOK, Targeted, Bare, NEW t \in Targets, Step(t), Faultless'
    PROVE  Bare'
<1> USE DEF procs, kubelet
<1>0. /\ \A u \in Targets : Mounted(u)' => Mounted(u) \/ (u = t /\ op[t].pc = "bind")
      /\ \A u \in Targets \ {t} : op'[u] = op[u] /\ kvol'[u] = kvol[u]
  BY TargetLines, StepOthers
<1>a. ASSUME NEW pc \in PCs, Goto(t, pc) PROVE op'[t].pc = pc
  BY <1>a, OpMoves DEF At
<1>b. ASSUME NEW k \in KVols, Return(t, k) PROVE op'[t].pc = "idle" /\ kvol'[t] = k
  BY <1>b, OpMoves DEF Back
<1>1. ASSUME NEW u \in Targets, u # t
      PROVE  op'[u].pc \in PubPCs \ {"reply"} \/ (op'[u].pc = "idle" /\ kvol'[u] # "mounted") => ~Mounted(u)'
  BY <1>0, <1>1 DEF Bare
<1>2. ASSUME op'[t].pc \in PubPCs \ {"reply"} \/ (op'[t].pc = "idle" /\ kvol'[t] # "mounted")
      PROVE  ~Mounted(t)'
  <2>1. CASE op[t].pc \in PubPCs \ {"reply", "bind"} \/ (op[t].pc = "idle" /\ kvol[t] # "mounted")
    BY <1>0, <2>1 DEF Bare
  <2>2. CASE op[t].pc = "bind"
    <3>1. CASE Goto(t, "reply")
      BY <1>2, <1>a, <3>1 DEF PCs
    <3>2. CASE UNCHANGED table
      <4>1. Mounted(t)' <=> Mounted(t)
        BY <3>2 DEF Mounted, LinesOf
      <4> QED BY <2>2, <4>1 DEF Bare, PubPCs
    <3> QED BY <2>2, <3>1, <3>2 DEF Step, NodePublishVolume, CreateTarget, jmount, jmountUnmount, jmountStart,
            jmountWait, JCreateVolume, JCreateVolumeUmount, CreateVol, MakeDir, BindTargetParse, BindTargetUmount,
            BindTarget, PublishReply, JfsUnmount, JUmount, JUmountTarget, JUmountRef, CleanCache, StartCall
  <2>3. CASE PublishReply(t)
    BY <1>2, <1>b, <2>3, UseFacts DEF PublishReply, KVols, PubPCs
  <2>4. CASE JfsUnmount(t) \/ JUmount(t) \/ JUmountTarget(t) \/ JUmountRef(t)
    <3>1. op'[t].pc \in UnPCs
      BY <2>4, Unmounts DEF Unmounting, UnPCs
    <3> QED BY <1>2, <3>1 DEF PubPCs, UnPCs
  <2>5. CASE CleanCache(t)
    BY <1>0, <2>5 DEF CleanCache, Targeted, TargetInv
  <2> QED BY <2>1, <2>2, <2>3, <2>4, <2>5 DEF Step, NodePublishVolume, CreateTarget, jmount, jmountUnmount,
          jmountStart, jmountWait, JCreateVolume, JCreateVolumeUmount, CreateVol, BindTargetParse, BindTargetUmount,
          BindTarget, StartCall, PubPCs
<1> QED BY <1>1, <1>2 DEF Bare

(* The mount path goes with its last user.                                  *)
LEMMA NeededStep ==
    ASSUME TypeOK, Targeted, OrderlyNow, dead = {}, Bare, Needed, NEW t \in Targets, Step(t), Faultless'
    PROVE  Needed'
<1> USE DEF procs, kubelet
<1>0. /\ Orderly' /\ OrderlyCall(t) /\ DeviceInv /\ Once(MountPath)
      /\ \A mp : ~Corrupted(mp)
  BY DEF Faultless, OrderlyNow, DeviceInv, Corrupted
<1>1. \A u \in Targets \ {t} : op[u].pc = "idle"
  BY <1>0, Alone
<1>2. \A d \in Devs : On(MountPath, d) =>
          (\E u \in Targets : On(u, d)) \/ op[t].pc \in OwnPCs \cup {"wait", "umRef"}
  BY <1>1 DEF Needed, OwnPCs
<1>a. ASSUME NEW pc \in PCs, Goto(t, pc) PROVE op'[t].pc = pc
  BY <1>a, OpMoves DEF At
<1>b. ASSUME op'[t].pc \in OwnPCs \cup {"wait", "umRef"} PROVE Needed'
  BY <1>b DEF Needed
<1>c. ASSUME UNCHANGED table PROVE \A mp, d : On(mp, d)' <=> On(mp, d)
  BY <1>c DEF On, LinesOf
<1>d. ASSUME UNCHANGED table, op[t].pc \notin OwnPCs \cup {"wait", "umRef"} PROVE Needed'
  BY <1>2, <1>c, <1>d DEF Needed
<1>e. ASSUME Cut(MountPath) PROVE Needed'
  <2>1. ~Mounted(MountPath)'
    BY <1>0, <1>e, CutFacts, PathFacts
  <2>2. \A d : ~On(MountPath, d)'
    BY <2>1 DEF On, Mounted
  <2> QED BY <2>2 DEF Needed
<1>3. CASE \/ NodePublishVolume(t) \/ jmount(t) \/ jmountStart(t) \/ PublishReply(t) \/ JfsUnmount(t) \/ JUmount(t)
           \/ CleanCache(t)
  BY <1>3, <1>d DEF NodePublishVolume, jmount, jmountStart, PublishReply, JfsUnmount, JUmount, CleanCache,
     StartCall, OwnPCs
<1>4. CASE CreateTarget(t)
  BY <1>0, <1>4, <1>d DEF CreateTarget, OwnPCs
<1>5. CASE jmountUnmount(t)
  <2>1. Mounted(MountPath)
    BY <1>0, <1>5 DEF jmountUnmount, OrderlyCall
  <2> QED BY <1>5, <1>e, <2>1 DEF jmountUnmount, Cut
<1>6. CASE jmountWait(t)
  <2>1. Goto(t, "make") \/ Goto(t, "vol")
    BY <1>0, <1>6, UseFacts DEF jmountWait
  <2> QED BY <1>a, <1>b, <2>1 DEF OwnPCs, PCs
<1>7. CASE JCreateVolume(t) \/ CreateVol(t)
  <2>1. Goto(t, "unmake") \/ Goto(t, "parse")
    BY <1>0, <1>7, UseFacts DEF JCreateVolume, CreateVol, MakeDir
  <2> QED BY <1>a, <1>b, <2>1 DEF OwnPCs, PCs
<1>13. CASE JCreateVolumeUmount(t)
  <2>1. Mounted(MountPath)
    BY <1>0, <1>13 DEF JCreateVolumeUmount, OrderlyCall, OwnPCs
  <2> QED BY <1>13, <1>e, <2>1 DEF JCreateVolumeUmount, Cut
<1>8. CASE BindTargetParse(t)
  <2>1. ~Mounted(t) /\ Mounted(MountPath)
    BY <1>0, <1>8 DEF BindTargetParse, Bare, PubPCs, OrderlyCall, OwnPCs
  <2>2. Goto(t, "bind")
    BY <1>8, <2>1 DEF BindTargetParse
  <2> QED BY <1>a, <1>b, <2>2 DEF OwnPCs, PCs
<1>9. CASE BindTargetUmount(t)
  <2>1. Goto(t, "bind")
    BY <1>9 DEF BindTargetUmount
  <2> QED BY <1>a, <1>b, <2>1 DEF OwnPCs, PCs
<1>10. CASE BindTarget(t)
  <2>1. Mounted(MountPath) /\ "volume" \in dir
    BY <1>0, <1>10 DEF BindTarget, OrderlyCall, OwnPCs
  <2>2. Put(t, Device(MountPath)) /\ Device(MountPath) \in Devs \cup {Host}
    BY <1>0, <1>10, <2>1, DeviceType DEF BindTarget, Put
  <2>3. \A q, e : On(q, e)' <=> On(q, e) \/ (q = t /\ e = Device(MountPath))
    BY <2>2, PutFacts, PathFacts
  <2>4. \A d : On(MountPath, d) => d = Device(MountPath)
    BY <1>0, OnFacts
  <2>5. ASSUME NEW d \in Devs, On(MountPath, d)' PROVE On(t, d)'
    BY <2>3, <2>4, <2>5, PathFacts
  <2> QED BY <2>5 DEF Needed
<1>11. CASE JUmountTarget(t)
  <2>1. CASE ~Mounted(t)
    BY <1>11, <1>d, <2>1 DEF JUmountTarget, OwnPCs
  <2>2. CASE Mounted(t) /\ OnlyOne(op[t].refs)
    <3>1. op'[t].pc = "umRef"
      BY <1>11, <2>2, Unmounts DEF Unmounting
    <3> QED BY <1>b, <3>1
  <2>3. CASE Mounted(t) /\ ~OnlyOne(op[t].refs)
    <3>1. Cut(t) /\ op[t].pc = "umTarget"
      BY <1>11, <2>3 DEF JUmountTarget, Cut
    <3>2. ASSUME NEW d \in Devs, On(MountPath, d)' PROVE \E u \in Targets : On(u, d)'
      <4>1. On(MountPath, d)
        BY <3>1, <3>2, CutFacts, PathFacts
      <4>2. PICK u \in Targets : On(u, d)
        BY <1>2, <3>1, <4>1 DEF OwnPCs
      <4>3. u # t
        BY <1>0, <2>3, <3>1, <4>1, <4>2 DEF OrderlyCall
      <4> QED BY <3>1, <4>2, <4>3, CutFacts, PathFacts
    <3> QED BY <3>2 DEF Needed
  <2> QED BY <2>1, <2>2, <2>3
<1>12. CASE JUmountRef(t)
  <2>1. PICK r \in op[t].refs : op[t].refs = {r}
    BY <1>12 DEF JUmountRef, Targeted, TargetInv, OnlyOne
  <2>2. First(op[t].refs) = r[2]
    BY <2>1 DEF First
  <2>3. First(op[t].refs) = MountPath
    BY <1>0, <1>12, <2>2 DEF JUmountRef, OrderlyCall
  <2>4. CASE Mounted(MountPath)
    BY <1>12, <1>e, <2>3, <2>4 DEF JUmountRef, Cut
  <2>5. CASE ~Mounted(MountPath)
    <3>1. UNCHANGED table
      BY <1>12, <2>3, <2>5 DEF JUmountRef
    <3>2. \A d : ~On(MountPath, d)'
      BY <1>c, <2>5, <3>1 DEF On, Mounted
    <3> QED BY <3>2 DEF Needed
  <2> QED BY <2>4, <2>5
<1> QED BY <1>3, <1>4, <1>5, <1>6, <1>7, <1>8, <1>9, <1>10, <1>11, <1>12, <1>13 DEF Step

(* The invariant of orderly calls without failures.                         *)
LEMMA FaultlessNext == TypeOK /\ Targeted /\ OrderlyInv /\ FaultlessInv /\ [Next]_vars => FaultlessInv'
<1> SUFFICES ASSUME TypeOK, Targeted, OrderlyInv, FaultlessInv, [Next]_vars, Faultless'
             PROVE  dead' = {} /\ Bare' /\ Needed'
  BY DEF FaultlessInv
<1> USE DEF procs, kubelet
<1>0. OrderlyNow /\ dead = {} /\ Bare /\ Needed
  <2>1. Faultless /\ Orderly
    BY StaysOrderly DEF Faultless
  <2>2. OrderlyNow
    BY <2>1 DEF OrderlyInv
  <2> QED BY <2>1, <2>2 DEF FaultlessInv
<1>a. ASSUME UNCHANGED <<table, op, kvol, dead>> PROVE dead' = {} /\ Bare' /\ Needed'
  <2>1. (\A mp : Mounted(mp)' <=> Mounted(mp)) /\ (\A mp, d : On(mp, d)' <=> On(mp, d))
    BY <1>a DEF Mounted, On, LinesOf
  <2> QED BY <1>0, <1>a, <2>1 DEF Bare, Needed
<1>1. ASSUME NEW t \in Targets, Step(t) PROVE dead' = {} /\ Bare' /\ Needed'
  <2>1. dead' = {}
    BY <1>0, <1>1 DEF Step, NodePublishVolume, CreateTarget, jmount, jmountUnmount, jmountStart, jmountWait,
       JCreateVolume, JCreateVolumeUmount, CreateVol, MakeDir, BindTargetParse, BindTargetUmount, BindTarget,
       PublishReply, JfsUnmount, JUmount, JUmountTarget, JUmountRef, CleanCache
  <2> QED BY <1>0, <1>1, <2>1, BareStep, NeededStep
<1>2. ASSUME NEW t \in Targets, AppStep(t) PROVE dead' = {} /\ Bare' /\ Needed'
  BY <1>2, <1>a DEF AppStep
<1>3. ASSUME NEW d \in Devs, MountCommand(d) PROVE dead' = {} /\ Bare' /\ Needed'
  <2>1. UNCHANGED <<op, kvol, dead>> /\ d \in mounting
    BY <1>3 DEF MountCommand
  <2>2. PICK t \in Targets : op[t].pc = "wait"
    BY <1>0, <2>1 DEF OrderlyNow, CallsInv
  <2>3. UNCHANGED table \/ Put(MountPath, d)
    BY <1>3 DEF MountCommand, Put
  <2>4. \A u \in Targets : Mounted(u)' => Mounted(u)
    <3>1. CASE UNCHANGED table
      BY <3>1 DEF Mounted, LinesOf
    <3>2. CASE Put(MountPath, d)
      BY <3>2, PutFacts, PathFacts
    <3> QED BY <2>3, <3>1, <3>2
  <2>5. Bare'
    BY <1>0, <2>1, <2>4 DEF Bare
  <2>6. Needed'
    BY <2>1, <2>2 DEF Needed
  <2> QED BY <1>0, <2>1, <2>5, <2>6
<1>4. ASSUME NEW d \in Devs PROVE ~MountProcessDies(d)
  BY UseFacts DEF MountProcessDies
<1>5. ~Crash
  BY UseFacts DEF Crash
<1>6. ASSUME UNCHANGED vars PROVE dead' = {} /\ Bare' /\ Needed'
  BY <1>6, <1>a DEF vars
<1> QED BY <1>1, <1>2, <1>3, <1>4, <1>5, <1>6 DEF Next

(* The inductive invariant is one.                                          *)
LEMMA Inductive == Spec => []IInv
<1>1. Init => IInv
  BY InitTargeted, OrderlyInit DEF IInv
<1>2. IInv /\ [Next]_vars => IInv'
  BY TargetedStep, OrderlyNext, FaultlessNext DEF IInv
<1> QED BY <1>1, <1>2, PTL DEF Spec

(* For any number of targets, published and released in any order: when     *)
(* calls come one at a time and nothing fails, nothing of the volume stays  *)
(* mounted once every target is released.                                   *)
THEOREM NothingLeft == Spec => []NoMountLeft
<1>1. IInv => NoMountLeft
  <2> SUFFICES ASSUME IInv, Quiet, Orderly, left.fault = MaxFault PROVE table = <<>>
    BY DEF NoMountLeft
  <2>1. TypeOK /\ Targeted /\ OrderlyNow /\ Needed
    BY DEF IInv, OrderlyInv, FaultlessInv, Faultless
  <2>2. \A t \in Targets : ~Mounted(t) /\ op[t].pc = "idle"
    BY <2>1 DEF Targeted, TargetInv, Quiet
  <2>3. ~Mounted(MountPath)
    <3> SUFFICES ASSUME Mounted(MountPath) PROVE FALSE
      OBVIOUS
    <3>1. On(MountPath, Device(MountPath)) /\ Device(MountPath) \in Devs
      BY <2>1, OnFacts, PathFacts DEF OrderlyNow, DeviceInv
    <3>2. PICK t \in Targets : On(t, Device(MountPath))
      BY <2>1, <2>2, <3>1 DEF Needed, OwnPCs
    <3> QED BY <2>1, <2>2, <3>2, OnFacts
  <2>4. \A mp \in Paths : ~Mounted(mp)
    BY <2>2, <2>3 DEF Paths
  <2>5. table \in Seq(Entry) /\ Len(table) \in Nat /\ DOMAIN table = 1..Len(table)
    BY <2>1, LenProperties DEF TypeOK
  <2>6. CASE Len(table) # 0
    <3>1. 1 \in 1..Len(table)
      BY <2>5, <2>6
    <3>2. table[1] \in Entry
      BY <2>5, <3>1, ElementOfSeq
    <3>3. table[1].mp \in Paths /\ Mounted(table[1].mp)
      BY <2>5, <3>1, <3>2 DEF Entry, Mounted, LinesOf
    <3> QED BY <2>4, <3>3
  <2> QED BY <2>5, <2>6, EmptySeq
<1> QED BY <1>1, Inductive, PTL

=============================================================================
