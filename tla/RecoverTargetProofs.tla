------------------------ MODULE RecoverTargetProofs ------------------------
(***************************************************************************)
(* The stack of mounts stays within the limit, NodeUnpublishVolume leaves  *)
(* nothing behind and recovery never uncovers a target, for every limit    *)
(* above one and every number of failures of the FUSE mount.               *)
(***************************************************************************)
EXTENDS RecoverTarget, SequenceTheorems, TLAPS

(* An initial part of a stack is a stack and no longer.                     *)
LEMMA InitialPart ==
    ASSUME NEW s \in Seq(Entry), NEW k \in Int, k <= Len(s)
    PROVE  /\ SubSeq(s, 1, k) \in Seq(Entry)
           /\ Len(SubSeq(s, 1, k)) = IF 1 <= k THEN k ELSE 0
<1>1. \A i \in 1..k : s[i] \in Entry
  BY ElementOfSeq
<1> QED
  BY <1>1, SubSeqProperties

(* The stack with all entries dead has the same length.                     *)
LEMMA DeadStack ==
    ASSUME NEW s \in Seq(Entry)
    PROVE  /\ [i \in 1..Len(s) |-> [s[i] EXCEPT !.live = FALSE]] \in Seq(Entry)
           /\ Len([i \in 1..Len(s) |-> [s[i] EXCEPT !.live = FALSE]]) = Len(s)
<1> DEFINE d == [i \in 1..Len(s) |-> [s[i] EXCEPT !.live = FALSE]]
<1>1. Len(s) \in Nat
  BY LenProperties
<1>2. \A i \in 1..Len(s) : s[i] \in Entry
  BY ElementOfSeq
<1>3. d \in [1..Len(s) -> Entry]
  BY <1>2 DEF Entry
<1> HIDE DEF d
<1>4. d \in Seq(Entry)
  BY <1>1, <1>3
<1>5. Len(d) = Len(s)
  BY <1>1, <1>3, <1>4, LenProperties
<1> QED
  BY <1>4, <1>5 DEF d

(* One more entry.                                                          *)
LEMMA OneMore ==
    ASSUME NEW s \in Seq(Entry), NEW e \in Entry
    PROVE  Append(s, e) \in Seq(Entry) /\ Len(Append(s, e)) = Len(s) + 1
  BY AppendProperties

-----------------------------------------------------------------------------
(* Type correctness *)

(* Whatever the limit and the number of failures, the stacks that           *)
(* podReadyHandler and the kubelet edit stay sequences of mountinfo entries *)
(* and what resolveTarget remembers of them stays well formed.              *)
THEOREM TypeCorrect == Spec => []TypeOK
<1>1. Init => TypeOK
  <2> SUFFICES ASSUME Init PROVE TypeOK
    OBVIOUS
  <2>1. \A m \in Points : LiveEntry(m) \in Entry
    BY DEF LiveEntry, RootOf, Entry, Roots, Points
  <2>2. stack \in [Points -> Seq(Entry)]
    <3>1. \A m \in Points : <<LiveEntry(m)>> \in Seq(Entry) /\ <<>> \in Seq(Entry)
      BY <2>1
    <3>2. \/ stack = [m \in Points |-> <<>>]
          \/ stack = [m \in Points |-> <<LiveEntry(m)>>]
      BY DEF Init
    <3> QED
      BY <3>1, <3>2
  <2>3. drv \in Drv
    BY EmptySeq DEF Init, IdleDrv, Drv, DrvPCs, NoItem, Item, Roots, Statuses
  <2>4. /\ dir \in BOOLEAN /\ up = TRUE /\ gone = FALSE /\ app = "running"
        /\ call \in CallPCs /\ deaths = 0
    BY DEF Init, CallPCs
  <2>5. deaths \in 0..MaxDeath
    BY <2>4, RemainAssumption
  <2> QED
    BY <2>2, <2>3, <2>4, <2>5 DEF TypeOK
<1>2. TypeOK /\ [Next]_vars => TypeOK'
  <2> SUFFICES ASSUME TypeOK, [Next]_vars PROVE TypeOK'
    OBVIOUS
  <2> USE RemainAssumption DEF TypeOK
  <2>a. \A m \in Points : LiveEntry(m) \in Entry
    BY DEF LiveEntry, RootOf, Entry, Roots, Points
  <2>b. IdleDrv \in Drv
    BY EmptySeq DEF IdleDrv, Drv, DrvPCs, NoItem, Item, Roots, Statuses
  <2>c. \A m \in Points : Len(stack[m]) \in Nat
    BY LenProperties
  <2>d. \A m \in Points : Pop(m) => stack' \in [Points -> Seq(Entry)]
    BY <2>c, InitialPart DEF Pop
  <2>e. \A m \in Points : Done(m) => drv' \in Drv
    BY <2>b DEF Done, End, Drv, DrvPCs
  <2>1. CASE CreateTarget
    BY <2>1 DEF CreateTarget, CallPCs
  <2>2. CASE BindTarget
    <3>1. stack' \in [Points -> Seq(Entry)]
      BY <2>2, <2>a, OneMore DEF BindTarget, Points
    <3> QED
      BY <2>2, <3>1 DEF BindTarget, CallPCs
  <2>3. CASE UmountTarget
    <3>1. stack' \in [Points -> Seq(Entry)]
      BY <2>3, <2>d DEF UmountTarget, Points
    <3> QED
      BY <2>3, <3>1 DEF UmountTarget, CallPCs
  <2>4. CASE CleanupMountPoint
    BY <2>4 DEF CleanupMountPoint, CallPCs
  <2>5. CASE doReconcile
    BY <2>5 DEF doReconcile, Drv, DrvPCs
  <2>6. CASE parse
    BY <2>6 DEF parse, Drv, DrvPCs
  <2>7. CASE podReadyHandler
    BY <2>7, <2>b DEF podReadyHandler, End, Drv, DrvPCs
  <2>8. CASE resolveTarget
    <3>1. \A m \in Points : resolveTargetItem(m) \in Item
      <4> SUFFICES ASSUME NEW m \in Points PROVE resolveTargetItem(m) \in Item
        OBVIOUS
      <4> DEFINE es == drv.mis[m]
      <4>1. es \in Seq(Entry)
        BY DEF Drv
      <4> HIDE DEF es
      <4>2. Len(es) \in Nat
        BY <4>1, LenProperties
      <4>3. (IF es = <<>> THEN "top" ELSE es[1].root) \in Roots
        <5>1. es # <<>> => es[1] \in Entry
          BY <4>1, EmptySeq, ElementOfSeq
        <5> QED
          BY <5>1 DEF Entry, Roots
      <4>4. check(m, es # <<>>) \in Statuses
        BY DEF check, Stat, Statuses
      <4> QED
        BY <4>2, <4>3, <4>4 DEF resolveTargetItem, Item, es
    <3> QED
      BY <2>8, <3>1 DEF resolveTarget, Drv, DrvPCs
  <2>9. ASSUME NEW m \in Points, recoverTarget(m) PROVE TypeOK'
    <3>1. stack' \in [Points -> Seq(Entry)]
      <4>1. drv.items[m].count \in Nat
        BY DEF Drv, Item
      <4> DEFINE k == IF Len(stack[m]) > drv.items[m].count
                        THEN Len(stack[m]) - drv.items[m].count ELSE 0
      <4>2. SubSeq(stack[m], 1, k) \in Seq(Entry)
        BY <4>1, <2>c, InitialPart
      <4> QED
        BY <2>9, <2>d, <4>2 DEF recoverTarget
    <3>2. drv' \in Drv
      BY <2>9, <2>e DEF recoverTarget, Drv, DrvPCs, MountPC
    <3> QED
      BY <2>9, <3>1, <3>2 DEF recoverTarget
  <2>10. ASSUME NEW m \in Points, recoverMount(m) PROVE TypeOK'
    <3> DEFINE e == [live |-> up, root |-> drv.items[m].root]
    <3>1. e \in Entry
      BY DEF Drv, Item, Entry
    <3>2. stack' \in [Points -> Seq(Entry)]
      <4>1. stack' = stack \/ stack' = [stack EXCEPT ![m] = Append(stack[m], e)]
        BY <2>10 DEF recoverMount
      <4> HIDE DEF e
      <4>2. Append(stack[m], e) \in Seq(Entry)
        BY <3>1, OneMore
      <4> QED
        BY <4>1, <4>2
    <3>3. drv' \in Drv
      BY <2>10, <2>e DEF recoverMount
    <3>4. UNCHANGED <<dir, up, gone, app, call, deaths>>
      BY <2>10 DEF recoverMount
    <3> QED
      BY <3>2, <3>3, <3>4
  <2>11. CASE FuseDies
    <3>1. stack' \in [Points -> Seq(Entry)]
      BY <2>11, DeadStack DEF FuseDies
    <3>2. deaths' \in 0..MaxDeath
      BY <2>11 DEF FuseDies
    <3>3. /\ up' = FALSE
          /\ UNCHANGED <<dir, gone, app, call, drv>>
      BY <2>11 DEF FuseDies
    <3> QED
      BY <3>1, <3>2, <3>3
  <2>12. CASE FuseBack
    BY <2>12 DEF FuseBack
  <2>13. CASE SubPathMount
    <3>1. <<LiveEntry("sub")>> \in Seq(Entry)
      BY <2>a DEF Points
    <3> QED
      BY <2>13, <3>1 DEF SubPathMount
  <2>14. CASE SubPathUnmount
    <3>1. stack' \in [Points -> Seq(Entry)]
      BY <2>14, <2>d DEF SubPathUnmount, Points
    <3> QED
      BY <2>14, <3>1 DEF SubPathUnmount
  <2>15. CASE SourceRemoved
    BY <2>15 DEF SourceRemoved
  <2>16. CASE AppStep
    BY <2>16 DEF AppStep
  <2>17. CASE UNCHANGED vars
    BY <2>17 DEF vars
  <2> QED
    BY <2>1, <2>2, <2>3, <2>4, <2>5, <2>6, <2>7, <2>8, <2>9, <2>10, <2>11, <2>12,
       <2>13, <2>14, <2>15, <2>16, <2>17 DEF Next, CallStep, DrvStep
<1> QED
  BY <1>1, <1>2, PTL DEF Spec

-----------------------------------------------------------------------------
(* The limit.  Between umountTargetUntilRemain and the bind mount nobody    *)
(* but the first bind of the target or of the subPath adds an entry, and    *)
(* that one finds no entry there.                                           *)

BoundInv ==
    \A m \in Points :
        /\ Len(stack[m]) <= Remain
        /\ drv.pc = MountPC(m) => Len(stack[m]) < Remain

(* The number of entries is a number, also after a step; an entry less, or  *)
(* all of them dead, changes nothing about the limit.                       *)
LEMMA Lengths ==
    ASSUME TypeOK
    PROVE  /\ \A m \in Points : Len(stack[m]) \in Nat
           /\ \A m \in Points : stack[m] # <<>> <=> Len(stack[m]) > 0
           /\ \A m \in Points : Pop(m) => stack' = [stack EXCEPT ![m] = stack'[m]]
           /\ \A m \in Points : Pop(m) =>
                 Len(stack'[m]) = IF Len(stack[m]) > 0 THEN Len(stack[m]) - 1 ELSE 0
<1> USE DEF TypeOK
<1>1. \A m \in Points : Len(stack[m]) \in Nat
  BY LenProperties
<1>2. \A m \in Points : stack[m] # <<>> <=> Len(stack[m]) > 0
  BY <1>1, EmptySeq
<1>3. \A m \in Points : Pop(m) => stack' = [stack EXCEPT ![m] = stack'[m]]
  BY DEF Pop
<1>4. \A m \in Points : Pop(m) =>
        Len(stack'[m]) = IF Len(stack[m]) > 0 THEN Len(stack[m]) - 1 ELSE 0
  <2> SUFFICES ASSUME NEW m \in Points, Pop(m)
               PROVE  Len(stack'[m]) = IF Len(stack[m]) > 0 THEN Len(stack[m]) - 1 ELSE 0
    OBVIOUS
  <2>1. stack'[m] = SubSeq(stack[m], 1, Len(stack[m]) - 1)
    BY DEF Pop
  <2>2. stack[m] \in Seq(Entry) /\ Len(stack[m]) - 1 \in Int
    BY <1>1
  <2> QED
    BY <1>1, <2>1, <2>2, InitialPart
<1> QED
  BY <1>1, <1>2, <1>3, <1>4

(* Every step keeps the limit: the one place where an entry is added to a   *)
(* stack that is not empty is guarded by umountTargetUntilRemain.           *)
LEMMA BoundStep == TypeOK /\ BoundInv /\ [Next]_vars => BoundInv'
<1> SUFFICES ASSUME TypeOK, BoundInv, [Next]_vars PROVE BoundInv'
  OBVIOUS
<1> USE RemainAssumption
<1>a. \A m \in Points : stack[m] \in Seq(Entry) /\ Len(stack[m]) \in Nat
  BY Lengths DEF TypeOK
<1>b. \A m \in Points : Pop(m) => \A n \in Points : Len(stack'[n]) <= Len(stack[n])
  BY <1>a, Lengths DEF TypeOK
<1>c. \A m, n \in Points : Done(m) => drv'.pc # MountPC(n)
  BY DEF Done, End, IdleDrv, MountPC, TypeOK, Drv
<1>1. ASSUME UNCHANGED stack, drv'.pc = drv.pc \/ \A m \in Points : drv'.pc # MountPC(m)
      PROVE  BoundInv'
  BY <1>1 DEF BoundInv, MountPC
<1>2. ASSUME \A m \in Points : Len(stack'[m]) <= Len(stack[m]) /\ Len(stack'[m]) \in Nat,
             drv'.pc = drv.pc \/ \A m \in Points : drv'.pc # MountPC(m)
      PROVE  BoundInv'
  BY <1>2, <1>a DEF BoundInv, MountPC
<1>d. \A m \in Points : Pop(m) => \A n \in Points : Len(stack'[n]) \in Nat
  BY <1>a, Lengths DEF TypeOK
<1>3. CASE BindTarget
  <2>1. /\ stack' = [stack EXCEPT !["base"] = Append(stack["base"], LiveEntry("base"))]
        /\ Len(stack["base"]) = 0 /\ drv' = drv
    BY <1>3, Lengths, EmptySeq DEF BindTarget, Mounted, Points
  <2>2. Len(Append(stack["base"], LiveEntry("base"))) = 1
    <3>1. LiveEntry("base") \in Entry
      BY DEF LiveEntry, RootOf, Entry, Roots
    <3>2. stack["base"] \in Seq(Entry)
      BY <1>a DEF Points
    <3> QED
      BY <2>1, <3>1, <3>2, OneMore
  <2> QED
    BY <2>1, <2>2, <1>a DEF BoundInv, MountPC, TypeOK, Points
<1>4. CASE UmountTarget
  BY <1>4, <1>1, <1>2, <1>b, <1>d DEF UmountTarget, Points
<1>5. CASE resolveTarget \/ doReconcile \/ parse \/ podReadyHandler
  <2>1. UNCHANGED stack
    BY <1>5 DEF resolveTarget, doReconcile, parse, podReadyHandler
  <2>2. drv'.pc \in {"parse", "stat", "resolve", "base", "idle"}
    <3>1. drv \in Drv
      BY DEF TypeOK
    <3>2. CASE resolveTarget
      BY <3>1, <3>2 DEF resolveTarget, Drv
    <3>3. CASE doReconcile
      BY <3>1, <3>3 DEF doReconcile, Drv
    <3>4. CASE parse
      BY <3>1, <3>4 DEF parse, Drv
    <3>5. CASE podReadyHandler
      BY <3>1, <3>5 DEF podReadyHandler, End, IdleDrv, Drv
    <3> QED
      BY <1>5, <3>2, <3>3, <3>4, <3>5
  <2>3. \A m \in Points : drv'.pc # MountPC(m)
    BY <2>2 DEF MountPC
  <2> QED
    BY <2>1, <2>3, <1>1
<1>6. ASSUME NEW m \in Points, recoverTarget(m) PROVE BoundInv'
  <2>1. CASE ToRecover(m) /\ BelowRemain(m)
    <3>0. drv \in Drv
      BY DEF TypeOK
    <3>1. UNCHANGED stack /\ drv' = [drv EXCEPT !.pc = MountPC(m)]
      BY <1>6, <2>1 DEF recoverTarget, ToRecover
    <3>3. drv'.pc = MountPC(m)
      BY <3>0, <3>1 DEF Drv
    <3>2. Len(stack[m]) < Remain
      BY <2>1, <1>a, Lengths DEF BelowRemain, Count, Mounted
    <3> QED
      BY <3>1, <3>2, <3>3, <1>a DEF BoundInv, MountPC, Points
  <2>2. CASE ToRecover(m) /\ ~BelowRemain(m)
    <3>1. Pop(m) /\ Done(m)
      BY <1>6, <2>2 DEF recoverTarget, ToRecover
    <3> QED
      BY <3>1, <1>2, <1>b, <1>c, <1>d
  <2>3. CASE ~ToRecover(m)
    <3> DEFINE c == drv.items[m].count
               k == IF Len(stack[m]) > c THEN Len(stack[m]) - c ELSE 0
    <3>1. c \in Nat
      BY DEF TypeOK, Drv, Item
    <3>2. Done(m)
      BY <1>6, <2>3 DEF recoverTarget
    <3>3. stack' = stack \/ stack' = [stack EXCEPT ![m] = SubSeq(stack[m], 1, k)]
      BY <1>6, <2>3 DEF recoverTarget
    <3>4. k \in Nat /\ k <= Len(stack[m])
      BY <3>1, <1>a
    <3> HIDE DEF k
    <3>5. Len(SubSeq(stack[m], 1, k)) = IF 1 <= k THEN k ELSE 0
      BY <3>4, <1>a, InitialPart
    <3>6. \A n \in Points : Len(stack'[n]) <= Len(stack[n]) /\ Len(stack'[n]) \in Nat
      <4>1. CASE stack' = stack
        BY <4>1, <1>a
      <4>2. CASE stack' = [stack EXCEPT ![m] = SubSeq(stack[m], 1, k)]
        <5>1. stack'[m] = SubSeq(stack[m], 1, k) /\ \A n \in Points \ {m} : stack'[n] = stack[n]
          BY <4>2 DEF TypeOK
        <5>2. Len(stack'[m]) <= Len(stack[m]) /\ Len(stack'[m]) \in Nat
          <6>1. Len(stack'[m]) = IF 1 <= k THEN k ELSE 0
            BY <5>1, <3>5
          <6>2. Len(stack[m]) \in Nat
            BY <1>a
          <6> QED
            BY <6>1, <6>2, <3>4
        <5>3. ASSUME NEW n \in Points \ {m}
              PROVE  Len(stack'[n]) <= Len(stack[n]) /\ Len(stack'[n]) \in Nat
          <6>1. stack'[n] = stack[n] /\ Len(stack[n]) \in Nat
            BY <5>1, <1>a
          <6>2. Len(stack[n]) <= Len(stack[n])
            BY <6>1
          <6> QED
            BY <6>1, <6>2
        <5> QED
          BY <5>2, <5>3, Zenon
      <4> QED
        BY <3>3, <4>1, <4>2
    <3> QED
      BY <3>2, <3>6, <1>2, <1>c
  <2> QED
    BY <2>1, <2>2, <2>3
<1>7. ASSUME NEW m \in Points, recoverMount(m) PROVE BoundInv'
  <2> DEFINE e == [live |-> up, root |-> drv.items[m].root]
  <2>1. stack' = stack \/ stack' = [stack EXCEPT ![m] = Append(stack[m], e)]
    BY <1>7 DEF recoverMount
  <2>2. e \in Entry
    BY DEF TypeOK, Drv, Item, Entry
  <2> HIDE DEF e
  <2>3. Len(Append(stack[m], e)) = Len(stack[m]) + 1
    BY <2>2, <1>a, OneMore
  <2>4. Len(stack[m]) < Remain /\ Done(m)
    BY <1>7 DEF recoverMount, BoundInv
  <2>5. \A n \in Points : Len(stack'[n]) <= Remain
    BY <2>1, <2>3, <2>4, <1>a DEF BoundInv, TypeOK
  <2> QED
    BY <2>4, <2>5, <1>c DEF BoundInv, MountPC
<1>8. CASE FuseDies
  <2>1. \A m \in Points : Len(stack'[m]) = Len(stack[m])
    BY <1>8, <1>a, DeadStack DEF FuseDies
  <2>2. drv' = drv
    BY <1>8 DEF FuseDies
  <2> QED
    BY <2>1, <2>2, <1>2, <1>a
<1>9. CASE SubPathMount
  <2>1. /\ stack' = [stack EXCEPT !["sub"] = <<LiveEntry("sub")>>]
        /\ drv' = drv
    BY <1>9 DEF SubPathMount
  <2>2. Len(<<LiveEntry("sub")>>) = 1
    OBVIOUS
  <2> QED
    BY <2>1, <2>2, <1>a DEF BoundInv, MountPC, TypeOK, Points
<1>10. CASE SubPathUnmount
  BY <1>10, <1>2, <1>b, <1>d DEF SubPathUnmount, Points
<1>11. CASE CreateTarget \/ CleanupMountPoint \/ FuseBack \/ SourceRemoved \/ AppStep
            \/ UNCHANGED vars
  BY <1>11, <1>1 DEF CreateTarget, CleanupMountPoint, FuseBack, SourceRemoved, AppStep, vars
<1> QED
  BY <1>3, <1>4, <1>5, <1>6, <1>7, <1>8, <1>9, <1>10, <1>11 DEF Next, CallStep, DrvStep

(* The entries of a mount point stay within defaultTargetMountCounts        *)
(* (umountTargetUntilRemain, recoverTarget), whatever the limit is.         *)
THEOREM StackBounded == Spec => []Bounded
<1>1. Init => BoundInv
  <2> SUFFICES ASSUME Init PROVE BoundInv
    OBVIOUS
  <2>1. \A m \in Points : Len(stack[m]) = 0
    <3>1. \A m \in Points : stack[m] = <<>>
      BY DEF Init
    <3>2. Len(<<>>) = 0
      OBVIOUS
    <3> QED
      BY <3>1, <3>2
  <2>2. \A m \in Points : drv.pc # MountPC(m)
    BY DEF Init, IdleDrv, MountPC
  <2>3. \A m \in Points : Len(stack[m]) <= Remain
    <3>1. 0 <= Remain
      BY RemainAssumption
    <3> QED
      BY <2>1, <3>1
  <2> QED
    BY <2>2, <2>3 DEF BoundInv
<1>2. BoundInv => Bounded
  BY DEF BoundInv, Bounded
<1> QED
  BY <1>1, <1>2, BoundStep, TypeCorrect, PTL DEF Spec

-----------------------------------------------------------------------------
(* What the steps do to a stack, in terms of its length.                    *)

(* A stack without a mount is one of length zero.                           *)
LEMMA MountedLen ==
    ASSUME TypeOK
    PROVE  \A m \in Points : Len(stack[m]) \in Nat /\ (Mounted(m) <=> Len(stack[m]) > 0)
BY Lengths DEF Mounted

(* The stacks after a step, by the action that made it.                     *)
LEMMA StackStep ==
    ASSUME TypeOK, [Next]_vars, NEW m \in Points
    PROVE  \/ Len(stack'[m]) \in Nat /\ Len(stack'[m]) >= Len(stack[m])
           \/ m = "base" /\ UmountTarget
           \/ m = "sub" /\ SubPathUnmount
           \/ recoverTarget(m)
<1>a. \A n \in Points : stack[n] \in Seq(Entry) /\ Len(stack[n]) \in Nat
  BY Lengths DEF TypeOK
<1>b. ASSUME stack'[m] = stack[m] PROVE Len(stack'[m]) \in Nat /\ Len(stack'[m]) >= Len(stack[m])
  <2>1. Len(stack[m]) \in Nat /\ Len(stack[m]) >= Len(stack[m])
    BY <1>a
  <2> QED
    BY <1>b, <2>1
<1>1. CASE BindTarget
  <2>1. LiveEntry("base") \in Entry
    BY DEF LiveEntry, RootOf, Entry, Roots
  <2>2. CASE m = "base"
    <3>1. stack'[m] = Append(stack[m], LiveEntry("base"))
      BY <1>1, <2>2 DEF BindTarget, TypeOK
    <3>2. Len(stack'[m]) = Len(stack[m]) + 1
      BY <3>1, <2>1, <1>a, OneMore
    <3> QED
      BY <3>2, <1>a
  <2>3. CASE m # "base"
    BY <1>1, <2>3, <1>b DEF BindTarget, TypeOK
  <2> QED
    BY <2>2, <2>3
<1>2. CASE UmountTarget
  BY <1>2, <1>b DEF UmountTarget, Pop, Points, TypeOK
<1>3. CASE SubPathUnmount
  BY <1>3, <1>b DEF SubPathUnmount, Pop, Points, TypeOK
<1>4. CASE \E n \in Points : recoverTarget(n)
  BY <1>4, <1>b DEF recoverTarget, Pop, TypeOK
<1>5. ASSUME NEW n \in Points, recoverMount(n)
      PROVE  Len(stack'[m]) \in Nat /\ Len(stack'[m]) >= Len(stack[m])
  <2> DEFINE e == [live |-> up, root |-> drv.items[n].root]
  <2>1. stack' = stack \/ stack' = [stack EXCEPT ![n] = Append(stack[n], e)]
    BY <1>5 DEF recoverMount
  <2>2. e \in Entry
    BY DEF TypeOK, Drv, Item, Entry
  <2> HIDE DEF e
  <2>3. Len(Append(stack[n], e)) = Len(stack[n]) + 1
    BY <2>2, <1>a, OneMore
  <2>4. CASE stack'[m] = stack[m]
    BY <2>4, <1>b
  <2>5. CASE stack'[m] # stack[m]
    <3>1. stack'[m] = Append(stack[m], e) /\ n = m
      BY <2>1, <2>5 DEF TypeOK
    <3>2. Len(stack'[m]) = Len(stack[m]) + 1
      BY <2>3, <3>1
    <3> QED
      BY <3>2, <1>a
  <2> QED
    BY <2>4, <2>5
<1>6. CASE FuseDies
  <2>1. Len(stack'[m]) = Len(stack[m])
    BY <1>6, <1>a, DeadStack DEF FuseDies
  <2>2. Len(stack[m]) \in Nat /\ Len(stack[m]) >= Len(stack[m])
    BY <1>a
  <2> QED
    BY <2>1, <2>2
<1>7. CASE SubPathMount
  <2>1. CASE m = "sub"
    <3>1. Len(stack[m]) = 0
      BY <1>7, <2>1, MountedLen DEF SubPathMount
    <3>2. stack'[m] = <<LiveEntry("sub")>>
      BY <1>7, <2>1 DEF SubPathMount, TypeOK
    <3>3. Len(<<LiveEntry("sub")>>) = 1
      OBVIOUS
    <3>4. Len(stack'[m]) = 1
      BY <3>2, <3>3
    <3> QED
      BY <3>1, <3>4
  <2>2. CASE m # "sub"
    BY <1>7, <2>2, <1>b DEF SubPathMount, TypeOK
  <2> QED
    BY <2>1, <2>2
<1>8. CASE resolveTarget \/ doReconcile \/ parse \/ podReadyHandler \/ CreateTarget
           \/ CleanupMountPoint \/ FuseBack \/ SourceRemoved \/ AppStep \/ UNCHANGED vars
  BY <1>8, <1>b DEF resolveTarget, doReconcile, parse, podReadyHandler, CreateTarget,
     CleanupMountPoint, FuseBack, SourceRemoved, AppStep, vars
<1> QED
  BY <1>1, <1>2, <1>3, <1>4, <1>5, <1>6, <1>7, <1>8 DEF Next, CallStep, DrvStep

-----------------------------------------------------------------------------
(* A running application's mount points.  The driver knows an application   *)
(* as deleted only if it is: an application pod does not come back.         *)

DownInv == drv.down => app # "running"

(* A step of the driver reads the list of pods, or forgets it.              *)
LEMMA DownStep == TypeOK /\ DownInv /\ [Next]_vars => DownInv'
<1> SUFFICES ASSUME TypeOK, DownInv, [Next]_vars PROVE DownInv'
  OBVIOUS
<1>0. drv \in Drv
  BY DEF TypeOK
<1>1. app' = app \/ app' # "running"
  BY DEF Next, CallStep, DrvStep, CreateTarget, BindTarget, UmountTarget, CleanupMountPoint,
     doReconcile, parse, podReadyHandler, resolveTarget, recoverTarget, recoverMount, FuseDies,
     FuseBack, SubPathMount, SubPathUnmount, SourceRemoved, AppStep, vars
<1>e. End => drv'.down = FALSE
  BY DEF End, IdleDrv
<1>f. \A pc : drv' = [drv EXCEPT !.pc = pc] => drv'.down = drv.down
  BY <1>0 DEF Drv
<1>2. \A m \in Points : Done(m) => drv'.down \in {drv.down, FALSE}
  BY <1>e, <1>f, Zenon DEF Done
<1>3. CASE doReconcile
  BY <1>0, <1>3 DEF doReconcile, Drv, DownInv
<1>4. CASE parse \/ podReadyHandler \/ resolveTarget
  <2>1. drv'.down \in {drv.down, FALSE}
    <3>1. CASE parse
      BY <1>0, <3>1 DEF parse, Drv
    <3>2. CASE podReadyHandler
      BY <3>2, <1>e, <1>f, Zenon DEF podReadyHandler
    <3>3. CASE resolveTarget
      BY <1>0, <3>3 DEF resolveTarget, Drv
    <3> QED
      BY <1>4, <3>1, <3>2, <3>3
  <2> QED
    BY <1>1, <2>1 DEF DownInv
<1>5. ASSUME NEW m \in Points, recoverTarget(m) \/ recoverMount(m) PROVE DownInv'
  <2>1. Done(m) \/ drv' = [drv EXCEPT !.pc = MountPC(m)]
    BY <1>5 DEF recoverTarget, recoverMount
  <2>2. drv'.down \in {drv.down, FALSE}
    <3>1. CASE drv' = [drv EXCEPT !.pc = MountPC(m)]
      BY <1>0, <3>1 DEF Drv
    <3> QED
      BY <2>1, <3>1, <1>2
  <2> QED
    BY <1>1, <2>2 DEF DownInv
<1>6. CASE drv' = drv
  BY <1>1, <1>6 DEF DownInv
<1> QED
  BY <1>3, <1>4, <1>5, <1>6 DEF Next, CallStep, DrvStep, CreateTarget, BindTarget, UmountTarget,
     CleanupMountPoint, FuseDies, FuseBack, SubPathMount, SubPathUnmount, SourceRemoved, AppStep,
     vars

(* For every limit above one: recoverTarget never uncovers a mount point    *)
(* of a running application, because umountTargetUntilRemain stops short of *)
(* the last entry and the unmount of a mount point that is gone is for      *)
(* deleted applications.                                                    *)
THEOREM StaysCovered == Spec => NeverBare
<1>1. Init => DownInv
  BY DEF Init, IdleDrv, DownInv
<1>2. TypeOK /\ DownInv /\ [Next]_vars
        => [\A m \in Points : (Running(m) /\ Mounted(m)) => Mounted(m)']_vars
  <2> SUFFICES ASSUME TypeOK, DownInv, [Next]_vars, NEW m \in Points, Running(m), Mounted(m)
               PROVE  Mounted(m)'
    OBVIOUS
  <2>a. \A n \in Points : stack[n] \in Seq(Entry) /\ Len(stack[n]) \in Nat
    BY Lengths DEF TypeOK
  <2>b. Len(stack[m]) > 0
    BY MountedLen
  <2>c. ASSUME Len(stack'[m]) > 0 PROVE Mounted(m)'
    <3>1. Len(<<>>) = 0
      OBVIOUS
    <3> QED
      BY <2>c, <3>1 DEF Mounted
  <2>1. CASE Len(stack'[m]) \in Nat /\ Len(stack'[m]) >= Len(stack[m])
    BY <2>1, <2>a, <2>b, <2>c
  <2>2. CASE m = "base" /\ UmountTarget
    BY <2>2 DEF UmountTarget, Running
  <2>3. CASE m = "sub" /\ SubPathUnmount
    BY <2>3 DEF SubPathUnmount, Running
  <2>4. CASE recoverTarget(m)
    <3>1. ~drv.down
      BY DEF DownInv, Running
    <3>2. CASE UNCHANGED stack
      BY <3>2 DEF Mounted
    <3>3. CASE Pop(m) /\ ~BelowRemain(m)
      <4>1. Len(stack[m]) >= 2
        BY <3>3, <2>a, RemainAssumption DEF BelowRemain, Count
      <4>2. Len(stack'[m]) = Len(stack[m]) - 1
        BY <3>3, <2>b, Lengths
      <4> QED
        BY <4>1, <4>2, <2>a, <2>c
    <3> QED
      BY <2>4, <3>1, <3>2, <3>3 DEF recoverTarget
  <2> QED
    BY <2>1, <2>2, <2>3, <2>4, StackStep
<1> QED
  BY <1>1, <1>2, DownStep, TypeCorrect, PTL DEF Spec, NeverBare

-----------------------------------------------------------------------------
(* After NodeUnpublishVolume.  The directory of the target is gone with the *)
(* last mount, and without it nothing is mounted.                           *)

DoneInv == call = "done" => ~dir /\ ~Mounted("base")

(* A run of the driver that is still busy with the target does not mount.   *)
LEMMA DoneStep == TypeOK /\ DoneInv /\ [Next]_vars => DoneInv'
<1> SUFFICES ASSUME TypeOK, DoneInv, [Next]_vars, call' = "done"
             PROVE  ~dir' /\ ~Mounted("base")'
  BY DEF DoneInv
<1> USE DEF Points
<1>a. ASSUME ~dir, ~Mounted("base"), dir' = dir, stack'["base"] = stack["base"]
      PROVE  ~dir' /\ ~Mounted("base")'
  BY <1>a DEF Mounted
<1>1. CASE CleanupMountPoint
  BY <1>1 DEF CleanupMountPoint, Mounted
<1>2. CASE CreateTarget \/ BindTarget \/ UmountTarget
  BY <1>2 DEF CreateTarget, BindTarget, UmountTarget
<1>3. ASSUME ~CleanupMountPoint, ~(CreateTarget \/ BindTarget \/ UmountTarget)
      PROVE  call' = call /\ dir' = dir
  BY <1>3 DEF Next, CallStep, DrvStep, doReconcile, parse, podReadyHandler, resolveTarget,
     recoverTarget, recoverMount, FuseDies, FuseBack, SubPathMount, SubPathUnmount,
     SourceRemoved, AppStep, vars
<1>4. CASE call = "done" /\ dir' = dir
  <2>1. ~dir /\ stack["base"] = <<>>
    BY <1>4 DEF DoneInv, Mounted
  <2>2. stack["base"] \in Seq(Entry) /\ Len(stack["base"]) = 0
    BY <2>1 DEF TypeOK
  <2>3. CASE FuseDies
    <3>1. stack'["base"] \in Seq(Entry) /\ Len(stack'["base"]) = 0
      BY <2>2, <2>3, DeadStack DEF FuseDies
    <3> QED
      BY <1>4, <2>1, <3>1, EmptySeq DEF Mounted
  <2>4. ASSUME NEW m \in Points, recoverTarget(m) PROVE stack'["base"] = stack["base"]
    <3>1. CASE m = "sub"
      BY <2>4, <3>1 DEF recoverTarget, Pop, TypeOK
    <3>2. CASE m = "base" /\ stack' # stack
      <4>0. ASSUME NEW k \in Int, k <= 0, stack'["base"] = SubSeq(stack["base"], 1, k)
            PROVE  stack'["base"] = stack["base"]
        <5>1. SubSeq(stack["base"], 1, k) \in Seq(Entry) /\ Len(SubSeq(stack["base"], 1, k)) = 0
          BY <4>0, <2>2, InitialPart
        <5> QED
          BY <2>1, <4>0, <5>1, EmptySeq
      <4>1. CASE Pop(m)
        <5>1. stack'["base"] = SubSeq(stack["base"], 1, Len(stack["base"]) - 1)
          BY <4>1, <3>2 DEF Pop, TypeOK
        <5>2. Len(stack["base"]) - 1 \in Int /\ Len(stack["base"]) - 1 <= 0
          BY <2>2
        <5> QED
          BY <4>0, <5>1, <5>2
      <4>2. CASE ~Pop(m)
        <5> DEFINE c == drv.items[m].count
                   k == IF Len(stack["base"]) > c THEN Len(stack["base"]) - c ELSE 0
        <5>1. c \in Nat
          BY DEF TypeOK, Drv, Item
        <5>2. stack'["base"] = SubSeq(stack["base"], 1, k)
          BY <4>2, <2>4, <3>2 DEF recoverTarget, TypeOK
        <5>3. k = 0
          BY <2>2, <5>1
        <5> HIDE DEF k
        <5> QED
          BY <4>0, <5>2, <5>3
      <4> QED
        BY <4>1, <4>2
    <3> QED
      BY <3>1, <3>2
  <2>5. ASSUME NEW m \in Points, recoverMount(m) PROVE stack'["base"] = stack["base"]
    BY <2>5, <2>1 DEF recoverMount, Mounted, TypeOK
  <2>6. CASE SubPathMount \/ SubPathUnmount
    BY <2>6, <1>4, <2>1, <1>a DEF SubPathMount, SubPathUnmount, Pop, Mounted, TypeOK
  <2>7. CASE UNCHANGED stack
    BY <2>7, <1>4, <2>1, <1>a DEF Mounted
  <2>8. CASE \E m \in Points : recoverTarget(m) \/ recoverMount(m)
    BY <2>8, <2>4, <2>5, <1>4, <2>1, <1>a DEF Mounted
  <2>9. CASE CallStep
    BY <2>9, <2>7, <1>4, <1>1 DEF CallStep, CreateTarget, BindTarget, UmountTarget
  <2> QED
    BY <2>3, <2>6, <2>7, <2>8, <2>9 DEF Next, DrvStep, doReconcile, parse, podReadyHandler,
       resolveTarget, FuseBack, SourceRemoved, AppStep, vars
<1> QED
  BY <1>1, <1>2, <1>3, <1>4

(* Once NodeUnpublishVolume has returned, no recoverTarget that read an     *)
(* older mountinfo mounts at the target again.                              *)
THEOREM StaysUnpublished == Spec => []Unpublished
<1>1. Init => DoneInv
  BY DEF Init, DoneInv
<1>2. DoneInv => Unpublished
  BY DEF DoneInv, Unpublished
<1> QED
  BY <1>1, <1>2, DoneStep, TypeCorrect, PTL DEF Spec

-----------------------------------------------------------------------------
(* Which directory a recovered mount point shows *)

AllRoot(s, r) == \A i \in 1..Len(s) : s[i].root = r

(* Entries removed at the top, added with the same root, or dead, leave the *)
(* root of a stack.                                                         *)
LEMMA RootLemma ==
    ASSUME NEW s \in Seq(Entry), NEW r \in Roots, AllRoot(s, r)
    PROVE  /\ \A k \in Int : k <= Len(s) => AllRoot(SubSeq(s, 1, k), r)
           /\ \A e \in Entry : e.root = r => AllRoot(Append(s, e), r)
           /\ AllRoot([i \in 1..Len(s) |-> [s[i] EXCEPT !.live = FALSE]], r)
<1>a. Len(s) \in Nat /\ \A i \in 1..Len(s) : s[i] \in Entry
  BY LenProperties, ElementOfSeq
<1>1. ASSUME NEW k \in Int, k <= Len(s) PROVE AllRoot(SubSeq(s, 1, k), r)
  <2>1. \A i \in 1..k : s[i] \in Entry
    BY <1>a, <1>1
  <2>2. Len(SubSeq(s, 1, k)) = IF 1 <= k THEN k ELSE 0
    BY <1>1, InitialPart
  <2>3. \A i \in 1..k : SubSeq(s, 1, k)[i] = s[i]
    BY <2>1, SubSeqProperties
  <2> QED
    BY <1>1, <1>a, <2>2, <2>3 DEF AllRoot
<1>2. ASSUME NEW e \in Entry, e.root = r PROVE AllRoot(Append(s, e), r)
  BY <1>2, <1>a, AppendProperties DEF AllRoot
<1>3. AllRoot([i \in 1..Len(s) |-> [s[i] EXCEPT !.live = FALSE]], r)
  <2> DEFINE d == [i \in 1..Len(s) |-> [s[i] EXCEPT !.live = FALSE]]
  <2>1. Len(d) = Len(s)
    BY DeadStack
  <2>2. \A i \in 1..Len(s) : d[i].root = s[i].root
    BY <1>a DEF Entry
  <2> HIDE DEF d
  <2>3. AllRoot(d, r)
    BY <2>1, <2>2 DEF AllRoot
  <2> QED
    BY <2>3 DEF d
<1> QED
  BY <1>1, <1>2, <1>3

(* The entries of a mount point all have its root.                          *)
StackInv == \A m \in Points : AllRoot(stack[m], RootOf(m)) /\ AllRoot(drv.mis[m], RootOf(m))

(* A round began when the target had been bound; if the parse found it      *)
(* unmounted, it still is when it is resolved.                              *)
RoundInv ==
    /\ drv.pc # "idle" => call \notin {"none", "bind"}
    /\ drv.pc \in {"stat", "resolve"} /\ drv.mis["base"] = <<>> => stack["base"] = <<>>

(* A target to be recovered has been found with its root.                   *)
ItemInv ==
    \A m \in Points :
        /\ drv.pc \in {"base", "baseMount", "sub", "subMount"} /\ ToRecover(m) =>
              drv.items[m].root = RootOf(m)
        /\ drv.pc = MountPC(m) => ToRecover(m)

RootInv == StackInv /\ RoundInv /\ ItemInv

(* What a step of the driver leaves of its round.                           *)
LEMMA RoundMoves ==
    ASSUME TypeOK
    PROVE  /\ \A pc : drv' = [drv EXCEPT !.pc = pc] =>
                 drv'.pc = pc /\ drv'.mis = drv.mis /\ drv'.items = drv.items /\ drv'.down = drv.down
           /\ End => drv'.pc = "idle" /\ drv'.mis = [m \in Points |-> <<>>]
<1>1. drv \in Drv
  BY DEF TypeOK
<1>2. ASSUME NEW pc, drv' = [drv EXCEPT !.pc = pc]
      PROVE  drv'.pc = pc /\ drv'.mis = drv.mis /\ drv'.items = drv.items /\ drv'.down = drv.down
  BY <1>1, <1>2 DEF Drv
<1>3. End => drv'.pc = "idle" /\ drv'.mis = [m \in Points |-> <<>>]
  BY DEF End, IdleDrv
<1> QED
  BY <1>2, <1>3

(* Every step leaves the entries of a mount point rooted where they were.   *)
LEMMA StackRootStep ==
    ASSUME TypeOK, TypeOK', RootInv, [Next]_vars
    PROVE  StackInv'
<1>a. \A m \in Points : /\ stack[m] \in Seq(Entry) /\ Len(stack[m]) \in Nat
                        /\ AllRoot(stack[m], RootOf(m)) /\ AllRoot(drv.mis[m], RootOf(m))
                        /\ RootOf(m) \in Roots
  BY Lengths DEF TypeOK, RootInv, StackInv, RootOf, Roots, Points
<1>b. \A m \in Points : AllRoot(<<>>, RootOf(m)) /\ AllRoot(<<LiveEntry(m)>>, RootOf(m))
  BY DEF AllRoot, LiveEntry
<1>c. \A m \in Points : Pop(m) => \A n \in Points : AllRoot(stack'[n], RootOf(n))
  <2> SUFFICES ASSUME NEW m \in Points, Pop(m), NEW n \in Points PROVE AllRoot(stack'[n], RootOf(n))
    OBVIOUS
  <2>1. CASE n = m
    <3>1. stack'[n] = SubSeq(stack[n], 1, Len(stack[n]) - 1)
      BY <2>1 DEF Pop, TypeOK
    <3>2. Len(stack[n]) - 1 \in Int /\ Len(stack[n]) - 1 <= Len(stack[n])
      BY <1>a
    <3> QED
      BY <1>a, <3>1, <3>2, RootLemma
  <2>2. CASE n # m
    BY <1>a, <2>2 DEF Pop, TypeOK
  <2> QED
    BY <2>1, <2>2
<1>d. \A m \in Points : LiveEntry(m) \in Entry /\ LiveEntry(m).root = RootOf(m)
  BY DEF LiveEntry, RootOf, Entry, Roots, Points
<1>1. \A m \in Points : AllRoot(stack'[m], RootOf(m))
  <2> SUFFICES ASSUME NEW n \in Points PROVE AllRoot(stack'[n], RootOf(n))
    OBVIOUS
  <2>0. ASSUME stack'[n] = stack[n] PROVE AllRoot(stack'[n], RootOf(n))
    BY <1>a, <2>0
  <2>1. CASE BindTarget
    <3>1. CASE n = "base"
      <4>1. stack'[n] = Append(stack[n], LiveEntry(n))
        BY <2>1, <3>1 DEF BindTarget, TypeOK
      <4> QED
        BY <1>a, <1>d, <4>1, RootLemma
    <3>2. CASE n # "base"
      BY <2>0, <2>1, <3>2 DEF BindTarget, TypeOK
    <3> QED
      BY <3>1, <3>2
  <2>2. CASE UmountTarget \/ SubPathUnmount
    BY <1>c, <2>0, <2>2 DEF UmountTarget, SubPathUnmount, Points
  <2>3. ASSUME NEW m \in Points, recoverTarget(m) PROVE AllRoot(stack'[n], RootOf(n))
    <3> DEFINE c == drv.items[m].count
               k == IF Len(stack[m]) > c THEN Len(stack[m]) - c ELSE 0
    <3>1. c \in Nat
      BY DEF TypeOK, Drv, Item
    <3>2. k \in Int /\ k <= Len(stack[m])
      BY <1>a, <3>1
    <3>3. stack' = stack \/ Pop(m) \/ stack' = [stack EXCEPT ![m] = SubSeq(stack[m], 1, k)]
      BY <2>3 DEF recoverTarget
    <3> HIDE DEF k
    <3>4. CASE stack' = [stack EXCEPT ![m] = SubSeq(stack[m], 1, k)]
      <4>1. AllRoot(SubSeq(stack[m], 1, k), RootOf(m))
        BY <1>a, <3>2, RootLemma
      <4>2. n = m => stack'[n] = SubSeq(stack[m], 1, k)
        BY <3>4 DEF TypeOK
      <4>3. n # m => stack'[n] = stack[n]
        BY <3>4 DEF TypeOK
      <4> QED
        BY <2>0, <4>1, <4>2, <4>3
    <3> QED
      BY <1>c, <2>0, <3>3, <3>4
  <2>4. ASSUME NEW m \in Points, recoverMount(m) PROVE AllRoot(stack'[n], RootOf(n))
    <3> DEFINE e == [live |-> up, root |-> drv.items[m].root]
    <3>1. e \in Entry /\ e.root = drv.items[m].root
      BY DEF TypeOK, Drv, Item, Entry
    <3>2. drv.items[m].root = RootOf(m)
      BY <2>4 DEF recoverMount, RootInv, ItemInv, MountPC
    <3>3. stack' = stack \/ stack' = [stack EXCEPT ![m] = Append(stack[m], e)]
      BY <2>4 DEF recoverMount
    <3> HIDE DEF e
    <3>4. AllRoot(Append(stack[m], e), RootOf(m))
      BY <1>a, <3>1, <3>2, RootLemma
    <3>5. stack'[n] = stack[n] \/ (n = m /\ stack'[n] = Append(stack[m], e))
      BY <3>3 DEF TypeOK
    <3> QED
      BY <2>0, <3>4, <3>5
  <2>5. CASE FuseDies
    <3>1. stack'[n] = [i \in 1..Len(stack[n]) |-> [stack[n][i] EXCEPT !.live = FALSE]]
      BY <2>5 DEF FuseDies
    <3> QED
      BY <1>a, <3>1, RootLemma
  <2>6. CASE SubPathMount
    BY <1>b, <2>0, <2>6 DEF SubPathMount, TypeOK
  <2>7. CASE UNCHANGED stack
    BY <2>0, <2>7
  <2> QED
    BY <2>1, <2>2, <2>3, <2>4, <2>5, <2>6, <2>7 DEF Next, CallStep, DrvStep, CreateTarget,
       CleanupMountPoint, doReconcile, parse, podReadyHandler, resolveTarget, FuseBack,
       SourceRemoved, AppStep, vars
<1>2. \A m \in Points : AllRoot(drv'.mis[m], RootOf(m))
  <2>0. drv \in Drv
    BY DEF TypeOK
  <2>a. CASE drv'.mis = drv.mis
    BY <1>a, <2>a
  <2>b. CASE drv'.mis = [m \in Points |-> <<>>]
    BY <1>b, <2>b
  <2>1. CASE doReconcile
    BY <2>0, <2>1, <2>a DEF doReconcile, Drv
  <2>2. CASE parse
    <3>1. drv'.mis = stack
      BY <2>0, <2>2 DEF parse, Drv
    <3> QED
      BY <1>a, <3>1
  <2>3. CASE podReadyHandler
    BY <2>3, <2>a, <2>b, RoundMoves DEF podReadyHandler
  <2>4. CASE resolveTarget
    BY <2>0, <2>4, <2>a DEF resolveTarget, Drv
  <2>5. ASSUME NEW m \in Points, recoverTarget(m) \/ recoverMount(m)
        PROVE  drv'.mis = drv.mis \/ drv'.mis = [n \in Points |-> <<>>]
    BY <2>5, RoundMoves DEF recoverTarget, recoverMount, Done
  <2>6. CASE UNCHANGED drv
    BY <2>6, <2>a
  <2> QED
    BY <2>a, <2>b, <2>1, <2>2, <2>3, <2>4, <2>5, <2>6 DEF Next, CallStep, DrvStep, CreateTarget,
       BindTarget, UmountTarget, CleanupMountPoint, FuseDies, FuseBack, SubPathMount, SubPathUnmount,
       SourceRemoved, AppStep, vars
<1> QED
  BY <1>1, <1>2 DEF StackInv, RootOf
(* A call does not go back to the bind, and nobody else mounts a target     *)
(* that is not mounted before it is resolved.                               *)
LEMMA RoundStep ==
    ASSUME ~EarlyRound, TypeOK, TypeOK', RootInv, [Next]_vars
    PROVE  RoundInv'
<1>0. drv \in Drv /\ drv' \in Drv
  BY DEF TypeOK
<1>a. RoundInv
  BY DEF RootInv
<1>b. call \notin {"none", "bind"} => call' \notin {"none", "bind"}
  BY DEF Next, CallStep, DrvStep, CreateTarget, BindTarget, UmountTarget, CleanupMountPoint,
     doReconcile, parse, podReadyHandler, resolveTarget, recoverTarget, recoverMount, FuseDies,
     FuseBack, SubPathMount, SubPathUnmount, SourceRemoved, AppStep, vars
<1>1. ASSUME drv'.pc # "idle" PROVE call' \notin {"none", "bind"}
  <2>1. drv.pc # "idle" \/ doReconcile
    BY <1>1 DEF Next, CallStep, DrvStep, CreateTarget, BindTarget, UmountTarget, CleanupMountPoint,
       parse, podReadyHandler, resolveTarget, recoverTarget, recoverMount, MountPC, Points, FuseDies,
       FuseBack, SubPathMount, SubPathUnmount, SourceRemoved, AppStep, vars
  <2> QED
    BY <1>a, <1>b, <2>1 DEF RoundInv, doReconcile
<1>2. ASSUME drv'.pc \in {"stat", "resolve"}, drv'.mis["base"] = <<>> PROVE stack'["base"] = <<>>
  <2>1. CASE parse
    BY <1>0, <1>2, <2>1 DEF parse, Drv
  <2>2. CASE podReadyHandler
    BY <1>a, <1>2, <2>2, RoundMoves DEF podReadyHandler, RoundInv
  <2>3. CASE resolveTarget \/ doReconcile
    BY <1>0, <1>2, <2>3 DEF resolveTarget, doReconcile, Drv
  <2>4. ASSUME NEW m \in Points, recoverTarget(m) \/ recoverMount(m) PROVE FALSE
    BY <1>2, <2>4, RoundMoves DEF recoverTarget, recoverMount, Done, MountPC
  <2>5. CASE UNCHANGED drv
    <3>1. stack["base"] = <<>> /\ ~Mounted("base") /\ call \notin {"none", "bind"}
      BY <1>a, <1>2, <2>5 DEF RoundInv, Mounted
    <3>2. CASE FuseDies
      <4>1. stack["base"] \in Seq(Entry) /\ Len(stack["base"]) = 0
        BY <3>1 DEF TypeOK, Points
      <4>2. stack'["base"] \in Seq(Entry) /\ Len(stack'["base"]) = 0
        BY <3>2, <4>1, DeadStack DEF FuseDies, Points
      <4> QED
        BY <4>2, EmptySeq
    <3>3. CASE SubPathMount \/ SubPathUnmount
      BY <3>1, <3>3 DEF SubPathMount, SubPathUnmount, Pop, TypeOK, Points
    <3>4. CASE CallStep
      BY <3>1, <3>4 DEF CallStep, CreateTarget, BindTarget, UmountTarget, CleanupMountPoint
    <3>5. CASE UNCHANGED stack
      BY <3>1, <3>5
    <3> QED
      BY <2>1, <2>2, <2>3, <2>4, <3>2, <3>3, <3>4, <3>5 DEF Next, DrvStep, FuseBack, SourceRemoved,
         AppStep, vars
  <2> QED
    BY <2>1, <2>2, <2>3, <2>4, <2>5 DEF Next, CallStep, DrvStep, CreateTarget, BindTarget,
       UmountTarget, CleanupMountPoint, FuseDies, FuseBack, SubPathMount, SubPathUnmount,
       SourceRemoved, AppStep, vars
<1> QED
  BY <1>1, <1>2 DEF RoundInv

(* resolveTarget takes the root from an entry: a target that is corrupted   *)
(* was mounted when mountinfo was parsed.                                   *)
LEMMA ItemStep ==
    ASSUME TypeOK, RootInv, [Next]_vars
    PROVE  ItemInv'
<1>0. drv \in Drv
  BY DEF TypeOK
<1>a. ItemInv
  BY DEF RootInv
<1>b. ASSUME drv'.pc \notin {"base", "baseMount", "sub", "subMount"} PROVE ItemInv'
  BY <1>b DEF ItemInv, MountPC
<1>c. ASSUME drv'.items = drv.items, drv'.down = drv.down,
             drv.pc \in {"base", "baseMount", "sub", "subMount"},
             \A m \in Points : drv'.pc = MountPC(m) => ToRecover(m)
      PROVE  ItemInv'
  BY <1>a, <1>c DEF ItemInv, ToRecover, MountPC, RootOf
<1>1. CASE resolveTarget
  <2>1. /\ drv.pc = "resolve" /\ drv'.pc = "base" /\ drv'.down = drv.down
        /\ drv'.items = [m \in Points |-> resolveTargetItem(m)]
    BY <1>0, <1>1 DEF resolveTarget, Drv
  <2>2. ASSUME NEW m \in Points, ToRecover(m)' PROVE drv'.items[m].root = RootOf(m)
    <3> DEFINE es == drv.mis[m]
               it == resolveTargetItem(m)
    <3>1. es \in Seq(Entry) /\ AllRoot(es, RootOf(m)) /\ drv'.items[m] = it
      BY <1>0, <2>1 DEF Drv, RootInv, StackInv
    <3>2. /\ it.count = Len(es) /\ it.status = check(m, es # <<>>)
          /\ it.root = (IF es = <<>> THEN "top" ELSE es[1].root)
      BY DEF resolveTargetItem
    <3>3. it.status = "Corrupt" /\ (m = "sub" => it.count > 0)
      BY <2>2, <3>1 DEF ToRecover
    <3>4. CASE m = "base"
      <4>1. Mounted(m)
        BY <3>2, <3>3, <3>4 DEF check, Stat
      <4>2. es # <<>>
        BY <2>1, <3>4, <4>1 DEF RootInv, RoundInv, Mounted
      <4>3. Len(es) > 0
        BY <3>1, <4>2, EmptySeq, LenProperties
      <4> QED
        BY <3>1, <3>2, <4>2, <4>3, LenProperties DEF AllRoot
    <3>5. CASE m = "sub"
      <4>1. Len(es) > 0
        BY <3>2, <3>3, <3>5
      <4>2. es # <<>>
        BY <4>1
      <4> QED
        BY <3>1, <3>2, <4>1, <4>2, LenProperties DEF AllRoot
    <3> QED
      BY <3>4, <3>5 DEF Points
  <2> QED
    BY <2>1, <2>2 DEF ItemInv, MountPC, RootOf
<1>2. CASE doReconcile \/ parse
  BY <1>0, <1>2, <1>b DEF doReconcile, parse, Drv
<1>3. CASE podReadyHandler
  BY <1>3, <1>b, RoundMoves DEF podReadyHandler
<1>4. ASSUME NEW m \in Points, recoverTarget(m) \/ recoverMount(m) PROVE ItemInv'
  <2>1. drv.pc \in {"base", "baseMount", "sub", "subMount"}
    BY <1>4 DEF recoverTarget, recoverMount, MountPC, Points
  <2>2. CASE ToRecover(m) /\ drv' = [drv EXCEPT !.pc = MountPC(m)]
    BY <1>c, <2>1, <2>2, RoundMoves DEF MountPC, Points
  <2>3. CASE Done(m) /\ m = "base"
    BY <1>c, <2>1, <2>3, RoundMoves DEF Done, MountPC
  <2>4. CASE Done(m) /\ m # "base"
    BY <1>b, <2>4, RoundMoves DEF Done
  <2> QED
    BY <1>4, <2>2, <2>3, <2>4 DEF recoverTarget, recoverMount
<1>5. CASE UNCHANGED drv
  BY <1>a, <1>5 DEF ItemInv, ToRecover
<1> QED
  BY <1>1, <1>2, <1>3, <1>4, <1>5 DEF Next, CallStep, DrvStep, CreateTarget, BindTarget,
     UmountTarget, CleanupMountPoint, FuseDies, FuseBack, SubPathMount, SubPathUnmount,
     SourceRemoved, AppStep, vars

(* Unless a round parsed mountinfo before the target was bound, what        *)
(* recoverTarget binds over a dead mount is the directory that the          *)
(* application saw before, for every limit and number of failures.          *)
THEOREM RootStays == ~EarlyRound => (Spec => []RootKept)
<1> SUFFICES ASSUME ~EarlyRound PROVE Spec => []RootKept
  OBVIOUS
<1>1. Init => RootInv
  <2> SUFFICES ASSUME Init PROVE RootInv
    OBVIOUS
  <2>1. \A m \in Points : AllRoot(<<>>, RootOf(m))
    BY DEF AllRoot
  <2> QED
    BY <2>1 DEF Init, IdleDrv, RootInv, StackInv, RoundInv, ItemInv, MountPC
<1>2. TypeOK /\ TypeOK' /\ RootInv /\ [Next]_vars => RootInv'
  BY StackRootStep, RoundStep, ItemStep DEF RootInv
<1>3. TypeOK /\ RootInv => RootKept
  <2> SUFFICES ASSUME TypeOK, RootInv, NEW m \in Points, Mounted(m) PROVE TopEntry(m).root = RootOf(m)
    BY DEF RootKept
  <2>1. Len(stack[m]) \in Nat /\ Len(stack[m]) > 0
    BY MountedLen
  <2> QED
    BY <2>1 DEF RootInv, StackInv, AllRoot, TopEntry
<1> QED
  BY <1>1, <1>2, <1>3, TypeCorrect, PTL DEF Spec
=============================================================================
