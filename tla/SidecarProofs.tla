--------------------------- MODULE SidecarProofs ---------------------------
(***************************************************************************)
(* Pods with sidecars, for any pod, any number of claims and containers,   *)
(* any configuration and any number of failures, restarts and repeated     *)
(* admissions: no volume goes while the application runs, quotas are set   *)
(* on what is mounted, and caches lie on volumes of the sidecar.           *)
(***************************************************************************)
EXTENDS Sidecar, SequenceTheorems, WellFoundedInduction, TLAPS

-----------------------------------------------------------------------------
(* The inductive invariant *)

(* The records keep their fields.                                           *)
IsVolumes(vols)  == IsSeq(vols) /\ \A i \in DOMAIN vols : "name" \in DOMAIN vols[i]
IsMounts(mounts) == IsSeq(mounts) /\ \A i \in DOMAIN mounts : {"vol", "path"} \subseteq DOMAIN mounts[i]
PodOK ==
    /\ input \in Inputs
    /\ pod = [vols |-> pod.vols, done |-> pod.done, disabled |-> pod.disabled, cons |-> pod.cons]
    /\ IsVolumes(pod.vols) /\ IsSeq(pod.cons)
Working == {"settings", "getSecret", "putSecret", "inject"}
AdmOK(a) ==
    /\ a = [pc |-> a.pc, pairs |-> a.pairs, index |-> a.index, seen |-> a.seen, tries |-> a.tries]
    /\ a.pc \in Working \cup {"wait", "admitted", "refused"}
    /\ IsSeq(a.pairs) /\ \A i \in 1..Len(a.pairs) : a.pairs[i] \in DOMAIN input.vol
    /\ a.pc \in Working => a.pairs # <<>>
Shape == PodOK /\ AdmOK(adm)

(* The sidecars come before the containers of the application.              *)
InFront == \A i, a \in 1..N : IsSidecar(i) /\ ~IsSidecar(a) => i < a

(* What each sidecar was given, from its injection on.                      *)
QuotaOf(sc) == input.vol[sc.serves].subPath # <<>> => sc.quotaPath = Subdir(sc.options)
Listed(v) == IF CacheOpt(v.opts) = 0 THEN <<>> ELSE v.opts[CacheOpt(v.opts)].v
Unbacked(sc) ==
    {Memory} \cup (IF input.kind = "container" THEN {} ELSE ToSet(Listed(input.vol[sc.serves])))
Backed(sc, vols) ==
    \A d \in ToSet(CacheDirOption(sc.options)) \ Unbacked(sc) :
        \E j \in DOMAIN sc.mounts : /\ sc.mounts[j].path = d
                                    /\ \E k \in DOMAIN vols : vols[k].name = sc.mounts[j].vol
QuotaInv == \A i \in Sidecars : QuotaOf(pod.cons[i])
CacheInv == \A i \in Sidecars : Backed(pod.cons[i], pod.vols)

(* Containers have states once the pod is admitted.                         *)
States    == {"waiting", "starting", "running", "exited", "failed"}
ActorInv ==
    /\ Started => adm.pc = "admitted" /\ st \in [1..N -> States] /\ restarts \in [1..N -> Nat]
    /\ at # 0 => Started
    /\ status = [st |-> status.st, restarts |-> status.restarts]
    /\ status.st # <<>> => Started /\ status.st \in [1..N -> States]

(* A container of the application that has ended once, whether it runs      *)
(* again or not.                                                            *)
EndedOnce(a) == Ended(st[a]) \/ restarts[a] > 0
AllEnded     == \A a \in AppCons : EndedOnce(a)

(* A container has started after those before it; a sidecar that has not    *)
(* failed is mounted until all containers of the application have ended;    *)
(* AppController knows only of those that have, and unmounts after them.    *)
InTurn      == Started => \A i \in 1..N : st[i] # "waiting" =>
                  \A j \in 1..(i - 1) : st[j] # "waiting" /\ (restarts[j] = 0 => st[j] # "starting")
MountedInv  == Started => \A i \in Sidecars :
                  restarts[i] = 0 /\ st[i] \in {"running", "exited"} => i \in mounted \/ AllEnded
SeenEnded   == status.st # <<>> => \A a \in AppCons : Ended(status.st[a]) => EndedOnce(a)
UnmountsLate == at # 0 => AllEnded
RunInv == InTurn /\ MountedInv /\ SeenEnded /\ UnmountsLate

IInv == Shape /\ InFront /\ QuotaInv /\ CacheInv /\ ActorInv /\ RunInv

-----------------------------------------------------------------------------
(* Sequences and positions *)

(* A set of naturals has a least element.                                   *)
LEMMA Least ==
    ASSUME NEW S \in SUBSET Nat, S # {}
    PROVE  \E x \in S : \A y \in S : x <= y
<1> DEFINE Less == {ss \in Nat \X Nat : ss[1] < ss[2]}
<1>1. IsWellFoundedOn(Less, Nat)
  BY NatLessThanWellFounded, Zenon DEF OpToRel
<1>2. ASSUME NEW x \in Nat, NEW y \in Nat, y < x PROVE <<y, x>> \in Less
  BY <1>2
<1> HIDE DEF Less
<1>3. PICK x \in S : \A y \in S : ~ (<<y, x>> \in Less)
  BY <1>1, WFMin
<1>4. ASSUME NEW y \in S PROVE x <= y
  <2>1. ~(y < x)
    BY <1>2, <1>3
  <2> QED BY <2>1
<1> QED BY <1>4

(* A set of naturals with 0 and the successor of each of its elements up to *)
(* n holds all of 0..n.                                                     *)
LEMMA Steps ==
    ASSUME NEW n \in Nat, NEW S \in SUBSET Nat, 0 \in S,
           \A k \in 1..n : k - 1 \in S => k \in S
    PROVE  0..n \subseteq S
<1> SUFFICES ASSUME ~(0..n \subseteq S) PROVE FALSE
  OBVIOUS
<1> DEFINE T == {k \in 0..n : k \notin S}
<1>1. T \in SUBSET Nat /\ T # {}
  OBVIOUS
<1>2. PICK k \in T : \A l \in T : k <= l
  <2> HIDE DEF T
  <2> QED BY <1>1, Least
<1>3. k \in 1..n /\ k - 1 \in 0..n /\ k \notin S
  BY <1>2
<1>4. k - 1 \notin T
  BY <1>2, <1>3
<1> QED BY <1>3, <1>4

(* Sequences of anything.                                                   *)
LEMMA SeqIs ==
    ASSUME NEW s
    PROVE  /\ IsSeq(s) => s \in Seq({s[i] : i \in 1..Len(s)})
           /\ \A S : s \in Seq(S) => IsSeq(s)
           /\ IsSeq(s) => Len(s) \in Nat /\ DOMAIN s = 1..Len(s)
BY DEF IsSeq

LEMMA Cat ==
    ASSUME NEW s, NEW t, IsSeq(s), IsSeq(t)
    PROVE  /\ IsSeq(s \o t) /\ Len(s \o t) = Len(s) + Len(t)
           /\ \A i \in 1..Len(s) : (s \o t)[i] = s[i]
           /\ \A i \in 1..Len(t) : (s \o t)[Len(s) + i] = t[i]
<1> DEFINE S == {s[i] : i \in 1..Len(s)} \cup {t[i] : i \in 1..Len(t)}
<1>1. s \in Seq(S) /\ t \in Seq(S)
  BY DEF IsSeq
<1>2. Len(s) \in Nat /\ Len(t) \in Nat
  BY DEF IsSeq
<1> HIDE DEF S
<1>3. s \o t \in Seq(S) /\ Len(s \o t) = Len(s) + Len(t)
  BY <1>1, ConcatProperties
<1>4. \A i \in 1..(Len(s) + Len(t)) : (s \o t)[i] = IF i <= Len(s) THEN s[i] ELSE t[i - Len(s)]
  BY <1>1, ConcatProperties
<1>5. IsSeq(s \o t)
  BY <1>3, SeqIs
<1>6. \A i \in 1..Len(s) : (s \o t)[i] = s[i]
  BY <1>2, <1>4
<1>7. ASSUME NEW i \in 1..Len(t) PROVE (s \o t)[Len(s) + i] = t[i]
  <2>1. Len(s) + i \in 1..(Len(s) + Len(t)) /\ ~(Len(s) + i <= Len(s)) /\ Len(s) + i - Len(s) = i
    BY <1>2
  <2> QED BY <1>4, <2>1
<1> QED BY <1>3, <1>5, <1>6, <1>7

LEMMA One ==
    ASSUME NEW x
    PROVE  IsSeq(<<x>>) /\ Len(<<x>>) = 1 /\ <<x>>[1] = x
BY DEF IsSeq

LEMMA None == IsSeq(<<>>) /\ Len(<<>>) = 0
BY DEF IsSeq

(* The function that KeepAt is defined by.                                  *)
LEMMA KeptExists ==
    ASSUME NEW s, NEW P, Len(s) \in Nat
    PROVE  \E f : /\ f = [i \in 0..Len(s) |-> IF i = 0 THEN <<>> ELSE f[i - 1] \o When(i \in P, <<s[i]>>)]
                  /\ KeepAt(s, P) = f[Len(s)]
<1> DEFINE Kept(n, f) == f = [i \in 0..n |-> IF i = 0 THEN <<>> ELSE f[i - 1] \o When(i \in P, <<s[i]>>)]
           S == {n \in Nat : \E f : Kept(n, f)}
<1>1. 0 \in S
  <2>1. Kept(0, [i \in 0..0 |-> <<>>])
    OBVIOUS
  <2> QED BY <2>1
<1>2. ASSUME NEW n \in 1..Len(s), n - 1 \in S PROVE n \in S
  <2>1. PICK f : Kept(n - 1, f)
    BY <1>2
  <2> DEFINE g == [i \in 0..n |-> IF i = n THEN f[n - 1] \o When(n \in P, <<s[n]>>) ELSE f[i]]
  <2>2. ASSUME NEW i \in 0..n PROVE g[i] = IF i = 0 THEN <<>> ELSE g[i - 1] \o When(i \in P, <<s[i]>>)
    <3>1. CASE i = n
      <4>0. n \in 0..n /\ n - 1 \in 0..n /\ n - 1 # n /\ n # 0
        OBVIOUS
      <4>1. g[n] = f[n - 1] \o When(n \in P, <<s[n]>>) /\ g[n - 1] = f[n - 1] /\ n # 0
        BY <4>0
      <4> QED BY <3>1, <4>1
    <3>2. CASE i # n
      <4>1. i \in 0..(n - 1)
        BY <3>2
      <4>2. f[i] = IF i = 0 THEN <<>> ELSE f[i - 1] \o When(i \in P, <<s[i]>>)
        BY <2>1, <4>1
      <4>3. g[i] = f[i] /\ (i # 0 => g[i - 1] = f[i - 1])
        BY <3>2
      <4> QED BY <4>2, <4>3
    <3> QED BY <3>1, <3>2
  <2>3. Kept(n, g)
    <3>1. g = [i \in 0..n |-> g[i]]
      OBVIOUS
    <3> HIDE DEF g
    <3> QED BY <2>2, <3>1
  <2>4. \E h : Kept(n, h)
    BY <2>3
  <2> QED BY <2>4
<1>3. Len(s) \in S
  <2>1. S \in SUBSET Nat
    OBVIOUS
  <2> HIDE DEF S
  <2>2. 0..Len(s) \subseteq S
    BY <1>1, <1>2, <2>1, Steps
  <2> QED BY <2>2
<1>4. \E f : Kept(Len(s), f)
  BY <1>3
<1>5. KeepAt(s, P) = (CHOOSE f : Kept(Len(s), f))[Len(s)]
  BY DEF KeepAt
<1> QED BY <1>4, <1>5

(* KeepAt keeps the elements at the positions P, all of them, and as the    *)
(* last one the last one when that is to be kept.                           *)
LEMMA Keeps ==
    ASSUME NEW s, NEW P, Len(s) \in Nat
    PROVE  /\ IsSeq(KeepAt(s, P))
           /\ \A j \in 1..Len(KeepAt(s, P)) : \E i \in 1..Len(s) : i \in P /\ KeepAt(s, P)[j] = s[i]
           /\ \A i \in 1..Len(s) : i \in P => \E j \in 1..Len(KeepAt(s, P)) : KeepAt(s, P)[j] = s[i]
           /\ Len(s) \in 1..Len(s) \cap P => /\ Len(KeepAt(s, P)) \in Nat \ {0}
                                             /\ KeepAt(s, P)[Len(KeepAt(s, P))] = s[Len(s)]
<1>1. PICK f : /\ f = [i \in 0..Len(s) |-> IF i = 0 THEN <<>> ELSE f[i - 1] \o When(i \in P, <<s[i]>>)]
               /\ KeepAt(s, P) = f[Len(s)]
  BY KeptExists
<1>2. f[0] = <<>>
  BY <1>1
<1>3. ASSUME NEW i \in 1..Len(s) PROVE f[i] = f[i - 1] \o When(i \in P, <<s[i]>>)
  <2>1. i \in 0..Len(s) /\ i # 0
    OBVIOUS
  <2> QED BY <1>1, <2>1
<1> DEFINE Kept(n) == /\ IsSeq(f[n])
                      /\ \A j \in 1..Len(f[n]) : \E i \in 1..n : i \in P /\ f[n][j] = s[i]
                      /\ \A i \in 1..n : i \in P => \E j \in 1..Len(f[n]) : f[n][j] = s[i]
           S == {n \in Nat : Kept(n)}
<1>4. 0 \in S
  BY <1>2, None
<1>5. ASSUME NEW n \in 1..Len(s), n - 1 \in S
      PROVE  /\ n \in S
             /\ n \in P => Len(f[n]) \in Nat \ {0} /\ f[n][Len(f[n])] = s[n]
  <2>0. Kept(n - 1) /\ n - 1 \in Nat /\ n \in Nat
    <3>1. n - 1 \in S
      BY <1>5
    <3>2. Kept(n - 1)
      BY <3>1
    <3> QED BY <3>2
  <2>1. CASE n \in P
    <3>1. f[n] = f[n - 1] \o <<s[n]>>
      BY <1>3, <2>1 DEF When
    <3>2. /\ IsSeq(f[n]) /\ Len(f[n]) = Len(f[n - 1]) + 1
          /\ \A i \in 1..Len(f[n - 1]) : f[n][i] = f[n - 1][i]
          /\ f[n][Len(f[n - 1]) + 1] = s[n]
      BY <2>0, <3>1, Cat, One
    <3>3. Len(f[n - 1]) \in Nat
      BY <2>0, SeqIs
    <3>4. ASSUME NEW j \in 1..Len(f[n]) PROVE \E i \in 1..n : i \in P /\ f[n][j] = s[i]
      <4>1. CASE j = Len(f[n])
        BY <2>0, <2>1, <3>2, <3>3, <4>1
      <4>2. CASE j # Len(f[n])
        <5>1. j \in 1..Len(f[n - 1])
          BY <3>2, <3>3, <4>2
        <5>2. PICK i \in 1..(n - 1) : i \in P /\ f[n - 1][j] = s[i]
          BY <2>0, <5>1
        <5>3. i \in 1..n
          BY <2>0
        <5> QED BY <3>2, <5>1, <5>2, <5>3
      <4> QED BY <4>1, <4>2
    <3>5. ASSUME NEW i \in 1..n, i \in P PROVE \E j \in 1..Len(f[n]) : f[n][j] = s[i]
      <4>1. CASE i = n
        <5>1. Len(f[n - 1]) + 1 \in 1..Len(f[n])
          BY <3>2, <3>3
        <5> QED BY <3>2, <4>1, <5>1
      <4>2. CASE i # n
        <5>1. i \in 1..(n - 1)
          BY <2>0, <4>2
        <5>2. PICK j \in 1..Len(f[n - 1]) : f[n - 1][j] = s[i]
          BY <2>0, <3>5, <5>1
        <5>3. j \in 1..Len(f[n])
          BY <3>2, <3>3
        <5> QED BY <3>2, <5>2, <5>3
      <4> QED BY <4>1, <4>2
    <3>6. Kept(n)
      BY <3>2, <3>4, <3>5
    <3>7. Len(f[n]) \in Nat \ {0} /\ f[n][Len(f[n])] = s[n]
      BY <3>2, <3>3
    <3> QED BY <2>0, <3>6, <3>7
  <2>2. CASE n \notin P
    <3>1. f[n] = f[n - 1] \o <<>>
      BY <1>3, <2>2 DEF When
    <3>2. f[n] = f[n - 1]
      BY <2>0, <3>1, SeqIs, ConcatEmptySeq
    <3>3. \A i \in 1..n : i \in P => i \in 1..(n - 1)
      BY <2>0, <2>2
    <3>4. \A i \in 1..(n - 1) : i \in 1..n
      BY <2>0
    <3>5. Kept(n)
      BY <2>0, <3>2, <3>3, <3>4
    <3> QED BY <2>0, <2>2, <3>5
  <2> QED BY <2>1, <2>2
<1>6. Len(s) \in S
  <2>1. S \in SUBSET Nat
    OBVIOUS
  <2> HIDE DEF S
  <2>2. 0..Len(s) \subseteq S
    BY <1>4, <1>5, <2>1, Steps
  <2> QED BY <2>2
<1>7. Kept(Len(s))
  BY <1>6
<1>8. Len(s) \in 1..Len(s) \cap P => Len(f[Len(s)]) \in Nat \ {0} /\ f[Len(s)][Len(f[Len(s)])] = s[Len(s)]
  <2> SUFFICES ASSUME Len(s) \in 1..Len(s) \cap P PROVE Len(f[Len(s)]) \in Nat \ {0} /\ f[Len(s)][Len(f[Len(s)])] = s[Len(s)]
    OBVIOUS
  <2>1. Len(s) - 1 \in 0..Len(s) /\ Len(s) \in 1..Len(s)
    OBVIOUS
  <2>2. Len(s) - 1 \in S
    <3>1. S \in SUBSET Nat
      OBVIOUS
    <3> HIDE DEF S
    <3>2. 0..Len(s) \subseteq S
      BY <1>4, <1>5, <3>1, Steps
    <3> QED BY <2>1, <3>2
  <2> HIDE DEF S
  <2> QED BY <1>5, <2>1, <2>2
<1> QED BY <1>1, <1>7, <1>8

LEMMA KeepsAll ==
    ASSUME NEW s, NEW P, Len(s) \in Nat, NEW i \in 1..Len(s), i \in P
    PROVE  \E j \in 1..Len(KeepAt(s, P)) : KeepAt(s, P)[j] = s[i]
BY Keeps

LEMMA KeepsOnly ==
    ASSUME NEW s, NEW P, Len(s) \in Nat, NEW j \in 1..Len(KeepAt(s, P))
    PROVE  \E i \in 1..Len(s) : i \in P /\ KeepAt(s, P)[j] = s[i]
BY Keeps

(* The name that Deduplicate gives a container begins with the name the     *)
(* builder gave it.                                                         *)
LEMMA NamesBegin ==
    ASSUME NEW sc, NEW index, Len(pod.cons) \in Nat, IsSeq(sc.name), Len(sc.name) # 0
    PROVE  IsSeq(NewName(sc, index)) /\ NewName(sc, index)[1] = sc.name[1]
<1> DEFINE D == <<Digit(index)>>
           c == pod.cons
           Name(n, f) == f = [i \in 0..n |-> IF i = 0 THEN sc.name ELSE f[i - 1] \o When(c[i].name = f[i - 1], D)]
           S == {n \in Nat : \E f : Name(n, f)}
<1>0. NewName(sc, index) = (CHOOSE f : Name(Len(c), f))[Len(c)]
  BY DEF NewName
<1> IsSeq(D) /\ Len(D) = 1
  BY One
<1> Len(c) \in Nat
  OBVIOUS
<1> HIDE DEF D, c
<1>1. 0 \in S
  <2>1. Name(0, [i \in 0..0 |-> sc.name])
    OBVIOUS
  <2>2. \E f : Name(0, f)
    BY <2>1
  <2> QED BY <2>2
<1>2. ASSUME NEW n \in 1..Len(c), n - 1 \in S PROVE n \in S
  <2>1. PICK f : Name(n - 1, f)
    BY <1>2
  <2> DEFINE g == [i \in 0..n |-> IF i = n THEN f[n - 1] \o When(c[n].name = f[n - 1], D) ELSE f[i]]
  <2>2. ASSUME NEW i \in 0..n PROVE g[i] = IF i = 0 THEN sc.name ELSE g[i - 1] \o When(c[i].name = g[i - 1], D)
    <3>1. CASE i = n
      <4>0. n \in 0..n /\ n - 1 \in 0..n /\ n - 1 # n /\ n # 0
        OBVIOUS
      <4>1. g[n] = f[n - 1] \o When(c[n].name = f[n - 1], D) /\ g[n - 1] = f[n - 1] /\ n # 0
        BY <4>0
      <4> QED BY <3>1, <4>1
    <3>2. CASE i # n
      <4>1. i \in 0..(n - 1)
        BY <3>2
      <4>2. f[i] = IF i = 0 THEN sc.name ELSE f[i - 1] \o When(c[i].name = f[i - 1], D)
        BY <2>1, <4>1
      <4>3. g[i] = f[i] /\ (i # 0 => g[i - 1] = f[i - 1])
        BY <3>2
      <4> QED BY <4>2, <4>3
    <3> QED BY <3>1, <3>2
  <2>3. Name(n, g)
    <3>1. g = [i \in 0..n |-> g[i]]
      OBVIOUS
    <3> HIDE DEF g
    <3> QED BY <2>2, <3>1
  <2>4. \E h : Name(n, h)
    BY <2>3
  <2> QED BY <2>4
<1>3. Len(c) \in S
  <2>1. S \in SUBSET Nat
    OBVIOUS
  <2> HIDE DEF S
  <2>2. 0..Len(c) \subseteq S
    BY <1>1, <1>2, <2>1, Steps
  <2> QED BY <2>2
<1>4. PICK f : Name(Len(c), f) /\ NewName(sc, index) = f[Len(c)]
  <2>1. \E f : Name(Len(c), f)
    BY <1>3
  <2> QED BY <1>0, <2>1
<1> DEFINE Begun(n) == IsSeq(f[n]) /\ Len(f[n]) \in Nat \ {0} /\ f[n][1] = sc.name[1]
           T == {n \in Nat : Begun(n)}
<1>5. 0 \in T
  <2>1. f[0] = sc.name
    BY <1>4
  <2>2. Len(sc.name) \in Nat
    BY SeqIs
  <2>3. Begun(0)
    BY <2>1, <2>2
  <2> QED BY <2>3
<1>6. ASSUME NEW n \in 1..Len(c), n - 1 \in T PROVE n \in T
  <2>1. n \in 0..Len(c) /\ n # 0
    OBVIOUS
  <2>2. f[n] = f[n - 1] \o When(c[n].name = f[n - 1], D)
    <3>1. Name(Len(c), f)
      BY <1>4
    <3> QED BY ONLY <2>1, <3>1
  <2>3. Begun(n - 1)
    <3>1. n - 1 \in T
      BY <1>6
    <3> QED BY <3>1
  <2> DEFINE w == When(c[n].name = f[n - 1], D)
  <2>4. IsSeq(w) /\ Len(w) \in Nat
    BY None DEF When
  <2>5. f[n] = f[n - 1] \o w
    BY <2>2
  <2> HIDE DEF w
  <2>6. IsSeq(f[n - 1]) /\ Len(f[n - 1]) \in Nat \ {0} /\ f[n - 1][1] = sc.name[1]
    BY <2>3
  <2>7. IsSeq(f[n - 1] \o w) /\ Len(f[n - 1] \o w) = Len(f[n - 1]) + Len(w)
    BY <2>4, <2>6, Cat
  <2>8. (f[n - 1] \o w)[1] = f[n - 1][1]
    BY <2>4, <2>6, Cat
  <2>9. Begun(n)
    BY <2>4, <2>5, <2>6, <2>7, <2>8
  <2> QED BY <2>9
<1>7. Begun(Len(c))
  <2>1. T \in SUBSET Nat
    OBVIOUS
  <2>2. 0..Len(c) \subseteq T
    <3> HIDE DEF T
    <3> QED BY <1>5, <1>6, <2>1, Steps
  <2>3. Len(c) \in T
    BY <2>2
  <2> QED BY <2>3
<1> QED BY <1>4, <1>7

-----------------------------------------------------------------------------
(* Options *)

LEMMA LastOptIs ==
    ASSUME NEW opts, NEW k, NEW m, IsSeq(opts), m \in 1..Len(opts), IsOpt(opts[m], k),
           \A i \in 1..Len(opts) : IsOpt(opts[i], k) => i <= m
    PROVE  LastOpt(opts, k) = opts[m].v
<1> DEFINE I == {i \in DOMAIN opts : IsOpt(opts[i], k)}
<1>1. DOMAIN opts = 1..Len(opts) /\ Len(opts) \in Nat
  BY SeqIs
<1>2. m \in I /\ I \subseteq Int /\ \A i \in I : i <= m
  BY <1>1
<1>3. LastOpt(opts, k) = IF I = {} THEN <<>> ELSE opts[Max(I)].v
  BY DEF LastOpt
<1> HIDE DEF I
<1>4. Max(I) = m
  <2>1. \E x \in I : \A y \in I : x >= y
    BY <1>2
  <2>2. Max(I) \in I /\ \A y \in I : Max(I) >= y
    BY <2>1 DEF Max
  <2>3. Max(I) \in Int /\ m \in Int /\ Max(I) >= m /\ Max(I) <= m
    BY <1>2, <2>2
  <2> HIDE DEF Max
  <2> QED BY <2>3
<1> QED BY <1>2, <1>3, <1>4

LEMMA NoOpt ==
    ASSUME NEW opts, NEW k, \A i \in 1..Len(opts) : ~IsOpt(opts[i], k), IsSeq(opts)
    PROVE  LastOpt(opts, k) = <<>>
<1>1. DOMAIN opts = 1..Len(opts)
  BY SeqIs
<1> QED BY <1>1 DEF LastOpt

(* An option that is appended.                                              *)
LEMMA Appended ==
    ASSUME NEW opts, NEW o, IsSeq(opts)
    PROVE  /\ IsSeq(Append(opts, o)) /\ Len(Append(opts, o)) = Len(opts) + 1
           /\ \A i \in 1..Len(opts) : Append(opts, o)[i] = opts[i]
           /\ Append(opts, o)[Len(opts) + 1] = o
<1> DEFINE S == {opts[i] : i \in 1..Len(opts)} \cup {o}
<1>1. opts \in Seq(S) /\ o \in S
  BY DEF IsSeq
<1> HIDE DEF S
<1>2. Append(opts, o) \in Seq(S) /\ Len(opts) \in Nat
  BY <1>1
<1>3. IsSeq(Append(opts, o))
  BY <1>2, SeqIs
<1> QED BY <1>1, <1>2, <1>3

(* The first cache-dir option.                                              *)
LEMMA CacheOptIs ==
    ASSUME NEW opts, IsSeq(opts)
    PROVE  \/ CacheOpt(opts) = 0 /\ \A i \in 1..Len(opts) : ~IsOpt(opts[i], "cache-dir")
           \/ CacheOpt(opts) \in 1..Len(opts) /\ IsOpt(opts[CacheOpt(opts)], "cache-dir")
<1> DEFINE I == {i \in DOMAIN opts : IsOpt(opts[i], "cache-dir")}
<1>1. DOMAIN opts = 1..Len(opts) /\ Len(opts) \in Nat
  BY SeqIs
<1>2. CacheOpt(opts) = IF I = {} THEN 0 ELSE Min(I)
  BY DEF CacheOpt
<1>3. CASE I = {}
  BY <1>1, <1>2, <1>3
<1>4. CASE I # {}
  <2>1. I \in SUBSET Nat
    BY <1>1
  <2>2. Min(I) \in I
    <3> HIDE DEF I
    <3>1. \E x \in I : \A y \in I : x <= y
      BY <1>4, <2>1, Least
    <3> QED BY <3>1 DEF Min
  <2> QED BY <1>1, <1>2, <1>4, <2>2
<1> QED BY <1>3, <1>4

(* What a sequence without one of its elements is.                          *)
LEMMA RemoveIsSeq ==
    ASSUME NEW s, NEW i \in 1..Len(s), IsSeq(s)
    PROVE  IsSeq(RemoveAt(s, i))
<1> DEFINE S == {s[j] : j \in 1..Len(s)}
<1>1. s \in Seq(S) /\ Len(s) \in Nat
  BY SeqIs
<1> HIDE DEF S
<1>2. SubSeq(s, 1, i - 1) \in Seq(S) /\ SubSeq(s, i + 1, Len(s)) \in Seq(S)
  BY <1>1
<1>3. RemoveAt(s, i) = SubSeq(s, 1, i - 1) \o SubSeq(s, i + 1, Len(s))
  BY DEF RemoveAt
<1>4. RemoveAt(s, i) \in Seq(S)
  BY <1>2, <1>3
<1> QED BY <1>4, SeqIs

(* A sequence of the values of a function on 1..n.                          *)
LEMMA FcnIsSeq ==
    ASSUME NEW n \in Nat, NEW f, f = [i \in 1..n |-> f[i]]
    PROVE  IsSeq(f) /\ Len(f) = n
<1>1. f \in Seq({f[i] : i \in 1..n})
  OBVIOUS
<1>2. Len(f) = n
  OBVIOUS
<1> QED BY <1>1, <1>2, SeqIs

(* The elements of two sequences.                                           *)
LEMMA CatSet ==
    ASSUME NEW s, NEW t, IsSeq(s), IsSeq(t)
    PROVE  ToSet(s \o t) = ToSet(s) \cup ToSet(t)
<1>1. /\ IsSeq(s \o t) /\ Len(s \o t) = Len(s) + Len(t)
      /\ \A i \in 1..Len(s) : (s \o t)[i] = s[i]
      /\ \A i \in 1..Len(t) : (s \o t)[Len(s) + i] = t[i]
  BY Cat
<1>2. /\ Len(s) \in Nat /\ Len(t) \in Nat /\ DOMAIN s = 1..Len(s) /\ DOMAIN t = 1..Len(t)
      /\ DOMAIN (s \o t) = 1..(Len(s) + Len(t))
  BY <1>1, SeqIs
<1>3. ASSUME NEW x \in ToSet(s \o t) PROVE x \in ToSet(s) \cup ToSet(t)
  <2>1. PICK i \in 1..(Len(s) + Len(t)) : x = (s \o t)[i]
    BY <1>2 DEF ToSet
  <2>2. CASE i <= Len(s)
    BY <1>1, <1>2, <2>1, <2>2 DEF ToSet
  <2>3. CASE ~(i <= Len(s))
    <3>1. i - Len(s) \in 1..Len(t) /\ Len(s) + (i - Len(s)) = i
      BY <1>2, <2>3
    <3>2. x = t[i - Len(s)]
      BY <1>1, <2>1, <3>1
    <3> QED BY <1>2, <3>1, <3>2 DEF ToSet
  <2> QED BY <2>2, <2>3
<1>4. ASSUME NEW x \in ToSet(s) PROVE x \in ToSet(s \o t)
  <2>1. PICK i \in 1..Len(s) : x = s[i]
    BY <1>2 DEF ToSet
  <2>2. i \in 1..(Len(s) + Len(t))
    BY <1>2
  <2> QED BY <1>1, <1>2, <2>1, <2>2 DEF ToSet
<1>5. ASSUME NEW x \in ToSet(t) PROVE x \in ToSet(s \o t)
  <2>1. PICK i \in 1..Len(t) : x = t[i]
    BY <1>2 DEF ToSet
  <2>2. Len(s) + i \in 1..(Len(s) + Len(t))
    BY <1>2
  <2> QED BY <1>1, <1>2, <2>1, <2>2 DEF ToSet
<1> QED BY <1>3, <1>4, <1>5

-----------------------------------------------------------------------------
(* Settings *)

(* The directories the cache of a volume may have.                          *)
CacheDir(s, v, d) ==
    \/ \E i \in 1..s.CachePVCs : d = cachePVCPath(i)
    \/ s.CacheEmptyDir /\ d = emptyDirPath
    \/ \E i \in 1..s.CacheInlineVolumes : d = inlinePath(i)
    \/ d \in ToSet(Listed(v))

(* What ParseSetting returns: the last option names the directories, if any *)
(* option does, and those of the cache-dir option of the PV are host paths. *)
Parsed(c, v, s) ==
    /\ s.Claim = c /\ s.SubPath = v.subPath
    /\ s.CachePVCs \in Nat /\ s.CacheInlineVolumes \in Nat /\ s.HostPath \in Nat /\ s.Configs \in Nat
    /\ s.CacheEmptyDir \in BOOLEAN
    /\ IsSeq(s.Options) /\ IsSeq(s.CacheDirs)
    /\ \/ \A i \in 1..Len(s.Options) : ~IsOpt(s.Options[i], "cache-dir")
       \/ /\ Len(s.Options) # 0 /\ IsOpt(s.Options[Len(s.Options)], "cache-dir")
          /\ \A d \in ToSet(s.Options[Len(s.Options)].v) : CacheDir(s, v, d)
    /\ \A d \in ToSet(Listed(v)) : d # Memory => d \in ToSet(s.CacheDirs)

LEMMA ParseSettingIs ==
    ASSUME NEW c, NEW v, VolumeOK(v)
    PROVE  Parsed(c, v, ParseSetting(c, v))
<1> DEFINE ctx    == v.ann @@ v.attr
           opt    == CacheOpt(v.opts)
           listed == IF opt = 0 THEN <<>> ELSE v.opts[opt].v
           rest   == IF opt = 0 THEN v.opts ELSE RemoveAt(v.opts, opt)
           claims == [i \in 1..ctx.cachePVC |-> cachePVCPath(i)]
           empty  == When(ctx.emptyDir, <<emptyDirPath>>)
           inline == [i \in 1..ctx.inline |-> inlinePath(i)]
           dirs   == claims \o empty \o inline \o listed
           host   == IF dirs = <<>> THEN <<defaultCacheDir>> ELSE listed
           opts   == IF dirs = <<>> THEN v.opts ELSE Append(rest, Opt("cache-dir", dirs))
           kept   == {i \in DOMAIN host : host[i] # Memory}
           s      == ParseSetting(c, v)
<1>1. /\ s.Claim = c /\ s.SubPath = v.subPath /\ s.Options = opts /\ s.CacheDirs = KeepAt(host, kept)
      /\ s.CachePVCs = ctx.cachePVC /\ s.CacheEmptyDir = ctx.emptyDir
      /\ s.CacheInlineVolumes = ctx.inline /\ s.HostPath = ctx.hostPath /\ s.Configs = v.configs
  BY DEF ParseSetting
<1>2. /\ ctx.cachePVC \in Nat /\ ctx.emptyDir \in BOOLEAN /\ ctx.inline \in Nat /\ ctx.hostPath \in Nat
      /\ v.configs \in Nat /\ IsSeq(v.opts)
  BY DEF VolumeOK
<1>3. \A i \in DOMAIN v.opts : IsOpt(v.opts[i], "cache-dir") => IsSeq(v.opts[i].v) /\ v.opts[i].v # <<>>
  BY DEF VolumeOK
<1>4. Listed(v) = listed
  BY DEF Listed
<1> HIDE DEF s
<1> HIDE DEF ctx
<1>5. /\ IsSeq(claims) /\ IsSeq(empty) /\ IsSeq(inline)
      /\ ToSet(claims) = {cachePVCPath(i) : i \in 1..ctx.cachePVC}
      /\ ToSet(empty) = IF ctx.emptyDir THEN {emptyDirPath} ELSE {}
      /\ ToSet(inline) = {inlinePath(i) : i \in 1..ctx.inline}
  <2>1. IsSeq(claims) /\ IsSeq(inline)
    BY <1>2, FcnIsSeq
  <2>2. IsSeq(empty)
    BY <1>2, None, One DEF When
  <2>3. ToSet(claims) = {cachePVCPath(i) : i \in 1..ctx.cachePVC}
    BY DEF ToSet
  <2>4. ToSet(inline) = {inlinePath(i) : i \in 1..ctx.inline}
    BY DEF ToSet
  <2>5. ToSet(<<emptyDirPath>>) = {emptyDirPath} /\ ToSet(<<>>) = {}
    <3> HIDE DEF emptyDirPath
    <3> QED BY DEF ToSet
  <2>6. ToSet(empty) = IF ctx.emptyDir THEN {emptyDirPath} ELSE {}
    BY <2>5 DEF When
  <2> QED BY <2>1, <2>2, <2>3, <2>4, <2>6
<1>6. \/ opt = 0 /\ \A i \in 1..Len(v.opts) : ~IsOpt(v.opts[i], "cache-dir")
      \/ opt \in 1..Len(v.opts) /\ IsOpt(v.opts[opt], "cache-dir")
  BY <1>2, CacheOptIs
<1>7. /\ IsSeq(listed) /\ IsSeq(rest)
      /\ listed = <<>> => opt = 0
  <2>1. CASE opt = 0
    BY <1>2, <2>1, None
  <2>2. CASE opt # 0
    <3>1. opt \in 1..Len(v.opts) /\ IsOpt(v.opts[opt], "cache-dir")
      BY <1>6, <2>2
    <3>2. opt \in DOMAIN v.opts
      BY <1>2, <3>1, SeqIs
    <3>3. IsSeq(rest)
      BY <1>2, <2>2, <3>1, RemoveIsSeq
    <3>4. listed = v.opts[opt].v /\ IsSeq(v.opts[opt].v) /\ v.opts[opt].v # <<>>
      BY <1>3, <2>2, <3>1, <3>2
    <3> QED BY <3>3, <3>4
  <2> QED BY <2>1, <2>2
<1> HIDE DEF opt, claims, empty, inline, rest
<1>8. /\ IsSeq(dirs)
      /\ ToSet(dirs) = ToSet(claims) \cup ToSet(empty) \cup ToSet(inline) \cup ToSet(listed)
      /\ dirs = <<>> => listed = <<>>
  <2> HIDE DEF listed
  <2>1. IsSeq(claims \o empty) /\ ToSet(claims \o empty) = ToSet(claims) \cup ToSet(empty)
    BY <1>5, Cat, CatSet
  <2>2. /\ IsSeq((claims \o empty) \o inline)
        /\ ToSet((claims \o empty) \o inline) = ToSet(claims \o empty) \cup ToSet(inline)
    BY <1>5, <2>1, Cat, CatSet
  <2> DEFINE most == (claims \o empty) \o inline
  <2>3. IsSeq(most)
    BY <2>2
  <2> HIDE DEF most
  <2>4. /\ IsSeq(most \o listed) /\ ToSet(most \o listed) = ToSet(most) \cup ToSet(listed)
        /\ Len(most \o listed) = Len(most) + Len(listed)
    BY <1>7, <2>3, Cat, CatSet
  <2>5. most \o listed = <<>> => listed = <<>>
    <3>1. Len(most) \in Nat /\ Len(listed) \in Nat
      BY <1>7, <2>3, SeqIs
    <3>2. most \o listed = <<>> => Len(listed) = 0
      BY <2>4, <3>1
    <3> QED BY <1>7, <3>2 DEF IsSeq
  <2> QED BY <2>1, <2>2, <2>4, <2>5 DEF most
<1> HIDE DEF listed, dirs
<1>9. \A d \in ToSet(dirs) : CacheDir(s, v, d)
  BY <1>1, <1>2, <1>4, <1>5, <1>8 DEF CacheDir
<1>10. /\ IsSeq(opts)
       /\ \/ \A i \in 1..Len(opts) : ~IsOpt(opts[i], "cache-dir")
          \/ /\ Len(opts) # 0 /\ IsOpt(opts[Len(opts)], "cache-dir")
             /\ \A d \in ToSet(opts[Len(opts)].v) : CacheDir(s, v, d)
  <2>1. CASE dirs = <<>>
    <3>1. opt = 0
      BY <1>7, <1>8, <2>1
    <3>2. \A i \in 1..Len(v.opts) : ~IsOpt(v.opts[i], "cache-dir")
      BY <1>6, <3>1
    <3> QED BY <1>2, <2>1, <3>2
  <2>2. CASE dirs # <<>>
    <3> DEFINE o == Opt("cache-dir", dirs)
    <3>1. IsOpt(o, "cache-dir") /\ o.v = dirs
      BY DEF Opt, IsOpt
    <3> HIDE DEF o
    <3>2. opts = Append(rest, o)
      BY <2>2 DEF o
    <3>3. IsSeq(opts) /\ Len(opts) = Len(rest) + 1 /\ opts[Len(rest) + 1] = o /\ Len(rest) \in Nat
      BY <1>7, <3>2, Appended, SeqIs
    <3> HIDE DEF opts
    <3> QED BY <1>9, <3>1, <3>3
  <2> QED BY <2>1, <2>2
<1>11. /\ IsSeq(KeepAt(host, kept))
       /\ \A d \in ToSet(listed) : d # Memory => d \in ToSet(KeepAt(host, kept))
  <2>1. IsSeq(host) /\ (listed # <<>> => host = listed)
    BY <1>7, <1>8, One
  <2>2. DOMAIN host = 1..Len(host) /\ Len(host) \in Nat
    BY <2>1, SeqIs
  <2>3. /\ IsSeq(KeepAt(host, kept))
        /\ \A i \in 1..Len(host) : i \in kept => \E j \in 1..Len(KeepAt(host, kept)) : KeepAt(host, kept)[j] = host[i]
    <3> HIDE DEF host, kept
    <3>1. IsSeq(KeepAt(host, kept))
      BY <2>2, Keeps
    <3>2. \A i \in 1..Len(host) : i \in kept => \E j \in 1..Len(KeepAt(host, kept)) : KeepAt(host, kept)[j] = host[i]
      BY <2>2, KeepsAll
    <3> QED BY <3>1, <3>2
  <2>4. ASSUME NEW d \in ToSet(listed), d # Memory PROVE d \in ToSet(KeepAt(host, kept))
    <3>1. host = listed
      <4>1. listed # <<>>
        BY <2>4 DEF ToSet
      <4> QED BY <2>1, <4>1
    <3>2. PICK i \in 1..Len(host) : d = host[i]
      BY <2>2, <2>4, <3>1 DEF ToSet
    <3>3. i \in kept
      BY <2>2, <2>4, <3>2
    <3>4. PICK j \in 1..Len(KeepAt(host, kept)) : KeepAt(host, kept)[j] = host[i]
      BY <2>3, <3>3
    <3>5. j \in DOMAIN KeepAt(host, kept)
      BY <2>3, SeqIs
    <3> QED BY <3>2, <3>4, <3>5 DEF ToSet
  <2> QED BY <2>3, <2>4
<1> HIDE DEF opts, host, kept
<1>12. Parsed(c, v, s)
  BY <1>1, <1>2, <1>4, <1>10, <1>11 DEF Parsed
<1> QED BY <1>12 DEF s

(* The options of the mount command with a subPath: the other options, in   *)
(* their order, and a subdir at the end.                                    *)
LEMMA Overwritten ==
    ASSUME NEW c, NEW v, NEW s, Parsed(c, v, s), s.SubPath # <<>>
    PROVE  LET kept == NoSubdir(s.Options)
               o    == overwriteSubdirWithSubPath(s)
           IN  /\ IsSeq(o) /\ IsSeq(kept) /\ Len(o) = Len(kept) + 1
               /\ \A i \in 1..Len(kept) : o[i] = kept[i]
               /\ o[Len(kept) + 1] = Opt("subdir", getQuotaPath(s))
<1> DEFINE P    == {i \in DOMAIN s.Options : ~IsOpt(s.Options[i], "subdir")}
           kept == KeepAt(s.Options, P)
           sub  == Opt("subdir", getQuotaPath(s))
<1>1. NoSubdir(s.Options) = kept /\ overwriteSubdirWithSubPath(s) = Append(kept, sub)
  BY DEF NoSubdir, overwriteSubdirWithSubPath, getQuotaPath
<1>2. Len(s.Options) \in Nat
  BY SeqIs DEF Parsed
<1> HIDE DEF P, sub
<1>3. IsSeq(kept)
  BY <1>2, Keeps
<1> HIDE DEF kept
<1>4. /\ IsSeq(Append(kept, sub)) /\ Len(Append(kept, sub)) = Len(kept) + 1
      /\ \A i \in 1..Len(kept) : Append(kept, sub)[i] = kept[i]
      /\ Append(kept, sub)[Len(kept) + 1] = sub
  BY <1>3, Appended
<1> QED BY <1>1, <1>3, <1>4 DEF sub

(* The quota is set on the directory that is mounted.                       *)
LEMMA QuotaPathIs ==
    ASSUME NEW c, NEW v, NEW s, Parsed(c, v, s), s.SubPath # <<>>
    PROVE  getQuotaPath(s) = Subdir(overwriteSubdirWithSubPath(s))
<1> DEFINE kept == NoSubdir(s.Options)
           o    == overwriteSubdirWithSubPath(s)
           m    == Len(kept) + 1
<1>1. IsSeq(o) /\ IsSeq(kept) /\ Len(o) = m /\ o[m] = Opt("subdir", getQuotaPath(s))
  BY Overwritten
<1>2. m \in 1..Len(o) /\ \A i \in 1..Len(o) : i <= m
  BY <1>1, SeqIs
<1>3. IsOpt(o[m], "subdir") /\ o[m].v = getQuotaPath(s)
  BY <1>1 DEF IsOpt, Opt
<1> HIDE DEF o, m
<1>4. LastOpt(o, "subdir") = o[m].v
  BY <1>1, <1>2, <1>3, LastOptIs
<1> QED BY <1>3, <1>4 DEF o, Subdir

(* The cache directories of the mount command are those of the settings.    *)
LEMMA CacheDirsAre ==
    ASSUME NEW c, NEW v, NEW s, Parsed(c, v, s)
    PROVE  \A d \in ToSet(CacheDirOption(overwriteSubdirWithSubPath(s))) : CacheDir(s, v, d)
<1> DEFINE opts == s.Options
           k    == "cache-dir"
           o    == overwriteSubdirWithSubPath(s)
<1> SUFFICES \A d \in ToSet(LastOpt(o, k)) : CacheDir(s, v, d)
  BY DEF CacheDirOption
<1>0. ToSet(<<>>) = {}
  BY DEF ToSet
<1>1. IsSeq(opts) /\ Len(opts) \in Nat
  BY SeqIs DEF Parsed
<1>2. CASE \A i \in 1..Len(opts) : ~IsOpt(opts[i], k)
  <2>1. CASE s.SubPath = <<>>
    <3>1. o = opts
      BY <2>1 DEF overwriteSubdirWithSubPath
    <3>2. LastOpt(opts, k) = <<>>
      <4> HIDE DEF opts, k
      <4> QED BY <1>1, <1>2, NoOpt
    <3> QED BY <1>0, <3>1, <3>2
  <2>2. CASE s.SubPath # <<>>
    <3> DEFINE P    == {i \in DOMAIN opts : ~IsOpt(opts[i], "subdir")}
               kept == KeepAt(opts, P)
    <3>1. NoSubdir(opts) = kept
      BY DEF NoSubdir
    <3>2. /\ IsSeq(o) /\ IsSeq(kept) /\ Len(o) = Len(kept) + 1
          /\ \A i \in 1..Len(kept) : o[i] = kept[i]
          /\ o[Len(kept) + 1] = Opt("subdir", getQuotaPath(s))
      <4> DEFINE n == NoSubdir(s.Options)
      <4>1. /\ IsSeq(o) /\ IsSeq(n) /\ Len(o) = Len(n) + 1
            /\ \A i \in 1..Len(n) : o[i] = n[i]
            /\ o[Len(n) + 1] = Opt("subdir", getQuotaPath(s))
        BY <2>2, Overwritten
      <4>2. n = kept
        BY <3>1
      <4> HIDE DEF n, kept, o
      <4> QED BY <4>1, <4>2
    <3>3. ~IsOpt(Opt("subdir", getQuotaPath(s)), k)
      BY DEF IsOpt, Opt
    <3> HIDE DEF P, o, k, opts
    <3>4. \A j \in 1..Len(kept) : \E i \in 1..Len(opts) : i \in P /\ kept[j] = opts[i]
      BY <1>1, Keeps
    <3> HIDE DEF kept
    <3>5. ASSUME NEW j \in 1..Len(o) PROVE ~IsOpt(o[j], k)
      <4>1. Len(kept) \in Nat
        BY <3>2, SeqIs
      <4>2. CASE j = Len(kept) + 1
        BY <3>2, <3>3, <4>2
      <4>3. CASE j # Len(kept) + 1
        <5>1. j \in 1..Len(kept)
          BY <3>2, <4>1, <4>3
        <5>2. PICK i \in 1..Len(opts) : kept[j] = opts[i]
          BY <3>4, <5>1
        <5> QED BY <1>2, <3>2, <5>1, <5>2
      <4> QED BY <4>2, <4>3
    <3>6. LastOpt(o, k) = <<>>
      BY <3>2, <3>5, NoOpt
    <3> QED BY <1>0, <3>6
  <2> QED BY <2>1, <2>2
<1>3. CASE /\ Len(opts) # 0 /\ IsOpt(opts[Len(opts)], k)
           /\ \A d \in ToSet(opts[Len(opts)].v) : CacheDir(s, v, d)
  <2> DEFINE last == opts[Len(opts)]
  <2>0. Len(opts) \in 1..Len(opts) /\ \A i \in 1..Len(opts) : i <= Len(opts)
    BY <1>1, <1>3
  <2>1. CASE s.SubPath = <<>>
    <3>1. o = opts
      BY <2>1 DEF overwriteSubdirWithSubPath
    <3>2. LastOpt(opts, k) = last.v
      <4> HIDE DEF opts, k
      <4> QED BY <1>1, <1>3, <2>0, LastOptIs
    <3> QED BY <1>3, <3>1, <3>2
  <2>2. CASE s.SubPath # <<>>
    <3> DEFINE P    == {i \in DOMAIN opts : ~IsOpt(opts[i], "subdir")}
               kept == KeepAt(opts, P)
               m    == Len(kept)
    <3>1. NoSubdir(opts) = kept
      BY DEF NoSubdir
    <3>2. /\ IsSeq(o) /\ IsSeq(kept) /\ Len(o) = Len(kept) + 1
          /\ \A i \in 1..Len(kept) : o[i] = kept[i]
          /\ o[Len(kept) + 1] = Opt("subdir", getQuotaPath(s))
      <4> DEFINE n == NoSubdir(s.Options)
      <4>1. /\ IsSeq(o) /\ IsSeq(n) /\ Len(o) = Len(n) + 1
            /\ \A i \in 1..Len(n) : o[i] = n[i]
            /\ o[Len(n) + 1] = Opt("subdir", getQuotaPath(s))
        BY <2>2, Overwritten
      <4>2. n = kept
        BY <3>1
      <4> HIDE DEF n, kept, o
      <4> QED BY <4>1, <4>2
    <3>3. ~IsOpt(Opt("subdir", getQuotaPath(s)), k)
      BY DEF IsOpt, Opt
    <3>4. Len(opts) \in P
      <4>1. ~IsOpt(last, "subdir")
        BY <1>3 DEF IsOpt
      <4>2. Len(opts) \in DOMAIN opts
        BY <1>1, <2>0, SeqIs
      <4> QED BY <4>1, <4>2
    <3> HIDE DEF P, o, k, opts
    <3>5. Len(kept) \in Nat \ {0} /\ kept[Len(kept)] = opts[Len(opts)]
      BY <1>1, <2>0, <3>4, Keeps
    <3> HIDE DEF kept
    <3>6. m \in 1..Len(o) /\ IsOpt(o[m], k) /\ o[m] = last
      BY <1>3, <3>2, <3>5
    <3>7. ASSUME NEW i \in 1..Len(o), IsOpt(o[i], k) PROVE i <= m
      <4>1. i # Len(kept) + 1
        BY <3>2, <3>3, <3>7
      <4> QED BY <3>2, <3>5, <4>1
    <3>8. LastOpt(o, k) = o[m].v
      <4> HIDE DEF m
      <4> QED BY <3>2, <3>6, <3>7, LastOptIs
    <3> QED BY <1>3, <3>6, <3>8
  <2> QED BY <2>1, <2>2
<1> QED BY <1>2, <1>3 DEF Parsed

-----------------------------------------------------------------------------
(* Builders *)

Has(items, d) == \E i \in DOMAIN items : items[i].path = d

(* The sidecar has a mount at d, of one of the volumes it comes with.       *)
HasMount(sc, d) ==
    \E j \in DOMAIN sc.mounts : /\ sc.mounts[j].path = d
                                /\ \E k \in DOMAIN sc.vols : sc.vols[k].name = sc.mounts[j].vol

LEMMA HasCat ==
    ASSUME NEW s, NEW t, IsSeq(s), IsSeq(t)
    PROVE  /\ IsSeq(s \o t)
           /\ \A d : Has(s, d) \/ Has(t, d) => Has(s \o t, d)
<1>1. /\ IsSeq(s \o t) /\ Len(s \o t) = Len(s) + Len(t)
      /\ \A i \in 1..Len(s) : (s \o t)[i] = s[i]
      /\ \A i \in 1..Len(t) : (s \o t)[Len(s) + i] = t[i]
  BY Cat
<1>2. /\ Len(s) \in Nat /\ Len(t) \in Nat /\ DOMAIN s = 1..Len(s) /\ DOMAIN t = 1..Len(t)
      /\ DOMAIN (s \o t) = 1..(Len(s) + Len(t))
  BY <1>1, SeqIs
<1>3. ASSUME NEW d, Has(s, d) PROVE Has(s \o t, d)
  <2>1. PICK i \in 1..Len(s) : s[i].path = d
    BY <1>2, <1>3 DEF Has
  <2>2. i \in 1..(Len(s) + Len(t))
    BY <1>2
  <2> QED BY <1>1, <1>2, <2>1, <2>2 DEF Has
<1>4. ASSUME NEW d, Has(t, d) PROVE Has(s \o t, d)
  <2>1. PICK i \in 1..Len(t) : t[i].path = d
    BY <1>2, <1>4 DEF Has
  <2>2. Len(s) + i \in 1..(Len(s) + Len(t))
    BY <1>2
  <2> QED BY <1>1, <1>2, <2>1, <2>2 DEF Has
<1> QED BY <1>1, <1>3, <1>4

LEMMA ItemLists ==
    ASSUME NEW items, IsSeq(items)
    PROVE  /\ IsVolumes(VolsOf(items)) /\ IsMounts(MountsOf(items))
           /\ DOMAIN VolsOf(items) = DOMAIN items /\ DOMAIN MountsOf(items) = DOMAIN items
           /\ \A i \in DOMAIN items : /\ VolsOf(items)[i].name = items[i].name
                                      /\ MountsOf(items)[i].vol = items[i].name
                                      /\ MountsOf(items)[i].path = items[i].path
<1>1. DOMAIN items = 1..Len(items) /\ Len(items) \in Nat
  BY SeqIs
<1>2. IsSeq(VolsOf(items)) /\ \A i \in DOMAIN VolsOf(items) : "name" \in DOMAIN VolsOf(items)[i]
  <2>1. IsSeq(VolsOf(items))
    BY <1>1, FcnIsSeq DEF VolsOf
  <2>2. \A i \in DOMAIN VolsOf(items) : "name" \in DOMAIN VolsOf(items)[i]
    BY DEF VolsOf
  <2> QED BY <2>1, <2>2
<1>3. IsSeq(MountsOf(items)) /\ \A i \in DOMAIN MountsOf(items) : {"vol", "path"} \subseteq DOMAIN MountsOf(items)[i]
  <2>1. IsSeq(MountsOf(items))
    BY <1>1, FcnIsSeq DEF MountsOf
  <2>2. \A i \in DOMAIN MountsOf(items) : {"vol", "path"} \subseteq DOMAIN MountsOf(items)[i]
    BY DEF MountsOf
  <2> QED BY <2>1, <2>2
<1>4. DOMAIN VolsOf(items) = DOMAIN items /\ DOMAIN MountsOf(items) = DOMAIN items
  BY DEF VolsOf, MountsOf
<1>5. \A i \in DOMAIN items : VolsOf(items)[i].name = items[i].name
  BY DEF VolsOf
<1>6. \A i \in DOMAIN items : MountsOf(items)[i].vol = items[i].name /\ MountsOf(items)[i].path = items[i].path
  BY DEF MountsOf
<1> QED BY <1>2, <1>3, <1>4, <1>5, <1>6 DEF IsVolumes, IsMounts

(* Two lists of mounts.                                                     *)
LEMMA MountsCat ==
    ASSUME NEW s, NEW t, IsMounts(s), IsMounts(t)
    PROVE  IsMounts(s \o t)
<1>1. IsSeq(s) /\ IsSeq(t)
  BY DEF IsMounts
<1>2. /\ IsSeq(s \o t) /\ Len(s \o t) = Len(s) + Len(t)
      /\ \A i \in 1..Len(s) : (s \o t)[i] = s[i]
      /\ \A i \in 1..Len(t) : (s \o t)[Len(s) + i] = t[i]
  BY <1>1, Cat
<1>3. /\ Len(s) \in Nat /\ Len(t) \in Nat /\ DOMAIN s = 1..Len(s) /\ DOMAIN t = 1..Len(t)
      /\ DOMAIN (s \o t) = 1..(Len(s) + Len(t))
  BY <1>1, <1>2, SeqIs
<1>4. ASSUME NEW i \in DOMAIN (s \o t) PROVE {"vol", "path"} \subseteq DOMAIN (s \o t)[i]
  <2>1. CASE i <= Len(s)
    <3>1. i \in DOMAIN s /\ (s \o t)[i] = s[i]
      BY <1>2, <1>3, <2>1
    <3> QED BY <3>1 DEF IsMounts
  <2>2. CASE ~(i <= Len(s))
    <3>1. i - Len(s) \in DOMAIN t /\ Len(s) + (i - Len(s)) = i
      BY <1>3, <2>2
    <3>2. (s \o t)[i] = t[i - Len(s)]
      BY <1>2, <1>3, <3>1
    <3> QED BY <3>1, <3>2 DEF IsMounts
  <2> QED BY <2>1, <2>2
<1> QED BY <1>2, <1>4 DEF IsMounts

(* The volumes of the parts, and that they hold the cache directories.      *)
LEMMA PartsAre ==
    ASSUME NEW c, NEW v, NEW s, Parsed(c, v, s)
    PROVE  /\ IsSeq(genJuiceVolumes(s)) /\ IsSeq(genPodVolumes(s)) /\ IsSeq(genHostPathVolumes(s))
           /\ IsSeq(cacheHostDirs(s)) /\ IsSeq(cacheClaims(s)) /\ IsSeq(cacheInline(s))
           /\ \A d \in ToSet(s.CacheDirs) : Has(cacheHostDirs(s), d)
           /\ \A i \in 1..s.CachePVCs : Has(cacheClaims(s), cachePVCPath(i))
           /\ s.CacheEmptyDir => Has(cacheClaims(s), emptyDirPath)
           /\ \A i \in 1..s.CacheInlineVolumes : Has(cacheInline(s), inlinePath(i))
<1>0. /\ s.CachePVCs \in Nat /\ s.CacheInlineVolumes \in Nat /\ s.HostPath \in Nat /\ s.Configs \in Nat
      /\ s.CacheEmptyDir \in BOOLEAN /\ IsSeq(s.CacheDirs)
  BY DEF Parsed
<1>1. \A b, x : IsSeq(When(b, <<x>>))
  BY One, None DEF When
<1>2. IsSeq(genJuiceVolumes(s))
  <2> DEFINE a == When(s.EncryptRsaKey, <<Item(<<"rsa-key">>, Secret(s.Claim), <<"/root/.rsa">>)>>)
             b == When(s.InitConfig, <<Item(<<"init-config">>, Secret(s.Claim), <<"/root/.config">>)>>)
             e == [i \in 1..s.Configs |-> Item(<<"config", Digit(i)>>, <<"config", s.Claim, Digit(i)>>,
                                               <<"/config", Digit(i)>>)]
  <2>1. IsSeq(a) /\ IsSeq(b)
    BY <1>1
  <2>2. IsSeq(e)
    BY <1>0, FcnIsSeq
  <2>3. genJuiceVolumes(s) = (a \o b) \o e
    BY DEF genJuiceVolumes
  <2> HIDE DEF a, b, e
  <2>4. IsSeq(a \o b)
    BY <2>1, Cat
  <2> QED BY <2>2, <2>3, <2>4, Cat
<1>3. IsSeq(genPodVolumes(s))
  BY <1>1, One, Cat DEF genPodVolumes
<1>4. IsSeq(genHostPathVolumes(s))
  BY <1>0, FcnIsSeq DEF genHostPathVolumes
<1>5. IsSeq(cacheHostDirs(s)) /\ \A d \in ToSet(s.CacheDirs) : Has(cacheHostDirs(s), d)
  <2>1. DOMAIN s.CacheDirs = 1..Len(s.CacheDirs) /\ Len(s.CacheDirs) \in Nat
    BY <1>0, SeqIs
  <2>2. IsSeq(cacheHostDirs(s))
    BY <2>1, FcnIsSeq DEF cacheHostDirs
  <2>3. \A i \in DOMAIN s.CacheDirs : cacheHostDirs(s)[i].path = s.CacheDirs[i]
    BY DEF cacheHostDirs, Item
  <2>4. DOMAIN cacheHostDirs(s) = DOMAIN s.CacheDirs
    BY DEF cacheHostDirs
  <2> QED BY <2>2, <2>3, <2>4 DEF Has, ToSet
<1>6. /\ IsSeq(cacheClaims(s))
      /\ \A i \in 1..s.CachePVCs : Has(cacheClaims(s), cachePVCPath(i))
      /\ s.CacheEmptyDir => Has(cacheClaims(s), emptyDirPath)
  <2> DEFINE a == [i \in 1..s.CachePVCs |->
                      Item(<<"cachedir", "pvc", Digit(i - 1)>>, <<"cacheClaim", s.Claim, Digit(i - 1)>>, cachePVCPath(i))]
             e == Item(<<"cachedir", "empty-dir">>, <<"emptyDir", s.Claim>>, emptyDirPath)
             b == When(s.CacheEmptyDir, <<e>>)
  <2>1. IsSeq(a)
    BY <1>0, FcnIsSeq
  <2>2. \A i \in 1..s.CachePVCs : Has(a, cachePVCPath(i))
    BY DEF Has, Item
  <2>3. e.path = emptyDirPath
    BY DEF Item
  <2> HIDE DEF e
  <2>4. IsSeq(b)
    BY <1>1
  <2>5. s.CacheEmptyDir => Has(b, emptyDirPath)
    BY <2>3 DEF When, Has
  <2>6. cacheClaims(s) = a \o b
    BY DEF cacheClaims, e
  <2> HIDE DEF a, b
  <2> QED BY <2>1, <2>2, <2>4, <2>5, <2>6, HasCat
<1>7. IsSeq(cacheInline(s)) /\ \A i \in 1..s.CacheInlineVolumes : Has(cacheInline(s), inlinePath(i))
  <2>1. IsSeq(cacheInline(s))
    BY <1>0, FcnIsSeq DEF cacheInline
  <2>2. \A i \in 1..s.CacheInlineVolumes : Has(cacheInline(s), inlinePath(i))
    BY DEF cacheInline, Has, Item
  <2> QED BY <2>1, <2>2
<1> QED BY <1>2, <1>3, <1>4, <1>5, <1>6, <1>7

LEMMA CachesHave ==
    ASSUME NEW c, NEW v, NEW s, Parsed(c, v, s)
    PROVE  /\ IsSeq(genServerlessCacheVolumes(s)) /\ IsSeq(genCacheDirVolumes(s))
           /\ \A d : CacheDir(s, v, d) /\ d \notin ToSet(Listed(v)) => Has(genServerlessCacheVolumes(s), d)
           /\ \A d : CacheDir(s, v, d) /\ d # Memory => Has(genCacheDirVolumes(s), d)
<1> DEFINE a == cacheHostDirs(s)
           b == cacheClaims(s)
           e == cacheInline(s)
<1>0. IsSeq(a) /\ IsSeq(b) /\ IsSeq(e)
  BY PartsAre
<1>1. /\ \A d \in ToSet(s.CacheDirs) : Has(a, d)
      /\ \A i \in 1..s.CachePVCs : Has(b, cachePVCPath(i))
      /\ s.CacheEmptyDir => Has(b, emptyDirPath)
      /\ \A i \in 1..s.CacheInlineVolumes : Has(e, inlinePath(i))
  BY PartsAre
<1>2. genServerlessCacheVolumes(s) = b \o e /\ genCacheDirVolumes(s) = (a \o b) \o e
  BY DEF genServerlessCacheVolumes, genCacheDirVolumes
<1>3. \A d \in ToSet(Listed(v)) : d # Memory => d \in ToSet(s.CacheDirs)
  BY DEF Parsed
<1> HIDE DEF a, b, e
<1>4. IsSeq(b \o e) /\ \A d : Has(b, d) \/ Has(e, d) => Has(b \o e, d)
  BY <1>0, HasCat
<1>5. IsSeq(a \o b) /\ \A d : Has(a, d) \/ Has(b, d) => Has(a \o b, d)
  BY <1>0, HasCat
<1>6. IsSeq((a \o b) \o e) /\ \A d : Has(a \o b, d) \/ Has(e, d) => Has((a \o b) \o e, d)
  BY <1>0, <1>5, HasCat
<1>7. ASSUME NEW d, CacheDir(s, v, d), d \notin ToSet(Listed(v)) PROVE Has(b \o e, d)
  BY <1>1, <1>4, <1>7 DEF CacheDir
<1>8. ASSUME NEW d, CacheDir(s, v, d), d # Memory PROVE Has((a \o b) \o e, d)
  BY <1>1, <1>3, <1>5, <1>6, <1>8 DEF CacheDir
<1> QED BY <1>2, <1>4, <1>6, <1>7, <1>8

(* What each builder makes of the settings of a volume.                     *)
Fields(sc) ==
    sc = [name |-> sc.name, serves |-> sc.serves, point |-> sc.point, vols |-> sc.vols, mounts |-> sc.mounts,
          preStop |-> sc.preStop, quotaPath |-> sc.quotaPath, options |-> sc.options]
Built(c, v, s, sc) ==
    /\ Fields(sc)
    /\ IsSeq(sc.name) /\ Len(sc.name) # 0 /\ sc.name[1] = "jfs-mount"
    /\ sc.serves = c /\ sc.quotaPath = getQuotaPath(s) /\ sc.options = overwriteSubdirWithSubPath(s)
    /\ IsVolumes(sc.vols) /\ IsMounts(sc.mounts)
HasCaches(kind, v, s, sc) ==
    \A d : /\ CacheDir(s, v, d) /\ d # Memory
           /\ kind # "container" => d \notin ToSet(Listed(v))
           => HasMount(sc, d)

(* The part the builders have in common.                                    *)
LEMMA SidecarIs ==
    ASSUME NEW c, NEW v, NEW s, Parsed(c, v, s), NEW name, NEW cfg, NEW point, NEW items,
           IsSeq(items), IsSeq(name), Len(name) # 0, name[1] = "jfs-mount"
    PROVE  /\ Built(c, v, s, Sidecar(name, s, cfg, point, items))
           /\ \A d : Has(items, d) => HasMount(Sidecar(name, s, cfg, point, items), d)
<1> DEFINE sc == Sidecar(name, s, cfg, point, items)
<1>1. Fields(sc)
  BY DEF Fields, Sidecar
<1>2. sc.name = name /\ sc.vols = VolsOf(items) /\ sc.mounts = MountsOf(items)
  BY DEF Sidecar
<1>3. sc.serves = c /\ sc.quotaPath = getQuotaPath(s) /\ sc.options = overwriteSubdirWithSubPath(s)
  BY DEF Sidecar, Parsed
<1> HIDE DEF sc
<1>4. Built(c, v, s, sc)
  BY <1>1, <1>2, <1>3, ItemLists DEF Built
<1>5. \A d : Has(items, d) => HasMount(sc, d)
  BY <1>2, ItemLists DEF Has, HasMount
<1> QED BY <1>4, <1>5 DEF sc

LEMMA ContainerBuilt ==
    ASSUME NEW c, NEW v, NEW s, Parsed(c, v, s), NEW cfg, NEW point
    PROVE  /\ Built(c, v, s, ContainerBuilder(s, cfg, point))
           /\ HasCaches("container", v, s, ContainerBuilder(s, cfg, point))
<1> DEFINE a == genJuiceVolumes(s)
           b == genPodVolumes(s)
           e == genCacheDirVolumes(s)
           h == genHostPathVolumes(s)
           k == <<CheckMount(s)>>
           items == (((a \o b) \o e) \o h) \o k
           sc == Sidecar(MountContainerName, s, cfg, point, items)
<1>1. IsSeq(a) /\ IsSeq(b) /\ IsSeq(e) /\ IsSeq(h) /\ IsSeq(k)
  BY PartsAre, CachesHave, One
<1>2. \A d : CacheDir(s, v, d) /\ d # Memory => Has(e, d)
  BY CachesHave
<1>3. ContainerBuilder(s, cfg, point) = sc
  BY DEF ContainerBuilder
<1>4. IsSeq(MountContainerName) /\ Len(MountContainerName) # 0 /\ MountContainerName[1] = "jfs-mount"
  BY DEF MountContainerName, IsSeq
<1> HIDE DEF a, b, e, h, k
<1>5. IsSeq(a \o b)
  BY <1>1, HasCat
<1>6. IsSeq((a \o b) \o e) /\ \A d : Has(e, d) => Has((a \o b) \o e, d)
  BY <1>1, <1>5, HasCat
<1>7. IsSeq(((a \o b) \o e) \o h) /\ \A d : Has((a \o b) \o e, d) => Has(((a \o b) \o e) \o h, d)
  BY <1>1, <1>6, HasCat
<1>8. IsSeq(items) /\ \A d : Has(((a \o b) \o e) \o h, d) => Has(items, d)
  BY <1>1, <1>7, HasCat
<1> HIDE DEF items
<1>9. Built(c, v, s, sc) /\ \A d : Has(items, d) => HasMount(sc, d)
  BY <1>4, <1>8, SidecarIs
<1> HIDE DEF sc
<1>10. ASSUME NEW d, CacheDir(s, v, d), d # Memory PROVE HasMount(sc, d)
  BY <1>2, <1>6, <1>7, <1>8, <1>9, <1>10 DEF items
<1>11. HasCaches("container", v, s, sc)
  BY <1>10 DEF HasCaches
<1> QED BY <1>3, <1>9, <1>11

(* The builders without cache directories on the host.                      *)
LEMMA ServerlessBuilt ==
    ASSUME NEW c, NEW v, NEW s, Parsed(c, v, s), NEW cfg, NEW point, NEW kind, kind # "container"
    PROVE  /\ Built(c, v, s, ServerlessBuilder(s, cfg, point))
           /\ HasCaches(kind, v, s, ServerlessBuilder(s, cfg, point))
           /\ Built(c, v, s, CCIBuilder(s, cfg, point))
           /\ HasCaches(kind, v, s, CCIBuilder(s, cfg, point))
<1> DEFINE a == genJuiceVolumes(s)
           e == genServerlessCacheVolumes(s)
           n == MountContainerName
<1>1. IsSeq(a) /\ IsSeq(e)
  BY PartsAre, CachesHave
<1>2. \A d : CacheDir(s, v, d) /\ d \notin ToSet(Listed(v)) => Has(e, d)
  BY CachesHave
<1>4. IsSeq(n) /\ Len(n) # 0 /\ n[1] = "jfs-mount"
  BY DEF MountContainerName, IsSeq
<1>5. ASSUME NEW b, IsSeq(b)
      PROVE  /\ Built(c, v, s, Sidecar(n, s, cfg, point, (a \o b) \o e))
             /\ HasCaches(kind, v, s, Sidecar(n, s, cfg, point, (a \o b) \o e))
  <2> DEFINE items == (a \o b) \o e
             sc    == Sidecar(n, s, cfg, point, items)
  <2> HIDE DEF a, e, n
  <2>1. IsSeq(a \o b)
    BY <1>1, <1>5, HasCat
  <2>2. IsSeq(items) /\ \A d : Has(e, d) => Has(items, d)
    BY <1>1, <2>1, HasCat
  <2> HIDE DEF items
  <2>3. Built(c, v, s, sc) /\ \A d : Has(items, d) => HasMount(sc, d)
    BY <1>4, <2>2, SidecarIs
  <2> HIDE DEF sc
  <2>4. HasCaches(kind, v, s, sc)
    BY <1>2, <2>2, <2>3 DEF HasCaches
  <2> QED BY <2>3, <2>4 DEF sc, items
<1>6. IsSeq(<<JfsDir, CheckMount(s)>>) /\ IsSeq(<<CheckMount(s)>>)
  BY DEF IsSeq
<1>7. ServerlessBuilder(s, cfg, point) = Sidecar(n, s, cfg, point, (a \o <<JfsDir, CheckMount(s)>>) \o e)
  BY DEF ServerlessBuilder
<1>8. CCIBuilder(s, cfg, point) = Sidecar(n, s, cfg, point, (a \o <<CheckMount(s)>>) \o e)
  BY DEF CCIBuilder
<1> HIDE DEF a, e, n
<1>9. /\ Built(c, v, s, ServerlessBuilder(s, cfg, point))
      /\ HasCaches(kind, v, s, ServerlessBuilder(s, cfg, point))
  BY <1>5, <1>6, <1>7
<1>10. /\ Built(c, v, s, CCIBuilder(s, cfg, point))
       /\ HasCaches(kind, v, s, CCIBuilder(s, cfg, point))
  BY <1>5, <1>6, <1>8
<1> QED BY <1>9, <1>10

LEMMA VCIBuilt ==
    ASSUME NEW c, NEW v, NEW s, Parsed(c, v, s), NEW cfg, NEW point, NEW appVols, NEW kind, kind # "container"
    PROVE  /\ Built(c, v, s, VCIBuilder(s, cfg, point, appVols))
           /\ HasCaches(kind, v, s, VCIBuilder(s, cfg, point, appVols))
<1> DEFINE I == {i \in DOMAIN appVols : appVols[i].src = <<"claim", s.Claim>>}
           shared == IF I = {} THEN <<>> ELSE appVols[Max(I)].name
           juice == genJuiceVolumes(s)
           k     == <<CheckMount(s)>>
           e     == genServerlessCacheVolumes(s)
           items == k \o e
           n     == Append(MountContainerName, s.Claim)
           own   == Sidecar(n, s, cfg, point, juice \o items)
           mid   == <<[vol |-> shared, path |-> <<"/jfs", point>>]>>
           mnts  == (MountsOf(juice) \o mid) \o MountsOf(items)
           sc    == [own EXCEPT !.mounts = mnts]
<1>1. VCIBuilder(s, cfg, point, appVols) = sc
  BY SMTT(30) DEF VCIBuilder
<1>2. IsSeq(juice) /\ IsSeq(k) /\ IsSeq(e) /\ IsMounts(mid)
  <2>1. \A i \in DOMAIN mid : {"vol", "path"} \subseteq DOMAIN mid[i]
    OBVIOUS
  <2>2. IsSeq(mid)
    BY One
  <2> QED BY <2>1, <2>2, PartsAre, CachesHave, One DEF IsMounts
<1>3. \A d : CacheDir(s, v, d) /\ d \notin ToSet(Listed(v)) => Has(e, d)
  BY CachesHave
<1>4. IsSeq(n) /\ Len(n) # 0 /\ n[1] = "jfs-mount"
  BY DEF MountContainerName, IsSeq
<1> HIDE DEF juice, k, e, n, mid
<1>5. IsSeq(items) /\ \A d : Has(e, d) => Has(items, d)
  BY <1>2, HasCat
<1> HIDE DEF items
<1>6. IsSeq(juice \o items) /\ Len(juice \o items) = Len(juice) + Len(items)
      /\ \A i \in 1..Len(items) : (juice \o items)[Len(juice) + i] = items[i]
  BY <1>2, <1>5, Cat
<1>7. Built(c, v, s, own)
  BY <1>4, <1>6, SidecarIs
<1>8. own.vols = VolsOf(juice \o items)
  BY DEF Sidecar
<1> HIDE DEF own
<1>9. /\ IsMounts(MountsOf(juice)) /\ IsMounts(MountsOf(items))
      /\ DOMAIN MountsOf(items) = 1..Len(items) /\ Len(items) \in Nat /\ Len(juice) \in Nat
      /\ Len(MountsOf(items)) = Len(items)
      /\ \A i \in 1..Len(items) : MountsOf(items)[i].vol = items[i].name /\ MountsOf(items)[i].path = items[i].path
  <2>1. DOMAIN items = 1..Len(items) /\ Len(items) \in Nat /\ Len(juice) \in Nat
    BY <1>2, <1>5, SeqIs
  <2>2. /\ IsMounts(MountsOf(juice)) /\ IsMounts(MountsOf(items)) /\ DOMAIN MountsOf(items) = DOMAIN items
        /\ \A i \in DOMAIN items : MountsOf(items)[i].vol = items[i].name /\ MountsOf(items)[i].path = items[i].path
    BY <1>2, <1>5, ItemLists
  <2>3. Len(MountsOf(items)) = Len(items)
    BY <2>1, FcnIsSeq DEF MountsOf
  <2> QED BY <2>1, <2>2, <2>3
<1>10. IsMounts(MountsOf(juice) \o mid)
  BY <1>2, <1>9, MountsCat
<1> DEFINE pre == MountsOf(juice) \o mid
<1>11. IsMounts(pre) /\ IsSeq(pre) /\ Len(pre) \in Nat
  BY <1>10, SeqIs DEF IsMounts
<1>12. mnts = pre \o MountsOf(items)
  OBVIOUS
<1> HIDE DEF pre, mnts
<1>13. /\ IsMounts(mnts) /\ IsSeq(mnts) /\ Len(mnts) = Len(pre) + Len(items)
       /\ \A i \in 1..Len(items) : mnts[Len(pre) + i] = MountsOf(items)[i]
  <2> DEFINE m == MountsOf(items)
  <2>1. IsMounts(m) /\ IsSeq(m) /\ Len(m) = Len(items) /\ mnts = pre \o m
    BY <1>9, <1>12 DEF IsMounts
  <2> HIDE DEF m
  <2>2. /\ IsSeq(pre \o m) /\ Len(pre \o m) = Len(pre) + Len(m)
        /\ \A i \in 1..Len(m) : (pre \o m)[Len(pre) + i] = m[i]
    <3>1. IsSeq(m)
      BY <2>1
    <3> QED BY <1>11, <3>1, Cat
  <2>3. /\ IsSeq(mnts) /\ Len(mnts) = Len(pre) + Len(items)
        /\ \A i \in 1..Len(items) : mnts[Len(pre) + i] = m[i]
    <3>1. Len(m) = Len(items) /\ mnts = pre \o m
      BY <2>1
    <3> QED BY ONLY <2>2, <3>1
  <2>4. IsMounts(mnts)
    BY <1>11, <2>1, MountsCat
  <2> QED BY <2>3, <2>4 DEF m
<1>14. /\ Fields(sc) /\ sc.mounts = mnts /\ sc.vols = own.vols /\ sc.name = own.name /\ sc.serves = own.serves
       /\ sc.quotaPath = own.quotaPath /\ sc.options = own.options
  BY <1>7 DEF Built, Fields
<1> HIDE DEF sc
<1>15. Built(c, v, s, sc)
  BY <1>7, <1>13, <1>14 DEF Built
<1>16. ASSUME NEW d, Has(items, d) PROVE HasMount(sc, d)
  <2>1. PICK i \in 1..Len(items) : items[i].path = d
    BY <1>5, <1>16, SeqIs DEF Has
  <2> DEFINE j == Len(pre) + i
             l == Len(juice) + i
  <2>2. j \in DOMAIN sc.mounts /\ sc.mounts[j].path = d /\ sc.mounts[j].vol = items[i].name
    <3>1. j \in 1..Len(mnts)
      BY <1>9, <1>11, <1>13
    <3>2. j \in DOMAIN mnts
      BY <1>13, <3>1, SeqIs
    <3> QED BY <1>9, <1>13, <1>14, <2>1, <3>2
  <2>3. l \in DOMAIN sc.vols /\ sc.vols[l].name = items[i].name
    <3>1. l \in 1..Len(juice \o items)
      BY <1>6, <1>9
    <3>2. l \in DOMAIN (juice \o items)
      BY <1>6, <3>1, SeqIs
    <3>3. l \in DOMAIN VolsOf(juice \o items) /\ VolsOf(juice \o items)[l].name = (juice \o items)[l].name
      BY <1>6, <3>2, ItemLists
    <3> QED BY <1>6, <1>8, <1>14, <3>3
  <2> HIDE DEF j, l
  <2> QED BY <2>2, <2>3 DEF HasMount
<1>17. HasCaches(kind, v, s, sc)
  BY <1>3, <1>5, <1>16 DEF HasCaches
<1> QED BY <1>1, <1>15, <1>17

LEMMA BuilderIs ==
    ASSUME NEW c, NEW v, NEW s, Parsed(c, v, s), NEW cfg, NEW point, NEW appVols,
           NEW kind \in {"container", "serverless", "vci", "cci"}
    PROVE  /\ Built(c, v, s, NewMountSidecar(kind, s, cfg, point, appVols))
           /\ HasCaches(kind, v, s, NewMountSidecar(kind, s, cfg, point, appVols))
<1>1. CASE kind = "container"
  <2>1. NewMountSidecar(kind, s, cfg, point, appVols) = ContainerBuilder(s, cfg, point)
    BY <1>1 DEF NewMountSidecar
  <2> QED BY <1>1, <2>1, ContainerBuilt
<1>2. CASE kind = "serverless"
  <2>1. NewMountSidecar(kind, s, cfg, point, appVols) = ServerlessBuilder(s, cfg, point)
    BY <1>2 DEF NewMountSidecar
  <2> QED BY <1>2, <2>1, ServerlessBuilt
<1>3. CASE kind = "vci"
  <2>1. NewMountSidecar(kind, s, cfg, point, appVols) = VCIBuilder(s, cfg, point, appVols)
    BY <1>3 DEF NewMountSidecar
  <2> QED BY <1>3, <2>1, VCIBuilt
<1>4. CASE kind = "cci"
  <2>1. NewMountSidecar(kind, s, cfg, point, appVols) = CCIBuilder(s, cfg, point)
    BY <1>4 DEF NewMountSidecar
  <2> QED BY <1>4, <2>1, ServerlessBuilt
<1> QED BY <1>1, <1>2, <1>3, <1>4

-----------------------------------------------------------------------------
(* Injection *)

(* The sidecar d has a mount at p, of a volume of its own or one the pod    *)
(* already has.                                                             *)
FindsMount(d, p) ==
    \E j \in DOMAIN d.mounts :
        /\ d.mounts[j].path = p
        /\ \/ \E k \in DOMAIN d.vols : d.vols[k].name = d.mounts[j].vol
           \/ \E k \in DOMAIN pod.vols : pod.vols[k].name = d.mounts[j].vol

(* What Deduplicate leaves of a sidecar: only names change, and a mount     *)
(* names a volume of the sidecar or one the pod already has.                *)
LEMMA DeduplicateIs ==
    ASSUME NEW c, NEW v, NEW s, NEW sc, NEW index, Built(c, v, s, sc), Len(pod.cons) \in Nat
    PROVE  LET d == Deduplicate(sc, index)
           IN  /\ d.name[1] = "jfs-mount"
               /\ d.serves = sc.serves /\ d.quotaPath = sc.quotaPath /\ d.options = sc.options
               /\ IsVolumes(d.vols)
               /\ \A p : HasMount(sc, p) => FindsMount(d, p)
<1> DEFINE d   == Deduplicate(sc, index)
           new == NewName(sc, index)
           vols == [i \in DOMAIN sc.vols |->
                      IF Clashes(sc.vols[i].name) THEN [sc.vols[i] EXCEPT !.name = new \o @] ELSE sc.vols[i]]
           mnts == [j \in DOMAIN sc.mounts |->
                      IF Renamed(sc, sc.mounts[j].vol) /\ FirstMount(sc, j)
                      THEN [sc.mounts[j] EXCEPT !.vol = new \o @] ELSE sc.mounts[j]]
<1>1. /\ d.name = new /\ d.vols = vols /\ d.mounts = mnts
      /\ d.serves = sc.serves /\ d.quotaPath = sc.quotaPath /\ d.options = sc.options
  <2>1. Fields(sc)
    BY DEF Built
  <2>2. d = [sc EXCEPT !.name = new, !.vols = vols, !.mounts = mnts]
    BY DEF Deduplicate, RenameVolume
  <2> HIDE DEF d, new, vols, mnts
  <2> QED BY <2>1, <2>2 DEF Fields
<1>2. new[1] = "jfs-mount"
  BY NamesBegin DEF Built
<1>3. /\ IsSeq(sc.vols) /\ \A i \in DOMAIN sc.vols : "name" \in DOMAIN sc.vols[i]
      /\ IsSeq(sc.mounts) /\ \A i \in DOMAIN sc.mounts : {"vol", "path"} \subseteq DOMAIN sc.mounts[i]
  BY DEF Built, IsVolumes, IsMounts
<1> HIDE DEF d, new
<1>4. ASSUME NEW i \in DOMAIN sc.vols
      PROVE  /\ i \in DOMAIN vols /\ "name" \in DOMAIN vols[i]
             /\ vols[i].name = IF Clashes(sc.vols[i].name) THEN new \o sc.vols[i].name ELSE sc.vols[i].name
  BY <1>3
<1>5. ASSUME NEW j \in DOMAIN sc.mounts
      PROVE  /\ j \in DOMAIN mnts /\ mnts[j].path = sc.mounts[j].path
             /\ mnts[j].vol = IF Renamed(sc, sc.mounts[j].vol) /\ FirstMount(sc, j)
                              THEN new \o sc.mounts[j].vol ELSE sc.mounts[j].vol
  <2>1. {"vol", "path"} \subseteq DOMAIN sc.mounts[j]
    BY <1>3
  <2> QED BY <2>1
<1>6. IsVolumes(vols)
  <2>1. DOMAIN vols = 1..Len(sc.vols) /\ Len(sc.vols) \in Nat /\ DOMAIN vols = DOMAIN sc.vols
    BY <1>3, SeqIs
  <2>2. vols = [i \in 1..Len(sc.vols) |-> vols[i]]
    BY <2>1
  <2>3. \A i \in DOMAIN vols : "name" \in DOMAIN vols[i]
    BY <1>4, <2>1
  <2> HIDE DEF vols
  <2>4. IsSeq(vols)
    BY <2>1, <2>2, FcnIsSeq
  <2> QED BY <2>3, <2>4 DEF IsVolumes
<1> HIDE DEF vols, mnts
<1>7. ASSUME NEW p, HasMount(sc, p)
      PROVE  \E j \in DOMAIN mnts :
                /\ mnts[j].path = p
                /\ \/ \E k \in DOMAIN vols : vols[k].name = mnts[j].vol
                   \/ \E k \in DOMAIN pod.vols : pod.vols[k].name = mnts[j].vol
  <2>1. PICK j \in DOMAIN sc.mounts : sc.mounts[j].path = p /\ \E k \in DOMAIN sc.vols : sc.vols[k].name = sc.mounts[j].vol
    BY <1>7 DEF HasMount
  <2>2. PICK k \in DOMAIN sc.vols : sc.vols[k].name = sc.mounts[j].vol
    BY <2>1
  <2> DEFINE x == sc.mounts[j].vol
  <2>3. j \in DOMAIN mnts /\ mnts[j].path = p
    BY <1>5, <2>1
  <2>4. CASE Clashes(x)
    <3>1. Renamed(sc, x)
      BY <2>2, <2>4 DEF Renamed
    <3>2. CASE FirstMount(sc, j)
      <4>1. mnts[j].vol = new \o x
        BY <1>5, <3>1, <3>2
      <4>2. k \in DOMAIN vols /\ vols[k].name = new \o x
        BY <1>4, <2>2, <2>4
      <4> QED BY <2>3, <4>1, <4>2
    <3>3. CASE ~FirstMount(sc, j)
      <4>1. mnts[j].vol = x
        BY <1>5, <3>3
      <4>2. \E l \in DOMAIN pod.vols : pod.vols[l].name = x
        BY <2>4 DEF Clashes
      <4> QED BY <2>3, <4>1, <4>2
    <3> QED BY <3>2, <3>3
  <2>5. CASE ~Clashes(x)
    <3>1. ~Renamed(sc, x)
      BY <2>5 DEF Renamed
    <3>2. mnts[j].vol = x
      BY <1>5, <3>1
    <3>3. k \in DOMAIN vols /\ vols[k].name = x
      BY <1>4, <2>2, <2>5
    <3> QED BY <2>3, <3>2, <3>3
  <2> QED BY <2>4, <2>5
<1>8. /\ d.name[1] = "jfs-mount"
      /\ d.serves = sc.serves /\ d.quotaPath = sc.quotaPath /\ d.options = sc.options
      /\ IsVolumes(d.vols)
  BY <1>1, <1>2, <1>6
<1>9. \A p : HasMount(sc, p) => FindsMount(d, p)
  BY <1>1, <1>7 DEF FindsMount
<1> QED BY <1>8, <1>9 DEF d

(* injectVolume keeps the names of the volumes the pod has, and adds those  *)
(* of the sidecar that it does not have.                                    *)
LEMMA InjectVolumeIs ==
    ASSUME NEW sc, NEW claim, IsVolumes(pod.vols), IsVolumes(sc.vols)
    PROVE  LET vols == injectVolume(sc, claim)
           IN  /\ IsVolumes(vols)
               /\ \A k \in DOMAIN pod.vols : k \in DOMAIN vols /\ vols[k].name = pod.vols[k].name
               /\ \A k \in DOMAIN sc.vols : \E l \in DOMAIN vols : vols[l].name = sc.vols[k].name
<1> DEFINE have == {pod.vols[i].name : i \in DOMAIN pod.vols}
           P    == {i \in DOMAIN sc.vols : sc.vols[i].name \notin SharedNames \cap have}
           kept == KeepAt(sc.vols, P)
           old  == [i \in DOMAIN pod.vols |-> IF pod.vols[i].src = <<"claim", claim>>
                                   THEN OverwriteVolumes(input.kind, pod.vols[i], sc.point)
                                   ELSE pod.vols[i]]
           vols == old \o kept
<1>1. injectVolume(sc, claim) = vols
  BY DEF injectVolume
<1>2. /\ DOMAIN pod.vols = 1..Len(pod.vols) /\ Len(pod.vols) \in Nat
      /\ DOMAIN sc.vols = 1..Len(sc.vols) /\ Len(sc.vols) \in Nat
  BY SeqIs DEF IsVolumes
<1>3. ASSUME NEW i \in DOMAIN pod.vols PROVE "name" \in DOMAIN old[i] /\ old[i].name = pod.vols[i].name
  <2>1. "name" \in DOMAIN pod.vols[i]
    BY DEF IsVolumes
  <2>2. /\ "name" \in DOMAIN OverwriteVolumes(input.kind, pod.vols[i], sc.point)
        /\ OverwriteVolumes(input.kind, pod.vols[i], sc.point).name = pod.vols[i].name
    BY <2>1 DEF OverwriteVolumes
  <2> QED BY <2>1, <2>2
<1>4. IsSeq(old) /\ Len(old) = Len(pod.vols)
  <2>1. old = [i \in 1..Len(pod.vols) |-> old[i]]
    BY <1>2
  <2> HIDE DEF old
  <2> QED BY <1>2, <2>1, FcnIsSeq
<1> HIDE DEF old
<1>5. /\ IsSeq(kept)
      /\ \A j \in 1..Len(kept) : \E i \in 1..Len(sc.vols) : i \in P /\ kept[j] = sc.vols[i]
      /\ \A i \in 1..Len(sc.vols) : i \in P => \E j \in 1..Len(kept) : kept[j] = sc.vols[i]
  <2> HIDE DEF P
  <2>1. IsSeq(kept)
    BY <1>2, Keeps
  <2>2. \A j \in 1..Len(kept) : \E i \in 1..Len(sc.vols) : i \in P /\ kept[j] = sc.vols[i]
    BY <1>2, KeepsOnly
  <2>3. \A i \in 1..Len(sc.vols) : i \in P => \E j \in 1..Len(kept) : kept[j] = sc.vols[i]
    BY <1>2, KeepsAll
  <2> QED BY <2>1, <2>2, <2>3
<1> HIDE DEF kept
<1>6. Len(kept) \in Nat
  BY <1>5, SeqIs
<1>7. /\ IsSeq(vols) /\ Len(vols) = Len(old) + Len(kept)
      /\ \A i \in 1..Len(old) : vols[i] = old[i]
      /\ \A i \in 1..Len(kept) : vols[Len(old) + i] = kept[i]
  <2>1. IsSeq(old) /\ IsSeq(kept)
    BY <1>4, <1>5
  <2> QED BY <2>1, Cat
<1> HIDE DEF vols
<1>8. DOMAIN vols = 1..(Len(pod.vols) + Len(kept))
  BY <1>4, <1>7, SeqIs
<1>9. ASSUME NEW k \in DOMAIN pod.vols PROVE k \in DOMAIN vols /\ vols[k].name = pod.vols[k].name /\ "name" \in DOMAIN vols[k]
  <2>1. k \in 1..Len(old) /\ k \in DOMAIN vols
    BY <1>2, <1>4, <1>6, <1>8
  <2>2. vols[k] = old[k]
    BY <1>7, <2>1
  <2> QED BY <1>3, <2>1, <2>2
<1>10. ASSUME NEW k \in DOMAIN vols PROVE "name" \in DOMAIN vols[k]
  <2>1. CASE k \in DOMAIN pod.vols
    BY <1>9, <2>1
  <2>2. CASE k \notin DOMAIN pod.vols
    <3>1. k - Len(old) \in 1..Len(kept) /\ Len(old) + (k - Len(old)) = k
      BY <1>2, <1>4, <1>6, <1>8, <2>2
    <3>2. vols[k] = kept[k - Len(old)]
      BY <1>7, <3>1
    <3>3. PICK i \in 1..Len(sc.vols) : kept[k - Len(old)] = sc.vols[i]
      BY <1>5, <3>1
    <3> QED BY <1>2, <3>2, <3>3 DEF IsVolumes
  <2> QED BY <2>1, <2>2
<1>11. ASSUME NEW k \in DOMAIN sc.vols PROVE \E l \in DOMAIN vols : vols[l].name = sc.vols[k].name
  <2>1. CASE k \in P
    <3>1. PICK j \in 1..Len(kept) : kept[j] = sc.vols[k]
      BY <1>2, <1>5, <2>1
    <3>2. Len(old) + j \in DOMAIN vols
      BY <1>2, <1>4, <1>6, <1>8
    <3>3. vols[Len(old) + j] = kept[j]
      BY <1>7
    <3> QED BY <3>1, <3>2, <3>3
  <2>2. CASE k \notin P
    <3>1. sc.vols[k].name \in have
      BY <2>2
    <3>2. PICK i \in DOMAIN pod.vols : pod.vols[i].name = sc.vols[k].name
      BY <3>1
    <3> QED BY <1>9, <3>2
  <2> QED BY <2>1, <2>2
<1>12. IsVolumes(vols)
  BY <1>7, <1>10 DEF IsVolumes
<1> QED BY <1>1, <1>9, <1>11, <1>12

LEMMA TailIs ==
    ASSUME NEW s, IsSeq(s), s # <<>>
    PROVE  /\ IsSeq(Tail(s)) /\ Len(Tail(s)) = Len(s) - 1 /\ Len(s) \in Nat \ {0} /\ Head(s) = s[1]
           /\ \A i \in 1..(Len(s) - 1) : Tail(s)[i] = s[i + 1]
<1> DEFINE S == {s[i] : i \in 1..Len(s)}
<1>1. s \in Seq(S)
  BY SeqIs
<1> HIDE DEF S
<1>2. Tail(s) \in Seq(S) /\ Len(Tail(s)) = Len(s) - 1 /\ Len(s) \in Nat \ {0} /\ Head(s) = s[1]
  BY <1>1
<1>3. \A i \in 1..(Len(s) - 1) : Tail(s)[i] = s[i + 1]
  BY <1>1, <1>2
<1> QED BY <1>2, <1>3, SeqIs

(* The volume Mutate is about.                                              *)
LEMMA PairIs ==
    ASSUME Shape, adm.pc \in Working
    PROVE  /\ Pair \in DOMAIN input.vol /\ Parsed(Pair, input.vol[Pair], Setting)
           /\ input.kind \in {"container", "serverless", "vci", "cci"}
<1>1. IsSeq(adm.pairs) /\ adm.pairs # <<>> /\ \A i \in 1..Len(adm.pairs) : adm.pairs[i] \in DOMAIN input.vol
  BY DEF Shape, AdmOK
<1>2. Pair = adm.pairs[1] /\ Len(adm.pairs) \in Nat \ {0}
  BY <1>1, TailIs DEF Pair
<1>3. Pair \in DOMAIN input.vol
  BY <1>1, <1>2
<1>4. input \in Inputs
  BY DEF Shape, PodOK
<1>5. VolumeOK(input.vol[Pair]) /\ input.kind \in {"container", "serverless", "vci", "cci"}
  BY <1>3, <1>4, InputAssumption
<1> QED BY <1>3, <1>5, ParseSettingIs DEF Setting

LEMMA Idles ==
    /\ AdmOK(Idle) /\ Idle.pc = "wait"
    /\ AdmOK([Idle EXCEPT !.pc = "admitted"]) /\ [Idle EXCEPT !.pc = "admitted"].pc = "admitted"
    /\ AdmOK([Idle EXCEPT !.pc = "refused"]) /\ [Idle EXCEPT !.pc = "refused"].pc = "refused"
<1>1. IsSeq(<<>>) /\ Len(<<>>) = 0
  BY None
<1>2. AdmOK(Idle) /\ Idle.pc = "wait"
  BY <1>1 DEF AdmOK, Idle, Working
<1>3. AdmOK([Idle EXCEPT !.pc = "admitted"]) /\ [Idle EXCEPT !.pc = "admitted"].pc = "admitted"
  BY <1>1 DEF AdmOK, Idle, Working
<1>4. AdmOK([Idle EXCEPT !.pc = "refused"]) /\ [Idle EXCEPT !.pc = "refused"].pc = "refused"
  BY <1>1 DEF AdmOK, Idle, Working
<1> QED BY <1>2, <1>3, <1>4

(* The steps of the webhook before it injects.                              *)
Asking ==
    \/ Handle \/ Settings \/ GetSecret \/ PutSecret \/ AskAgain \/ LoadConfig
    \/ \E c \in DOMAIN input.vol : OtherAdmission(c)

LEMMA AskingKeeps ==
    ASSUME Shape, ActorInv, Asking
    PROVE  AdmOK(adm)' /\ UNCHANGED <<input, pod, st, mounted, restarts, status, at>> /\ (Started => adm' = adm)
<1> USE DEF Shape
<1>0. Started => adm.pc = "admitted"
  BY DEF ActorInv
<1>1. CASE Handle
  <2>0. UNCHANGED <<input, pod, st, mounted, restarts, status, at>> /\ ~Started
    BY <1>0, <1>1 DEF Handle, running, app
  <2>1. \/ adm' = [Idle EXCEPT !.pc = "admitted"]
        \/ adm' = [Idle EXCEPT !.pc = "refused"]
        \/ adm' = [Idle EXCEPT !.pc = "settings", !.pairs = GetVolumes.pairs] /\ GetVolumes.pairs # <<>>
    BY <1>1 DEF Handle, Admit, Refuse
  <2>2. ASSUME adm' = [Idle EXCEPT !.pc = "settings", !.pairs = GetVolumes.pairs], GetVolumes.pairs # <<>>
        PROVE  AdmOK(adm')
    <3> DEFINE P == {i \in DOMAIN input.claims : input.vol[input.claims[i]].state = "bound"}
               kept == KeepAt(input.claims, P)
    <3>1. GetVolumes.pairs = kept
      BY DEF GetVolumes
    <3>2. input \in Inputs
      BY DEF PodOK
    <3>3. IsSeq(input.claims) /\ \A i \in DOMAIN input.claims : input.claims[i] \in DOMAIN input.vol
      BY <3>2, InputAssumption
    <3>4. DOMAIN input.claims = 1..Len(input.claims) /\ Len(input.claims) \in Nat
      BY <3>3, SeqIs
    <3> HIDE DEF P
    <3>5. IsSeq(kept)
      BY <3>4, Keeps
    <3>6. \A j \in 1..Len(kept) : \E i \in 1..Len(input.claims) : i \in P /\ kept[j] = input.claims[i]
      BY <3>4, Keeps
    <3> HIDE DEF kept
    <3>7. \A j \in 1..Len(kept) : kept[j] \in DOMAIN input.vol
      BY <3>3, <3>4, <3>6
    <3>8. adm' = [pc |-> "settings", pairs |-> kept, index |-> 0, seen |-> "none", tries |-> Retries]
      BY <2>2, <3>1 DEF Idle
    <3>9. adm'.pc = "settings" /\ adm'.pairs = kept
      BY <3>8
    <3>10. adm' = [pc |-> adm'.pc, pairs |-> adm'.pairs, index |-> adm'.index, seen |-> adm'.seen, tries |-> adm'.tries]
      BY <3>8
    <3> QED BY <2>2, <3>1, <3>5, <3>7, <3>9, <3>10 DEF AdmOK, Working
  <2>3. AdmOK(adm')
    BY <2>1, <2>2, Idles
  <2>4. AdmOK(adm)'
    BY <2>0, <2>3 DEF AdmOK
  <2> QED BY <2>0, <2>4
<1>2. ASSUME UNCHANGED input, AdmOK(adm')
      PROVE  AdmOK(adm)'
  BY <1>2 DEF AdmOK
<1>3. ASSUME NEW p \in Working, adm.pc \in Working, adm' = [adm EXCEPT !.pc = p]
      PROVE  AdmOK(adm')
  BY <1>3 DEF AdmOK, Working
<1>4. CASE Settings
  <2>0. UNCHANGED <<input, pod, st, mounted, restarts, status, at>> /\ ~Started
    BY <1>0, <1>4 DEF Settings, running, app
  <2>1. adm' = [Idle EXCEPT !.pc = "refused"] \/ adm' = [adm EXCEPT !.pc = "getSecret"]
    BY <1>4 DEF Settings, Refuse
  <2>2. adm.pc \in Working /\ "getSecret" \in Working
    BY <1>4 DEF Settings, Working
  <2>3. AdmOK(adm')
    BY <1>3, <2>1, <2>2, Idles
  <2> QED BY <1>2, <2>0, <2>3
<1>5. CASE GetSecret
  <2>0. UNCHANGED <<input, pod, st, mounted, restarts, status, at>> /\ ~Started
    BY <1>0, <1>5 DEF GetSecret, running, app
  <2>1. PICK x : adm' = [adm EXCEPT !.pc = "putSecret", !.seen = x]
    BY <1>5 DEF GetSecret
  <2>2. adm.pc = "getSecret"
    BY <1>5 DEF GetSecret
  <2>3. AdmOK(adm')
    BY <2>1, <2>2 DEF AdmOK, Working
  <2> QED BY <1>2, <2>0, <2>3
<1>6. CASE PutSecret
  <2>0. UNCHANGED <<input, pod, st, mounted, restarts, status, at>> /\ ~Started
    BY <1>0, <1>6 DEF PutSecret, running, app
  <2>1. \/ adm' = [adm EXCEPT !.pc = "inject", !.tries = Retries]
        \/ adm' = [Idle EXCEPT !.pc = "refused"]
        \/ adm' = [adm EXCEPT !.pc = "getSecret", !.tries = adm.tries - 1]
    BY <1>6 DEF PutSecret, Refuse
  <2>2. adm.pc = "putSecret"
    BY <1>6 DEF PutSecret
  <2>3. CASE adm' = [adm EXCEPT !.pc = "inject", !.tries = Retries]
    <3>1. AdmOK(adm')
      BY <2>2, <2>3 DEF AdmOK, Working
    <3> QED BY <1>2, <2>0, <3>1
  <2>4. CASE adm' = [Idle EXCEPT !.pc = "refused"]
    BY <1>2, <2>0, <2>4, Idles
  <2>5. CASE adm' = [adm EXCEPT !.pc = "getSecret", !.tries = adm.tries - 1]
    <3>1. AdmOK(adm')
      BY <2>2, <2>5 DEF AdmOK, Working
    <3> QED BY <1>2, <2>0, <3>1
  <2> QED BY <2>1, <2>3, <2>4, <2>5
<1>7. CASE AskAgain
  <2>0. UNCHANGED <<input, pod, st, mounted, restarts, status, at>> /\ ~Started /\ adm' = Idle
    BY <1>7 DEF AskAgain, running, app, Started
  <2> QED BY <1>2, <2>0, Idles
<1>8. CASE LoadConfig
  <2>0. UNCHANGED <<input, pod, st, mounted, restarts, status, at>> /\ adm' = adm
    BY <1>8 DEF LoadConfig, running, app
  <2> QED BY <1>2, <2>0
<1>9. ASSUME NEW c \in DOMAIN input.vol, OtherAdmission(c)
      PROVE  AdmOK(adm)' /\ UNCHANGED <<input, pod, st, mounted, restarts, status, at>> /\ (Started => adm' = adm)
  <2>0. UNCHANGED <<input, pod, st, mounted, restarts, status, at>> /\ ~Started
    BY <1>0, <1>9 DEF OtherAdmission, running, app
  <2>1. adm' = [adm EXCEPT !.seen = "stale"] \/ adm' = adm
    BY <1>9 DEF OtherAdmission
  <2>2. AdmOK(adm')
    BY <2>1 DEF AdmOK, Working
  <2> QED BY <1>2, <2>0, <2>2
<1> QED BY <1>1, <1>4, <1>5, <1>6, <1>7, <1>8, <1>9 DEF Asking

(* What the step of Mutate adds to the pod: one sidecar, in front.          *)
LEMMA MutateAdds ==
    ASSUME Shape, Mutate
    PROVE  \E sc :
             /\ pod' = [pod EXCEPT !.vols = injectVolume(sc, Pair), !.cons = <<sc>> \o pod.cons, !.done = TRUE]
             /\ sc.name[1] = "jfs-mount" /\ IsVolumes(sc.vols)
             /\ QuotaOf(sc)
             /\ \A d \in ToSet(CacheDirOption(sc.options)) \ Unbacked(sc) : FindsMount(sc, d)
<1> DEFINE c   == Pair
           v   == input.vol[Pair]
           s   == Setting
           own == NewMountSidecar(input.kind, s, config, Digit(adm.index), pod.vols)
           sc  == Deduplicate(own, adm.index)
<1>1. pod' = [pod EXCEPT !.vols = injectVolume(sc, Pair), !.cons = <<sc>> \o pod.cons, !.done = TRUE]
  BY DEF Mutate, injectContainer
<1>2. adm.pc \in Working
  BY DEF Mutate, Working
<1>3. Parsed(c, v, s) /\ input.kind \in {"container", "serverless", "vci", "cci"}
  BY <1>2, PairIs
<1>4. Built(c, v, s, own) /\ HasCaches(input.kind, v, s, own)
  <2> HIDE DEF c, v, s
  <2> QED BY <1>3, BuilderIs
<1>5. Len(pod.cons) \in Nat
  BY SeqIs DEF Shape, PodOK
<1> HIDE DEF c, v, s, own
<1>6. /\ sc.name[1] = "jfs-mount" /\ IsVolumes(sc.vols)
      /\ sc.serves = own.serves /\ sc.quotaPath = own.quotaPath /\ sc.options = own.options
  BY <1>4, <1>5, DeduplicateIs
<1>7. \A p : HasMount(own, p) => FindsMount(sc, p)
  BY <1>4, <1>5, DeduplicateIs
<1> HIDE DEF sc
<1>8. sc.serves = c /\ sc.quotaPath = getQuotaPath(s) /\ sc.options = overwriteSubdirWithSubPath(s)
  BY <1>4, <1>6 DEF Built
<1>9. input.vol[sc.serves] = v /\ s.SubPath = v.subPath
  BY <1>3, <1>8 DEF c, v, Parsed
<1>10. QuotaOf(sc)
  BY <1>3, <1>8, <1>9, QuotaPathIs DEF QuotaOf
<1>11. ASSUME NEW d \in ToSet(CacheDirOption(sc.options)) \ Unbacked(sc) PROVE HasMount(own, d)
  <2>1. CacheDir(s, v, d)
    BY <1>3, <1>8, <1>11, CacheDirsAre
  <2>2. d # Memory /\ (input.kind # "container" => d \notin ToSet(Listed(v)))
    BY <1>9, <1>11 DEF Unbacked
  <2> QED BY <1>4, <2>1, <2>2 DEF HasCaches
<1> QED BY <1>1, <1>6, <1>7, <1>10, <1>11

LEMMA MutateKeeps ==
    ASSUME Shape, InFront, QuotaInv, CacheInv, Mutate
    PROVE  Shape' /\ InFront' /\ QuotaInv' /\ CacheInv'
<1>0. PICK sc :
        /\ pod' = [pod EXCEPT !.vols = injectVolume(sc, Pair), !.cons = <<sc>> \o pod.cons, !.done = TRUE]
        /\ sc.name[1] = "jfs-mount" /\ IsVolumes(sc.vols)
        /\ QuotaOf(sc)
        /\ \A d \in ToSet(CacheDirOption(sc.options)) \ Unbacked(sc) : FindsMount(sc, d)
  BY MutateAdds
<1> DEFINE vols == injectVolume(sc, Pair)
           cons == <<sc>> \o pod.cons
<1>1. /\ pod = [vols |-> pod.vols, done |-> pod.done, disabled |-> pod.disabled, cons |-> pod.cons]
      /\ IsVolumes(pod.vols) /\ IsSeq(pod.cons) /\ input \in Inputs /\ input' = input
  BY DEF Shape, PodOK, Mutate
<1>2. /\ IsVolumes(vols)
      /\ \A k \in DOMAIN pod.vols : k \in DOMAIN vols /\ vols[k].name = pod.vols[k].name
      /\ \A k \in DOMAIN sc.vols : \E l \in DOMAIN vols : vols[l].name = sc.vols[k].name
  BY <1>0, <1>1, InjectVolumeIs
<1> HIDE DEF vols
<1>3. /\ IsSeq(cons) /\ Len(cons) = 1 + Len(pod.cons) /\ cons[1] = sc /\ Len(pod.cons) \in Nat
      /\ \A i \in 1..Len(pod.cons) : cons[1 + i] = pod.cons[i]
  <2>1. IsSeq(<<sc>>) /\ Len(<<sc>>) = 1 /\ <<sc>>[1] = sc
    BY One
  <2> QED BY <1>1, <2>1, Cat, SeqIs
<1> HIDE DEF cons
<1>4. /\ pod'.vols = vols /\ pod'.cons = cons
      /\ pod' = [vols |-> pod'.vols, done |-> pod'.done, disabled |-> pod'.disabled, cons |-> pod'.cons]
  <2>1. pod' = [vols |-> vols, done |-> TRUE, disabled |-> pod.disabled, cons |-> cons]
    BY <1>0, <1>1 DEF vols, cons
  <2> QED BY <2>1
<1>5. PodOK'
  BY <1>1, <1>2, <1>3, <1>4 DEF PodOK
<1>6. AdmOK(adm)'
  <2>1. AdmOK(adm')
    <3>1. CASE Len(adm.pairs) = 1
      BY <3>1, Idles DEF Mutate, Admit
    <3>2. CASE Len(adm.pairs) # 1
      <4>1. adm' = [adm EXCEPT !.pc = "settings", !.pairs = Tail(adm.pairs), !.index = adm.index + 1]
        BY <3>2 DEF Mutate
      <4>2. IsSeq(adm.pairs) /\ adm.pairs # <<>> /\ \A i \in 1..Len(adm.pairs) : adm.pairs[i] \in DOMAIN input.vol
        BY DEF Shape, AdmOK, Mutate, Working
      <4>3. /\ IsSeq(Tail(adm.pairs)) /\ Len(Tail(adm.pairs)) = Len(adm.pairs) - 1 /\ Len(adm.pairs) \in Nat \ {0}
            /\ \A i \in 1..(Len(adm.pairs) - 1) : Tail(adm.pairs)[i] = adm.pairs[i + 1]
        BY <4>2, TailIs
      <4>4. ASSUME NEW i \in 1..Len(Tail(adm.pairs)) PROVE Tail(adm.pairs)[i] \in DOMAIN input.vol
        <5>1. i \in 1..(Len(adm.pairs) - 1) /\ i + 1 \in 1..Len(adm.pairs)
          BY <4>3
        <5> QED BY <4>2, <4>3, <5>1
      <4>5. Tail(adm.pairs) # <<>>
        <5>1. Len(Tail(adm.pairs)) # 0
          BY <3>2, <4>3
        <5> QED BY <5>1, None
      <4>6. adm' = [pc |-> "settings", pairs |-> Tail(adm.pairs), index |-> adm.index + 1, seen |-> adm.seen, tries |-> adm.tries]
        BY <4>1 DEF Shape, AdmOK
      <4> HIDE DEF AdmOK
      <4>7. /\ adm' = [pc |-> adm'.pc, pairs |-> adm'.pairs, index |-> adm'.index, seen |-> adm'.seen, tries |-> adm'.tries]
            /\ adm'.pc = "settings" /\ adm'.pairs = Tail(adm.pairs)
        BY <4>6
      <4> QED BY <4>3, <4>4, <4>5, <4>7 DEF AdmOK, Working
    <3> QED BY <3>1, <3>2
  <2> QED BY <1>1, <2>1 DEF AdmOK
<1>7. N' = N + 1 /\ N \in Nat
  BY <1>3, <1>4 DEF N
<1>8. ASSUME NEW i \in 1..N'
      PROVE  \/ i = 1 /\ pod'.cons[i] = sc
             \/ i - 1 \in 1..N /\ pod'.cons[i] = pod.cons[i - 1]
  <2>1. CASE i = 1
    BY <1>3, <1>4, <2>1
  <2>2. CASE i # 1
    <3>1. i - 1 \in 1..Len(pod.cons) /\ 1 + (i - 1) = i
      BY <1>7, <2>2 DEF N
    <3> QED BY <1>3, <1>4, <3>1 DEF N
  <2> QED BY <2>1, <2>2
<1>9. InFront'
  <2> SUFFICES ASSUME NEW i \in 1..N', NEW a \in 1..N',
                      pod'.cons[i].name[1] = "jfs-mount", pod'.cons[a].name[1] # "jfs-mount"
               PROVE  i < a
    BY DEF InFront, IsSidecar
  <2>1. a - 1 \in 1..N /\ pod'.cons[a] = pod.cons[a - 1]
    BY <1>0, <1>8
  <2>2. CASE i = 1
    BY <1>7, <2>1, <2>2
  <2>3. CASE i # 1
    <3>1. i - 1 \in 1..N /\ pod'.cons[i] = pod.cons[i - 1]
      BY <1>8, <2>3
    <3>2. i - 1 < a - 1
      BY <2>1, <3>1 DEF InFront, IsSidecar
    <3> QED BY <1>7, <3>2
  <2> QED BY <2>2, <2>3
<1>10. QuotaInv'
  <2> SUFFICES ASSUME NEW i \in 1..N', pod'.cons[i].name[1] = "jfs-mount"
               PROVE  QuotaOf(pod.cons[i])'
    BY DEF QuotaInv, Sidecars, IsSidecar
  <2>1. QuotaOf(pod'.cons[i])
    <3>1. CASE i = 1 /\ pod'.cons[i] = sc
      BY <1>0, <3>1
    <3>2. CASE i - 1 \in 1..N /\ pod'.cons[i] = pod.cons[i - 1]
      BY <3>2 DEF QuotaInv, Sidecars, IsSidecar
    <3> QED BY <1>8, <3>1, <3>2
  <2> QED BY <1>1, <2>1 DEF QuotaOf
<1>11. CacheInv'
  <2> SUFFICES ASSUME NEW i \in 1..N', pod'.cons[i].name[1] = "jfs-mount"
               PROVE  Backed(pod.cons[i], pod.vols)'
    BY DEF CacheInv, Sidecars, IsSidecar
  <2>1. Backed(pod'.cons[i], pod'.vols)
    <3>1. CASE i = 1 /\ pod'.cons[i] = sc
      <4>1. Backed(sc, vols)
        BY <1>0, <1>2 DEF Backed, FindsMount
      <4> QED BY <1>4, <3>1, <4>1
    <3>2. CASE i - 1 \in 1..N /\ pod'.cons[i] = pod.cons[i - 1]
      <4>1. Backed(pod.cons[i - 1], pod.vols)
        BY <3>2 DEF CacheInv, Sidecars, IsSidecar
      <4>2. Backed(pod.cons[i - 1], vols)
        BY <1>2, <4>1 DEF Backed
      <4> QED BY <1>4, <3>2, <4>2
    <3> QED BY <1>8, <3>1, <3>2
  <2> QED BY <1>1, <2>1 DEF Backed, Unbacked
<1> QED BY <1>5, <1>6, <1>9, <1>10, <1>11 DEF Shape

-----------------------------------------------------------------------------
(* The pod runs *)

(* A step that leaves the pod alone.                                        *)
LEMMA PodStays ==
    ASSUME UNCHANGED <<input, pod>>
    PROVE  /\ N' = N /\ Sidecars' = Sidecars /\ AppCons' = AppCons
           /\ PodOK => PodOK'
           /\ InFront => InFront'
           /\ QuotaInv => QuotaInv'
           /\ CacheInv => CacheInv'
<1>1. N' = N
  BY DEF N
<1>2. \A i : IsSidecar(i)' <=> IsSidecar(i)
  BY DEF IsSidecar
<1>3. Sidecars' = Sidecars
  BY <1>1, <1>2 DEF Sidecars
<1>4. AppCons' = AppCons
  BY <1>1, <1>3 DEF AppCons
<1>5. PodOK => PodOK'
  BY DEF PodOK
<1>6. InFront => InFront'
  BY <1>1 DEF InFront, IsSidecar
<1>7. QuotaInv => QuotaInv'
  BY <1>3 DEF QuotaInv, QuotaOf
<1>8. CacheInv => CacheInv'
  BY <1>3 DEF CacheInv, Backed, Unbacked
<1> QED BY <1>1, <1>3, <1>4, <1>5, <1>6, <1>7, <1>8

LEMMA AdmStays ==
    ASSUME UNCHANGED <<input, adm>>, AdmOK(adm)
    PROVE  AdmOK(adm)'
BY DEF AdmOK

LEMMA NonEmpty ==
    ASSUME NEW n, NEW S, NEW i \in 1..n, NEW f \in [1..n -> S]
    PROVE  f # <<>>
<1>1. i \in DOMAIN f
  OBVIOUS
<1>2. DOMAIN <<>> = {}
  OBVIOUS
<1> QED BY <1>1, <1>2

(* A container changes its state: what keeps the invariant.                 *)
LEMMA Moves ==
    ASSUME ActorInv, RunInv, Started, NEW i \in 1..N, NEW x \in States,
           UNCHANGED <<input, pod, adm, status, at>>, N \in Nat,
           st' = [st EXCEPT ![i] = x],
           restarts' = restarts \/ restarts' = [restarts EXCEPT ![i] = @ + 1],
           EndedOnce(i) => Ended(x) \/ restarts'[i] > 0,
           x # "waiting",
           st[i] = "waiting" => \A j \in 1..(i - 1) : st[j] \notin {"waiting", "starting"},
           x = "starting" => st[i] = "waiting" \/ restarts'[i] > 0,
           \A k \in mounted : k # i => k \in mounted',
           i \in Sidecars /\ restarts'[i] = 0 /\ x \in {"running", "exited"} => i \in mounted' \/ AllEnded
    PROVE  ActorInv' /\ RunInv'
<1>1. /\ adm.pc = "admitted" /\ st \in [1..N -> States] /\ restarts \in [1..N -> Nat]
      /\ status = [st |-> status.st, restarts |-> status.restarts]
      /\ status.st # <<>> => status.st \in [1..N -> States]
  <2>1. adm.pc = "admitted" /\ st \in [1..N -> States] /\ restarts \in [1..N -> Nat]
    BY ONLY ActorInv, Started DEF ActorInv
  <2>2. status = [st |-> status.st, restarts |-> status.restarts]
    BY ONLY ActorInv DEF ActorInv
  <2>3. status.st # <<>> => status.st \in [1..N -> States]
    BY ONLY ActorInv DEF ActorInv
  <2> QED BY ONLY <2>1, <2>2, <2>3
<1>2. N' = N /\ Sidecars' = Sidecars /\ AppCons' = AppCons
  BY PodStays
<1>3. st' \in [1..N -> States] /\ restarts' \in [1..N -> Nat]
  <2>1. st' \in [1..N -> States]
    BY <1>1
  <2>2. CASE restarts' = restarts
    BY <1>1, <2>1, <2>2
  <2>3. CASE restarts' = [restarts EXCEPT ![i] = @ + 1]
    <3>1. restarts' \in [1..N -> Nat]
      BY ONLY <1>1, <2>3, i \in 1..N
    <3> QED BY <2>1, <3>1
  <2> QED BY ONLY <2>2, <2>3, restarts' = restarts \/ restarts' = [restarts EXCEPT ![i] = @ + 1]
<1>4. Started'
  BY <1>3, NonEmpty DEF Started
<1>5. /\ st'[i] = x
      /\ \A k \in 1..N : k # i => st'[k] = st[k] /\ restarts'[k] = restarts[k]
      /\ restarts'[i] >= restarts[i]
  BY <1>1
<1>6. ActorInv'
  BY <1>1, <1>2, <1>3, <1>4 DEF ActorInv
<1>7. \A k \in 1..N : EndedOnce(k) => EndedOnce(k)'
  BY <1>5 DEF EndedOnce, Ended
<1>8. Sidecars \subseteq 1..N /\ AppCons \subseteq 1..N
  BY DEF Sidecars, AppCons
<1>9. AllEnded => AllEnded'
  BY <1>2, <1>7, <1>8 DEF AllEnded
<1>10. InTurn'
  <2> SUFFICES ASSUME NEW k \in 1..N, st'[k] # "waiting", NEW j \in 1..(k - 1)
               PROVE  st'[j] # "waiting" /\ (restarts'[j] = 0 => st'[j] # "starting")
    BY <1>2 DEF InTurn
  <2>0. j \in 1..N /\ j < k
    OBVIOUS
  <2>1. \A l \in 1..N : st[l] # "waiting" =>
           \A m \in 1..(l - 1) : st[m] # "waiting" /\ (restarts[m] = 0 => st[m] # "starting")
    BY DEF RunInv, InTurn
  <2>2. CASE k = i
    <3>1. j # i /\ st'[j] = st[j] /\ restarts'[j] = restarts[j]
      BY <1>5, <2>0, <2>2
    <3>2. CASE st[i] = "waiting"
      BY <2>2, <3>1, <3>2
    <3>3. CASE st[i] # "waiting"
      BY <2>1, <2>2, <3>1, <3>3
    <3> QED BY <3>2, <3>3
  <2>3. CASE k # i
    <3>1. st[k] # "waiting"
      BY <1>5, <2>3
    <3>2. st[j] # "waiting" /\ (restarts[j] = 0 => st[j] # "starting")
      BY <2>1, <3>1
    <3>3. CASE j = i
      BY <1>5, <3>2, <3>3
    <3>4. CASE j # i
      BY <1>5, <2>0, <3>2, <3>4
    <3> QED BY <3>3, <3>4
  <2> QED BY <2>2, <2>3
<1>11. MountedInv'
  <2> SUFFICES ASSUME NEW k \in Sidecars, restarts'[k] = 0, st'[k] \in {"running", "exited"}
               PROVE  k \in mounted' \/ AllEnded'
    BY <1>2 DEF MountedInv
  <2>1. CASE k = i
    BY <1>5, <1>9, <2>1
  <2>2. CASE k # i
    <3>1. restarts[k] = 0 /\ st[k] \in {"running", "exited"}
      BY <1>5, <1>8, <2>2
    <3>2. k \in mounted \/ AllEnded
      BY <3>1 DEF RunInv, MountedInv
    <3> QED BY <1>9, <2>2, <3>2
  <2> QED BY <2>1, <2>2
<1>12. SeenEnded'
  BY <1>2, <1>7, <1>8 DEF RunInv, SeenEnded
<1>13. UnmountsLate'
  BY <1>9 DEF RunInv, UnmountsLate
<1> QED BY <1>6, <1>10, <1>11, <1>12, <1>13 DEF RunInv

(* The steps of the kubelet.                                                *)
LEMMA KubeletKeeps ==
    ASSUME IInv, NEW i \in 1..N,
           \/ StartContainer(i) \/ PostStart(i) \/ AppEnds(i)
           \/ SidecarFails(i) \/ SidecarExits(i) \/ RestartContainer(i)
    PROVE  ActorInv' /\ RunInv' /\ UNCHANGED <<input, pod, adm>>
<1>0. ActorInv /\ RunInv /\ N \in Nat
  BY SeqIs DEF IInv, Shape, PodOK, N
<1>1. Started => st \in [1..N -> States] /\ restarts \in [1..N -> Nat]
  BY <1>0 DEF ActorInv
<1>2. Started => st[i] \in States /\ restarts[i] \in Nat
  BY <1>1
<1>3. {"starting", "running", "exited", "failed"} \subseteq States
  BY DEF States
<1>4. CASE StartContainer(i)
  <2> DEFINE x == IF IsSidecar(i) THEN "starting" ELSE "running"
  <2>1. /\ Started /\ st[i] = "waiting" /\ st' = [st EXCEPT ![i] = x]
        /\ \A j \in 1..(i - 1) : st[j] \notin {"waiting", "starting"}
        /\ mounted' = mounted /\ restarts' = restarts
        /\ UNCHANGED <<input, pod, adm, status, at>>
    BY <1>4 DEF StartContainer, admission, app
  <2>2. x \in States /\ x # "waiting" /\ x \in {"starting", "running"} /\ (i \in Sidecars => x = "starting")
    BY <1>3 DEF Sidecars
  <2> HIDE DEF x
  <2>3. EndedOnce(i) => restarts'[i] > 0
    BY <2>1 DEF EndedOnce, Ended
  <2>4. ActorInv' /\ RunInv'
    BY <1>0, <2>1, <2>2, <2>3, Moves
  <2> QED BY <2>1, <2>4
<1>5. CASE PostStart(i)
  <2>1. /\ Started /\ st[i] = "starting"
        /\ UNCHANGED <<input, pod, adm, status, at>> /\ restarts' = restarts
    BY <1>5 DEF PostStart, admission, app
  <2>2. EndedOnce(i) => restarts'[i] > 0
    BY <2>1 DEF EndedOnce, Ended
  <2>3. CASE st' = [st EXCEPT ![i] = "running"] /\ mounted' = mounted \cup {i}
    <3>1. i \in mounted' /\ \A k \in mounted : k \in mounted'
      BY <2>3
    <3>2. ActorInv' /\ RunInv'
      BY <1>0, <1>3, <2>1, <2>2, <2>3, <3>1, Moves
    <3> QED BY <2>1, <3>2
  <2>4. CASE st' = [st EXCEPT ![i] = "failed"] /\ mounted' = mounted
    <3>1. Ended("failed")
      BY DEF Ended
    <3>2. ActorInv' /\ RunInv'
      BY <1>0, <1>3, <2>1, <2>2, <2>4, <3>1, Moves
    <3> QED BY <2>1, <3>2
  <2> QED BY <1>5, <2>3, <2>4 DEF PostStart
<1>6. CASE AppEnds(i)
  <2>1. PICK r \in {"exited", "failed"} : st' = [st EXCEPT ![i] = r]
    BY <1>6 DEF AppEnds
  <2>2. /\ Started /\ i \in AppCons /\ st[i] = "running" /\ mounted' = mounted /\ restarts' = restarts
        /\ UNCHANGED <<input, pod, adm, status, at>>
    BY <1>6 DEF AppEnds, admission, app
  <2>3. Ended(r) /\ i \notin Sidecars /\ r \in States /\ r # "waiting" /\ r # "starting"
    BY <1>3, <2>2 DEF Ended, AppCons
  <2>4. ActorInv' /\ RunInv'
    BY <1>0, <2>1, <2>2, <2>3, Moves
  <2> QED BY <2>2, <2>4
<1>7. CASE SidecarFails(i)
  <2>1. /\ Started /\ st[i] = "running" /\ st' = [st EXCEPT ![i] = "failed"]
        /\ mounted' = mounted \ {i} /\ restarts' = restarts
        /\ UNCHANGED <<input, pod, adm, status, at>>
    BY <1>7 DEF SidecarFails, admission, app
  <2>2. Ended("failed") /\ \A k \in mounted : k # i => k \in mounted'
    BY <2>1 DEF Ended
  <2>3. ActorInv' /\ RunInv'
    BY <1>0, <1>3, <2>1, <2>2, Moves
  <2> QED BY <2>1, <2>3
<1>8. CASE SidecarExits(i)
  <2>1. /\ Started /\ i \in Sidecars \ mounted /\ st[i] = "running" /\ st' = [st EXCEPT ![i] = "exited"]
        /\ mounted' = mounted /\ restarts' = restarts
        /\ UNCHANGED <<input, pod, adm, status, at>>
    BY <1>8 DEF SidecarExits, admission, app
  <2>2. restarts[i] = 0 => AllEnded
    BY <1>0, <2>1 DEF RunInv, MountedInv
  <2>3. Ended("exited")
    BY DEF Ended
  <2>4. ActorInv' /\ RunInv'
    BY <1>0, <1>3, <2>1, <2>2, <2>3, Moves
  <2> QED BY <2>1, <2>4
<1>9. CASE RestartContainer(i)
  <2> DEFINE x == IF IsSidecar(i) THEN "starting" ELSE "running"
  <2>1. /\ Started /\ st' = [st EXCEPT ![i] = x] /\ restarts' = [restarts EXCEPT ![i] = @ + 1]
        /\ mounted' = mounted /\ UNCHANGED <<input, pod, adm, status, at>>
        /\ Ended(st[i])
    BY <1>9 DEF RestartContainer, admission, app, Ended
  <2>2. x \in States /\ x # "waiting"
    BY <1>3
  <2> HIDE DEF x
  <2>3. restarts'[i] > 0 /\ restarts'[i] # 0 /\ st[i] # "waiting"
    BY <1>1, <2>1 DEF Ended
  <2>4. \A k \in mounted : k # i => k \in mounted'
    BY <2>1
  <2>5. UNCHANGED <<input, pod, adm, status, at>> /\ Started /\ st' = [st EXCEPT ![i] = x]
    BY <2>1
  <2>6. restarts' = [restarts EXCEPT ![i] = @ + 1]
    BY <2>1
  <2>7. ActorInv' /\ RunInv'
    BY <1>0, <2>2, <2>3, <2>4, <2>5, <2>6, Moves
  <2> QED BY <2>1, <2>7
<1> QED BY <1>4, <1>5, <1>6, <1>7, <1>8, <1>9

LEMMA ScheduleKeeps ==
    ASSUME IInv, Schedule
    PROVE  ActorInv' /\ RunInv' /\ UNCHANGED <<input, pod, adm>>
<1>0. ActorInv /\ N \in Nat
  BY SeqIs DEF IInv, Shape, PodOK, N
<1>1. /\ adm.pc = "admitted" /\ ~Started
      /\ st' = [i \in 1..N |-> "waiting"] /\ restarts' = [i \in 1..N |-> 0]
      /\ UNCHANGED <<input, pod, adm, mounted, status, at>>
  BY DEF Schedule, admission, app
<1>2. N' = N /\ Sidecars' = Sidecars /\ AppCons' = AppCons
  BY <1>1, PodStays
<1>3. at = 0 /\ status.st = <<>> /\ status = [st |-> status.st, restarts |-> status.restarts]
  BY <1>0, <1>1 DEF ActorInv
<1>4. st' \in [1..N -> States] /\ restarts' \in [1..N -> Nat]
  BY <1>1 DEF States
<1>5. ActorInv'
  BY <1>1, <1>2, <1>3, <1>4 DEF ActorInv
<1>6. \A i \in 1..N : st'[i] = "waiting"
  BY <1>1
<1>7. InTurn'
  BY <1>2, <1>6 DEF InTurn
<1>8. MountedInv'
  BY <1>2, <1>6 DEF MountedInv, Sidecars
<1>9. SeenEnded' /\ UnmountsLate'
  BY <1>1, <1>3 DEF SeenEnded, UnmountsLate
<1> QED BY <1>1, <1>5, <1>7, <1>8, <1>9 DEF RunInv

(* A step that changes no container.                                        *)
LEMMA ContainersStay ==
    ASSUME UNCHANGED <<input, pod, st, restarts>>
    PROVE  /\ Started' = Started /\ N' = N /\ Sidecars' = Sidecars /\ AppCons' = AppCons
           /\ AllEnded <=> AllEnded'
           /\ InTurn => InTurn'
           /\ UNCHANGED mounted /\ MountedInv => MountedInv'
           /\ UNCHANGED status /\ SeenEnded => SeenEnded'
<1>1. Started' = Started
  BY DEF Started
<1>2. N' = N /\ Sidecars' = Sidecars /\ AppCons' = AppCons
  BY PodStays
<1>3. AllEnded <=> AllEnded'
  BY <1>2 DEF AllEnded, EndedOnce, Ended
<1>4. InTurn => InTurn'
  BY <1>1, <1>2 DEF InTurn
<1>5. UNCHANGED mounted /\ MountedInv => MountedInv'
  BY <1>1, <1>2, <1>3 DEF MountedInv
<1>6. UNCHANGED status /\ SeenEnded => SeenEnded'
  BY <1>2 DEF SeenEnded, EndedOnce, Ended
<1> QED BY <1>1, <1>2, <1>3, <1>4, <1>5, <1>6

(* When the states that AppController has read let it unmount, all          *)
(* containers of the application have ended.                                *)
LEMMA QueuedAfterEnd ==
    ASSUME IInv, ShouldInQueue(status.st)
    PROVE  Started /\ AllEnded
<1>1. status.st # <<>>
  <2> SUFFICES ASSUME status.st = <<>> PROVE FALSE
    OBVIOUS
  <2>1. DOMAIN status.st = {}
    OBVIOUS
  <2>2. \E i \in DOMAIN status.st : TRUE
    BY DEF ShouldInQueue, PhaseRunning
  <2> QED BY <2>1, <2>2
<1>2. \A a \in AppCons : Ended(status.st[a])
  BY DEF ShouldInQueue
<1>3. AllEnded
  BY <1>1, <1>2 DEF IInv, RunInv, SeenEnded, AllEnded
<1> QED BY <1>1, <1>3 DEF IInv, ActorInv

(* The steps of AppController, and the reports it reads.                    *)
Watching ==
    \/ Report \/ Reconcile \/ SkipContainer
    \/ umountFuseSidecar \/ umountFuseSidecarFails \/ ControllerRestarts

LEMMA WatchingKeeps ==
    ASSUME IInv, Watching
    PROVE  ActorInv' /\ RunInv' /\ UNCHANGED <<input, pod, adm>>
<1>0. /\ ActorInv /\ RunInv
      /\ Started => adm.pc = "admitted" /\ st \in [1..N -> States] /\ restarts \in [1..N -> Nat]
      /\ at # 0 => Started /\ AllEnded
      /\ status = [st |-> status.st, restarts |-> status.restarts]
      /\ status.st # <<>> => Started /\ status.st \in [1..N -> States]
  BY DEF IInv, ActorInv, RunInv, UnmountsLate
<1>1. UNCHANGED <<input, pod, adm, st, restarts>>
  BY DEF Watching, Report, Reconcile, SkipContainer, umountFuseSidecar, umountFuseSidecarFails,
         ControllerRestarts, admission, running
<1>2. /\ Started' = Started /\ N' = N /\ Sidecars' = Sidecars /\ AppCons' = AppCons
      /\ AllEnded <=> AllEnded'
      /\ InTurn'
  BY <1>0, <1>1, ContainersStay DEF RunInv
<1>3. CASE Report
  <2>1. status' = [st |-> st, restarts |-> restarts] /\ at' = at /\ mounted' = mounted
    BY <1>3 DEF Report, Observed, running
  <2>2. status'.st = st /\ status' = [st |-> status'.st, restarts |-> status'.restarts]
    BY <2>1
  <2>3. ActorInv'
    BY <1>0, <1>1, <1>2, <2>1, <2>2 DEF ActorInv, Started
  <2>4. SeenEnded'
    BY <1>1, <1>2, <2>2 DEF SeenEnded, EndedOnce, Ended
  <2>5. MountedInv' /\ UnmountsLate'
    BY <1>0, <1>1, <1>2, <2>1, ContainersStay DEF RunInv, UnmountsLate
  <2> QED BY <1>1, <1>2, <2>3, <2>4, <2>5 DEF RunInv
<1>4. ASSUME status' = status, at' # 0 => Started /\ AllEnded, \A k \in mounted : k \in mounted' \/ AllEnded
      PROVE  ActorInv' /\ RunInv' /\ UNCHANGED <<input, pod, adm>>
  <2>1. ActorInv'
    BY <1>0, <1>1, <1>2, <1>4 DEF ActorInv
  <2>2. SeenEnded'
    BY <1>0, <1>1, <1>4, ContainersStay DEF RunInv
  <2>3. UnmountsLate'
    BY <1>2, <1>4 DEF UnmountsLate
  <2>4. MountedInv'
    BY <1>0, <1>1, <1>2, <1>4 DEF RunInv, MountedInv
  <2> QED BY <1>1, <1>2, <2>1, <2>2, <2>3, <2>4 DEF RunInv
<1>5. CASE Reconcile
  <2>1. status' = status /\ mounted' = mounted /\ at' = IF ShouldInQueue(status.st) THEN 1 ELSE 0
    BY <1>5 DEF Reconcile, running
  <2>2. at' # 0 => Started /\ AllEnded
    BY <2>1, QueuedAfterEnd
  <2> QED BY <1>4, <2>1, <2>2
<1>6. CASE SkipContainer
  <2>1. status' = status /\ mounted' = mounted /\ at # 0
    BY <1>6 DEF SkipContainer, running
  <2> QED BY <1>0, <1>4, <2>1
<1>7. CASE umountFuseSidecar
  <2>1. status' = status /\ at \in Sidecars
    BY <1>7 DEF umountFuseSidecar, HasHook
  <2>2. at # 0
    BY <2>1 DEF Sidecars
  <2> QED BY <1>0, <1>4, <2>1, <2>2
<1>8. CASE umountFuseSidecarFails
  <2>1. status' = status /\ mounted' = mounted /\ at' = 0
    BY <1>8 DEF umountFuseSidecarFails, running
  <2> QED BY <1>4, <2>1
<1>9. CASE ControllerRestarts
  <2>1. status' = status /\ mounted' = mounted /\ at' = 0
    BY <1>9 DEF ControllerRestarts, running
  <2> QED BY <1>4, <2>1
<1> QED BY <1>3, <1>5, <1>6, <1>7, <1>8, <1>9 DEF Watching

-----------------------------------------------------------------------------
LEMMA InitInv == Init => IInv
<1> SUFFICES ASSUME Init PROVE IInv
  OBVIOUS
<1> DEFINE cons == [n \in 1..input.apps |-> AppCon(input, n)]
<1>0. /\ input \in Inputs /\ adm = Idle /\ st = <<>> /\ at = 0
      /\ status = [st |-> <<>>, restarts |-> <<>>]
      /\ pod = [vols |-> AppVols(input), done |-> FALSE, disabled |-> input.disabled, cons |-> cons]
  BY DEF Init
<1>1. input.apps \in Nat /\ IsSeq(input.claims)
  BY <1>0, InputAssumption
<1>2. IsVolumes(AppVols(input))
  <2> DEFINE a == [i \in DOMAIN input.claims |-> [name |-> <<"data", Digit(i)>>, src |-> <<"claim", input.claims[i]>>]]
             o == [name |-> <<"cachedir", "0">>, src |-> <<"own">>]
             b == When(input.clash, <<o>>)
  <2>1. AppVols(input) = a \o b
    BY DEF AppVols
  <2>2. DOMAIN input.claims = 1..Len(input.claims) /\ Len(input.claims) \in Nat
    BY <1>1, SeqIs
  <2>3. IsSeq(a)
    BY <2>2, FcnIsSeq
  <2>4. \A i \in DOMAIN a : "name" \in DOMAIN a[i]
    OBVIOUS
  <2>5. "name" \in DOMAIN o
    OBVIOUS
  <2> HIDE DEF a, o
  <2>6. IsSeq(b) /\ \A i \in DOMAIN b : "name" \in DOMAIN b[i]
    <3>1. CASE input.clash
      <4>1. b = <<o>>
        BY <3>1 DEF When
      <4>2. IsSeq(<<o>>) /\ \A i \in DOMAIN <<o>> : <<o>>[i] = o
        BY One
      <4> QED BY <2>5, <4>1, <4>2
    <3>2. CASE ~input.clash
      <4>1. b = <<>>
        BY <3>2 DEF When
      <4> QED BY <4>1, None
    <3> QED BY <3>1, <3>2
  <2> HIDE DEF b
  <2>7. /\ IsSeq(a \o b) /\ Len(a \o b) = Len(a) + Len(b)
        /\ \A i \in 1..Len(a) : (a \o b)[i] = a[i]
        /\ \A i \in 1..Len(b) : (a \o b)[Len(a) + i] = b[i]
    BY <2>3, <2>6, Cat
  <2>8. /\ Len(a) \in Nat /\ Len(b) \in Nat /\ DOMAIN a = 1..Len(a) /\ DOMAIN b = 1..Len(b)
        /\ DOMAIN (a \o b) = 1..(Len(a) + Len(b))
    BY <2>3, <2>6, <2>7, SeqIs
  <2>9. ASSUME NEW i \in DOMAIN (a \o b) PROVE "name" \in DOMAIN (a \o b)[i]
    <3>1. CASE i <= Len(a)
      BY <2>4, <2>7, <2>8, <3>1
    <3>2. CASE ~(i <= Len(a))
      <4>1. i - Len(a) \in 1..Len(b) /\ Len(a) + (i - Len(a)) = i
        BY <2>8, <3>2
      <4>2. (a \o b)[i] = b[i - Len(a)]
        BY <2>7, <4>1
      <4> QED BY <2>6, <2>8, <4>1, <4>2
    <3> QED BY <3>1, <3>2
  <2> QED BY <2>1, <2>7, <2>9 DEF IsVolumes
<1>3. IsSeq(cons) /\ Len(cons) = input.apps
  BY <1>1, FcnIsSeq
<1>4. \A n \in 1..input.apps : cons[n].name[1] = "app"
  BY DEF AppCon
<1> HIDE DEF cons
<1>5. /\ pod.vols = AppVols(input) /\ pod.cons = cons
      /\ pod = [vols |-> pod.vols, done |-> pod.done, disabled |-> pod.disabled, cons |-> pod.cons]
  BY <1>0
<1>6. Shape
  BY <1>0, <1>2, <1>3, <1>5, Idles DEF Shape, PodOK
<1>7. \A i \in 1..N : ~IsSidecar(i)
  BY <1>3, <1>4, <1>5 DEF N, IsSidecar
<1>8. InFront /\ QuotaInv /\ CacheInv
  BY <1>7 DEF InFront, QuotaInv, CacheInv, Sidecars
<1>9. ~Started /\ status.st = <<>> /\ status = [st |-> status.st, restarts |-> status.restarts]
  BY <1>0 DEF Started
<1>10. ActorInv /\ RunInv
  BY <1>0, <1>9 DEF ActorInv, RunInv, InTurn, MountedInv, SeenEnded, UnmountsLate
<1> QED BY <1>6, <1>8, <1>10 DEF IInv

LEMMA NextKeeps == IInv /\ [Next]_vars => IInv'
<1> SUFFICES ASSUME IInv, [Next]_vars PROVE IInv'
  OBVIOUS
<1>0. /\ Shape /\ PodOK /\ AdmOK(adm) /\ InFront /\ QuotaInv /\ CacheInv /\ ActorInv /\ RunInv
  BY DEF IInv, Shape
<1>1. ASSUME UNCHANGED <<input, pod>>, AdmOK(adm)', ActorInv', RunInv' PROVE IInv'
  <2>1. PodOK' /\ InFront' /\ QuotaInv' /\ CacheInv'
    BY <1>0, <1>1, PodStays
  <2> QED BY <1>1, <2>1 DEF IInv, Shape
<1>2. ASSUME UNCHANGED <<st, mounted, restarts, status, at, input, pod>>, Started => adm' = adm
      PROVE  ActorInv' /\ RunInv'
  <2>1. /\ Started' = Started /\ N' = N
        /\ AllEnded <=> AllEnded'
        /\ InTurn' /\ MountedInv' /\ SeenEnded'
    BY <1>0, <1>2, ContainersStay DEF RunInv
  <2>2. ActorInv'
    BY <1>0, <1>2, <2>1 DEF ActorInv
  <2>3. UnmountsLate'
    BY <1>0, <1>2, <2>1 DEF RunInv, UnmountsLate
  <2> QED BY <2>1, <2>2, <2>3 DEF RunInv
<1>3. CASE Asking
  <2>1. AdmOK(adm)' /\ UNCHANGED <<input, pod, st, mounted, restarts, status, at>> /\ (Started => adm' = adm)
    BY <1>0, <1>3, AskingKeeps
  <2>2. ActorInv' /\ RunInv'
    BY <1>2, <2>1
  <2> QED BY <1>1, <2>1, <2>2
<1>4. CASE Mutate
  <2>1. Shape' /\ InFront' /\ QuotaInv' /\ CacheInv'
    BY <1>0, <1>4, MutateKeeps
  <2>2. ~Started /\ UNCHANGED <<st, mounted, restarts, status, at>>
    BY <1>0, <1>4 DEF Mutate, ActorInv, running, app
  <2>3. ~Started' /\ at' = 0 /\ status'.st = <<>> /\ status' = [st |-> status'.st, restarts |-> status'.restarts]
    BY <1>0, <2>2 DEF ActorInv, Started
  <2>4. ActorInv' /\ RunInv'
    BY <2>3 DEF ActorInv, RunInv, InTurn, MountedInv, SeenEnded, UnmountsLate
  <2> QED BY <2>1, <2>4 DEF IInv
<1>5. CASE Schedule
  <2>1. ActorInv' /\ RunInv' /\ UNCHANGED <<input, pod, adm>>
    BY <1>5, ScheduleKeeps
  <2> QED BY <1>0, <1>1, <2>1, AdmStays
<1>6. ASSUME NEW i \in 1..N,
             \/ StartContainer(i) \/ PostStart(i) \/ AppEnds(i)
             \/ SidecarFails(i) \/ SidecarExits(i) \/ RestartContainer(i)
      PROVE  IInv'
  <2>1. ActorInv' /\ RunInv' /\ UNCHANGED <<input, pod, adm>>
    BY <1>6, KubeletKeeps
  <2> QED BY <1>0, <1>1, <2>1, AdmStays
<1>7. CASE Watching
  <2>1. ActorInv' /\ RunInv' /\ UNCHANGED <<input, pod, adm>>
    BY <1>7, WatchingKeeps
  <2> QED BY <1>0, <1>1, <2>1, AdmStays
<1>8. CASE UNCHANGED vars
  <2>1. UNCHANGED <<input, pod, adm, st, mounted, restarts, status, at>>
    BY <1>8 DEF vars, admission, running, app
  <2>2. ActorInv' /\ RunInv'
    BY <1>2, <2>1
  <2> QED BY <1>0, <1>1, <2>1, <2>2, AdmStays
<1> QED BY <1>3, <1>4, <1>5, <1>6, <1>7, <1>8 DEF Next, Asking, Watching

LEMMA Invariant == Spec => []IInv
BY InitInv, NextKeeps, PTL DEF Spec

-----------------------------------------------------------------------------
(* As long as a container of the application runs for the first time, every *)
(* sidecar that did not fail is mounted, for every pod, any number of       *)
(* sidecars, containers, failures and restarts, and whatever states         *)
(* AppController reads how late (injectContainer, ShouldInQueue).           *)
THEOREM StaysServed == Spec => []ServedWhileRunning
<1>1. IInv => ServedWhileRunning
  <2> SUFFICES ASSUME IInv, Started, NEW a \in AppCons, NEW i \in Sidecars,
                      st[a] = "running", restarts[a] = 0, st[i] # "failed", restarts[i] = 0
               PROVE  i \in mounted
    BY DEF ServedWhileRunning
  <2>1. a \in 1..N /\ i \in 1..N /\ IsSidecar(i) /\ ~IsSidecar(a) /\ N \in Nat
    BY SeqIs DEF AppCons, Sidecars, IInv, Shape, PodOK, N
  <2>2. i \in 1..(a - 1)
    BY <2>1 DEF IInv, InFront
  <2>3. st[i] # "waiting" /\ st[i] # "starting"
    BY <2>1, <2>2 DEF IInv, RunInv, InTurn
  <2>4. st[i] \in States
    BY <2>1 DEF IInv, ActorInv
  <2>5. st[i] \in {"running", "exited"}
    BY <2>3, <2>4 DEF States
  <2>6. ~AllEnded
    BY DEF AllEnded, EndedOnce, Ended
  <2> QED BY <2>5, <2>6 DEF IInv, RunInv, MountedInv
<1> QED BY <1>1, Invariant, PTL

(* The directory that gets the quota is the one the sidecar mounts, for     *)
(* every list of options, every subPath and every builder (getQuotaPath,    *)
(* overwriteSubdirWithSubPath).                                             *)
THEOREM QuotaSet == Spec => []QuotaOnMounted
<1>1. IInv => QuotaOnMounted
  BY DEF IInv, QuotaInv, QuotaOf, QuotaOnMounted
<1> QED BY <1>1, Invariant, PTL

(* Every cache directory the mount command names lies on a volume of the    *)
(* sidecar, for any number of cache claims, inline volumes and directories, *)
(* and however the volumes of several sidecars are renamed (ParseSetting,   *)
(* the four builders, Deduplicate, injectVolume).                           *)
THEOREM CachesStayBacked == Spec => []CachesBacked
<1>1. IInv => CachesBacked
  <2> SUFFICES ASSUME IInv, NEW i \in Sidecars,
                      NEW d \in ToSet(CacheDirOption(pod.cons[i].options)) \ Unbacked(pod.cons[i])
               PROVE  \E j \in DOMAIN pod.cons[i].mounts :
                         pod.cons[i].mounts[j].path = d /\ Source(pod.cons[i].mounts[j].vol) # {}
    BY Zenon DEF CachesBacked, Unbacked, Listed
  <2>1. PICK j \in DOMAIN pod.cons[i].mounts :
           /\ pod.cons[i].mounts[j].path = d
           /\ \E k \in DOMAIN pod.vols : pod.vols[k].name = pod.cons[i].mounts[j].vol
    BY DEF IInv, CacheInv, Backed
  <2>2. Source(pod.cons[i].mounts[j].vol) # {}
    BY <2>1 DEF Source
  <2> QED BY <2>1, <2>2, Zenon
<1> QED BY <1>1, Invariant, PTL

=============================================================================
