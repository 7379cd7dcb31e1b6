-------------------------- MODULE DashboardProofs --------------------------
(***************************************************************************)
(* The dashboard's indexes follow the informers' caches, for any number of *)
(* pods, volumes, claims and objects under their names, any order of       *)
(* predicates and workers and any number of restarts: nothing gets lost,   *)
(* the indexes are in the order of creation, and the pages cut from them   *)
(* are complete.                                                           *)
(***************************************************************************)
EXTENDS Dashboard, FiniteSetsExt, SequenceTheorems, WellFoundedInduction, TLAPS

-----------------------------------------------------------------------------
(* The inductive invariant *)

Kinds == {"app", "sys", "pv", "pvc"}

(* What the ClaimRef of a volume and the volume of a claim may be.          *)
RefsOf(n) == IF n \in PVs THEN PVCs \cup {"none"} ELSE PVs \cup {"none", "other"}

(* Names are where they belong, and only those in use have objects.         *)
CachePlaced ==
    /\ \A n \in AllNames : cache[n].ref \in RefsOf(n) /\ (Alive(cache, n) => n \in names)
    /\ \A c \in PVCs : cache[c].label => cache[c].ref # "none"
EventsPlaced == \A k \in Controllers : \A i \in DOMAIN events[k] :
    Controller(events[k][i].name) = k /\ (events[k][i].type = "unbound" => k = "pvc")
QueuePlaced == \A k \in Controllers : \A n \in queue[k] : Controller(n) = k
WorkerPlaced ==
    /\ \A k \in Controllers : worker[k].pc # "idle" =>
          Controller(worker[k].name) = k /\ worker[k].obj.ref \in RefsOf(worker[k].name)
    /\ worker["pv"].pc = "index" => worker["pv"].obj.ref # "none"
IndexPlaced == \A k \in Kinds : \A n \in ToSet(indexes[k]) : IndexOf(n) = k

Placed == CachePlaced /\ EventsPlaced /\ QueuePlaced /\ WorkerPlaced /\ IndexPlaced

(* What later states of an object keep.                                     *)
Since(old, new) ==
    /\ old.born = new.born
    /\ old.deleting => new.deleting
    /\ old.ref # "none" => new.ref = old.ref

(* A uid is one object's: a worker that holds the uid of an object in the   *)
(* cache holds an earlier state of it.                                      *)
CacheUid ==
    /\ \A n \in AllNames : cache[n].uid <= MaxObjects - left.objects
    /\ \A m, n \in AllNames : Alive(cache, m) /\ cache[m].uid = cache[n].uid => m = n
WorkerUid == \A k \in Controllers : worker[k].pc # "idle" =>
    /\ worker[k].obj.uid <= MaxObjects - left.objects
    /\ \A n \in AllNames : cache[n].uid = worker[k].obj.uid =>
           n = worker[k].name /\ Since(worker[k].obj, cache[n])

TypeInv == TypeOK /\ Placed /\ CacheUid /\ WorkerUid

-----------------------------------------------------------------------------
(* An event of A comes after the last one of L; there is none of L.         *)
Sure(es, A, L) == \E i \in DOMAIN es : es[i] \in A /\ \A j \in DOMAIN es : j > i => es[j] \notin L
Free(es, L)    == \A i \in DOMAIN es : es[i] \notin L

EventSet      == [type: {"changed", "unbound", "delete"}, name: AllNames, label: BOOLEAN]
Announcing(n) == {e \in EventSet : e.name = n /\ (e.type = "changed" \/ n \in PVs)}
Losing(n)     == {e \in EventSet : e.name = n /\ e.type # "changed" /\ n \notin PVs}

(* The controller of n will be asked for it after the last event with which *)
(* n would be lost, or there is no such event.                              *)
Comes(n)   == Sure(events[Controller(n)], Announcing(n), Losing(n))
NotLost(n) == Free(events[Controller(n)], Losing(n))

(* The controller's worker has n, in its present state or an old one.       *)
At(n)      == worker[Controller(n)].pc # "idle" /\ worker[Controller(n)].name = n
Current(n) == worker[Controller(n)].obj.uid = cache[n].uid

(* What the lists are to show.                                              *)
Wanted(n) == Alive(cache, n) /\ ~cache[n].deleting /\ (n \in Apps => cache[n].label)

(* The worker is going to add n.                                            *)
Adds(n) == At(n) /\ Current(n) /\ (n \in PVs => worker["pv"].pc = "tables")

(* n is in the queue, with the worker or in its index.                      *)
Has(n) ==
    \/ n \in queue[Controller(n)]
    \/ Adds(n)
    \/ n \in ToSet(indexes[IndexOf(n)]) /\ (At(n) => Current(n))

ListInv == \A n \in names \ PVCs : Wanted(n) => Comes(n) \/ (NotLost(n) /\ Has(n))

-----------------------------------------------------------------------------
(* CSI node pods: the deletion of one clears the entry of the node.         *)
OneCsi == \A m, n \in Csis : Alive(cache, m) /\ Alive(cache, n) => m = n

Clearing    == {e \in EventSet : e.type = "delete" /\ e.name \in Csis}
CsiComes(n) == Sure(events["pod"], Announcing(n), Clearing)
NotCleared  == Free(events["pod"], Clearing)

CsiInv == \A n \in Csis : Wanted(n) /\ cache[n].label =>
    \/ CsiComes(n)
    \/ /\ NotCleared
       /\ \/ n \in queue["pod"]
          \/ worker["pod"] = [pc |-> "tables", name |-> n, obj |-> cache[n]]
          \/ csiNodeIndex = n /\ (worker["pod"].pc = "tables" => CsiEntry(worker["pod"]) = n)

-----------------------------------------------------------------------------
(* Pairs: an entry is written for the claim and for the volume.             *)
BoundClaim(c) == cache[c].label /\ ~cache[c].deleting /\ c \notin rebound

(* PVCController's worker has the claim as it is now.                       *)
HasClaim(c) == At(c) /\ Current(c) /\ worker["pvc"].obj.label /\ worker["pvc"].obj.ref = cache[c].ref

(* PVController is going to see the volume with its claim.                  *)
VolumeComes(v, c) ==
    /\ v \in PVs /\ cache[v].ref = c
    /\ \/ Comes(v)
       \/ v \in queue["pv"]
       \/ At(v) /\ Current(v) /\ worker["pv"].pc = "tables" /\ worker["pv"].obj.ref = c

ClaimInv == \A c \in PVCs : BoundClaim(c) =>
    /\ Comes(c) \/ NotLost(c)
    /\ At(c) => HasClaim(c) \/ Comes(c) \/ c \in queue["pvc"]

PairWanted(c) ==
    LET v == cache[c].ref IN BoundClaim(c) /\ (v \in PVs => Alive(cache, v) /\ ~cache[v].deleting)

PairTurn(c) ==
    LET v == cache[c].ref IN
    Comes(c) \/ c \in queue["pvc"] \/ HasClaim(c) \/ pairs[c] = PairOf(v) \/ VolumeComes(v, c)

PairInv == ~leftover => \A c \in PVCs : PairWanted(c) => PairTurn(c)

SharedInv == Shared(cache) => leftover

IInv == TypeInv /\ ListInv /\ OneCsi /\ CsiInv /\ SharedInv /\ ClaimInv /\ PairInv /\ TimeOrdered

-----------------------------------------------------------------------------
(* Lists *)

(* A set of naturals has a least element.                                   *)
LEMMA Least ==
    ASSUME NEW S \in SUBSET Nat, S # {}
    PROVE  \E x \in S : \A y \in S : x <= y
<1> DEFINE Less == {ss \in Nat \X Nat : ss[1] < ss[2]}
<1>1. IsWellFoundedOn(Less, Nat)
  BY NatLessThanWellFounded, Zenon DEF OpToRel
<1>2. ASSUME NEW x \in Nat, NEW y \in Nat, y < x PROVE <<y, x>> \in Less
  BY <1>2
<1> HIDE DEF Less
<1>3. PICK x \in S : \A y \in S : ~ (<<y, x>> \in Less)
  BY <1>1, WFMin
<1>4. ASSUME NEW y \in S PROVE x <= y
  <2>1. ~(y < x)
    BY <1>2, <1>3
  <2> QED BY <2>1
<1> QED BY <1>4

(* A set of positions has a last one.                                       *)
LEMMA HasLast ==
    ASSUME NEW n \in Nat, NEW S \in SUBSET (1..n), S # {}
    PROVE  \E x \in S : \A y \in S : y <= x
<1> DEFINE T == {k \in Nat : n - k \in S}
<1>1. T \in SUBSET Nat
  OBVIOUS
<1>2. ASSUME NEW z \in S PROVE n - z \in T
  <2>1. n - z \in Nat /\ n - (n - z) = z
    OBVIOUS
  <2> QED BY <2>1
<1>3. T # {}
  BY <1>2
<1> HIDE DEF T
<1>4. PICK k \in T : \A l \in T : k <= l
  BY <1>1, <1>3, Least
<1>5. k \in Nat /\ n - k \in S
  BY DEF T
<1>6. ASSUME NEW z \in S PROVE z <= n - k
  <2>1. n - z \in T /\ n - z \in Nat /\ z \in 1..n
    BY <1>2
  <2> QED BY <1>4, <1>5, <2>1
<1>7. \E x \in S : x = n - k
  BY <1>5
<1> QED BY <1>6, <1>7

(* What RemoveAt leaves.                                                    *)
LEMMA RemoveAtFacts ==
    ASSUME NEW S, NEW s \in Seq(S), NEW i \in 1..Len(s)
    PROVE  /\ RemoveAt(s, i) \in Seq(S)
           /\ Len(RemoveAt(s, i)) = Len(s) - 1
           /\ \A j \in 1..(Len(s) - 1) : RemoveAt(s, i)[j] = IF j < i THEN s[j] ELSE s[j + 1]
<1> DEFINE a == SubSeq(s, 1, i - 1)
           b == SubSeq(s, i + 1, Len(s))
<1>0. Len(s) \in Nat /\ i \in Nat
  BY LenProperties
<1>1. a \in Seq(S) /\ Len(a) = i - 1 /\ \A j \in 1..(i - 1) : a[j] = s[j]
  BY <1>0, SubSeqProperties
<1>2. b \in Seq(S) /\ Len(b) = Len(s) - i /\ \A j \in 1..(Len(s) - i) : b[j] = s[i + j]
  BY <1>0, SubSeqProperties
<1> HIDE DEF a, b
<1>3. /\ a \o b \in Seq(S) /\ Len(a \o b) = Len(a) + Len(b)
      /\ \A j \in 1..(Len(a) + Len(b)) : (a \o b)[j] = IF j <= Len(a) THEN a[j] ELSE b[j - Len(a)]
  BY <1>1, <1>2, ConcatProperties
<1>4. ASSUME NEW j \in 1..(Len(s) - 1) PROVE (a \o b)[j] = IF j < i THEN s[j] ELSE s[j + 1]
  <2>1. CASE j < i
    BY <1>0, <1>1, <1>2, <1>3, <2>1
  <2>2. CASE ~(j < i)
    <3>1. (a \o b)[j] = b[j - (i - 1)]
      BY <1>0, <1>1, <1>2, <1>3, <2>2
    <3>2. j - (i - 1) \in 1..(Len(s) - i) /\ i + (j - (i - 1)) = j + 1
      BY <1>0, <2>2
    <3> QED BY <1>2, <2>2, <3>1, <3>2
  <2> QED BY <2>1, <2>2
<1>5. RemoveAt(s, i) = a \o b
  BY DEF RemoveAt, a, b
<1>6. Len(a \o b) = Len(s) - 1
  BY <1>0, <1>1, <1>2, <1>3
<1> QED BY <1>3, <1>4, <1>5, <1>6

(* What InsertAt makes of a list, and an entry put in front of it.          *)
LEMMA InsertAtFacts ==
    ASSUME NEW S, NEW s \in Seq(S), NEW i \in 1..(Len(s) + 1), NEW e \in S
    PROVE  /\ InsertAt(s, i, e) \in Seq(S)
           /\ Len(InsertAt(s, i, e)) = Len(s) + 1
           /\ \A j \in 1..(Len(s) + 1) :
                 InsertAt(s, i, e)[j] = IF j < i THEN s[j] ELSE IF j = i THEN e ELSE s[j - 1]
<1> DEFINE a == SubSeq(s, 1, i - 1)
           b == SubSeq(s, i, Len(s))
           c == a \o <<e>>
<1>0. Len(s) \in Nat /\ i \in Nat
  BY LenProperties
<1>1. a \in Seq(S) /\ Len(a) = i - 1 /\ \A j \in 1..(i - 1) : a[j] = s[j]
  BY <1>0, SubSeqProperties
<1>2. b \in Seq(S) /\ Len(b) = Len(s) - i + 1 /\ \A j \in 1..(Len(s) - i + 1) : b[j] = s[i + j - 1]
  BY <1>0, SubSeqProperties
<1>3. <<e>> \in Seq(S) /\ Len(<<e>>) = 1 /\ <<e>>[1] = e
  OBVIOUS
<1> HIDE DEF a, b
<1>4. c \in Seq(S) /\ Len(c) = i /\ \A j \in 1..i : c[j] = IF j < i THEN s[j] ELSE e
  <2>1. /\ c \in Seq(S) /\ Len(c) = Len(a) + Len(<<e>>)
        /\ \A j \in 1..(Len(a) + Len(<<e>>)) : c[j] = IF j <= Len(a) THEN a[j] ELSE <<e>>[j - Len(a)]
    BY <1>1, <1>3, ConcatProperties
  <2>2. Len(c) = i
    BY <1>0, <1>1, <1>3, <2>1
  <2>3. ASSUME NEW j \in 1..i PROVE c[j] = IF j < i THEN s[j] ELSE e
    <3>1. CASE j < i
      BY <1>0, <1>1, <1>3, <2>1, <3>1
    <3>2. CASE ~(j < i)
      <4>1. j - Len(a) = 1 /\ ~(j <= Len(a)) /\ j \in 1..(Len(a) + Len(<<e>>))
        BY <1>0, <1>1, <1>3, <3>2
      <4>2. c[j] = <<e>>[1]
        BY <2>1, <4>1
      <4> QED BY <1>3, <3>2, <4>2
    <3> QED BY <3>1, <3>2
  <2> QED BY <2>1, <2>2, <2>3
<1> HIDE DEF c
<1>5. /\ c \o b \in Seq(S) /\ Len(c \o b) = Len(c) + Len(b)
      /\ \A j \in 1..(Len(c) + Len(b)) : (c \o b)[j] = IF j <= Len(c) THEN c[j] ELSE b[j - Len(c)]
  BY <1>2, <1>4, ConcatProperties
<1>6. ASSUME NEW j \in 1..(Len(s) + 1)
      PROVE  (c \o b)[j] = IF j < i THEN s[j] ELSE IF j = i THEN e ELSE s[j - 1]
  <2>1. CASE j <= i
    BY <1>0, <1>2, <1>4, <1>5, <2>1
  <2>2. CASE ~(j <= i)
    <3>1. (c \o b)[j] = b[j - i]
      BY <1>0, <1>2, <1>4, <1>5, <2>2
    <3>2. j - i \in 1..(Len(s) - i + 1) /\ i + (j - i) - 1 = j - 1
      BY <1>0, <2>2
    <3> QED BY <1>0, <1>2, <2>2, <3>1, <3>2
  <2> QED BY <2>1, <2>2
<1>7. InsertAt(s, i, e) = c \o b
  BY DEF InsertAt, a, b, c
<1>8. Len(c \o b) = Len(s) + 1
  BY <1>0, <1>2, <1>4, <1>5
<1> QED BY <1>5, <1>6, <1>7, <1>8

(* An entry put in front is one inserted at the first position.             *)
LEMMA FrontIsInsert ==
    ASSUME NEW S, NEW s \in Seq(S), NEW e \in S
    PROVE  <<e>> \o s = InsertAt(s, 1, e)
<1>1. Len(s) \in Nat
  BY LenProperties
<1>2. SubSeq(s, 1, 1 - 1) = <<>>
  BY SubSeqEmpty
<1>3. SubSeq(s, 1, Len(s)) = s
  BY SubSeqFull
<1>4. <<e>> \in Seq(S)
  OBVIOUS
<1>5. <<>> \o <<e>> = <<e>>
  BY <1>4, ConcatEmptySeq
<1> QED BY <1>2, <1>3, <1>5 DEF InsertAt

(* Where removeIndex takes the name out.                                    *)
LEMMA RemoveIndexAt ==
    ASSUME NEW S, NEW s \in Seq(S), NEW x
    PROVE  \/ removeIndex(s, x) = s /\ x \notin ToSet(s)
           \/ \E i \in 1..Len(s) : s[i] = x /\ removeIndex(s, x) = RemoveAt(s, i)
<1> DEFINE I == {i \in 1..Len(s) : s[i] = x}
<1>0. Len(s) \in Nat /\ DOMAIN s = 1..Len(s)
  BY LenProperties
<1>1. CASE I = {}
  <2>1. \A i \in 1..Len(s) : s[i] # x
    BY <1>1
  <2> QED BY <1>0, <2>1 DEF removeIndex, RemoveFirst, ToSet
<1>2. CASE I # {}
  <2>1. I \in SUBSET Nat
    BY <1>0
  <2>2. \E y \in I : \A z \in I : y <= z
    <3> HIDE DEF I
    <3> QED BY <1>2, <2>1, Least
  <2>3. Min(I) \in I
    <3> HIDE DEF I
    <3> QED BY <2>2 DEF Min
  <2>4. SelectInSeq(s, LAMBDA v : v = x) = Min(I)
    BY <1>2 DEF SelectInSeq
  <2>5. removeIndex(s, x) = RemoveAt(s, Min(I))
    BY <1>2, <2>4 DEF removeIndex, RemoveFirst
  <2>6. Min(I) \in 1..Len(s) /\ s[Min(I)] = x
    BY <2>3
  <2> QED BY <2>5, <2>6
<1> QED BY <1>1, <1>2

(* removeIndex loses nothing but the name, and keeps the order.             *)
LEMMA RemoveIndexFacts ==
    ASSUME NEW S, NEW s \in Seq(S), NEW x
    PROVE  /\ removeIndex(s, x) \in Seq(S)
           /\ ToSet(removeIndex(s, x)) \subseteq ToSet(s)
           /\ ToSet(s) \subseteq ToSet(removeIndex(s, x)) \cup {x}
<1>0. Len(s) \in Nat /\ DOMAIN s = 1..Len(s)
  BY LenProperties
<1>1. CASE removeIndex(s, x) = s
  BY <1>1
<1>2. ASSUME NEW i \in 1..Len(s), s[i] = x, removeIndex(s, x) = RemoveAt(s, i)
      PROVE  /\ removeIndex(s, x) \in Seq(S)
             /\ ToSet(removeIndex(s, x)) \subseteq ToSet(s)
             /\ ToSet(s) \subseteq ToSet(removeIndex(s, x)) \cup {x}
  <2> DEFINE r == RemoveAt(s, i)
  <2>1. /\ r \in Seq(S) /\ Len(r) = Len(s) - 1
        /\ \A j \in 1..(Len(s) - 1) : r[j] = IF j < i THEN s[j] ELSE s[j + 1]
    BY RemoveAtFacts
  <2>2. DOMAIN r = 1..(Len(s) - 1)
    BY <2>1, LenProperties
  <2> HIDE DEF r
  <2>3. ASSUME NEW j \in DOMAIN r PROVE r[j] \in ToSet(s)
    <3>1. j \in 1..Len(s) /\ j + 1 \in 1..Len(s)
      BY <1>0, <2>2
    <3>2. r[j] = s[j] \/ r[j] = s[j + 1]
      BY <2>1, <2>2
    <3> QED BY <1>0, <3>1, <3>2 DEF ToSet
  <2>4. ASSUME NEW j \in DOMAIN s, s[j] # x PROVE s[j] \in ToSet(r)
    <3>1. CASE j < i
      <4>1. j \in 1..(Len(s) - 1) /\ r[j] = s[j]
        BY <1>0, <2>1, <3>1
      <4> QED BY <2>2, <4>1 DEF ToSet
    <3>2. CASE ~(j < i)
      <4>1. j > i
        BY <1>0, <1>2, <2>4, <3>2
      <4>2. j - 1 \in 1..(Len(s) - 1) /\ ~(j - 1 < i) /\ (j - 1) + 1 = j
        BY <1>0, <4>1
      <4>3. r[j - 1] = s[j]
        BY <2>1, <4>2
      <4> QED BY <2>2, <4>2, <4>3 DEF ToSet
    <3> QED BY <3>1, <3>2
  <2>5. ToSet(r) \subseteq ToSet(s)
    BY <2>3 DEF ToSet
  <2>6. ToSet(s) \subseteq ToSet(r) \cup {x}
    <3>1. \A y \in ToSet(s) : \E j \in DOMAIN s : y = s[j]
      BY DEF ToSet
    <3> QED BY <2>4, <3>1
  <2>7. removeIndex(s, x) = r
    BY <1>2 DEF r
  <2> QED BY <2>1, <2>5, <2>6, <2>7
<1> QED BY <1>1, <1>2, RemoveIndexAt

(* removeIndex keeps the order.                                             *)
LEMMA RemoveIndexOrder ==
    ASSUME NEW S, NEW s \in Seq(S), NEW x, NEW store, InOrder(s, store)
    PROVE  InOrder(removeIndex(s, x), store)
<1>0. Len(s) \in Nat /\ DOMAIN s = 1..Len(s)
  BY LenProperties
<1>1. ASSUME NEW i \in 1..Len(s), removeIndex(s, x) = RemoveAt(s, i)
      PROVE  InOrder(removeIndex(s, x), store)
  <2> DEFINE r == RemoveAt(s, i)
             To(j) == IF j < i THEN j ELSE j + 1
  <2>1. /\ Len(r) = Len(s) - 1
        /\ \A j \in 1..(Len(s) - 1) : r[j] = IF j < i THEN s[j] ELSE s[j + 1]
    BY RemoveAtFacts
  <2> HIDE DEF r
  <2>2. \A j \in 1..Len(r) : To(j) \in 1..Len(s) /\ r[j] = s[To(j)]
    BY <1>0, <2>1
  <2>3. \A j, k \in 1..Len(r) : j < k => To(j) < To(k)
    BY <1>0, <2>1
  <2> HIDE DEF To
  <2>4. InOrder(r, store)
    <3> SUFFICES ASSUME NEW j \in 1..Len(r), NEW k \in 1..Len(r), j < k,
                        Alive(store, r[j]), Alive(store, r[k])
                 PROVE  r[j] # r[k] /\ store[r[j]].born <= store[r[k]].born
      BY DEF InOrder
    <3>1. To(j) \in 1..Len(s) /\ To(k) \in 1..Len(s) /\ r[j] = s[To(j)] /\ r[k] = s[To(k)]
      BY <2>2
    <3>2. To(j) < To(k)
      BY <2>3
    <3> QED BY <3>1, <3>2 DEF InOrder
  <2> QED BY <1>1, <2>4 DEF r
<1> QED BY <1>1, RemoveIndexAt

(* What an insertion keeps of the list.                                     *)
LEMMA InsertAtSet ==
    ASSUME NEW S, NEW s \in Seq(S), NEW i \in 1..(Len(s) + 1), NEW e \in S
    PROVE  ToSet(InsertAt(s, i, e)) = ToSet(s) \cup {e}
<1> DEFINE r == InsertAt(s, i, e)
<1>0. Len(s) \in Nat /\ DOMAIN s = 1..Len(s)
  BY LenProperties
<1>1. /\ r \in Seq(S) /\ Len(r) = Len(s) + 1
      /\ \A j \in 1..(Len(s) + 1) : r[j] = IF j < i THEN s[j] ELSE IF j = i THEN e ELSE s[j - 1]
  <2>1. r \in Seq(S)
    BY InsertAtFacts
  <2>2. Len(r) = Len(s) + 1
    BY InsertAtFacts
  <2>3. \A j \in 1..(Len(s) + 1) : r[j] = IF j < i THEN s[j] ELSE IF j = i THEN e ELSE s[j - 1]
    BY InsertAtFacts
  <2> HIDE DEF r
  <2> QED BY <2>1, <2>2, <2>3
<1>2. DOMAIN r = 1..(Len(s) + 1)
  BY <1>1, LenProperties
<1> HIDE DEF r
<1>3. ASSUME NEW j \in DOMAIN r PROVE r[j] \in ToSet(s) \cup {e}
  <2>1. CASE j < i
    <3>1. j \in 1..Len(s) /\ r[j] = s[j]
      BY <1>0, <1>1, <1>2, <2>1
    <3> QED BY <1>0, <3>1 DEF ToSet
  <2>2. CASE j = i
    BY <1>1, <1>2, <2>2
  <2>3. CASE j > i
    <3>1. j - 1 \in 1..Len(s) /\ r[j] = s[j - 1]
      BY <1>0, <1>1, <1>2, <2>3
    <3> QED BY <1>0, <3>1 DEF ToSet
  <2> QED BY <1>0, <1>2, <2>1, <2>2, <2>3
<1>4. ASSUME NEW j \in DOMAIN s PROVE s[j] \in ToSet(r)
  <2>1. CASE j < i
    <3>1. j \in DOMAIN r /\ r[j] = s[j]
      BY <1>0, <1>1, <1>2, <2>1
    <3> QED BY <3>1 DEF ToSet
  <2>2. CASE ~(j < i)
    <3>1. j + 1 \in DOMAIN r /\ ~(j + 1 < i) /\ j + 1 # i /\ (j + 1) - 1 = j
      BY <1>0, <1>2, <2>2
    <3>2. r[j + 1] = s[j]
      BY <1>1, <1>2, <3>1
    <3> QED BY <3>1, <3>2 DEF ToSet
  <2> QED BY <2>1, <2>2
<1>5. e \in ToSet(r)
  <2>1. i \in DOMAIN r /\ r[i] = e
    BY <1>0, <1>1, <1>2
  <2> QED BY <2>1 DEF ToSet
<1>6. \A y \in ToSet(r) : \E j \in DOMAIN r : y = r[j]
  BY DEF ToSet
<1>7. \A y \in ToSet(s) : \E j \in DOMAIN s : y = s[j]
  BY DEF ToSet
<1>8. ToSet(r) = ToSet(s) \cup {e}
  BY <1>3, <1>4, <1>5, <1>6, <1>7
<1> QED BY <1>8 DEF r

(* What is left of the names when one entry is taken out.                   *)
LEMMA RemoveAtSet ==
    ASSUME NEW S, NEW s \in Seq(S), NEW i \in 1..Len(s)
    PROVE  /\ ToSet(RemoveAt(s, i)) \subseteq ToSet(s)
           /\ ToSet(s) \subseteq ToSet(RemoveAt(s, i)) \cup {s[i]}
<1> DEFINE r == RemoveAt(s, i)
<1>0. Len(s) \in Nat /\ DOMAIN s = 1..Len(s)
  BY LenProperties
<1>1. /\ r \in Seq(S) /\ Len(r) = Len(s) - 1
      /\ \A j \in 1..(Len(s) - 1) : r[j] = IF j < i THEN s[j] ELSE s[j + 1]
  BY RemoveAtFacts
<1>2. DOMAIN r = 1..(Len(s) - 1)
  BY <1>1, LenProperties
<1> HIDE DEF r
<1>3. ASSUME NEW j \in DOMAIN r PROVE r[j] \in ToSet(s)
  <2>1. j \in 1..Len(s) /\ j + 1 \in 1..Len(s)
    BY <1>0, <1>2
  <2>2. r[j] = s[j] \/ r[j] = s[j + 1]
    BY <1>1, <1>2
  <2> QED BY <1>0, <2>1, <2>2 DEF ToSet
<1>4. ASSUME NEW j \in DOMAIN s, j # i PROVE s[j] \in ToSet(r)
  <2>1. CASE j < i
    <3>1. j \in 1..(Len(s) - 1) /\ r[j] = s[j]
      BY <1>0, <1>1, <2>1
    <3> QED BY <1>2, <3>1 DEF ToSet
  <2>2. CASE ~(j < i)
    <3>1. j - 1 \in 1..(Len(s) - 1) /\ ~(j - 1 < i) /\ (j - 1) + 1 = j
      BY <1>0, <1>4, <2>2
    <3>2. r[j - 1] = s[j]
      BY <1>1, <3>1
    <3> QED BY <1>2, <3>1, <3>2 DEF ToSet
  <2> QED BY <2>1, <2>2
<1>5. \A y \in ToSet(r) : \E j \in DOMAIN r : y = r[j]
  BY DEF ToSet
<1>6. \A y \in ToSet(s) : \E j \in DOMAIN s : y = s[j]
  BY DEF ToSet
<1>7. ToSet(r) \subseteq ToSet(s) /\ ToSet(s) \subseteq ToSet(r) \cup {s[i]}
  BY <1>3, <1>4, <1>5, <1>6
<1> QED BY <1>7 DEF r

(* The four outcomes of addIndex.                                           *)
LEMMA AddIndexCases ==
    ASSUME NEW S, NEW s \in Seq(S), NEW store, NEW n, NEW obj
    PROVE  \/ /\ addIndex(s, store, n, obj) = <<n>> \o s
              /\ \A i \in 1..Len(s) : ~StopsAt(s, store, obj, i)
           \/ \E i \in 1..Len(s) :
                /\ StopsAt(s, store, obj, i)
                /\ \A j \in 1..Len(s) : j > i => ~StopsAt(s, store, obj, j)
                /\ \/ ~Alive(store, s[i]) /\ addIndex(s, store, n, obj) = <<n>> \o RemoveAt(s, i)
                   \/ Alive(store, s[i]) /\ store[s[i]].uid = obj.uid /\ addIndex(s, store, n, obj) = s
                   \/ /\ Alive(store, s[i]) /\ store[s[i]].uid # obj.uid
                      /\ addIndex(s, store, n, obj) = InsertAt(s, i + 1, n)
<1> DEFINE stops == {i \in 1..Len(s) : StopsAt(s, store, obj, i)}
           at    == CHOOSE i \in stops : \A j \in stops : j <= i
<1>0. Len(s) \in Nat
  BY LenProperties
<1>1. addIndex(s, store, n, obj) =
        IF stops = {} THEN <<n>> \o s
        ELSE IF ~Alive(store, s[at]) THEN <<n>> \o RemoveAt(s, at)
        ELSE IF store[s[at]].uid = obj.uid THEN s
        ELSE InsertAt(s, at + 1, n)
  BY DEF addIndex
<1>2. CASE stops = {}
  <2>1. \A i \in 1..Len(s) : ~StopsAt(s, store, obj, i)
    BY <1>2
  <2> HIDE DEF stops, at
  <2> QED BY <1>1, <1>2, <2>1
<1>3. CASE stops # {}
  <2>1. stops \in SUBSET (1..Len(s))
    OBVIOUS
  <2>2. \E x \in stops : \A y \in stops : y <= x
    <3> HIDE DEF stops
    <3> QED BY <1>0, <1>3, <2>1, HasLast
  <2>3. at \in stops /\ \A j \in stops : j <= at
    <3> HIDE DEF stops
    <3> QED BY <2>2
  <2>4. at \in 1..Len(s) /\ StopsAt(s, store, obj, at)
    <3> HIDE DEF at
    <3> QED BY <2>3
  <2>5. ASSUME NEW j \in 1..Len(s), j > at PROVE ~StopsAt(s, store, obj, j)
    <3>1. j \notin stops
      <4> HIDE DEF at, stops
      <4> QED BY <1>0, <2>3, <2>4, <2>5
    <3> QED BY <3>1
  <2> HIDE DEF stops, at
  <2> QED BY <1>1, <1>3, <2>4, <2>5
<1> QED BY <1>2, <1>3

(* addIndex loses no name that is in the store, and has the name that was   *)
(* to be added, unless another one stands for the object.                   *)
LEMMA AddIndexFacts ==
    ASSUME NEW S, NEW s \in Seq(S), NEW store, NEW n \in S, NEW obj
    PROVE  LET r == addIndex(s, store, n, obj) IN
           /\ r \in Seq(S)
           /\ ToSet(r) \subseteq ToSet(s) \cup {n}
           /\ \A m \in ToSet(s) : Alive(store, m) => m \in ToSet(r)
           /\ n \in ToSet(r) \/ \E m \in ToSet(s) : Alive(store, m) /\ store[m].uid = obj.uid
<1> DEFINE r == addIndex(s, store, n, obj)
           Goal == /\ r \in Seq(S)
                   /\ ToSet(r) \subseteq ToSet(s) \cup {n}
                   /\ \A m \in ToSet(s) : Alive(store, m) => m \in ToSet(r)
                   /\ n \in ToSet(r) \/ \E m \in ToSet(s) : Alive(store, m) /\ store[m].uid = obj.uid
<1>0. Len(s) \in Nat /\ DOMAIN s = 1..Len(s)
  BY LenProperties
<1>1. ASSUME NEW t \in Seq(S) PROVE <<n>> \o t \in Seq(S) /\ ToSet(<<n>> \o t) = ToSet(t) \cup {n}
  <2>1. Len(t) \in Nat
    BY LenProperties
  <2>2. 1 \in 1..(Len(t) + 1)
    BY <2>1
  <2>3. InsertAt(t, 1, n) \in Seq(S)
    BY <2>2, InsertAtFacts
  <2>4. ToSet(InsertAt(t, 1, n)) = ToSet(t) \cup {n}
    BY <2>2, InsertAtSet
  <2>5. <<n>> \o t = InsertAt(t, 1, n)
    BY FrontIsInsert
  <2> QED BY <2>3, <2>4, <2>5
<1>2. ASSUME r = <<n>> \o s PROVE Goal
  <2> HIDE DEF r
  <2> QED BY <1>1, <1>2
<1>3. ASSUME NEW i \in 1..Len(s), ~Alive(store, s[i]), r = <<n>> \o RemoveAt(s, i)
      PROVE  Goal
  <2>1. RemoveAt(s, i) \in Seq(S)
    BY RemoveAtFacts
  <2>2. /\ ToSet(RemoveAt(s, i)) \subseteq ToSet(s)
        /\ ToSet(s) \subseteq ToSet(RemoveAt(s, i)) \cup {s[i]}
    BY RemoveAtSet
  <2> HIDE DEF r
  <2> QED BY <1>1, <1>3, <2>1, <2>2
<1>4. ASSUME NEW i \in 1..Len(s), Alive(store, s[i]), store[s[i]].uid = obj.uid, r = s
      PROVE  Goal
  <2>1. s[i] \in ToSet(s)
    BY <1>0 DEF ToSet
  <2> HIDE DEF r
  <2> QED BY <1>4, <2>1
<1>5. ASSUME NEW i \in 1..Len(s), r = InsertAt(s, i + 1, n)
      PROVE  Goal
  <2>1. i + 1 \in 1..(Len(s) + 1)
    BY <1>0
  <2>2. InsertAt(s, i + 1, n) \in Seq(S)
    BY <2>1, InsertAtFacts
  <2>3. ToSet(InsertAt(s, i + 1, n)) = ToSet(s) \cup {n}
    BY <2>1, InsertAtSet
  <2> HIDE DEF r
  <2> QED BY <1>5, <2>2, <2>3
<1> HIDE DEF r
<1>6. Goal
  BY <1>2, <1>3, <1>4, <1>5, AddIndexCases DEF r
<1> QED BY <1>6 DEF r

(* addIndex keeps the order, when every entry is in the store and obj is    *)
(* what the store has under the name.                                       *)
LEMMA AddIndexOrder ==
    ASSUME NEW S, NEW s \in Seq(S), NEW store, NEW n \in S, NEW obj, InOrder(s, store),
           \A m \in ToSet(s) : Alive(store, m), \A m \in S : store[m].born \in Int,
           store[n].uid = obj.uid, store[n].born = obj.born
    PROVE  InOrder(addIndex(s, store, n, obj), store)
<1> DEFINE r == addIndex(s, store, n, obj)
<1>0. Len(s) \in Nat /\ DOMAIN s = 1..Len(s) /\ \A i \in 1..Len(s) : s[i] \in S
  BY LenProperties, ElementOfSeq
<1>1. \A i \in 1..Len(s) : Alive(store, s[i])
  BY <1>0 DEF ToSet
<1>2. ASSUME NEW i \in 1..(Len(s) + 1), r = InsertAt(s, i, n),
             \A j \in 1..Len(s) : j < i => s[j] # n /\ store[s[j]].born <= store[n].born,
             \A j \in 1..Len(s) : j >= i => s[j] # n /\ store[s[j]].born >= store[n].born
      PROVE  InOrder(r, store)
  <2>0. /\ Len(InsertAt(s, i, n)) = Len(s) + 1
        /\ \A j \in 1..(Len(s) + 1) :
              InsertAt(s, i, n)[j] = IF j < i THEN s[j] ELSE IF j = i THEN n ELSE s[j - 1]
    <3>1. \A e \in S, k \in 1..(Len(s) + 1) :
             /\ Len(InsertAt(s, k, e)) = Len(s) + 1
             /\ \A j \in 1..(Len(s) + 1) :
                   InsertAt(s, k, e)[j] = IF j < k THEN s[j] ELSE IF j = k THEN e ELSE s[j - 1]
      BY ONLY InsertAtFacts, s \in Seq(S), SMT
    <3> QED BY <3>1
  <2>00. r = InsertAt(s, i, n)
    BY <1>2
  <2> HIDE DEF r
  <2>1. /\ Len(r) = Len(s) + 1
        /\ \A j \in 1..(Len(s) + 1) : r[j] = IF j < i THEN s[j] ELSE IF j = i THEN n ELSE s[j - 1]
    BY <2>0, <2>00, Zenon
  <2> SUFFICES ASSUME NEW j \in 1..Len(r), NEW k \in 1..Len(r), j < k
               PROVE  r[j] # r[k] /\ store[r[j]].born <= store[r[k]].born
    BY DEF InOrder
  <2>2. CASE k < i
    <3>1. j \in 1..Len(s) /\ k \in 1..Len(s) /\ r[j] = s[j] /\ r[k] = s[k]
      BY <1>0, <2>1, <2>2
    <3> QED BY <1>1, <3>1 DEF InOrder
  <2>3. CASE k = i
    <3>1. j \in 1..Len(s) /\ r[j] = s[j] /\ r[k] = n
      BY <1>0, <2>1, <2>3
    <3> QED BY <1>2, <2>3, <3>1
  <2>4. CASE k > i /\ j < i
    <3>1. j \in 1..Len(s) /\ k - 1 \in 1..Len(s) /\ j < k - 1 /\ r[j] = s[j] /\ r[k] = s[k - 1]
      BY <1>0, <2>1, <2>4
    <3> QED BY <1>1, <3>1 DEF InOrder
  <2>5. CASE k > i /\ j = i
    <3>1. k - 1 \in 1..Len(s) /\ k - 1 >= i /\ r[j] = n /\ r[k] = s[k - 1]
      BY <1>0, <2>1, <2>5
    <3>2. s[k - 1] # n /\ store[s[k - 1]].born >= store[n].born
      BY <1>2, <3>1
    <3>3. store[n].born \in Int /\ store[s[k - 1]].born \in Int
      BY <1>0, <3>1
    <3> QED BY <3>1, <3>2, <3>3
  <2>6. CASE k > i /\ j > i
    <3>1. j - 1 \in 1..Len(s) /\ k - 1 \in 1..Len(s) /\ j - 1 < k - 1
      BY <1>0, <2>1, <2>6
    <3>2. r[j] = s[j - 1]
      BY <1>0, <2>1, <2>6
    <3>3. r[k] = s[k - 1]
      BY <1>0, <2>1, <2>6
    <3> QED BY <1>1, <3>1, <3>2, <3>3 DEF InOrder
  <2> QED BY <1>0, <2>1, <2>2, <2>3, <2>4, <2>5, <2>6
<1>3. ASSUME NEW j \in 1..Len(s), ~StopsAt(s, store, obj, j)
      PROVE  s[j] # n /\ store[s[j]].born >= store[n].born
  BY <1>0, <1>3 DEF StopsAt
<1>4. ASSUME r = <<n>> \o s, \A i \in 1..Len(s) : ~StopsAt(s, store, obj, i)
      PROVE  InOrder(r, store)
  <2>1. r = InsertAt(s, 1, n) /\ 1 \in 1..(Len(s) + 1)
    BY <1>0, <1>4, FrontIsInsert
  <2> HIDE DEF r
  <2>2. \A j \in 1..Len(s) : ~(j < 1)
    BY <1>0
  <2> QED BY <1>2, <1>3, <1>4, <2>1, <2>2
<1>5. ASSUME NEW i \in 1..Len(s), StopsAt(s, store, obj, i),
             \A j \in 1..Len(s) : j > i => ~StopsAt(s, store, obj, j),
             store[s[i]].uid # obj.uid, r = InsertAt(s, i + 1, n)
      PROVE  InOrder(r, store)
  <2>1. store[s[i]].born < store[n].born
    BY <1>1, <1>5 DEF StopsAt
  <2>2. ASSUME NEW j \in 1..Len(s), j < i + 1
        PROVE  s[j] # n /\ store[s[j]].born <= store[n].born
    <3>1. store[s[j]].born \in Int /\ store[s[i]].born \in Int /\ store[n].born \in Int
      BY <1>0
    <3>2. CASE j = i
      BY <2>1, <3>1, <3>2
    <3>3. CASE j # i
      <4>1. j < i
        BY <1>0, <2>2, <3>3
      <4>2. store[s[j]].born <= store[s[i]].born
        BY <1>1, <4>1 DEF InOrder
      <4> QED BY <2>1, <3>1, <4>2
    <3> QED BY <3>2, <3>3
  <2>3. ASSUME NEW j \in 1..Len(s), j >= i + 1
        PROVE  s[j] # n /\ store[s[j]].born >= store[n].born
    <3>1. j > i
      BY <1>0, <2>3
    <3> QED BY <1>3, <1>5, <3>1
  <2>4. i + 1 \in 1..(Len(s) + 1)
    BY <1>0
  <2> HIDE DEF r
  <2> QED BY <1>2, <1>5, <2>2, <2>3, <2>4
<1>6. ASSUME r = s PROVE InOrder(r, store)
  BY <1>6
<1>7. InOrder(r, store)
  <2> HIDE DEF r
  <2> QED BY <1>1, <1>4, <1>5, <1>6, AddIndexCases DEF r
<1> QED BY <1>7 DEF r

-----------------------------------------------------------------------------
(* Events *)

(* An event is added: one of A makes sure, one not of L changes nothing.    *)
LEMMA SureAppend ==
    ASSUME NEW S, NEW es \in Seq(S), NEW e \in S, NEW A, NEW L
    PROVE  /\ e \in A => Sure(Append(es, e), A, L)
           /\ e \notin L => (Sure(es, A, L) => Sure(Append(es, e), A, L))
           /\ e \notin L => (Free(es, L) => Free(Append(es, e), L))
<1> DEFINE fs == Append(es, e)
<1>1. /\ DOMAIN es = 1..Len(es) /\ Len(es) \in Nat /\ DOMAIN fs = 1..(Len(es) + 1)
      /\ fs[Len(es) + 1] = e /\ \A i \in 1..Len(es) : fs[i] = es[i]
  BY AppendProperties, LenProperties
<1> HIDE DEF fs
<1>2. ASSUME e \in A PROVE Sure(fs, A, L)
  <2>1. Len(es) + 1 \in DOMAIN fs /\ \A j \in DOMAIN fs : ~(j > Len(es) + 1)
    BY <1>1
  <2> QED BY <1>1, <1>2, <2>1 DEF Sure
<1>3. ASSUME e \notin L, Free(es, L) PROVE Free(fs, L)
  <2> SUFFICES ASSUME NEW i \in DOMAIN fs PROVE fs[i] \notin L
    BY DEF Free
  <2>1. CASE i = Len(es) + 1
    BY <1>1, <1>3, <2>1
  <2>2. CASE i \in 1..Len(es)
    BY <1>1, <1>3, <2>2 DEF Free
  <2> QED BY <1>1, <2>1, <2>2
<1>4. ASSUME e \notin L, Sure(es, A, L) PROVE Sure(fs, A, L)
  <2>1. PICK i \in DOMAIN es : es[i] \in A /\ \A j \in DOMAIN es : j > i => es[j] \notin L
    BY <1>4 DEF Sure
  <2>2. ASSUME NEW j \in DOMAIN fs, j > i PROVE fs[j] \notin L
    <3>1. CASE j = Len(es) + 1
      BY <1>1, <1>4, <3>1
    <3>2. CASE j \in 1..Len(es)
      BY <1>1, <2>1, <2>2, <3>2
    <3> QED BY <1>1, <3>1, <3>2
  <2>3. i \in DOMAIN fs /\ fs[i] \in A
    BY <1>1, <2>1
  <2> QED BY <2>2, <2>3 DEF Sure
<1>5. QED BY <1>2, <1>3, <1>4 DEF fs

(* The first event is handled.                                              *)
LEMMA SureTail ==
    ASSUME NEW S, NEW es \in Seq(S), es # <<>>, NEW A, NEW L
    PROVE  /\ Sure(es, A, L) => Sure(Tail(es), A, L) \/ (Head(es) \in A /\ Free(Tail(es), L))
           /\ Free(es, L) => Free(Tail(es), L) /\ Head(es) \notin L
<1> DEFINE fs == Tail(es)
<1>1. /\ DOMAIN es = 1..Len(es) /\ Len(es) \in Nat \ {0} /\ DOMAIN fs = 1..(Len(es) - 1)
      /\ Head(es) = es[1] /\ \A i \in 1..(Len(es) - 1) : fs[i] = es[i + 1]
  BY HeadTailProperties, LenProperties, EmptySeq
<1> HIDE DEF fs
<1>2. ASSUME Free(es, L) PROVE Free(fs, L) /\ Head(es) \notin L
  <2>1. ASSUME NEW i \in DOMAIN fs PROVE fs[i] \notin L
    <3>1. i + 1 \in DOMAIN es /\ fs[i] = es[i + 1]
      BY <1>1
    <3> QED BY <1>2, <3>1 DEF Free
  <2>2. 1 \in DOMAIN es
    BY <1>1
  <2> QED BY <1>1, <1>2, <2>1, <2>2 DEF Free
<1>3. ASSUME Sure(es, A, L) PROVE Sure(fs, A, L) \/ (Head(es) \in A /\ Free(fs, L))
  <2>1. PICK i \in DOMAIN es : es[i] \in A /\ \A j \in DOMAIN es : j > i => es[j] \notin L
    BY <1>3 DEF Sure
  <2>2. ASSUME NEW j \in DOMAIN fs, j + 1 > i PROVE fs[j] \notin L
    <3>1. j + 1 \in DOMAIN es /\ fs[j] = es[j + 1]
      BY <1>1
    <3> QED BY <2>1, <2>2, <3>1
  <2>3. CASE i = 1
    <3>1. \A j \in DOMAIN fs : j + 1 > i
      BY <1>1, <2>3
    <3>2. Free(fs, L)
      BY <2>2, <3>1 DEF Free
    <3> QED BY <1>1, <2>1, <2>3, <3>2
  <2>4. CASE i # 1
    <3>1. i - 1 \in DOMAIN fs /\ fs[i - 1] = es[i]
      <4>1. i - 1 \in 1..(Len(es) - 1) /\ (i - 1) + 1 = i
        BY <1>1, <2>4
      <4> QED BY <1>1, <4>1
    <3>2. ASSUME NEW j \in DOMAIN fs, j > i - 1 PROVE fs[j] \notin L
      <4>1. j + 1 > i
        BY <1>1, <3>2
      <4> QED BY <2>2, <4>1
    <3>3. Sure(fs, A, L)
      BY <2>1, <3>1, <3>2 DEF Sure
    <3> QED BY <3>3
  <2> QED BY <2>3, <2>4
<1>4. QED BY <1>2, <1>3 DEF fs

(* Without an event nothing is sure and everything is free.                 *)
LEMMA SureEmpty == \A A, L : ~Sure(<<>>, A, L) /\ Free(<<>>, L)
BY DEF Sure, Free

-----------------------------------------------------------------------------
(* Names *)

LEMMA NameFacts ==
    /\ \A n \in AllNames : Controller(n) \in Controllers /\ IndexOf(n) \in Kinds
    /\ \A n \in Apps : Controller(n) = "pod" /\ IndexOf(n) = "app" /\ n \notin SysPods \cup PVs \cup PVCs
    /\ \A n \in SysPods : Controller(n) = "pod" /\ IndexOf(n) = "sys" /\ n \notin Apps \cup PVs \cup PVCs
    /\ \A n \in PVs : Controller(n) = "pv" /\ IndexOf(n) = "pv" /\ n \notin Pods \cup PVCs /\ n \notin Apps \cup Csis
    /\ \A n \in PVCs : Controller(n) = "pvc" /\ IndexOf(n) = "pvc" /\ n \notin Pods \cup PVs /\ n \notin Apps \cup Csis
    /\ Csis \subseteq SysPods /\ Apps \subseteq Pods /\ SysPods \subseteq Pods /\ Pods \subseteq AllNames
    /\ \A n \in AllNames : n # "none" /\ n # "other"
    /\ \A n \in AllNames : Controller(n) = "pod" => n \in Pods
    /\ \A n \in AllNames : Controller(n) = "pv" => n \in PVs
    /\ \A n \in AllNames : Controller(n) = "pvc" => n \in PVCs
    /\ \A n \in Pods : Controller(n) = "pod" /\ n \notin PVs \cup PVCs /\ (n \in Apps \/ n \in SysPods)
BY DashboardAssumption DEF Controller, IndexOf, Controllers, Kinds, AllNames, Pods, SysPods

-----------------------------------------------------------------------------
(* Types *)

(* An event is added.                                                       *)
LEMMA EventType ==
    ASSUME TypeInv, NEW n \in AllNames, NEW type \in {"changed", "unbound", "delete"},
           type = "unbound" => n \in PVCs, Event(type, n)
    PROVE  events' \in [Controllers -> Seq(EventSet)] /\ EventsPlaced'
<1> DEFINE e == [type |-> type, name |-> n, label |-> type = "delete" /\ cache[n].label]
           K == Controller(n)
<1>1. events \in [Controllers -> Seq(EventSet)] /\ K \in Controllers
  BY NameFacts DEF TypeInv, TypeOK, EventSet
<1>2. e \in EventSet
  BY DEF EventSet, TypeInv, TypeOK, Objects, NoObj
<1>3. events' = [events EXCEPT ![K] = Append(@, e)]
  BY DEF Event
<1> HIDE DEF e
<1>4. Append(events[K], e) \in Seq(EventSet)
  BY <1>1, <1>2, AppendProperties
<1>5. events' \in [Controllers -> Seq(EventSet)]
  BY <1>1, <1>3, <1>4
<1>6. EventsPlaced'
  <2> SUFFICES ASSUME NEW k \in Controllers, NEW i \in DOMAIN events'[k]
               PROVE  Controller(events'[k][i].name) = k /\ (events'[k][i].type = "unbound" => k = "pvc")
    BY DEF EventsPlaced, Controller
  <2>1. CASE k # K
    BY <1>1, <1>3, <2>1 DEF TypeInv, Placed, EventsPlaced
  <2>2. CASE k = K
    <3>1. /\ DOMAIN events[K] = 1..Len(events[K]) /\ Len(events[K]) \in Nat
          /\ events'[K] = Append(events[K], e)
          /\ DOMAIN events'[K] = 1..(Len(events[K]) + 1)
          /\ events'[K][Len(events[K]) + 1] = e /\ \A j \in 1..Len(events[K]) : events'[K][j] = events[K][j]
      BY <1>1, <1>2, <1>3, AppendProperties, LenProperties
    <3>2. CASE i = Len(events[K]) + 1
      BY <2>2, <3>1, <3>2, NameFacts DEF e
    <3>3. CASE i \in 1..Len(events[K])
      BY <1>1, <2>2, <3>1, <3>3 DEF TypeInv, Placed, EventsPlaced
    <3> QED BY <2>2, <3>1, <3>2, <3>3
  <2> QED BY <2>1, <2>2
<1> QED BY <1>5, <1>6

(* The object of a name is a later state of the one that was there, has     *)
(* gone, or has a uid that none had.                                        *)
CacheStep(n, o) ==
    /\ cache' = [cache EXCEPT ![n] = o]
    /\ o \in Objects \cup {NoObj} /\ o.ref \in RefsOf(n) /\ (n \in PVCs /\ o.label => o.ref # "none")
    /\ left' \in [objects: 0..MaxObjects] /\ left'.objects <= left.objects
    /\ \/ Alive(cache, n) /\ o.uid = cache[n].uid /\ Since(cache[n], o)
       \/ o = NoObj
       \/ o.uid = MaxObjects + 1 - left.objects /\ left'.objects = left.objects - 1

LEMMA CacheType ==
    ASSUME TypeInv, NEW n \in names, NEW o, CacheStep(n, o), UNCHANGED <<names, worker>>
    PROVE  /\ cache' \in [AllNames -> Objects \cup {NoObj}]
           /\ CachePlaced' /\ CacheUid' /\ WorkerUid'
<1>1. n \in AllNames
  BY DEF TypeInv, TypeOK, AllNames
<1>2. /\ cache' = [cache EXCEPT ![n] = o] /\ cache \in [AllNames -> Objects \cup {NoObj}]
      /\ o \in Objects \cup {NoObj}
  BY DEF TypeInv, TypeOK, CacheStep
<1>3. cache' \in [AllNames -> Objects \cup {NoObj}]
  BY <1>1, <1>2
<1>4. cache'[n] = o /\ \A m \in AllNames : m # n => cache'[m] = cache[m]
  BY <1>1, <1>2
<1>5. CachePlaced'
  <2>1. ASSUME NEW m \in AllNames
        PROVE  /\ cache'[m].ref \in RefsOf(m) /\ (cache'[m].uid # 0 => m \in names)
               /\ cache'[m].label => m \notin PVCs \/ cache'[m].ref # "none"
    <3>1. CASE m = n
      BY <1>4, <3>1 DEF CacheStep
    <3>2. CASE m # n
      BY <1>4, <3>2 DEF TypeInv, Placed, CachePlaced, Alive
    <3> QED BY <3>1, <3>2
  <2> QED BY <2>1, NameFacts DEF CachePlaced, RefsOf, AllNames, Alive
<1>6. /\ left.objects \in Nat /\ left'.objects \in Nat /\ MaxObjects \in Nat
      /\ left'.objects <= left.objects /\ left.objects <= MaxObjects
  BY DashboardAssumption DEF CacheStep, TypeInv, TypeOK
<1>7. \A m \in AllNames : cache[m].uid \in Nat /\ cache'[m].uid \in Nat
  BY <1>2, <1>3, DashboardAssumption DEF Objects, NoObj
<1>8. /\ o.uid <= MaxObjects - left'.objects
      /\ \/ o.uid = cache[n].uid /\ Since(cache[n], o)
         \/ o.uid = 0
         \/ \A m \in AllNames : cache[m].uid < o.uid
  <2>1. \A m \in AllNames : cache[m].uid <= MaxObjects - left.objects
    BY DEF TypeInv, CacheUid
  <2>2. CASE o.uid = cache[n].uid /\ Since(cache[n], o)
    BY <1>1, <1>6, <1>7, <2>1, <2>2
  <2>3. CASE o = NoObj
    BY <1>6, <2>3 DEF NoObj
  <2>4. CASE o.uid = MaxObjects + 1 - left.objects /\ left'.objects = left.objects - 1
    BY <1>6, <1>7, <2>1, <2>4
  <2> QED BY <2>2, <2>3, <2>4 DEF CacheStep
<1>9. CacheUid'
  <2>1. ASSUME NEW m \in AllNames PROVE cache'[m].uid <= MaxObjects - left'.objects
    <3>1. CASE m = n
      BY <1>4, <1>8, <3>1
    <3>2. CASE m # n
      BY <1>4, <1>6, <1>7, <3>2 DEF TypeInv, CacheUid
    <3> QED BY <3>1, <3>2
  <2>2. ASSUME NEW m \in AllNames, NEW l \in AllNames, cache'[m].uid # 0, cache'[m].uid = cache'[l].uid
        PROVE  m = l
    <3>1. \A i, j \in AllNames : cache[i].uid # 0 /\ cache[i].uid = cache[j].uid => i = j
      BY DEF TypeInv, CacheUid, Alive
    <3>2. CASE m # n /\ l # n
      BY <1>4, <2>2, <3>1, <3>2
    <3>3. CASE m = n /\ l # n
      BY <1>1, <1>4, <1>7, <1>8, <2>2, <3>1, <3>3
    <3>4. CASE m # n /\ l = n
      BY <1>1, <1>4, <1>7, <1>8, <2>2, <3>1, <3>4
    <3> QED BY <3>2, <3>3, <3>4
  <2> QED BY <2>1, <2>2 DEF CacheUid, Alive
<1>10. WorkerUid'
  <2> SUFFICES ASSUME NEW k \in Controllers, worker[k].pc # "idle"
               PROVE  /\ worker[k].obj.uid <= MaxObjects - left'.objects
                      /\ \A m \in AllNames : cache'[m].uid = worker[k].obj.uid =>
                             m = worker[k].name /\ Since(worker[k].obj, cache'[m])
    BY DEF WorkerUid, Since
  <2>1. worker[k].obj \in Objects
    BY DEF TypeInv, TypeOK, Idle
  <2>2. worker[k].obj.uid \in Nat /\ worker[k].obj.uid # 0
    BY <2>1, DashboardAssumption DEF Objects
  <2>3. /\ worker[k].obj.uid <= MaxObjects - left.objects
        /\ \A m \in AllNames : cache[m].uid = worker[k].obj.uid =>
                             m = worker[k].name /\ Since(worker[k].obj, cache[m])
    BY DEF TypeInv, WorkerUid
  <2>4. ASSUME NEW m \in AllNames, cache'[m].uid = worker[k].obj.uid
        PROVE  m = worker[k].name /\ Since(worker[k].obj, cache'[m])
    <3>1. CASE m # n
      BY <1>4, <2>3, <2>4, <3>1
    <3>2. CASE m = n /\ o.uid = cache[n].uid /\ Since(cache[n], o)
      <4>1. m = worker[k].name /\ Since(worker[k].obj, cache[m])
        BY <1>1, <1>4, <2>3, <2>4, <3>2
      <4> QED BY <1>4, <3>2, <4>1 DEF Since
    <3>3. CASE m = n /\ o.uid = MaxObjects + 1 - left.objects
      BY <1>4, <1>6, <2>2, <2>3, <2>4, <3>3
    <3>4. CASE m = n /\ o = NoObj
      BY <1>4, <2>2, <2>4, <3>4 DEF NoObj
    <3> QED BY <3>1, <3>2, <3>3, <3>4 DEF CacheStep
  <2> QED BY <1>6, <2>2, <2>3, <2>4
<1> QED BY <1>3, <1>5, <1>9, <1>10

(* The actions that change the cache do it in such a step.                  *)
LEMMA CreatedStep ==
    ASSUME TypeInv, NEW n \in names, Created(n)
    PROVE  \E o \in Objects : CacheStep(n, o) /\ o.uid # 0 /\ ~o.label /\ ~o.deleting
<1>1. PICK ref \in (IF n \in PVs THEN PVCs \cup {"none"} ELSE {"none"}), born \in 1..MaxTime :
         cache' = [cache EXCEPT ![n] = [uid |-> MaxObjects + 1 - left.objects, born |-> born,
                                        label |-> FALSE, deleting |-> FALSE, ref |-> ref]]
  BY DEF Created
<1>2. ref \in PVCs \cup PVs \cup {"none"} /\ ref \in RefsOf(n)
  BY <1>1 DEF RefsOf
<1>3. /\ left \in [objects: 0..MaxObjects] /\ left.objects > 0
      /\ left' = [left EXCEPT !.objects = @ - 1] /\ MaxObjects \in Nat
  BY DashboardAssumption DEF Created, TypeInv, TypeOK
<1>4. left.objects - 1 \in 0..MaxObjects /\ MaxObjects + 1 - left.objects \in 1..MaxObjects
      /\ left.objects - 1 <= left.objects
  BY <1>3
<1>5. left' \in [objects: 0..MaxObjects] /\ left'.objects = left.objects - 1
  BY <1>3, <1>4
<1> DEFINE o == [uid |-> MaxObjects + 1 - left.objects, born |-> born, label |-> FALSE, deleting |-> FALSE,
                 ref |-> ref]
<1>6. /\ o \in Objects /\ o.uid = MaxObjects + 1 - left.objects /\ o.uid # 0
      /\ ~o.label /\ ~o.deleting /\ o.ref \in RefsOf(n)
  BY <1>1, <1>2, <1>4 DEF Objects
<1> HIDE DEF o
<1>7. CacheStep(n, o)
  BY <1>1, <1>4, <1>5, <1>6 DEF CacheStep, o
<1> QED BY <1>6, <1>7

LEMMA UpdatedStep ==
    ASSUME TypeInv, NEW n \in names, Updated(n)
    PROVE  \E o \in Objects : CacheStep(n, o) /\ o.uid = cache[n].uid /\ Since(cache[n], o)
                              /\ o.ref = cache[n].ref
<1>1. n \in AllNames /\ Alive(cache, n) /\ cache[n] \in Objects
  BY DEF Updated, TypeInv, TypeOK, AllNames, Alive, NoObj
<1>2. /\ cache[n].ref \in RefsOf(n) /\ (n \in PVCs /\ cache[n].label => cache[n].ref # "none")
      /\ left \in [objects: 0..MaxObjects]
      /\ left' = left /\ left.objects <= left.objects
  BY <1>1, DashboardAssumption DEF Updated, env, TypeInv, TypeOK, Placed, CachePlaced
<1>3. ASSUME NEW o \in Objects, o.uid = cache[n].uid, o.born = cache[n].born, o.ref = cache[n].ref,
             n \in PVCs => o.label = cache[n].label, cache[n].deleting => o.deleting,
             cache' = [cache EXCEPT ![n] = o]
      PROVE  CacheStep(n, o) /\ Since(cache[n], o)
  BY <1>1, <1>2, <1>3 DEF CacheStep, Since
<1>4. ASSUME n \in Pods, cache' = [cache EXCEPT ![n].label = TRUE]
      PROVE  \E o \in Objects : CacheStep(n, o) /\ o.uid = cache[n].uid /\ Since(cache[n], o)
                                /\ o.ref = cache[n].ref
  <2> DEFINE o == [cache[n] EXCEPT !.label = TRUE]
  <2>1. /\ o \in Objects /\ o.uid = cache[n].uid /\ o.born = cache[n].born /\ o.ref = cache[n].ref
        /\ o.deleting = cache[n].deleting
    BY <1>1 DEF Objects
  <2>2. cache' = [cache EXCEPT ![n] = o] /\ n \notin PVCs
    BY <1>4, NameFacts
  <2> HIDE DEF o
  <2> QED BY <1>3, <2>1, <2>2
<1>5. ASSUME cache' = [cache EXCEPT ![n].deleting = TRUE]
      PROVE  \E o \in Objects : CacheStep(n, o) /\ o.uid = cache[n].uid /\ Since(cache[n], o)
                                /\ o.ref = cache[n].ref
  <2> DEFINE o == [cache[n] EXCEPT !.deleting = TRUE]
  <2>1. /\ o \in Objects /\ o.uid = cache[n].uid /\ o.born = cache[n].born /\ o.ref = cache[n].ref
        /\ o.deleting /\ o.label = cache[n].label
    BY <1>1 DEF Objects
  <2>2. cache' = [cache EXCEPT ![n] = o]
    BY <1>5
  <2> HIDE DEF o
  <2> QED BY <1>3, <2>1, <2>2
<1> QED BY <1>4, <1>5 DEF Updated

LEMMA ClaimRefSetStep ==
    ASSUME TypeInv, NEW c \in PVCs \cap names, NEW v \in PVs, ClaimRefSet(v, c)
    PROVE  /\ v \in names /\ c \in AllNames /\ v \in AllNames
           /\ \E o \in Objects : /\ CacheStep(v, o) /\ o.uid = cache[v].uid /\ Since(cache[v], o)
                                 /\ o.label = cache[v].label /\ ~o.deleting /\ o.ref = c
<1>1. v \in AllNames /\ c \in AllNames /\ Alive(cache, v) /\ cache[v] \in Objects /\ cache[v].ref = "none"
      /\ ~cache[v].deleting
  BY DEF ClaimRefSet, TypeInv, TypeOK, AllNames, Alive, NoObj
<1>2. /\ v \in names /\ v \notin PVCs
      /\ left \in [objects: 0..MaxObjects]
      /\ left' = left /\ left.objects <= left.objects
  BY <1>1, DashboardAssumption DEF ClaimRefSet, env, TypeInv, TypeOK, Placed, CachePlaced
<1> DEFINE o == [cache[v] EXCEPT !.ref = c]
<1>3. /\ o \in Objects /\ o.uid = cache[v].uid /\ o.born = cache[v].born /\ o.ref = c
      /\ o.deleting = cache[v].deleting /\ o.label = cache[v].label
  BY <1>1 DEF Objects
<1>4. cache' = [cache EXCEPT ![v] = o] /\ c \in RefsOf(v)
  BY DEF ClaimRefSet, RefsOf
<1> HIDE DEF o
<1>5. Since(cache[v], o)
  BY <1>1, <1>3 DEF Since
<1>6. CacheStep(v, o)
  BY <1>1, <1>2, <1>3, <1>4, <1>5 DEF CacheStep
<1> QED BY <1>1, <1>2, <1>3, <1>5, <1>6

LEMMA ClaimBoundStep ==
    ASSUME TypeInv, NEW c \in PVCs \cap names, NEW v \in PVs \cup {"other"}, ClaimBound(c, v)
    PROVE  /\ c \in AllNames
           /\ \E o \in Objects : /\ CacheStep(c, o) /\ o.uid = cache[c].uid /\ Since(cache[c], o)
                                 /\ o.label /\ ~o.deleting /\ o.ref = v
<1>1. c \in AllNames /\ Alive(cache, c) /\ cache[c] \in Objects /\ cache[c].ref = "none"
      /\ ~cache[c].deleting /\ (v \in PVs => v \in AllNames)
  BY DEF ClaimBound, Pending, TypeInv, TypeOK, AllNames, Alive, NoObj
<1>2. /\ left \in [objects: 0..MaxObjects]
      /\ left' = left /\ left.objects <= left.objects
  BY <1>1, DashboardAssumption DEF ClaimBound, env, TypeInv, TypeOK
<1> DEFINE o == [cache[c] EXCEPT !.label = TRUE, !.ref = v]
<1>3. /\ o \in Objects /\ o.uid = cache[c].uid /\ o.born = cache[c].born /\ o.ref = v
      /\ o.deleting = cache[c].deleting /\ o.label
  BY <1>1 DEF Objects
<1>4. cache' = [cache EXCEPT ![c] = o] /\ v \in RefsOf(c) /\ v # "none"
  BY <1>1, NameFacts DEF ClaimBound, RefsOf
<1> HIDE DEF o
<1>5. Since(cache[c], o)
  BY <1>1, <1>3 DEF Since
<1>6. CacheStep(c, o)
  BY <1>1, <1>2, <1>3, <1>4, <1>5 DEF CacheStep
<1> QED BY <1>1, <1>2, <1>3, <1>5, <1>6

LEMMA ClaimLostStep ==
    ASSUME TypeInv, NEW c \in PVCs \cap names, ClaimLost(c)
    PROVE  /\ c \in AllNames /\ Alive(cache, c)
           /\ \E o \in Objects : /\ CacheStep(c, o) /\ o.uid = cache[c].uid /\ Since(cache[c], o)
                                 /\ ~o.label /\ o.ref = cache[c].ref
<1>1. c \in AllNames /\ Alive(cache, c) /\ cache[c] \in Objects
  BY DEF ClaimLost, TypeInv, TypeOK, AllNames, Alive, NoObj, Objects
<1>2. /\ left \in [objects: 0..MaxObjects]
      /\ left' = left /\ left.objects <= left.objects /\ cache[c].ref \in RefsOf(c)
  BY <1>1, DashboardAssumption DEF ClaimLost, env, TypeInv, TypeOK, Placed, CachePlaced
<1> DEFINE o == [cache[c] EXCEPT !.label = FALSE]
<1>3. /\ o \in Objects /\ o.uid = cache[c].uid /\ o.born = cache[c].born /\ o.ref = cache[c].ref
      /\ o.deleting = cache[c].deleting /\ ~o.label
  BY <1>1 DEF Objects
<1>4. cache' = [cache EXCEPT ![c] = o]
  BY DEF ClaimLost
<1> HIDE DEF o
<1>5. Since(cache[c], o)
  BY <1>1, <1>3 DEF Since
<1>6. CacheStep(c, o)
  BY <1>1, <1>2, <1>3, <1>4, <1>5 DEF CacheStep
<1> QED BY <1>1, <1>2, <1>3, <1>5, <1>6

LEMMA ClaimReboundStep ==
    ASSUME TypeInv, NEW c \in PVCs \cap names, ClaimRebound(c)
    PROVE  /\ c \in AllNames /\ Alive(cache, c)
           /\ \E o \in Objects : /\ CacheStep(c, o) /\ o.uid = cache[c].uid /\ Since(cache[c], o)
                                 /\ o.ref = cache[c].ref
<1>1. c \in AllNames /\ Alive(cache, c) /\ cache[c] \in Objects
  BY DashboardAssumption DEF ClaimRebound, TypeInv, TypeOK, AllNames, Alive, NoObj, Objects
<1>2. /\ left \in [objects: 0..MaxObjects] /\ cache[c].ref # "none"
      /\ left' = left /\ left.objects <= left.objects /\ cache[c].ref \in RefsOf(c)
  BY <1>1, DashboardAssumption DEF ClaimRebound, env, TypeInv, TypeOK, Placed, CachePlaced
<1> DEFINE o == [cache[c] EXCEPT !.label = TRUE]
<1>3. /\ o \in Objects /\ o.uid = cache[c].uid /\ o.born = cache[c].born /\ o.ref = cache[c].ref
      /\ o.deleting = cache[c].deleting
  BY <1>1 DEF Objects
<1>4. cache' = [cache EXCEPT ![c] = o]
  BY DEF ClaimRebound
<1> HIDE DEF o
<1>5. Since(cache[c], o)
  BY <1>1, <1>3 DEF Since
<1>6. CacheStep(c, o)
  BY <1>1, <1>2, <1>3, <1>4, <1>5 DEF CacheStep
<1> QED BY <1>1, <1>2, <1>3, <1>5, <1>6

LEMMA DeletedStep ==
    ASSUME TypeInv, NEW n \in names, Deleted(n)
    PROVE  n \in AllNames /\ CacheStep(n, NoObj)
<1>1. n \in AllNames
  BY DEF TypeInv, TypeOK, AllNames
<1>2. /\ left \in [objects: 0..MaxObjects]
      /\ left' = left /\ left.objects <= left.objects /\ NoObj.ref \in RefsOf(n)
  BY <1>1, DashboardAssumption DEF Deleted, env, TypeInv, TypeOK, NoObj, RefsOf
<1> QED BY <1>1, <1>2 DEF CacheStep, Deleted, NoObj

LEMMA CacheActionType ==
    ASSUME TypeInv, NEW n \in names, NEW o, CacheStep(n, o), UNCHANGED <<names, queue, worker, api>>,
           leftover' \in BOOLEAN /\ rebound' \in SUBSET PVCs, events' \in [Controllers -> Seq(EventSet)], EventsPlaced'
    PROVE  TypeInv'
<1>1. cache' \in [AllNames -> Objects \cup {NoObj}] /\ CachePlaced' /\ CacheUid' /\ WorkerUid'
  BY CacheType
<1>2. left' \in [objects: 0..MaxObjects]
  BY DEF CacheStep
<1>3. TypeOK'
  BY <1>1, <1>2 DEF TypeInv, TypeOK, api, EventSet
<1>4. QueuePlaced' /\ WorkerPlaced' /\ IndexPlaced'
  BY DEF TypeInv, Placed, QueuePlaced, WorkerPlaced, IndexPlaced, api, Controller, RefsOf, IndexOf
<1> QED BY <1>1, <1>3, <1>4 DEF TypeInv, Placed

LEMMA EventsKept ==
    ASSUME TypeInv, UNCHANGED events
    PROVE  events' \in [Controllers -> Seq(EventSet)] /\ EventsPlaced'
BY DEF TypeInv, TypeOK, EventSet, Placed, EventsPlaced, Controller

LEMMA CreatedType ==
    ASSUME TypeInv, NEW n \in names, Created(n)
    PROVE  TypeInv'
<1>1. PICK o : CacheStep(n, o)
  BY CreatedStep
<1>2. /\ n \in AllNames /\ Event("changed", n) /\ UNCHANGED <<names, queue, worker, api>>
      /\ leftover' \in BOOLEAN /\ rebound' \in SUBSET PVCs
  BY DEF Created, TypeInv, TypeOK, AllNames
<1>3. events' \in [Controllers -> Seq(EventSet)] /\ EventsPlaced'
  BY <1>2, EventType
<1> QED BY <1>1, <1>2, <1>3, CacheActionType

LEMMA UpdatedType ==
    ASSUME TypeInv, NEW n \in names, Updated(n)
    PROVE  TypeInv'
<1>1. PICK o : CacheStep(n, o)
  BY UpdatedStep
<1>2. /\ n \in AllNames /\ UNCHANGED <<names, queue, worker, api>> /\ leftover' \in BOOLEAN /\ rebound' \in SUBSET PVCs
      /\ Event("changed", n) \/ UNCHANGED events
  BY DEF Updated, env, TypeInv, TypeOK, AllNames
<1>3. events' \in [Controllers -> Seq(EventSet)] /\ EventsPlaced'
  BY <1>2, EventType, EventsKept
<1> QED BY <1>1, <1>2, <1>3, CacheActionType

LEMMA DeletedType ==
    ASSUME TypeInv, NEW n \in names, Deleted(n)
    PROVE  TypeInv'
<1>1. n \in AllNames /\ CacheStep(n, NoObj)
  BY DeletedStep
<1>2. Event("delete", n) /\ UNCHANGED <<names, queue, worker, api>> /\ leftover' \in BOOLEAN /\ rebound' \in SUBSET PVCs
  BY DEF Deleted, env, TypeInv, TypeOK
<1>3. events' \in [Controllers -> Seq(EventSet)] /\ EventsPlaced'
  BY <1>1, <1>2, EventType
<1> QED BY <1>1, <1>2, <1>3, CacheActionType

LEMMA ClaimRefSetType ==
    ASSUME TypeInv, NEW c \in PVCs \cap names, NEW v \in PVs, ClaimRefSet(v, c)
    PROVE  TypeInv'
<1>1. v \in names /\ \E o : CacheStep(v, o)
  BY ClaimRefSetStep
<1>2. UNCHANGED <<names, queue, worker, api, events>> /\ leftover' \in BOOLEAN /\ rebound' \in SUBSET PVCs
  BY DEF ClaimRefSet, env, TypeInv, TypeOK
<1>3. events' \in [Controllers -> Seq(EventSet)] /\ EventsPlaced'
  BY <1>2, EventsKept
<1> QED BY <1>1, <1>2, <1>3, CacheActionType

LEMMA ClaimBoundType ==
    ASSUME TypeInv, NEW c \in PVCs \cap names, NEW v \in PVs \cup {"other"}, ClaimBound(c, v)
    PROVE  TypeInv'
<1>1. c \in AllNames /\ \E o : CacheStep(c, o)
  BY ClaimBoundStep
<1>2. Event("changed", c) /\ UNCHANGED <<names, queue, worker, api>> /\ leftover' \in BOOLEAN /\ rebound' \in SUBSET PVCs
  BY DEF ClaimBound, env, TypeInv, TypeOK
<1>3. events' \in [Controllers -> Seq(EventSet)] /\ EventsPlaced'
  BY <1>1, <1>2, EventType
<1> QED BY <1>1, <1>2, <1>3, CacheActionType

LEMMA ClaimLostType ==
    ASSUME TypeInv, NEW c \in PVCs \cap names, ClaimLost(c)
    PROVE  TypeInv'
<1>1. c \in AllNames /\ \E o : CacheStep(c, o)
  BY ClaimLostStep
<1>2. Event("unbound", c) /\ UNCHANGED <<names, queue, worker, api>> /\ leftover' \in BOOLEAN /\ rebound' \in SUBSET PVCs
  BY DEF ClaimLost, env, TypeInv, TypeOK
<1>3. events' \in [Controllers -> Seq(EventSet)] /\ EventsPlaced'
  BY <1>1, <1>2, EventType
<1> QED BY <1>1, <1>2, <1>3, CacheActionType

LEMMA ClaimReboundType ==
    ASSUME TypeInv, NEW c \in PVCs \cap names, ClaimRebound(c)
    PROVE  TypeInv'
<1>1. c \in AllNames /\ \E o : CacheStep(c, o)
  BY ClaimReboundStep
<1>2. UNCHANGED <<names, queue, worker, api, events>> /\ leftover' \in BOOLEAN /\ rebound' \in SUBSET PVCs
  BY DEF ClaimRebound, env, TypeInv, TypeOK
<1>3. events' \in [Controllers -> Seq(EventSet)] /\ EventsPlaced'
  BY <1>2, EventsKept
<1> QED BY <1>1, <1>2, <1>3, CacheActionType

(* What happens to an index in one step.                                    *)
Kept(k)      == indexes'[k] = indexes[k]
Loses(k, x)  == indexes'[k] = removeIndex(indexes[k], x)
Gains(k, n, obj) == IndexOf(n) = k /\ indexes'[k] = addIndex(indexes[k], cache, n, obj)

LEMMA IndexType ==
    ASSUME TypeInv, indexes' = [k \in Kinds |-> indexes'[k]],
           \A k \in Kinds : Kept(k) \/ (\E x : Loses(k, x)) \/ (\E n \in AllNames : \E obj : Gains(k, n, obj))
    PROVE  indexes' \in [Kinds -> Seq(AllNames)] /\ IndexPlaced'
<1>1. ASSUME NEW k \in Kinds
      PROVE  indexes'[k] \in Seq(AllNames) /\ \A m \in ToSet(indexes'[k]) : IndexOf(m) = k
  <2>1. indexes[k] \in Seq(AllNames) /\ \A m \in ToSet(indexes[k]) : IndexOf(m) = k
    BY DEF TypeInv, TypeOK, Placed, IndexPlaced, Kinds
  <2>2. CASE Kept(k)
    BY <2>1, <2>2 DEF Kept
  <2>3. ASSUME NEW x, Loses(k, x) PROVE indexes'[k] \in Seq(AllNames) /\ \A m \in ToSet(indexes'[k]) : IndexOf(m) = k
    <3>1. removeIndex(indexes[k], x) \in Seq(AllNames) /\ ToSet(removeIndex(indexes[k], x)) \subseteq ToSet(indexes[k])
      BY <2>1, RemoveIndexFacts
    <3> QED BY <2>1, <2>3, <3>1 DEF Loses
  <2>4. ASSUME NEW n \in AllNames, NEW obj, Gains(k, n, obj)
        PROVE  indexes'[k] \in Seq(AllNames) /\ \A m \in ToSet(indexes'[k]) : IndexOf(m) = k
    <3> DEFINE r == addIndex(indexes[k], cache, n, obj)
    <3>1. r \in Seq(AllNames) /\ ToSet(r) \subseteq ToSet(indexes[k]) \cup {n}
      BY <2>1, AddIndexFacts
    <3>2. indexes'[k] = r /\ IndexOf(n) = k
      BY <2>4 DEF Gains
    <3> HIDE DEF r
    <3> QED BY <2>1, <3>1, <3>2
  <2> QED BY <2>2, <2>3, <2>4
<1> HIDE DEF Kinds
<1>2. indexes' \in [Kinds -> Seq(AllNames)]
  BY <1>1
<1>3. IndexPlaced'
  BY <1>1 DEF IndexPlaced, IndexOf
<1> QED BY <1>2, <1>3

(* The event of a name is handled by its controller, in one of four ways.   *)
LEMMA HandleEventCases ==
    ASSUME TypeInv, NEW k \in Controllers, HandleEvent(k)
    PROVE  LET e == Head(events[k]) IN
           /\ events[k] # <<>> /\ e \in EventSet /\ Controller(e.name) = k
           /\ UNCHANGED <<names, left, cache, worker, leftover, rebound>>
           /\ \/ e \in Announcing(e.name) /\ Changed(e.name)
              \/ e.type = "unbound" /\ e.name \in PVCs /\ Unbound(e.name)
              \/ e.type = "delete" /\ e.name \in Pods /\ PodDeleteFunc(e.name, e.label)
              \/ e.type = "delete" /\ e.name \in PVCs /\ PVCDeleteFunc(e.name)
<1> DEFINE e == Head(events[k])
<1>1. events[k] \in Seq(EventSet) /\ events[k] # <<>>
  BY DEF TypeInv, TypeOK, EventSet, HandleEvent
<1>2. e = events[k][1] /\ 1 \in DOMAIN events[k]
  BY <1>1, HeadTailProperties, LenProperties, EmptySeq
<1>3. e \in EventSet /\ Controller(e.name) = k /\ (e.type = "unbound" => k = "pvc")
  <2>1. e \in EventSet
    BY <1>1, <1>2
  <2>2. Controller(events[k][1].name) = k /\ (events[k][1].type = "unbound" => k = "pvc")
    BY <1>2 DEF TypeInv, Placed, EventsPlaced
  <2> QED BY <1>2, <2>1, <2>2
<1>4. CASE e.type = "changed"
  <2>1. Changed(e.name)
    BY <1>4 DEF HandleEvent
  <2> HIDE DEF e
  <2>2. e \in Announcing(e.name)
    BY <1>3, <1>4 DEF Announcing
  <2> QED BY <1>1, <1>3, <2>1, <2>2 DEF e, HandleEvent, env
<1>5. CASE e.type = "unbound"
  <2>1. Unbound(e.name)
    BY <1>5 DEF HandleEvent
  <2> HIDE DEF e
  <2>2. e.name \in PVCs
    BY <1>3, <1>5, NameFacts DEF EventSet
  <2> QED BY <1>1, <1>3, <1>5, <2>1, <2>2 DEF e, HandleEvent, env
<1>6. CASE e.type = "delete" /\ k = "pod"
  <2>1. PodDeleteFunc(e.name, e.label)
    BY <1>6 DEF HandleEvent
  <2> HIDE DEF e
  <2>2. e.name \in Pods
    BY <1>3, <1>6, NameFacts DEF EventSet
  <2> QED BY <1>1, <1>3, <1>6, <2>1, <2>2 DEF e, HandleEvent, env
<1>7. CASE e.type = "delete" /\ k = "pvc"
  <2>1. PVCDeleteFunc(e.name)
    BY <1>7 DEF HandleEvent
  <2> HIDE DEF e
  <2>2. e.name \in PVCs
    BY <1>3, <1>7, NameFacts DEF EventSet
  <2> QED BY <1>1, <1>3, <1>7, <2>1, <2>2 DEF e, HandleEvent, env
<1>8. CASE e.type = "delete" /\ k = "pv"
  <2>1. Changed(e.name)
    BY <1>8 DEF HandleEvent
  <2> HIDE DEF e
  <2>2. e \in Announcing(e.name)
    BY <1>3, <1>8, NameFacts DEF Announcing, EventSet
  <2> QED BY <1>1, <1>3, <2>1, <2>2 DEF e, HandleEvent, env
<1> HIDE DEF e
<1> QED BY <1>3, <1>4, <1>5, <1>6, <1>7, <1>8 DEF EventSet, Controllers

(* The rest of the events.                                                  *)
LEMMA TailType ==
    ASSUME TypeInv, NEW k \in Controllers, events[k] # <<>>, events' = [events EXCEPT ![k] = Tail(@)]
    PROVE  events' \in [Controllers -> Seq(EventSet)] /\ EventsPlaced'
<1>1. events \in [Controllers -> Seq(EventSet)]
  BY DEF TypeInv, TypeOK, EventSet
<1>2. /\ Tail(events[k]) \in Seq(EventSet)
      /\ DOMAIN events[k] = 1..Len(events[k]) /\ Len(events[k]) \in Nat \ {0}
      /\ DOMAIN Tail(events[k]) = 1..(Len(events[k]) - 1)
      /\ \A i \in 1..(Len(events[k]) - 1) : Tail(events[k])[i] = events[k][i + 1]
  BY <1>1, HeadTailProperties, LenProperties, EmptySeq
<1>3. events' \in [Controllers -> Seq(EventSet)]
  BY <1>1, <1>2
<1>4. EventsPlaced'
  <2> SUFFICES ASSUME NEW l \in Controllers, NEW i \in DOMAIN events'[l]
               PROVE  Controller(events'[l][i].name) = l /\ (events'[l][i].type = "unbound" => l = "pvc")
    BY DEF EventsPlaced, Controller
  <2>1. CASE l # k
    BY <1>1, <2>1 DEF TypeInv, Placed, EventsPlaced
  <2>2. CASE l = k
    <3>1. events'[k] = Tail(events[k])
      BY <1>1
    <3>2. i \in 1..(Len(events[k]) - 1)
      BY <1>2, <2>2, <3>1
    <3> DEFINE N == Len(events[k])
    <3>3. N \in Nat \ {0} /\ i \in 1..(N - 1)
      BY <1>2, <3>2
    <3> HIDE DEF N
    <3>4. i + 1 \in 1..N
      BY <3>3
    <3>5. i + 1 \in DOMAIN events[k] /\ events'[l][i] = events[k][i + 1]
      BY <1>2, <2>2, <3>1, <3>2, <3>4, Zenon DEF N
    <3> QED BY <2>2, <3>5 DEF TypeInv, Placed, EventsPlaced
  <2> QED BY <2>1, <2>2
<1> QED BY <1>3, <1>4

(* A name goes into the queue of its controller.                            *)
LEMMA EnqueueType ==
    ASSUME TypeInv, NEW n \in AllNames, Enqueue(n)
    PROVE  queue' \in [Controllers -> SUBSET AllNames] /\ QueuePlaced'
<1>1. queue \in [Controllers -> SUBSET AllNames] /\ Controller(n) \in Controllers
  BY NameFacts DEF TypeInv, TypeOK
<1>2. queue' = [queue EXCEPT ![Controller(n)] = @ \cup {n}]
  BY DEF Enqueue
<1>3. queue' \in [Controllers -> SUBSET AllNames]
  BY <1>1, <1>2
<1>4. ASSUME NEW k \in Controllers, NEW m \in queue'[k] PROVE Controller(m) = k
  BY <1>1, <1>2, <1>4 DEF TypeInv, Placed, QueuePlaced
<1> QED BY <1>3, <1>4 DEF QueuePlaced, Controller

(* What a step that leaves the cache and the workers alone keeps.           *)
LEMMA HandlerType ==
    ASSUME TypeInv, UNCHANGED <<names, left, cache, worker, leftover, rebound>>,
           events' \in [Controllers -> Seq(EventSet)], EventsPlaced',
           queue' \in [Controllers -> SUBSET AllNames], QueuePlaced',
           indexes' \in [Kinds -> Seq(AllNames)], IndexPlaced',
           csiNodeIndex' \in Csis \cup {"none"}, pairs' \in [PVCs -> PVs \cup {"none"}]
    PROVE  TypeInv'
<1>1. TypeOK'
  <2>1. /\ names' \in {Apps, SysPods, PVs \cup PVCs} /\ cache' \in [AllNames -> Objects \cup {NoObj}]
        /\ worker' \in [Controllers -> [pc: {"tables", "index"}, name: AllNames, obj: Objects] \cup {Idle}]
        /\ leftover' \in BOOLEAN /\ rebound' \in SUBSET PVCs /\ left' \in [objects: 0..MaxObjects]
    BY DEF TypeInv, TypeOK
  <2> QED BY ONLY <2>1, events' \in [Controllers -> Seq(EventSet)], queue' \in [Controllers -> SUBSET AllNames],
          indexes' \in [Kinds -> Seq(AllNames)], csiNodeIndex' \in Csis \cup {"none"},
          pairs' \in [PVCs -> PVs \cup {"none"}] DEF TypeOK, EventSet, Kinds
<1>2. CachePlaced' /\ WorkerPlaced'
  BY DEF TypeInv, Placed, CachePlaced, WorkerPlaced, Controller, RefsOf, Alive
<1>3. CacheUid' /\ WorkerUid'
  BY DEF TypeInv, CacheUid, WorkerUid, Alive, Since
<1> QED BY <1>1, <1>2, <1>3 DEF TypeInv, Placed

LEMMA TablesKept ==
    ASSUME TypeInv
    PROVE  /\ UNCHANGED queue => queue' \in [Controllers -> SUBSET AllNames] /\ QueuePlaced'
           /\ UNCHANGED indexes => indexes' \in [Kinds -> Seq(AllNames)] /\ IndexPlaced'
           /\ UNCHANGED csiNodeIndex => csiNodeIndex' \in Csis \cup {"none"}
           /\ UNCHANGED pairs => pairs' \in [PVCs -> PVs \cup {"none"}]
BY DEF TypeInv, TypeOK, Placed, QueuePlaced, IndexPlaced, Kinds, Controller, IndexOf

LEMMA HandleEventType ==
    ASSUME TypeInv, NEW k \in Controllers, HandleEvent(k)
    PROVE  TypeInv'
<1> DEFINE e == Head(events[k])
<1>1. /\ events[k] # <<>> /\ e.name \in AllNames /\ UNCHANGED <<names, left, cache, worker, leftover, rebound>>
      /\ \/ e \in Announcing(e.name) /\ Changed(e.name)
         \/ e.type = "unbound" /\ e.name \in PVCs /\ Unbound(e.name)
         \/ e.type = "delete" /\ e.name \in Pods /\ PodDeleteFunc(e.name, e.label)
         \/ e.type = "delete" /\ e.name \in PVCs /\ PVCDeleteFunc(e.name)
  BY HandleEventCases DEF EventSet
<1>2. events' \in [Controllers -> Seq(EventSet)] /\ EventsPlaced'
  BY <1>1, TailType DEF HandleEvent
<1> HIDE DEF e
<1>3. indexes \in [Kinds -> Seq(AllNames)] /\ pairs \in [PVCs -> PVs \cup {"none"}]
  BY DEF TypeInv, TypeOK, Kinds
<1>4. CASE Changed(e.name)
  BY <1>1, <1>2, <1>4, HandlerType, TablesKept, EnqueueType DEF Changed, api
<1>5. CASE e.name \in PVCs /\ Unbound(e.name)
  <2>1. pairs' \in [PVCs -> PVs \cup {"none"}]
    BY <1>3, <1>5 DEF Unbound
  <2> QED BY <1>1, <1>2, <1>5, <2>1, HandlerType, TablesKept DEF Unbound
<1>6. CASE e.name \in Pods /\ PodDeleteFunc(e.name, e.label)
  <2>1. csiNodeIndex' \in Csis \cup {"none"} /\ UNCHANGED pairs
    BY <1>6 DEF PodDeleteFunc, TypeInv, TypeOK
  <2>2. queue' \in [Controllers -> SUBSET AllNames] /\ QueuePlaced'
    <3>1. Enqueue(e.name) \/ UNCHANGED queue
      BY <1>6 DEF PodDeleteFunc
    <3> QED BY <1>1, <3>1, EnqueueType, TablesKept
  <2>3. indexes' \in [Kinds -> Seq(AllNames)] /\ IndexPlaced'
    <3>1. CASE UNCHANGED indexes
      BY <3>1, TablesKept
    <3>2. CASE indexes' = [indexes EXCEPT ![IndexOf(e.name)] = removeIndex(@, e.name)]
      <4>1. indexes' = [l \in Kinds |-> indexes'[l]]
        BY <1>3, <3>2
      <4>2. \A l \in Kinds : Kept(l) \/ Loses(l, e.name)
        BY <1>3, <3>2 DEF Kept, Loses
      <4> QED BY <4>1, <4>2, IndexType
    <3> QED BY <1>6, <3>1, <3>2 DEF PodDeleteFunc
  <2> QED BY <1>1, <1>2, <2>1, <2>2, <2>3, HandlerType, TablesKept
<1>7. CASE e.name \in PVCs /\ PVCDeleteFunc(e.name)
  <2>1. pairs' \in [PVCs -> PVs \cup {"none"}]
    BY <1>3, <1>7 DEF PVCDeleteFunc
  <2>2. indexes' = [indexes EXCEPT !.pvc = removeIndex(@, e.name)]
    BY <1>7 DEF PVCDeleteFunc
  <2>3. indexes' \in [Kinds -> Seq(AllNames)] /\ IndexPlaced'
    <3>1. indexes' = [l \in Kinds |-> indexes'[l]]
      BY <1>3, <2>2 DEF Kinds
    <3>2. \A l \in Kinds : Kept(l) \/ Loses(l, e.name)
      BY <1>3, <2>2 DEF Kept, Loses, Kinds
    <3> QED BY <3>1, <3>2, IndexType
  <2> QED BY <1>1, <1>2, <1>7, <2>1, <2>3, HandlerType, TablesKept DEF PVCDeleteFunc
<1> QED BY <1>1, <1>4, <1>5, <1>6, <1>7

-----------------------------------------------------------------------------
WorkerSet   == [pc: {"tables", "index"}, name: AllNames, obj: Objects] \cup {Idle}
WorkerTyped == worker \in [Controllers -> WorkerSet] /\ WorkerPlaced /\ WorkerUid

(* A worker that is not idle has a name of its controller and an object.    *)
LEMMA WorkerFacts ==
    ASSUME TypeInv, NEW k \in Controllers, worker[k].pc # "idle"
    PROVE  /\ worker[k] \in [pc: {"tables", "index"}, name: AllNames, obj: Objects]
           /\ worker[k].name \in AllNames /\ worker[k].obj \in Objects
           /\ Controller(worker[k].name) = k /\ worker[k].obj.ref \in RefsOf(worker[k].name)
           /\ worker[k].obj.uid \in Nat /\ worker[k].obj.uid # 0
<1>1. worker[k] \in [pc: {"tables", "index"}, name: AllNames, obj: Objects]
  BY DEF TypeInv, TypeOK, Idle
<1>2. worker[k].name \in AllNames /\ worker[k].obj \in Objects
  BY <1>1
<1>3. worker[k].obj.uid \in Nat /\ worker[k].obj.uid # 0
  BY <1>2, DashboardAssumption DEF Objects
<1>4. Controller(worker[k].name) = k /\ worker[k].obj.ref \in RefsOf(worker[k].name)
  BY DEF TypeInv, Placed, WorkerPlaced
<1> QED BY <1>1, <1>2, <1>3, <1>4

LEMMA WorkerKept ==
    ASSUME TypeInv, UNCHANGED <<cache, left, worker>>
    PROVE  WorkerTyped'
<1>1. worker' \in [Controllers -> WorkerSet]
  BY DEF TypeInv, TypeOK, WorkerSet
<1>2. WorkerPlaced'
  BY DEF TypeInv, Placed, WorkerPlaced, Controller, RefsOf
<1>3. WorkerUid'
  BY DEF TypeInv, WorkerUid, Since
<1> QED BY <1>1, <1>2, <1>3 DEF WorkerTyped, WorkerSet

LEMMA DoneType ==
    ASSUME TypeInv, NEW k \in Controllers, Done(k), UNCHANGED <<cache, left>>
    PROVE  WorkerTyped'
<1>1. worker \in [Controllers -> WorkerSet] /\ Idle \in WorkerSet /\ Idle.pc = "idle"
  BY DEF TypeInv, TypeOK, WorkerSet, Idle
<1>2. worker' = [worker EXCEPT ![k] = Idle] /\ cache' = cache /\ left' = left
  BY DEF Done
<1>3. worker' \in [Controllers -> WorkerSet]
  BY <1>1, <1>2
<1>4. \A l \in Controllers : worker'[l].pc # "idle" => worker'[l] = worker[l]
  BY <1>1, <1>2
<1>5. WorkerPlaced'
  <2>1. "pv" \in Controllers
    BY DEF Controllers
  <2> QED BY <1>4, <2>1 DEF TypeInv, Placed, WorkerPlaced, Controller, RefsOf
<1>6. WorkerUid'
  BY <1>2, <1>4 DEF TypeInv, WorkerUid, Since
<1> QED BY <1>3, <1>5, <1>6 DEF WorkerTyped, WorkerSet

LEMMA ContinueType ==
    ASSUME TypeInv, NEW k \in Controllers, Continue(k, "index"), worker[k].pc # "idle",
           k = "pv" => worker[k].obj.ref # "none", UNCHANGED <<cache, left>>
    PROVE  WorkerTyped'
<1>1. worker \in [Controllers -> WorkerSet]
  BY DEF TypeInv, TypeOK, WorkerSet
<1>2. worker' = [worker EXCEPT ![k] = [worker[k] EXCEPT !.pc = "index"]] /\ cache' = cache /\ left' = left
  BY DEF Continue
<1>3. /\ worker[k] \in [pc: {"tables", "index"}, name: AllNames, obj: Objects]
      /\ Controller(worker[k].name) = k /\ worker[k].obj.ref \in RefsOf(worker[k].name)
  BY WorkerFacts
<1> DEFINE w == [worker[k] EXCEPT !.pc = "index"]
<1>4. w \in [pc: {"tables", "index"}, name: AllNames, obj: Objects] /\ w.name = worker[k].name
      /\ w.obj = worker[k].obj
  BY <1>3
<1>5. worker' = [worker EXCEPT ![k] = w]
  BY <1>2
<1> HIDE DEF w
<1>6. worker' \in [Controllers -> WorkerSet]
  BY <1>1, <1>4, <1>5 DEF WorkerSet
<1>7. \A l \in Controllers : worker'[l] = IF l = k THEN w ELSE worker[l]
  BY <1>1, <1>5
<1>8. WorkerPlaced'
  <2>1. "pv" \in Controllers
    BY DEF Controllers
  <2>2. ASSUME NEW l \in Controllers, worker'[l].pc # "idle"
        PROVE  Controller(worker'[l].name) = l /\ worker'[l].obj.ref \in RefsOf(worker'[l].name)
    BY <1>3, <1>4, <1>7, <2>2 DEF TypeInv, Placed, WorkerPlaced
  <2>3. ASSUME worker'["pv"].pc = "index" PROVE worker'["pv"].obj.ref # "none"
    BY <1>4, <1>7, <2>1, <2>3 DEF TypeInv, Placed, WorkerPlaced
  <2> QED BY <2>2, <2>3 DEF WorkerPlaced, Controller, RefsOf
<1>9. WorkerUid'
  <2>1. ASSUME NEW l \in Controllers, worker'[l].pc # "idle"
        PROVE  worker[l].pc # "idle" /\ worker'[l].name = worker[l].name /\ worker'[l].obj = worker[l].obj
    BY <1>4, <1>7, <2>1
  <2> QED BY <1>2, <2>1 DEF TypeInv, WorkerUid, Since
<1> QED BY <1>6, <1>8, <1>9 DEF WorkerTyped, WorkerSet

LEMMA GetType ==
    ASSUME TypeInv, NEW n \in AllNames, Alive(cache, n), UNCHANGED <<cache, left>>,
           worker' = [worker EXCEPT ![Controller(n)] = [pc |-> "tables", name |-> n, obj |-> cache[n]]]
    PROVE  WorkerTyped'
<1> DEFINE k == Controller(n)
           w == [pc |-> "tables", name |-> n, obj |-> cache[n]]
<1>1. worker \in [Controllers -> WorkerSet] /\ k \in Controllers /\ cache[n] \in Objects
  BY NameFacts DEF TypeInv, TypeOK, WorkerSet, Alive, NoObj
<1>2. /\ w \in [pc: {"tables", "index"}, name: AllNames, obj: Objects]
      /\ w.pc = "tables" /\ w.name = n /\ w.obj = cache[n] /\ cache[n].ref \in RefsOf(n)
  BY <1>1 DEF TypeInv, Placed, CachePlaced
<1> HIDE DEF w, k
<1>3. worker' = [worker EXCEPT ![k] = w] /\ cache' = cache /\ left' = left
  BY DEF w, k
<1>4. worker' \in [Controllers -> WorkerSet]
  BY <1>1, <1>2, <1>3 DEF WorkerSet
<1>5. \A l \in Controllers : worker'[l] = IF l = k THEN w ELSE worker[l]
  BY <1>1, <1>3
<1>6. WorkerPlaced'
  <2>1. "pv" \in Controllers
    BY DEF Controllers
  <2>2. ASSUME NEW l \in Controllers, worker'[l].pc # "idle"
        PROVE  Controller(worker'[l].name) = l /\ worker'[l].obj.ref \in RefsOf(worker'[l].name)
    <3>1. CASE l = k
      BY <1>2, <1>5, <3>1 DEF k
    <3>2. CASE l # k
      BY <1>5, <2>2, <3>2 DEF TypeInv, Placed, WorkerPlaced
    <3> QED BY <3>1, <3>2
  <2>3. ASSUME worker'["pv"].pc = "index" PROVE worker'["pv"].obj.ref # "none"
    BY <1>2, <1>5, <2>1, <2>3 DEF TypeInv, Placed, WorkerPlaced
  <2> QED BY <2>2, <2>3 DEF WorkerPlaced, Controller, RefsOf
<1>7. WorkerUid'
  <2> SUFFICES ASSUME NEW l \in Controllers, worker'[l].pc # "idle"
               PROVE  /\ worker'[l].obj.uid <= MaxObjects - left.objects
                      /\ \A m \in AllNames : cache[m].uid = worker'[l].obj.uid =>
                             m = worker'[l].name /\ Since(worker'[l].obj, cache[m])
    BY <1>3 DEF WorkerUid, Since
  <2>1. CASE l = k
    <3>1. cache[n].uid <= MaxObjects - left.objects /\ \A m \in AllNames : cache[m].uid = cache[n].uid => m = n
      BY DEF TypeInv, CacheUid, Alive
    <3> QED BY <1>2, <1>5, <2>1, <3>1 DEF Since
  <2>2. CASE l # k
    BY <1>5, <2>2 DEF TypeInv, WorkerUid
  <2> QED BY <2>1, <2>2
<1> QED BY <1>4, <1>6, <1>7 DEF WorkerTyped, WorkerSet

(* What a step of a worker keeps.                                           *)
LEMMA ReconcileType ==
    ASSUME TypeInv, UNCHANGED <<names, left, cache, events, rebound>>, WorkerTyped', leftover' \in BOOLEAN,
           queue' \in [Controllers -> SUBSET AllNames], QueuePlaced',
           indexes' \in [Kinds -> Seq(AllNames)], IndexPlaced',
           csiNodeIndex' \in Csis \cup {"none"}, pairs' \in [PVCs -> PVs \cup {"none"}]
    PROVE  TypeInv'
<1>1. TypeOK'
  <2>1. /\ names' \in {Apps, SysPods, PVs \cup PVCs} /\ cache' \in [AllNames -> Objects \cup {NoObj}]
        /\ left' \in [objects: 0..MaxObjects]
        /\ events' \in [Controllers -> Seq(EventSet)]
        /\ rebound' \in SUBSET PVCs
    BY DEF TypeInv, TypeOK, EventSet
  <2>2. worker' \in [Controllers -> WorkerSet]
    BY DEF WorkerTyped, WorkerSet
  <2> QED BY ONLY <2>1, <2>2, queue' \in [Controllers -> SUBSET AllNames], leftover' \in BOOLEAN,
          indexes' \in [Kinds -> Seq(AllNames)], csiNodeIndex' \in Csis \cup {"none"},
          pairs' \in [PVCs -> PVs \cup {"none"}] DEF TypeOK, EventSet, Kinds, WorkerSet
<1>2. CachePlaced' /\ EventsPlaced'
  BY DEF TypeInv, Placed, CachePlaced, EventsPlaced, Controller, RefsOf, Alive
<1>3. CacheUid'
  BY DEF TypeInv, CacheUid, Alive
<1>4. WorkerPlaced' /\ WorkerUid'
  BY DEF WorkerTyped
<1> QED BY <1>1, <1>2, <1>3, <1>4 DEF TypeInv, Placed

(* An index of a kind is changed, the others are kept.                      *)
LEMMA AddType ==
    ASSUME TypeInv, NEW k \in Kinds, NEW n \in AllNames, IndexOf(n) = k, NEW obj, Add(k, n, obj)
    PROVE  /\ indexes' \in [Kinds -> Seq(AllNames)] /\ IndexPlaced' /\ leftover' \in BOOLEAN
           /\ Gains(k, n, obj) /\ \A l \in Kinds : l # k => Kept(l)
<1>1. indexes \in [Kinds -> Seq(AllNames)] /\ leftover \in BOOLEAN
  BY DEF TypeInv, TypeOK, Kinds
<1>2. indexes' = [indexes EXCEPT ![k] = addIndex(indexes[k], cache, n, obj)] /\ leftover' \in BOOLEAN
  BY <1>1 DEF Add
<1>3. Gains(k, n, obj) /\ \A l \in Kinds : l # k => Kept(l)
  BY <1>1, <1>2 DEF Gains, Kept
<1>4. indexes' = [l \in Kinds |-> indexes'[l]]
  BY <1>1, <1>2
<1> QED BY <1>2, <1>3, <1>4, IndexType

LEMMA RemoveType ==
    ASSUME TypeInv, NEW k \in Kinds, NEW x, indexes' = [indexes EXCEPT ![k] = removeIndex(@, x)]
    PROVE  /\ indexes' \in [Kinds -> Seq(AllNames)] /\ IndexPlaced'
           /\ Loses(k, x) /\ \A l \in Kinds : l # k => Kept(l)
<1>1. indexes \in [Kinds -> Seq(AllNames)]
  BY DEF TypeInv, TypeOK, Kinds
<1>2. Loses(k, x) /\ \A l \in Kinds : l # k => Kept(l)
  BY <1>1 DEF Loses, Kept
<1>3. indexes' = [l \in Kinds |-> indexes'[l]]
  BY <1>1
<1> QED BY <1>2, <1>3, IndexType

LEMMA ReconcileGetType ==
    ASSUME TypeInv, NEW n \in names, ReconcileGet(n)
    PROVE  TypeInv'
<1> DEFINE k == Controller(n)
<1>1. n \in AllNames /\ k \in Controllers /\ n \in queue[k]
  BY NameFacts DEF ReconcileGet, TypeInv, TypeOK, AllNames
<1>2. /\ UNCHANGED <<names, left, cache, events, rebound, csiNodeIndex, pairs, leftover>> /\ leftover' \in BOOLEAN
      /\ queue' = [queue EXCEPT ![k] = @ \ {n}]
  BY DEF ReconcileGet, env, TypeInv, TypeOK
<1>3. queue' \in [Controllers -> SUBSET AllNames] /\ QueuePlaced'
  <2>1. queue \in [Controllers -> SUBSET AllNames]
    BY DEF TypeInv, TypeOK
  <2>2. queue' \in [Controllers -> SUBSET AllNames]
    BY <1>1, <1>2, <2>1
  <2>3. \A l \in Controllers : queue'[l] \subseteq queue[l]
    BY <1>1, <1>2, <2>1
  <2> QED BY <2>2, <2>3 DEF TypeInv, Placed, QueuePlaced, Controller
<1>4. WorkerTyped'
  <2>1. CASE Alive(cache, n) /\ worker' = [worker EXCEPT ![k] = [pc |-> "tables", name |-> n, obj |-> cache[n]]]
    BY <1>1, <1>2, <2>1, GetType
  <2>2. CASE UNCHANGED worker
    BY <1>2, <2>2, WorkerKept
  <2> QED BY <2>1, <2>2 DEF ReconcileGet
<1>5. indexes' \in [Kinds -> Seq(AllNames)] /\ IndexPlaced'
  <2>1. CASE UNCHANGED indexes
    BY <2>1, TablesKept
  <2>2. CASE indexes' = [indexes EXCEPT !["pv"] = removeIndex(@, n)]
    <3>1. "pv" \in Kinds
      BY DEF Kinds
    <3> QED BY <2>2, <3>1, RemoveType
  <2> QED BY <2>1, <2>2 DEF ReconcileGet
<1> QED BY <1>2, <1>3, <1>4, <1>5, ReconcileType, TablesKept

LEMMA PodTablesType ==
    ASSUME TypeInv, PodTables
    PROVE  TypeInv'
<1> DEFINE w == worker["pod"]
<1>1. /\ "pod" \in Controllers /\ "app" \in Kinds /\ w.pc # "idle"
      /\ UNCHANGED <<names, left, cache, events, rebound, queue, pairs, leftover>> /\ leftover' \in BOOLEAN
  BY DEF PodTables, env, Controllers, Kinds, TypeInv, TypeOK
<1>2. w.name \in AllNames
  BY <1>1, WorkerFacts
<1>3. WorkerTyped'
  <2>1. Done("pod") \/ Continue("pod", "index")
    BY DEF PodTables
  <2> QED BY <1>1, <2>1, DoneType, ContinueType
<1>4. csiNodeIndex' \in Csis \cup {"none"}
  BY DEF PodTables, CsiEntry, isCsiNode, TypeInv, TypeOK
<1>5. indexes' \in [Kinds -> Seq(AllNames)] /\ IndexPlaced'
  <2>1. UNCHANGED indexes \/ indexes' = [indexes EXCEPT !["app"] = removeIndex(@, w.name)]
    BY DEF PodTables
  <2> HIDE DEF w
  <2> QED BY <1>1, <2>1, RemoveType, TablesKept
<1> QED BY <1>1, <1>3, <1>4, <1>5, ReconcileType, TablesKept

LEMMA PodIndexType ==
    ASSUME TypeInv, PodIndex
    PROVE  TypeInv'
<1> DEFINE w == worker["pod"]
<1>1. /\ "pod" \in Controllers /\ w.pc # "idle" /\ Done("pod") /\ Add(IndexOf(w.name), w.name, w.obj)
      /\ UNCHANGED <<names, left, cache, events, rebound, queue, csiNodeIndex, pairs>>
  BY DEF PodIndex, env, Controllers
<1>2. w.name \in AllNames /\ IndexOf(w.name) \in Kinds
  BY <1>1, WorkerFacts, NameFacts
<1>3. WorkerTyped'
  BY <1>1, DoneType
<1> HIDE DEF w
<1>4. indexes' \in [Kinds -> Seq(AllNames)] /\ IndexPlaced' /\ leftover' \in BOOLEAN
  BY <1>1, <1>2, AddType
<1> QED BY <1>1, <1>3, <1>4, ReconcileType, TablesKept

(* The object that PVController has, and its claim.                         *)
LEMMA PVWorkerFacts ==
    ASSUME TypeInv, worker["pv"].pc # "idle"
    PROVE  /\ worker["pv"].name \in PVs /\ worker["pv"].obj \in Objects
           /\ worker["pv"].obj.ref \in PVCs \cup {"none"}
           /\ worker["pv"].obj.ref # "none" => worker["pv"].obj.ref \in PVCs
           /\ IndexOf(worker["pv"].name) = "pv" /\ worker["pv"].name \in AllNames
           /\ worker["pv"].pc = "index" => worker["pv"].obj.ref # "none"
<1>1. "pv" \in Controllers
  BY DEF Controllers
<1>2. worker["pv"].name \in PVs /\ worker["pv"].obj \in Objects /\ worker["pv"].name \in AllNames
      /\ worker["pv"].obj.ref \in RefsOf(worker["pv"].name)
  BY <1>1, WorkerFacts, NameFacts
<1>3. worker["pv"].pc = "index" => worker["pv"].obj.ref # "none"
  BY DEF TypeInv, Placed, WorkerPlaced
<1> QED BY <1>2, <1>3, NameFacts DEF RefsOf

(* The indexes when a volume goes that is being deleted.                    *)
LEMMA PVTablesGone ==
    ASSUME TypeInv, PVTables, worker["pv"].obj.deleting
    PROVE  LET w == worker["pv"]  c == w.obj.ref IN
           /\ indexes' \in [Kinds -> Seq(AllNames)] /\ IndexPlaced'
           /\ Kept("app") /\ Kept("sys") /\ Loses("pv", w.name)
           /\ IF c = "none" THEN Kept("pvc") ELSE Loses("pvc", c)
<1> DEFINE w == worker["pv"]
           c == w.obj.ref
<1>1. indexes' = [indexes EXCEPT !.pv = removeIndex(@, w.name),
                                 !.pvc = IF c = "none" THEN @ ELSE removeIndex(@, c)]
  BY DEF PVTables
<1> HIDE DEF w, c
<1>2. indexes \in [Kinds -> Seq(AllNames)]
  BY DEF TypeInv, TypeOK, Kinds
<1>3. /\ Kept("app") /\ Kept("sys") /\ Loses("pv", w.name)
      /\ IF c = "none" THEN Kept("pvc") ELSE Loses("pvc", c)
  BY <1>1, <1>2 DEF Kinds, Kept, Loses
<1>4. indexes' = [l \in Kinds |-> indexes'[l]]
  BY <1>1, <1>2 DEF Kinds
<1>5. \A l \in Kinds : Kept(l) \/ \E x : Loses(l, x)
  BY <1>3 DEF Kinds
<1>6. indexes' \in [Kinds -> Seq(AllNames)] /\ IndexPlaced'
  BY <1>4, <1>5, IndexType
<1> QED BY <1>3, <1>6 DEF w, c

LEMMA PVTablesType ==
    ASSUME TypeInv, PVTables
    PROVE  TypeInv'
<1> DEFINE w == worker["pv"]
           c == w.obj.ref
<1>1. /\ "pv" \in Controllers /\ "pv" \in Kinds /\ w.pc # "idle"
      /\ UNCHANGED <<names, left, cache, events, rebound, queue, csiNodeIndex>>
  BY DEF PVTables, env, Controllers, Kinds
<1>2. /\ w.name \in PVs /\ IndexOf(w.name) = "pv" /\ w.name \in AllNames
      /\ c # "none" => c \in PVCs
  BY <1>1, PVWorkerFacts
<1>3. WorkerTyped'
  <2>1. Done("pv") \/ (c # "none" /\ Continue("pv", "index"))
    BY DEF PVTables
  <2> QED BY <1>1, <2>1, DoneType, ContinueType
<1>4. pairs' \in [PVCs -> PVs \cup {"none"}]
  <2>1. pairs' = pairs \/ (c # "none" /\ (pairs' = [pairs EXCEPT ![c] = "none"] \/ pairs' = [pairs EXCEPT ![c] = w.name]))
    BY DEF PVTables
  <2>2. pairs \in [PVCs -> PVs \cup {"none"}]
    BY DEF TypeInv, TypeOK
  <2> HIDE DEF w, c
  <2> QED BY <1>2, <2>1, <2>2
<1>5. indexes' \in [Kinds -> Seq(AllNames)] /\ IndexPlaced' /\ leftover' \in BOOLEAN
  <2>1. CASE w.obj.deleting
    <3>1. leftover' \in BOOLEAN
      BY <2>1 DEF PVTables, TypeInv, TypeOK
    <3> QED BY <2>1, <3>1, PVTablesGone
  <2>2. CASE ~w.obj.deleting
    <3>1. Add("pv", w.name, w.obj)
      BY <2>2 DEF PVTables
    <3> HIDE DEF w, c
    <3> QED BY <1>1, <1>2, <3>1, AddType
  <2> QED BY <2>1, <2>2
<1> QED BY <1>1, <1>3, <1>4, <1>5, ReconcileType, TablesKept

LEMMA PVIndexType ==
    ASSUME TypeInv, PVIndex
    PROVE  TypeInv'
<1> DEFINE w == worker["pv"]
           c == w.obj.ref
<1>1. /\ "pv" \in Controllers /\ "pvc" \in Kinds /\ w.pc = "index" /\ Done("pv")
      /\ UNCHANGED <<names, left, cache, events, rebound, queue, csiNodeIndex, pairs>>
      /\ IF Alive(cache, c) THEN Add("pvc", c, cache[c]) ELSE UNCHANGED <<indexes, leftover>>
  BY DEF PVIndex, env, Controllers, Kinds
<1>2. c \in PVCs /\ c \in AllNames /\ IndexOf(c) = "pvc"
  BY <1>1, PVWorkerFacts, NameFacts DEF AllNames
<1>3. WorkerTyped'
  BY <1>1, DoneType
<1> HIDE DEF w, c
<1>4. indexes' \in [Kinds -> Seq(AllNames)] /\ IndexPlaced' /\ leftover' \in BOOLEAN
  <2>1. CASE Alive(cache, c)
    BY <1>1, <1>2, <2>1, AddType
  <2>2. CASE ~Alive(cache, c)
    BY <1>1, <2>2, TablesKept DEF TypeInv, TypeOK
  <2> QED BY <2>1, <2>2
<1> QED BY <1>1, <1>3, <1>4, ReconcileType, TablesKept

(* The claim that PVCController has.                                        *)
LEMMA PVCWorkerFacts ==
    ASSUME TypeInv, worker["pvc"].pc # "idle"
    PROVE  /\ worker["pvc"].name \in PVCs /\ worker["pvc"].obj \in Objects
           /\ worker["pvc"].obj.ref \in PVs \cup {"none", "other"}
           /\ IndexOf(worker["pvc"].name) = "pvc" /\ worker["pvc"].name \in AllNames
           /\ Controller(worker["pvc"].name) = "pvc"
<1>1. "pvc" \in Controllers
  BY DEF Controllers
<1>2. worker["pvc"].name \in PVCs /\ worker["pvc"].obj \in Objects /\ worker["pvc"].name \in AllNames
      /\ worker["pvc"].obj.ref \in RefsOf(worker["pvc"].name)
  BY <1>1, WorkerFacts, NameFacts
<1> QED BY <1>2, NameFacts DEF RefsOf

LEMMA PVCTablesType ==
    ASSUME TypeInv, PVCTables
    PROVE  TypeInv'
<1> DEFINE w == worker["pvc"]
<1>1. /\ "pvc" \in Controllers /\ "pvc" \in Kinds /\ w.pc # "idle"
      /\ UNCHANGED <<names, left, cache, events, rebound, csiNodeIndex, pairs>>
  BY DEF PVCTables, env, Controllers, Kinds
<1>2. w.name \in AllNames /\ IndexOf(w.name) = "pvc"
  BY <1>1, PVCWorkerFacts
<1>3. WorkerTyped'
  <2>1. Done("pvc") \/ Continue("pvc", "index")
    BY DEF PVCTables
  <2> QED BY <1>1, <2>1, DoneType, ContinueType
<1>4. queue' \in [Controllers -> SUBSET AllNames] /\ QueuePlaced'
  <2>1. Enqueue(w.name) \/ UNCHANGED queue
    BY DEF PVCTables
  <2> QED BY <1>2, <2>1, EnqueueType, TablesKept
<1>5. indexes' \in [Kinds -> Seq(AllNames)] /\ IndexPlaced' /\ leftover' \in BOOLEAN
  <2>1. Add("pvc", w.name, w.obj) \/ UNCHANGED <<indexes, leftover>>
    BY DEF PVCTables
  <2> HIDE DEF w
  <2>2. CASE Add("pvc", w.name, w.obj)
    BY <1>1, <1>2, <2>2, AddType
  <2>3. CASE UNCHANGED <<indexes, leftover>>
    BY <2>3, TablesKept DEF TypeInv, TypeOK
  <2> QED BY <2>1, <2>2, <2>3
<1> QED BY <1>1, <1>3, <1>4, <1>5, ReconcileType, TablesKept

LEMMA PVCPairType ==
    ASSUME TypeInv, PVCPair
    PROVE  TypeInv'
<1> DEFINE w == worker["pvc"]
<1>1. /\ "pvc" \in Controllers /\ w.pc # "idle" /\ Done("pvc")
      /\ UNCHANGED <<names, left, cache, events, rebound, csiNodeIndex, queue, indexes, leftover>>
      /\ leftover' \in BOOLEAN /\ pairs' = [pairs EXCEPT ![w.name] = PairOf(w.obj.ref)]
      /\ pairs \in [PVCs -> PVs \cup {"none"}]
  BY DEF PVCPair, env, Controllers, TypeInv, TypeOK
<1>2. w.name \in PVCs /\ PairOf(w.obj.ref) \in PVs \cup {"none"}
  BY <1>1, PVCWorkerFacts DEF PairOf
<1>3. WorkerTyped'
  BY <1>1, DoneType
<1> HIDE DEF w
<1>4. pairs' \in [PVCs -> PVs \cup {"none"}]
  BY <1>1, <1>2
<1> QED BY <1>1, <1>3, <1>4, ReconcileType, TablesKept

LEMMA RestartType ==
    ASSUME TypeInv, Restart
    PROVE  TypeInv'
<1>1. /\ names' = names /\ cache' = cache /\ events' = [k \in Controllers |-> <<>>]
      /\ queue' = [k \in Controllers |-> {n \in names : Controller(n) = k /\ Alive(cache, n)
                                                        /\ (n \in PVCs => cache[n].label \/ Pending(cache[n]))}]
      /\ worker' = [k \in Controllers |-> Idle] /\ indexes' = NewAPI.indexes
      /\ csiNodeIndex' = NewAPI.csiNodeIndex /\ pairs' = NewAPI.pairs
      /\ left' = left /\ leftover' \in BOOLEAN /\ rebound' \in SUBSET PVCs
  BY DEF Restart, Shared, env
<1>4. left' \in [objects: 0..MaxObjects] /\ left'.objects = left.objects
  BY <1>1 DEF TypeInv, TypeOK
<1>5. NewAPI.indexes = [k \in Kinds |-> <<>>] /\ NewAPI.csiNodeIndex = "none" /\ NewAPI.pairs = [c \in PVCs |-> "none"]
  BY DEF NewAPI, Kinds
<1>6. TypeOK'
  <2>1. /\ names' \in {Apps, SysPods, PVs \cup PVCs} /\ cache' \in [AllNames -> Objects \cup {NoObj}]
        /\ names \subseteq AllNames
    BY <1>1 DEF TypeInv, TypeOK, AllNames
  <2>2. events' \in [Controllers -> Seq(EventSet)] /\ worker' \in [Controllers -> WorkerSet]
    BY <1>1 DEF WorkerSet
  <2>3. queue' \in [Controllers -> SUBSET AllNames]
    BY <1>1, <2>1
  <2>4. indexes' \in [Kinds -> Seq(AllNames)] /\ csiNodeIndex' \in Csis \cup {"none"}
        /\ pairs' \in [PVCs -> PVs \cup {"none"}]
    BY <1>1, <1>5
  <2> QED BY <1>1, <1>4, <2>1, <2>2, <2>3, <2>4 DEF TypeOK, EventSet, Kinds, WorkerSet
<1>7. CachePlaced'
  BY <1>1 DEF TypeInv, Placed, CachePlaced, RefsOf, Alive
<1>8. EventsPlaced' /\ QueuePlaced'
  BY <1>1 DEF EventsPlaced, QueuePlaced, Controller
<1>9. WorkerPlaced' /\ WorkerUid'
  BY <1>1 DEF WorkerPlaced, WorkerUid, Idle, Controllers
<1>10. IndexPlaced'
  BY <1>1, <1>5 DEF IndexPlaced, ToSet
<1>11. CacheUid'
  BY <1>1, <1>4 DEF TypeInv, CacheUid, Alive
<1> QED BY <1>6, <1>7, <1>8, <1>9, <1>10, <1>11 DEF TypeInv, Placed

LEMMA InitType == Init => TypeInv
<1> SUFFICES ASSUME Init PROVE TypeInv
  OBVIOUS
<1>1. /\ names \in {Apps, SysPods, PVs \cup PVCs} /\ cache = [n \in AllNames |-> NoObj]
      /\ events = [k \in Controllers |-> <<>>] /\ queue = [k \in Controllers |-> {}]
      /\ worker = [k \in Controllers |-> Idle] /\ indexes = [k \in Kinds |-> <<>>] /\ csiNodeIndex = "none"
      /\ pairs = [c \in PVCs |-> "none"] /\ leftover = FALSE /\ rebound = {}
      /\ left = [objects |-> MaxObjects]
      /\ MaxObjects \in Nat
  BY DashboardAssumption DEF Init, NewAPI, Kinds
<1>2. TypeOK
  <2>1. events \in [Controllers -> Seq(EventSet)] /\ queue \in [Controllers -> SUBSET AllNames]
        /\ worker \in [Controllers -> WorkerSet]
    BY <1>1 DEF WorkerSet
  <2>2. indexes \in [Kinds -> Seq(AllNames)] /\ csiNodeIndex \in Csis \cup {"none"}
        /\ pairs \in [PVCs -> PVs \cup {"none"}] /\ cache \in [AllNames -> Objects \cup {NoObj}]
    BY <1>1
  <2>3. left \in [objects: 0..MaxObjects]
    BY <1>1
  <2> QED BY <1>1, <2>1, <2>2, <2>3 DEF TypeOK, EventSet, Kinds, WorkerSet
<1>3. NoObj.uid = 0 /\ NoObj.ref = "none" /\ ~NoObj.label
  BY DEF NoObj
<1>4. CachePlaced
  BY <1>1, <1>3 DEF CachePlaced, RefsOf, Alive, AllNames
<1>5. EventsPlaced /\ QueuePlaced
  BY <1>1 DEF EventsPlaced, QueuePlaced
<1>6. WorkerPlaced /\ WorkerUid
  BY <1>1 DEF WorkerPlaced, WorkerUid, Idle, Controllers
<1>7. IndexPlaced
  BY <1>1 DEF IndexPlaced, ToSet
<1>8. CacheUid
  BY <1>1, <1>3 DEF CacheUid, Alive
<1> QED BY <1>2, <1>4, <1>5, <1>6, <1>7, <1>8 DEF TypeInv, Placed

LEMMA NextType ==
    ASSUME TypeInv, [Next]_vars
    PROVE  TypeInv'
<1>1. CASE UNCHANGED vars
  BY <1>1, HandlerType, EventsKept, TablesKept DEF vars, env, api
<1>2. ASSUME NEW n \in names, Created(n) \/ Updated(n) \/ Deleted(n) \/ ReconcileGet(n) PROVE TypeInv'
  BY <1>2, CreatedType, UpdatedType, DeletedType, ReconcileGetType
<1>3. ASSUME NEW c \in PVCs \cap names, ClaimLost(c) \/ ClaimRebound(c) PROVE TypeInv'
  BY <1>3, ClaimLostType, ClaimReboundType
<1>4. ASSUME NEW c \in PVCs \cap names, NEW v \in PVs, ClaimRefSet(v, c) PROVE TypeInv'
  BY <1>4, ClaimRefSetType
<1>5. ASSUME NEW c \in PVCs \cap names, NEW v \in PVs \cup {"other"}, ClaimBound(c, v) PROVE TypeInv'
  BY <1>5, ClaimBoundType
<1> QED BY <1>1, <1>2, <1>3, <1>4, <1>5, HandleEventType, PodTablesType, PodIndexType, PVTablesType, PVIndexType,
           PVCTablesType, PVCPairType, RestartType DEF Next

-----------------------------------------------------------------------------
(* No object gets lost *)

(* The primed forms, with the controller and the index of the name.         *)
LEMMA PrimedAt ==
    ASSUME NEW n, NEW K, K = Controller(n)
    PROVE  /\ At(n)' <=> worker'[K].pc # "idle" /\ worker'[K].name = n
           /\ Current(n)' <=> worker'[K].obj.uid = cache'[n].uid
           /\ Adds(n)' <=> /\ worker'[K].pc # "idle" /\ worker'[K].name = n
                           /\ worker'[K].obj.uid = cache'[n].uid
                           /\ n \in PVs => worker'["pv"].pc = "tables"
           /\ Has(n)' <=> \/ n \in queue'[K]
                          \/ Adds(n)'
                          \/ n \in ToSet(indexes'[IndexOf(n)]) /\ (At(n)' => Current(n)')
           /\ Comes(n)' <=> Sure(events'[K], Announcing(n), Losing(n))
           /\ NotLost(n)' <=> Free(events'[K], Losing(n))
<1>1. Controller(n)' = K /\ IndexOf(n)' = IndexOf(n)
  BY DEF Controller, IndexOf
<1>2. At(n)' <=> worker'[K].pc # "idle" /\ worker'[K].name = n
  BY <1>1 DEF At
<1>3. Current(n)' <=> worker'[K].obj.uid = cache'[n].uid
  BY <1>1 DEF Current
<1>4. Adds(n)' <=> At(n)' /\ Current(n)' /\ (n \in PVs => worker'["pv"].pc = "tables")
  BY DEF Adds
<1>5. Has(n)' <=> \/ n \in queue'[K]
                  \/ Adds(n)'
                  \/ n \in ToSet(indexes'[IndexOf(n)]) /\ (At(n)' => Current(n)')
  BY <1>1 DEF Has
<1>6. Comes(n)' <=> Sure(events'[K], Announcing(n), Losing(n))
  BY <1>1 DEF Comes, Sure, Announcing, Losing, EventSet, AllNames
<1>7. NotLost(n)' <=> Free(events'[K], Losing(n))
  BY <1>1 DEF NotLost, Free, Losing, EventSet, AllNames
<1> QED BY <1>2, <1>3, <1>4, <1>5, <1>6, <1>7

(* An event of another name, and one with which the name comes.             *)
LEMMA OtherEvent ==
    ASSUME TypeInv, NEW m \in AllNames, NEW type \in {"changed", "unbound", "delete"}, Event(type, m),
           NEW n \in AllNames, n # m
    PROVE  (Comes(n) => Comes(n)') /\ (NotLost(n) => NotLost(n)')
<1> DEFINE e == [type |-> type, name |-> m, label |-> type = "delete" /\ cache[m].label]
           K == Controller(m)
<1>1. /\ events \in [Controllers -> Seq(EventSet)] /\ K \in Controllers /\ Controller(n) \in Controllers
      /\ e \in EventSet /\ e \notin Losing(n)
  BY NameFacts DEF TypeInv, TypeOK, EventSet, Objects, NoObj, Losing
<1>2. events' = [events EXCEPT ![K] = Append(@, e)]
  BY DEF Event
<1> HIDE DEF e
<1>3. CASE Controller(n) # K
  <2>1. events'[Controller(n)] = events[Controller(n)]
    BY <1>1, <1>2, <1>3
  <2> QED BY <2>1, PrimedAt DEF Comes, NotLost
<1>4. CASE Controller(n) = K
  <2>1. events'[K] = Append(events[K], e) /\ events[K] \in Seq(EventSet)
    BY <1>1, <1>2
  <2>2. /\ Sure(events[K], Announcing(n), Losing(n)) => Sure(events'[K], Announcing(n), Losing(n))
        /\ Free(events[K], Losing(n)) => Free(events'[K], Losing(n))
    BY <1>1, <2>1, SureAppend
  <2> QED BY <1>4, <2>2, PrimedAt DEF Comes, NotLost
<1> QED BY <1>3, <1>4

LEMMA ChangedEvent ==
    ASSUME TypeInv, NEW n \in AllNames, Event("changed", n)
    PROVE  Comes(n)'
<1> DEFINE e == [type |-> "changed", name |-> n, label |-> "changed" = "delete" /\ cache[n].label]
           K == Controller(n)
<1>1. /\ events \in [Controllers -> Seq(EventSet)] /\ K \in Controllers
      /\ e \in EventSet /\ e \in Announcing(n)
  BY NameFacts DEF TypeInv, TypeOK, EventSet, Announcing
<1>2. events' = [events EXCEPT ![K] = Append(@, e)]
  BY DEF Event
<1> HIDE DEF e
<1>3. events'[K] = Append(events[K], e) /\ events[K] \in Seq(EventSet)
  BY <1>1, <1>2
<1>4. Sure(events'[K], Announcing(n), Losing(n))
  BY <1>1, <1>3, SureAppend
<1> QED BY <1>4, PrimedAt

(* The cache changes at m: nothing changes for another name.                *)
LEMMA OtherCache ==
    ASSUME TypeInv, NEW m \in names, NEW o, CacheStep(m, o), UNCHANGED <<names, queue, worker, api>>,
           \/ UNCHANGED events
           \/ \E type \in {"changed", "unbound", "delete"} : Event(type, m),
           NEW n \in AllNames, n # m
    PROVE  /\ cache'[n] = cache[n] /\ (Comes(n) => Comes(n)') /\ (NotLost(n) => NotLost(n)')
           /\ Has(n) => Has(n)'
<1>1. m \in AllNames /\ cache \in [AllNames -> Objects \cup {NoObj}] /\ cache' = [cache EXCEPT ![m] = o]
  BY DEF TypeInv, TypeOK, CacheStep, AllNames
<1>2. cache'[n] = cache[n]
  BY <1>1
<1>3. (Comes(n) => Comes(n)') /\ (NotLost(n) => NotLost(n)')
  <2>1. CASE UNCHANGED events
    BY <2>1, PrimedAt DEF Comes, NotLost
  <2> QED BY <1>1, <2>1, OtherEvent
<1>4. Has(n) => Has(n)'
  BY <1>2, PrimedAt DEF Has, Adds, At, Current, api
<1> QED BY <1>2, <1>3, <1>4

LEMMA ListCache ==
    ASSUME TypeInv, ListInv, NEW m \in names, NEW o, CacheStep(m, o), UNCHANGED <<names, queue, worker, api>>,
           \/ UNCHANGED events
           \/ \E type \in {"changed", "unbound", "delete"} : Event(type, m),
           m \notin PVCs /\ Wanted(m)' => Comes(m)' \/ (NotLost(m)' /\ Has(m)')
    PROVE  ListInv'
<1> SUFFICES ASSUME NEW n \in names \ PVCs, Wanted(n)'
             PROVE  Comes(n)' \/ (NotLost(n)' /\ Has(n)')
  BY DEF ListInv
<1>1. CASE n = m
  BY <1>1
<1>2. CASE n # m
  <2>1. n \in AllNames
    BY DEF TypeInv, TypeOK, AllNames
  <2>2. /\ cache'[n] = cache[n] /\ (Comes(n) => Comes(n)') /\ (NotLost(n) => NotLost(n)')
        /\ Has(n) => Has(n)'
    BY <1>2, <2>1, OtherCache
  <2>3. Wanted(n)
    BY <2>2 DEF Wanted, Alive
  <2> QED BY <2>2, <2>3 DEF ListInv
<1> QED BY <1>1, <1>2

LEMMA CreatedList ==
    ASSUME TypeInv, ListInv, NEW n \in names, Created(n)
    PROVE  ListInv'
<1>1. PICK o : CacheStep(n, o)
  BY CreatedStep
<1>2. n \in AllNames /\ Event("changed", n) /\ UNCHANGED <<names, queue, worker, api>>
  BY DEF Created, TypeInv, TypeOK, AllNames
<1>3. Comes(n)'
  BY <1>2, ChangedEvent
<1> QED BY <1>1, <1>2, <1>3, ListCache

LEMMA UpdatedList ==
    ASSUME TypeInv, ListInv, NEW n \in names, Updated(n)
    PROVE  ListInv'
<1>1. PICK o : CacheStep(n, o)
  BY UpdatedStep
<1>2. n \in AllNames /\ UNCHANGED <<names, queue, worker, api>>
  BY DEF Updated, env, TypeInv, TypeOK, AllNames
<1>3. CASE n \in Pods
  <2>1. Event("changed", n)
    BY <1>3 DEF Updated
  <2>2. Comes(n)'
    BY <1>2, <2>1, ChangedEvent
  <2> QED BY <1>1, <1>2, <2>1, <2>2, ListCache
<1>4. CASE n \notin Pods
  <2>1. UNCHANGED events /\ cache' = [cache EXCEPT ![n].deleting = TRUE]
    BY <1>4 DEF Updated
  <2>2. cache'[n].deleting
    <3>1. n \in DOMAIN cache /\ cache[n] \in Objects
      BY <1>2 DEF Updated, TypeInv, TypeOK, Alive, NoObj
    <3> QED BY <2>1, <3>1 DEF Objects
  <2>3. ~Wanted(n)'
    BY <2>2 DEF Wanted
  <2> QED BY <1>1, <1>2, <2>1, <2>3, ListCache
<1> QED BY <1>3, <1>4

LEMMA DeletedList ==
    ASSUME TypeInv, ListInv, NEW n \in names, Deleted(n)
    PROVE  ListInv'
<1>1. n \in AllNames /\ CacheStep(n, NoObj)
  BY DeletedStep
<1>2. Event("delete", n) /\ UNCHANGED <<names, queue, worker, api>>
  BY DEF Deleted, env
<1>3. ~Wanted(n)'
  <2>1. n \in DOMAIN cache /\ cache' = [cache EXCEPT ![n] = NoObj]
    BY <1>1 DEF CacheStep, TypeInv, TypeOK
  <2> QED BY <2>1 DEF Wanted, Alive, NoObj
<1> QED BY <1>1, <1>2, <1>3, ListCache

LEMMA ClaimRefSetList ==
    ASSUME TypeInv, ListInv, NEW c \in PVCs \cap names, NEW v \in PVs, ClaimRefSet(v, c)
    PROVE  ListInv'
<1>1. PICK o \in Objects : CacheStep(v, o) /\ o.uid = cache[v].uid
  BY ClaimRefSetStep
<1>2. /\ v \in names /\ v \in AllNames /\ UNCHANGED <<names, queue, worker, api, events>>
      /\ Alive(cache, v) /\ ~cache[v].deleting
  BY ClaimRefSetStep DEF ClaimRefSet, env
<1>3. cache'[v].uid = cache[v].uid
  BY <1>1, <1>2 DEF CacheStep, TypeInv, TypeOK
<1>4. Comes(v) \/ (NotLost(v) /\ Has(v))
  <2>1. v \notin PVCs /\ v \notin Apps
    BY NameFacts
  <2>2. Wanted(v)
    BY <1>2, <2>1 DEF Wanted
  <2> QED BY <1>2, <2>1, <2>2 DEF ListInv
<1>5. Comes(v)' \/ (NotLost(v)' /\ Has(v)')
  <2>1. (Comes(v) => Comes(v)') /\ (NotLost(v) => NotLost(v)')
    BY <1>2, PrimedAt DEF Comes, NotLost
  <2>2. Has(v) => Has(v)'
    BY <1>2, <1>3, PrimedAt DEF Has, Adds, At, Current, api
  <2> QED BY <1>4, <2>1, <2>2
<1> QED BY <1>1, <1>2, <1>5, ListCache

LEMMA ClaimList ==
    ASSUME TypeInv, ListInv, NEW c \in PVCs \cap names, NEW v \in PVs \cup {"other"},
           ClaimBound(c, v) \/ ClaimLost(c) \/ ClaimRebound(c)
    PROVE  ListInv'
<1>1. \E o : CacheStep(c, o)
  BY ClaimBoundStep, ClaimLostStep, ClaimReboundStep
<1>2. /\ UNCHANGED <<names, queue, worker, api>>
      /\ UNCHANGED events \/ \E type \in {"changed", "unbound", "delete"} : Event(type, c)
  BY DEF ClaimBound, ClaimLost, ClaimRebound, env
<1> QED BY <1>1, <1>2, ListCache

(* A name that is in an index stays there, unless it is removed itself.     *)
LEMMA StaysListed ==
    ASSUME TypeInv, NEW k \in Kinds, NEW n \in AllNames, n \in ToSet(indexes[k]),
           \/ Kept(k)
           \/ \E x : x # n /\ Loses(k, x)
           \/ Alive(cache, n) /\ \E m \in AllNames : \E obj : Gains(k, m, obj)
    PROVE  n \in ToSet(indexes'[k])
<1>1. indexes[k] \in Seq(AllNames)
  BY DEF TypeInv, TypeOK, Kinds
<1>2. CASE Kept(k)
  BY <1>2 DEF Kept
<1>3. ASSUME NEW x, x # n, Loses(k, x) PROVE n \in ToSet(indexes'[k])
  <2>1. ToSet(indexes[k]) \subseteq ToSet(removeIndex(indexes[k], x)) \cup {x}
    BY <1>1, RemoveIndexFacts
  <2> QED BY <1>3, <2>1 DEF Loses
<1>4. ASSUME Alive(cache, n), NEW m \in AllNames, NEW obj, Gains(k, m, obj) PROVE n \in ToSet(indexes'[k])
  <2> DEFINE r == addIndex(indexes[k], cache, m, obj)
  <2>1. \A l \in ToSet(indexes[k]) : Alive(cache, l) => l \in ToSet(r)
    BY <1>1, AddIndexFacts
  <2>2. indexes'[k] = r
    BY <1>4 DEF Gains
  <2> HIDE DEF r
  <2> QED BY <1>4, <2>1, <2>2
<1> QED BY <1>2, <1>3, <1>4

(* An object that is added under its uid is in the index afterwards.        *)
LEMMA AddedListed ==
    ASSUME TypeInv, NEW k \in Kinds, NEW n \in AllNames, NEW obj, Alive(cache, n), cache[n].uid = obj.uid,
           Gains(k, n, obj)
    PROVE  n \in ToSet(indexes'[k])
<1> DEFINE r == addIndex(indexes[k], cache, n, obj)
<1>1. indexes[k] \in Seq(AllNames)
  BY DEF TypeInv, TypeOK, Kinds
<1>2. /\ n \in ToSet(r) \/ \E m \in ToSet(indexes[k]) : Alive(cache, m) /\ cache[m].uid = obj.uid
      /\ \A m \in ToSet(indexes[k]) : Alive(cache, m) => m \in ToSet(r)
  BY <1>1, AddIndexFacts
<1>3. indexes'[k] = r
  BY DEF Gains
<1> HIDE DEF r
<1>4. ASSUME NEW m \in ToSet(indexes[k]), Alive(cache, m), cache[m].uid = obj.uid PROVE m = n
  <2>1. m \in AllNames
    BY <1>1 DEF ToSet
  <2> QED BY <1>4, <2>1 DEF TypeInv, CacheUid
<1> QED BY <1>2, <1>3, <1>4

(* A name in its queue comes out of it only with its worker; one that is    *)
(* not removed stays where it is.                                           *)
LEMMA HasStays ==
    ASSUME TypeInv, NEW n \in AllNames, Alive(cache, n), UNCHANGED cache,
           n \in queue[Controller(n)] => n \in queue'[Controller(n)],
           worker'[Controller(n)] = worker[Controller(n)],
           n \in ToSet(indexes[IndexOf(n)]) => n \in ToSet(indexes'[IndexOf(n)])
    PROVE  Has(n) => Has(n)'
<1>1. n \in PVs => Controller(n) = "pv"
  BY NameFacts
<1> QED BY <1>1, PrimedAt DEF Has, Adds, At, Current

LEMMA HandleEventList ==
    ASSUME TypeInv, ListInv, NEW k \in Controllers, HandleEvent(k)
    PROVE  ListInv'
<1> DEFINE e == Head(events[k])
<1>1. /\ events[k] # <<>> /\ e \in EventSet /\ Controller(e.name) = k
      /\ UNCHANGED <<names, left, cache, worker, leftover, rebound>>
      /\ \/ e \in Announcing(e.name) /\ Changed(e.name)
         \/ e.type = "unbound" /\ e.name \in PVCs /\ Unbound(e.name)
         \/ e.type = "delete" /\ e.name \in Pods /\ PodDeleteFunc(e.name, e.label)
         \/ e.type = "delete" /\ e.name \in PVCs /\ PVCDeleteFunc(e.name)
  BY HandleEventCases
<1>2. /\ events \in [Controllers -> Seq(EventSet)] /\ events' = [events EXCEPT ![k] = Tail(@)]
      /\ queue \in [Controllers -> SUBSET AllNames] /\ indexes \in [Kinds -> Seq(AllNames)]
  BY DEF HandleEvent, TypeInv, TypeOK, EventSet, Kinds
<1> HIDE DEF e
<1>3. e.name \in AllNames
  BY <1>1 DEF EventSet
<1> SUFFICES ASSUME NEW n \in names \ PVCs, Wanted(n)'
             PROVE  Comes(n)' \/ (NotLost(n)' /\ Has(n)')
  BY <1>1 DEF ListInv
<1>4. n \in AllNames /\ Controller(n) \in Controllers /\ IndexOf(n) \in Kinds
  BY NameFacts DEF TypeInv, TypeOK, AllNames
<1>5. Wanted(n) /\ Alive(cache, n)
  BY <1>1 DEF Wanted, Alive
<1>6. Comes(n) \/ (NotLost(n) /\ Has(n))
  BY <1>5 DEF ListInv
<1>7. n \in queue[Controller(n)] => n \in queue'[Controller(n)]
  <2>1. UNCHANGED queue \/ Enqueue(e.name)
    BY <1>1 DEF Changed, Unbound, PodDeleteFunc, PVCDeleteFunc
  <2> QED BY <1>2, <1>4, <2>1 DEF Enqueue
<1>8. n # e.name /\ n \in ToSet(indexes[IndexOf(n)]) => n \in ToSet(indexes'[IndexOf(n)])
  <2>1. \/ UNCHANGED indexes
        \/ indexes' = [indexes EXCEPT ![IndexOf(e.name)] = removeIndex(@, e.name)]
        \/ indexes' = [indexes EXCEPT !["pvc"] = removeIndex(@, e.name)]
    BY <1>1 DEF Changed, api, Unbound, PodDeleteFunc, PVCDeleteFunc
  <2>2. Kept(IndexOf(n)) \/ Loses(IndexOf(n), e.name)
    BY <1>2, <1>4, <2>1 DEF Kept, Loses
  <2> QED BY <1>4, <2>2, StaysListed
<1>9. n # e.name /\ Has(n) => Has(n)'
  BY <1>1, <1>4, <1>5, <1>7, <1>8, HasStays
<1>10. CASE Controller(n) # k
  <2>1. events'[Controller(n)] = events[Controller(n)]
    BY <1>2, <1>4, <1>10
  <2>2. (Comes(n) => Comes(n)') /\ (NotLost(n) => NotLost(n)')
    BY <2>1, PrimedAt DEF Comes, NotLost
  <2> QED BY <1>1, <1>6, <1>9, <1>10, <2>2
<1>11. CASE Controller(n) = k
  <2> DEFINE es == events[k]
  <2>1. events'[k] = Tail(es) /\ es \in Seq(EventSet) /\ es # <<>>
    BY <1>1, <1>2
  <2>2. /\ Sure(es, Announcing(n), Losing(n)) =>
              Sure(Tail(es), Announcing(n), Losing(n)) \/ (Head(es) \in Announcing(n) /\ Free(Tail(es), Losing(n)))
        /\ Free(es, Losing(n)) => Free(Tail(es), Losing(n)) /\ Head(es) \notin Losing(n)
    BY <2>1, SureTail
  <2>3. /\ Comes(n) => Comes(n)' \/ (e \in Announcing(n) /\ NotLost(n)')
        /\ NotLost(n) => NotLost(n)' /\ e \notin Losing(n)
    BY <1>11, <2>1, <2>2, PrimedAt DEF Comes, NotLost, e
  <2>4. e \in Announcing(n) => Has(n)'
    <3> SUFFICES ASSUME e \in Announcing(n) PROVE Has(n)'
      OBVIOUS
    <3>1. e.name = n /\ (e.type = "changed" \/ n \in PVs)
      BY DEF Announcing
    <3>2. Changed(n)
      BY <1>1, <3>1, NameFacts
    <3>3. n \in queue'[Controller(n)]
      BY <1>2, <1>4, <3>2 DEF Changed, Enqueue
    <3> QED BY <3>3, PrimedAt
  <2>5. e \notin Losing(n) => e \in Announcing(n) \/ n # e.name
    BY <1>1 DEF Losing, Announcing
  <2> QED BY <1>6, <1>9, <2>3, <2>4, <2>5
<1> QED BY <1>10, <1>11

(* A step of a worker: the events stay.                                     *)
LEMMA ListWorker ==
    ASSUME TypeInv, ListInv, UNCHANGED <<names, cache, events>>,
           \A n \in names \ PVCs : n \in AllNames /\ Wanted(n) /\ Has(n) => Has(n)'
    PROVE  ListInv'
<1> SUFFICES ASSUME NEW n \in names \ PVCs, Wanted(n)'
             PROVE  Comes(n)' \/ (NotLost(n)' /\ Has(n)')
  BY DEF ListInv
<1>1. n \in AllNames /\ Wanted(n)
  BY DEF Wanted, Alive, TypeInv, TypeOK, AllNames
<1>2. (Comes(n) => Comes(n)') /\ (NotLost(n) => NotLost(n)')
  BY PrimedAt DEF Comes, NotLost
<1> QED BY <1>1, <1>2 DEF ListInv

LEMMA ReconcileGetList ==
    ASSUME TypeInv, ListInv, NEW m \in names, ReconcileGet(m)
    PROVE  ListInv'
<1> DEFINE k == Controller(m)
<1>1. m \in AllNames /\ k \in Controllers /\ worker[k] = Idle /\ UNCHANGED <<names, cache, events>>
  BY NameFacts DEF ReconcileGet, env, TypeInv, TypeOK, AllNames
<1>2. /\ queue' = [queue EXCEPT ![k] = @ \ {m}]
      /\ \/ Alive(cache, m) /\ worker' = [worker EXCEPT ![k] = [pc |-> "tables", name |-> m, obj |-> cache[m]]]
         \/ (~Alive(cache, m) \/ (m \in Apps /\ ~cache[m].label)) /\ UNCHANGED worker
      /\ queue \in [Controllers -> SUBSET AllNames] /\ worker \in [Controllers -> WorkerSet]
      /\ indexes \in [Kinds -> Seq(AllNames)]
  BY DEF ReconcileGet, TypeInv, TypeOK, WorkerSet, Kinds
<1> HIDE DEF k
<1>3. ASSUME NEW n \in names \ PVCs, n \in AllNames, Wanted(n), Has(n) PROVE Has(n)'
  <2>1. Controller(n) \in Controllers /\ IndexOf(n) \in Kinds /\ Alive(cache, n)
    BY <1>3, NameFacts DEF Wanted
  <2>2. CASE n = m
    <3>1. worker' = [worker EXCEPT ![k] = [pc |-> "tables", name |-> m, obj |-> cache[m]]]
      BY <1>2, <1>3, <2>2 DEF Wanted
    <3>2. worker'[k] = [pc |-> "tables", name |-> n, obj |-> cache[n]] /\ (n \in PVs => k = "pv")
      BY <1>1, <1>2, <2>2, <3>1, NameFacts DEF k
    <3> QED BY <1>1, <2>2, <3>2, PrimedAt DEF k
  <2>3. CASE n # m
    <3>1. n \in queue[Controller(n)] => n \in queue'[Controller(n)]
      BY <1>1, <1>2, <2>1, <2>3
    <3>2. n \in ToSet(indexes[IndexOf(n)]) => n \in ToSet(indexes'[IndexOf(n)])
      <4>1. UNCHANGED indexes \/ indexes' = [indexes EXCEPT !["pv"] = removeIndex(@, m)]
        BY DEF ReconcileGet
      <4>2. Kept(IndexOf(n)) \/ Loses(IndexOf(n), m)
        BY <1>2, <2>1, <4>1 DEF Kept, Loses
      <4> QED BY <1>3, <2>1, <2>3, <4>2, StaysListed
    <3>3. CASE worker'[Controller(n)] = worker[Controller(n)]
      BY <1>1, <1>3, <2>1, <3>1, <3>2, <3>3, HasStays
    <3>4. CASE worker'[Controller(n)] # worker[Controller(n)]
      <4>1. Controller(n) = k /\ worker'[k] = [pc |-> "tables", name |-> m, obj |-> cache[m]]
        BY <1>1, <1>2, <2>1, <3>4
      <4>2. ~Adds(n) /\ ~At(n)'
        BY <1>1, <2>3, <4>1, PrimedAt DEF Adds, At, Idle
      <4>3. n \in queue[Controller(n)] \/ n \in ToSet(indexes[IndexOf(n)])
        BY <1>3, <4>2 DEF Has
      <4> QED BY <3>1, <3>2, <4>2, <4>3, PrimedAt
    <3> QED BY <3>3, <3>4
  <2> QED BY <2>2, <2>3
<1> QED BY <1>1, <1>3, ListWorker

(* A worker that has n as it is has no object that was being deleted.       *)
LEMMA CurrentSince ==
    ASSUME TypeInv, NEW n \in AllNames, At(n), Current(n)
    PROVE  /\ Since(worker[Controller(n)].obj, cache[n])
           /\ ~cache[n].deleting => ~worker[Controller(n)].obj.deleting
<1>1. Controller(n) \in Controllers
  BY NameFacts
<1>2. Since(worker[Controller(n)].obj, cache[n])
  BY <1>1 DEF At, Current, TypeInv, WorkerUid
<1> QED BY <1>2 DEF Since

LEMMA PodTablesList ==
    ASSUME TypeInv, ListInv, PodTables
    PROVE  ListInv'
<1> DEFINE w == worker["pod"]
<1>1. /\ UNCHANGED <<names, cache, events, queue>> /\ w.pc = "tables"
      /\ indexes' = IF w.obj.deleting THEN [indexes EXCEPT !.app = removeIndex(@, w.name)] ELSE indexes
      /\ IF w.obj.deleting THEN Done("pod") ELSE Continue("pod", "index")
      /\ worker \in [Controllers -> WorkerSet] /\ indexes \in [Kinds -> Seq(AllNames)] /\ "pod" \in Controllers
  BY DEF PodTables, env, TypeInv, TypeOK, WorkerSet, Kinds, Controllers
<1>2. w \in [pc: {"tables", "index"}, name: AllNames, obj: Objects]
  BY <1>1, WorkerFacts
<1>3. IF w.obj.deleting THEN worker' = [worker EXCEPT !["pod"] = Idle]
      ELSE worker' = [worker EXCEPT !["pod"] = [w EXCEPT !.pc = "index"]]
  BY <1>1 DEF Done, Continue
<1>4. \A l \in Controllers : l # "pod" => worker'[l] = worker[l]
  BY <1>1, <1>3
<1>5. IF w.obj.deleting THEN worker'["pod"] = Idle
      ELSE worker'["pod"].pc = "index" /\ worker'["pod"].name = w.name /\ worker'["pod"].obj = w.obj
  BY <1>1, <1>2, <1>3
<1> HIDE DEF w
<1>6. ASSUME NEW n \in names \ PVCs, n \in AllNames, Wanted(n), Has(n) PROVE Has(n)'
  <2>1. Controller(n) \in Controllers /\ IndexOf(n) \in Kinds /\ Alive(cache, n) /\ ~cache[n].deleting
    BY <1>6, NameFacts DEF Wanted
  <2>2. At(n) /\ Current(n) /\ Controller(n) = "pod" => ~w.obj.deleting
    BY <1>6, <2>1, CurrentSince DEF w
  <2>3. w.name # n \/ ~w.obj.deleting =>
           (n \in ToSet(indexes[IndexOf(n)]) => n \in ToSet(indexes'[IndexOf(n)]))
    <3>1. Kept(IndexOf(n)) \/ (w.obj.deleting /\ Loses(IndexOf(n), w.name))
      BY <1>1, <2>1 DEF Kept, Loses
    <3> QED BY <1>6, <2>1, <3>1, StaysListed
  <2>4. CASE Controller(n) # "pod"
    <3>1. w.name # n
      BY <1>1, <2>4, WorkerFacts DEF w
    <3> QED BY <1>1, <1>4, <1>6, <2>1, <2>3, <2>4, <3>1, HasStays
  <2>5. CASE Controller(n) = "pod"
    <3>1. n \notin PVs
      BY <2>5, NameFacts
    <3>2. At(n) <=> w.name = n
      BY <1>1, <2>5 DEF At, w
    <3>3. CASE n \in queue["pod"]
      BY <1>1, <2>5, <3>3, PrimedAt
    <3>4. CASE Adds(n)
      <4>1. ~w.obj.deleting /\ w.name = n /\ w.obj.uid = cache[n].uid
        BY <2>2, <2>5, <3>4 DEF Adds, At, Current, w
      <4>2. Adds(n)'
        BY <1>1, <1>5, <2>5, <3>1, <4>1, PrimedAt
      <4> QED BY <2>5, <4>2, PrimedAt
    <3>5. CASE n \in ToSet(indexes[IndexOf(n)]) /\ (At(n) => Current(n))
      <4>1. w.name # n \/ (~w.obj.deleting /\ w.obj.uid = cache[n].uid)
        BY <2>2, <2>5, <3>2, <3>5 DEF Current, w
      <4>2. n \in ToSet(indexes'[IndexOf(n)])
        BY <2>3, <3>5, <4>1
      <4>3. At(n)' => Current(n)'
        BY <1>1, <1>5, <2>5, <4>1, PrimedAt DEF Idle
      <4> QED BY <2>5, <4>2, <4>3, PrimedAt
    <3> QED BY <1>6, <2>5, <3>3, <3>4, <3>5 DEF Has
  <2> QED BY <2>4, <2>5
<1> QED BY <1>1, <1>6, ListWorker

(* A worker adds its object and is done.                                    *)
LEMMA PodIndexList ==
    ASSUME TypeInv, ListInv, PodIndex
    PROVE  ListInv'
<1> DEFINE w == worker["pod"]
<1>1. /\ UNCHANGED <<names, cache, events, queue>> /\ w.pc = "index" /\ Done("pod")
      /\ Add(IndexOf(w.name), w.name, w.obj)
      /\ worker \in [Controllers -> WorkerSet] /\ "pod" \in Controllers
  BY DEF PodIndex, env, TypeInv, TypeOK, WorkerSet, Controllers
<1>2. w.name \in AllNames /\ Controller(w.name) = "pod" /\ IndexOf(w.name) \in Kinds
  BY <1>1, WorkerFacts, NameFacts
<1>3. worker' = [worker EXCEPT !["pod"] = Idle]
  BY <1>1 DEF Done
<1>4. worker'["pod"] = Idle /\ \A l \in Controllers : l # "pod" => worker'[l] = worker[l]
  BY <1>1, <1>3
<1> HIDE DEF w
<1>5. Gains(IndexOf(w.name), w.name, w.obj) /\ \A l \in Kinds : l # IndexOf(w.name) => Kept(l)
  BY <1>1, <1>2, AddType
<1>6. ASSUME NEW n \in names \ PVCs, n \in AllNames, Wanted(n), Has(n) PROVE Has(n)'
  <2>1. Controller(n) \in Controllers /\ IndexOf(n) \in Kinds /\ Alive(cache, n)
    BY <1>6, NameFacts DEF Wanted
  <2>2. n \in ToSet(indexes[IndexOf(n)]) => n \in ToSet(indexes'[IndexOf(n)])
    BY <1>2, <1>5, <1>6, <2>1, StaysListed
  <2>3. CASE Controller(n) # "pod"
    BY <1>1, <1>4, <1>6, <2>1, <2>2, <2>3, HasStays
  <2>4. CASE Controller(n) = "pod"
    <3>1. ~At(n)'
      BY <1>4, <2>4, PrimedAt DEF Idle
    <3>2. CASE Adds(n)
      <4>1. w.name = n /\ w.obj.uid = cache[n].uid
        BY <2>4, <3>2 DEF Adds, At, Current, w
      <4>2. n \in ToSet(indexes'[IndexOf(n)])
        BY <1>5, <1>6, <2>1, <4>1, AddedListed
      <4> QED BY <3>1, <4>2, PrimedAt
    <3>3. CASE ~Adds(n)
      BY <1>1, <1>6, <2>2, <3>1, <3>3, PrimedAt DEF Has
    <3> QED BY <3>2, <3>3
  <2> QED BY <2>3, <2>4
<1> QED BY <1>1, <1>6, ListWorker

LEMMA PVTablesList ==
    ASSUME TypeInv, ListInv, PVTables
    PROVE  ListInv'
<1> DEFINE w == worker["pv"]
<1>1. /\ UNCHANGED <<names, cache, events, queue>> /\ w.pc = "tables"
      /\ worker \in [Controllers -> WorkerSet] /\ "pv" \in Controllers /\ "pv" \in Kinds
  BY DEF PVTables, env, TypeInv, TypeOK, WorkerSet, Controllers, Kinds
<1>2. /\ w \in [pc: {"tables", "index"}, name: AllNames, obj: Objects]
      /\ w.name \in PVs /\ w.name \in AllNames /\ IndexOf(w.name) = "pv"
  BY <1>1, WorkerFacts, PVWorkerFacts
<1>3. \/ worker' = [worker EXCEPT !["pv"] = Idle]
      \/ worker' = [worker EXCEPT !["pv"] = [w EXCEPT !.pc = "index"]]
  BY DEF Done, Continue, PVTables
<1>4. \A l \in Controllers : l # "pv" => worker'[l] = worker[l]
  BY <1>1, <1>3
<1>5. worker'["pv"] = Idle \/ (worker'["pv"].name = w.name /\ worker'["pv"].obj = w.obj)
  BY <1>1, <1>2, <1>3
<1>6. CASE w.obj.deleting
  <2>1. \A l \in {"app", "sys", "pv"} : Kept(l) \/ (l = "pv" /\ Loses(l, w.name))
    BY <1>6, PVTablesGone
  <2> HIDE DEF w
  <2>2. ASSUME NEW n \in names \ PVCs, n \in AllNames, Wanted(n), Has(n) PROVE Has(n)'
    <3>1. /\ Controller(n) \in Controllers /\ IndexOf(n) \in Kinds /\ Alive(cache, n) /\ ~cache[n].deleting
          /\ IndexOf(n) \in {"app", "sys", "pv"} /\ (Controller(n) = "pv" <=> n \in PVs)
          /\ (IndexOf(n) = "pv" <=> n \in PVs)
      BY <2>2, NameFacts DEF Wanted, AllNames
    <3>2. n # w.name => (n \in ToSet(indexes[IndexOf(n)]) => n \in ToSet(indexes'[IndexOf(n)]))
      BY <2>1, <2>2, <3>1, StaysListed
    <3>3. CASE n \notin PVs
      BY <1>1, <1>2, <1>4, <2>2, <3>1, <3>2, <3>3, HasStays
    <3>4. CASE n \in PVs
      <4>1. ~(At(n) /\ Current(n))
        BY <1>6, <2>2, <3>1, <3>4, CurrentSince DEF w
      <4>2. n \in queue["pv"] \/ (n \in ToSet(indexes[IndexOf(n)]) /\ ~At(n))
        BY <2>2, <3>1, <3>4, <4>1 DEF Has, Adds
      <4>3. ~At(n) => n # w.name
        BY <1>1, <3>1, <3>4 DEF At, w
      <4>4. n # w.name => ~At(n)'
        BY <1>5, <3>1, <3>4, PrimedAt DEF Idle
      <4> QED BY <1>1, <3>1, <3>2, <3>4, <4>2, <4>3, <4>4, PrimedAt
    <3> QED BY <3>3, <3>4
  <2> QED BY <1>1, <2>2, ListWorker
<1>7. CASE ~w.obj.deleting
  <2>1. Add("pv", w.name, w.obj)
    BY <1>7 DEF PVTables
  <2> HIDE DEF w
  <2>2. Gains("pv", w.name, w.obj) /\ \A l \in Kinds : l # "pv" => Kept(l)
    BY <1>1, <1>2, <2>1, AddType
  <2>3. ASSUME NEW n \in names \ PVCs, n \in AllNames, Wanted(n), Has(n) PROVE Has(n)'
    <3>1. /\ Controller(n) \in Controllers /\ IndexOf(n) \in Kinds /\ Alive(cache, n)
          /\ (Controller(n) = "pv" <=> n \in PVs) /\ (IndexOf(n) = "pv" <=> n \in PVs)
      BY <2>3, NameFacts DEF Wanted, AllNames
    <3>2. n \in ToSet(indexes[IndexOf(n)]) => n \in ToSet(indexes'[IndexOf(n)])
      BY <1>2, <2>2, <2>3, <3>1, StaysListed
    <3>3. CASE n \notin PVs
      BY <1>1, <1>4, <2>3, <3>1, <3>2, <3>3, HasStays
    <3>4. CASE n \in PVs
      <4>1. CASE n \in queue["pv"]
        BY <1>1, <3>1, <3>4, <4>1, PrimedAt
      <4>2. CASE At(n) /\ Current(n)
        <5>1. w.name = n /\ w.obj.uid = cache[n].uid
          BY <3>1, <3>4, <4>2 DEF At, Current, w
        <5>2. n \in ToSet(indexes'[IndexOf(n)])
          BY <1>1, <2>2, <2>3, <3>1, <3>4, <5>1, AddedListed
        <5>3. At(n)' => Current(n)'
          BY <1>1, <1>5, <3>1, <3>4, <5>1, PrimedAt DEF Idle
        <5> QED BY <5>2, <5>3, PrimedAt
      <4>3. CASE n \in ToSet(indexes[IndexOf(n)]) /\ ~At(n)
        <5>1. n # w.name
          BY <1>1, <3>1, <3>4, <4>3 DEF At, w
        <5>2. ~At(n)'
          BY <1>5, <3>1, <3>4, <5>1, PrimedAt DEF Idle
        <5> QED BY <3>2, <4>3, <5>2, PrimedAt
      <4> QED BY <2>3, <3>1, <3>4, <4>1, <4>2, <4>3 DEF Has, Adds
    <3> QED BY <3>3, <3>4
  <2> QED BY <1>1, <2>3, ListWorker
<1> QED BY <1>6, <1>7

LEMMA PVIndexList ==
    ASSUME TypeInv, ListInv, PVIndex
    PROVE  ListInv'
<1> DEFINE w == worker["pv"]
           c == w.obj.ref
<1>1. /\ UNCHANGED <<names, cache, events, queue>> /\ w.pc = "index" /\ Done("pv")
      /\ worker \in [Controllers -> WorkerSet] /\ "pv" \in Controllers /\ "pvc" \in Kinds
      /\ Add("pvc", c, cache[c]) \/ UNCHANGED indexes
  BY DEF PVIndex, env, TypeInv, TypeOK, WorkerSet, Controllers, Kinds
<1>2. c \in AllNames /\ IndexOf(c) = "pvc"
  BY <1>1, PVWorkerFacts, NameFacts DEF AllNames
<1>3. worker'["pv"] = Idle /\ \A l \in Controllers : l # "pv" => worker'[l] = worker[l]
  BY <1>1 DEF Done
<1>4. \A l \in Kinds : l # "pvc" => Kept(l)
  <2> HIDE DEF c
  <2>1. CASE Add("pvc", c, cache[c])
    BY <1>1, <1>2, <2>1, AddType
  <2>2. CASE UNCHANGED indexes
    BY <2>2 DEF Kept
  <2> QED BY <1>1, <2>1, <2>2
<1>5. ASSUME NEW n \in names \ PVCs, n \in AllNames, Wanted(n), Has(n) PROVE Has(n)'
  <2>1. /\ Controller(n) \in Controllers /\ IndexOf(n) \in Kinds /\ Alive(cache, n) /\ IndexOf(n) # "pvc"
        /\ (Controller(n) = "pv" <=> n \in PVs)
    BY <1>5, NameFacts DEF Wanted, AllNames
  <2>2. n \in ToSet(indexes[IndexOf(n)]) => n \in ToSet(indexes'[IndexOf(n)])
    BY <1>4, <1>5, <2>1, StaysListed
  <2>3. CASE n \notin PVs
    BY <1>1, <1>3, <1>5, <2>1, <2>2, <2>3, HasStays
  <2>4. CASE n \in PVs
    <3>1. ~At(n)' /\ ~Adds(n)
      BY <1>1, <1>3, <2>1, <2>4, PrimedAt DEF Idle, Adds
    <3> QED BY <1>1, <1>5, <2>2, <3>1, PrimedAt DEF Has
  <2> QED BY <2>3, <2>4
<1> QED BY <1>1, <1>5, ListWorker

(* PVCController changes nothing that the lists of pods and volumes need.   *)
LEMMA PVCList ==
    ASSUME TypeInv, ListInv, PVCTables \/ PVCPair
    PROVE  ListInv'
<1> DEFINE w == worker["pvc"]
<1>1. /\ UNCHANGED <<names, cache, events>> /\ w.pc # "idle" /\ "pvc" \in Controllers /\ "pvc" \in Kinds
      /\ Done("pvc") \/ Continue("pvc", "index")
      /\ UNCHANGED queue \/ Enqueue(w.name)
      /\ UNCHANGED indexes \/ Add("pvc", w.name, w.obj)
      /\ worker \in [Controllers -> WorkerSet] /\ queue \in [Controllers -> SUBSET AllNames]
  BY DEF PVCTables, PVCPair, env, Controllers, Kinds, TypeInv, TypeOK, WorkerSet
<1>2. w.name \in AllNames /\ IndexOf(w.name) = "pvc" /\ Controller(w.name) = "pvc"
  BY <1>1, PVCWorkerFacts
<1>3. \A l \in Controllers : l # "pvc" => worker'[l] = worker[l]
  BY <1>1 DEF Done, Continue
<1> HIDE DEF w
<1>4. \A l \in Kinds : l # "pvc" => Kept(l)
  <2>1. CASE Add("pvc", w.name, w.obj)
    BY <1>1, <1>2, <2>1, AddType
  <2>2. CASE UNCHANGED indexes
    BY <2>2 DEF Kept
  <2> QED BY <1>1, <2>1, <2>2
<1>5. ASSUME NEW n \in names \ PVCs, n \in AllNames, Wanted(n), Has(n) PROVE Has(n)'
  <2>1. /\ Controller(n) \in Controllers /\ IndexOf(n) \in Kinds /\ Alive(cache, n) /\ IndexOf(n) # "pvc"
        /\ Controller(n) # "pvc"
    BY <1>5, NameFacts DEF Wanted, AllNames
  <2>2. n \in ToSet(indexes[IndexOf(n)]) => n \in ToSet(indexes'[IndexOf(n)])
    BY <1>4, <1>5, <2>1, StaysListed
  <2>3. n \in queue[Controller(n)] => n \in queue'[Controller(n)]
    BY <1>1, <1>2, <2>1 DEF Enqueue
  <2> QED BY <1>1, <1>3, <1>5, <2>1, <2>2, <2>3, HasStays
<1> QED BY <1>1, <1>5, ListWorker

LEMMA RestartList ==
    ASSUME TypeInv, Restart
    PROVE  ListInv'
<1>1. /\ names' = names /\ cache' = cache /\ events' = [k \in Controllers |-> <<>>]
      /\ queue' = [k \in Controllers |-> {n \in names :
             Controller(n) = k /\ Alive(cache, n) /\ (n \in PVCs => cache[n].label \/ Pending(cache[n]))}]
  BY DEF Restart, env
<1> SUFFICES ASSUME NEW n \in names \ PVCs, Wanted(n)'
             PROVE  NotLost(n)' /\ Has(n)'
  BY <1>1 DEF ListInv
<1>2. Controller(n) \in Controllers /\ Alive(cache, n)
  BY <1>1, NameFacts DEF TypeInv, TypeOK, AllNames, Wanted, Alive
<1>3. n \in queue'[Controller(n)] /\ events'[Controller(n)] = <<>>
  BY <1>1, <1>2
<1> QED BY <1>3, SureEmpty, PrimedAt

LEMMA NextList ==
    ASSUME TypeInv, ListInv, [Next]_vars
    PROVE  ListInv'
<1>1. CASE UNCHANGED vars
  <2>1. \A n \in names \ PVCs : n \in AllNames /\ Wanted(n) /\ Has(n) => Has(n)'
    BY <1>1, HasStays DEF vars, env, api, Wanted
  <2> QED BY <1>1, <2>1, ListWorker DEF vars, env
<1>2. ASSUME NEW n \in names, Created(n) \/ Updated(n) \/ Deleted(n) \/ ReconcileGet(n) PROVE ListInv'
  BY <1>2, CreatedList, UpdatedList, DeletedList, ReconcileGetList
<1>3. ASSUME NEW c \in PVCs \cap names, NEW v \in PVs, ClaimRefSet(v, c) PROVE ListInv'
  BY <1>3, ClaimRefSetList
<1>4. ASSUME NEW c \in PVCs \cap names, NEW v \in PVs \cup {"other"},
             ClaimBound(c, v) \/ ClaimLost(c) \/ ClaimRebound(c)
      PROVE  ListInv'
  BY <1>4, ClaimList
<1> QED BY <1>1, <1>2, <1>3, <1>4, HandleEventList, PodTablesList, PodIndexList, PVTablesList, PVIndexList,
           PVCList, RestartList DEF Next

-----------------------------------------------------------------------------
(* The CSI node pod of the node *)

LEMMA NextOneCsi ==
    ASSUME TypeInv, OneCsi, [Next]_vars
    PROVE  OneCsi'
<1>1. ASSUME \A n \in AllNames : cache'[n].uid # 0 => cache[n].uid # 0 PROVE OneCsi'
  BY <1>1, NameFacts DEF OneCsi, Alive, AllNames
<1>2. CASE UNCHANGED cache
  BY <1>1, <1>2
<1>3. ASSUME NEW n \in names, NEW o, CacheStep(n, o), o.uid = 0 \/ o.uid = cache[n].uid PROVE OneCsi'
  <2>1. cache \in [AllNames -> Objects \cup {NoObj}] /\ cache' = [cache EXCEPT ![n] = o]
    BY <1>3 DEF TypeInv, TypeOK, CacheStep
  <2> QED BY <1>1, <1>3, <2>1
<1>4. ASSUME NEW n \in names, Created(n) PROVE OneCsi'
  <2>1. PICK o : CacheStep(n, o)
    BY <1>4, CreatedStep
  <2>2. cache \in [AllNames -> Objects \cup {NoObj}] /\ cache' = [cache EXCEPT ![n] = o]
    BY <2>1 DEF TypeInv, TypeOK, CacheStep
  <2>3. \A m \in Csis : m # n => cache'[m] = cache[m]
    BY <2>2, NameFacts
  <2>4. n \in Csis => \A m \in Csis : cache[m].uid = 0
    BY <1>4 DEF Created, Alive
  <2> QED BY <2>3, <2>4 DEF OneCsi, Alive
<1>5. ASSUME NEW n \in names, Updated(n) \/ Deleted(n) PROVE OneCsi'
  <2>1. NoObj.uid = 0
    BY DEF NoObj
  <2> QED BY <1>3, <1>5, <2>1, UpdatedStep, DeletedStep
<1>6. ASSUME NEW c \in PVCs \cap names, NEW v \in PVs, ClaimRefSet(v, c) PROVE OneCsi'
  BY <1>3, <1>6, ClaimRefSetStep
<1>10. ASSUME NEW c \in PVCs \cap names, NEW v \in PVs \cup {"other"},
              ClaimBound(c, v) \/ ClaimLost(c) \/ ClaimRebound(c)
       PROVE  OneCsi'
  BY <1>3, <1>10, ClaimBoundStep, ClaimLostStep, ClaimReboundStep
<1>7. ASSUME NEW n \in names, ReconcileGet(n) PROVE OneCsi'
  BY <1>2, <1>7 DEF ReconcileGet
<1>8. ASSUME NEW k \in Controllers, HandleEvent(k) PROVE OneCsi'
  BY <1>2, <1>8 DEF HandleEvent
<1>9. CASE PodTables \/ PodIndex \/ PVTables \/ PVIndex \/ PVCTables \/ PVCPair \/ Restart \/ UNCHANGED vars
  BY <1>2, <1>9 DEF PodTables, PodIndex, PVTables, PVIndex, PVCTables, PVCPair, Restart, vars, env
<1> QED BY <1>4, <1>5, <1>6, <1>7, <1>8, <1>9, <1>10 DEF Next

(* While a CSI node pod is there, no other one is.                          *)
LEMMA OnlyCsi ==
    ASSUME TypeInv, OneCsi, NEW n \in Csis, Alive(cache, n)
    PROVE  names = SysPods /\ \A m \in Csis : m # n => ~Alive(cache, m)
<1>1. n \in names
  BY NameFacts DEF TypeInv, Placed, CachePlaced
<1>2. names = SysPods
  BY <1>1, NameFacts DEF TypeInv, TypeOK
<1> QED BY <1>2 DEF OneCsi

CsiTurn(n) ==
    \/ n \in queue["pod"]
    \/ worker["pod"] = [pc |-> "tables", name |-> n, obj |-> cache[n]]
    \/ csiNodeIndex = n /\ (worker["pod"].pc = "tables" => CsiEntry(worker["pod"]) = n)

LEMMA PrimedCsi ==
    ASSUME NEW n
    PROVE  /\ CsiComes(n)' <=> Sure(events'["pod"], Announcing(n), Clearing)
           /\ NotCleared' <=> Free(events'["pod"], Clearing)
<1>1. Announcing(n)' = Announcing(n) /\ Clearing' = Clearing
  BY DEF Announcing, Clearing, EventSet, AllNames
<1> QED BY <1>1 DEF CsiComes, NotCleared, Sure, Free

(* An event that is not of the deletion of a CSI node pod.                  *)
LEMMA CsiEvent ==
    ASSUME TypeInv, NEW m \in AllNames, NEW type \in {"changed", "unbound", "delete"}, Event(type, m),
           type # "delete" \/ m \notin Csis, NEW n
    PROVE  /\ CsiComes(n) => CsiComes(n)'
           /\ NotCleared => NotCleared'
           /\ type = "changed" /\ n = m /\ n \in Csis => CsiComes(n)'
<1> DEFINE e == [type |-> type, name |-> m, label |-> type = "delete" /\ cache[m].label]
           K == Controller(m)
<1>1. /\ events \in [Controllers -> Seq(EventSet)] /\ K \in Controllers /\ "pod" \in Controllers
      /\ e \in EventSet /\ e \notin Clearing
      /\ (type = "changed" => e \in Announcing(m))
  BY NameFacts DEF TypeInv, TypeOK, EventSet, Objects, NoObj, Clearing, Announcing, Controllers
<1>2. events' = [events EXCEPT ![K] = Append(@, e)]
  BY DEF Event
<1> HIDE DEF e
<1>3. CASE K # "pod"
  <2>1. events'["pod"] = events["pod"]
    BY <1>1, <1>2, <1>3
  <2>2. n = m => n \notin Csis
    BY <1>3, NameFacts
  <2> QED BY <2>1, <2>2, PrimedCsi DEF CsiComes, NotCleared
<1>4. CASE K = "pod"
  <2>1. events'["pod"] = Append(events["pod"], e) /\ events["pod"] \in Seq(EventSet) /\ e \notin Clearing
    BY <1>1, <1>2, <1>4
  <2>2. /\ e \in Announcing(n) => Sure(events'["pod"], Announcing(n), Clearing)
        /\ Sure(events["pod"], Announcing(n), Clearing) => Sure(events'["pod"], Announcing(n), Clearing)
        /\ Free(events["pod"], Clearing) => Free(events'["pod"], Clearing)
    BY <1>1, <2>1, SureAppend
  <2> QED BY <1>1, <2>2, PrimedCsi DEF CsiComes, NotCleared
<1> QED BY <1>3, <1>4

(* The cache changes: the pod itself is announced, others are no CSI node   *)
(* pods that go.                                                            *)
LEMMA CsiCache ==
    ASSUME TypeInv, CsiInv, NEW m \in names, NEW o, CacheStep(m, o), UNCHANGED <<names, queue, worker, api>>,
           \/ UNCHANGED events
           \/ \E type \in {"changed", "unbound", "delete"} :
                 Event(type, m) /\ (type = "delete" /\ m \in Csis => \A n \in Csis : ~Alive(cache', n)),
           m \in Csis => Event("changed", m) \/ ~Alive(cache', m)
    PROVE  CsiInv'
<1> SUFFICES ASSUME NEW n \in Csis, Wanted(n)', cache'[n].label
             PROVE  CsiComes(n)' \/ (NotCleared' /\ CsiTurn(n)')
  BY DEF CsiInv, CsiTurn
<1>1. m \in AllNames /\ n \in AllNames /\ cache \in [AllNames -> Objects \cup {NoObj}]
      /\ cache' = [cache EXCEPT ![m] = o]
  BY NameFacts DEF TypeInv, TypeOK, CacheStep, AllNames
<1>2. Alive(cache', n)
  BY DEF Wanted, Alive
<1>3. CASE n = m
  <2>1. Event("changed", m)
    BY <1>2, <1>3
  <2> QED BY <1>1, <1>3, <2>1, CsiEvent
<1>4. CASE n # m
  <2>1. cache'[n] = cache[n]
    BY <1>1, <1>4
  <2>2. Wanted(n) /\ cache[n].label
    BY <2>1 DEF Wanted, Alive
  <2>3. CsiComes(n) \/ (NotCleared /\ CsiTurn(n))
    BY <2>2 DEF CsiInv, CsiTurn
  <2>4. (CsiComes(n) => CsiComes(n)') /\ (NotCleared => NotCleared')
    <3>1. CASE UNCHANGED events
      BY <3>1, PrimedCsi DEF CsiComes, NotCleared
    <3>2. ASSUME NEW type \in {"changed", "unbound", "delete"}, Event(type, m),
                 type = "delete" /\ m \in Csis => \A l \in Csis : ~Alive(cache', l)
          PROVE  (CsiComes(n) => CsiComes(n)') /\ (NotCleared => NotCleared')
      <4>1. type # "delete" \/ m \notin Csis
        BY <1>2, <3>2
      <4> QED BY <1>1, <3>2, <4>1, CsiEvent
    <3> QED BY <3>1, <3>2
  <2>5. CsiTurn(n) => CsiTurn(n)'
    BY <2>1 DEF CsiTurn, CsiEntry, isCsiNode, api
  <2> QED BY <2>3, <2>4, <2>5
<1> QED BY <1>3, <1>4

LEMMA CacheCsi ==
    ASSUME TypeInv, OneCsi, CsiInv, NEW n \in names, Created(n) \/ Updated(n) \/ Deleted(n)
    PROVE  CsiInv'
<1>1. n \in AllNames /\ UNCHANGED <<names, queue, worker, api>>
  BY DEF Created, Updated, Deleted, env, TypeInv, TypeOK, AllNames
<1>2. CASE Created(n)
  BY <1>1, <1>2, CreatedStep, CsiCache DEF Created
<1>3. CASE Updated(n)
  <2>1. Event("changed", n) \/ (n \notin Csis /\ UNCHANGED events)
    BY <1>3, NameFacts DEF Updated
  <2> QED BY <1>1, <1>3, <2>1, UpdatedStep, CsiCache
<1>4. CASE Deleted(n)
  <2>1. CacheStep(n, NoObj) /\ Event("delete", n) /\ Alive(cache, n)
    BY <1>4, DeletedStep DEF Deleted
  <2>2. cache \in [AllNames -> Objects \cup {NoObj}] /\ cache' = [cache EXCEPT ![n] = NoObj]
    BY <2>1 DEF TypeInv, TypeOK, CacheStep
  <2>3. ASSUME n \in Csis, NEW m \in Csis PROVE ~Alive(cache', m)
    <3>1. m \in AllNames /\ (m = n \/ ~Alive(cache, m))
      BY <2>1, <2>3, OnlyCsi, NameFacts
    <3> QED BY <1>1, <2>2, <3>1 DEF Alive, NoObj
  <2> QED BY <1>1, <2>1, <2>3, CsiCache
<1> QED BY <1>2, <1>3, <1>4

LEMMA ClaimRefSetCsi ==
    ASSUME TypeInv, CsiInv, NEW c \in PVCs \cap names, NEW v \in PVs, ClaimRefSet(v, c)
    PROVE  CsiInv'
<1>1. v \notin Csis
  BY NameFacts
<1>2. UNCHANGED <<names, queue, worker, api, events>>
  BY DEF ClaimRefSet, env
<1> QED BY <1>1, <1>2, ClaimRefSetStep, CsiCache

LEMMA ClaimCsi ==
    ASSUME TypeInv, CsiInv, NEW c \in PVCs \cap names, NEW v \in PVs \cup {"other"},
           ClaimBound(c, v) \/ ClaimLost(c) \/ ClaimRebound(c)
    PROVE  CsiInv'
<1>1. c \notin Csis
  BY NameFacts
<1>2. CASE ClaimRebound(c)
  <2>1. UNCHANGED <<names, queue, worker, api, events>>
    BY <1>2 DEF ClaimRebound, env
  <2> QED BY <1>1, <1>2, <2>1, ClaimReboundStep, CsiCache
<1>3. CASE ClaimBound(c, v)
  <2>1. UNCHANGED <<names, queue, worker, api>> /\ Event("changed", c)
    BY <1>3 DEF ClaimBound, env
  <2> QED BY <1>1, <1>3, <2>1, ClaimBoundStep, CsiCache
<1>4. CASE ClaimLost(c)
  <2>1. UNCHANGED <<names, queue, worker, api>> /\ Event("unbound", c)
    BY <1>4 DEF ClaimLost, env
  <2> QED BY <1>1, <1>4, <2>1, ClaimLostStep, CsiCache
<1> QED BY <1>2, <1>3, <1>4

LEMMA HandleEventCsi ==
    ASSUME TypeInv, CsiInv, NEW k \in Controllers, HandleEvent(k)
    PROVE  CsiInv'
<1> DEFINE e == Head(events[k])
<1>1. /\ events[k] # <<>> /\ e \in EventSet /\ Controller(e.name) = k
      /\ UNCHANGED <<names, left, cache, worker, leftover, rebound>>
      /\ \/ e \in Announcing(e.name) /\ Changed(e.name)
         \/ e.type = "unbound" /\ e.name \in PVCs /\ Unbound(e.name)
         \/ e.type = "delete" /\ e.name \in Pods /\ PodDeleteFunc(e.name, e.label)
         \/ e.type = "delete" /\ e.name \in PVCs /\ PVCDeleteFunc(e.name)
  BY HandleEventCases
<1>2. /\ events \in [Controllers -> Seq(EventSet)] /\ events' = [events EXCEPT ![k] = Tail(@)]
      /\ queue \in [Controllers -> SUBSET AllNames] /\ "pod" \in Controllers
  BY DEF HandleEvent, TypeInv, TypeOK, EventSet, Controllers
<1> HIDE DEF e
<1>3. e.name \in AllNames
  BY <1>1 DEF EventSet
<1> SUFFICES ASSUME NEW n \in Csis, Wanted(n)', cache'[n].label
             PROVE  CsiComes(n)' \/ (NotCleared' /\ CsiTurn(n)')
  BY DEF CsiInv, CsiTurn
<1>4. Wanted(n) /\ cache[n].label /\ n \in AllNames
  BY <1>1, NameFacts DEF Wanted, Alive
<1>5. CsiComes(n) \/ (NotCleared /\ CsiTurn(n))
  BY <1>4 DEF CsiInv, CsiTurn
<1>6. CsiTurn(n) /\ e \notin Clearing => CsiTurn(n)'
  <2> SUFFICES ASSUME CsiTurn(n), e \notin Clearing PROVE CsiTurn(n)'
    OBVIOUS
  <2>1. e.type = "delete" => e.name \notin Csis
    BY <1>1 DEF Clearing
  <2>2. UNCHANGED csiNodeIndex /\ (UNCHANGED queue \/ Enqueue(e.name))
    BY <1>1, <2>1 DEF Changed, api, Unbound, PVCDeleteFunc, PodDeleteFunc, isCsiNode
  <2>3. queue["pod"] \subseteq queue'["pod"]
    BY <1>1, <1>2, <2>2 DEF Enqueue
  <2> QED BY <1>1, <2>2, <2>3 DEF CsiTurn, CsiEntry, isCsiNode
<1>7. CASE k # "pod"
  <2>1. events'["pod"] = events["pod"]
    BY <1>2, <1>7
  <2>2. e \notin Clearing
    BY <1>1, <1>7, NameFacts DEF Clearing
  <2> QED BY <1>5, <1>6, <2>1, <2>2, PrimedCsi DEF CsiComes, NotCleared
<1>8. CASE k = "pod"
  <2> DEFINE es == events["pod"]
  <2>1. events'["pod"] = Tail(es) /\ es \in Seq(EventSet) /\ es # <<>>
    BY <1>1, <1>2, <1>8
  <2>2. /\ Sure(es, Announcing(n), Clearing) =>
              Sure(Tail(es), Announcing(n), Clearing) \/ (Head(es) \in Announcing(n) /\ Free(Tail(es), Clearing))
        /\ Free(es, Clearing) => Free(Tail(es), Clearing) /\ Head(es) \notin Clearing
    BY <2>1, SureTail
  <2>3. /\ CsiComes(n) => CsiComes(n)' \/ (e \in Announcing(n) /\ NotCleared')
        /\ NotCleared => NotCleared' /\ e \notin Clearing
    BY <1>8, <2>1, <2>2, PrimedCsi DEF CsiComes, NotCleared, e
  <2>5. e \in Announcing(n) => CsiTurn(n)'
    <3> SUFFICES ASSUME e \in Announcing(n) PROVE CsiTurn(n)'
      OBVIOUS
    <3>1. e.name = n /\ e.type = "changed"
      BY NameFacts DEF Announcing
    <3>2. Changed(n)
      BY <1>1, <3>1
    <3>3. n \in queue'["pod"]
      BY <1>1, <1>2, <1>8, <3>1, <3>2 DEF Changed, Enqueue
    <3> QED BY <3>3 DEF CsiTurn
  <2> QED BY <1>5, <1>6, <2>3, <2>5
<1> QED BY <1>7, <1>8

(* A step of a worker: the events stay.                                     *)
LEMMA CsiWorker ==
    ASSUME TypeInv, CsiInv, UNCHANGED <<names, cache, events>>,
           \A n \in Csis : Wanted(n) /\ cache[n].label /\ CsiTurn(n) => CsiTurn(n)'
    PROVE  CsiInv'
<1> SUFFICES ASSUME NEW n \in Csis, Wanted(n)', cache'[n].label
             PROVE  CsiComes(n)' \/ (NotCleared' /\ CsiTurn(n)')
  BY DEF CsiInv, CsiTurn
<1>1. Wanted(n) /\ cache[n].label
  BY DEF Wanted, Alive
<1>2. CsiComes(n) \/ (NotCleared /\ CsiTurn(n))
  BY <1>1 DEF CsiInv, CsiTurn
<1>3. (CsiComes(n) => CsiComes(n)') /\ (NotCleared => NotCleared')
  BY PrimedCsi DEF CsiComes, NotCleared
<1> QED BY <1>1, <1>2, <1>3

LEMMA ReconcileGetCsi ==
    ASSUME TypeInv, OneCsi, CsiInv, NEW m \in names, ReconcileGet(m)
    PROVE  CsiInv'
<1> DEFINE k == Controller(m)
<1>1. /\ m \in AllNames /\ k \in Controllers /\ worker[k] = Idle /\ UNCHANGED <<names, cache, events, csiNodeIndex>>
      /\ queue' = [queue EXCEPT ![k] = @ \ {m}] /\ "pod" \in Controllers
      /\ \/ Alive(cache, m) /\ worker' = [worker EXCEPT ![k] = [pc |-> "tables", name |-> m, obj |-> cache[m]]]
         \/ (~Alive(cache, m) \/ (m \in Apps /\ ~cache[m].label)) /\ UNCHANGED worker
      /\ queue \in [Controllers -> SUBSET AllNames] /\ worker \in [Controllers -> WorkerSet]
  BY NameFacts DEF ReconcileGet, env, TypeInv, TypeOK, AllNames, WorkerSet, Controllers
<1> HIDE DEF k
<1>2. ASSUME NEW n \in Csis, Wanted(n), CsiTurn(n) PROVE CsiTurn(n)'
  <2>1. Alive(cache, n) /\ n \notin Apps /\ Controller(n) = "pod"
    BY <1>2, NameFacts DEF Wanted
  <2>2. names = SysPods /\ \A l \in Csis : l # n => ~Alive(cache, l)
    BY <2>1, OnlyCsi
  <2>3. CASE m = n
    <3>1. worker'["pod"] = [pc |-> "tables", name |-> n, obj |-> cache[n]]
      BY <1>1, <2>1, <2>3 DEF k
    <3> QED BY <1>1, <3>1 DEF CsiTurn
  <2>4. CASE m # n
    <3>1. n \in queue["pod"] => n \in queue'["pod"]
      BY <1>1, <2>4
    <3>2. k = "pod" /\ worker["pod"] = Idle /\ Idle.pc # "tables"
      BY <1>1, <2>2, NameFacts DEF k, Idle
    <3>3. worker'["pod"].pc = "tables" => CsiEntry(worker'["pod"]) = csiNodeIndex
      <4>1. CASE Alive(cache, m)
        <5>1. m \notin Csis
          BY <2>2, <2>4, <4>1
        <5>2. UNCHANGED worker \/ worker'["pod"].name = m
          BY <1>1, <3>2
        <5> QED BY <3>2, <5>1, <5>2 DEF CsiEntry, isCsiNode
      <4>2. CASE UNCHANGED worker
        BY <3>2, <4>2
      <4> QED BY <1>1, <4>1, <4>2
    <3>4. worker["pod"] # [pc |-> "tables", name |-> n, obj |-> cache[n]]
      BY <3>2
    <3> QED BY <1>1, <1>2, <3>1, <3>3, <3>4 DEF CsiTurn, CsiEntry, isCsiNode
  <2> QED BY <2>3, <2>4
<1> QED BY <1>1, <1>2, CsiWorker

LEMMA PodTablesCsi ==
    ASSUME TypeInv, CsiInv, PodTables
    PROVE  CsiInv'
<1> DEFINE w == worker["pod"]
<1>1. /\ UNCHANGED <<names, cache, events, queue>> /\ w.pc = "tables" /\ csiNodeIndex' = CsiEntry(w)
      /\ Done("pod") \/ Continue("pod", "index")
      /\ worker \in [Controllers -> WorkerSet] /\ "pod" \in Controllers
  BY DEF PodTables, env, TypeInv, TypeOK, WorkerSet, Controllers
<1>2. w \in [pc: {"tables", "index"}, name: AllNames, obj: Objects]
  BY <1>1, WorkerFacts
<1>3. worker'["pod"].pc # "tables"
  BY <1>1, <1>2 DEF Done, Continue, Idle
<1> HIDE DEF w
<1>4. ASSUME NEW n \in Csis, Wanted(n), cache[n].label, CsiTurn(n) PROVE CsiTurn(n)'
  <2>1. CASE n \in queue["pod"]
    BY <1>1, <2>1 DEF CsiTurn
  <2>2. CASE w = [pc |-> "tables", name |-> n, obj |-> cache[n]]
    <3>1. CsiEntry(w) = n
      BY <1>4, <2>2 DEF CsiEntry, isCsiNode, Wanted
    <3> QED BY <1>1, <1>3, <3>1 DEF CsiTurn
  <2>3. CASE CsiEntry(w) = n
    BY <1>1, <1>3, <2>3 DEF CsiTurn
  <2> QED BY <1>1, <1>4, <2>1, <2>2, <2>3 DEF CsiTurn, w
<1> QED BY <1>1, <1>4, CsiWorker

LEMMA OtherWorkersCsi ==
    ASSUME TypeInv, CsiInv, PodIndex \/ PVTables \/ PVIndex \/ PVCTables \/ PVCPair \/ UNCHANGED vars
    PROVE  CsiInv'
<1>1. /\ worker \in [Controllers -> WorkerSet] /\ queue \in [Controllers -> SUBSET AllNames]
      /\ {"pod", "pv", "pvc"} \subseteq Controllers
  BY DEF TypeInv, TypeOK, WorkerSet, Controllers
<1>2. UNCHANGED <<names, cache, events, csiNodeIndex>>
  BY DEF PodIndex, PVTables, PVIndex, PVCTables, PVCPair, vars, env, api
<1>3. queue["pod"] \subseteq queue'["pod"]
  <2>1. CASE PVCTables
    <3>1. worker["pvc"].pc # "idle"
      BY <2>1 DEF PVCTables
    <3>2. Controller(worker["pvc"].name) = "pvc"
      BY <3>1, PVCWorkerFacts
    <3>3. UNCHANGED queue \/ Enqueue(worker["pvc"].name)
      BY <2>1 DEF PVCTables
    <3> QED BY <1>1, <3>2, <3>3 DEF Enqueue
  <2> QED BY <2>1 DEF PodIndex, PVTables, PVIndex, PVCPair, vars
<1>4. worker'["pod"] = worker["pod"] \/ (worker["pod"].pc = "index" /\ worker'["pod"] = Idle)
  <2>1. CASE PodIndex
    BY <1>1, <2>1 DEF PodIndex, Done
  <2>2. CASE PVTables \/ PVIndex \/ PVCTables \/ PVCPair
    <3>1. \E k \in {"pv", "pvc"} : Done(k) \/ Continue(k, "index")
      BY <2>2 DEF PVTables, PVIndex, PVCTables, PVCPair
    <3> QED BY <1>1, <3>1 DEF Done, Continue
  <2> QED BY <2>1, <2>2 DEF vars
<1>5. ASSUME NEW n \in Csis, CsiTurn(n) PROVE CsiTurn(n)'
  BY <1>2, <1>3, <1>4, <1>5 DEF CsiTurn, CsiEntry, isCsiNode, Idle
<1> QED BY <1>2, <1>5, CsiWorker

LEMMA RestartCsi ==
    ASSUME TypeInv, Restart
    PROVE  CsiInv'
<1>1. /\ names' = names /\ cache' = cache /\ events' = [k \in Controllers |-> <<>>]
      /\ queue' = [k \in Controllers |-> {n \in names :
             Controller(n) = k /\ Alive(cache, n) /\ (n \in PVCs => cache[n].label \/ Pending(cache[n]))}]
      /\ "pod" \in Controllers
  BY DEF Restart, env, Controllers
<1> SUFFICES ASSUME NEW n \in Csis, Wanted(n)'
             PROVE  NotCleared' /\ CsiTurn(n)'
  BY DEF CsiInv, CsiTurn
<1>2. n \in AllNames /\ Controller(n) = "pod" /\ Alive(cache, n) /\ n \notin PVCs
  BY <1>1, NameFacts DEF Wanted, Alive
<1>3. n \in names
  BY <1>2 DEF TypeInv, Placed, CachePlaced
<1>4. n \in queue'["pod"] /\ events'["pod"] = <<>>
  BY <1>1, <1>2, <1>3
<1> QED BY <1>4, SureEmpty, PrimedCsi DEF CsiTurn

LEMMA NextCsi ==
    ASSUME TypeInv, OneCsi, CsiInv, [Next]_vars
    PROVE  CsiInv'
<1>1. ASSUME NEW n \in names, Created(n) \/ Updated(n) \/ Deleted(n) \/ ReconcileGet(n) PROVE CsiInv'
  BY <1>1, CacheCsi, ReconcileGetCsi
<1>2. ASSUME NEW c \in PVCs \cap names, NEW v \in PVs, ClaimRefSet(v, c) PROVE CsiInv'
  BY <1>2, ClaimRefSetCsi
<1>3. ASSUME NEW c \in PVCs \cap names, NEW v \in PVs \cup {"other"},
             ClaimBound(c, v) \/ ClaimLost(c) \/ ClaimRebound(c)
      PROVE  CsiInv'
  BY <1>3, ClaimCsi
<1> QED BY <1>1, <1>2, <1>3, HandleEventCsi, PodTablesCsi, OtherWorkersCsi, RestartCsi DEF Next

-----------------------------------------------------------------------------
(* The order of creation *)

(* Entries keep their age, or go.                                           *)
LEMMA OrderAge ==
    ASSUME NEW s \in Seq(AllNames), NEW old, NEW new, InOrder(s, old),
           \A m \in ToSet(s) : new[m].uid # 0 => old[m].uid # 0 /\ new[m].born = old[m].born
    PROVE  InOrder(s, new)
<1>1. \A i \in 1..Len(s) : s[i] \in ToSet(s)
  BY LenProperties DEF ToSet
<1> QED BY <1>1 DEF InOrder, Alive

LEMMA OrderCache ==
    ASSUME TypeInv, TimeOrdered, UNCHANGED indexes, leftover => leftover',
           ~leftover' => \A k \in Kinds : \A m \in ToSet(indexes[k]) :
              cache'[m].uid # 0 => cache[m].uid # 0 /\ cache'[m].born = cache[m].born
    PROVE  TimeOrdered'
<1> SUFFICES ASSUME ~leftover', NEW k \in Kinds PROVE InOrder(indexes'[k], cache')
  BY DEF TimeOrdered, Kinds
<1>1. indexes[k] \in Seq(AllNames) /\ InOrder(indexes[k], cache)
  BY DEF TypeInv, TypeOK, TimeOrdered, Kinds
<1>2. InOrder(indexes[k], cache')
  BY <1>1, OrderAge
<1> QED BY <1>2

LEMMA CacheOrder ==
    ASSUME TypeInv, TimeOrdered, NEW n \in names, NEW o, CacheStep(n, o), UNCHANGED indexes,
           leftover => leftover', o.uid = 0 \/ (o.uid = cache[n].uid /\ Since(cache[n], o))
    PROVE  TimeOrdered'
<1>1. n \in AllNames /\ cache \in [AllNames -> Objects \cup {NoObj}] /\ cache' = [cache EXCEPT ![n] = o]
  BY DEF TypeInv, TypeOK, CacheStep, AllNames
<1>2. ASSUME NEW k \in Kinds, NEW m \in ToSet(indexes[k]), cache'[m].uid # 0
      PROVE  cache[m].uid # 0 /\ cache'[m].born = cache[m].born
  <2>1. m \in AllNames
    BY DEF TypeInv, TypeOK, ToSet, Kinds
  <2> QED BY <1>1, <1>2, <2>1 DEF Since
<1> QED BY <1>2, OrderCache

LEMMA CreatedOrder ==
    ASSUME TypeInv, TimeOrdered, NEW n \in names, Created(n)
    PROVE  TimeOrdered'
<1>1. PICK o : CacheStep(n, o)
  BY CreatedStep
<1>2. n \in AllNames /\ cache \in [AllNames -> Objects \cup {NoObj}] /\ cache' = [cache EXCEPT ![n] = o]
  BY <1>1 DEF TypeInv, TypeOK, CacheStep, AllNames
<1>3. UNCHANGED indexes /\ (leftover => leftover') /\ (~leftover' => n \notin ToSet(indexes[IndexOf(n)]))
  BY DEF Created, api
<1>4. ASSUME ~leftover', NEW k \in Kinds, NEW m \in ToSet(indexes[k])
      PROVE  cache'[m] = cache[m]
  <2>1. m \in AllNames /\ IndexOf(m) = k
    BY DEF TypeInv, TypeOK, Placed, IndexPlaced, ToSet, Kinds
  <2>2. m # n
    BY <1>3, <1>4, <2>1
  <2> QED BY <1>2, <2>1, <2>2
<1> QED BY <1>3, <1>4, OrderCache

LEMMA RemoveOrder ==
    ASSUME TypeInv, TimeOrdered, UNCHANGED cache, leftover => leftover',
           \A k \in Kinds : Kept(k) \/ \E x : Loses(k, x)
    PROVE  TimeOrdered'
<1> SUFFICES ASSUME ~leftover', NEW k \in Kinds PROVE InOrder(indexes'[k], cache)
  BY DEF TimeOrdered, Kinds
<1>1. indexes[k] \in Seq(AllNames) /\ InOrder(indexes[k], cache)
  BY DEF TypeInv, TypeOK, TimeOrdered, Kinds
<1>2. \A x : InOrder(removeIndex(indexes[k], x), cache)
  BY <1>1, RemoveIndexOrder
<1> QED BY <1>1, <1>2 DEF Kept, Loses

LEMMA AddOrder ==
    ASSUME TypeInv, TimeOrdered, UNCHANGED cache, NEW k \in Kinds, NEW n \in AllNames, IndexOf(n) = k,
           NEW obj, Add(k, n, obj), cache[n].uid = obj.uid => obj.born = cache[n].born
    PROVE  TimeOrdered'
<1> SUFFICES ASSUME ~leftover', NEW l \in Kinds PROVE InOrder(indexes'[l], cache)
  BY DEF TimeOrdered, Kinds
<1>1. ~leftover /\ cache[n].uid = obj.uid /\ \A m \in ToSet(indexes[k]) : Alive(cache, m)
  BY DEF Add
<1>2. indexes[l] \in Seq(AllNames) /\ InOrder(indexes[l], cache)
  BY <1>1 DEF TypeInv, TypeOK, TimeOrdered, Kinds
<1>3. Gains(k, n, obj) /\ (l # k => Kept(l))
  BY AddType
<1>4. CASE l # k
  BY <1>2, <1>3, <1>4 DEF Kept
<1>5. CASE l = k
  <2>1. \A m \in AllNames : cache[m].born \in Int
    BY DashboardAssumption DEF TypeInv, TypeOK, Objects, NoObj
  <2>2. InOrder(addIndex(indexes[k], cache, n, obj), cache)
    BY <1>1, <1>2, <1>5, <2>1, AddIndexOrder
  <2> QED BY <1>3, <1>5, <2>2 DEF Gains
<1> QED BY <1>4, <1>5

(* A worker's object is as old as the one in the cache with its uid.        *)
LEMMA WorkerAge ==
    ASSUME TypeInv, NEW k \in Controllers, worker[k].pc # "idle"
    PROVE  /\ worker[k].name \in AllNames
           /\ cache[worker[k].name].uid = worker[k].obj.uid => worker[k].obj.born = cache[worker[k].name].born
BY WorkerFacts DEF TypeInv, WorkerUid, Since

LEMMA NextOrder ==
    ASSUME TypeInv, TimeOrdered, [Next]_vars
    PROVE  TimeOrdered'
<1>0. indexes \in [Kinds -> Seq(AllNames)]
  BY DEF TypeInv, TypeOK, Kinds
<1>1. ASSUME UNCHANGED <<cache, indexes, leftover>> PROVE TimeOrdered'
  BY <1>1, OrderCache
<1>2. ASSUME NEW n \in names, Updated(n) \/ Deleted(n) PROVE TimeOrdered'
  <2>1. UNCHANGED <<indexes, leftover>> /\ NoObj.uid = 0
    BY <1>2 DEF Updated, Deleted, api, NoObj
  <2> QED BY <1>2, <2>1, UpdatedStep, DeletedStep, CacheOrder
<1>13. ASSUME NEW c \in PVCs \cap names, NEW v \in PVs, ClaimRefSet(v, c) PROVE TimeOrdered'
  <2>1. UNCHANGED indexes /\ (leftover => leftover')
    BY <1>13 DEF ClaimRefSet, api
  <2> QED BY <1>13, <2>1, ClaimRefSetStep, CacheOrder
<1>3. ASSUME NEW c \in PVCs \cap names, NEW v \in PVs \cup {"other"},
             ClaimBound(c, v) \/ ClaimLost(c) \/ ClaimRebound(c)
      PROVE  TimeOrdered'
  <2>2. CASE ClaimRebound(c)
    <3>1. UNCHANGED indexes /\ (leftover => leftover')
      BY <2>2 DEF ClaimRebound, api
    <3> QED BY <2>2, <3>1, ClaimReboundStep, CacheOrder
  <2>3. CASE ClaimBound(c, v)
    <3>1. UNCHANGED indexes /\ (leftover => leftover')
      BY <2>3 DEF ClaimBound, api
    <3> QED BY <2>3, <3>1, ClaimBoundStep, CacheOrder
  <2>4. CASE ClaimLost(c)
    <3>1. UNCHANGED indexes /\ (leftover => leftover')
      BY <2>4 DEF ClaimLost, api
    <3> QED BY <2>4, <3>1, ClaimLostStep, CacheOrder
  <2> QED BY <1>3, <2>2, <2>3, <2>4
<1>4. ASSUME NEW k \in Controllers, HandleEvent(k) PROVE TimeOrdered'
  <2> DEFINE e == Head(events[k])
  <2>1. /\ UNCHANGED <<cache, leftover>>
        /\ Changed(e.name) \/ Unbound(e.name) \/ PodDeleteFunc(e.name, e.label) \/ PVCDeleteFunc(e.name)
    BY <1>4, HandleEventCases
  <2> HIDE DEF e
  <2>2. \/ UNCHANGED indexes
        \/ indexes' = [indexes EXCEPT ![IndexOf(e.name)] = removeIndex(@, e.name)]
        \/ indexes' = [indexes EXCEPT !["pvc"] = removeIndex(@, e.name)]
    BY <2>1 DEF Changed, api, Unbound, PodDeleteFunc, PVCDeleteFunc
  <2>3. \A l \in Kinds : Kept(l) \/ Loses(l, e.name)
    BY <1>0, <2>2 DEF Kept, Loses
  <2> QED BY <2>1, <2>3, RemoveOrder
<1>5. ASSUME NEW n \in names, ReconcileGet(n) PROVE TimeOrdered'
  <2>1. /\ UNCHANGED <<cache, leftover>>
        /\ UNCHANGED indexes \/ indexes' = [indexes EXCEPT !["pv"] = removeIndex(@, n)]
    BY <1>5 DEF ReconcileGet
  <2>2. \A l \in Kinds : Kept(l) \/ Loses(l, n)
    BY <1>0, <2>1 DEF Kept, Loses
  <2> QED BY <2>1, <2>2, RemoveOrder
<1>6. CASE PodTables
  <2> DEFINE x == worker["pod"].name
  <2>1. /\ UNCHANGED <<cache, leftover>>
        /\ UNCHANGED indexes \/ indexes' = [indexes EXCEPT !["app"] = removeIndex(@, x)]
    BY <1>6 DEF PodTables
  <2> HIDE DEF x
  <2>2. \A l \in Kinds : Kept(l) \/ Loses(l, x)
    BY <1>0, <2>1 DEF Kept, Loses
  <2> QED BY <2>1, <2>2, RemoveOrder
<1>7. CASE PodIndex
  <2> DEFINE w == worker["pod"]
  <2>1. UNCHANGED cache /\ Add(IndexOf(w.name), w.name, w.obj) /\ w.pc # "idle" /\ "pod" \in Controllers
    BY <1>7 DEF PodIndex, Controllers
  <2>2. w.name \in AllNames /\ (cache[w.name].uid = w.obj.uid => w.obj.born = cache[w.name].born)
    BY <2>1, WorkerAge
  <2> HIDE DEF w
  <2>3. IndexOf(w.name) \in Kinds
    BY <2>2, NameFacts
  <2> QED BY <2>1, <2>2, <2>3, AddOrder
<1>8. CASE PVTables
  <2> DEFINE w == worker["pv"]
  <2>1. UNCHANGED cache /\ w.pc # "idle" /\ "pv" \in Controllers /\ "pv" \in Kinds
    BY <1>8 DEF PVTables, Controllers, Kinds
  <2>2. CASE w.obj.deleting
    <3>1. leftover => leftover'
      BY <1>8, <2>2 DEF PVTables
    <3>2. \A l \in Kinds : Kept(l) \/ \E x : Loses(l, x)
      BY <1>8, <2>2, PVTablesGone DEF Kinds
    <3> QED BY <2>1, <3>1, <3>2, RemoveOrder
  <2>3. CASE ~w.obj.deleting
    <3>1. Add("pv", w.name, w.obj)
      BY <1>8, <2>3 DEF PVTables
    <3>2. /\ w.name \in AllNames /\ (cache[w.name].uid = w.obj.uid => w.obj.born = cache[w.name].born)
          /\ IndexOf(w.name) = "pv"
      BY <2>1, WorkerAge, PVWorkerFacts
    <3> HIDE DEF w
    <3> QED BY <2>1, <3>1, <3>2, AddOrder
  <2> QED BY <2>2, <2>3
<1>9. CASE PVIndex
  <2> DEFINE c == worker["pv"].obj.ref
  <2>1. /\ UNCHANGED cache /\ worker["pv"].pc = "index" /\ "pvc" \in Kinds
        /\ Add("pvc", c, cache[c]) \/ UNCHANGED <<indexes, leftover>>
    BY <1>9 DEF PVIndex, Kinds
  <2>2. c \in AllNames /\ IndexOf(c) = "pvc"
    BY <2>1, PVWorkerFacts, NameFacts DEF AllNames
  <2> HIDE DEF c
  <2> QED BY <1>1, <2>1, <2>2, AddOrder
<1>10. CASE PVCTables
  <2> DEFINE w == worker["pvc"]
  <2>1. /\ UNCHANGED cache /\ w.pc # "idle" /\ "pvc" \in Kinds /\ "pvc" \in Controllers
        /\ Add("pvc", w.name, w.obj) \/ UNCHANGED <<indexes, leftover>>
    BY <1>10 DEF PVCTables, Kinds, Controllers
  <2>2. /\ w.name \in AllNames /\ (cache[w.name].uid = w.obj.uid => w.obj.born = cache[w.name].born)
        /\ IndexOf(w.name) = "pvc"
    BY <2>1, WorkerAge, PVCWorkerFacts
  <2> HIDE DEF w
  <2> QED BY <1>1, <2>1, <2>2, AddOrder
<1>11. CASE PVCPair \/ UNCHANGED vars
  BY <1>1, <1>11 DEF PVCPair, vars, api
<1>12. CASE Restart
  <2>1. indexes' = [k \in Kinds |-> <<>>]
    BY <1>12 DEF Restart, NewAPI, Kinds
  <2> QED BY <2>1 DEF TimeOrdered, Kinds, InOrder
<1> QED BY <1>2, <1>3, <1>4, <1>5, <1>6, <1>7, <1>8, <1>9, <1>10, <1>11, <1>12, <1>13, CreatedOrder DEF Next

-----------------------------------------------------------------------------
(* Claims and their volumes *)

LEMMA NextShared ==
    ASSUME TypeInv, SharedInv, [Next]_vars
    PROVE  SharedInv'
<1>0. cache \in [AllNames -> Objects \cup {NoObj}] /\ "none" \notin PVCs \cup PVs
      /\ PVCs \cup PVs \subseteq AllNames
  BY DashboardAssumption DEF TypeInv, TypeOK, AllNames
<1>1. ASSUME leftover => leftover', Shared(cache') => Shared(cache) PROVE SharedInv'
  BY <1>1 DEF SharedInv, Shared
<1>2. ASSUME NEW n \in names, NEW o, CacheStep(n, o), o.ref = cache[n].ref \/ o.ref = "none"
      PROVE  Shared(cache') => Shared(cache)
  <2>1. cache' = [cache EXCEPT ![n] = o] /\ n \in AllNames
    BY <1>2 DEF CacheStep, TypeInv, TypeOK, AllNames
  <2>2. \A m \in AllNames : cache'[m].ref = cache[m].ref \/ cache'[m].ref = "none"
    BY <1>0, <1>2, <2>1
  <2> QED BY <1>0, <2>2 DEF Shared
<1>3. ASSUME NEW n \in names, Created(n) PROVE SharedInv'
  <2>1. leftover' = (leftover \/ n \in ToSet(indexes[IndexOf(n)]) \/ Shared(cache'))
    BY <1>3 DEF Created
  <2> QED BY <2>1 DEF SharedInv, Shared
<1>4. ASSUME NEW n \in names, Updated(n) \/ Deleted(n) PROVE SharedInv'
  <2>1. UNCHANGED leftover /\ NoObj.ref = "none"
    BY <1>4 DEF Updated, Deleted, NoObj
  <2> QED BY <1>1, <1>2, <1>4, <2>1, UpdatedStep, DeletedStep
<1>5. ASSUME NEW c \in PVCs \cap names, NEW v \in PVs \cup {"other"}, ClaimRefSet(v, c) \/ ClaimBound(c, v)
      PROVE  SharedInv'
  <2>1. leftover' = (leftover \/ Shared(cache'))
    BY <1>5 DEF ClaimRefSet, ClaimBound
  <2> QED BY <2>1 DEF SharedInv, Shared
<1>6. ASSUME NEW c \in PVCs \cap names, ClaimLost(c) \/ ClaimRebound(c) PROVE SharedInv'
  <2>1. UNCHANGED leftover
    BY <1>6 DEF ClaimLost, ClaimRebound
  <2> QED BY <1>1, <1>2, <1>6, <2>1, ClaimLostStep, ClaimReboundStep
<1>7. ASSUME NEW n \in names, ReconcileGet(n) PROVE SharedInv'
  BY <1>1, <1>7 DEF ReconcileGet
<1>8. ASSUME NEW k \in Controllers, HandleEvent(k) PROVE SharedInv'
  BY <1>1, <1>8 DEF HandleEvent
<1>9. CASE PodTables \/ PodIndex \/ PVTables \/ PVIndex \/ PVCTables \/ PVCPair \/ UNCHANGED vars
  <2>1. UNCHANGED cache
    BY <1>9 DEF PodTables, PodIndex, PVTables, PVIndex, PVCTables, PVCPair, vars
  <2>2. CASE PodTables \/ PVCPair \/ UNCHANGED vars
    BY <1>1, <2>1, <2>2 DEF PodTables, PVCPair, vars
  <2>3. CASE PodIndex \/ PVIndex \/ PVCTables
    <3>1. leftover => leftover'
      BY <2>3 DEF PodIndex, PVIndex, PVCTables, Add
    <3> QED BY <1>1, <2>1, <3>1
  <2>4. CASE PVTables
    <3>1. leftover => leftover'
      BY <2>4 DEF PVTables, Add
    <3> QED BY <1>1, <2>1, <3>1
  <2> QED BY <1>9, <2>2, <2>3, <2>4
<1>10. CASE Restart
  BY <1>10 DEF Restart, SharedInv, Shared
<1> QED BY <1>3, <1>4, <1>5, <1>6, <1>7, <1>8, <1>9, <1>10 DEF Next

(* A Bound claim is there and has the name of a volume, maybe of another    *)
(* driver.                                                                  *)
LEMMA LabelFacts ==
    ASSUME TypeInv, NEW c \in PVCs, cache[c].label
    PROVE  /\ c \in AllNames /\ c \in names /\ Controller(c) = "pvc" /\ Alive(cache, c) /\ cache[c] \in Objects
           /\ cache[c].ref \in PVs \cup {"other"} /\ cache[c].ref # c /\ cache[c].ref # "none"
           /\ cache[c].ref \in PVs => cache[c].ref \in AllNames /\ Controller(cache[c].ref) = "pv"
<1>1. c \in AllNames /\ cache[c] \in Objects
  BY DEF TypeInv, TypeOK, AllNames, NoObj
<1>2. Alive(cache, c)
  BY <1>1, DashboardAssumption DEF Objects, Alive
<1>3. cache[c].ref \in PVs \cup {"other"} /\ c \in names
  BY <1>1, <1>2, NameFacts DEF TypeInv, Placed, CachePlaced, RefsOf
<1> QED BY <1>1, <1>2, <1>3, NameFacts DEF AllNames

LEMMA BoundFacts ==
    ASSUME TypeInv, NEW c \in PVCs, BoundClaim(c)
    PROVE  /\ c \in AllNames /\ c \in names /\ Controller(c) = "pvc" /\ Alive(cache, c) /\ cache[c] \in Objects
           /\ cache[c].ref \in PVs \cup {"other"} /\ cache[c].ref # c /\ cache[c].ref # "none"
           /\ cache[c].ref \in PVs => cache[c].ref \in AllNames /\ Controller(cache[c].ref) = "pv"
BY LabelFacts DEF BoundClaim

LEMMA PrimedPair ==
    ASSUME NEW c \in PVCs, NEW v
    PROVE  /\ BoundClaim(c)' <=> cache'[c].label /\ ~cache'[c].deleting /\ c \notin rebound'
           /\ HasClaim(c)' <=> /\ worker'["pvc"].pc # "idle" /\ worker'["pvc"].name = c
                               /\ worker'["pvc"].obj.uid = cache'[c].uid
                               /\ worker'["pvc"].obj.label /\ worker'["pvc"].obj.ref = cache'[c].ref
           /\ HasClaim(c) <=> /\ worker["pvc"].pc # "idle" /\ worker["pvc"].name = c
                              /\ worker["pvc"].obj.uid = cache[c].uid
                              /\ worker["pvc"].obj.label /\ worker["pvc"].obj.ref = cache[c].ref
           /\ At(c)' <=> worker'["pvc"].pc # "idle" /\ worker'["pvc"].name = c
           /\ At(c) <=> worker["pvc"].pc # "idle" /\ worker["pvc"].name = c
           /\ v \in PVs => (VolumeComes(v, c)' <=>
                 /\ cache'[v].ref = c
                 /\ \/ Comes(v)'
                    \/ v \in queue'["pv"]
                    \/ /\ worker'["pv"].pc = "tables" /\ worker'["pv"].name = v
                       /\ worker'["pv"].obj.uid = cache'[v].uid /\ worker'["pv"].obj.ref = c)
           /\ v \in PVs => (VolumeComes(v, c) <=>
                 /\ cache[v].ref = c
                 /\ \/ Comes(v)
                    \/ v \in queue["pv"]
                    \/ /\ worker["pv"].pc = "tables" /\ worker["pv"].name = v
                       /\ worker["pv"].obj.uid = cache[v].uid /\ worker["pv"].obj.ref = c)
           /\ v \notin PVs => ~VolumeComes(v, c)
<1>1. Controller(c) = "pvc" /\ (v \in PVs => Controller(v) = "pv")
  BY NameFacts
<1>2. BoundClaim(c)' <=> cache'[c].label /\ ~cache'[c].deleting /\ c \notin rebound'
  BY DEF BoundClaim
<1>3. /\ At(c)' <=> worker'["pvc"].pc # "idle" /\ worker'["pvc"].name = c
      /\ Current(c)' <=> worker'["pvc"].obj.uid = cache'[c].uid
      /\ v \in PVs => (At(v)' <=> worker'["pv"].pc # "idle" /\ worker'["pv"].name = v)
      /\ v \in PVs => (Current(v)' <=> worker'["pv"].obj.uid = cache'[v].uid)
  BY <1>1, PrimedAt
<1>4. HasClaim(c)' <=> At(c)' /\ Current(c)' /\ worker'["pvc"].obj.label /\ worker'["pvc"].obj.ref = cache'[c].ref
  BY DEF HasClaim
<1>5. VolumeComes(v, c)' <=>
                 /\ v \in PVs /\ cache'[v].ref = c
                 /\ \/ Comes(v)'
                    \/ v \in queue'["pv"]
                    \/ At(v)' /\ Current(v)' /\ worker'["pv"].pc = "tables" /\ worker'["pv"].obj.ref = c
  BY DEF VolumeComes
<1>6. /\ At(c) <=> worker["pvc"].pc # "idle" /\ worker["pvc"].name = c
      /\ Current(c) <=> worker["pvc"].obj.uid = cache[c].uid
      /\ v \in PVs => (At(v) <=> worker["pv"].pc # "idle" /\ worker["pv"].name = v)
      /\ v \in PVs => (Current(v) <=> worker["pv"].obj.uid = cache[v].uid)
  BY <1>1 DEF At, Current
<1>7. HasClaim(c) <=> /\ worker["pvc"].pc # "idle" /\ worker["pvc"].name = c
                      /\ worker["pvc"].obj.uid = cache[c].uid
                      /\ worker["pvc"].obj.label /\ worker["pvc"].obj.ref = cache[c].ref
  BY <1>6 DEF HasClaim
<1>8. v \in PVs => (VolumeComes(v, c) <=>
                 /\ cache[v].ref = c
                 /\ \/ Comes(v)
                    \/ v \in queue["pv"]
                    \/ /\ worker["pv"].pc = "tables" /\ worker["pv"].name = v
                       /\ worker["pv"].obj.uid = cache[v].uid /\ worker["pv"].obj.ref = c)
  BY <1>6 DEF VolumeComes
<1>9. v \notin PVs => ~VolumeComes(v, c)
  BY DEF VolumeComes
<1> QED BY <1>2, <1>3, <1>4, <1>5, <1>6, <1>7, <1>8, <1>9

ClaimSafe(c) ==
    /\ Comes(c) \/ NotLost(c)
    /\ At(c) => HasClaim(c) \/ Comes(c) \/ c \in queue["pvc"]

(* The cache changes: nothing changes for a claim and a volume that are not *)
(* concerned.                                                               *)
LEMMA ClaimCache ==
    ASSUME TypeInv, ClaimInv, PairInv, NEW m \in names, NEW o, CacheStep(m, o),
           UNCHANGED <<names, queue, worker, api>>, leftover => leftover', rebound \ {m} \subseteq rebound',
           \/ UNCHANGED events
           \/ \E type \in {"changed", "unbound", "delete"} : Event(type, m),
           m \in PVCs /\ BoundClaim(m)' => Comes(m)',
           ~leftover' => \A c \in PVCs : c # m /\ cache[c].ref = m /\ PairWanted(c)' =>
              \/ VolumeComes(m, c)'
              \/ PairWanted(c) /\ ~VolumeComes(m, c)
    PROVE  ClaimInv' /\ PairInv'
<1>1. m \in AllNames /\ cache \in [AllNames -> Objects \cup {NoObj}] /\ cache' = [cache EXCEPT ![m] = o]
  BY DEF TypeInv, TypeOK, CacheStep, AllNames
<1>2. ASSUME NEW n \in AllNames, n # m
      PROVE  cache'[n] = cache[n] /\ (Comes(n) => Comes(n)') /\ (NotLost(n) => NotLost(n)')
  BY <1>2, OtherCache
<1>3. ASSUME NEW c \in PVCs, BoundClaim(c)', c # m
      PROVE  /\ BoundClaim(c) /\ c \in AllNames /\ cache'[c] = cache[c]
             /\ (Comes(c) => Comes(c)') /\ (HasClaim(c) => HasClaim(c)')
             /\ queue' = queue /\ pairs' = pairs /\ (At(c)' => At(c)) /\ (NotLost(c) => NotLost(c)')
  <2>1. c \in AllNames
    BY DEF AllNames
  <2>2. cache'[c] = cache[c] /\ (Comes(c) => Comes(c)') /\ (NotLost(c) => NotLost(c)')
    BY <1>2, <1>3, <2>1
  <2>3. BoundClaim(c)
    BY <1>3, <2>2, PrimedPair DEF BoundClaim
  <2>4. (HasClaim(c) => HasClaim(c)') /\ (At(c)' => At(c))
    BY <2>2, PrimedPair
  <2> QED BY <2>1, <2>2, <2>3, <2>4 DEF api
<1>4. ClaimInv'
  <2> SUFFICES ASSUME NEW c \in PVCs, BoundClaim(c)' PROVE ClaimSafe(c)'
    BY DEF ClaimInv, ClaimSafe
  <2>1. CASE c = m
    BY <2>1 DEF ClaimSafe
  <2>2. CASE c # m
    BY <1>3, <2>2 DEF ClaimSafe, ClaimInv
  <2> QED BY <2>1, <2>2
<1>5. PairInv'
  <2> SUFFICES ASSUME ~leftover', NEW c \in PVCs, PairWanted(c)' PROVE PairTurn(c)'
    BY DEF PairInv
  <2>1. BoundClaim(c)'
    BY DEF PairWanted
  <2>2. CASE c = m
    BY <2>1, <2>2 DEF PairTurn
  <2>3. CASE c # m
    <3>1. /\ BoundClaim(c) /\ c \in AllNames /\ cache'[c] = cache[c]
          /\ (Comes(c) => Comes(c)') /\ (HasClaim(c) => HasClaim(c)')
          /\ queue' = queue /\ pairs' = pairs
      BY <1>3, <2>1, <2>3
    <3>2. PICK v \in PVs \cup {"other"} : v = cache[c].ref /\ (v \in PVs => v \in AllNames) /\ cache'[c].ref = v
      BY <3>1, BoundFacts
    <3>3. PairTurn(c)' <=> \/ Comes(c)' \/ c \in queue'["pvc"] \/ HasClaim(c)' \/ pairs'[c] = PairOf(v)
                           \/ VolumeComes(v, c)'
      BY <3>2, PrimedPair DEF PairTurn
    <3>4. PairTurn(c) <=> \/ Comes(c) \/ c \in queue["pvc"] \/ HasClaim(c) \/ pairs[c] = PairOf(v)
                          \/ VolumeComes(v, c)
      BY <3>2 DEF PairTurn
    <3>5. CASE v = m
      <4>1. VolumeComes(m, c)' \/ (PairWanted(c) /\ ~VolumeComes(m, c))
        BY <2>3, <3>2, <3>5
      <4>2. ASSUME PairWanted(c), ~VolumeComes(m, c) PROVE PairTurn(c)'
        BY <3>1, <3>3, <3>4, <3>5, <4>2 DEF PairInv
      <4> QED BY <3>3, <3>5, <4>1, <4>2
    <3>7. CASE v \notin PVs
      <4>1. PairWanted(c) /\ ~VolumeComes(v, c)
        BY <3>1, <3>2, <3>7 DEF PairWanted, VolumeComes
      <4> QED BY <3>1, <3>3, <3>4, <4>1 DEF PairInv
    <3>6. CASE v # m /\ v \in PVs
      <4>1. cache'[v] = cache[v] /\ (Comes(v) => Comes(v)')
        BY <1>2, <3>2, <3>6
      <4>2. PairWanted(c)
        BY <3>1, <3>2, <4>1 DEF PairWanted, Alive
      <4>3. VolumeComes(v, c) => VolumeComes(v, c)'
        BY <3>1, <3>2, <3>6, <4>1, PrimedPair
      <4> QED BY <3>1, <3>3, <3>4, <4>2, <4>3 DEF PairInv
    <3> QED BY <3>5, <3>6, <3>7
  <2> QED BY <2>2, <2>3
<1> QED BY <1>4, <1>5

LEMMA CacheClaim ==
    ASSUME TypeInv, ClaimInv, PairInv, NEW n \in names, Created(n) \/ Updated(n) \/ Deleted(n)
    PROVE  ClaimInv' /\ PairInv'
<1>1. /\ n \in AllNames /\ UNCHANGED <<names, queue, worker, api>> /\ n \in DOMAIN cache
      /\ cache \in [AllNames -> Objects \cup {NoObj}]
  BY DEF Created, Updated, Deleted, env, TypeInv, TypeOK, AllNames
<1>2. CASE Created(n)
  <2>1. PICK o \in Objects : CacheStep(n, o) /\ o.uid # 0 /\ ~o.label /\ ~o.deleting
    BY <1>2, CreatedStep
  <2>2. cache' = [cache EXCEPT ![n] = o] /\ Event("changed", n) /\ (leftover => leftover')
    BY <1>2, <2>1 DEF Created, CacheStep
  <2>3. cache'[n] = o /\ Comes(n)'
    BY <1>1, <2>2, ChangedEvent
  <2>4. ASSUME NEW c \in PVCs, c # n, cache[c].ref = n, PairWanted(c)' PROVE VolumeComes(n, c)'
    <3>1. c \notin rebound' /\ c \in AllNames /\ n # "other" /\ n # "none"
      BY <1>1, <2>4, NameFacts DEF PairWanted, BoundClaim, AllNames
    <3>2. n \in PVs
      BY <1>1, <2>4, <3>1, NameFacts DEF TypeInv, Placed, CachePlaced, RefsOf
    <3>3. cache'[n].ref = c
      <4>1. \E ref : /\ {d \in PVCs \ {ref} : cache[d].ref = n} \subseteq rebound'
                     /\ \E u, b : cache' = [cache EXCEPT ![n] =
                            [uid |-> u, born |-> b, label |-> FALSE, deleting |-> FALSE, ref |-> ref]]
        BY <1>2, <3>2 DEF Created
      <4> QED BY <1>1, <2>4, <3>1, <4>1
    <3> QED BY <2>3, <3>2, <3>3, PrimedPair
  <2>5. rebound \ {n} \subseteq rebound'
    BY <1>2 DEF Created
  <2> QED BY <1>1, <2>1, <2>2, <2>3, <2>4, <2>5, ClaimCache
<1>3. CASE Updated(n)
  <2>1. PICK o \in Objects : CacheStep(n, o)
    BY <1>3, UpdatedStep
  <2>2. UNCHANGED <<leftover, rebound>> /\ (Event("changed", n) \/ UNCHANGED events)
    BY <1>3 DEF Updated
  <2>3. n \in PVCs \cup PVs => cache'[n].deleting
    <3> SUFFICES ASSUME n \in PVCs \cup PVs PROVE cache'[n].deleting
      OBVIOUS
    <3>1. n \notin Pods /\ cache[n] \in Objects
      BY <1>1, <1>3, NameFacts DEF Updated, Alive, NoObj
    <3>2. cache' = [cache EXCEPT ![n].deleting = TRUE]
      BY <1>3, <3>1 DEF Updated
    <3> QED BY <1>1, <3>1, <3>2 DEF Objects
  <2>4. n \in PVCs => ~BoundClaim(n)'
    BY <2>3 DEF BoundClaim
  <2>5. ASSUME NEW c \in PVCs, c # n, cache[c].ref = n, PairWanted(c)' PROVE FALSE
    <3>1. cache'[c] = cache[c]
      BY <1>1, <2>1, <2>5 DEF CacheStep, AllNames
    <3>2. BoundClaim(c)
      BY <2>2, <2>5, <3>1 DEF PairWanted, BoundClaim
    <3>3. n \in PVs
      BY <1>1, <2>5, <3>2, BoundFacts, NameFacts
    <3> QED BY <2>3, <2>5, <3>1, <3>3 DEF PairWanted
  <2> QED BY <1>1, <2>1, <2>2, <2>4, <2>5, ClaimCache
<1>4. CASE Deleted(n)
  <2>1. CacheStep(n, NoObj) /\ Event("delete", n) /\ UNCHANGED <<leftover, rebound>>
    BY <1>4, DeletedStep DEF Deleted
  <2>2. cache'[n] = NoObj /\ \A m \in AllNames : m # n => cache'[m] = cache[m]
    BY <1>1, <2>1 DEF CacheStep
  <2>3. ~BoundClaim(n)'
    BY <2>2 DEF BoundClaim, NoObj
  <2>4. ASSUME NEW c \in PVCs, c # n, cache[c].ref = n, PairWanted(c)' PROVE FALSE
    <3>1. cache'[c] = cache[c]
      BY <2>2, <2>4 DEF AllNames
    <3>2. n \in PVs
      <4>1. BoundClaim(c)
        BY <2>1, <2>4, <3>1 DEF PairWanted, BoundClaim
      <4> QED BY <1>1, <2>4, <4>1, BoundFacts, NameFacts
    <3> QED BY <2>2, <2>4, <3>1, <3>2 DEF PairWanted, Alive, NoObj
  <2> QED BY <1>1, <2>1, <2>3, <2>4, ClaimCache
<1> QED BY <1>2, <1>3, <1>4

LEMMA ClaimRefSetClaim ==
    ASSUME TypeInv, ClaimInv, PairInv, NEW d \in PVCs \cap names, NEW u \in PVs, ClaimRefSet(u, d)
    PROVE  ClaimInv' /\ PairInv'
<1>1. /\ UNCHANGED <<names, queue, worker, api>> /\ u \notin PVCs
      /\ cache \in [AllNames -> Objects \cup {NoObj}]
  BY NameFacts DEF ClaimRefSet, env, TypeInv, TypeOK
<1>2. PICK o \in Objects : CacheStep(u, o) /\ o.uid = cache[u].uid /\ ~o.deleting /\ u \in names /\ u \in AllNames
  BY ClaimRefSetStep
<1>3. /\ UNCHANGED <<events, rebound>> /\ (leftover => leftover') /\ cache[u].ref = "none"
      /\ ~cache[u].deleting /\ Alive(cache, u)
  BY DEF ClaimRefSet
<1>4. ASSUME NEW c \in PVCs, c # u, cache[c].ref = u, PairWanted(c)' PROVE PairWanted(c) /\ ~VolumeComes(u, c)
  <2>1. cache'[c] = cache[c]
    BY <1>1, <1>2, <1>4 DEF CacheStep, AllNames
  <2>2. c # "none"
    BY DashboardAssumption
  <2> QED BY <1>3, <1>4, <2>1, <2>2 DEF PairWanted, BoundClaim, VolumeComes
<1> QED BY <1>1, <1>2, <1>3, <1>4, ClaimCache

LEMMA ClaimClaim ==
    ASSUME TypeInv, ClaimInv, PairInv, NEW d \in PVCs \cap names, NEW u \in PVs \cup {"other"},
           ClaimBound(d, u) \/ ClaimLost(d) \/ ClaimRebound(d)
    PROVE  ClaimInv' /\ PairInv'
<1>1. /\ UNCHANGED <<names, queue, worker, api>> /\ d \notin PVs /\ d \in AllNames /\ d # "other"
      /\ cache \in [AllNames -> Objects \cup {NoObj}]
  BY NameFacts DEF ClaimBound, ClaimLost, ClaimRebound, env, TypeInv, TypeOK, AllNames
<1>2. rebound \subseteq rebound'
  BY DEF ClaimBound, ClaimLost, ClaimRebound
<1>3. ASSUME NEW o, CacheStep(d, o), leftover => leftover', BoundClaim(d)' => Comes(d)',
             UNCHANGED events \/ \E type \in {"changed", "unbound", "delete"} : Event(type, d)
      PROVE  ClaimInv' /\ PairInv'
  <2>1. ASSUME NEW c \in PVCs, c # d, cache[c].ref = d, PairWanted(c)' PROVE FALSE
    <3>1. cache'[c] = cache[c]
      BY <1>1, <1>3, <2>1 DEF CacheStep, AllNames
    <3>2. BoundClaim(c)
      BY <1>2, <2>1, <3>1 DEF PairWanted, BoundClaim
    <3> QED BY <1>1, <2>1, <3>2, BoundFacts
  <2> QED BY <1>1, <1>2, <1>3, <2>1, ClaimCache
<1>4. CASE ClaimBound(d, u)
  <2>1. Event("changed", d) /\ (leftover => leftover')
    BY <1>4 DEF ClaimBound
  <2>2. Comes(d)'
    BY <1>1, <2>1, ChangedEvent
  <2> QED BY <1>3, <1>4, <2>1, <2>2, ClaimBoundStep
<1>5. CASE ClaimLost(d)
  <2>1. PICK o \in Objects : CacheStep(d, o) /\ ~o.label
    BY <1>5, ClaimLostStep
  <2>2. Event("unbound", d) /\ UNCHANGED leftover
    BY <1>5 DEF ClaimLost
  <2>3. ~BoundClaim(d)'
    BY <1>1, <2>1 DEF CacheStep, BoundClaim
  <2> QED BY <1>3, <2>1, <2>2, <2>3
<1>6. CASE ClaimRebound(d)
  <2>1. UNCHANGED <<events, leftover>> /\ d \in rebound'
    BY <1>6 DEF ClaimRebound
  <2>2. ~BoundClaim(d)'
    BY <2>1 DEF BoundClaim
  <2> QED BY <1>3, <1>6, <2>1, <2>2, ClaimReboundStep
<1> QED BY <1>4, <1>5, <1>6

LEMMA HandleEventClaim ==
    ASSUME TypeInv, ClaimInv, PairInv, NEW k \in Controllers, HandleEvent(k)
    PROVE  ClaimInv' /\ PairInv'
<1> DEFINE e == Head(events[k])
<1>1. /\ events[k] # <<>> /\ e \in EventSet /\ Controller(e.name) = k
      /\ UNCHANGED <<names, left, cache, worker, leftover, rebound>>
      /\ \/ e \in Announcing(e.name) /\ Changed(e.name)
         \/ e.type = "unbound" /\ e.name \in PVCs /\ Unbound(e.name)
         \/ e.type = "delete" /\ e.name \in Pods /\ PodDeleteFunc(e.name, e.label)
         \/ e.type = "delete" /\ e.name \in PVCs /\ PVCDeleteFunc(e.name)
  BY HandleEventCases
<1>2. /\ events \in [Controllers -> Seq(EventSet)] /\ events' = [events EXCEPT ![k] = Tail(@)]
      /\ queue \in [Controllers -> SUBSET AllNames] /\ pairs \in [PVCs -> PVs \cup {"none"}]
  BY DEF HandleEvent, TypeInv, TypeOK, EventSet
<1> HIDE DEF e
<1>3. \A l \in Controllers : queue[l] \subseteq queue'[l]
  <2>1. UNCHANGED queue \/ Enqueue(e.name)
    BY <1>1 DEF Changed, Unbound, PodDeleteFunc, PVCDeleteFunc
  <2> QED BY <1>2, <2>1 DEF Enqueue
<1>4. ASSUME NEW n \in PVs \cup PVCs
      PROVE  /\ Comes(n) => Comes(n)' \/ (NotLost(n)' /\ n \in queue'[Controller(n)])
             /\ NotLost(n) => NotLost(n)' /\ (e.name # n \/ n \in queue'[Controller(n)])
  <2>1. n \in AllNames /\ Controller(n) \in Controllers /\ n \notin Pods
    BY NameFacts DEF AllNames
  <2>2. CASE Controller(n) # k
    <3>1. events'[Controller(n)] = events[Controller(n)]
      BY <1>2, <2>1, <2>2
    <3> QED BY <1>1, <2>2, <3>1, PrimedAt DEF Comes, NotLost
  <2>3. CASE Controller(n) = k
    <3> DEFINE es == events[k]
    <3>1. events'[k] = Tail(es) /\ es \in Seq(EventSet) /\ es # <<>>
      BY <1>1, <1>2
    <3>2. /\ Sure(es, Announcing(n), Losing(n)) =>
                Sure(Tail(es), Announcing(n), Losing(n)) \/ (Head(es) \in Announcing(n) /\ Free(Tail(es), Losing(n)))
          /\ Free(es, Losing(n)) => Free(Tail(es), Losing(n)) /\ Head(es) \notin Losing(n)
      BY <3>1, SureTail
    <3>3. /\ Comes(n) => Comes(n)' \/ (e \in Announcing(n) /\ NotLost(n)')
          /\ NotLost(n) => NotLost(n)' /\ e \notin Losing(n)
      BY <2>3, <3>1, <3>2, PrimedAt DEF Comes, NotLost, e
    <3>4. e \in Announcing(n) => n \in queue'[Controller(n)]
      <4> SUFFICES ASSUME e \in Announcing(n) PROVE n \in queue'[Controller(n)]
        OBVIOUS
      <4>1. e.name = n /\ (e.type = "changed" \/ n \in PVs)
        BY DEF Announcing
      <4>2. Changed(n)
        BY <1>1, <2>1, <4>1, NameFacts
      <4> QED BY <1>2, <2>1, <4>2 DEF Changed, Enqueue
    <3>5. e \notin Losing(n) => e \in Announcing(n) \/ n # e.name
      BY <1>1 DEF Losing, Announcing
    <3> QED BY <3>3, <3>4, <3>5
  <2> QED BY <2>2, <2>3
<1>5. ASSUME NEW c \in PVCs, BoundClaim(c)'
      PROVE  /\ BoundClaim(c) /\ Controller(c) = "pvc" /\ "pvc" \in Controllers /\ "pv" \in Controllers
             /\ ClaimSafe(c) /\ (HasClaim(c) => HasClaim(c)') /\ (At(c)' => At(c))
  <2>1. BoundClaim(c)
    BY <1>1, <1>5 DEF BoundClaim
  <2> QED BY <1>1, <2>1, PrimedPair, NameFacts DEF ClaimInv, ClaimSafe, Controllers
<1>6. ClaimInv'
  <2> SUFFICES ASSUME NEW c \in PVCs, BoundClaim(c)' PROVE ClaimSafe(c)'
    BY DEF ClaimInv, ClaimSafe
  <2> QED BY <1>3, <1>4, <1>5 DEF ClaimSafe
<1>7. PairInv'
  <2> SUFFICES ASSUME ~leftover', NEW c \in PVCs, PairWanted(c)' PROVE PairTurn(c)'
    BY DEF PairInv
  <2>1. PairWanted(c) /\ BoundClaim(c)' /\ BoundClaim(c)
    BY <1>1 DEF PairWanted, BoundClaim, Alive
  <2>2. PICK v \in PVs \cup {"other"} : v = cache[c].ref /\ cache'[c].ref = v
                                        /\ (v \in PVs => Controller(v) = "pv")
    BY <1>1, <2>1, BoundFacts
  <2>3. PairTurn(c)' <=> \/ Comes(c)' \/ c \in queue'["pvc"] \/ HasClaim(c)' \/ pairs'[c] = PairOf(v)
                         \/ VolumeComes(v, c)'
    BY <2>2, PrimedPair DEF PairTurn
  <2>4. Comes(c) \/ c \in queue["pvc"] \/ HasClaim(c) \/ pairs[c] = PairOf(v) \/ VolumeComes(v, c)
    BY <1>1, <2>1, <2>2 DEF PairTurn, PairInv
  <2>5. CASE Comes(c)
    BY <1>4, <1>5, <2>1, <2>3, <2>5
  <2>6. CASE c \in queue["pvc"]
    BY <1>3, <1>5, <2>1, <2>3, <2>6
  <2>7. CASE HasClaim(c)
    BY <1>5, <2>1, <2>3, <2>7
  <2>8. CASE pairs[c] = PairOf(v) /\ NotLost(c)
    <3>1. e.name # c => pairs'[c] = pairs[c]
      BY <1>1, <1>2 DEF Changed, api, Unbound, PodDeleteFunc, PVCDeleteFunc
    <3> QED BY <1>4, <1>5, <2>1, <2>3, <2>8, <3>1
  <2>9. CASE VolumeComes(v, c)
    <3>1. VolumeComes(v, c)'
      BY <1>1, <1>3, <1>4, <1>5, <2>1, <2>2, <2>9, PrimedPair
    <3> QED BY <2>3, <3>1
  <2> QED BY <1>5, <2>1, <2>4, <2>5, <2>6, <2>7, <2>8, <2>9 DEF ClaimSafe
<1> QED BY <1>6, <1>7

(* A step of a worker: the cache and the events stay.                       *)
LEMMA ClaimWorker ==
    ASSUME TypeInv, ClaimInv, PairInv, UNCHANGED <<names, cache, events, rebound>>, leftover => leftover',
           \A c \in PVCs : BoundClaim(c) /\ ClaimSafe(c) =>
              (At(c)' => HasClaim(c)' \/ Comes(c) \/ c \in queue'["pvc"]),
           ~leftover' => \A c \in PVCs, v \in PVs \cup {"other"} :
              PairWanted(c) /\ cache[c].ref = v /\ BoundClaim(c) /\ ClaimSafe(c)
              /\ (c \in queue["pvc"] \/ HasClaim(c) \/ pairs[c] = PairOf(v) \/ VolumeComes(v, c)) =>
                 Comes(c) \/ c \in queue'["pvc"] \/ HasClaim(c)' \/ pairs'[c] = PairOf(v) \/ VolumeComes(v, c)'
    PROVE  ClaimInv' /\ PairInv'
<1>1. \A c \in PVCs : (Comes(c) => Comes(c)') /\ (NotLost(c) => NotLost(c)')
  BY PrimedAt DEF Comes, NotLost
<1>2. ClaimInv'
  <2> SUFFICES ASSUME NEW c \in PVCs, BoundClaim(c)' PROVE ClaimSafe(c)'
    BY DEF ClaimInv, ClaimSafe
  <2>1. BoundClaim(c)
    BY DEF BoundClaim
  <2>2. ClaimSafe(c)
    BY <2>1 DEF ClaimInv, ClaimSafe
  <2>3. At(c)' => HasClaim(c)' \/ Comes(c) \/ c \in queue'["pvc"]
    BY <2>1, <2>2
  <2> QED BY <1>1, <2>2, <2>3 DEF ClaimSafe
<1>3. PairInv'
  <2> SUFFICES ASSUME ~leftover', NEW c \in PVCs, PairWanted(c)' PROVE PairTurn(c)'
    BY DEF PairInv
  <2>1. PairWanted(c) /\ BoundClaim(c)
    BY DEF PairWanted, BoundClaim, Alive
  <2>2. PICK v \in PVs \cup {"other"} : v = cache[c].ref /\ cache'[c].ref = v
    BY <2>1, BoundFacts
  <2>3. PairTurn(c)' <=> \/ Comes(c)' \/ c \in queue'["pvc"] \/ HasClaim(c)' \/ pairs'[c] = PairOf(v)
                         \/ VolumeComes(v, c)'
    BY <2>2, PrimedPair DEF PairTurn
  <2>4. Comes(c) \/ c \in queue["pvc"] \/ HasClaim(c) \/ pairs[c] = PairOf(v) \/ VolumeComes(v, c)
    BY <2>1, <2>2 DEF PairTurn, PairInv
  <2>5. ClaimSafe(c)
    BY <2>1 DEF ClaimInv, ClaimSafe
  <2>6. Comes(c) \/ c \in queue'["pvc"] \/ HasClaim(c)' \/ pairs'[c] = PairOf(v) \/ VolumeComes(v, c)'
    BY <2>1, <2>2, <2>4, <2>5
  <2> QED BY <1>1, <2>3, <2>6
<1> QED BY <1>2, <1>3

(* Nothing that concerns the claims changes.                                *)
LEMMA OtherWorkersClaim ==
    ASSUME TypeInv, ClaimInv, PairInv, PodTables \/ PodIndex \/ UNCHANGED vars
    PROVE  ClaimInv' /\ PairInv'
<1>1. /\ UNCHANGED <<names, cache, events, queue, pairs, rebound>> /\ worker \in [Controllers -> WorkerSet]
  BY DEF PodTables, PodIndex, vars, env, api, TypeInv, TypeOK, WorkerSet
<1>2. leftover => leftover'
  <2>1. CASE PodIndex
    BY <2>1 DEF PodIndex, Add
  <2> QED BY <2>1 DEF PodTables, vars
<1>3. worker'["pv"] = worker["pv"] /\ worker'["pvc"] = worker["pvc"]
  <2>1. CASE PodTables \/ PodIndex
    <3>1. Done("pod") \/ Continue("pod", "index")
      BY <2>1 DEF PodTables, PodIndex
    <3> QED BY <1>1, <3>1 DEF Done, Continue, Controllers
  <2> QED BY <2>1 DEF vars
<1>4. ASSUME NEW c \in PVCs, NEW v, VolumeComes(v, c) PROVE VolumeComes(v, c)'
  <2>2. v \in PVs
    BY <1>4 DEF VolumeComes
  <2>1. Comes(v) => Comes(v)'
    BY <1>1, PrimedAt DEF Comes
  <2> QED BY <1>1, <1>3, <1>4, <2>1, <2>2, PrimedPair
<1>5. \A c \in PVCs : (HasClaim(c) => HasClaim(c)') /\ (At(c)' => At(c))
  BY <1>1, <1>3, PrimedPair
<1> QED BY <1>1, <1>2, <1>4, <1>5, ClaimWorker DEF ClaimSafe

LEMMA ReconcileGetClaim ==
    ASSUME TypeInv, ClaimInv, PairInv, NEW m \in names, ReconcileGet(m)
    PROVE  ClaimInv' /\ PairInv'
<1> DEFINE k == Controller(m)
<1>1. /\ m \in AllNames /\ k \in Controllers /\ worker[k] = Idle
      /\ UNCHANGED <<names, cache, events, pairs, leftover, rebound>>
      /\ queue' = [queue EXCEPT ![k] = @ \ {m}] /\ {"pvc", "pv"} \subseteq Controllers
      /\ \/ Alive(cache, m) /\ worker' = [worker EXCEPT ![k] = [pc |-> "tables", name |-> m, obj |-> cache[m]]]
         \/ (~Alive(cache, m) \/ (m \in Apps /\ ~cache[m].label)) /\ UNCHANGED worker
      /\ queue \in [Controllers -> SUBSET AllNames] /\ worker \in [Controllers -> WorkerSet]
  BY NameFacts DEF ReconcileGet, env, TypeInv, TypeOK, AllNames, WorkerSet, Controllers
<1> HIDE DEF k
<1>2. ASSUME NEW n \in PVs \cup PVCs, Alive(cache, n), NEW l, l = Controller(n)
      PROVE  \/ m = n /\ worker'[l] = [pc |-> "tables", name |-> n, obj |-> cache[n]]
             \/ m # n /\ worker'[l] = worker[l] /\ (n \in queue[l] => n \in queue'[l])
             \/ /\ worker[l] = Idle /\ worker'[l].name # n /\ (n \in queue[l] => n \in queue'[l])
  <2>1. l \in Controllers /\ n \notin Apps
    BY <1>2, NameFacts DEF AllNames
  <2>2. CASE m = n
    BY <1>1, <1>2, <2>1, <2>2 DEF k
  <2>3. CASE m # n
    BY <1>1, <1>2, <2>1, <2>3
  <2> QED BY <2>2, <2>3
<1>3. \A c \in PVCs : Controller(c) = "pvc" /\ (BoundClaim(c) => Alive(cache, c))
  BY BoundFacts, NameFacts
<1>4. ASSUME NEW c \in PVCs, BoundClaim(c)
      PROVE  /\ ClaimSafe(c) => (At(c)' => HasClaim(c)' \/ Comes(c) \/ c \in queue'["pvc"])
             /\ c \in queue["pvc"] \/ HasClaim(c) => c \in queue'["pvc"] \/ HasClaim(c)'
  <2>1. CASE worker'["pvc"] = [pc |-> "tables", name |-> c, obj |-> cache[c]]
    <3>1. HasClaim(c)'
      BY <1>1, <1>4, <2>1, PrimedPair DEF BoundClaim
    <3> QED BY <3>1
  <2>2. CASE worker'["pvc"] = worker["pvc"] /\ (c \in queue["pvc"] => c \in queue'["pvc"])
    BY <1>1, <2>2, PrimedPair DEF ClaimSafe
  <2>3. CASE worker["pvc"] = Idle /\ worker'["pvc"].name # c /\ (c \in queue["pvc"] => c \in queue'["pvc"])
    BY <2>3, PrimedPair DEF Idle
  <2> QED BY <1>2, <1>3, <1>4, <2>1, <2>2, <2>3
<1>5. ASSUME NEW c \in PVCs, NEW v \in PVs, Alive(cache, v), VolumeComes(v, c)
      PROVE  VolumeComes(v, c)'
  <2>1. Comes(v) => Comes(v)'
    BY <1>1, PrimedAt DEF Comes
  <2>2. cache[v].ref = c /\ cache' = cache /\ Controller(v) = "pv"
    BY <1>1, <1>5, NameFacts DEF VolumeComes
  <2>3. CASE worker'["pv"] = [pc |-> "tables", name |-> v, obj |-> cache[v]]
    BY <2>2, <2>3, PrimedPair
  <2>4. CASE worker'["pv"] = worker["pv"] /\ (v \in queue["pv"] => v \in queue'["pv"])
    BY <1>5, <2>1, <2>2, <2>4, PrimedPair
  <2>5. CASE worker["pv"] = Idle /\ (v \in queue["pv"] => v \in queue'["pv"])
    BY <1>5, <2>1, <2>2, <2>5, PrimedPair DEF Idle
  <2> QED BY <1>2, <1>5, <2>2, <2>3, <2>4, <2>5
<1>6. \A c \in PVCs : \A v : PairWanted(c) /\ cache[c].ref = v /\ VolumeComes(v, c) => v \in PVs /\ Alive(cache, v)
  BY DEF PairWanted, VolumeComes
<1> QED BY <1>1, <1>4, <1>5, <1>6, ClaimWorker

(* PVController changes pairs for the volume's claim only, and only with a  *)
(* volume that has it.                                                      *)
LEMMA PVTablesClaim ==
    ASSUME TypeInv, ClaimInv, PairInv, SharedInv, PVTables
    PROVE  ClaimInv' /\ PairInv'
<1> DEFINE w == worker["pv"]
           d == w.obj.ref
<1>1. /\ UNCHANGED <<names, cache, events, queue, rebound>> /\ w.pc = "tables"
      /\ worker \in [Controllers -> WorkerSet] /\ pairs \in [PVCs -> PVs \cup {"none"}]
      /\ Done("pv") \/ Continue("pv", "index")
      /\ {"pvc", "pv"} \subseteq Controllers
  BY DEF PVTables, env, TypeInv, TypeOK, WorkerSet, Controllers
<1>2. leftover => leftover'
  BY DEF PVTables, Add
<1>3. ~leftover' => cache[w.name].uid = w.obj.uid /\ ~leftover
  BY DEF PVTables, Add
<1>4. w.name \in PVs /\ w.name \in AllNames /\ (d = "none" \/ d \in PVCs)
  BY <1>1, PVWorkerFacts
<1>5. ~leftover' /\ d # "none" => cache[w.name].ref = d /\ (w.obj.deleting => cache[w.name].deleting)
  BY <1>1, <1>3, <1>4 DEF TypeInv, WorkerUid, Since
<1>6. /\ ~w.obj.deleting => pairs' = IF d = "none" THEN pairs ELSE [pairs EXCEPT ![d] = w.name]
      /\ w.obj.deleting => pairs' = IF d = "none" THEN pairs ELSE [pairs EXCEPT ![d] = "none"]
  BY DEF PVTables
<1>7. worker'["pvc"] = worker["pvc"]
  BY <1>1 DEF Done, Continue
<1>8. \A c \in PVCs : (HasClaim(c) => HasClaim(c)') /\ (At(c)' => At(c)) /\ c # "none"
  BY <1>1, <1>7, PrimedPair, DashboardAssumption
<1>9. ASSUME NEW c \in PVCs, NEW v \in PVs \cup {"other"}, ~leftover', PairWanted(c), cache[c].ref = v,
             c \in queue["pvc"] \/ HasClaim(c) \/ pairs[c] = PairOf(v) \/ VolumeComes(v, c)
      PROVE  c \in queue'["pvc"] \/ HasClaim(c)' \/ pairs'[c] = PairOf(v) \/ VolumeComes(v, c)'
  <2>1. CASE c = d
    <3>1. ~Shared(cache)
      BY <1>3, <1>9 DEF SharedInv
    <3>4. v # "none"
      BY NameFacts, DashboardAssumption
    <3>2. w.name = v
      BY <1>4, <1>5, <1>8, <1>9, <2>1, <3>1, <3>4 DEF Shared
    <3>3. ~w.obj.deleting
      BY <1>4, <1>5, <1>8, <1>9, <2>1, <3>2 DEF PairWanted
    <3>5. PairOf(v) = v
      BY <1>4, <3>2, NameFacts DEF PairOf
    <3> QED BY <1>1, <1>6, <1>8, <2>1, <3>2, <3>3, <3>5
  <2>2. CASE c # d
    <3>1. pairs'[c] = pairs[c]
      BY <1>1, <1>4, <1>6, <2>2
    <3>2. Comes(v) => Comes(v)'
      BY <1>1, PrimedAt DEF Comes
    <3>3. VolumeComes(v, c) => VolumeComes(v, c)'
      <4> SUFFICES ASSUME VolumeComes(v, c) PROVE VolumeComes(v, c)'
        OBVIOUS
      <4>1. v \in PVs
        BY DEF VolumeComes
      <4> QED BY <1>1, <2>2, <3>2, <4>1, PrimedPair
    <3> QED BY <1>1, <1>8, <1>9, <3>1, <3>3
  <2> QED BY <2>1, <2>2
<1> QED BY <1>1, <1>2, <1>8, <1>9, ClaimWorker DEF ClaimSafe

LEMMA PVIndexClaim ==
    ASSUME TypeInv, ClaimInv, PairInv, PVIndex
    PROVE  ClaimInv' /\ PairInv'
<1>1. /\ UNCHANGED <<names, cache, events, queue, pairs, rebound>> /\ worker["pv"].pc = "index"
      /\ worker \in [Controllers -> WorkerSet] /\ Done("pv") /\ {"pvc", "pv"} \subseteq Controllers
  BY DEF PVIndex, env, TypeInv, TypeOK, WorkerSet, Controllers
<1>2. leftover => leftover'
  BY DEF PVIndex, Add
<1>3. worker'["pvc"] = worker["pvc"]
  BY <1>1 DEF Done
<1>4. \A c \in PVCs : (HasClaim(c) => HasClaim(c)') /\ (At(c)' => At(c))
  BY <1>1, <1>3, PrimedPair
<1>5. ASSUME NEW c \in PVCs, NEW v, VolumeComes(v, c) PROVE VolumeComes(v, c)'
  <2>1. Comes(v) => Comes(v)'
    BY <1>1, PrimedAt DEF Comes
  <2>2. v \in PVs
    BY <1>5 DEF VolumeComes
  <2> QED BY <1>1, <1>5, <2>1, <2>2, PrimedPair
<1> QED BY <1>1, <1>2, <1>4, <1>5, ClaimWorker DEF ClaimSafe

LEMMA PVCTablesClaim ==
    ASSUME TypeInv, ClaimInv, PairInv, PVCTables
    PROVE  ClaimInv' /\ PairInv'
<1> DEFINE w == worker["pvc"]
           bound == w.obj.label /\ ~w.obj.deleting /\ pairs[w.name] # w.obj.ref
<1>1. /\ UNCHANGED <<names, cache, events, pairs, rebound>> /\ w.pc = "tables"
      /\ worker \in [Controllers -> WorkerSet] /\ queue \in [Controllers -> SUBSET AllNames]
      /\ {"pvc", "pv"} \subseteq Controllers
      /\ \/ bound /\ Continue("pvc", "index") /\ UNCHANGED queue
         \/ ~bound /\ Done("pvc") /\ UNCHANGED queue
         \/ bound /\ (w.obj.ref \in PVs => ~Alive(cache, w.obj.ref)) /\ Done("pvc") /\ Enqueue(w.name)
      /\ pairs \in [PVCs -> PVs \cup {"none"}]
  BY DEF PVCTables, env, TypeInv, TypeOK, WorkerSet, Controllers
<1>2. leftover => leftover'
  BY DEF PVCTables, Add
<1>3. w \in [pc: {"tables", "index"}, name: AllNames, obj: Objects] /\ w.name \in PVCs
  BY <1>1, WorkerFacts, PVCWorkerFacts
<1>4. \/ worker'["pvc"].pc = "index" /\ worker'["pvc"].name = w.name /\ worker'["pvc"].obj = w.obj
      \/ worker'["pvc"] = Idle /\ (~bound \/ w.name \in queue'["pvc"])
  <2>1. CASE Continue("pvc", "index")
    <3>1. worker' = [worker EXCEPT !["pvc"] = [w EXCEPT !.pc = "index"]]
      BY <2>1 DEF Continue
    <3> QED BY <1>1, <1>3, <3>1
  <2>2. CASE Done("pvc") /\ (~bound \/ Enqueue(w.name))
    <3>1. Controller(w.name) = "pvc"
      BY <1>3, NameFacts
    <3> QED BY <1>1, <2>2, <3>1 DEF Done, Enqueue
  <2> QED BY <1>1, <2>1, <2>2
<1>5. worker'["pv"] = worker["pv"] /\ \A l \in Controllers : queue[l] \subseteq queue'[l]
  BY <1>1 DEF Done, Continue, Enqueue
<1>6. ASSUME NEW c \in PVCs PROVE At(c)' => At(c) /\ (HasClaim(c) => HasClaim(c)')
  <2>1. At(c)' => worker'["pvc"].pc = "index" /\ worker'["pvc"].name = w.name /\ worker'["pvc"].obj = w.obj
    BY <1>4, PrimedPair DEF Idle
  <2> QED BY <1>1, <2>1, PrimedPair
<1>7. ASSUME NEW c \in PVCs, NEW v \in PVs \cup {"other"}, PairWanted(c), cache[c].ref = v, HasClaim(c)
      PROVE  HasClaim(c)' \/ pairs'[c] = PairOf(v) \/ c \in queue'["pvc"]
  <2>1. c \in AllNames /\ At(c) /\ Current(c) /\ ~cache[c].deleting /\ Controller(c) = "pvc"
    BY <1>7, NameFacts DEF HasClaim, PairWanted, BoundClaim, AllNames
  <2>2. ~w.obj.deleting
    BY <2>1, CurrentSince
  <2>3. w.name = c /\ w.obj.label /\ w.obj.ref = v
    BY <1>7, PrimedPair
  <2>4. CASE worker'["pvc"].pc = "index" /\ worker'["pvc"].name = w.name /\ worker'["pvc"].obj = w.obj
    BY <1>1, <1>7, <2>3, <2>4, PrimedPair
  <2>5. CASE ~bound
    <3>1. pairs[c] = v /\ v # "other"
      BY <1>1, <2>2, <2>3, <2>5, DashboardAssumption
    <3> QED BY <1>1, <3>1 DEF PairOf
  <2> QED BY <1>4, <2>3, <2>4, <2>5
<1> HIDE DEF w, bound
<1>8. ASSUME NEW c \in PVCs, NEW v, VolumeComes(v, c) PROVE VolumeComes(v, c)'
  <2>1. Comes(v) => Comes(v)'
    BY <1>1, PrimedAt DEF Comes
  <2>2. v \in PVs
    BY <1>8 DEF VolumeComes
  <2> QED BY <1>1, <1>5, <1>8, <2>1, <2>2, PrimedPair
<1>9. \A c \in PVCs : c \in queue["pvc"] => c \in queue'["pvc"]
  BY <1>1, <1>5
<1> QED BY <1>1, <1>2, <1>6, <1>7, <1>8, <1>9, ClaimWorker DEF ClaimSafe

LEMMA PVCPairClaim ==
    ASSUME TypeInv, ClaimInv, PairInv, PVCPair
    PROVE  ClaimInv' /\ PairInv'
<1> DEFINE w == worker["pvc"]
<1>1. /\ UNCHANGED <<names, cache, events, queue, leftover, rebound>> /\ w.pc = "index" /\ Done("pvc")
      /\ worker \in [Controllers -> WorkerSet] /\ {"pvc", "pv"} \subseteq Controllers
      /\ pairs \in [PVCs -> PVs \cup {"none"}] /\ pairs' = [pairs EXCEPT ![w.name] = PairOf(w.obj.ref)]
  BY DEF PVCPair, env, TypeInv, TypeOK, WorkerSet, Controllers
<1>2. worker'["pvc"] = Idle /\ worker'["pv"] = worker["pv"] /\ Idle.pc = "idle"
  BY <1>1 DEF Done, Idle
<1>3. \A c \in PVCs : ~At(c)'
  BY <1>2, PrimedPair
<1>4. ASSUME NEW c \in PVCs, NEW v, cache[c].ref = v, ClaimSafe(c),
             c \in queue["pvc"] \/ HasClaim(c) \/ pairs[c] = PairOf(v) \/ VolumeComes(v, c)
      PROVE  Comes(c) \/ c \in queue'["pvc"] \/ pairs'[c] = PairOf(v) \/ VolumeComes(v, c)'
  <2>1. Comes(v) => Comes(v)'
    BY <1>1, PrimedAt DEF Comes
  <2>2. VolumeComes(v, c) => VolumeComes(v, c)'
    <3> SUFFICES ASSUME VolumeComes(v, c) PROVE VolumeComes(v, c)'
      OBVIOUS
    <3>1. v \in PVs
      BY DEF VolumeComes
    <3> QED BY <1>1, <1>2, <2>1, <3>1, PrimedPair
  <2>3. HasClaim(c) => pairs'[c] = PairOf(v)
    BY <1>1, <1>4, PrimedPair
  <2>4. CASE w.name = c
    <3>1. HasClaim(c) \/ Comes(c) \/ c \in queue["pvc"]
      BY <1>1, <1>4, <2>4, PrimedPair DEF ClaimSafe
    <3> QED BY <1>1, <2>3, <3>1
  <2>5. CASE w.name # c
    <3>1. pairs'[c] = pairs[c]
      BY <1>1, <2>5
    <3> QED BY <1>1, <1>4, <2>2, <2>3, <3>1
  <2> QED BY <2>4, <2>5
<1> QED BY <1>1, <1>3, <1>4, ClaimWorker

LEMMA RestartClaim ==
    ASSUME TypeInv, Restart
    PROVE  ClaimInv' /\ PairInv'
<1>1. /\ names' = names /\ cache' = cache /\ events' = [k \in Controllers |-> <<>>]
      /\ queue' = [k \in Controllers |-> {n \in names :
             Controller(n) = k /\ Alive(cache, n) /\ (n \in PVCs => cache[n].label \/ Pending(cache[n]))}]
      /\ worker' = [k \in Controllers |-> Idle] /\ "pvc" \in Controllers /\ Idle.pc = "idle"
  BY DEF Restart, env, Controllers, Idle
<1>2. ASSUME NEW c \in PVCs, BoundClaim(c)' PROVE NotLost(c)' /\ ~At(c)' /\ c \in queue'["pvc"]
  <2>1. cache[c].label
    BY <1>1, <1>2 DEF BoundClaim
  <2>2. c \in names /\ Controller(c) = "pvc" /\ Alive(cache, c)
    BY <2>1, LabelFacts
  <2>3. c \in queue'["pvc"] /\ events'["pvc"] = <<>> /\ worker'["pvc"] = Idle
    BY <1>1, <2>1, <2>2
  <2>4. Free(events'["pvc"], Losing(c))
    BY <2>3, SureEmpty
  <2> QED BY <1>1, <2>2, <2>3, <2>4, PrimedAt
<1>3. ClaimInv'
  BY <1>2 DEF ClaimInv
<1>4. PairInv'
  BY <1>2 DEF PairInv, PairWanted, PairTurn
<1> QED BY <1>3, <1>4

LEMMA NextClaim ==
    ASSUME TypeInv, ClaimInv, PairInv, SharedInv, [Next]_vars
    PROVE  ClaimInv' /\ PairInv'
<1>1. ASSUME NEW n \in names, Created(n) \/ Updated(n) \/ Deleted(n) \/ ReconcileGet(n)
      PROVE  ClaimInv' /\ PairInv'
  BY <1>1, CacheClaim, ReconcileGetClaim
<1>2. ASSUME NEW c \in PVCs \cap names, NEW v \in PVs, ClaimRefSet(v, c) PROVE ClaimInv' /\ PairInv'
  BY <1>2, ClaimRefSetClaim
<1>3. ASSUME NEW c \in PVCs \cap names, NEW v \in PVs \cup {"other"},
             ClaimBound(c, v) \/ ClaimLost(c) \/ ClaimRebound(c)
      PROVE  ClaimInv' /\ PairInv'
  BY <1>3, ClaimClaim
<1> QED BY <1>1, <1>2, <1>3, HandleEventClaim, OtherWorkersClaim, PVTablesClaim, PVIndexClaim, PVCTablesClaim,
           PVCPairClaim, RestartClaim DEF Next

-----------------------------------------------------------------------------
(* The theorems *)

LEMMA InitInv == Init => IInv
<1> SUFFICES ASSUME Init PROVE IInv
  OBVIOUS
<1>1. TypeInv
  BY InitType
<1>2. /\ cache = [n \in AllNames |-> NoObj] /\ indexes = [k \in Kinds |-> <<>>] /\ names \subseteq AllNames
  BY DEF Init, NewAPI, Kinds, AllNames
<1>3. /\ \A n \in AllNames : ~Alive(cache, n) /\ ~cache[n].label /\ cache[n].ref = "none"
      /\ "none" \notin PVs \cup PVCs
  BY <1>2, DashboardAssumption DEF Alive, NoObj
<1>4. ListInv /\ OneCsi /\ CsiInv
  BY <1>2, <1>3, NameFacts DEF ListInv, OneCsi, CsiInv, Wanted
<1>5. ClaimInv /\ PairInv
  BY <1>3 DEF ClaimInv, PairInv, PairWanted, BoundClaim, AllNames
<1>6. SharedInv
  BY <1>3 DEF SharedInv, Shared, AllNames
<1>7. TimeOrdered
  BY <1>2 DEF TimeOrdered, Kinds, InOrder
<1> QED BY <1>1, <1>4, <1>5, <1>6, <1>7 DEF IInv

LEMMA NextInv == IInv /\ [Next]_vars => IInv'
BY NextType, NextList, NextOneCsi, NextCsi, NextShared, NextClaim, NextOrder DEF IInv

LEMMA InvHolds == Spec => []IInv
BY InitInv, NextInv, PTL DEF Spec

(* At rest no event is left, so that a name is not coming.                  *)
LEMMA RestFacts ==
    ASSUME TypeInv, Rest, NEW n \in AllNames
    PROVE  ~Comes(n) /\ n \notin queue[Controller(n)] /\ ~At(n)
<1>1. Controller(n) \in Controllers /\ Idle.pc = "idle"
  BY NameFacts DEF Idle
<1>2. events[Controller(n)] = <<>> /\ queue[Controller(n)] = {} /\ worker[Controller(n)] = Idle
  BY <1>1 DEF Rest
<1> QED BY <1>1, <1>2, SureEmpty DEF Comes, At

(* The variables of the dashboard, its informers and queues keep their      *)
(* types (API, podController, pvController and pvcController).              *)
THEOREM TypeCorrect == Spec => []TypeOK
<1>1. IInv => TypeOK
  BY DEF IInv, TypeInv
<1> QED BY <1>1, InvHolds, PTL

(* No object gets lost: at rest the lists show every application pod with   *)
(* its label, every system pod and every volume that is not being deleted   *)
(* (the three Reconcile and the predicates), for any number of names and    *)
(* objects, of events that wait and of restarts.                            *)
THEOREM NothingLost == Spec => []AllListed
<1>1. ASSUME IInv PROVE AllListed
  <2> SUFFICES ASSUME Rest, NEW n \in names \ PVCs, Alive(cache, n), ~cache[n].deleting,
                      n \in Apps => cache[n].label
               PROVE  n \in ToSet(indexes[IndexOf(n)])
    BY DEF AllListed
  <2>1. TypeInv /\ n \in AllNames
    BY <1>1 DEF IInv, TypeInv, TypeOK, AllNames
  <2>2. ~Comes(n) /\ n \notin queue[Controller(n)] /\ ~At(n)
    BY <2>1, RestFacts
  <2>3. Comes(n) \/ (NotLost(n) /\ Has(n))
    BY <1>1 DEF IInv, ListInv, Wanted
  <2> QED BY <2>2, <2>3 DEF Has, Adds
<1> QED BY <1>1, InvHolds, PTL

(* At rest getCSINode finds the CSI node pod of the node, though the        *)
(* predicate of deletions and Reconcile of podController write the same     *)
(* entry of csiNodeIndex.                                                   *)
THEOREM CSINodeKnown == Spec => []CSINodeFound
<1>1. ASSUME IInv PROVE CSINodeFound
  <2> SUFFICES ASSUME Rest, NEW n \in Csis, Alive(cache, n), cache[n].label, ~cache[n].deleting
               PROVE  getCSINode = n
    BY DEF CSINodeFound
  <2>1. n \notin Apps /\ n # "none" /\ "pod" \in Controllers /\ Idle.pc = "idle"
    BY NameFacts DEF Controllers, Idle
  <2>2. events["pod"] = <<>> /\ queue["pod"] = {} /\ worker["pod"] = Idle
    BY <2>1 DEF Rest
  <2>3. ~CsiComes(n)
    BY <2>2, SureEmpty DEF CsiComes
  <2>4. CsiComes(n) \/ (NotCleared /\ CsiTurn(n))
    BY <1>1, <2>1 DEF IInv, CsiInv, CsiTurn, Wanted
  <2>5. csiNodeIndex = n
    BY <2>1, <2>2, <2>3, <2>4 DEF CsiTurn
  <2> QED BY <2>1, <2>5 DEF getCSINode
<1> QED BY <1>1, InvHolds, PTL

(* At rest a Bound claim leads to its volume, or to none when that is of    *)
(* another driver (API.pairs), though pvController, pvcController and the   *)
(* predicates write the entry; as long as no other volume carried the       *)
(* claim's name, no worker acted on an object that had gone, and the claim  *)
(* was not brought back by an update that the predicates drop, nor its      *)
(* volume created again without its name.                                   *)
THEOREM ClaimsPaired == Spec => []Paired
<1>1. ASSUME IInv PROVE Paired
  <2> SUFFICES ASSUME Rest, ~leftover, NEW c \in PVCs \ rebound, cache[c].label, ~cache[c].deleting,
                      cache[c].ref \in PVs => Alive(cache, cache[c].ref) /\ ~cache[cache[c].ref].deleting
               PROVE  pairs[c] = PairOf(cache[c].ref)
    BY DEF Paired
  <2>1. TypeInv /\ BoundClaim(c) /\ PairWanted(c)
    BY <1>1 DEF IInv, BoundClaim, PairWanted
  <2>2. /\ c \in AllNames /\ Controller(c) = "pvc"
        /\ cache[c].ref \in PVs => cache[c].ref \in AllNames /\ Controller(cache[c].ref) = "pv"
    BY <2>1, BoundFacts
  <2>3. /\ ~Comes(c) /\ c \notin queue["pvc"] /\ ~At(c)
        /\ cache[c].ref \in PVs =>
              ~Comes(cache[c].ref) /\ cache[c].ref \notin queue["pv"] /\ ~At(cache[c].ref)
    BY <2>1, <2>2, RestFacts
  <2>4. PairTurn(c)
    BY <1>1, <2>1 DEF IInv, PairInv
  <2> QED BY <2>3, <2>4 DEF PairTurn, HasClaim, VolumeComes
<1> QED BY <1>1, InvHolds, PTL

(* timeOrderedIndexes are in the order of creation, with no entry twice, at *)
(* any time and for any number of creation times, as long as no object of   *)
(* an entry, nor the one to be added, had gone at an addition (addIndex),   *)
(* and no name was used again while its old object was still listed.        *)
THEOREM IndexesOrdered == Spec => []TimeOrdered
<1>1. IInv => TimeOrdered
  BY DEF IInv
<1> QED BY <1>1, InvHolds, PTL

-----------------------------------------------------------------------------
(* Pages *)

(* A set of naturals with 0 and the successor of each of its elements up to *)
(* n holds all of 0..n.                                                     *)
LEMMA Steps ==
    ASSUME NEW n \in Nat, NEW S \in SUBSET Nat, 0 \in S,
           \A k \in 1..n : k - 1 \in S => k \in S
    PROVE  0..n \subseteq S
<1> SUFFICES ASSUME ~(0..n \subseteq S) PROVE FALSE
  OBVIOUS
<1> DEFINE T == {k \in 0..n : k \notin S}
<1>1. T \in SUBSET Nat /\ T # {}
  OBVIOUS
<1>2. PICK k \in T : \A l \in T : k <= l
  <2> HIDE DEF T
  <2> QED BY <1>1, Least
<1>3. k \in 1..n /\ k - 1 \in 0..n /\ k \notin S
  BY <1>2
<1>4. k - 1 \notin T
  BY <1>2, <1>3
<1> QED BY <1>3, <1>4

(* Two functions that grow in the same way are the same.                    *)
Grows(f, n, add) == f[0] = <<>> /\ \A k \in 1..n : f[k] = f[k - 1] \o add[k]

LEMMA GrowSame ==
    ASSUME NEW n \in Nat, NEW f, NEW g, NEW add, Grows(f, n, add), Grows(g, n, add)
    PROVE  \A k \in 0..n : f[k] = g[k]
<1> DEFINE S == {k \in Nat : f[k] = g[k]}
<1>1. 0 \in S
  BY DEF Grows
<1>2. ASSUME NEW k \in 1..n, k - 1 \in S PROVE k \in S
  <2>1. f[k - 1] = g[k - 1] /\ k \in Nat
    BY <1>2
  <2>2. f[k] = f[k - 1] \o add[k] /\ g[k] = g[k - 1] \o add[k]
    BY DEF Grows
  <2> QED BY <2>1, <2>2
<1>3. S \in SUBSET Nat
  OBVIOUS
<1>4. 0..n \subseteq S
  <2> HIDE DEF S
  <2> QED BY <1>1, <1>2, <1>3, Steps
<1> QED BY <1>4

(* What Joined returns, from any function that joins the lists one by one.  *)
LEMMA JoinedIs ==
    ASSUME NEW lists, Len(lists) \in Nat, NEW g, Grows(g, Len(lists), lists)
    PROVE  Joined(lists) = g[Len(lists)]
<1> DEFINE n == Len(lists)
           UpTo(f) == f = [i \in 0..n |-> IF i = 0 THEN <<>> ELSE f[i - 1] \o lists[i]]
           h == [i \in 0..n |-> g[i]]
<1>1. Joined(lists) = (CHOOSE f : UpTo(f))[n]
  BY DEF Joined
<1>2. UpTo(h)
  <2>1. ASSUME NEW i \in 0..n PROVE h[i] = IF i = 0 THEN <<>> ELSE h[i - 1] \o lists[i]
    <3>1. CASE i = 0
      BY <3>1 DEF Grows
    <3>2. CASE i # 0
      <4>1. i \in 1..n /\ i - 1 \in 0..n
        BY <3>2
      <4> QED BY <3>2, <4>1 DEF Grows
    <3> QED BY <3>1, <3>2
  <2>2. h = [i \in 0..n |-> h[i]]
    OBVIOUS
  <2> HIDE DEF h
  <2> QED BY <2>1, <2>2
<1>3. PICK f : UpTo(f) /\ f = (CHOOSE ff : UpTo(ff))
  <2> HIDE DEF UpTo, h
  <2> QED BY <1>2
<1>4. Grows(f, n, lists)
  <2>1. f[0] = <<>>
    BY <1>3
  <2>2. ASSUME NEW i \in 1..n PROVE f[i] = f[i - 1] \o lists[i]
    <3>1. i \in 0..n /\ i # 0
      OBVIOUS
    <3> QED BY <1>3, <3>1
  <2> QED BY <2>1, <2>2 DEF Grows
<1>5. f[n] = g[n]
  BY <1>4, GrowSame
<1> QED BY <1>1, <1>3, <1>5

(* What KeepIn adds for each entry.                                         *)
Entries(s, K) == [i \in 1..Len(s) |-> IF s[i] \in K THEN <<s[i]>> ELSE <<>>]

LEMMA KeepInIs ==
    ASSUME NEW s, NEW K, Len(s) \in Nat, NEW g, Grows(g, Len(s), Entries(s, K))
    PROVE  KeepIn(s, K) = g[Len(s)]
<1> DEFINE n == Len(s)
           UpTo(f) == f = [i \in 0..n |-> IF i = 0 THEN <<>> ELSE f[i - 1] \o (IF s[i] \in K THEN <<s[i]>> ELSE <<>>)]
           h == [i \in 0..n |-> g[i]]
<1>1. KeepIn(s, K) = (CHOOSE f : UpTo(f))[n]
  BY DEF KeepIn
<1>2. UpTo(h)
  <2>1. ASSUME NEW i \in 0..n PROVE h[i] = IF i = 0 THEN <<>> ELSE h[i - 1] \o (IF s[i] \in K THEN <<s[i]>> ELSE <<>>)
    <3>1. CASE i = 0
      BY <3>1 DEF Grows
    <3>2. CASE i # 0
      <4>1. i \in 1..n /\ i - 1 \in 0..n
        BY <3>2
      <4>2. g[i] = g[i - 1] \o Entries(s, K)[i]
        BY <4>1 DEF Grows
      <4>3. Entries(s, K)[i] = IF s[i] \in K THEN <<s[i]>> ELSE <<>>
        BY <4>1 DEF Entries
      <4>4. h[i] = g[i] /\ h[i - 1] = g[i - 1]
        BY <4>1
      <4> HIDE DEF h
      <4> QED BY <3>2, <4>2, <4>3, <4>4
    <3> QED BY <3>1, <3>2
  <2>2. h = [i \in 0..n |-> h[i]]
    OBVIOUS
  <2> HIDE DEF h
  <2> QED BY <2>1, <2>2
<1>3. PICK f : UpTo(f) /\ f = (CHOOSE ff : UpTo(ff))
  <2> HIDE DEF UpTo, h
  <2> QED BY <1>2
<1>4. Grows(f, n, Entries(s, K))
  <2>1. f[0] = <<>>
    BY <1>3
  <2>2. ASSUME NEW i \in 1..n PROVE f[i] = f[i - 1] \o Entries(s, K)[i]
    <3>1. i \in 0..n /\ i # 0
      OBVIOUS
    <3>2. f[i] = f[i - 1] \o (IF s[i] \in K THEN <<s[i]>> ELSE <<>>)
      BY <1>3, <3>1
    <3>3. Entries(s, K)[i] = IF s[i] \in K THEN <<s[i]>> ELSE <<>>
      BY DEF Entries
    <3> QED BY <3>2, <3>3
  <2> QED BY <2>1, <2>2 DEF Grows
<1>5. f[n] = g[n]
  BY <1>4, GrowSame
<1> QED BY <1>1, <1>3, <1>5

(* There is a function that grows in a given way.                           *)
LEMMA GrowExists ==
    ASSUME NEW n \in Nat, NEW add
    PROVE  \E f : Grows(f, n, add)
<1> DEFINE S == {m \in Nat : \E f : Grows(f, m, add)}
<1>1. 0 \in S
  <2>1. Grows([i \in 0..0 |-> <<>>], 0, add)
    BY DEF Grows
  <2> QED BY <2>1
<1>2. ASSUME NEW m \in 1..n, m - 1 \in S PROVE m \in S
  <2>1. PICK f : Grows(f, m - 1, add)
    BY <1>2
  <2> DEFINE g == [i \in 0..m |-> IF i = m THEN f[m - 1] \o add[m] ELSE f[i]]
  <2>2. g[0] = <<>>
    <3>1. 0 \in 0..m /\ 0 # m
      OBVIOUS
    <3>2. f[0] = <<>>
      BY <2>1, Zenon DEF Grows
    <3> QED BY <3>1, <3>2
  <2>3. ASSUME NEW i \in 1..m PROVE g[i] = g[i - 1] \o add[i]
    <3>1. CASE i = m
      <4>0. m \in 0..m /\ m - 1 \in 0..m /\ m - 1 # m
        OBVIOUS
      <4>1. g[m] = f[m - 1] \o add[m] /\ g[m - 1] = f[m - 1]
        BY <4>0
      <4> QED BY <3>1, <4>1
    <3>2. CASE i # m
      <4>0. i \in 0..m /\ i - 1 \in 0..m /\ i - 1 # m /\ i \in 1..(m - 1)
        BY <3>2
      <4>1. g[i] = f[i] /\ g[i - 1] = f[i - 1]
        BY <3>2, <4>0
      <4>2. f[i] = f[i - 1] \o add[i]
        BY <2>1, <4>0 DEF Grows
      <4> QED BY <4>1, <4>2
    <3> QED BY <3>1, <3>2
  <2> HIDE DEF g
  <2>4. Grows(g, m, add)
    BY <2>2, <2>3 DEF Grows
  <2>5. m \in Nat /\ \E h : Grows(h, m, add)
    BY <2>4
  <2> QED BY <2>5
<1>3. S \in SUBSET Nat
  OBVIOUS
<1>4. 0..n \subseteq S
  <2> HIDE DEF S
  <2> QED BY <1>1, <1>2, <1>3, Steps
<1>5. n \in S
  BY <1>4
<1> QED BY <1>5

(* A function that grows by sequences is of sequences.                      *)
LEMMA GrowSeq ==
    ASSUME NEW n \in Nat, NEW f, NEW S, NEW add, Grows(f, n, add), \A k \in 1..n : add[k] \in Seq(S)
    PROVE  \A k \in 0..n : f[k] \in Seq(S)
<1> DEFINE T == {k \in Nat : f[k] \in Seq(S)}
<1>1. 0 \in T
  <2>1. <<>> \in Seq(S) /\ f[0] = <<>>
    BY DEF Grows
  <2> QED BY <2>1
<1>2. ASSUME NEW k \in 1..n, k - 1 \in T PROVE k \in T
  <2>1. f[k - 1] \in Seq(S) /\ k \in Nat
    BY <1>2
  <2>2. f[k] = f[k - 1] \o add[k]
    BY DEF Grows
  <2> QED BY <2>1, <2>2, ConcatProperties
<1>3. T \in SUBSET Nat
  OBVIOUS
<1>4. 0..n \subseteq T
  <2> HIDE DEF T
  <2> QED BY <1>1, <1>2, <1>3, Steps
<1> QED BY <1>4

LEMMA EntriesSeq ==
    ASSUME NEW S, NEW s \in Seq(S), NEW K
    PROVE  \A k \in 1..Len(s) : Entries(s, K)[k] \in Seq(S)
<1> TAKE k \in 1..Len(s)
<1>1. s[k] \in S
  OBVIOUS
<1>2. Entries(s, K)[k] = IF s[k] \in K THEN <<s[k]>> ELSE <<>>
  BY DEF Entries
<1> QED BY <1>1, <1>2

LEMMA KeepInSeq ==
    ASSUME NEW S, NEW s \in Seq(S), NEW K
    PROVE  KeepIn(s, K) \in Seq(S)
<1>0. Len(s) \in Nat /\ Len(s) \in 0..Len(s)
  OBVIOUS
<1>1. PICK f : Grows(f, Len(s), Entries(s, K))
  BY <1>0, GrowExists
<1>2. KeepIn(s, K) = f[Len(s)]
  BY <1>0, <1>1, KeepInIs
<1>3. \A k \in 0..Len(s) : f[k] \in Seq(S)
  BY <1>0, <1>1, EntriesSeq, GrowSeq
<1> QED BY <1>0, <1>2, <1>3

LEMMA KeepInNone ==
    ASSUME NEW K
    PROVE  KeepIn(<<>>, K) = <<>>
<1>1. PICK f : Grows(f, 0, Entries(<<>>, K))
  BY GrowExists
<1>2. Len(<<>>) = 0
  OBVIOUS
<1>3. KeepIn(<<>>, K) = f[0]
  BY <1>1, <1>2, KeepInIs
<1> QED BY <1>1, <1>3 DEF Grows

(* Of two lists put together KeepIn keeps what it keeps of each.            *)
LEMMA KeepInCat ==
    ASSUME NEW S, NEW s \in Seq(S), NEW t \in Seq(S), NEW K
    PROVE  KeepIn(s \o t, K) = KeepIn(s, K) \o KeepIn(t, K)
<1> DEFINE a == Len(s)
           b == Len(t)
<1>0. a \in Nat /\ b \in Nat
  OBVIOUS
<1>1. /\ s \o t \in Seq(S) /\ Len(s \o t) = a + b
      /\ \A i \in 1..(a + b) : (s \o t)[i] = IF i <= a THEN s[i] ELSE t[i - a]
  BY ConcatProperties
<1>2. PICK f : Grows(f, a, Entries(s, K))
  BY <1>0, GrowExists
<1>3. PICK h : Grows(h, b, Entries(t, K))
  BY <1>0, GrowExists
<1>4. (\A k \in 0..a : f[k] \in Seq(S)) /\ (\A k \in 0..b : h[k] \in Seq(S))
  BY <1>0, <1>2, <1>3, EntriesSeq, GrowSeq
<1>5. KeepIn(s, K) = f[a] /\ KeepIn(t, K) = h[b]
  BY <1>0, <1>2, <1>3, KeepInIs
<1> DEFINE g == [i \in 0..(a + b) |-> IF i <= a THEN f[i] ELSE f[a] \o h[i - a]]
           E == Entries(s \o t, K)
<1>6. /\ \A i \in 1..a : E[i] = Entries(s, K)[i]
      /\ \A i \in (a + 1)..(a + b) : E[i] = Entries(t, K)[i - a]
  <2>1. E = [i \in 1..(a + b) |-> IF (s \o t)[i] \in K THEN <<(s \o t)[i]>> ELSE <<>>]
    BY <1>1 DEF Entries
  <2>2. ASSUME NEW i \in 1..a PROVE E[i] = Entries(s, K)[i]
    <3>1. i \in 1..(a + b) /\ i <= a
      BY <1>0
    <3>2. (s \o t)[i] = s[i]
      BY <1>1, <3>1
    <3> HIDE DEF E
    <3> QED BY <2>1, <3>1, <3>2 DEF Entries
  <2>3. ASSUME NEW i \in (a + 1)..(a + b) PROVE E[i] = Entries(t, K)[i - a]
    <3>1. i \in 1..(a + b) /\ ~(i <= a) /\ i - a \in 1..b
      BY <1>0
    <3>2. (s \o t)[i] = t[i - a]
      BY <1>1, <3>1
    <3>3. E[i] = IF t[i - a] \in K THEN <<t[i - a]>> ELSE <<>>
      <4> HIDE DEF E
      <4> QED BY <2>1, <3>1, <3>2
    <3>4. Entries(t, K)[i - a] = IF t[i - a] \in K THEN <<t[i - a]>> ELSE <<>>
      BY <3>1 DEF Entries
    <3> QED BY <3>3, <3>4
  <2> QED BY <2>2, <2>3
<1>7. g[0] = <<>> /\ g[a + b] = f[a] \o h[b]
  <2>1. g[0] = <<>>
    BY <1>0, <1>2 DEF Grows
  <2>2. CASE b = 0
    <3>1. h[b] = <<>> /\ f[a] \in Seq(S) /\ g[a + b] = f[a]
      BY <1>0, <1>3, <1>4, <2>2 DEF Grows
    <3> QED BY <2>1, <3>1, ConcatEmptySeq
  <2>3. CASE b # 0
    <3>1. PICK c \in 0..(a + b) : c = a + b /\ ~(c <= a) /\ c - a = b
      BY <1>0, <2>3
    <3>2. g[c] = f[a] \o h[c - a]
      BY <3>1
    <3> HIDE DEF g, a, b
    <3> QED BY <2>1, <3>1, <3>2
  <2> QED BY <2>2, <2>3
<1>8. ASSUME NEW i \in 1..(a + b) PROVE g[i] = g[i - 1] \o E[i]
  <2>0. i \in 0..(a + b) /\ i - 1 \in 0..(a + b)
    BY <1>0
  <2>1. CASE i <= a
    <3>1. i \in 1..a /\ i - 1 <= a
      BY <1>0, <2>1
    <3>2. g[i] = f[i] /\ g[i - 1] = f[i - 1]
      BY <2>0, <2>1, <3>1
    <3>3. f[i] = f[i - 1] \o Entries(s, K)[i]
      BY <1>2, <3>1 DEF Grows
    <3> HIDE DEF g, E
    <3> QED BY <1>6, <3>1, <3>2, <3>3
  <2>2. CASE i > a
    <3>1. i \in (a + 1)..(a + b) /\ i - a \in 1..b /\ i - a - 1 \in 0..b /\ i - 1 - a = i - a - 1 /\ ~(i <= a)
      BY <1>0, <2>2
    <3>2. g[i] = f[a] \o h[i - a]
      BY <2>0, <3>1
    <3>3. g[i - 1] = f[a] \o h[i - a - 1]
      <4>1. CASE i - 1 = a
        <5>1. i - a - 1 = 0 /\ h[0] = <<>> /\ f[a] \in Seq(S)
          BY <1>0, <1>3, <1>4, <4>1 DEF Grows
        <5>2. f[a] \o h[i - a - 1] = f[a]
          BY <5>1, ConcatEmptySeq
        <5>3. g[i - 1] = f[a]
          BY <1>0, <2>0, <4>1
        <5> QED BY <5>2, <5>3
      <4>2. CASE i - 1 # a
        <5>1. ~(i - 1 <= a)
          BY <1>0, <3>1, <4>2
        <5> QED BY <2>0, <3>1, <5>1
      <4> QED BY <4>1, <4>2
    <3>4. h[i - a] = h[i - a - 1] \o Entries(t, K)[i - a]
      BY <1>3, <3>1 DEF Grows
    <3>5. f[a] \in Seq(S) /\ h[i - a - 1] \in Seq(S) /\ Entries(t, K)[i - a] \in Seq(S)
      BY <1>0, <1>4, <3>1, EntriesSeq
    <3>6. (f[a] \o h[i - a - 1]) \o Entries(t, K)[i - a] = f[a] \o (h[i - a - 1] \o Entries(t, K)[i - a])
      <4>1. PICK x \in Seq(S), y \in Seq(S), z \in Seq(S) :
                 x = f[a] /\ y = h[i - a - 1] /\ z = Entries(t, K)[i - a]
        BY <3>5
      <4>2. (x \o y) \o z = x \o (y \o z)
        BY ConcatAssociative, SMTT(30)
      <4> HIDE DEF g, E, a, b
      <4> QED BY <4>1, <4>2
    <3>7. E[i] = Entries(t, K)[i - a]
      BY <1>6, <3>1
    <3> HIDE DEF g, E
    <3> QED BY <3>2, <3>3, <3>4, <3>6, <3>7
  <2>3. i <= a \/ i > a
    BY <1>0
  <2> HIDE DEF g, E
  <2> QED BY <2>1, <2>2, <2>3
<1>9. Grows(g, Len(s \o t), E)
  <2> HIDE DEF g, E, a, b
  <2> QED BY <1>1, <1>7, <1>8 DEF Grows
<1>10. KeepIn(s \o t, K) = g[Len(s \o t)]
  <2>1. Len(s \o t) \in Nat
    BY <1>0, <1>1
  <2> HIDE DEF g
  <2> QED BY <1>9, <2>1, KeepInIs
<1> HIDE DEF g, a, b
<1> QED BY <1>1, <1>5, <1>7, <1>10

(* The first k pages of a list.                                             *)
EndOf(all, size, k) == IF k * size > Len(all) THEN Len(all) ELSE k * size
FirstPages(all, size, k) == SubSeq(all, 1, EndOf(all, size, k))

LEMMA EndOfFacts ==
    ASSUME NEW S, NEW all \in Seq(S), NEW size \in Nat \ {0}
    PROVE  /\ \A k \in Nat : EndOf(all, size, k) \in 0..Len(all)
           /\ EndOf(all, size, 0) = 0
           /\ EndOf(all, size, Len(all) + 1) = Len(all)
<1>0. Len(all) \in Nat
  OBVIOUS
<1>1. ASSUME NEW k \in Nat PROVE EndOf(all, size, k) \in 0..Len(all)
  <2>1. k * size \in Nat
    OBVIOUS
  <2> QED BY <1>0, <2>1 DEF EndOf
<1>2. EndOf(all, size, 0) = 0
  <2>1. 0 * size = 0
    OBVIOUS
  <2> QED BY <1>0, <2>1 DEF EndOf
<1>3. EndOf(all, size, Len(all) + 1) = Len(all)
  <2>1. \A n, m \in Nat : (n + 1) * (m + 1) > n
    OBVIOUS
  <2>2. size - 1 \in Nat /\ (size - 1) + 1 = size
    OBVIOUS
  <2>3. (Len(all) + 1) * size > Len(all)
    BY <1>0, <2>1, <2>2
  <2> QED BY <2>3 DEF EndOf
<1> QED BY <1>1, <1>2, <1>3

(* A page goes on where the pages before it end.                            *)
LEMMA PageNext ==
    ASSUME NEW S, NEW all \in Seq(S), NEW size \in Nat \ {0}, NEW k \in Nat \ {0}
    PROVE  /\ FirstPages(all, size, k) = FirstPages(all, size, k - 1) \o Page(all, size, k)
           /\ FirstPages(all, size, k - 1) \in Seq(S) /\ Page(all, size, k) \in Seq(S)
<1> DEFINE n == Len(all)
           s == (k - 1) * size
           e == s + size
<1>0. n \in Nat /\ k - 1 \in Nat
  OBVIOUS
<1>1. s \in Nat /\ e \in Nat /\ s < e /\ k * size = e
  <2>1. \A m \in Nat : m * size \in Nat /\ (m + 1) * size = m * size + size
    OBVIOUS
  <2>2. (k - 1) + 1 = k
    OBVIOUS
  <2> QED BY <1>0, <2>1, <2>2
<1>2. /\ EndOf(all, size, k) = (IF e > n THEN n ELSE e)
      /\ EndOf(all, size, k - 1) = (IF s > n THEN n ELSE s)
  BY <1>1 DEF EndOf
<1>3. Page(all, size, k) = IF s >= n THEN <<>> ELSE SubSeq(all, s + 1, IF e > n THEN n ELSE e)
  BY DEF Page
<1> HIDE DEF s, e
<1>4. \A m \in 0..n : SubSeq(all, 1, m) \in Seq(S)
  <2> TAKE m \in 0..n
  <2>1. m \in Int /\ 1 \in Int /\ \A i \in 1..m : all[i] \in S
    BY <1>0
  <2> QED BY <2>1, SubSeqProperties
<1>5. CASE s >= n
  <2>1. EndOf(all, size, k) = n /\ EndOf(all, size, k - 1) = n
    BY <1>0, <1>1, <1>2, <1>5
  <2>2. SubSeq(all, 1, n) \in Seq(S) /\ Page(all, size, k) = <<>> /\ <<>> \in Seq(S)
    BY <1>0, <1>3, <1>4, <1>5
  <2> HIDE DEF n
  <2> QED BY <2>1, <2>2, ConcatEmptySeq DEF FirstPages
<1>6. CASE s < n
  <2>1. PICK m \in s..n : m = (IF e > n THEN n ELSE e)
    BY <1>0, <1>1, <1>6
  <2>2. EndOf(all, size, k) = m /\ EndOf(all, size, k - 1) = s /\ Page(all, size, k) = SubSeq(all, s + 1, m)
    BY <1>0, <1>1, <1>2, <1>3, <1>6, <2>1
  <2>3. SubSeq(all, 1, s) \o SubSeq(all, s + 1, m) = SubSeq(all, 1, m)
    <3>1. 1 \in 1..(n + 1) /\ s \in (1 - 1)..n /\ m \in s..n
      BY <1>0, <1>1, <1>6
    <3> QED BY <3>1, ConcatAdjacentSubSeq
  <2>4. SubSeq(all, 1, s) \in Seq(S)
    BY <1>0, <1>1, <1>4, <1>6
  <2>5. SubSeq(all, s + 1, m) \in Seq(S)
    <3>1. s + 1 \in Int /\ m \in Int /\ \A i \in (s + 1)..m : all[i] \in S
      BY <1>0, <1>1
    <3> QED BY <3>1, SubSeqProperties
  <2> QED BY <2>2, <2>3, <2>4, <2>5 DEF FirstPages
<1> QED BY <1>0, <1>1, <1>5, <1>6

(* The pages of a list put together are the list.                           *)
LEMMA PagesJoined ==
    ASSUME NEW S, NEW all \in Seq(S), NEW size \in Nat \ {0}
    PROVE  Joined([k \in 1..(Len(all) + 1) |-> Page(all, size, k)]) = all
<1> DEFINE n == Len(all)
           lists == [k \in 1..(n + 1) |-> Page(all, size, k)]
           g == [k \in 0..(n + 1) |-> FirstPages(all, size, k)]
<1>0. n \in Nat /\ n + 1 \in Nat /\ n + 1 \in 0..(n + 1)
  OBVIOUS
<1>1. Len(lists) = n + 1
  BY <1>0
<1>2. g[0] = <<>>
  <2>1. EndOf(all, size, 0) = 0 /\ g[0] = FirstPages(all, size, 0)
    BY <1>0, EndOfFacts
  <2>2. g[0] = SubSeq(all, 1, 0)
    BY <2>1 DEF FirstPages
  <2>3. SubSeq(all, 1, 0) = <<>>
    BY SubSeqEmpty
  <2> QED BY <2>2, <2>3
<1>3. ASSUME NEW k \in 1..(n + 1) PROVE g[k] = g[k - 1] \o lists[k]
  <2>1. k \in Nat \ {0} /\ k \in 0..(n + 1) /\ k - 1 \in 0..(n + 1)
    BY <1>0
  <2>2. g[k] = FirstPages(all, size, k) /\ g[k - 1] = FirstPages(all, size, k - 1) /\ lists[k] = Page(all, size, k)
    BY <2>1
  <2> HIDE DEF g, lists, n
  <2> QED BY <2>1, <2>2, PageNext
<1>4. g[n + 1] = all
  <2>1. g[n + 1] = SubSeq(all, 1, n)
    BY <1>0, EndOfFacts DEF FirstPages
  <2> QED BY <2>1, SubSeqFull
<1> HIDE DEF g, lists, n
<1>5. Grows(g, Len(lists), lists)
  BY <1>1, <1>2, <1>3 DEF Grows
<1>6. Joined(lists) = g[n + 1]
  BY <1>0, <1>1, <1>5, JoinedIs
<1> QED BY <1>4, <1>6 DEF lists, n

(* The same when a page is shortened after it was cut.                      *)
LEMMA KeptPagesJoined ==
    ASSUME NEW S, NEW all \in Seq(S), NEW size \in Nat \ {0}, NEW K
    PROVE  Joined([k \in 1..(Len(all) + 1) |-> KeepIn(Page(all, size, k), K)]) = KeepIn(all, K)
<1> DEFINE n == Len(all)
           lists == [k \in 1..(n + 1) |-> KeepIn(Page(all, size, k), K)]
           g == [k \in 0..(n + 1) |-> KeepIn(FirstPages(all, size, k), K)]
<1>0. n \in Nat /\ n + 1 \in Nat /\ n + 1 \in 0..(n + 1)
  OBVIOUS
<1>1. Len(lists) = n + 1
  BY <1>0
<1>2. g[0] = <<>>
  <2>1. g[0] = KeepIn(SubSeq(all, 1, 0), K)
    BY <1>0, EndOfFacts DEF FirstPages
  <2> QED BY <2>1, SubSeqEmpty, KeepInNone
<1>3. ASSUME NEW k \in 1..(n + 1) PROVE g[k] = g[k - 1] \o lists[k]
  <2>1. k \in Nat \ {0} /\ k \in 0..(n + 1) /\ k - 1 \in 0..(n + 1)
    BY <1>0
  <2>2. /\ g[k] = KeepIn(FirstPages(all, size, k), K) /\ g[k - 1] = KeepIn(FirstPages(all, size, k - 1), K)
        /\ lists[k] = KeepIn(Page(all, size, k), K)
    BY <2>1
  <2> HIDE DEF g, lists, n
  <2>3. /\ FirstPages(all, size, k) = FirstPages(all, size, k - 1) \o Page(all, size, k)
        /\ FirstPages(all, size, k - 1) \in Seq(S) /\ Page(all, size, k) \in Seq(S)
    <3>1. FirstPages(all, size, k) = FirstPages(all, size, k - 1) \o Page(all, size, k)
      BY <2>1, PageNext
    <3>2. FirstPages(all, size, k - 1) \in Seq(S) /\ Page(all, size, k) \in Seq(S)
      BY <2>1, PageNext
    <3> QED BY <3>1, <3>2
  <2>4. KeepIn(FirstPages(all, size, k - 1) \o Page(all, size, k), K)
            = KeepIn(FirstPages(all, size, k - 1), K) \o KeepIn(Page(all, size, k), K)
    BY <2>3, KeepInCat, SMTT(30)
  <2> QED BY <2>2, <2>3, <2>4
<1>4. g[n + 1] = KeepIn(all, K)
  <2>1. g[n + 1] = KeepIn(SubSeq(all, 1, n), K)
    BY <1>0, EndOfFacts DEF FirstPages
  <2> QED BY <2>1, SubSeqFull
<1> HIDE DEF g, lists, n
<1>5. Grows(g, Len(lists), lists)
  BY <1>1, <1>2, <1>3 DEF Grows
<1>6. Joined(lists) = g[n + 1]
  BY <1>0, <1>1, <1>5, JoinedIs
<1> QED BY <1>4, <1>6 DEF lists, n

(* What the handlers show are names.                                        *)
LEMMA ListingSeq ==
    ASSUME NEW S, NEW list \in Seq(S), NEW store, NEW descend
    PROVE  Listing(list, store, descend) \in Seq(S)
<1> DEFINE there == KeepIn(list, {name \in ToSet(list) : Alive(store, name)})
<1>1. there \in Seq(S)
  BY KeepInSeq
<1>2. Listing(list, store, descend) = IF descend THEN Reverse(there) ELSE there
  BY DEF Listing
<1> HIDE DEF there
<1>3. Reverse(there) \in Seq(S)
  <2>1. Reverse(there) = [i \in 1..Len(there) |-> there[(Len(there) - i) + 1]]
    BY DEF Reverse
  <2>2. Len(there) \in Nat /\ \A i \in 1..Len(there) : there[(Len(there) - i) + 1] \in S
    BY <1>1
  <2> QED BY <2>1, <2>2
<1> QED BY <1>1, <1>2, <1>3

(* The pages of every list handler put together are its list, in every      *)
(* reachable state, for any number of objects, every page size, both orders *)
(* and every volume whose claims are asked for: no object is on two pages   *)
(* or on none, but for system pods without node, which listSysPod takes     *)
(* from the page after it was cut.                                          *)
THEOREM PagesCovered == Spec => []PagesCover
<1>1. ASSUME IInv PROVE PagesCover
  <2>1. \A k \in Kinds : indexes[k] \in Seq(AllNames)
    BY <1>1 DEF IInv, TypeInv, TypeOK, Kinds
  <2> SUFFICES ASSUME NEW descend \in BOOLEAN
               PROVE  /\ PagesComplete(Listing(indexes.app, cache, descend), Len(Listing(indexes.app, cache, descend)),
                                       LAMBDA s, p : listAppPod(descend, s, p))
                      /\ PagesComplete(KeepIn(Listing(indexes.sys, cache, descend), NodeKnown),
                                       Len(Listing(indexes.sys, cache, descend)),
                                       LAMBDA s, p : listSysPod(descend, s, p))
                      /\ PagesComplete(Listing(indexes.pv, cache, descend), Len(Listing(indexes.pv, cache, descend)),
                                       LAMBDA s, p : listPVs(descend, s, p))
                      /\ \A v \in PVs \cup {"none"} :
                             PagesComplete(KeepIn(Listing(indexes.pvc, cache, descend), Required(v)),
                                           Len(KeepIn(Listing(indexes.pvc, cache, descend), Required(v))),
                                           LAMBDA s, p : listPVCs(descend, v, s, p))
    BY DEF PagesCover
  <2>2. PICK app, sys, pv, pvc :
            /\ app = Listing(indexes.app, cache, descend) /\ sys = Listing(indexes.sys, cache, descend)
            /\ pv = Listing(indexes.pv, cache, descend) /\ pvc = Listing(indexes.pvc, cache, descend)
    OBVIOUS
  <2>3. app \in Seq(AllNames) /\ sys \in Seq(AllNames) /\ pv \in Seq(AllNames) /\ pvc \in Seq(AllNames)
    <3>1. /\ indexes.app \in Seq(AllNames) /\ indexes.sys \in Seq(AllNames)
          /\ indexes.pv \in Seq(AllNames) /\ indexes.pvc \in Seq(AllNames)
      BY <2>1 DEF Kinds
    <3> QED BY <2>2, <3>1, ListingSeq
  <2>4. PagesComplete(app, Len(app), LAMBDA s, p : listAppPod(descend, s, p))
    <3> SUFFICES ASSUME NEW size \in 1..(Len(app) + 1)
                 PROVE  Joined([current \in 1..(Len(app) + 1) |-> listAppPod(descend, size, current)]) = app
      BY DEF PagesComplete
    <3>1. size \in Nat \ {0}
      BY <2>3
    <3>2. \A current : listAppPod(descend, size, current) = Page(app, size, current)
      BY <2>2 DEF listAppPod
    <3> QED BY <2>3, <3>1, <3>2, PagesJoined
  <2>5. PagesComplete(KeepIn(sys, NodeKnown), Len(sys), LAMBDA s, p : listSysPod(descend, s, p))
    <3> SUFFICES ASSUME NEW size \in 1..(Len(sys) + 1)
                 PROVE  Joined([current \in 1..(Len(sys) + 1) |-> listSysPod(descend, size, current)])
                            = KeepIn(sys, NodeKnown)
      BY DEF PagesComplete
    <3>1. size \in Nat \ {0}
      BY <2>3
    <3>2. \A current : listSysPod(descend, size, current) = KeepIn(Page(sys, size, current), NodeKnown)
      BY <2>2 DEF listSysPod
    <3> QED BY <2>3, <3>1, <3>2, KeptPagesJoined
  <2>6. PagesComplete(pv, Len(pv), LAMBDA s, p : listPVs(descend, s, p))
    <3> SUFFICES ASSUME NEW size \in 1..(Len(pv) + 1)
                 PROVE  Joined([current \in 1..(Len(pv) + 1) |-> listPVs(descend, size, current)]) = pv
      BY DEF PagesComplete
    <3>1. size \in Nat \ {0}
      BY <2>3
    <3>2. \A current : listPVs(descend, size, current) = Page(pv, size, current)
      BY <2>2 DEF listPVs
    <3> QED BY <2>3, <3>1, <3>2, PagesJoined
  <2>7. ASSUME NEW v \in PVs \cup {"none"}
        PROVE  PagesComplete(KeepIn(pvc, Required(v)), Len(KeepIn(pvc, Required(v))),
                             LAMBDA s, p : listPVCs(descend, v, s, p))
    <3>0. PICK kept \in Seq(AllNames) : kept = KeepIn(pvc, Required(v))
      BY <2>3, KeepInSeq
    <3> SUFFICES ASSUME NEW size \in 1..(Len(kept) + 1)
                 PROVE  Joined([current \in 1..(Len(kept) + 1) |-> listPVCs(descend, v, size, current)]) = kept
      BY <3>0 DEF PagesComplete
    <3>1. size \in Nat \ {0}
      OBVIOUS
    <3>2. \A current : listPVCs(descend, v, size, current) = Page(kept, size, current)
      BY <2>2, <3>0 DEF listPVCs
    <3> QED BY <3>1, <3>2, PagesJoined
  <2> QED BY <2>2, <2>4, <2>5, <2>6, <2>7
<1> QED BY <1>1, InvHolds, PTL

=============================================================================
