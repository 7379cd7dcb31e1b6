----------------------------- MODULE Dashboard -----------------------------
(***************************************************************************)
(* The dashboard's indexes of pods, volumes and claims.  For each of the   *)
(* three kinds an informer (a library) changes its cache, then calls the   *)
(* predicates of the events one after the other in a goroutine of its own; *)
(* those of deletions change the indexes themselves, the others decide     *)
(* whether the name goes into the controller's queue.  The one worker of a *)
(* controller reads the object from the cache and adds it to or removes it *)
(* from the indexes.  So the cache can have moved on when an index is      *)
(* changed, and three workers and three informers change the same tables.  *)
(***************************************************************************)
EXTENDS TimeIndex

CONSTANTS
    Apps,        \* names of pods that use a volume (a name may be used again)
    Csis,        \* names of CSI node pods of one node, one of them at a time
    Mounts,      \* names of mount pods, the other system pods
    PVs, PVCs,   \* names of the driver's volumes and of claims
    MaxObjects,  \* bound: objects created
    MaxEvents,   \* bound: controller -> events whose predicates are yet to be called
    MaxTime      \* bound: creation times told apart

ASSUME DashboardAssumption ==
    /\ Apps \cap (Csis \cup Mounts) = {} /\ Csis \cap Mounts = {} /\ PVs \cap PVCs = {}
    /\ (Apps \cup Csis \cup Mounts) \cap (PVs \cup PVCs) = {}
    /\ {"none", "other"} \cap (Apps \cup Csis \cup Mounts \cup PVs \cup PVCs) = {}
    /\ MaxObjects \in Nat /\ MaxTime \in Nat \ {0}

VARIABLES
    names,         \* the names in use: pods of one kind, or volumes and claims
    cache,         \* name -> the object in the informer's cache
    events,        \* controller -> events whose predicates are still to be called
    queue,         \* controller -> its work queue
    worker,        \* controller -> its Reconcile under way
    indexes,       \* API.appIndexes, sysIndexes, pvIndexes, pvcIndexes
    csiNodeIndex,  \* API.csiNodeIndex of the node
    pairs,         \* API.pairs: claim -> volume
    leftover,      \* history: what puts the indexes out of order, see TimeOrdered and Paired
    rebound,       \* history: claims brought back behind the predicates, see Paired
    left           \* what is left of the bounds

env  == <<names, left>>
api  == <<indexes, csiNodeIndex, pairs>>
vars == <<env, cache, events, queue, worker, api, leftover, rebound>>

Controllers == {"pod", "pv", "pvc"}
Controller(n) == IF n \in PVs THEN "pv" ELSE IF n \in PVCs THEN "pvc" ELSE "pod"
SysPods == Csis \cup Mounts
Pods    == Apps \cup SysPods
IndexOf(n) == IF n \in Apps THEN "app" ELSE IF n \in SysPods THEN "sys" ELSE Controller(n)

(* label: an application pod has the label that isAppPod asks for, a system *)
(* pod is bound to its node, a claim is in phase Bound.  ref: the ClaimRef  *)
(* of a volume, the volume's name of a claim, "other" for volumes of other  *)
(* drivers.                                                                 *)
NoObj == [uid |-> 0, born |-> 0, label |-> FALSE, deleting |-> FALSE, ref |-> "none"]
Idle  == [pc |-> "idle", name |-> "none", obj |-> NoObj]

AllNames == Apps \cup SysPods \cup PVs \cup PVCs
Objects  == [uid: 1..MaxObjects, born: 1..MaxTime, label: BOOLEAN, deleting: BOOLEAN,
             ref: PVs \cup PVCs \cup {"none", "other"}]

isAppPod(name, pod) == name \in Apps /\ pod.label
isSysPod(name)      == name \in SysPods
isCsiNode(name)     == name \in Csis
Pending(pvc)        == ~pvc.label /\ pvc.ref = "none"

TypeOK ==
    /\ names \in {Apps, SysPods, PVs \cup PVCs}
    /\ cache \in [AllNames -> Objects \cup {NoObj}]
    /\ events \in [Controllers -> Seq([type: {"changed", "unbound", "delete"}, name: AllNames, label: BOOLEAN])]
    /\ queue \in [Controllers -> SUBSET AllNames]
    /\ worker \in [Controllers -> [pc: {"tables", "index"}, name: AllNames, obj: Objects] \cup {Idle}]
    /\ indexes \in [{"app", "sys", "pv", "pvc"} -> Seq(AllNames)]
    /\ csiNodeIndex \in Csis \cup {"none"}
    /\ pairs \in [PVCs -> PVs \cup {"none"}]
    /\ leftover \in BOOLEAN /\ rebound \in SUBSET PVCs
    /\ left \in [objects: 0..MaxObjects]

NewAPI == [indexes |-> [k \in {"app", "sys", "pv", "pvc"} |-> <<>>],
           csiNodeIndex |-> "none",
           pairs |-> [c \in PVCs |-> "none"]]

Init ==
    /\ names \in {Apps, SysPods, PVs \cup PVCs}
    /\ cache = [n \in AllNames |-> NoObj]
    /\ events = [k \in Controllers |-> <<>>]
    /\ queue = [k \in Controllers |-> {}]
    /\ worker = [k \in Controllers |-> Idle]
    /\ indexes = NewAPI.indexes /\ csiNodeIndex = NewAPI.csiNodeIndex /\ pairs = NewAPI.pairs
    /\ leftover = FALSE /\ rebound = {}
    /\ left = [objects |-> MaxObjects]

-----------------------------------------------------------------------------
(* The cluster as the informers see it *)

Room(n) == Len(events[Controller(n)]) < MaxEvents[Controller(n)]

Event(type, n) ==
    /\ Room(n)
    /\ events' = [events EXCEPT ![Controller(n)] =
                     Append(@, [type |-> type, name |-> n, label |-> type = "delete" /\ cache[n].label])]

(* A volume carries the name of a claim that has, or will have, another.    *)
Shared(store) ==
    \E c \in PVCs, v \in PVs : store[v].ref = c /\
        (store[c].ref \notin {"none", v} \/ \E w \in PVs \ {v} : store[w].ref = c)

(* Creation times are in seconds: an object is as old as the youngest of    *)
(* its kind, or younger.  A volume is created for a claim, or without one,  *)
(* also when a claim already names it.                                      *)
Created(n) ==
    /\ ~Alive(cache, n) /\ left.objects > 0
    /\ n \in Csis => \A m \in Csis : ~Alive(cache, m)
    /\ left' = [left EXCEPT !.objects = @ - 1]
    /\ \E ref \in IF n \in PVs THEN PVCs \cup {"none"} ELSE {"none"}, born \in 1..MaxTime :
          /\ LET ages == {cache[m].born : m \in {m \in names : IndexOf(m) = IndexOf(n)}}
                 last == CHOOSE t \in ages : \A u \in ages : u <= t
             IN  born \in {last, last + 1}
          /\ rebound' = (rebound \ {n}) \cup {c \in PVCs \ {ref} : n \in PVs /\ cache[c].ref = n}
          /\ cache' = [cache EXCEPT ![n] = [uid |-> MaxObjects + 1 - left.objects, born |-> born,
                                            label |-> FALSE, deleting |-> FALSE, ref |-> ref]]
    /\ Event("changed", n)
    /\ leftover' = (leftover \/ n \in ToSet(indexes[IndexOf(n)]) \/ Shared(cache'))
    /\ UNCHANGED <<names, queue, worker, api>>

(* The driver labels a pod, the scheduler binds it; any object is deleted   *)
(* with a grace period.  Only updates of pods pass the predicates.          *)
Updated(n) ==
    /\ Alive(cache, n)
    /\ \/ n \in Pods /\ ~cache[n].label /\ cache' = [cache EXCEPT ![n].label = TRUE]
       \/ ~cache[n].deleting /\ cache' = [cache EXCEPT ![n].deleting = TRUE]
    /\ IF n \in Pods THEN Event("changed", n) ELSE UNCHANGED events
    /\ UNCHANGED <<env, queue, worker, api, leftover, rebound>>

(* A volume is reserved for a claim: an update that the predicate drops.    *)
ClaimRefSet(v, c) ==
    /\ Alive(cache, v) /\ cache[v].ref = "none" /\ ~cache[v].deleting
    /\ Alive(cache, c) /\ cache[c].ref \in {"none", v}
    /\ \A w \in PVs : cache[w].ref = c => cache[w].deleting
    /\ cache' = [cache EXCEPT ![v].ref = c]
    /\ leftover' = (leftover \/ Shared(cache'))
    /\ UNCHANGED <<env, events, queue, worker, api, rebound>>

(* A volume that a claim may be bound to.                                   *)
Fits(c, v) == Alive(cache, v) /\ cache[v].ref \in {"none", c} /\ ~cache[v].deleting

(* A claim becomes Bound; the informer of volumes may not know of it yet.   *)
ClaimBound(c, v) ==
    /\ Alive(cache, c) /\ Pending(cache[c]) /\ ~cache[c].deleting
    /\ v \in PVs => (Alive(cache, v) => Fits(c, v)) /\ \A d \in PVCs : cache[d].ref # v
    /\ cache' = [cache EXCEPT ![c].label = TRUE, ![c].ref = v]
    /\ Event("changed", c)
    /\ leftover' = (leftover \/ Shared(cache'))
    /\ UNCHANGED <<env, queue, worker, api, rebound>>

(* The volume of a Bound claim has gone: the claim is Lost.                 *)
ClaimLost(c) ==
    /\ cache[c].label /\ (cache[c].ref \in PVs => ~Fits(c, cache[c].ref))
    /\ cache' = [cache EXCEPT ![c].label = FALSE]
    /\ Event("unbound", c)
    /\ UNCHANGED <<env, queue, worker, api, leftover, rebound>>

(* Its volume is there again, and so the claim is Bound again: an update    *)
(* that the predicate drops.                                                *)
ClaimRebound(c) ==
    /\ ~cache[c].label /\ cache[c].ref # "none"
    /\ cache[c].ref \in PVs => Fits(c, cache[c].ref)
    /\ cache' = [cache EXCEPT ![c].label = TRUE]
    /\ rebound' = rebound \cup {c}
    /\ UNCHANGED <<env, events, queue, worker, api, leftover>>

(* An object goes, also at once.                                            *)
Deleted(n) ==
    /\ Alive(cache, n)
    /\ cache' = [cache EXCEPT ![n] = NoObj]
    /\ Event("delete", n)
    /\ UNCHANGED <<env, queue, worker, api, leftover, rebound>>

-----------------------------------------------------------------------------
(* SetupWithManager: the predicates *)

Enqueue(n) == queue' = [queue EXCEPT ![Controller(n)] = @ \cup {n}]

(* Seeded fault: updates of pods are dropped as those of volumes are.       *)
ChangedCreateOnly(n) ==
    /\ IF Alive(cache, n) /\ cache[n].label /\ n \notin PVCs THEN UNCHANGED queue ELSE Enqueue(n)
    /\ UNCHANGED api

Changed(n) == Enqueue(n) /\ UNCHANGED api

Unbound(c) ==
    /\ pairs' = [pairs EXCEPT ![c] = "none"]
    /\ UNCHANGED <<queue, indexes, csiNodeIndex>>

(* A pod without label is left to Reconcile, which does not find it.        *)
PodDeleteFunc(n, label) ==
    /\ IF isSysPod(n) \/ (n \in Apps /\ label)
       THEN indexes' = [indexes EXCEPT ![IndexOf(n)] = removeIndex(@, n)] /\ UNCHANGED queue
       ELSE Enqueue(n) /\ UNCHANGED indexes
    /\ csiNodeIndex' = IF isCsiNode(n) /\ label THEN "none" ELSE csiNodeIndex
    /\ UNCHANGED pairs

PVCDeleteFunc(c) ==
    /\ indexes' = [indexes EXCEPT !.pvc = removeIndex(@, c)]
    /\ pairs' = [pairs EXCEPT ![c] = "none"]
    /\ UNCHANGED <<queue, csiNodeIndex>>

HandleEvent(k) ==
    /\ events[k] # <<>>
    /\ events' = [events EXCEPT ![k] = Tail(@)]
    /\ LET e == Head(events[k]) IN
          CASE e.type = "changed" -> Changed(e.name)
            [] e.type = "unbound" -> Unbound(e.name)
            [] e.type = "delete" /\ k = "pod" -> PodDeleteFunc(e.name, e.label)
            [] e.type = "delete" /\ k = "pvc" -> PVCDeleteFunc(e.name)
            [] e.type = "delete" /\ k = "pv"  -> Changed(e.name)
    /\ UNCHANGED <<env, cache, worker, leftover, rebound>>

-----------------------------------------------------------------------------
(* The controllers' Reconcile *)

Continue(k, pc) == worker' = [worker EXCEPT ![k].pc = pc]
Done(k)         == worker' = [worker EXCEPT ![k] = Idle]

Add(index, n, obj) ==
    /\ indexes' = [indexes EXCEPT ![index] = addIndex(@, cache, n, obj)]
    /\ leftover' = (leftover \/ cache[n].uid # obj.uid \/ \E m \in ToSet(indexes[index]) : ~Alive(cache, m))

(* An object that is not found is left alone; a volume is removed from its  *)
(* index.  A pod without label may be skipped: its claim is not yet in the  *)
(* cache of claims.                                                         *)
ReconcileGet(n) ==
    LET k == Controller(n) IN
    /\ worker[k] = Idle /\ n \in queue[k]
    /\ queue' = [queue EXCEPT ![k] = @ \ {n}]
    /\ \/ /\ Alive(cache, n)
          /\ worker' = [worker EXCEPT ![k] = [pc |-> "tables", name |-> n, obj |-> cache[n]]]
       \/ /\ ~Alive(cache, n) \/ (n \in Apps /\ ~cache[n].label)
          /\ UNCHANGED worker
    /\ indexes' = IF n \in PVs /\ ~Alive(cache, n)
                  THEN [indexes EXCEPT !.pv = removeIndex(@, n)] ELSE indexes
    /\ UNCHANGED <<env, cache, events, csiNodeIndex, pairs, leftover, rebound>>

(* Seeded fault: an entry is not replaced.                                  *)
CsiEntryFirst(w) ==
    IF isCsiNode(w.name) /\ w.obj.label /\ w.obj.deleting THEN "none"
    ELSE IF isCsiNode(w.name) /\ w.obj.label /\ csiNodeIndex = "none" THEN w.name
    ELSE csiNodeIndex

(* The node's entry after a look at a pod: a CSI node pod that is not bound *)
(* to a node is neither put there nor does it clear the entry.              *)
CsiEntry(w) ==
    IF isCsiNode(w.name) /\ w.obj.label
    THEN IF w.obj.deleting THEN "none" ELSE w.name
    ELSE csiNodeIndex

(* PodController: csiNodeIndex has a lock of its own; a pod that is being   *)
(* deleted is removed from the index of applications and from csiNodeIndex. *)
PodTables ==
    LET w == worker["pod"] IN
    /\ w.pc = "tables"
    /\ csiNodeIndex' = CsiEntry(w)
    /\ indexes' = IF w.obj.deleting THEN [indexes EXCEPT !.app = removeIndex(@, w.name)] ELSE indexes
    /\ IF w.obj.deleting THEN Done("pod") ELSE Continue("pod", "index")
    /\ UNCHANGED <<env, cache, events, queue, pairs, leftover, rebound>>

PodIndex ==
    LET w == worker["pod"] IN
    /\ w.pc = "index"
    /\ Add(IndexOf(w.name), w.name, w.obj)
    /\ Done("pod")
    /\ UNCHANGED <<env, cache, events, queue, csiNodeIndex, pairs, rebound>>

(* PVController: a volume that is being deleted takes its claim's entries   *)
(* with it.                                                                 *)
PVTables ==
    LET w == worker["pv"]  c == w.obj.ref IN
    /\ w.pc = "tables"
    /\ IF w.obj.deleting
       THEN /\ indexes' = [indexes EXCEPT !.pv = removeIndex(@, w.name),
                                          !.pvc = IF c = "none" THEN @ ELSE removeIndex(@, c)]
            /\ pairs' = IF c = "none" THEN pairs ELSE [pairs EXCEPT ![c] = "none"]
            /\ leftover' = (leftover \/ cache[w.name].uid # w.obj.uid)
            /\ Done("pv")
       ELSE /\ Add("pv", w.name, w.obj)
            /\ pairs' = IF c = "none" THEN pairs ELSE [pairs EXCEPT ![c] = w.name]
            /\ IF c = "none" THEN Done("pv") ELSE Continue("pv", "index")
    /\ UNCHANGED <<env, cache, events, queue, csiNodeIndex, rebound>>

(* The claim is put into the index when it is in the cache.                 *)
PVIndex ==
    LET w == worker["pv"]  c == w.obj.ref IN
    /\ w.pc = "index"
    /\ IF Alive(cache, c) THEN Add("pvc", c, cache[c]) ELSE UNCHANGED <<indexes, leftover>>
    /\ Done("pv")
    /\ UNCHANGED <<env, cache, events, queue, csiNodeIndex, pairs, rebound>>

(* PVCController: a Pending claim is put into the index; a Bound one with   *)
(* another entry in pairs needs its volume, which is asked for again when   *)
(* the cache does not have it.                                              *)
PVCTables ==
    LET w == worker["pvc"]  bound == w.obj.label /\ ~w.obj.deleting /\ pairs[w.name] # w.obj.ref
        v == w.obj.ref IN
    /\ w.pc = "tables"
    /\ IF Pending(w.obj) /\ ~w.obj.deleting THEN Add("pvc", w.name, w.obj) ELSE UNCHANGED <<indexes, leftover>>
    /\ \/ ~bound /\ Done("pvc") /\ UNCHANGED queue
       \/ bound /\ (v \in PVs => Alive(cache, v)) /\ Continue("pvc", "index") /\ UNCHANGED queue
       \/ bound /\ (v \in PVs => ~Alive(cache, v)) /\ Done("pvc") /\ Enqueue(w.name)
    /\ UNCHANGED <<env, cache, events, csiNodeIndex, pairs, rebound>>

(* Seeded fault: only a volume that already carries the claim's name counts. *)
PVCPairReserved ==
    LET w == worker["pvc"] IN
    /\ w.pc = "index"
    /\ pairs' = [pairs EXCEPT ![w.name] =
                     IF w.obj.ref \in PVs /\ cache[w.obj.ref].ref = w.name THEN w.obj.ref ELSE @]
    /\ Done("pvc")
    /\ UNCHANGED <<env, cache, events, queue, indexes, csiNodeIndex, leftover, rebound>>

(* A claim with a volume of another driver has no pair.                     *)
PairOf(v) == IF v = "other" THEN "none" ELSE v

PVCPair ==
    LET w == worker["pvc"] IN
    /\ w.pc = "index"
    /\ pairs' = [pairs EXCEPT ![w.name] = PairOf(w.obj.ref)]
    /\ Done("pvc")
    /\ UNCHANGED <<env, cache, events, queue, indexes, csiNodeIndex, leftover, rebound>>

(* The dashboard restarts (a read of pairs without its lock during a write  *)
(* ends the process, too): the informers list the objects again, all but    *)
(* Lost claims pass the predicates, and the order of the queues is any.     *)
Restart ==
    /\ events' = [k \in Controllers |-> <<>>]
    /\ queue' = [k \in Controllers |-> {n \in names :
                  Controller(n) = k /\ Alive(cache, n) /\ (n \in PVCs => cache[n].label \/ Pending(cache[n]))}]
    /\ worker' = [k \in Controllers |-> Idle]
    /\ indexes' = NewAPI.indexes /\ csiNodeIndex' = NewAPI.csiNodeIndex /\ pairs' = NewAPI.pairs
    /\ leftover' = Shared(cache) /\ rebound' = {}
    /\ UNCHANGED <<env, cache>>

-----------------------------------------------------------------------------
Next ==
    \/ \E n \in names : Created(n) \/ Updated(n) \/ Deleted(n) \/ ReconcileGet(n)
    \/ \E c \in PVCs \cap names : ClaimLost(c) \/ ClaimRebound(c)
    \/ \E c \in PVCs \cap names, v \in PVs : ClaimRefSet(v, c)
    \/ \E c \in PVCs \cap names, v \in PVs \cup {"other"} : ClaimBound(c, v)
    \/ \E k \in Controllers : HandleEvent(k)
    \/ PodTables \/ PodIndex \/ PVTables \/ PVIndex \/ PVCTables \/ PVCPair
    \/ Restart

Spec == Init /\ [][Next]_vars

-----------------------------------------------------------------------------
(* The list handlers; those of pods and volumes also restrict by parts of   *)
(* names, which only shortens the list.                                     *)
NodeKnown == {n \in AllNames : cache[n].label}

listAppPod(descend, pageSize, current) == Page(Listing(indexes.app, cache, descend), pageSize, current)

(* A page leaves out the pods whose node is not found, the total does not.  *)
listSysPod(descend, pageSize, current) ==
    KeepIn(Page(Listing(indexes.sys, cache, descend), pageSize, current), NodeKnown)

listPVs(descend, pageSize, current) == Page(Listing(indexes.pv, cache, descend), pageSize, current)

(* pvFilter "none" stands for no filter.                                    *)
Required(pvFilter) == {c \in PVCs : pvFilter = "none" \/ pairs[c] = pvFilter}

listPVCs(descend, pvFilter, pageSize, current) ==
    Page(KeepIn(Listing(indexes.pvc, cache, descend), Required(pvFilter)), pageSize, current)

(* The CSI node pod of the node, as the handlers find it.                   *)
getCSINode == IF csiNodeIndex # "none" /\ Alive(cache, csiNodeIndex) THEN csiNodeIndex ELSE "none"

-----------------------------------------------------------------------------
(* Properties *)

Rest == \A k \in Controllers : events[k] = <<>> /\ queue[k] = {} /\ worker[k] = Idle

(* No object gets lost: whatever the order of predicates and workers, names *)
(* used again, labels that come late and restarts, at rest the lists show   *)
(* every application pod with its label, every system pod and every         *)
(* volume that is not being deleted (listAppPod, listSysPod,                *)
(* listPVsHandler).                                                         *)
AllListed ==
    Rest => \A n \in names \ PVCs :
        (Alive(cache, n) /\ ~cache[n].deleting /\ (n \in Apps => cache[n].label)) =>
            n \in ToSet(indexes[IndexOf(n)])

(* At rest getCSINode finds the CSI node pod of the node, though old and    *)
(* new pod write and delete the same entry of csiNodeIndex from two         *)
(* goroutines.                                                              *)
CSINodeFound ==
    Rest => \A n \in Csis :
        (Alive(cache, n) /\ cache[n].label /\ ~cache[n].deleting) => getCSINode = n

(* At rest a claim that is Bound leads to its volume (listPVsOfPod,         *)
(* getMountPodsOfPVC), and to none when that is of another driver, though   *)
(* four goroutines write pairs; as long as no other volume carried the      *)
(* claim's name and no worker acted on an object that had gone meanwhile.   *)
(* The code has nothing for a claim that was Lost and is Bound again, since *)
(* the predicate drops that update, nor for one whose volume was created    *)
(* again without its name: these are in rebound until the next restart.     *)
Paired ==
    (Rest /\ ~leftover) => \A c \in PVCs \ rebound :
        LET v == cache[c].ref IN
        (/\ cache[c].label /\ ~cache[c].deleting
         /\ v \in PVs => Alive(cache, v) /\ ~cache[v].deleting) => pairs[c] = PairOf(v)

(* The indexes are what they are called: at any time the entries that       *)
(* iterate finds in the cache are in the order of creation and none is      *)
(* there twice, as long as no object of an entry, nor the one to be added,  *)
(* had gone at an addition (addIndex), and no name was used again while its *)
(* old object was still in the index.                                       *)
TimeOrdered == ~leftover => \A k \in {"app", "sys", "pv", "pvc"} : InOrder(indexes[k], cache)

(* Every object of a list is on exactly one page, for every page size and   *)
(* both orders, also when the list is restricted to a volume's claims; only *)
(* a system pod that is not bound to a node is on none (listSysPod).        *)
PagesCover ==
    \A descend \in BOOLEAN :
        LET app == Listing(indexes.app, cache, descend)
            sys == Listing(indexes.sys, cache, descend)
            pv  == Listing(indexes.pv, cache, descend)
        IN  /\ PagesComplete(app, Len(app), LAMBDA s, p : listAppPod(descend, s, p))
            /\ PagesComplete(KeepIn(sys, NodeKnown), Len(sys), LAMBDA s, p : listSysPod(descend, s, p))
            /\ PagesComplete(pv, Len(pv), LAMBDA s, p : listPVs(descend, s, p))
            /\ \A v \in PVs \cup {"none"} :
                  LET pvc == KeepIn(Listing(indexes.pvc, cache, descend), Required(v))
                  IN  PagesComplete(pvc, Len(pvc), LAMBDA s, p : listPVCs(descend, v, s, p))

=============================================================================
