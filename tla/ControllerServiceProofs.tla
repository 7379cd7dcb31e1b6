---------------------- MODULE ControllerServiceProofs ----------------------
(***************************************************************************)
(* The quota of a directory covers the size of its volume, for any number  *)
(* of volumes, concurrent calls and nodes, any sizes and any bounds on     *)
(* failures.                                                               *)
(***************************************************************************)
EXTENDS ControllerService, TLAPS

(* Who may yet write the quota of v: an expansion, a publication, a command *)
(* in the background.                                                       *)
Serves(c, v)    == call[c].op # "idle" /\ call[c].vol = v
Expands(c, v)   == call[c].op = "expand" /\ call[c].vol = v
Publishes(n, v) == pub[n] # IdlePub /\ pub[n].vol = v
Queued(v)       == \E q \in bg : q[1] = v

(* There is at most one of them, and it is not in the background.           *)
Alone(v) ==
    /\ ~Queued(v)
    /\ \A c, d \in Slots : Expands(c, v) /\ Expands(d, v) => c = d
    /\ \A m, n \in Nodes : Publishes(m, v) /\ Publishes(n, v) => m = n
    /\ \A c \in Slots, n \in Nodes : ~(Expands(c, v) /\ Publishes(n, v))

(* The writer has not finished yet.                                         *)
Pending(v) ==
    \/ \E c \in Slots : Expands(c, v) /\ call[c].pc = "quota"
    \/ \E n \in Nodes : Publishes(n, v)

(* What the history says of the writers.                                    *)
AloneInv(v) == sound[v] \/ (solo[v] /\ Pending(v)) => Alone(v)

(* Sizes only grow: the size in the PV object, the size an expansion is     *)
(* for, the size the claim asks for.                                        *)
SizeInv(v) ==
    /\ pv[v].size <= claim[v].want
    /\ claim[v].st # "pending" => pv[v].size \in Sizes /\ pv[v].created \in Sizes
    /\ \A c \in Slots : Expands(c, v) => call[c].size \in Sizes /\ call[c].size <= claim[v].want

(* A writer that is alone works with the size of now.                       *)
FreshInv(v) ==
    /\ \A c \in Slots :
          Expands(c, v) /\ (sound[v] \/ (solo[v] /\ call[c].pc = "quota")) => pv[v].size < call[c].size
    /\ \A n \in Nodes :
          Publishes(n, v) /\ pub[n].read /\ (sound[v] \/ solo[v]) => pub[n].size = pv[v].size

(* Nothing happens to the quota before there is a volume.                   *)
NewInv(v) ==
    claim[v].st = "pending" =>
        /\ quota[v] = 0 /\ ~Queued(v)
        /\ \A c \in Slots : ~Serves(c, v)
        /\ \A n \in Nodes : ~Publishes(n, v)

(* The quota while the history is sound.                                    *)
QuotaInv(v) ==
    sound[v] /\ quota[v] # 0 =>
        /\ QuotaOf(pv[v].size) <= quota[v]
        /\ claim[v].want = pv[v].size => quota[v] = QuotaOf(pv[v].size)
        /\ \A c \in Slots : Expands(c, v) /\ call[c].pc = "answer" => quota[v] = QuotaOf(call[c].size)

VolInv(v) == AloneInv(v) /\ SizeInv(v) /\ FreshInv(v) /\ NewInv(v) /\ QuotaInv(v)

IInv == TypeOK /\ \A v \in Vols : VolInv(v)

(* A client without quotas sets none.                                       *)
ClientInv == client.quota \/ \A v \in Vols : quota[v] = 0

-----------------------------------------------------------------------------
(* Types *)

CallPCs  == {"lock", "job", "quota", "answer"}
CallSet  == Calls \cup {IdleCall}
PubSet   == [vol: Vols, size: Sizes, read: BOOLEAN] \cup {IdlePub}
ClaimSet == [st: States, want: Sizes, ro: BOOLEAN]
PVSet    == [size: Size0, created: Size0]
LeftSet  == [fail: 0..MaxFail, slow: 0..MaxSlow, giveUp: 0..MaxGiveUp, crash: 0..MaxCrash]

(* Sizes are natural numbers, and a requested one is positive. *)
LEMMA SizeIsNat == \A x \in Size0 : x \in Nat /\ 0 <= x /\ (x \in Sizes => 0 < x)
BY SizeAssumption DEF Size0

(* The fields of a call and what becomes of it.                             *)
LEMMA CallFields ==
    ASSUME NEW e \in CallSet
    PROVE  /\ e.op \in {"idle", "delete", "expand"} /\ e.size \in Size0 /\ e.waits \in BOOLEAN
           /\ e.waits => e.op # "idle"
           /\ e.op # "idle" => e.vol \in Vols /\ e.pc \in CallPCs
<1>1. CASE e \in Calls
  BY <1>1 DEF Calls, CallPCs
<1>2. CASE e = IdleCall
  BY <1>2 DEF IdleCall, Size0
<1> QED BY <1>1, <1>2 DEF CallSet

(* The fields of a NodePublishVolume under way. *)
LEMMA PubFields ==
    ASSUME NEW p \in PubSet, p # IdlePub
    PROVE  p.vol \in Vols /\ p.size \in Sizes /\ p.read \in BOOLEAN
BY DEF PubSet

(* The fields of a claim, and what is left of it when one is assigned. *)
LEMMA ClaimFields ==
    ASSUME NEW x \in ClaimSet
    PROVE  /\ x.st \in States /\ x.want \in Sizes /\ x.ro \in BOOLEAN
           /\ \A y \in States : [x EXCEPT !.st = y] \in ClaimSet
           /\ \A y \in Sizes : [x EXCEPT !.want = y] \in ClaimSet
BY DEF ClaimSet

(* The fields of a volume, and what is left of it when its size is assigned. *)
LEMMA PVFields ==
    ASSUME NEW x \in PVSet
    PROVE  /\ x.size \in Size0 /\ x.created \in Size0
           /\ \A y \in Size0 : [x EXCEPT !.size = y] \in PVSet
BY DEF PVSet

(* A budget that is not used up stays a natural number when it is spent. *)
LEMMA SpendType ==
    ASSUME left \in LeftSet, NEW k \in {"fail", "slow", "giveUp", "crash"}, Spend(k)
    PROVE  left' \in LeftSet
BY BoundAssumption DEF LeftSet, Spend

(* Quotas are natural numbers and grow with the size.                       *)
LEMMA QuotaMonotonic ==
    ASSUME NEW a \in Size0, NEW b \in Size0
    PROVE  /\ QuotaOf(a) \in Nat
           /\ QuotaOf(0) = 0
           /\ a <= b => QuotaOf(a) <= QuotaOf(b)
<1> USE SizeAssumption DEF Size0
<1>1. /\ QuotaOf(a) \in Int /\ GiB * QuotaOf(a) <= a /\ a < GiB * (QuotaOf(a) + 1)
      /\ QuotaOf(b) \in Int /\ GiB * QuotaOf(b) <= b /\ b < GiB * (QuotaOf(b) + 1)
  BY DEF QuotaOf
<1>2. QuotaOf(0) = 0
  BY DEF QuotaOf
<1>3. QuotaOf(a) \in Nat
  BY DEF QuotaOf
<1>4. ASSUME a <= b PROVE QuotaOf(a) <= QuotaOf(b)
  <2> SUFFICES ASSUME QuotaOf(b) + 1 <= QuotaOf(a) PROVE FALSE
    BY <1>1
  <2>1. GiB * (QuotaOf(b) + 1) <= GiB * QuotaOf(a)
    BY <1>1
  <2> QED BY <1>1, <1>4, <2>1
<1> QED BY <1>2, <1>3, <1>4

(* TypeOK in terms of these sets.                                           *)
LEMMA TypeParts ==
    TypeOK <=>
        /\ client \in Clients /\ job \in [Vols -> JobStates]
        /\ claim \in [Vols -> ClaimSet]
        /\ pv \in [Vols -> PVSet]
        /\ secret \in SUBSET Vols /\ dir \in SUBSET Vols /\ volLocks \in SUBSET Vols
        /\ quota \in [Vols -> Nat]
        /\ vols \in [Vols -> Size0]
        /\ call \in [Slots -> CallSet]
        /\ pub \in [Nodes -> PubSet]
        /\ bg \in SUBSET (Vols \X Sizes)
        /\ solo \in [Vols -> BOOLEAN] /\ sound \in [Vols -> BOOLEAN]
        /\ left \in LeftSet
BY DEF TypeOK, ClaimSet, PVSet, CallSet, PubSet, LeftSet

(* The history stays a table of Booleans.                                   *)
LEMMA HistoryType ==
    ASSUME TypeOK, NEW v \in Vols
    PROVE  /\ BeginWriter(v) => solo' \in [Vols -> BOOLEAN] /\ sound' \in [Vols -> BOOLEAN]
           /\ \A read \in BOOLEAN : EndWriter(v, read) => sound' \in [Vols -> BOOLEAN]
BY DEF TypeOK, BeginWriter, EndWriter, QuotaBusy, Expanding, Publishing

(* What SetQuota writes has its type.                                       *)
LEMMA SetQuotaType ==
    ASSUME TypeOK, NEW v \in Vols, NEW size \in Size0, NEW killed \in BOOLEAN,
           SetQuota(v, size, killed) \/ SetQuotaFails(v, size, killed)
    PROVE  quota' \in [Vols -> Nat] /\ bg' \in SUBSET (Vols \X Sizes) /\ left' \in LeftSet
<1>a. quota \in [Vols -> Nat] /\ bg \in SUBSET (Vols \X Sizes) /\ left \in LeftSet
  BY TypeParts
<1>b. QuotaOf(size) \in Nat /\ (QuotaOf(size) > 0 => size \in Sizes)
  BY QuotaMonotonic, SizeAssumption DEF Size0
<1>1. quota' \in [Vols -> Nat]
  BY <1>a, <1>b DEF SetQuota, SetQuotaFails, Written
<1>2. bg' \in SUBSET (Vols \X Sizes)
  BY <1>a, <1>b DEF SetQuota, SetQuotaFails
<1>3. left' \in LeftSet
  BY <1>a, SpendType DEF SetQuota, SetQuotaFails
<1> QED BY <1>1, <1>2, <1>3

(* The table of calls after a call begins, goes on or ends.                 *)
Entered(c, e) == call' \in [Slots -> CallSet] /\ call'[c] = e /\ \A d \in Slots \ {c} : call'[d] = call[d]

(* An assignment to one slot leaves the calls of the other slots alone. *)
LEMMA CallTable ==
    ASSUME TypeOK, NEW c \in Slots, NEW e \in CallSet, call' = [call EXCEPT ![c] = e]
    PROVE  Entered(c, e)
BY TypeParts DEF Entered

(* A call that returns frees its slot and no other. *)
LEMMA CallEnds ==
    ASSUME TypeOK, NEW c \in Slots, End(c)
    PROVE  Entered(c, IdleCall) /\ IdleCall.op = "idle"
<1>1. IdleCall \in CallSet /\ IdleCall.op = "idle"
  BY DEF CallSet, IdleCall
<1> QED BY <1>1, CallTable DEF End

(* A call that begins has the operation, volume and size it was called with. *)
LEMMA CallBegins ==
    ASSUME TypeOK, NEW c \in Slots, NEW op \in {"delete", "expand"}, NEW v \in Vols,
           NEW pc \in CallPCs, NEW size \in Size0, Begin(c, op, v, pc, size)
    PROVE  \E e \in CallSet : /\ Entered(c, e) /\ call[c] = IdleCall
                             /\ e.op = op /\ e.vol = v /\ e.pc = pc /\ e.size = size
<1> DEFINE e == [op |-> op, vol |-> v, pc |-> pc, size |-> size, waits |-> TRUE]
<1>1. e \in CallSet /\ e.op = op /\ e.vol = v /\ e.pc = pc /\ e.size = size
  BY DEF CallSet, Calls, CallPCs
<1>2. call' = [call EXCEPT ![c] = e] /\ call[c] = IdleCall
  BY DEF Begin
<1> HIDE DEF e
<1> QED BY <1>1, <1>2, CallTable

Moves(c, pc) == call' = [call EXCEPT ![c].pc = pc]

(* A call that goes on keeps its operation, volume and size. *)
LEMMA CallMoves ==
    ASSUME TypeOK, NEW c \in Slots, call[c].op # "idle", NEW pc \in CallPCs, Moves(c, pc)
    PROVE  \E e \in CallSet : /\ Entered(c, e) /\ e.pc = pc
                             /\ e.op = call[c].op /\ e.vol = call[c].vol /\ e.size = call[c].size
<1>1. call[c] \in CallSet
  BY TypeParts
<1>2. call[c] \in Calls
  BY <1>1 DEF CallSet, IdleCall
<1>3. PICK e \in Calls : /\ call' = [call EXCEPT ![c] = e] /\ e.pc = pc
                         /\ e.op = call[c].op /\ e.vol = call[c].vol /\ e.size = call[c].size
  <2> DEFINE e == [call[c] EXCEPT !.pc = pc]
  <2>1. e \in Calls /\ e.pc = pc /\ e.op = call[c].op /\ e.vol = call[c].vol /\ e.size = call[c].size
    BY <1>2 DEF Calls, CallPCs
  <2>2. call' = [call EXCEPT ![c] = e]
    BY DEF Moves
  <2> HIDE DEF e
  <2> QED BY <2>1, <2>2
<1> QED BY <1>3, CallTable DEF CallSet

(* A call whose caller stops waiting goes on as it was. *)
LEMMA CallAbandoned ==
    ASSUME TypeOK, NEW c \in Slots, call[c].op # "idle", call' = [call EXCEPT ![c].waits = FALSE]
    PROVE  \E e \in CallSet : /\ Entered(c, e) /\ e.pc = call[c].pc
                             /\ e.op = call[c].op /\ e.vol = call[c].vol /\ e.size = call[c].size
<1>1. call[c] \in CallSet
  BY TypeParts
<1>2. call[c] \in Calls
  BY <1>1 DEF CallSet, IdleCall
<1>3. PICK e \in Calls : /\ call' = [call EXCEPT ![c] = e] /\ e.pc = call[c].pc
                         /\ e.op = call[c].op /\ e.vol = call[c].vol /\ e.size = call[c].size
  <2> DEFINE e == [call[c] EXCEPT !.waits = FALSE]
  <2>1. e \in Calls /\ e.pc = call[c].pc /\ e.op = call[c].op /\ e.vol = call[c].vol /\ e.size = call[c].size
    BY <1>2 DEF Calls
  <2>2. call' = [call EXCEPT ![c] = e]
    OBVIOUS
  <2> HIDE DEF e
  <2> QED BY <2>1, <2>2
<1> QED BY <1>3, CallTable DEF CallSet

(* The tables of claims and of PV objects after a change.                   *)
LEMMA ClaimTable ==
    ASSUME TypeOK, NEW v \in Vols
    PROVE  /\ \A y \in States : [claim EXCEPT ![v].st = y] \in [Vols -> ClaimSet]
           /\ \A y \in Sizes : [claim EXCEPT ![v].want = y] \in [Vols -> ClaimSet]
           /\ \A y \in Size0 : [pv EXCEPT ![v].size = y] \in [Vols -> PVSet]
<1>a. claim \in [Vols -> ClaimSet] /\ pv \in [Vols -> PVSet]
  BY TypeParts
<1>1. \A y \in States : [claim EXCEPT ![v].st = y] \in [Vols -> ClaimSet]
  BY <1>a DEF ClaimSet
<1>2. \A y \in Sizes : [claim EXCEPT ![v].want = y] \in [Vols -> ClaimSet]
  BY <1>a DEF ClaimSet
<1>3. \A y \in Size0 : [pv EXCEPT ![v].size = y] \in [Vols -> PVSet]
  BY <1>a DEF PVSet
<1> QED BY <1>1, <1>2, <1>3

(* No volume exists at the start, so no quota has to cover anything. *)
LEMMA InitInv == Init => IInv
<1> SUFFICES ASSUME Init PROVE IInv
  OBVIOUS
<1> USE SizeAssumption, BoundAssumption
<1>1. TypeOK
  <2>1. claim \in [Vols -> ClaimSet]
    BY DEF Init, ClaimSet, States
  <2>2. pv \in [Vols -> PVSet] /\ vols \in [Vols -> Size0]
    BY DEF Init, PVSet, Size0
  <2>3. call \in [Slots -> CallSet] /\ pub \in [Nodes -> PubSet]
    BY DEF Init, CallSet, PubSet
  <2>4. left \in LeftSet
    BY DEF Init, LeftSet
  <2>5. job \in [Vols -> JobStates]
    BY DEF Init, JobStates
  <2> QED BY <2>1, <2>2, <2>3, <2>4, <2>5, TypeParts DEF Init
<1>2. /\ \A c \in Slots : call[c].op = "idle"
      /\ \A n \in Nodes : pub[n] = IdlePub
      /\ \A v \in Vols : pv[v].size = 0 /\ claim[v].want \in Sizes /\ claim[v].st = "pending" /\ quota[v] = 0
  BY DEF Init, IdleCall
<1>3. ASSUME NEW v \in Vols PROVE VolInv(v)
  <2>1. AloneInv(v)
    BY <1>2 DEF Init, AloneInv, Alone, Expands, Publishes, Queued
  <2>2. SizeInv(v)
    <3>1. 0 <= claim[v].want
      BY <1>2, SizeIsNat DEF Size0
    <3> QED BY <1>2, <3>1 DEF SizeInv, Expands
  <2>3. FreshInv(v) /\ NewInv(v) /\ QuotaInv(v)
    BY <1>2 DEF Init, FreshInv, NewInv, QuotaInv, Serves, Expands, Publishes, Queued
  <2> QED BY <2>1, <2>2, <2>3 DEF VolInv
<1> QED BY <1>1, <1>3 DEF IInv

-----------------------------------------------------------------------------
(* Steps that bring a volume no new writer and leave its quota alone.       *)
Fewer(v) ==
    /\ \A c \in Slots : Expands(c, v)' =>
          Expands(c, v) /\ call'[c].pc = call[c].pc /\ call'[c].size = call[c].size
    /\ \A c \in Slots : Serves(c, v)' => Serves(c, v) \/ claim[v].st # "pending"
    /\ \A n \in Nodes : Publishes(n, v)' => Publishes(n, v) /\ pub'[n] = pub[n]
    /\ Queued(v)' => Queued(v)
    /\ quota'[v] = quota[v] /\ solo'[v] = solo[v] /\ pv'[v] = pv[v]
    /\ sound'[v] => sound[v]
    /\ claim[v].want <= claim'[v].want
    /\ claim'[v].st = "pending" <=> claim[v].st = "pending"

(* A step that adds no writer of v and moves no size of v keeps the invariant of v. *)
LEMMA FewerKeeps ==
    ASSUME TypeOK, TypeOK', NEW v \in Vols, VolInv(v), Fewer(v)
    PROVE  VolInv(v)'
<1>a. /\ pv[v].size \in Nat /\ claim[v].want \in Nat /\ claim'[v].want \in Nat
      /\ \A c \in Slots : call[c].size \in Nat
  <2>0. claim'[v] \in ClaimSet
    BY DEF TypeOK, ClaimSet
  <2>1. claim[v] \in ClaimSet /\ pv[v] \in PVSet /\ \A c \in Slots : call[c] \in CallSet
    BY TypeParts
  <2>2. /\ pv[v].size \in Size0 /\ claim[v].want \in Size0 /\ claim'[v].want \in Size0
        /\ \A c \in Slots : call[c].size \in Size0
    <3>1. pv[v].size \in Size0
      BY <2>1, PVFields
    <3>2. claim[v].want \in Size0 /\ claim'[v].want \in Size0
      BY <2>0, <2>1, ClaimFields DEF Size0
    <3>3. \A c \in Slots : call[c].size \in Size0
      BY <2>1, CallFields
    <3> QED BY <3>1, <3>2, <3>3
  <2> QED BY <2>2, SizeIsNat
<1>1. AloneInv(v)'
  BY DEF VolInv, AloneInv, Fewer, Alone, Pending
<1>2. SizeInv(v)'
  <2>1. pv'[v].size <= claim'[v].want
    BY <1>a DEF VolInv, SizeInv, Fewer
  <2>2. \A c \in Slots : Expands(c, v)' => call'[c].size \in Sizes /\ call'[c].size <= claim'[v].want
    BY <1>a DEF VolInv, SizeInv, Fewer
  <2> QED BY <2>1, <2>2 DEF VolInv, SizeInv, Fewer
<1>3. FreshInv(v)'
  BY DEF VolInv, FreshInv, Fewer
<1>4. NewInv(v)'
  BY DEF VolInv, NewInv, Fewer
<1>5. QuotaInv(v)'
  <2>1. claim'[v].want = pv[v].size => claim[v].want = pv[v].size
    BY <1>a DEF VolInv, SizeInv, Fewer
  <2> QED BY <2>1 DEF VolInv, QuotaInv, Fewer
<1> QED BY <1>1, <1>2, <1>3, <1>4, <1>5 DEF VolInv

-----------------------------------------------------------------------------
(* Actions that write no quota *)

(* A claim is released or goes, and never becomes pending again.            *)
LEMMA ClaimMoves ==
    ASSUME TypeOK, NEW v \in Vols, NEW y \in States \ {"pending"}, claim[v].st # "pending",
           claim' = [claim EXCEPT ![v].st = y]
    PROVE  /\ claim' \in [Vols -> ClaimSet]
           /\ \A w \in Vols : /\ claim'[w].want = claim[w].want
                              /\ claim'[w].st = "pending" <=> claim[w].st = "pending"
<1>a. claim \in [Vols -> ClaimSet]
  BY TypeParts
<1>1. claim' \in [Vols -> ClaimSet]
  BY ClaimTable
<1>2. \A w \in Vols : /\ claim'[w].want = claim[w].want
                      /\ claim'[w].st = "pending" <=> claim[w].st = "pending"
  BY <1>a DEF ClaimSet
<1> QED BY <1>1, <1>2

(* The return of a call changes neither the size a claim asks for nor whether it was
   created. *)
LEMMA SucceedMoves ==
    ASSUME IInv, NEW c \in Slots, call[c].op # "idle", Succeed(c)
    PROVE  /\ claim' \in [Vols -> ClaimSet]
           /\ \A w \in Vols : /\ claim'[w].want = claim[w].want
                              /\ claim'[w].st = "pending" <=> claim[w].st = "pending"
<1> DEFINE v == call[c].vol
<1>a. TypeOK /\ call[c] \in CallSet /\ claim \in [Vols -> ClaimSet]
  BY TypeParts DEF IInv
<1>b. v \in Vols /\ claim[v].st \in States
  BY <1>a, CallFields, ClaimFields
<1>c. claim[v].st # "pending"
  BY <1>b DEF IInv, VolInv, NewInv, Serves
<1>1. PICK y \in States \ {"pending"} : claim' = [claim EXCEPT ![v].st = y]
  <2>1. CASE call[c].waits
    BY <2>1 DEF Succeed, States
  <2>2. CASE ~call[c].waits
    <3>1. claim' = [claim EXCEPT ![v].st = claim[v].st]
      BY <2>2 DEF Succeed
    <3> QED BY <1>b, <1>c, <3>1
  <2> QED BY <2>1, <2>2
<1> HIDE DEF v
<1> QED BY <1>a, <1>b, <1>c, <1>1, ClaimMoves

(* TypeOK after a step, in terms of the sets.                               *)
LEMMA TypeNext ==
    ASSUME client' \in Clients, job' \in [Vols -> JobStates], claim' \in [Vols -> ClaimSet], pv' \in [Vols -> PVSet],
           secret' \in SUBSET Vols, dir' \in SUBSET Vols, volLocks' \in SUBSET Vols,
           quota' \in [Vols -> Nat], vols' \in [Vols -> Size0],
           call' \in [Slots -> CallSet], pub' \in [Nodes -> PubSet],
           bg' \in SUBSET (Vols \X Sizes),
           solo' \in [Vols -> BOOLEAN], sound' \in [Vols -> BOOLEAN], left' \in LeftSet
    PROVE  TypeOK'
BY DEF TypeOK, ClaimSet, PVSet, CallSet, PubSet, LeftSet

(* A step that leaves the quotas and the PV objects alone, and the claims   *)
(* but for their growth.                                                    *)
Quiet ==
    /\ UNCHANGED <<quota, pub, bg, solo, sound, pv>>
    /\ \A w \in Vols : /\ claim[w].want <= claim'[w].want
                       /\ claim'[w].st = "pending" <=> claim[w].st = "pending"

(* The size of a claim is a number. *)
LEMMA WantIsNat == ASSUME TypeOK, NEW w \in Vols PROVE claim[w].want \in Nat
<1>1. claim[w] \in ClaimSet
  BY TypeParts
<1> QED BY <1>1, ClaimFields, SizeAssumption

(* Such a step, when a call goes from one state into another.               *)
LEMMA QuietCall ==
    ASSUME TypeOK, Quiet, NEW c \in Slots, NEW e \in CallSet, Entered(c, e),
           e.op = "expand" => /\ call[c].op = "expand" /\ call[c].vol = e.vol
                              /\ call[c].pc = e.pc /\ call[c].size = e.size,
           e.op # "idle" => (call[c].op # "idle" /\ call[c].vol = e.vol) \/ claim[e.vol].st # "pending"
    PROVE  \A w \in Vols : Fewer(w)
<1> SUFFICES ASSUME NEW w \in Vols PROVE Fewer(w)
  OBVIOUS
<1>1. ASSUME NEW d \in Slots, Expands(d, w)'
      PROVE  Expands(d, w) /\ call'[d].pc = call[d].pc /\ call'[d].size = call[d].size
  BY <1>1 DEF Expands, Entered
<1>2. ASSUME NEW d \in Slots, Serves(d, w)' PROVE Serves(d, w) \/ claim[w].st # "pending"
  BY <1>2 DEF Serves, Entered
<1> QED BY <1>1, <1>2 DEF Fewer, Quiet, Queued, Publishes

(* Such a step that leaves the calls alone.                                 *)
LEMMA QuietClaim ==
    ASSUME Quiet, UNCHANGED call
    PROVE  \A w \in Vols : Fewer(w)
BY DEF Fewer, Quiet, Queued, Publishes, Expands, Serves

(* DeleteVolume begins: the call writes no quota. *)
LEMMA DeleteVolumeStep ==
    ASSUME IInv, NEW c \in Slots, NEW v \in Vols, DeleteVolume(c, v)
    PROVE  TypeOK' /\ \A w \in Vols : Fewer(w)
<1>a. TypeOK
  BY DEF IInv
<1>b. 0 \in Size0 /\ "lock" \in CallPCs /\ Begin(c, "delete", v, "lock", 0)
  BY DEF Size0, CallPCs, DeleteVolume
<1>1. PICK e \in CallSet : Entered(c, e) /\ e.op = "delete" /\ e.vol = v
  BY <1>a, <1>b, CallBegins
<1>2. Quiet
  BY <1>a, WantIsNat DEF DeleteVolume, Quiet, env
<1>3. TypeOK'
  BY <1>a, <1>1, TypeParts, TypeNext DEF DeleteVolume, env, Entered
<1>4. claim[v].st # "pending"
  BY DEF DeleteVolume
<1> QED BY <1>a, <1>1, <1>2, <1>3, <1>4, QuietCall

(* DeleteVolume of a volume without secret returns at once. *)
LEMMA DeleteSkippedStep ==
    ASSUME IInv, NEW c \in Slots, DeleteSkipped(c)
    PROVE  TypeOK' /\ \A w \in Vols : Fewer(w)
<1>a. TypeOK /\ call[c].op # "idle" /\ Succeed(c) /\ End(c)
  BY DEF IInv, DeleteSkipped, Succeed
<1>1. Entered(c, IdleCall) /\ IdleCall.op = "idle" /\ IdleCall \in CallSet
  BY <1>a, CallEnds DEF CallSet
<1>2. Quiet
  BY <1>a, WantIsNat, SucceedMoves DEF DeleteSkipped, Quiet
<1>3. TypeOK'
  <2>1. claim' \in [Vols -> ClaimSet]
    BY <1>a, SucceedMoves
  <2> QED BY <1>a, <1>1, <2>1, TypeParts, TypeNext DEF DeleteSkipped, Entered
<1> QED BY <1>a, <1>1, <1>2, <1>3, QuietCall

(* DeleteVolume takes the lock of the volume or is refused. *)
LEMMA DeleteLockStep ==
    ASSUME IInv, NEW c \in Slots, DeleteLock(c)
    PROVE  TypeOK' /\ \A w \in Vols : Fewer(w)
<1>a. TypeOK /\ call[c].op = "delete" /\ call[c].vol \in secret
  BY DEF IInv, DeleteLock
<1>b. call[c].vol \in Vols
  BY <1>a, TypeParts
<1>2. Quiet
  BY <1>a, WantIsNat DEF DeleteLock, Quiet, env
<1>3. PICK e \in CallSet : Entered(c, e) /\ (e.op = "idle" \/ (e.op = "delete" /\ e.vol = call[c].vol))
  <2>1. CASE End(c)
    BY <1>a, <2>1, CallEnds DEF CallSet
  <2>2. CASE Moves(c, "job")
    <3>1. "job" \in CallPCs /\ call[c].op # "idle"
      BY <1>a DEF CallPCs
    <3> QED BY <1>a, <2>2, <3>1, CallMoves
  <2> QED BY <2>1, <2>2 DEF DeleteLock, Moves
<1>4. TypeOK'
  <2>1. volLocks' \in SUBSET Vols
    BY <1>a, <1>b, TypeParts DEF DeleteLock
  <2> QED BY <1>a, <1>3, <2>1, TypeParts, TypeNext DEF DeleteLock, env, Entered
<1> QED BY <1>a, <1>2, <1>3, <1>4, QuietCall

(* DeleteVolume removes the directory, or fails; the quota stays. *)
LEMMA JfsDeleteVolStep ==
    ASSUME IInv, NEW c \in Slots, JfsDeleteVol(c)
    PROVE  TypeOK' /\ \A w \in Vols : Fewer(w)
<1>a. TypeOK /\ call[c].op # "idle" /\ End(c)
  BY DEF IInv, JfsDeleteVol, Succeed
<1>1. Entered(c, IdleCall) /\ IdleCall.op = "idle" /\ IdleCall \in CallSet
  BY <1>a, CallEnds DEF CallSet
<1>2. /\ claim' \in [Vols -> ClaimSet]
      /\ \A w \in Vols : claim[w].want <= claim'[w].want /\ (claim'[w].st = "pending" <=> claim[w].st = "pending")
  <2>1. CASE Succeed(c)
    BY <1>a, <2>1, SucceedMoves, WantIsNat
  <2>2. CASE UNCHANGED claim
    BY <1>a, <2>2, TypeParts, WantIsNat
  <2> QED BY <2>1, <2>2 DEF JfsDeleteVol
<1>3. Quiet
  BY <1>2 DEF JfsDeleteVol, Quiet
<1>4. TypeOK'
  <2>1. dir' \in SUBSET Vols /\ volLocks' \in SUBSET Vols
    BY <1>a, TypeParts DEF JfsDeleteVol
  <2>2. vols' \in [Vols -> Size0]
    BY <1>a, TypeParts DEF JfsDeleteVol, Size0
  <2>3. left' \in LeftSet
    BY <1>a, TypeParts, SpendType DEF JfsDeleteVol
  <2>4. job' \in [Vols -> JobStates]
    BY <1>a, TypeParts DEF JfsDeleteVol, JobStates
  <2> QED BY <1>a, <1>1, <1>2, <2>1, <2>2, <2>3, <2>4, TypeParts, TypeNext DEF JfsDeleteVol, Entered
<1> QED BY <1>a, <1>1, <1>3, <1>4, QuietCall

(* A caller that stops waiting for a call adds no writer. *)
LEMMA GiveUpStep ==
    ASSUME IInv, NEW c \in Slots, GiveUp(c)
    PROVE  TypeOK' /\ \A w \in Vols : Fewer(w)
<1>a. TypeOK /\ call[c].op # "idle"
  BY TypeParts, CallFields DEF IInv, GiveUp
<1>1. PICK e \in CallSet : /\ Entered(c, e) /\ e.pc = call[c].pc
                           /\ e.op = call[c].op /\ e.vol = call[c].vol /\ e.size = call[c].size
  BY <1>a, CallAbandoned DEF GiveUp
<1>2. Quiet
  BY <1>a, WantIsNat DEF GiveUp, Quiet, env
<1>3. TypeOK'
  <2>1. left' \in LeftSet
    BY <1>a, TypeParts, SpendType DEF GiveUp
  <2> QED BY <1>a, <1>1, <2>1, TypeParts, TypeNext DEF GiveUp, env, Entered
<1> QED BY <1>a, <1>1, <1>2, <1>3, QuietCall

(* A larger request changes the claim only; the volume follows later. *)
LEMMA ClaimGrowsStep ==
    ASSUME IInv, NEW v \in Vols, ClaimGrows(v)
    PROVE  TypeOK' /\ \A w \in Vols : Fewer(w)
<1>a. TypeOK /\ claim \in [Vols -> ClaimSet]
  BY TypeParts DEF IInv
<1>1. PICK s \in Sizes : s > claim[v].want /\ claim' = [claim EXCEPT ![v].want = s]
  BY DEF ClaimGrows
<1>2. claim' \in [Vols -> ClaimSet]
  BY <1>a, <1>1, ClaimTable
<1>3. \A w \in Vols : /\ claim'[w].st = claim[w].st
                      /\ claim'[w].want = claim[w].want \/ claim[w].want < claim'[w].want
  BY <1>a, <1>1 DEF ClaimSet
<1>4. \A w \in Vols : claim[w].want <= claim'[w].want
  <2> SUFFICES ASSUME NEW w \in Vols PROVE claim[w].want <= claim'[w].want
    OBVIOUS
  <2>1. claim'[w].want \in Nat
    <3>1. claim'[w] \in ClaimSet
      BY <1>2
    <3> QED BY <3>1, ClaimFields, SizeAssumption
  <2> QED BY <1>a, <1>3, <2>1, WantIsNat
<1>5. Quiet
  BY <1>3, <1>4 DEF ClaimGrows, Quiet
<1>6. TypeOK'
  BY <1>a, <1>2, TypeParts, TypeNext DEF ClaimGrows
<1> QED BY <1>5, <1>6, QuietClaim DEF ClaimGrows

(* A released claim has no new writers. *)
LEMMA ClaimReleasedStep ==
    ASSUME IInv, NEW v \in Vols, ClaimReleased(v)
    PROVE  TypeOK' /\ \A w \in Vols : Fewer(w)
<1>a. TypeOK /\ "released" \in States \ {"pending"} /\ claim[v].st # "pending"
  BY DEF IInv, States, ClaimReleased
<1>1. /\ claim' \in [Vols -> ClaimSet]
      /\ \A w \in Vols : claim'[w].want = claim[w].want /\ (claim'[w].st = "pending" <=> claim[w].st = "pending")
  BY <1>a, ClaimMoves DEF ClaimReleased
<1>2. Quiet
  BY <1>a, <1>1, WantIsNat DEF ClaimReleased, Quiet
<1>3. TypeOK'
  BY <1>a, <1>1, TypeParts, TypeNext DEF ClaimReleased
<1> QED BY <1>2, <1>3, QuietClaim DEF ClaimReleased

(* The deletion of a secret touches no quota. *)
LEMMA SecretDeletedStep ==
    ASSUME IInv, NEW v \in Vols, SecretDeleted(v)
    PROVE  TypeOK' /\ \A w \in Vols : Fewer(w)
<1>a. TypeOK
  BY DEF IInv
<1>1. Quiet
  BY <1>a, WantIsNat DEF SecretDeleted, Quiet
<1>2. TypeOK'
  <2>1. secret' \in SUBSET Vols
    BY <1>a, TypeParts DEF SecretDeleted
  <2> QED BY <1>a, <2>1, TypeParts, TypeNext DEF SecretDeleted
<1> QED BY <1>1, <1>2, QuietClaim DEF SecretDeleted

(* A job that no call waits for ends; the quota stays. *)
LEMMA JobStep ==
    ASSUME IInv, NEW v \in Vols, JobRemoves(v) \/ JobFails(v)
    PROVE  TypeOK' /\ \A w \in Vols : Fewer(w)
<1>a. TypeOK
  BY DEF IInv
<1>1. Quiet /\ UNCHANGED call
  BY <1>a, WantIsNat DEF JobRemoves, JobFails, Quiet, env
<1>2. TypeOK'
  <2>1. job' \in [Vols -> JobStates] /\ dir' \in SUBSET Vols
    BY <1>a, TypeParts DEF JobRemoves, JobFails, JobStates
  <2>2. left' \in LeftSet
    BY <1>a, TypeParts, SpendType DEF JobRemoves, JobFails
  <2> QED BY <1>a, <2>1, <2>2, TypeParts, TypeNext DEF JobRemoves, JobFails, env
<1> QED BY <1>1, <1>2, QuietClaim

(* A crash ends the calls of the controller; what is left are fewer writers. *)
LEMMA CrashStep ==
    ASSUME IInv, Crash
    PROVE  TypeOK' /\ \A w \in Vols : Fewer(w)
<1>a. TypeOK
  BY DEF IInv
<1>1. \A c \in Slots : call'[c].op = "idle"
  BY DEF Crash, IdleCall
<1>2. TypeOK'
  <2>1. call' \in [Slots -> CallSet] /\ vols' \in [Vols -> Size0] /\ bg' = {} /\ volLocks' = {}
    BY DEF Crash, CallSet, Size0
  <2>2. left' \in LeftSet
    BY <1>a, TypeParts, SpendType DEF Crash
  <2>3. job' \in [Vols -> JobStates]
    BY <1>a, TypeParts DEF Crash, JobStates
  <2> QED BY <1>a, <2>1, <2>2, <2>3, TypeParts, TypeNext DEF Crash, env
<1>3. \A w \in Vols : Fewer(w)
  <2>1. \A w \in Vols : ~Queued(w)'
    BY DEF Crash, Queued
  <2> QED BY <1>a, <1>1, WantIsNat DEF Crash, Fewer, env, Serves, Expands, Publishes, Queued
<1> QED BY <1>2, <1>3

-----------------------------------------------------------------------------
(* Actions of the quota's writers *)

(* A step that only concerns volume v.                                      *)
Elsewhere(v) ==
    \A w \in Vols \ {v} :
        /\ UNCHANGED <<quota[w], solo[w], sound[w], pv[w], claim[w]>>
        /\ Queued(w)' => Queued(w)
        /\ \A c \in Slots : Serves(c, w)' => call'[c] = call[c]
        /\ \A n \in Nodes : Publishes(n, w)' => pub'[n] = pub[n]

(* A step local to one volume keeps the invariant of all others. *)
LEMMA ElsewhereKeeps ==
    ASSUME IInv, TypeOK', NEW v \in Vols, Elsewhere(v), VolInv(v)'
    PROVE  IInv'
<1> SUFFICES ASSUME NEW w \in Vols \ {v} PROVE VolInv(w)'
  BY DEF IInv
<1>1. Fewer(w)
  <2>1. \A c \in Slots : Serves(c, w)' => Serves(c, w) /\ call'[c] = call[c]
    BY DEF Elsewhere, Serves
  <2>2. \A c \in Slots : Expands(c, w)' => Expands(c, w) /\ call'[c] = call[c]
    BY <2>1 DEF Serves, Expands
  <2>3. \A n \in Nodes : Publishes(n, w)' => Publishes(n, w) /\ pub'[n] = pub[n]
    BY DEF Elsewhere, Publishes
  <2>4. claim[w].want <= claim'[w].want
    BY WantIsNat DEF Elsewhere, IInv
  <2> QED BY <2>1, <2>2, <2>3, <2>4 DEF Fewer, Elsewhere
<1> QED BY <1>1, FewerKeeps DEF IInv

(* The numbers of a volume.                                                 *)
LEMMA Numbers ==
    ASSUME TypeOK, NEW v \in Vols
    PROVE  /\ claim[v].want \in Size0 /\ claim[v].want \in Sizes /\ pv[v].size \in Size0
           /\ claim[v].want \in Nat /\ pv[v].size \in Nat
           /\ pv[v].created \in Size0 /\ quota[v] \in Nat
<1>1. claim[v] \in ClaimSet /\ pv[v] \in PVSet /\ quota[v] \in Nat
  BY TypeParts
<1>2. claim[v].want \in Sizes
  BY <1>1, ClaimFields
<1>3. pv[v].size \in Size0 /\ pv[v].created \in Size0
  BY <1>1, PVFields
<1>4. claim[v].want \in Size0
  BY <1>2 DEF Size0
<1> QED BY <1>1, <1>2, <1>3, <1>4, SizeIsNat

(* CreateVolume: the first size of a volume that nobody has used. *)
LEMMA CreateVolumeStep ==
    ASSUME IInv, NEW v \in Vols, CreateVolume(v)
    PROVE  IInv'
<1> DEFINE want == claim[v].want
<1>a. TypeOK /\ VolInv(v)
  BY DEF IInv
<1>b. want \in Sizes /\ want \in Size0 /\ want \in Nat
  BY <1>a, Numbers
<1>c. claim \in [Vols -> ClaimSet] /\ pv \in [Vols -> PVSet] /\ vols \in [Vols -> Size0] /\ left \in LeftSet
  BY <1>a, TypeParts
<1>d. vols' \in [Vols -> Size0] /\ left' \in LeftSet
  BY <1>b, <1>c, SpendType DEF CreateVolume
<1>1. CASE UNCHANGED <<claim, pv>>
  <2>1. Quiet /\ UNCHANGED call
    BY <1>a, <1>1, WantIsNat DEF CreateVolume, Quiet
  <2>2. TypeOK'
    BY <1>a, <1>1, <1>d, TypeParts, TypeNext DEF CreateVolume
  <2> QED BY <2>1, <2>2, QuietClaim, FewerKeeps DEF IInv
<1>2. CASE /\ pv' = [pv EXCEPT ![v] = [size |-> want, created |-> want]]
           /\ claim' = [claim EXCEPT ![v].st = "bound"]
  <2>1. claim' \in [Vols -> ClaimSet]
    BY <1>a, <1>2, ClaimTable DEF States
  <2>2. pv' \in [Vols -> PVSet]
    BY <1>b, <1>c, <1>2 DEF PVSet
  <2>3. TypeOK'
    BY <1>a, <1>d, <2>1, <2>2, TypeParts, TypeNext DEF CreateVolume
  <2>4. pv'[v].size = want /\ pv'[v].created = want /\ claim'[v].st = "bound" /\ claim'[v].want = want
    BY <1>b, <1>c, <1>2 DEF PVSet, ClaimSet
  <2>5. UNCHANGED <<quota, call, pub, bg, solo, sound>>
    BY DEF CreateVolume
  <2>6. Elsewhere(v)
    BY <1>c, <1>2, <2>5 DEF Elsewhere, Queued, Serves, Publishes
  <2>7. quota'[v] = 0 /\ ~Queued(v)' /\ (\A c \in Slots : ~Expands(c, v)') /\ \A n \in Nodes : ~Publishes(n, v)'
    BY <1>a, <2>5 DEF CreateVolume, VolInv, NewInv, Serves, Expands, Publishes, Queued
  <2>8. VolInv(v)'
    <3>1. AloneInv(v)'
      BY <2>7 DEF AloneInv, Alone
    <3>2. SizeInv(v)'
      BY <1>b, <2>4, <2>7 DEF SizeInv
    <3>3. FreshInv(v)' /\ NewInv(v)' /\ QuotaInv(v)'
      BY <2>4, <2>7 DEF FreshInv, NewInv, QuotaInv
    <3> QED BY <3>1, <3>2, <3>3 DEF VolInv
  <2> QED BY <2>3, <2>6, <2>8, ElsewhereKeeps
<1> QED BY <1>1, <1>2 DEF CreateVolume

(* A writer is alone from its beginning when nobody else is at work.        *)
LEMMA BeginsAlone ==
    ASSUME TypeOK, NEW v \in Vols, BeginWriter(v)
    PROVE  /\ sound'[v] => sound[v]
           /\ sound'[v] \/ solo'[v] => /\ ~Queued(v)
                                       /\ \A c \in Slots : ~Expands(c, v)
                                       /\ \A n \in Nodes : ~Publishes(n, v)
           /\ \A w \in Vols \ {v} : UNCHANGED <<solo[w], sound[w]>>
BY DEF TypeOK, BeginWriter, QuotaBusy, Expanding, Publishing, Expands, Publishes, Queued

(* ControllerExpandVolume begins: either nobody else writes the quota of the volume, or the
   history is no longer solo. *)
LEMMA ControllerExpandVolumeStep ==
    ASSUME IInv, NEW c \in Slots, NEW v \in Vols, ControllerExpandVolume(c, v)
    PROVE  IInv'
<1> DEFINE want == claim[v].want
<1>a. /\ TypeOK /\ VolInv(v) /\ BeginWriter(v) /\ UNCHANGED <<quota, pub, bg, env, left>>
      /\ claim[v].st = "bound" /\ pv[v].size < want /\ Begin(c, "expand", v, "quota", want)
  BY Numbers DEF IInv, ControllerExpandVolume
<1>b. want \in Sizes /\ want \in Size0 /\ want \in Nat /\ "quota" \in CallPCs
  BY <1>a, Numbers DEF CallPCs
<1>1. PICK e \in CallSet : /\ Entered(c, e) /\ call[c] = IdleCall
                           /\ e.op = "expand" /\ e.vol = v /\ e.pc = "quota" /\ e.size = want
  BY <1>a, <1>b, CallBegins
<1> HIDE DEF want
<1>2. TypeOK'
  <2>1. solo' \in [Vols -> BOOLEAN] /\ sound' \in [Vols -> BOOLEAN]
    BY <1>a, HistoryType
  <2> QED BY <1>a, <1>1, <2>1, TypeParts, TypeNext DEF ControllerExpandVolume, env, Entered
<1>3. Elsewhere(v)
  BY <1>a, <1>1, BeginsAlone DEF Elsewhere, Queued, Serves, Publishes, Entered, env
<1>4. /\ UNCHANGED <<quota[v], pv[v], claim[v]>>
      /\ Queued(v)' <=> Queued(v)
      /\ \A d \in Slots : Expands(d, v)' => d = c \/ (Expands(d, v) /\ call'[d] = call[d])
      /\ call'[c].pc = "quota" /\ call'[c].size = want
      /\ \A n \in Nodes : (Publishes(n, v)' <=> Publishes(n, v)) /\ pub'[n] = pub[n]
  BY <1>a, <1>1 DEF Queued, Expands, Publishes, Entered, env
<1>5. VolInv(v)'
  <2>1. AloneInv(v)'
    BY <1>a, <1>4, BeginsAlone DEF AloneInv, Alone
  <2>2. SizeInv(v)'
    BY <1>a, <1>b, <1>4 DEF VolInv, SizeInv, want
  <2>3. FreshInv(v)'
    BY <1>a, <1>4, BeginsAlone DEF FreshInv
  <2>4. NewInv(v)'
    BY <1>a, <1>4 DEF NewInv
  <2>5. QuotaInv(v)'
    BY <1>a, <1>4, BeginsAlone DEF VolInv, QuotaInv
  <2> QED BY <2>1, <2>2, <2>3, <2>4, <2>5 DEF VolInv
<1> QED BY <1>2, <1>3, <1>5, ElsewhereKeeps

(* NodePublishVolume reads the size of the volume for the quota it will set. *)
LEMMA NodePublishVolumeStep ==
    ASSUME IInv, NEW n \in Nodes, NEW v \in Vols, NodePublishVolume(n, v)
    PROVE  IInv'
<1>a. /\ TypeOK /\ VolInv(v) /\ BeginWriter(v) /\ UNCHANGED <<quota, call, bg, env>>
      /\ claim[v].st = "bound" /\ pub[n] = IdlePub
  BY DEF IInv, NodePublishVolume
<1>b. pv[v].size \in Sizes /\ pv[v].created \in Sizes
  BY <1>a DEF VolInv, SizeInv
<1>1. PICK p \in PubSet : /\ pub' = [pub EXCEPT ![n] = p]
                          /\ p.vol = v /\ (p.read => p.size = pv[v].size)
  <2>1. CASE pub' = [pub EXCEPT ![n] = [vol |-> v, size |-> pv[v].size, read |-> TRUE]]
    <3> DEFINE p == [vol |-> v, size |-> pv[v].size, read |-> TRUE]
    <3>1. p \in PubSet /\ p.vol = v /\ (p.read => p.size = pv[v].size)
      BY <1>b DEF PubSet
    <3>2. pub' = [pub EXCEPT ![n] = p]
      BY <2>1
    <3> HIDE DEF p
    <3> QED BY <3>1, <3>2
  <2>2. CASE pub' = [pub EXCEPT ![n] = [vol |-> v, size |-> pv[v].created, read |-> FALSE]]
    <3> DEFINE p == [vol |-> v, size |-> pv[v].created, read |-> FALSE]
    <3>1. p \in PubSet /\ p.vol = v /\ (p.read => p.size = pv[v].size)
      BY <1>b DEF PubSet
    <3>2. pub' = [pub EXCEPT ![n] = p]
      BY <2>2
    <3> HIDE DEF p
    <3> QED BY <3>1, <3>2
  <2> QED BY <2>1, <2>2 DEF NodePublishVolume
<1>c. pub \in [Nodes -> PubSet] /\ left \in LeftSet
  BY <1>a, TypeParts
<1>2. TypeOK'
  <2>1. solo' \in [Vols -> BOOLEAN] /\ sound' \in [Vols -> BOOLEAN]
    BY <1>a, HistoryType
  <2>2. pub' \in [Nodes -> PubSet]
    BY <1>c, <1>1
  <2>3. left' \in LeftSet
    BY <1>c, SpendType DEF NodePublishVolume
  <2> QED BY <1>a, <2>1, <2>2, <2>3, TypeParts, TypeNext DEF NodePublishVolume, env
<1>d. pub'[n] = p /\ \A m \in Nodes \ {n} : pub'[m] = pub[m]
  BY <1>c, <1>1
<1>3. Elsewhere(v)
  BY <1>a, <1>1, <1>d, BeginsAlone DEF Elsewhere, Queued, Serves, Publishes, env
<1>4. /\ UNCHANGED <<quota[v], pv[v], claim[v]>>
      /\ Queued(v)' <=> Queued(v)
      /\ \A d \in Slots : (Expands(d, v)' <=> Expands(d, v)) /\ call'[d] = call[d]
      /\ \A m \in Nodes : Publishes(m, v)' => m = n \/ Publishes(m, v)
      /\ pub'[n].read => pub'[n].size = pv[v].size
  BY <1>a, <1>1, <1>d DEF Queued, Expands, Publishes, env
<1>5. VolInv(v)'
  <2>1. AloneInv(v)'
    BY <1>a, <1>4, BeginsAlone DEF AloneInv, Alone
  <2>2. SizeInv(v)'
    BY <1>a, <1>4 DEF VolInv, SizeInv
  <2>3. FreshInv(v)'
    BY <1>a, <1>4, BeginsAlone DEF FreshInv
  <2>4. NewInv(v)'
    BY <1>a, <1>4 DEF NewInv
  <2>5. QuotaInv(v)'
    BY <1>a, <1>4, BeginsAlone DEF VolInv, QuotaInv
  <2> QED BY <2>1, <2>2, <2>3, <2>4, <2>5 DEF VolInv
<1> QED BY <1>2, <1>3, <1>5, ElsewhereKeeps

(* The size in the PV object becomes the size of a successful expansion.    *)
LEMMA ExpandToldStep ==
    ASSUME IInv, NEW c \in Slots, ExpandTold(c)
    PROVE  IInv'
<1>a. TypeOK /\ call[c].op = "expand" /\ call[c].pc = "answer" /\ End(c) /\ call[c] \in CallSet
  BY TypeParts DEF IInv, ExpandTold
<1>0. PICK v \in Vols, s \in Size0 : v = call[c].vol /\ s = call[c].size
  BY <1>a, CallFields
<1>b. Expands(c, v) /\ call[c].waits \in BOOLEAN
  BY <1>a, <1>0, CallFields DEF Expands
<1>c. VolInv(v) /\ pv \in [Vols -> PVSet]
  BY <1>a, <1>b, TypeParts DEF IInv
<1>1. Entered(c, IdleCall) /\ IdleCall.op = "idle" /\ IdleCall \in CallSet
  BY <1>a, CallEnds DEF CallSet
<1>2. CASE ~call[c].waits
  <2>1. UNCHANGED pv
    BY <1>0, <1>c, <1>2 DEF ExpandTold, PVSet
  <2>2. Quiet
    BY <1>a, <2>1, WantIsNat DEF ExpandTold, Quiet
  <2>3. TypeOK'
    BY <1>a, <1>1, <2>1, TypeParts, TypeNext DEF ExpandTold, Entered
  <2> QED BY <1>a, <1>1, <2>2, <2>3, QuietCall, FewerKeeps DEF IInv
<1>3. CASE call[c].waits
  <2>1. pv' = [pv EXCEPT ![v].size = s]
    BY <1>0, <1>3 DEF ExpandTold
  <2>2. pv' \in [Vols -> PVSet]
    BY <1>a, <1>b, <2>1, ClaimTable
  <2>3. TypeOK'
    BY <1>a, <1>1, <2>2, TypeParts, TypeNext DEF ExpandTold, Entered
  <2>4. pv'[v].size = s /\ pv'[v].created = pv[v].created /\ \A w \in Vols \ {v} : pv'[w] = pv[w]
    BY <1>b, <1>c, <2>1 DEF PVSet
  <2>5. UNCHANGED <<claim, quota, pub, bg, solo, sound>>
    BY DEF ExpandTold
  <2>6. Elsewhere(v)
    BY <1>1, <2>4, <2>5 DEF Elsewhere, Queued, Serves, Publishes, Entered
  <2>7. /\ Queued(v)' <=> Queued(v)
        /\ \A d \in Slots : Expands(d, v)' => d # c /\ Expands(d, v) /\ call'[d] = call[d]
        /\ \A n \in Nodes : (Publishes(n, v)' <=> Publishes(n, v)) /\ pub'[n] = pub[n]
        /\ Pending(v)' => Pending(v)
    BY <1>1, <2>5 DEF Queued, Expands, Publishes, Entered, Pending
  <2>8. s \in Sizes /\ s <= claim[v].want /\ claim[v].st # "pending" /\ pv[v].created \in Sizes
    BY <1>a, <1>0, <1>b, <1>c DEF VolInv, SizeInv, NewInv, Serves, Expands
  <2>9. VolInv(v)'
    <3>1. AloneInv(v)'
      BY <1>c, <2>5, <2>7 DEF VolInv, AloneInv, Alone
    <3>2. SizeInv(v)'
      BY <1>c, <2>4, <2>5, <2>7, <2>8 DEF VolInv, SizeInv
    <3>3. FreshInv(v)'
      <4>1. ASSUME NEW d \in Slots, Expands(d, v)', sound'[v] \/ (solo'[v] /\ call'[d].pc = "quota")
            PROVE  FALSE
        <5>1. Expands(d, v) /\ d # c /\ (sound[v] \/ (solo[v] /\ Pending(v)))
          BY <2>5, <2>7, <4>1 DEF Pending
        <5> QED BY <1>b, <1>c, <5>1 DEF VolInv, AloneInv, Alone
      <4>2. ASSUME NEW n \in Nodes, Publishes(n, v)', sound'[v] \/ solo'[v]
            PROVE  FALSE
        <5>1. Publishes(n, v) /\ (sound[v] \/ (solo[v] /\ Pending(v)))
          BY <2>5, <2>7, <4>2 DEF Pending
        <5> QED BY <1>b, <1>c, <5>1 DEF VolInv, AloneInv, Alone
      <4> QED BY <4>1, <4>2 DEF FreshInv
    <3>4. NewInv(v)'
      BY <2>5, <2>8 DEF NewInv
    <3>5. QuotaInv(v)'
      <4> SUFFICES ASSUME sound[v], quota[v] # 0
                   PROVE  /\ quota[v] = QuotaOf(s)
                          /\ \A d \in Slots : ~Expands(d, v)'
        BY <1>b, <2>4, <2>5, Numbers, QuotaMonotonic DEF QuotaInv
      <4>1. quota[v] = QuotaOf(s)
        BY <1>a, <1>0, <1>b, <1>c DEF VolInv, QuotaInv
      <4>2. \A d \in Slots : ~Expands(d, v)'
        BY <1>b, <1>c, <2>7 DEF VolInv, AloneInv, Alone
      <4> QED BY <4>1, <4>2
    <3> QED BY <3>1, <3>2, <3>3, <3>4, <3>5 DEF VolInv
  <2> QED BY <1>b, <2>3, <2>6, <2>9, ElsewhereKeeps
<1> QED BY <1>b, <1>2, <1>3

(* A command in the background is never the only trace of a sound history.  *)
LEMMA QuotaInBackgroundStep ==
    ASSUME IInv, NEW q \in bg, QuotaInBackground(q)
    PROVE  IInv'
<1> DEFINE v == q[1]
<1>a. TypeOK /\ bg \in SUBSET (Vols \X Sizes) /\ quota \in [Vols -> Nat] /\ left \in LeftSet
  BY TypeParts DEF IInv
<1>b. v \in Vols /\ q[2] \in Sizes /\ Queued(v)
  BY <1>a DEF Queued
<1>c. VolInv(v) /\ QuotaOf(q[2]) \in Nat
  BY <1>b, QuotaMonotonic DEF IInv, Size0
<1>1. quota' \in [Vols -> Nat] /\ bg' \in SUBSET (Vols \X Sizes) /\ bg' \subseteq bg
      /\ \A w \in Vols \ {v} : quota'[w] = quota[w]
  BY <1>a, <1>b, <1>c DEF QuotaInBackground, Written
<1>2. left' \in LeftSet
  BY <1>a, SpendType DEF QuotaInBackground
<1>3. TypeOK'
  BY <1>a, <1>1, <1>2, TypeParts, TypeNext DEF QuotaInBackground, env
<1>4. UNCHANGED <<claim, pv, call, pub, solo, sound>>
  BY DEF QuotaInBackground, env
<1> HIDE DEF v
<1>5. Elsewhere(v)
  BY <1>1, <1>4 DEF Elsewhere, Queued, Serves, Publishes
<1>6. ~sound[v] /\ ~(solo[v] /\ Pending(v)) /\ claim[v].st # "pending"
  BY <1>b, <1>c DEF VolInv, AloneInv, Alone, NewInv
<1>7. VolInv(v)'
  BY <1>4, <1>6, <1>c DEF VolInv, AloneInv, SizeInv, FreshInv, NewInv, QuotaInv, Pending, Expands, Publishes
<1> QED BY <1>b, <1>3, <1>5, <1>7, ElsewhereKeeps

(* What SetQuota leaves behind: the new quota, none when the client has no  *)
(* quotas, or a command in the background.                                  *)
LEMMA SetQuotaSucceeds ==
    ASSUME TypeOK, ClientInv, NEW v \in Vols, NEW size \in Size0, NEW killed \in BOOLEAN,
           SetQuota(v, size, killed)
    PROVE  /\ \/ (quota'[v] = QuotaOf(size) \/ quota'[v] = 0) /\ bg' = bg
              \/ bg' = bg => Queued(v)
           /\ \A w \in Vols \ {v} : quota'[w] = quota[w] /\ (Queued(w)' => Queued(w))
<1>a. quota \in [Vols -> Nat] /\ bg \in SUBSET (Vols \X Sizes)
  BY TypeParts
<1>1. CASE quota' = Written(v, size) /\ bg' = bg
  BY <1>a, <1>1 DEF Queued, Written, ClientInv
<1>2. CASE bg' = bg \cup {<<v, size>>} /\ quota' = quota
  <2>1. bg' = bg => <<v, size>> \in bg
    BY <1>2
  <2> QED BY <1>2, <2>1 DEF Queued
<1> QED BY <1>1, <1>2 DEF SetQuota

(* A quota command that fails may still have set the quota; it leaves nothing in the
   background. *)
LEMMA SetQuotaErrs ==
    ASSUME TypeOK, NEW v \in Vols, NEW size \in Size0, NEW killed \in BOOLEAN,
           SetQuotaFails(v, size, killed)
    PROVE  /\ quota'[v] = quota[v] \/ quota'[v] = QuotaOf(size)
           /\ bg' = bg
           /\ \A w \in Vols \ {v} : quota'[w] = quota[w] /\ (Queued(w)' => Queued(w))
<1>a. quota \in [Vols -> Nat]
  BY TypeParts
<1>1. bg' = bg
  BY DEF SetQuotaFails
<1> QED BY <1>a, <1>1 DEF SetQuotaFails, Queued, Written

(* A writer that ends in a sound state has read the result of its command and was alone. *)
LEMMA EndsAlone ==
    ASSUME TypeOK, NEW v \in Vols, NEW read \in BOOLEAN, EndWriter(v, read)
    PROVE  /\ sound'[v] => read /\ bg' = bg /\ (sound[v] \/ solo[v])
           /\ \A w \in Vols \ {v} : sound'[w] = sound[w]
BY DEF TypeOK, EndWriter

(* An expansion sets the quota.                                             *)
LEMMA ExpandQuotaStep ==
    ASSUME IInv, ClientInv, NEW c \in Slots, ExpandQuota(c)
    PROVE  IInv'
<1>a. TypeOK /\ call[c].op = "expand" /\ call[c].pc = "quota" /\ call[c] \in CallSet
  BY TypeParts DEF IInv, ExpandQuota
<1>0. PICK v \in Vols, s \in Size0, killed \in BOOLEAN :
          v = call[c].vol /\ s = call[c].size /\ killed = ~call[c].waits
  BY <1>a, CallFields
<1>b. Expands(c, v) /\ Pending(v) /\ VolInv(v)
  BY <1>a, <1>0 DEF Expands, Pending, IInv
<1>c. UNCHANGED <<claim, pv, pub, solo>>
  BY DEF ExpandQuota, env
<1>d. s \in Sizes /\ s <= claim[v].want /\ claim[v].st # "pending"
  BY <1>a, <1>0, <1>b DEF VolInv, SizeInv, NewInv, Serves, Expands
<1>e. sound[v] \/ solo[v] => /\ ~Queued(v) /\ pv[v].size < s
                             /\ \A d \in Slots : Expands(d, v) => d = c
                             /\ \A n \in Nodes : ~Publishes(n, v)
  BY <1>a, <1>0, <1>b DEF VolInv, AloneInv, Alone, FreshInv
<1>f. pv[v].size < s => QuotaOf(pv[v].size) <= QuotaOf(s) /\ pv[v].size # claim[v].want
  <2>1. pv[v].size \in Size0 /\ pv[v].size \in Nat /\ claim[v].want \in Nat /\ s \in Nat
    BY <1>a, Numbers, SizeAssumption, <1>d
  <2> QED BY <1>d, <2>1, QuotaMonotonic
<1>1. CASE /\ SetQuota(v, s, killed) /\ Moves(c, "answer") /\ EndWriter(v, TRUE)
  <2>1. PICK e \in CallSet : /\ Entered(c, e) /\ e.pc = "answer"
                             /\ e.op = "expand" /\ e.vol = v /\ e.size = s
    <3>1. "answer" \in CallPCs /\ call[c].op # "idle"
      BY <1>a DEF CallPCs
    <3> QED BY <1>a, <1>0, <1>1, <3>1, CallMoves
  <2>2. TypeOK'
    <3>1. quota' \in [Vols -> Nat] /\ bg' \in SUBSET (Vols \X Sizes) /\ left' \in LeftSet
      BY <1>a, <1>1, SetQuotaType
    <3>2. sound' \in [Vols -> BOOLEAN]
      BY <1>a, <1>1, HistoryType
    <3> QED BY <1>a, <2>1, <3>1, <3>2, TypeParts, TypeNext DEF ExpandQuota, env, Entered
  <2>3. /\ \/ (quota'[v] = QuotaOf(s) \/ quota'[v] = 0) /\ bg' = bg
           \/ bg' = bg => Queued(v)
        /\ \A w \in Vols \ {v} : quota'[w] = quota[w] /\ (Queued(w)' => Queued(w))
    BY <1>a, <1>1, SetQuotaSucceeds
  <2>4. /\ sound'[v] => bg' = bg /\ (sound[v] \/ solo[v])
        /\ \A w \in Vols \ {v} : sound'[w] = sound[w]
    BY <1>a, <1>1, EndsAlone
  <2>5. Elsewhere(v)
    BY <1>c, <2>1, <2>3, <2>4 DEF Elsewhere, Serves, Publishes, Entered
  <2>6. /\ \A d \in Slots : Expands(d, v)' => d = c \/ (Expands(d, v) /\ call'[d] = call[d])
        /\ call'[c].pc = "answer" /\ call'[c].size = s
        /\ \A n \in Nodes : (Publishes(n, v)' <=> Publishes(n, v)) /\ pub'[n] = pub[n]
        /\ Pending(v)' => \/ \E d \in Slots \ {c} : Expands(d, v)
                          \/ \E n \in Nodes : Publishes(n, v)
    BY <1>c, <2>1 DEF Expands, Publishes, Entered, Pending
  <2>7. sound'[v] => (quota'[v] = QuotaOf(s) \/ quota'[v] = 0) /\ (sound[v] \/ solo[v]) /\ ~Queued(v)'
    <3>1. bg' = bg => (Queued(v)' <=> Queued(v))
      BY DEF Queued
    <3> QED BY <1>e, <2>3, <2>4, <3>1
  <2>8. ~(solo[v] /\ Pending(v)')
    BY <1>e, <2>6
  <2>9. VolInv(v)'
    <3>1. AloneInv(v)'
      BY <1>c, <1>e, <2>6, <2>7, <2>8 DEF AloneInv, Alone
    <3>2. SizeInv(v)'
      BY <1>b, <1>c, <1>d, <2>6 DEF VolInv, SizeInv
    <3>3. FreshInv(v)'
      BY <1>c, <1>e, <2>6, <2>7 DEF FreshInv
    <3>4. NewInv(v)'
      BY <1>c, <1>d DEF NewInv
    <3>5. QuotaInv(v)'
      BY <1>c, <1>e, <1>f, <2>6, <2>7 DEF QuotaInv
    <3> QED BY <3>1, <3>2, <3>3, <3>4, <3>5 DEF VolInv
  <2> QED BY <2>2, <2>5, <2>9, ElsewhereKeeps
<1>2. CASE SetQuotaFails(v, s, killed) /\ End(c) /\ UNCHANGED sound
  <2>1. Entered(c, IdleCall) /\ IdleCall.op = "idle" /\ IdleCall \in CallSet
    BY <1>a, <1>2, CallEnds DEF CallSet
  <2>2. TypeOK'
    <3>1. quota' \in [Vols -> Nat] /\ bg' \in SUBSET (Vols \X Sizes) /\ left' \in LeftSet
      BY <1>a, <1>2, SetQuotaType
    <3> QED BY <1>a, <1>2, <2>1, <3>1, TypeParts, TypeNext DEF ExpandQuota, env, Entered
  <2>3. /\ quota'[v] = quota[v] \/ quota'[v] = QuotaOf(s)
        /\ bg' = bg
        /\ \A w \in Vols \ {v} : quota'[w] = quota[w] /\ (Queued(w)' => Queued(w))
    BY <1>a, <1>2, SetQuotaErrs
  <2>4. Elsewhere(v)
    BY <1>c, <1>2, <2>1, <2>3 DEF Elsewhere, Serves, Publishes, Entered
  <2>5. /\ \A d \in Slots : Expands(d, v)' => d # c /\ Expands(d, v) /\ call'[d] = call[d]
        /\ \A n \in Nodes : (Publishes(n, v)' <=> Publishes(n, v)) /\ pub'[n] = pub[n]
        /\ Pending(v)' => Pending(v)
        /\ Queued(v)' <=> Queued(v)
    BY <1>c, <2>1, <2>3 DEF Expands, Publishes, Entered, Pending, Queued
  <2>6. VolInv(v)'
    <3>1. AloneInv(v)'
      BY <1>b, <1>c, <1>2, <2>5 DEF VolInv, AloneInv, Alone
    <3>2. SizeInv(v)'
      BY <1>b, <1>c, <2>5 DEF VolInv, SizeInv
    <3>3. FreshInv(v)'
      BY <1>b, <1>c, <1>2, <2>5 DEF VolInv, FreshInv
    <3>4. NewInv(v)'
      BY <1>c, <1>d DEF NewInv
    <3>5. QuotaInv(v)'
      <4>1. CASE quota'[v] = quota[v]
        BY <1>b, <1>c, <1>2, <2>5, <4>1 DEF VolInv, QuotaInv
      <4>2. CASE quota'[v] = QuotaOf(s)
        BY <1>c, <1>e, <1>f, <1>2, <2>5, <4>2 DEF QuotaInv
      <4> QED BY <2>3, <4>1, <4>2
    <3> QED BY <3>1, <3>2, <3>3, <3>4, <3>5 DEF VolInv
  <2> QED BY <2>2, <2>4, <2>6, ElsewhereKeeps
<1> QED BY <1>0, <1>1, <1>2 DEF ExpandQuota, Moves

(* A publication sets the quota.                                            *)
LEMMA PublishQuotaStep ==
    ASSUME IInv, ClientInv, NEW n \in Nodes, PublishQuota(n)
    PROVE  IInv'
<1>a. TypeOK /\ pub[n] # IdlePub /\ pub \in [Nodes -> PubSet] /\ dir \in SUBSET Vols
  BY TypeParts DEF IInv, PublishQuota
<1>0. PICK v \in Vols, s \in Sizes, read \in BOOLEAN :
          v = pub[n].vol /\ s = pub[n].size /\ read = pub[n].read
  BY <1>a, PubFields
<1>b. Publishes(n, v) /\ Pending(v) /\ VolInv(v) /\ s \in Size0
  BY <1>a, <1>0 DEF Publishes, Pending, IInv, Size0
<1>c. UNCHANGED <<claim, pv, call, solo>>
  BY DEF PublishQuota, env
<1>d. claim[v].st # "pending"
  BY <1>b DEF VolInv, NewInv
<1>e. sound[v] \/ solo[v] => /\ ~Queued(v) /\ (read => s = pv[v].size)
                             /\ \A m \in Nodes : Publishes(m, v) => m = n
                             /\ \A c \in Slots : ~Expands(c, v)
  BY <1>0, <1>b DEF VolInv, AloneInv, Alone, FreshInv
<1>f. QuotaOf(s) \in Nat
  BY <1>b, QuotaMonotonic
<1>g. pub' \in [Nodes -> PubSet] /\ pub'[n] = IdlePub /\ \A m \in Nodes \ {n} : pub'[m] = pub[m]
  BY <1>a DEF PublishQuota, PubSet
<1>h. dir' \in SUBSET Vols
  BY <1>a, <1>0 DEF PublishQuota
<1>i. /\ \A m \in Nodes : Publishes(m, v)' => m # n /\ Publishes(m, v) /\ pub'[m] = pub[m]
      /\ \A c \in Slots : (Expands(c, v)' <=> Expands(c, v)) /\ call'[c] = call[c]
      /\ Pending(v)' => \/ \E c \in Slots : Expands(c, v)
                        \/ \E m \in Nodes \ {n} : Publishes(m, v)
      /\ Pending(v)' => Pending(v)
  BY <1>c, <1>g DEF Expands, Publishes, Pending
<1>j. ~(solo[v] /\ Pending(v)')
  BY <1>e, <1>i
<1>1. CASE SetQuota(v, s, FALSE) /\ EndWriter(v, read)
  <2>1. TypeOK'
    <3>1. quota' \in [Vols -> Nat] /\ bg' \in SUBSET (Vols \X Sizes) /\ left' \in LeftSet
      BY <1>a, <1>b, <1>1, SetQuotaType
    <3>2. sound' \in [Vols -> BOOLEAN]
      BY <1>a, <1>1, HistoryType
    <3> QED BY <1>a, <1>g, <1>h, <3>1, <3>2, TypeParts, TypeNext DEF PublishQuota, env
  <2>2. /\ \/ (quota'[v] = QuotaOf(s) \/ quota'[v] = 0) /\ bg' = bg
           \/ bg' = bg => Queued(v)
        /\ \A w \in Vols \ {v} : quota'[w] = quota[w] /\ (Queued(w)' => Queued(w))
    BY <1>a, <1>b, <1>1, SetQuotaSucceeds
  <2>3. /\ sound'[v] => read /\ bg' = bg /\ (sound[v] \/ solo[v])
        /\ \A w \in Vols \ {v} : sound'[w] = sound[w]
    BY <1>a, <1>1, EndsAlone
  <2>4. Elsewhere(v)
    BY <1>c, <1>g, <2>2, <2>3 DEF Elsewhere, Serves, Publishes
  <2>5. sound'[v] => /\ quota'[v] = QuotaOf(pv[v].size) \/ quota'[v] = 0
                     /\ (sound[v] \/ solo[v]) /\ ~Queued(v)'
    <3>1. bg' = bg => (Queued(v)' <=> Queued(v))
      BY DEF Queued
    <3> QED BY <1>e, <2>2, <2>3, <3>1
  <2>6. VolInv(v)'
    <3>1. AloneInv(v)'
      BY <1>c, <1>e, <1>i, <1>j, <2>5 DEF AloneInv, Alone
    <3>2. SizeInv(v)'
      BY <1>b, <1>c, <1>i DEF VolInv, SizeInv
    <3>3. FreshInv(v)'
      BY <1>b, <1>c, <1>e, <1>i, <2>5 DEF VolInv, FreshInv
    <3>4. NewInv(v)'
      BY <1>c, <1>d DEF NewInv
    <3>5. QuotaInv(v)'
      <4>1. sound'[v] /\ quota'[v] # 0 => QuotaOf(pv[v].size) <= quota'[v]
        BY <1>e, <1>f, <2>3, <2>5
      <4> QED BY <1>c, <1>e, <1>i, <2>5, <4>1 DEF QuotaInv
    <3> QED BY <3>1, <3>2, <3>3, <3>4, <3>5 DEF VolInv
  <2> QED BY <2>1, <2>4, <2>6, ElsewhereKeeps
<1>2. CASE SetQuotaFails(v, s, FALSE) /\ sound' = [sound EXCEPT ![v] = @ /\ read]
  <2>1. TypeOK'
    <3>1. quota' \in [Vols -> Nat] /\ bg' \in SUBSET (Vols \X Sizes) /\ left' \in LeftSet
      BY <1>a, <1>b, <1>2, SetQuotaType
    <3>2. sound' \in [Vols -> BOOLEAN]
      BY <1>a, <1>2, TypeParts
    <3> QED BY <1>a, <1>g, <1>h, <3>1, <3>2, TypeParts, TypeNext DEF PublishQuota, env
  <2>2. /\ quota'[v] = quota[v] \/ quota'[v] = QuotaOf(s)
        /\ bg' = bg
        /\ \A w \in Vols \ {v} : quota'[w] = quota[w] /\ (Queued(w)' => Queued(w))
    BY <1>a, <1>b, <1>2, SetQuotaErrs
  <2>3. /\ sound'[v] => sound[v] /\ read
        /\ \A w \in Vols \ {v} : sound'[w] = sound[w]
    BY <1>a, <1>2 DEF TypeOK
  <2>4. Elsewhere(v)
    BY <1>c, <1>g, <2>2, <2>3 DEF Elsewhere, Serves, Publishes
  <2>5. Queued(v)' <=> Queued(v)
    BY <2>2 DEF Queued
  <2>6. VolInv(v)'
    <3>1. AloneInv(v)'
      BY <1>c, <1>e, <1>i, <1>j, <2>3, <2>5 DEF AloneInv, Alone
    <3>2. SizeInv(v)'
      BY <1>b, <1>c, <1>i DEF VolInv, SizeInv
    <3>3. FreshInv(v)'
      BY <1>b, <1>c, <1>i, <2>3 DEF VolInv, FreshInv
    <3>4. NewInv(v)'
      BY <1>c, <1>d DEF NewInv
    <3>5. QuotaInv(v)'
      <4>1. CASE quota'[v] = quota[v]
        BY <1>b, <1>c, <1>i, <2>3, <4>1 DEF VolInv, QuotaInv
      <4>2. CASE quota'[v] = QuotaOf(s)
        <5>1. sound'[v] => s = pv[v].size
          BY <1>e, <2>3
        <5>2. sound'[v] => QuotaOf(pv[v].size) <= quota'[v] /\ quota'[v] = QuotaOf(pv[v].size)
          BY <1>f, <4>2, <5>1
        <5> QED BY <1>c, <1>e, <1>i, <2>3, <5>2 DEF QuotaInv
      <4> QED BY <2>2, <4>1, <4>2
    <3> QED BY <3>1, <3>2, <3>3, <3>4, <3>5 DEF VolInv
  <2> QED BY <2>1, <2>4, <2>6, ElsewhereKeeps
<1> QED BY <1>0, <1>1, <1>2 DEF PublishQuota

-----------------------------------------------------------------------------
(* Every step keeps the invariant.                                          *)
LEMMA StepInv == IInv /\ ClientInv /\ [Next]_vars => IInv'
<1> SUFFICES ASSUME IInv, ClientInv, [Next]_vars PROVE IInv'
  OBVIOUS
<1>1. ASSUME TypeOK' /\ \A w \in Vols : Fewer(w) PROVE IInv'
  BY <1>1, FewerKeeps DEF IInv
<1>2. ASSUME NEW c \in Slots, Serve(c) PROVE IInv'
  BY <1>1, <1>2, DeleteVolumeStep, ControllerExpandVolumeStep, DeleteSkippedStep, DeleteLockStep,
     JfsDeleteVolStep, ExpandQuotaStep, ExpandToldStep DEF Serve
<1>3. ASSUME NEW c \in Slots, GiveUp(c) PROVE IInv'
  BY <1>1, <1>3, GiveUpStep
<1>4. ASSUME NEW v \in Vols, CreateVolume(v) \/ ClaimGrows(v) \/ ClaimReleased(v) \/ SecretDeleted(v)
                              \/ JobRemoves(v) \/ JobFails(v)
      PROVE  IInv'
  BY <1>1, <1>4, CreateVolumeStep, ClaimGrowsStep, ClaimReleasedStep, SecretDeletedStep, JobStep
<1>5. ASSUME NEW n \in Nodes, PublishQuota(n) \/ \E v \in Vols : NodePublishVolume(n, v)
      PROVE  IInv'
  BY <1>5, PublishQuotaStep, NodePublishVolumeStep
<1>6. ASSUME NEW q \in bg, QuotaInBackground(q) PROVE IInv'
  BY <1>6, QuotaInBackgroundStep
<1>7. CASE Crash
  BY <1>1, <1>7, CrashStep
<1>8. CASE UNCHANGED vars
  <2>1. TypeOK'
    BY <1>8 DEF IInv, TypeOK, vars, env
  <2>2. Quiet /\ UNCHANGED call
    BY <1>8, WantIsNat DEF Quiet, vars, env, IInv
  <2> QED BY <1>1, <2>1, <2>2, QuietClaim
<1> QED BY <1>2, <1>3, <1>4, <1>5, <1>6, <1>7, <1>8 DEF Next

(* No step changes the client, and without quotas none changes a quota.     *)
LEMMA ClientStep == ClientInv /\ [Next]_vars => ClientInv'
<1> SUFFICES ASSUME ClientInv, [Next]_vars PROVE client' = client /\ (~client.quota => quota' = quota)
  BY DEF ClientInv
<1>1. CASE \E c \in Slots : Serve(c) \/ GiveUp(c)
  BY <1>1 DEF Serve, env, DeleteVolume, DeleteSkipped, DeleteLock, JfsDeleteVol, ControllerExpandVolume,
              ExpandQuota, ExpandTold, GiveUp, SetQuota, SetQuotaFails, Written
<1>2. CASE \E v \in Vols : \/ CreateVolume(v) \/ ClaimGrows(v) \/ ClaimReleased(v) \/ SecretDeleted(v)
                          \/ JobRemoves(v) \/ JobFails(v)
  BY <1>2 DEF env, CreateVolume, ClaimGrows, ClaimReleased, SecretDeleted, JobRemoves, JobFails
<1>3. CASE \E n \in Nodes : PublishQuota(n) \/ \E v \in Vols : NodePublishVolume(n, v)
  BY <1>3 DEF env, PublishQuota, NodePublishVolume, SetQuota, SetQuotaFails, Written
<1>4. CASE \E q \in bg : QuotaInBackground(q)
  BY <1>4 DEF env, QuotaInBackground, Written
<1>5. CASE Crash \/ UNCHANGED vars
  BY <1>5 DEF env, vars, Crash
<1> QED BY <1>1, <1>2, <1>3, <1>4, <1>5 DEF Next

(* The invariant holds in every reachable state. *)
LEMMA Inductive == Spec => []IInv
<1>1. Init => ClientInv
  BY DEF Init, ClientInv
<1> QED BY <1>1, InitInv, StepInv, ClientStep, PTL DEF Spec

(* The invariant implies what the quota promises.                           *)
LEMMA Covers == IInv => QuotaCovers
<1> SUFFICES ASSUME IInv, NEW v \in Vols, sound[v], quota[v] # 0
             PROVE  /\ quota[v] >= pv[v].size \div GiB
                    /\ claim[v].want = pv[v].size => quota[v] = pv[v].size \div GiB
  BY DEF QuotaCovers
<1>1. quota[v] \in Nat /\ QuotaOf(pv[v].size) \in Nat
  BY Numbers, QuotaMonotonic DEF IInv
<1>2. QuotaOf(pv[v].size) <= quota[v] /\ (claim[v].want = pv[v].size => quota[v] = QuotaOf(pv[v].size))
  BY DEF IInv, VolInv, QuotaInv
<1>3. quota[v] >= QuotaOf(pv[v].size)
  BY <1>1, <1>2
<1> QED BY <1>2, <1>3 DEF QuotaOf

(* Type correctness of the controller service and of the publications.      *)
THEOREM TypeCorrect == Spec => []TypeOK
<1>1. IInv => TypeOK
  BY DEF IInv
<1> QED BY <1>1, Inductive, PTL

(* The quota of a directory, written by ControllerExpandVolume and by       *)
(* NodePublishVolume through SetQuota, covers the size of the PV object,    *)
(* whatever overlaps, fails, is given up or crashes, once a writer has      *)
(* finished alone and as long as none overlaps it.                          *)
THEOREM QuotaFollows == Spec => []QuotaCovers
BY Inductive, Covers, PTL

=============================================================================
