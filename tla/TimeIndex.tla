----------------------------- MODULE TimeIndex -----------------------------
(***************************************************************************)
(* timeOrderedIndexes of the dashboard: a list of object names that is to  *)
(* be in the order of creation, the oldest first, and the pages that the   *)
(* list handlers cut from it.  store is what the informer's cache holds: a *)
(* function from names to records with uid and born (the creation time, in *)
(* seconds), or to a record with uid 0 for a name that is not there.       *)
(***************************************************************************)
EXTENDS Integers, Sequences, FiniteSets, SequencesExt

Alive(store, name) == store[name].uid # 0

(* Seeded fault: the walk stops at an object of the same age.               *)
StopsAtSame(list, store, obj, i) ==
    \/ ~Alive(store, list[i])
    \/ store[list[i]].uid = obj.uid
    \/ store[list[i]].born <= obj.born

(* Where addIndex stops on its way from the back to the front.              *)
StopsAt(list, store, obj, i) ==
    \/ ~Alive(store, list[i])
    \/ store[list[i]].uid = obj.uid
    \/ store[list[i]].born < obj.born

(* An entry without object is removed; Remove clears the links of the       *)
(* element, so that the walk ends with it and the name goes to the front.   *)
addIndex(list, store, name, obj) ==
    LET stops == {i \in 1..Len(list) : StopsAt(list, store, obj, i)}
        at    == CHOOSE i \in stops : \A j \in stops : j <= i
    IN  IF stops = {} THEN <<name>> \o list
        ELSE IF ~Alive(store, list[at]) THEN <<name>> \o RemoveAt(list, at)
        ELSE IF store[list[at]].uid = obj.uid THEN list
        ELSE InsertAt(list, at + 1, name)

(* The first entry of that name.                                            *)
removeIndex(list, name) == RemoveFirst(list, name)

(* The entries of a list that are in a set.                                 *)
KeepIn(list, S) ==
    LET kept[i \in 0..Len(list)] ==
            IF i = 0 THEN <<>>
            ELSE kept[i - 1] \o (IF list[i] \in S THEN <<list[i]>> ELSE <<>>)
    IN  kept[Len(list)]

(* iterate, and what the handlers keep of it.                               *)
Listing(list, store, descend) ==
    LET there == KeepIn(list, {name \in ToSet(list) : Alive(store, name)})
    IN  IF descend THEN Reverse(there) ELSE there

(* Page number current, from 1, of a listing.                               *)
Page(all, pageSize, current) ==
    LET start == (current - 1) * pageSize
        end   == start + pageSize
    IN  IF start >= Len(all) THEN <<>>
        ELSE SubSeq(all, start + 1, IF end > Len(all) THEN Len(all) ELSE end)

-----------------------------------------------------------------------------
(* Of two entries that are there the earlier one is not younger, and is     *)
(* another one.                                                             *)
InOrder(list, store) ==
    \A i, j \in 1..Len(list) :
        i < j /\ Alive(store, list[i]) /\ Alive(store, list[j]) =>
            list[i] # list[j] /\ store[list[i]].born <= store[list[j]].born

(* Lists put together.                                                      *)
Joined(lists) ==
    LET upTo[i \in 0..Len(lists)] == IF i = 0 THEN <<>> ELSE upTo[i - 1] \o lists[i]
    IN  upTo[Len(lists)]

(* The pages of every size put together are what is to be shown.            *)
PagesComplete(shown, total, page(_, _)) ==
    \A size \in 1..(total + 1) :
        Joined([current \in 1..(total + 1) |-> page(size, current)]) = shown

=============================================================================
