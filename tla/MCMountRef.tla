----------------------------- MODULE MCMountRef -----------------------------
(* Instances of MountRef for TLC. *)
EXTENDS MountRef, TLC

(* All pod names, the empty one too, share one lock of the array.           *)
OneStripe == {1}
SameLock == [p \in PodNames \cup {NoName} |-> 1]


Symmetry == Permutations(Targets) \cup Permutations(PodNames)
=============================================================================
