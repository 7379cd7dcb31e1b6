---------------------------- MODULE MCProvision ----------------------------
(* Volumes of one storage class and one secret; v1 and v2 have directories  *)
(* of their own, or share one.                                              *)
EXTENDS Provision, TLC

CONSTANTS v1, v2, v3, d1, d2, s1

MCOwnPath    == v1 :> d1 @@ v2 :> d2
MCSharedPath == [v \in Vols |-> IF v = v3 THEN d2 ELSE d1]
MCSecretOf   == [v \in Vols |-> s1]
MCDelete     == [v \in Vols |-> "Delete"]
MCRetain     == v1 :> "Delete" @@ v2 :> "Retain"

(* v1 and v2 can be exchanged when they share everything.                   *)
MCAlike == Permutations({v1, v2})

=============================================================================
