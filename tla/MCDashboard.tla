---------------------------- MODULE MCDashboard ----------------------------
(* Two names of application pods, two of CSI node pods and one of a mount   *)
(* pod, a volume and a claim; each may be used again for another object.    *)
EXTENDS Dashboard

CONSTANTS a1, a2, s1, s2, m1, v1, c1

Pending1 == [k \in {"pod", "pv", "pvc"} |-> IF k = "pod" THEN 2 ELSE 1]

Names == Permutations({a1, a2}) \cup Permutations({s1, s2})

=============================================================================
