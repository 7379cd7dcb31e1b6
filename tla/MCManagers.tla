----------------------------- MODULE MCManagers -----------------------------
(* A cluster with a mount pod and two applications, and one with a secret;  *)
(* the two parts share nothing but the process.                             *)
EXTENDS Managers

Still   == [writes |-> 0, issue |-> 0, fail |-> 0]
NoApps  == [apps |-> 0, delete |-> 0, lack |-> 0, csi |-> 0, fail |-> 0]

MCBudgets == {
    [watch |-> [apps |-> 2, delete |-> 0, lack |-> 0, csi |-> 1, fail |-> 0], refresh |-> Still, restart |-> 0],
    [watch |-> [apps |-> 2, delete |-> 1, lack |-> 0, csi |-> 0, fail |-> 0], refresh |-> Still, restart |-> 0],
    [watch |-> [apps |-> 1, delete |-> 2, lack |-> 0, csi |-> 1, fail |-> 0], refresh |-> Still, restart |-> 0],
    [watch |-> [apps |-> 1, delete |-> 1, lack |-> 0, csi |-> 1, fail |-> 1], refresh |-> Still, restart |-> 0],
    [watch |-> [apps |-> 1, delete |-> 1, lack |-> 0, csi |-> 2, fail |-> 0], refresh |-> Still, restart |-> 1],
    [watch |-> [apps |-> 1, delete |-> 1, lack |-> 1, csi |-> 0, fail |-> 0], refresh |-> Still, restart |-> 0],
    [watch |-> [apps |-> 1, delete |-> 0, lack |-> 1, csi |-> 1, fail |-> 1], refresh |-> Still, restart |-> 0],
    [watch |-> NoApps, refresh |-> [writes |-> 3, issue |-> 1, fail |-> 1], restart |-> 1]}

=============================================================================
