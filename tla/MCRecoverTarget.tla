-------------------------- MODULE MCRecoverTarget --------------------------
(* The instances of RecoverTarget that TLC checks: the constants are given  *)
(* in the configurations.                                                   *)
EXTENDS RecoverTarget
=============================================================================
