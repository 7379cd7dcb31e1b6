------------------------ MODULE MCControllerService ------------------------
(* One volume, two calls at once, one node.                                 *)
EXTENDS ControllerService

CONSTANTS v1, c1, c2, n1

=============================================================================
