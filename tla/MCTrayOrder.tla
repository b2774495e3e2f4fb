---------------------------- MODULE MCTrayOrder ----------------------------
(* The constants are given in the configurations.                           *)
EXTENDS TrayOrder
=============================================================================
