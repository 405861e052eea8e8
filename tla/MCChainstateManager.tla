------------------------- MODULE MCChainstateManager -------------------------
(* Small instances of ChainstateManager for TLC.  A liveness property is     *)
(* among the properties of its passing run, so symmetry is not used.         *)
EXTENDS ChainstateManager, TLC
=============================================================================
