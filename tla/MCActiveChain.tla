---------------------------- MODULE MCActiveChain ----------------------------
(* ActiveChain on a small tree of blocks.  A branch is the work of its block: *)
(* a block after a retarget may be worth several before it, so that a lower   *)
(* chain replaces a higher one.                                               *)
EXTENDS ActiveChain

TotalWork ==
    [chain \in Blocks |-> FoldSeq(LAMBDA block, work : work + block, 0, chain)]

\* The bound: how often the chain moves during an operation.
CONSTANT MaxMoves
FewMoves == Cardinality(seen) <= MaxMoves + 1
=============================================================================
