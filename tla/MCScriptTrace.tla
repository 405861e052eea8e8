---------------------------- MODULE MCScriptTrace ----------------------------
(* ScriptTrace on a small instance.                                           *)
EXTENDS ScriptTrace, TLC

Symmetry == Permutations(Threads) \cup Permutations(Tracers)
                \cup Permutations(Scripts)
=============================================================================
