-------------------------- MODULE MCScriptExecutions --------------------------
(* The loop of ScriptTrace.executions on every stream of up to MaxFrames      *)
(* frames.                                                                    *)
EXTENDS ScriptExecutions

CONSTANT MaxFrames

MCInit ==
    \E n \in 0..MaxFrames :
        \E ks \in [1..n -> Kinds], es \in [1..n -> Errors] : InitWith(ks, es)

MCSpec == MCInit /\ [][Next]_vars
=============================================================================
