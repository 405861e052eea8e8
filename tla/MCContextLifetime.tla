-------------------------- MODULE MCContextLifetime --------------------------
(* ContextLifetime on a small instance.  Threads, contexts, handlers and      *)
(* registrations are interchangeable.                                         *)
EXTENDS ContextLifetime, TLC

Symmetry == Permutations(Threads) \cup Permutations(Contexts)
                \cup Permutations(Handlers) \cup Permutations(Regs)
                \cup Permutations(Slots)
=============================================================================
