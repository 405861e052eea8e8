----------------------------- MODULE FrameGroups -----------------------------
(* How a stream of trace frames divides into script executions: what the      *)
(* loop of ScriptTrace.executions computes, without the loop.                 *)
EXTENDS Naturals, Sequences

Kinds == {"BEGIN", "STEP", "END"}

\* Mutant: an END frame is taken for the start of the next group.
StartsAtEnd(kinds) ==
    {j \in DOMAIN kinds : kinds[j] \in {"BEGIN", "END"} \/ j = 1}

\* A group starts at a BEGIN frame, at the first frame of all, and at whatever
\* follows an END frame.
Starts(kinds) ==
    {j \in DOMAIN kinds : \/ kinds[j] = "BEGIN"
                          \/ j = 1
                          \/ kinds[j - 1] = "END"}

\* The execution that starts at a goes on to the next start.
Execution(kinds, a) ==
    {k \in DOMAIN kinds : k >= a /\ (a + 1)..k \cap Starts(kinds) = {}}

Executions(kinds) == {Execution(kinds, a) : a \in Starts(kinds)}
=============================================================================
