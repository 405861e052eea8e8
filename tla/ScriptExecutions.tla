--------------------------- MODULE ScriptExecutions ---------------------------
(***************************************************************************)
(* ScriptTrace in debugger.py: the loop of the `executions` property, which *)
(* splits a stream of frames into groups, and the `error` property, which   *)
(* reads the groups.  A group is a set of frame numbers.                    *)
(***************************************************************************)
EXTENDS FrameGroups

CONSTANTS
    Errors,   \* the script errors a frame can carry
    OK        \* ScriptError.OK

ASSUME OkIsAnError == OK \in Errors

VARIABLES
    kinds,    \* the kinds of the frames, in order
    errors,   \* the script_error of each
    i,        \* the frames the loop has seen
    groups,   \* the groups it has made, in order
    current   \* whether a group is open (current is not None)

vars == <<kinds, errors, i, groups, current>>

\* Type correctness: every variable of the model keeps to its type.
TypeOK ==
    /\ kinds \in Seq(Kinds)
    /\ errors \in [1..Len(kinds) -> Errors]
    /\ i \in 0..Len(kinds)
    /\ groups \in Seq(SUBSET (1..Len(kinds)))
    /\ current \in BOOLEAN

InitWith(ks, es) ==
    /\ kinds = ks
    /\ errors = es
    /\ i = 0
    /\ groups = <<>>
    /\ current = FALSE

Init == \E ks \in Seq(Kinds) : \E es \in [1..Len(ks) -> Errors] : InitWith(ks, es)

\* Mutant: the newest group comes first.
OpenGroupFirst(f) == groups' = <<{f}>> \o groups

\* Mutant: frames are counted from 0 here and from 1 there.
AppendFrameShifted(f) == groups' = [groups EXCEPT ![Len(groups)] = @ \cup {f + 1}]

OpenGroup(f) == groups' = Append(groups, {f})
AppendFrame(f) == groups' = [groups EXCEPT ![Len(groups)] = @ \cup {f}]

\* Mutant: a stray frame between groups joins the group before it.
NextFrameKeepsCurrent ==
    LET f == i + 1
    IN  /\ i < Len(kinds)
        /\ i' = f
        /\ IF kinds[f] = "BEGIN" \/ groups = <<>> THEN OpenGroup(f)
                                                  ELSE AppendFrame(f)
        /\ current' = TRUE
        /\ UNCHANGED <<kinds, errors>>

\* One turn of the loop.
NextFrame ==
    LET f == i + 1
    IN  /\ i < Len(kinds)
        /\ i' = f
        /\ \/ (kinds[f] = "BEGIN" \/ ~current) /\ OpenGroup(f)
           \/ kinds[f] # "BEGIN" /\ current /\ AppendFrame(f)
        /\ current' = (kinds[f] # "END")
        /\ UNCHANGED <<kinds, errors>>

Next == NextFrame
Spec == Init /\ [][Next]_vars

----------------------------------------------------------------------------
(* ScriptExecution.begin, .end and .error, ScriptTrace.error.              *)

First(S) == CHOOSE j \in S : \A k \in S : j <= k
Last(S) == CHOOSE j \in S : \A k \in S : k <= j

Ends(g) == {j \in g : kinds[j] = "END"}

\* Mutant: the error is that of the last frame, whatever it is.
GroupErrorOfLast(g) == errors[Last(g)]

\* The error of the last END frame, OK when the group has none.
GroupError(g) == IF Ends(g) = {} THEN OK ELSE errors[Last(Ends(g))]

\* The first error any group reports.
TraceError ==
    LET failed == {k \in 1..Len(groups) : GroupError(groups[k]) # OK}
    IN  IF failed = {} THEN OK ELSE GroupError(groups[First(failed)])

----------------------------------------------------------------------------
Done == i = Len(kinds)

\* The loop makes exactly the executions of the frames it has seen: no frame is
\* lost or put in two groups, stray frames (before a BEGIN, after an END, a
\* BEGIN inside an unfinished group) included.
LoopMakesExecutions ==
    {groups[k] : k \in 1..Len(groups)} = Executions(SubSeq(kinds, 1, i))

\* The groups come in the order of their frames and each frame of one group
\* comes before every frame of the next.
GroupsAreInOrder ==
    \A j, k \in 1..Len(groups) :
        j < k => \A f \in groups[j], g \in groups[k] : f < g

\* A group has at most one BEGIN, its first frame, and at most one END, its
\* last: begin and end name the two frames of a ScriptExecution.
GroupsHaveOneBeginAndEnd ==
    \A k \in 1..Len(groups) : \A f, g \in groups[k] :
        f < g => kinds[g] # "BEGIN" /\ kinds[f] # "END"

\* What the debugger shows as one execution is one script's run, in its place:
\* the groups are ordered, and each has one beginning and one end at most.
GroupsAreExecutions == GroupsAreInOrder /\ GroupsHaveOneBeginAndEnd

\* error is that of the first END frame in the whole stream which has one, so
\* no group hides a failure and no STEP frame is taken for a verdict.
ErrorIsTheFirst ==
    Done =>
        LET failed == {j \in 1..Len(kinds) : kinds[j] = "END" /\ errors[j] # OK}
        IN  TraceError = IF failed = {} THEN OK ELSE errors[First(failed)]
=============================================================================
