----------------------------- MODULE AtomicChain -----------------------------
(***************************************************************************)
(* What the view of a live chain promises: although an operation is several*)
(* calls into the kernel, each answers as if it were one, at a moment      *)
(* between its call and its return.  A loop is a series of such answers,   *)
(* one per turn.                                                           *)
(*                                                                         *)
(* Two operations are excused when the chain leaves a branch meanwhile,    *)
(* because they count from the tip: tip() and subscripts below 0.  So are  *)
(* subscripts below -len, of which nothing is promised.                    *)
(*                                                                         *)
(* ActiveChain implements this module: see AtomicSpec there.               *)
(***************************************************************************)
EXTENDS Integers, Sequences, SequencesExt

CONSTANTS Branches, MaxHeight, IndexError, KernelError, Yes, No, None

Ops == {"item", "tip", "contains", "iter"}
Blocks == BoundedSeq(Branches, MaxHeight)

VARIABLES
    chain,      \* the active chain
    op,         \* the operation, and its argument:
    asked,      \* an index
    entry,      \* or an entry
    pending,    \* it has not returned
    answer,     \* its answer, once it is decided
    yielded,    \* the answers of a loop
    excused     \* its answer may be any

vars == <<chain, op, asked, entry, pending, answer, yielded, excused>>

Init ==
    /\ chain = <<>>
    /\ op = None /\ asked = 0 /\ entry = <<>>
    /\ pending = FALSE
    /\ answer = None
    /\ yielded = <<>>
    /\ excused = FALSE

EntryAt(h) == SubSeq(chain, 1, h)
CountsFromTip == op = "tip" \/ (op = "item" /\ asked < 0)

\* The chain grows, or leaves a branch for another, which may be lower; it never
\* just loses blocks.
Move(other) ==
    /\ ~IsPrefix(other, chain)
    /\ chain' = other
    /\ IF pending /\ CountsFromTip /\ ~IsPrefix(chain, other)
         THEN excused' = TRUE /\ answer' = None
         ELSE UNCHANGED <<excused, answer>>
    /\ UNCHANGED <<op, asked, entry, pending, yielded>>

Call(o, k, e) ==
    /\ ~pending
    /\ op' = o /\ asked' = k /\ entry' = e
    /\ pending' = TRUE
    /\ answer' = None
    /\ yielded' = <<>>
    /\ excused' = (o = "item" /\ k < -(Len(chain) + 1))
    /\ UNCHANGED chain

\* The entry is not on the chain any more.
NotThere == IF op = "tip" THEN KernelError ELSE IndexError

\* The answer of this moment.
Item ==
    LET k == IF asked < 0 THEN asked + Len(chain) + 1 ELSE asked
    IN  IF k <= Len(chain) THEN EntryAt(k) ELSE IndexError

Membership ==
    IF Len(entry) <= Len(chain) /\ EntryAt(Len(entry)) = entry THEN Yes ELSE No

Exact ==
    CASE op = "item" -> Item
      [] op = "tip" -> chain
      [] op = "contains" -> Membership
      [] op = "iter" -> IndexError

\* A loop ends above the tip, as its subscript does.
Decidable == op = "iter" => Len(yielded) > Len(chain)

Decide ==
    /\ pending /\ answer = None /\ ~excused
    /\ Decidable
    /\ answer' = Exact
    /\ UNCHANGED <<chain, op, asked, entry, pending, yielded, excused>>

Yield ==
    /\ pending /\ op = "iter"
    /\ Len(yielded) <= Len(chain)
    /\ yielded' = Append(yielded, EntryAt(Len(yielded)))
    /\ UNCHANGED <<chain, op, asked, entry, pending, answer, excused>>

Return ==
    /\ pending
    /\ pending' = FALSE
    /\ \/ answer # None /\ answer' = answer
       \/ answer = None /\ ~excused /\ Decidable /\ answer' = Exact
       \/ excused /\ answer' \in Blocks \cup {NotThere}
    /\ UNCHANGED <<chain, op, asked, entry, yielded, excused>>

Next ==
    \/ \E other \in Blocks : Move(other)
    \/ \E o \in Ops, k \in -(MaxHeight + 1)..(MaxHeight + 1), e \in Blocks :
          Call(o, k, e)
    \/ Decide \/ Yield \/ Return

Spec == Init /\ [][Next]_vars
=============================================================================
