----------------------------- MODULE ActiveChain -----------------------------
(***************************************************************************)
(* Chain, the live view of the active chain: height, len(), chain[i],      *)
(* tip(), contains() and loops, each a few calls into the kernel, while    *)
(* process_block() in other threads moves the tip between those calls.     *)
(*                                                                         *)
(* A block is the path that leads to it: the sequence of branches taken    *)
(* from genesis, <<>>.  The active chain is the path to its tip, height is *)
(* its length, and the entry at height h is its prefix of length h.        *)
(* The kernel's choice of the active chain is by work, not by height: a    *)
(* chain that leaves a branch may be lower than the one it replaces.       *)
(***************************************************************************)
EXTENDS Integers, Sequences, SequencesExt

CONSTANTS
    Branches,     \* what tells the children of a block apart
    MaxHeight,    \* the highest chain
    Work,         \* the work of the chain to each block
    IndexError, KernelError,
    Yes, No, None

ASSUME HeightAssumption == MaxHeight \in Nat

Ops == {"item", "tip", "contains", "iter"}
Blocks == BoundedSeq(Branches, MaxHeight)
Replies == {IndexError, KernelError, Yes, No, None}
\* Every block adds work.
ASSUME WorkAssumption ==
    /\ Work \in [Blocks -> Nat]
    /\ \A a, b \in Blocks : IsStrictPrefix(a, b) => Work[a] < Work[b]

ASSUME RepliesAssumption == Replies \cap Blocks = {} /\ None \notin Ops

VARIABLES
    active,     \* the active chain
    op, pc,     \* the operation and how far it is
    index,      \* the index a subscript works on
    asked,      \* history: the index the caller gave
    entry,      \* the entry whose membership is asked
    result,     \* what the operation returned or raised
    collected,  \* what a loop has yielded
    seen        \* history: the active chains there were during the operation

vars == <<active, op, pc, index, asked, entry, result, collected, seen>>

PCs == {"idle", "subscript", "slot", "tip", "get", "contains"}

\* Type correctness: every variable of the model keeps to its type.
TypeOK ==
    /\ active \in Blocks
    /\ op \in Ops \cup {None}
    /\ pc \in PCs
    /\ index \in -(MaxHeight + 1)..(MaxHeight + 1)
    /\ asked \in -(MaxHeight + 1)..(MaxHeight + 1)
    /\ entry \in Blocks
    /\ result \in Blocks \cup Replies
    /\ collected \in Seq(Blocks)
    /\ seen \subseteq Blocks

Init ==
    /\ active = <<>>
    /\ op = None /\ pc = "idle"
    /\ index = 0 /\ asked = 0 /\ entry = <<>>
    /\ result = None
    /\ collected = <<>>
    /\ seen = {}

Height == Len(active)
EntryAt(h) == SubSeq(active, 1, h)

\* process_block() elsewhere: the kernel activates a chain with more work, one
\* that extends the active one or one, of any height, that leaves it.
ActivateBestChain(chain) ==
    /\ Work[chain] > Work[active]
    /\ active' = chain
    /\ seen' = IF pc = "idle" THEN seen ELSE seen \cup {chain}
    /\ UNCHANGED <<op, pc, index, asked, entry, result, collected>>

----------------------------------------------------------------------------
\* An operation is called.
Call(o, where, k, e) ==
    /\ pc = "idle"
    /\ op' = o /\ pc' = where
    /\ index' = k /\ asked' = k /\ entry' = e
    /\ result' = None
    /\ collected' = <<>>
    /\ seen' = {active}
    /\ UNCHANGED active

CallItem == \E k \in -(MaxHeight + 1)..(MaxHeight + 1) :
                Call("item", "subscript", k, <<>>)
CallIter == Call("iter", "subscript", 0, <<>>)
CallTip == Call("tip", "tip", 0, <<>>)
CallContains == \E e \in Blocks : Call("contains", "contains", 0, e)

Goto(where, k) ==
    /\ pc' = where
    /\ index' = k
    /\ UNCHANGED <<active, op, asked, entry, result, collected, seen>>

Answer(r) ==
    /\ pc' = "idle"
    /\ result' = r
    /\ UNCHANGED <<active, op, index, asked, entry, collected, seen>>

\* Mutant: the length is added twice.
SubscriptTwice ==
    /\ pc = "subscript"
    /\ Goto("slot", IF index < 0 THEN index + 2 * (Height + 1) ELSE index)

\* PySequence_GetItem(): Chain_length() for a negative index.
Subscript ==
    /\ pc = "subscript"
    /\ Goto("slot", IF index < 0 THEN index + Height + 1 ELSE index)

\* Mutant: the newest entry is out of range.
GetItemShort ==
    LET count == Height
        k == IF index < 0 THEN index + count ELSE index
    IN  /\ pc = "slot"
        /\ IF 0 <= k /\ k < count THEN Goto("get", k) ELSE Answer(IndexError)

\* Chain_getitem(): the height is read again and the index checked against it.
GetItem ==
    LET count == Height + 1
        k == IF index < 0 THEN index + count ELSE index
    IN  /\ pc = "slot"
        /\ IF 0 <= k /\ k < count THEN Goto("get", k) ELSE Answer(IndexError)

\* Mutant: tip() asks for the entry below the tip.
TipLow == pc = "tip" /\ Goto("get", IF Height = 0 THEN 0 ELSE Height - 1)

\* Chain_tip(): the height is read.
Tip == pc = "tip" /\ Goto("get", Height)

\* ... and the entry at that height, which the kernel may not have any more: then
\* it is NULL, and tip() raises another error than a subscript.  The entry ends
\* both; a loop yields it and goes on.
GetByHeight ==
    /\ pc = "get"
    /\ \/ /\ index > Height
          /\ Answer(IF op = "tip" THEN KernelError ELSE IndexError)
       \/ /\ index <= Height /\ op # "iter"
          /\ Answer(EntryAt(index))
       \/ /\ index <= Height /\ op = "iter"
          /\ pc' = "subscript"
          /\ index' = index + 1
          /\ collected' = Append(collected, EntryAt(index))
          /\ UNCHANGED <<active, op, asked, entry, result, seen>>

\* Mutant: an entry is taken for part of the chain when it is not higher.
ContainsByHeight == pc = "contains" /\ Answer(IF Len(entry) <= Height THEN Yes ELSE No)

\* Chain_contains().
ContainsEntry == pc = "contains" /\ Answer(IF IsPrefix(entry, active) THEN Yes ELSE No)

Next ==
    \/ \E chain \in Blocks : ActivateBestChain(chain)
    \/ CallItem \/ CallIter \/ CallTip \/ CallContains
    \/ Subscript \/ GetItem \/ Tip \/ GetByHeight \/ ContainsEntry

Spec == Init /\ [][Next]_vars

----------------------------------------------------------------------------
Answered(o) == pc = "idle" /\ op = o

Grew == \A a, b \in seen : IsPrefix(a, b) \/ IsPrefix(b, a)

----------------------------------------------------------------------------
(* The operations are atomic: ActiveChain implements AtomicChain.          *)

CountsFromTip == op = "tip" \/ (op = "item" /\ asked < 0)

\* The answer may be any: the chain left a branch while an operation that counts
\* from the tip ran, or there never was such a place.
Excused ==
    /\ CountsFromTip
    /\ ~Grew \/ \E chain \in seen : asked < -(Len(chain) + 1)

\* What counts from the tip is decided when the height has been read, the rest
\* when it returns.
Decided ==
    IF pc = "idle" THEN result
    ELSE IF pc \in {"slot", "get"} /\ CountsFromTip /\ ~Excused THEN EntryAt(index)
    ELSE None

Atomic == INSTANCE AtomicChain
            WITH chain <- active, pending <- (pc # "idle"), answer <- Decided,
                 yielded <- collected, excused <- Excused

\* Subscripts, tip(), contains() and each turn of a loop answer as if they were
\* one call into the kernel, however the chain moves between those they are,
\* except what counts from the tip while the chain leaves a branch.
AtomicSpec == Atomic!Spec

\* chain[k] is what it would have been at one moment of the call, however the
\* chain moved between the kernel calls: for that moment's active chain the entry
\* at height k, or at the k-th place from the tip, or IndexError when it is too
\* low.  A negative k is counted from a length of its own, so that after a reorg it
\* may be counted on one branch and looked up on another; and one below -len is
\* corrected twice, which no document promises anything about.
ItemsAreAtomic ==
    /\ Answered("item")
    /\ asked < 0 => Grew /\ \A chain \in seen : -asked <= Len(chain) + 1
    => \E chain \in seen :
           LET k == IF asked < 0 THEN asked + Len(chain) + 1 ELSE asked
           IN  result = IF k <= Len(chain) THEN SubSeq(chain, 1, k)
                                           ELSE IndexError

\* tip() reads its height from one chain of the call and its entry from that or a
\* later one.  So it fails only if the chain became lower meanwhile, and otherwise
\* gives an entry that was on the chain during the call and is as high as the tip
\* was at one moment of it.  (After a reorg it need not have been the tip; without
\* one it was: AtomicSpec.)
TipsAreCurrent ==
    Answered("tip") =>
        \E tip, chain \in seen :
            /\ Work[tip] <= Work[chain]
            /\ result = IF Len(tip) <= Len(chain) THEN SubSeq(chain, 1, Len(tip))
                                                 ELSE KernelError

\* contains() agrees with the chain at one moment of the call, and with
\* subscripts: an entry is contained iff chain[entry.height] is that entry.
ContainsAgreesWithItems ==
    Answered("contains") =>
        \E chain \in seen :
            result = IF Len(entry) <= Len(chain)
                           /\ SubSeq(chain, 1, Len(entry)) = entry
                       THEN Yes ELSE No

\* A subscript and contains() answer for one moment of the call, and with the
\* same chain at the same moment they cannot disagree.
AnswersAreAtomic == ItemsAreAtomic /\ ContainsAgreesWithItems

\* A loop over a chain that only grows yields an unbroken line of entries: the
\* heights from genesis up, each entry the prev of the next, at least to the tip
\* there was when it started.  (After a reorg it may jump between branches.)
LoopsFollowTheChain ==
    Answered("iter") /\ Grew =>
        /\ collected # <<>>
        /\ \A h \in DOMAIN collected : Len(collected[h]) = h - 1
        /\ \A h \in 1..(Len(collected) - 1) : collected[h] = Front(collected[h + 1])
        /\ \E chain \in seen : IsPrefix(chain, Last(collected))
=============================================================================
