--------------------------- MODULE ActiveChainProofs ---------------------------
(***************************************************************************)
(* The view of the active chain, for chains of any height and any number   *)
(* of reorganisations during a call.                                       *)
(*                                                                         *)
(* The chain gets more work with every change.  So, as long as nothing was *)
(* reorganised, every chain of a call is a prefix of the active one: a     *)
(* height that was in range stays in range, and under it there are the     *)
(* same entries.  After a reorganisation the height may be out of range,   *)
(* and the call says so.                                                   *)
(***************************************************************************)
EXTENDS ActiveChain, SequenceTheorems, TLAPS

Operating == pc # "idle"
InRange == \A chain \in seen : -asked <= Len(chain) + 1

\* The steps belong to their operations, and what is looked up was in range.
StepInv ==
    /\ pc \in {"subscript", "slot"} => op \in {"item", "iter"}
    /\ pc = "get" => op \in {"item", "iter", "tip"} /\ index \in 0..MaxHeight
    /\ pc = "tip" => op = "tip"
    /\ pc = "contains" => op = "contains"
    /\ pc = "idle" /\ op # None => seen # {}
    /\ op = "tip" => asked = 0

\* The active chain is the one of the call with the most work.
SeenInv ==
    Operating => active \in seen /\ \A c \in seen : Work[c] <= Work[active]

\* A subscript works on the index it was given, counted from the length of a
\* chain there was.
ItemInv ==
    op = "item" =>
        /\ pc = "subscript" => index = asked
        /\ pc \in {"slot", "get"} /\ asked >= 0 => index = asked
        /\ pc \in {"slot", "get"} /\ asked < 0 /\ Grew /\ InRange =>
              \E c \in seen : index = asked + Len(c) + 1

\* tip() looks up a height that was the tip's.
TipInv == pc = "get" /\ op = "tip" => \E tip \in seen : index = Len(tip)

\* A loop has yielded the entries below its index, those of the active chain if
\* nothing was reorganised.
LoopInv ==
    op = "iter" /\ Operating =>
        /\ index = Len(collected)
        /\ \A h \in 1..Len(collected) : Len(collected[h]) = h - 1
        /\ Grew => /\ index <= Height + 1
                   /\ \A h \in 1..Len(collected) : collected[h] = EntryAt(h - 1)

AnswerInv ==
    /\ ItemsAreAtomic
    /\ ContainsAgreesWithItems
    /\ TipsAreCurrent
    /\ LoopsFollowTheChain

IInv == TypeOK /\ StepInv /\ SeenInv /\ ItemInv /\ TipInv /\ LoopInv /\ AnswerInv

----------------------------------------------------------------------------
(***************************************************************************)
(* Blocks are sequences of bounded length, and their prefixes are blocks.  *)
(***************************************************************************)
LEMMA BlocksAreSeqs ==
  ASSUME NEW s
  PROVE  s \in Blocks <=> s \in Seq(Branches) /\ Len(s) <= MaxHeight
  <1> USE HeightAssumption
  <1>1. s \in Blocks <=> \E m \in 0..MaxHeight : s \in [1..m -> Branches]
    BY DEF Blocks, BoundedSeq, SeqOf
  <1>2. ASSUME NEW m \in 0..MaxHeight, s \in [1..m -> Branches]
        PROVE  s \in Seq(Branches) /\ Len(s) <= MaxHeight
    BY <1>2
  <1>3. ASSUME s \in Seq(Branches), Len(s) <= MaxHeight
        PROVE  \E m \in 0..MaxHeight : s \in [1..m -> Branches]
    BY <1>3
  <1> QED
    BY <1>1, <1>2, <1>3

LEMMA PrefixBlocks ==
  ASSUME NEW s \in Blocks, NEW h \in 0..Len(s)
  PROVE  /\ SubSeq(s, 1, h) \in Blocks
         /\ SubSeq(s, 1, h) \in Seq(Branches)
         /\ Len(SubSeq(s, 1, h)) = h
         /\ \A i \in 1..h : SubSeq(s, 1, h)[i] = s[i]
  <1>1. s \in Seq(Branches) /\ Len(s) <= MaxHeight /\ Len(s) \in Nat /\ MaxHeight \in Nat
    BY BlocksAreSeqs, HeightAssumption
  <1>2. SubSeq(s, 1, h) \in Seq(Branches) /\ Len(SubSeq(s, 1, h)) = h
    BY <1>1, SubSeqProperties
  <1>3. \A i \in 1..h : SubSeq(s, 1, h)[i] = s[i]
    BY <1>1
  <1>4. Len(SubSeq(s, 1, h)) <= MaxHeight
    BY <1>1, <1>2
  <1>5. SubSeq(s, 1, h) \in Blocks
    BY <1>2, <1>4, BlocksAreSeqs
  <1> QED
    BY <1>2, <1>3, <1>5

\* A prefix of a prefix.
LEMMA ShorterPrefixes ==
  ASSUME NEW s \in Blocks, NEW h \in 0..Len(s), NEW k \in 0..h
  PROVE  SubSeq(SubSeq(s, 1, h), 1, k) = SubSeq(s, 1, k)
  <1> DEFINE p == SubSeq(s, 1, h)
  <1>1. s \in Seq(Branches) /\ Len(s) \in Nat
    BY BlocksAreSeqs
  <1>2. p \in Blocks /\ Len(p) = h /\ \A i \in 1..h : p[i] = s[i]
    BY PrefixBlocks
  <1> HIDE DEF p
  <1>3. k \in 0..Len(s) /\ k \in 0..Len(p)
    BY <1>1, <1>2
  <1>4. /\ SubSeq(p, 1, k) \in Seq(Branches)
        /\ Len(SubSeq(p, 1, k)) = k
        /\ \A i \in 1..k : SubSeq(p, 1, k)[i] = p[i]
    BY <1>2, <1>3, PrefixBlocks
  <1>5. /\ SubSeq(s, 1, k) \in Seq(Branches)
        /\ Len(SubSeq(s, 1, k)) = k
        /\ \A i \in 1..k : SubSeq(s, 1, k)[i] = s[i]
    BY <1>3, PrefixBlocks
  <1>6. \A i \in 1..k : SubSeq(p, 1, k)[i] = SubSeq(s, 1, k)[i]
    BY <1>2, <1>4, <1>5
  <1>7. SubSeq(p, 1, k) = SubSeq(s, 1, k)
    BY <1>4, <1>5, <1>6
  <1> QED
    BY <1>7 DEF p

LEMMA WholeSeqs ==
  ASSUME NEW s \in Blocks
  PROVE  SubSeq(s, 1, Len(s)) = s
  BY BlocksAreSeqs, SubSeqFull

\* Of two chains of one line, the shorter is a prefix of the longer.
LEMMA OneLine ==
  ASSUME NEW s \in Blocks, NEW t \in Blocks, Len(s) <= Len(t),
         IsPrefix(s, t) \/ IsPrefix(t, s),
         NEW h \in 0..Len(s)
  PROVE  SubSeq(s, 1, h) = SubSeq(t, 1, h)
  <1>1. Len(s) \in Nat /\ Len(t) \in Nat
    BY BlocksAreSeqs
  <1>2. SubSeq(s, 1, Len(s)) = SubSeq(t, 1, Len(s))
    BY <1>1 DEF IsPrefix
  <1>3. h \in 0..Len(t) /\ Len(s) \in 0..Len(s) /\ Len(s) \in 0..Len(t)
    BY <1>1
  <1>4. SubSeq(SubSeq(s, 1, Len(s)), 1, h) = SubSeq(s, 1, h)
    BY <1>3, ShorterPrefixes
  <1>5. SubSeq(SubSeq(t, 1, Len(s)), 1, h) = SubSeq(t, 1, h)
    BY <1>3, ShorterPrefixes
  <1> QED
    BY <1>2, <1>4, <1>5

\* Of two chains of one line, the one with less work is a prefix of the other.
LEMMA MoreWork ==
  ASSUME NEW s \in Blocks, NEW t \in Blocks, Work[s] <= Work[t],
         IsPrefix(s, t) \/ IsPrefix(t, s)
  PROVE  IsPrefix(s, t) /\ Len(s) <= Len(t)
  <1>1. /\ s \in Seq(Branches) /\ t \in Seq(Branches)
        /\ Len(s) \in Nat /\ Len(t) \in Nat
        /\ SubSeq(s, 1, Len(s)) = s
        /\ Work[s] \in Nat /\ Work[t] \in Nat
    BY BlocksAreSeqs, WholeSeqs, WorkAssumption
  <1>2. IsPrefix(s, s) /\ (IsPrefix(s, t) => Len(s) <= Len(t))
    BY <1>1 DEF IsPrefix
  <1>3. ASSUME s # t, IsPrefix(t, s)  PROVE FALSE
    <2>1. IsStrictPrefix(t, s)
      BY <1>3 DEF IsStrictPrefix
    <2>2. Work[t] < Work[s]
      BY <2>1, WorkAssumption
    <2> QED
      BY <1>1, <2>2
  <1> QED
    BY <1>2, <1>3

\* A call during which nothing was reorganised has seen prefixes of the active
\* chain.
LEMMA SeenPrefixes ==
  ASSUME TypeOK, SeenInv, Operating, Grew, NEW c \in seen
  PROVE  /\ c \in Blocks /\ Len(c) \in Nat /\ Len(c) <= Height
         /\ IsPrefix(c, active)
  <1>1. /\ c \in Blocks /\ active \in Blocks /\ active \in seen
        /\ Work[c] <= Work[active]
    BY DEF TypeOK, SeenInv
  <1>2. IsPrefix(c, active) \/ IsPrefix(active, c)
    BY <1>1 DEF Grew
  <1>3. IsPrefix(c, active) /\ Len(c) <= Len(active)
    BY <1>1, <1>2, MoreWork
  <1>4. Len(c) \in Nat
    BY <1>1, BlocksAreSeqs
  <1> QED
    BY <1>1, <1>3, <1>4 DEF Height

LEMMA EmptyBlock == <<>> \in Blocks /\ Len(<<>>) = 0
  <1>1. <<>> \in Seq(Branches) /\ Len(<<>>) = 0 /\ 0 <= MaxHeight
    BY HeightAssumption
  <1> QED
    BY <1>1, BlocksAreSeqs

----------------------------------------------------------------------------
LEMMA InvariantInit == Init => IInv
  <1> SUFFICES ASSUME Init  PROVE IInv
    OBVIOUS
  <1> USE DEF Init
  <1>1. TypeOK
    <2>1. 0 \in -(MaxHeight + 1)..(MaxHeight + 1)
      BY HeightAssumption
    <2> QED
      BY <2>1, EmptyBlock DEF TypeOK, Replies, PCs
  <1>2. None \notin Ops
    BY RepliesAssumption
  <1>3. op \notin {"item", "tip", "contains", "iter"}
    BY <1>2 DEF Ops
  <1>4. StepInv /\ SeenInv /\ ItemInv /\ TipInv /\ LoopInv
    BY <1>3 DEF StepInv, SeenInv, ItemInv, TipInv, LoopInv, Operating
  <1>5. AnswerInv
    BY <1>3 DEF AnswerInv, ItemsAreAtomic, ContainsAgreesWithItems, TipsAreCurrent,
          LoopsFollowTheChain, Answered
  <1> QED
    BY <1>1, <1>4, <1>5 DEF IInv

\* An operation that has not returned promises nothing yet.
LEMMA NotAnswered ==
  ASSUME Operating'
  PROVE  AnswerInv'
  BY DEF Operating, AnswerInv, ItemsAreAtomic, ContainsAgreesWithItems, TipsAreCurrent,
      LoopsFollowTheChain, Answered

LEMMA ActivateStep ==
  ASSUME IInv, NEW chain \in Blocks, ActivateBestChain(chain)
  PROVE  IInv'
  <1> USE DEF IInv, Height, EntryAt
  <1>1. /\ active \in Blocks /\ seen \subseteq Blocks /\ Len(active) \in Nat /\ Len(chain) \in Nat
        /\ Work[active] < Work[chain] /\ active' = chain
        /\ UNCHANGED <<op, pc, index, asked, entry, result, collected>>
        /\ index \in Int /\ collected \in Seq(Blocks)
        /\ \A c \in Blocks : Work[c] \in Nat
    BY BlocksAreSeqs, HeightAssumption, WorkAssumption DEF ActivateBestChain, TypeOK
  <1>2. seen \subseteq seen' /\ seen' \subseteq Blocks /\ seen' \subseteq seen \cup {chain}
        /\ (Operating => chain \in seen')
        /\ (~Operating => seen' = seen)
    BY <1>1 DEF ActivateBestChain, Operating
  <1>3. TypeOK'
    BY <1>1, <1>2 DEF TypeOK
  <1>4. StepInv'
    BY <1>1, <1>2 DEF StepInv
  <1>5. InRange' => InRange
    BY <1>1, <1>2 DEF InRange
  <1>6. Grew' => Grew
    BY <1>2 DEF Grew
  <1>7. SeenInv'
    <2> SUFFICES ASSUME Operating  PROVE SeenInv'
      BY <1>1 DEF SeenInv, Operating
    <2>1. \A c \in seen : Work[c] <= Work[chain]
      BY <1>1 DEF SeenInv
    <2> QED
      BY <1>1, <1>2, <2>1 DEF SeenInv
  <1>8. ItemInv' /\ TipInv'
    BY <1>1, <1>2, <1>5, <1>6 DEF ItemInv, TipInv
  <1>9. LoopInv'
    <2> SUFFICES ASSUME op = "iter", Operating  PROVE LoopInv'
      BY <1>1 DEF LoopInv, Operating
    <2>1. /\ index = Len(collected)
          /\ \A h \in 1..Len(collected) : Len(collected[h]) = h - 1
          /\ Grew => /\ index <= Len(active) + 1
                     /\ \A h \in 1..Len(collected) : collected[h] = SubSeq(active, 1, h - 1)
      BY DEF LoopInv
    <2>2. ASSUME Grew'
          PROVE  /\ index <= Len(chain) + 1
                 /\ \A h \in 1..Len(collected) : collected[h] = SubSeq(chain, 1, h - 1)
      <3>1. active \in seen' /\ chain \in seen'
        BY <1>2 DEF SeenInv
      <3>2. IsPrefix(active, chain) \/ IsPrefix(chain, active)
        BY <2>2, <3>1 DEF Grew
      <3>3. Len(active) <= Len(chain)
        BY <1>1, <3>2, MoreWork
      <3>4. index <= Len(active) + 1
        BY <1>6, <2>1, <2>2
      <3>5. ASSUME NEW h \in 1..Len(collected)
            PROVE  collected[h] = SubSeq(chain, 1, h - 1)
        <4>1. h - 1 \in 0..Len(active)
          BY <1>1, <2>1, <3>4
        <4>2. SubSeq(active, 1, h - 1) = SubSeq(chain, 1, h - 1)
          BY <1>1, <3>2, <3>3, <4>1, OneLine
        <4> QED
          BY <1>6, <2>1, <2>2, <4>2
      <3> QED
        BY <1>1, <3>3, <3>4, <3>5
    <2> QED
      BY <1>1, <2>1, <2>2 DEF LoopInv
  <1>10. AnswerInv'
    <2>1. CASE Operating
      BY <1>1, <2>1, NotAnswered DEF Operating
    <2>2. CASE ~Operating
      BY <1>1, <1>2, <2>2 DEF AnswerInv, ItemsAreAtomic, ContainsAgreesWithItems,
          TipsAreCurrent, LoopsFollowTheChain, Answered, Grew
    <2> QED
      BY <2>1, <2>2
  <1> QED
    BY <1>3, <1>4, <1>7, <1>8, <1>9, <1>10

LEMMA CallStep ==
  ASSUME IInv, CallItem \/ CallIter \/ CallTip \/ CallContains
  PROVE  IInv'
  <1> USE DEF IInv
  <1>1. PICK o \in Ops, w \in PCs, k \in -(MaxHeight + 1)..(MaxHeight + 1), e \in Blocks :
            /\ Call(o, w, k, e)
            /\ \/ o = "item" /\ w = "subscript"
               \/ o = "iter" /\ w = "subscript" /\ k = 0
               \/ o = "tip" /\ w = "tip" /\ k = 0
               \/ o = "contains" /\ w = "contains"
    <2>1. 0 \in -(MaxHeight + 1)..(MaxHeight + 1)
      BY HeightAssumption
    <2>2. {"item", "tip", "contains", "iter"} \subseteq Ops
          /\ {"subscript", "tip", "contains"} \subseteq PCs
      BY DEF Ops, PCs
    <2>3. CASE CallItem
      BY <2>2, <2>3, EmptyBlock DEF CallItem
    <2>4. CASE CallIter
      BY <2>1, <2>2, <2>4, EmptyBlock DEF CallIter
    <2>5. CASE CallTip
      BY <2>1, <2>2, <2>5, EmptyBlock DEF CallTip
    <2>6. CASE CallContains
      BY <2>1, <2>2, <2>6 DEF CallContains
    <2> QED
      BY <2>3, <2>4, <2>5, <2>6
  <1>2. /\ op' = o /\ pc' = w /\ index' = k /\ asked' = k /\ entry' = e /\ result' = None
        /\ collected' = <<>> /\ seen' = {active} /\ active' = active
    BY <1>1 DEF Call
  <1>3. active \in Blocks /\ Len(active) \in Nat
    BY BlocksAreSeqs DEF TypeOK
  <1>4. TypeOK'
    BY <1>2, <1>3 DEF TypeOK, Replies
  <1>5. StepInv' /\ SeenInv' /\ ItemInv' /\ TipInv'
    <2>1. Work[active] <= Work[active]
      BY <1>3, WorkAssumption
    <2> QED
      BY <1>1, <1>2, <2>1 DEF StepInv, SeenInv, ItemInv, TipInv
  <1>6. LoopInv'
    BY <1>1, <1>2, <1>3 DEF LoopInv, Operating, Height
  <1>7. Operating'
    BY <1>1, <1>2 DEF Operating
  <1> QED
    BY <1>4, <1>5, <1>6, <1>7, NotAnswered

----------------------------------------------------------------------------
\* Corrected once, a negative index counts from the end of the chain there is.
LEMMA SubscriptStep == ASSUME IInv, Subscript  PROVE IInv'
  <1> USE DEF IInv, Height
  <1>1. /\ active \in Blocks /\ Len(active) \in Nat /\ Len(active) <= MaxHeight
        /\ MaxHeight \in Nat /\ index \in -(MaxHeight + 1)..(MaxHeight + 1)
        /\ pc = "subscript" /\ pc' = "slot" /\ op \in {"item", "iter"}
        /\ active \in seen
        /\ UNCHANGED <<active, op, asked, entry, result, collected, seen>>
    BY BlocksAreSeqs, HeightAssumption
    DEF Subscript, Goto, TypeOK, StepInv, SeenInv, Operating
  <1>2. index' = IF index < 0 THEN index + Len(active) + 1 ELSE index
    BY DEF Subscript, Goto
  <1>3. TypeOK'
    <2>1. index' \in -(MaxHeight + 1)..(MaxHeight + 1)
      BY <1>1, <1>2
    <2> QED
      BY <1>1, <2>1 DEF TypeOK, PCs
  <1>4. StepInv' /\ SeenInv' /\ TipInv'
    BY <1>1 DEF StepInv, SeenInv, TipInv, Operating
  <1>5. ItemInv'
    <2>1. op = "item" => index = asked
      BY <1>1 DEF ItemInv
    <2>2. op = "item" /\ asked >= 0 => index' = asked
      BY <1>1, <1>2, <2>1
    <2>3. op = "item" /\ asked < 0 => index' = asked + Len(active) + 1
      BY <1>1, <1>2, <2>1
    <2> QED
      BY <1>1, <2>2, <2>3 DEF ItemInv
  <1>6. LoopInv'
    BY <1>1, <1>2 DEF LoopInv, Operating, Grew, EntryAt
  <1> QED
    BY <1>1, <1>3, <1>4, <1>5, <1>6, NotAnswered DEF Operating

\* A loop that ends above the tip has yielded the active chain, if nothing was
\* reorganised.
LEMMA LoopEnds ==
  ASSUME IInv, op = "iter", Operating, Grew, index > Height
  PROVE  /\ collected # <<>>
         /\ \A h \in DOMAIN collected : Len(collected[h]) = h - 1
         /\ \A h \in 1..(Len(collected) - 1) : collected[h] = Front(collected[h + 1])
         /\ active \in seen /\ IsPrefix(active, Last(collected))
  <1> USE DEF IInv, Height, EntryAt
  <1>1. /\ active \in Blocks /\ Len(active) \in Nat /\ collected \in Seq(Blocks)
        /\ active \in seen
        /\ Len(collected) = Len(active) + 1
        /\ \A h \in 1..Len(collected) : Len(collected[h]) = h - 1
        /\ \A h \in 1..Len(collected) : collected[h] = SubSeq(active, 1, h - 1)
    BY BlocksAreSeqs DEF TypeOK, LoopInv, SeenInv
  <1>2. DOMAIN collected = 1..Len(collected) /\ collected # <<>>
    BY <1>1 DEF TypeOK
  <1>3. ASSUME NEW h \in 1..(Len(collected) - 1)
        PROVE  collected[h] = Front(collected[h + 1])
    <2> DEFINE next == collected[h + 1]
    <2>1. /\ h \in 1..Len(collected) /\ h + 1 \in 1..Len(collected) /\ (h + 1) - 1 = h
          /\ h \in 0..Len(active) /\ h - 1 \in 0..h
      BY <1>1
    <2>2. next = SubSeq(active, 1, h) /\ Len(next) = h
          /\ collected[h] = SubSeq(active, 1, h - 1)
      BY <1>1, <2>1
    <2>3. SubSeq(next, 1, h - 1) = SubSeq(active, 1, h - 1)
      BY <1>1, <2>1, <2>2, ShorterPrefixes
    <2> QED
      BY <2>2, <2>3 DEF Front
  <1>4. Last(collected) = active
    <2>1. Len(collected) \in 1..Len(collected) /\ Len(collected) - 1 = Len(active)
      BY <1>1
    <2>2. collected[Len(collected)] = SubSeq(active, 1, Len(active))
      BY <1>1, <2>1
    <2> QED
      BY <1>1, <2>2, WholeSeqs DEF Last
  <1>5. IsPrefix(active, Last(collected))
    BY <1>1, <1>4 DEF IsPrefix
  <1> QED
    BY <1>1, <1>2, <1>3, <1>5

LEMMA GetItemStep == ASSUME IInv, GetItem  PROVE IInv'
  <1> USE DEF IInv, Height
  <1> DEFINE k == IF index < 0 THEN index + (Len(active) + 1) ELSE index
  <1>1. /\ active \in Blocks /\ Len(active) \in Nat /\ Len(active) <= MaxHeight
        /\ MaxHeight \in Nat /\ index \in Int /\ asked \in Int
        /\ pc = "slot" /\ op \in {"item", "iter"} /\ active \in seen /\ seen \subseteq Blocks
        /\ Operating
        /\ UNCHANGED <<active, op, asked, entry, collected, seen>>
        /\ \/ /\ 0 <= k /\ k < Len(active) + 1
              /\ pc' = "get" /\ index' = k /\ UNCHANGED result
           \/ /\ ~(0 <= k /\ k < Len(active) + 1)
              /\ pc' = "idle" /\ result' = IndexError /\ UNCHANGED index
    BY BlocksAreSeqs, HeightAssumption
    DEF GetItem, Goto, Answer, TypeOK, StepInv, SeenInv, Operating
  <1>2. op = "iter" => index = Len(collected) /\ index >= 0 /\ k = index
    <2>1. Len(collected) \in Nat
      BY DEF TypeOK
    <2> QED
      BY <1>1, <2>1 DEF LoopInv
  <1>3. op = "item" /\ asked >= 0 => index = asked /\ k = asked
    BY <1>1 DEF ItemInv
  <1>4. op = "item" /\ asked < 0 /\ Grew /\ InRange =>
            \E c \in seen : /\ index = asked + Len(c) + 1
                            /\ k = index /\ 0 <= k /\ k < Len(active) + 1
    <2> SUFFICES ASSUME op = "item", asked < 0, Grew, InRange
                 PROVE  \E c \in seen : /\ index = asked + Len(c) + 1
                                        /\ k = index /\ 0 <= k /\ k < Len(active) + 1
      OBVIOUS
    <2>1. PICK c \in seen : index = asked + Len(c) + 1
      BY <1>1 DEF ItemInv
    <2>2. Len(c) \in Nat /\ -asked <= Len(c) + 1 /\ Len(c) <= Len(active)
      BY <1>1, <2>1, SeenPrefixes DEF InRange
    <2>3. k = index /\ 0 <= k /\ k < Len(active) + 1
      BY <1>1, <2>1, <2>2
    <2> QED
      BY <2>1, <2>3
  <1>5. CASE 0 <= k /\ k < Len(active) + 1 /\ pc' = "get" /\ index' = k /\ UNCHANGED result
    <2>1. k \in 0..Len(active) /\ k \in 0..MaxHeight
          /\ k \in -(MaxHeight + 1)..(MaxHeight + 1)
      BY <1>1, <1>5
    <2> HIDE DEF k
    <2>2. TypeOK'
      BY <1>1, <1>5, <2>1 DEF TypeOK, PCs
    <2>3. StepInv' /\ SeenInv' /\ TipInv'
      BY <1>1, <1>5, <2>1 DEF StepInv, SeenInv, TipInv, Operating
    <2>4. ItemInv'
      BY <1>1, <1>3, <1>4, <1>5 DEF ItemInv, InRange, Grew
    <2>5. LoopInv'
      BY <1>1, <1>2, <1>5 DEF LoopInv, Operating, Grew, EntryAt
    <2> QED
      BY <1>5, <2>2, <2>3, <2>4, <2>5, NotAnswered DEF Operating
  <1>6. CASE /\ ~(0 <= k /\ k < Len(active) + 1)
             /\ pc' = "idle" /\ result' = IndexError /\ UNCHANGED index
    <2>1. TypeOK'
      BY <1>1, <1>6 DEF TypeOK, PCs, Replies
    <2>2. StepInv' /\ SeenInv' /\ TipInv' /\ ItemInv' /\ LoopInv'
      BY <1>1, <1>6 DEF StepInv, SeenInv, TipInv, ItemInv, LoopInv, Operating
    <2>3. ItemsAreAtomic'
      <3>1. CASE op = "item" /\ asked >= 0
        <4>1. ~(asked <= Len(active)) /\ ~(asked < 0)
          BY <1>1, <1>3, <1>6, <3>1
        <4> QED
          BY <1>1, <1>6, <4>1 DEF ItemsAreAtomic
      <3>2. CASE op = "item" /\ asked < 0
        <4>1. ~(Grew /\ InRange)
          BY <1>4, <1>6, <3>2
        <4> QED
          BY <1>1, <3>2, <4>1 DEF ItemsAreAtomic, Grew, InRange
      <3>3. CASE op # "item"
        BY <1>1, <3>3 DEF ItemsAreAtomic, Answered
      <3> QED
        BY <1>1, <3>1, <3>2, <3>3
    <2>4. LoopsFollowTheChain'
      <3> SUFFICES ASSUME op = "iter", Grew  PROVE LoopsFollowTheChain'
        BY <1>1 DEF LoopsFollowTheChain, Answered, Grew
      <3>1. index > Len(active)
        BY <1>1, <1>2, <1>6
      <3> QED
        BY <1>1, <3>1, LoopEnds DEF LoopsFollowTheChain
    <2>5. ContainsAgreesWithItems' /\ TipsAreCurrent'
      BY <1>1 DEF ContainsAgreesWithItems, TipsAreCurrent, Answered
    <2> QED
      BY <2>1, <2>2, <2>3, <2>4, <2>5 DEF AnswerInv
  <1> QED
    BY <1>1, <1>5, <1>6

LEMMA TipStep == ASSUME IInv, Tip  PROVE IInv'
  <1> USE DEF IInv, Height
  <1>1. /\ Len(active) \in 0..MaxHeight /\ MaxHeight \in Nat
        /\ pc = "tip" /\ pc' = "get" /\ index' = Len(active) /\ op = "tip" /\ active \in seen
        /\ UNCHANGED <<active, op, asked, entry, result, collected, seen>>
    BY BlocksAreSeqs, HeightAssumption DEF Tip, Goto, TypeOK, StepInv, SeenInv, Operating
  <1>2. Len(active) \in -(MaxHeight + 1)..(MaxHeight + 1) /\ Len(active) \in 0..MaxHeight
    BY <1>1
  <1>3. TypeOK'
    BY <1>1, <1>2 DEF TypeOK, PCs
  <1>4. StepInv' /\ SeenInv' /\ ItemInv' /\ TipInv' /\ LoopInv'
    BY <1>1, <1>2 DEF StepInv, SeenInv, ItemInv, TipInv, LoopInv, Operating
  <1> QED
    BY <1>1, <1>3, <1>4, NotAnswered DEF Operating

\* The entry is NULL only if something was reorganised.
LEMMA NotThereStep ==
  ASSUME IInv, pc = "get", index > Height,
         Answer(IF op = "tip" THEN KernelError ELSE IndexError)
  PROVE  IInv'
  <1> USE DEF IInv, Height
  <1>1. /\ active \in Blocks /\ Len(active) \in Nat /\ index \in Int /\ asked \in Int
        /\ index \in 0..MaxHeight
        /\ op \in {"item", "iter", "tip"} /\ seen \subseteq Blocks
        /\ Operating /\ pc' = "idle" /\ active \in seen
        /\ result' = IF op = "tip" THEN KernelError ELSE IndexError
        /\ UNCHANGED <<active, op, index, asked, entry, collected, seen>>
    BY BlocksAreSeqs, HeightAssumption DEF Answer, TypeOK, StepInv, SeenInv, Operating
  <1>2. TypeOK'
    BY <1>1 DEF TypeOK, PCs, Replies
  <1>3. StepInv' /\ SeenInv' /\ TipInv' /\ ItemInv' /\ LoopInv'
    BY <1>1 DEF StepInv, SeenInv, TipInv, ItemInv, LoopInv, Operating
  <1>4. ItemsAreAtomic'
    <2>1. CASE op = "item" /\ asked >= 0
      <3>1. index = asked /\ ~(asked <= Len(active)) /\ ~(asked < 0)
        BY <1>1, <2>1 DEF ItemInv
      <3> QED
        BY <1>1, <2>1, <3>1 DEF ItemsAreAtomic
    <2>2. CASE op = "item" /\ asked < 0
      <3>1. ASSUME Grew, InRange  PROVE FALSE
        <4>1. PICK c \in seen : index = asked + Len(c) + 1
          BY <2>2, <3>1 DEF ItemInv
        <4>2. Len(c) \in Nat /\ Len(c) <= Len(active)
          BY <1>1, <3>1, <4>1, SeenPrefixes
        <4> QED
          BY <1>1, <2>2, <4>1, <4>2
      <3> QED
        BY <1>1, <2>2, <3>1 DEF ItemsAreAtomic, Grew, InRange
    <2>3. CASE op # "item"
      BY <1>1, <2>3 DEF ItemsAreAtomic, Answered
    <2> QED
      BY <1>1, <2>1, <2>2, <2>3
  <1>5. TipsAreCurrent'
    <2> SUFFICES ASSUME op = "tip"  PROVE TipsAreCurrent'
      BY <1>1 DEF TipsAreCurrent, Answered
    <2>1. PICK tip \in seen : index = Len(tip)
      BY DEF TipInv
    <2>2. Work[tip] <= Work[active] /\ ~(Len(tip) <= Len(active))
      BY <1>1, <2>1 DEF SeenInv
    <2> QED
      BY <1>1, <2>1, <2>2 DEF TipsAreCurrent
  <1>6. LoopsFollowTheChain'
    <2> SUFFICES ASSUME op = "iter", Grew  PROVE LoopsFollowTheChain'
      BY <1>1 DEF LoopsFollowTheChain, Answered, Grew
    <2> QED
      BY <1>1, LoopEnds DEF LoopsFollowTheChain
  <1>7. ContainsAgreesWithItems'
    BY <1>1 DEF ContainsAgreesWithItems, Answered
  <1> QED
    BY <1>2, <1>3, <1>4, <1>5, <1>6, <1>7 DEF AnswerInv

\* An entry that is found is that of the active chain, which is the one that was
\* asked for if nothing was reorganised.
LEMMA EntryFoundStep ==
  ASSUME IInv, GetByHeight, index <= Height
  PROVE  IInv'
  <1> USE DEF IInv, Height
  <1>1. /\ active \in Blocks /\ Len(active) \in Nat /\ Len(active) <= MaxHeight
        /\ MaxHeight \in Nat /\ index \in 0..Len(active) /\ asked \in Int
        /\ pc = "get" /\ op \in {"item", "iter", "tip"} /\ active \in seen /\ seen \subseteq Blocks
        /\ Operating
        /\ UNCHANGED <<active, op, asked, entry, seen>>
        /\ \/ /\ op # "iter" /\ pc' = "idle" /\ result' = SubSeq(active, 1, index)
              /\ UNCHANGED <<index, collected>>
           \/ /\ op = "iter" /\ pc' = "subscript" /\ index' = index + 1
              /\ collected' = Append(collected, SubSeq(active, 1, index))
              /\ UNCHANGED result
    BY BlocksAreSeqs, HeightAssumption
    DEF GetByHeight, Answer, EntryAt, TypeOK, StepInv, SeenInv, Operating
  <1> DEFINE e == SubSeq(active, 1, index)
  <1>2. e \in Blocks /\ Len(e) = index
    BY <1>1, PrefixBlocks
  <1>3. CASE /\ op # "iter" /\ pc' = "idle" /\ result' = e
             /\ UNCHANGED <<index, collected>>
    <2>1. TypeOK'
      BY <1>1, <1>2, <1>3 DEF TypeOK, PCs
    <2>2. StepInv' /\ SeenInv' /\ TipInv' /\ ItemInv' /\ LoopInv'
      BY <1>1, <1>3 DEF StepInv, SeenInv, TipInv, ItemInv, LoopInv, Operating
    <2>3. ItemsAreAtomic'
      <3>1. CASE op = "item" /\ asked >= 0
        <4>1. index = asked /\ asked <= Len(active) /\ ~(asked < 0)
          BY <1>1, <3>1 DEF ItemInv
        <4> QED
          BY <1>1, <1>3, <4>1 DEF ItemsAreAtomic
      <3>2. CASE op = "item" /\ asked < 0 /\ Grew /\ InRange
        <4>1. PICK c \in seen : index = asked + Len(c) + 1
          BY <1>1, <3>2 DEF ItemInv
        <4>2. c \in Blocks /\ Len(c) \in Nat /\ Len(c) <= Len(active)
          BY <1>1, <3>2, <4>1, SeenPrefixes
        <4>3. index \in 0..Len(c)
          BY <1>1, <3>2, <4>1, <4>2
        <4>4. IsPrefix(c, active) \/ IsPrefix(active, c)
          BY <1>1, <3>2, <4>1, SeenPrefixes
        <4>5. SubSeq(c, 1, index) = e
          BY <1>1, <4>1, <4>2, <4>3, <4>4, OneLine
        <4>6. index <= Len(c)
          BY <4>2, <4>3
        <4> DEFINE k == asked + Len(c) + 1
        <4>7. k = index
          BY <4>1
        <4>8. result' = IF k <= Len(c) THEN SubSeq(c, 1, k) ELSE IndexError
          BY <1>3, <4>5, <4>6, <4>7
        <4> QED
          BY <1>1, <3>2, <4>1, <4>8 DEF ItemsAreAtomic
      <3>3. CASE op = "item" /\ asked < 0 /\ ~(Grew /\ InRange)
        BY <1>1, <3>3 DEF ItemsAreAtomic, Grew, InRange
      <3>4. CASE op # "item"
        BY <1>1, <3>4 DEF ItemsAreAtomic, Answered
      <3> QED
        BY <1>1, <3>1, <3>2, <3>3, <3>4
    <2>4. TipsAreCurrent'
      <3> SUFFICES ASSUME op = "tip"  PROVE TipsAreCurrent'
        BY <1>1 DEF TipsAreCurrent, Answered
      <3>1. PICK tip \in seen : index = Len(tip)
        BY <1>1 DEF TipInv
      <3>2. Work[tip] <= Work[active] /\ Len(tip) <= Len(active)
        BY <1>1, <3>1 DEF SeenInv
      <3>3. result' = SubSeq(active, 1, Len(tip))
        BY <1>3, <3>1
      <3> QED
        BY <1>1, <3>1, <3>2, <3>3 DEF TipsAreCurrent
    <2>5. ContainsAgreesWithItems' /\ LoopsFollowTheChain'
      BY <1>1, <1>3 DEF ContainsAgreesWithItems, LoopsFollowTheChain, Answered
    <2> QED
      BY <2>1, <2>2, <2>3, <2>4, <2>5 DEF AnswerInv
  <1>4. CASE /\ op = "iter" /\ pc' = "subscript" /\ index' = index + 1
             /\ collected' = Append(collected, e) /\ UNCHANGED result
    <2> HIDE DEF e
    <2>1. /\ collected \in Seq(Blocks) /\ index = Len(collected)
          /\ \A h \in 1..Len(collected) : Len(collected[h]) = h - 1
          /\ Grew => \A h \in 1..Len(collected) : collected[h] = SubSeq(active, 1, h - 1)
      BY <1>1, <1>4 DEF LoopInv, Operating, EntryAt, TypeOK
    <2>2. /\ collected' \in Seq(Blocks) /\ Len(collected') = index + 1
          /\ collected'[index + 1] = e
          /\ \A h \in 1..Len(collected) : collected'[h] = collected[h]
      BY <1>2, <1>4, <2>1, AppendProperties
    <2>3. TypeOK'
      <3>1. index' \in -(MaxHeight + 1)..(MaxHeight + 1)
        BY <1>1, <1>4
      <3> QED
        BY <1>1, <1>4, <2>2, <3>1 DEF TypeOK, PCs
    <2>4. StepInv' /\ SeenInv' /\ TipInv' /\ ItemInv'
      BY <1>1, <1>4 DEF StepInv, SeenInv, TipInv, ItemInv, Operating
    <2>5. \A h \in 1..Len(collected') : h \in 1..Len(collected) \/ h = index + 1
      BY <1>1, <2>1, <2>2
    <2>6. Len(e) = (index + 1) - 1 /\ e = SubSeq(active, 1, (index + 1) - 1)
      BY <1>1, <1>2 DEF e
    <2>7. \A h \in 1..Len(collected') : Len(collected'[h]) = h - 1
      BY <2>1, <2>2, <2>5, <2>6
    <2>8. Grew => \A h \in 1..Len(collected') : collected'[h] = SubSeq(active, 1, h - 1)
      BY <2>1, <2>2, <2>5, <2>6
    <2>9. LoopInv'
      BY <1>1, <1>4, <2>1, <2>2, <2>7, <2>8 DEF LoopInv, Grew, EntryAt
    <2> QED
      BY <1>4, <2>3, <2>4, <2>9, NotAnswered DEF Operating
  <1> QED
    BY <1>1, <1>3, <1>4

LEMMA GetByHeightStep == ASSUME IInv, GetByHeight  PROVE IInv'
  <1>1. CASE index > Height
    <2>1. Len(active) \in Nat /\ index \in Int
      BY BlocksAreSeqs, HeightAssumption DEF IInv, TypeOK
    <2>2. pc = "get" /\ Answer(IF op = "tip" THEN KernelError ELSE IndexError)
      BY <1>1, <2>1 DEF GetByHeight, Height
    <2> QED
      BY <1>1, <2>2, NotThereStep
  <1>2. CASE index <= Height
    BY <1>2, EntryFoundStep
  <1>3. index \in Int /\ Height \in Int
    BY BlocksAreSeqs, HeightAssumption DEF IInv, TypeOK, Height
  <1> QED
    BY <1>1, <1>2, <1>3

LEMMA ContainsStep == ASSUME IInv, ContainsEntry  PROVE IInv'
  <1> USE DEF IInv
  <1>1. /\ pc = "contains" /\ pc' = "idle" /\ op = "contains"
        /\ active \in seen /\ active \in Blocks /\ entry \in Blocks
        /\ result' = IF IsPrefix(entry, active) THEN Yes ELSE No
        /\ UNCHANGED <<active, op, index, asked, entry, collected, seen>>
    BY DEF ContainsEntry, Answer, StepInv, SeenInv, TypeOK, Operating
  <1>2. TypeOK'
    BY <1>1 DEF TypeOK, PCs, Replies
  <1>3. StepInv' /\ SeenInv' /\ TipInv' /\ ItemInv' /\ LoopInv'
    BY <1>1 DEF StepInv, SeenInv, TipInv, ItemInv, LoopInv, Operating
  <1>4. ContainsAgreesWithItems'
    <2>1. SubSeq(entry, 1, Len(entry)) = entry
      BY <1>1, WholeSeqs
    <2>2. IsPrefix(entry, active) <=> /\ Len(entry) <= Len(active)
                                      /\ SubSeq(active, 1, Len(entry)) = entry
      BY <2>1 DEF IsPrefix
    <2> QED
      BY <1>1, <2>2 DEF ContainsAgreesWithItems
  <1>5. ItemsAreAtomic' /\ TipsAreCurrent' /\ LoopsFollowTheChain'
    BY <1>1 DEF ItemsAreAtomic, TipsAreCurrent, LoopsFollowTheChain, Answered
  <1> QED
    BY <1>2, <1>3, <1>4, <1>5 DEF AnswerInv

----------------------------------------------------------------------------
LEMMA Invariance == Spec => []IInv
  <1>1. Init => IInv
    BY InvariantInit
  <1>2. IInv /\ [Next]_vars => IInv'
    <2> SUFFICES ASSUME IInv, [Next]_vars  PROVE IInv'
      OBVIOUS
    <2>1. CASE \E chain \in Blocks : ActivateBestChain(chain)
      BY <2>1, ActivateStep
    <2>2. CASE CallItem \/ CallIter \/ CallTip \/ CallContains
      BY <2>2, CallStep
    <2>3. CASE Subscript \/ GetItem \/ Tip \/ GetByHeight \/ ContainsEntry
      BY <2>3, SubscriptStep, GetItemStep, TipStep, GetByHeightStep, ContainsStep
    <2>4. CASE UNCHANGED vars
      <3> USE <2>4 DEF vars, IInv
      <3>1. TypeOK' /\ StepInv' /\ SeenInv' /\ TipInv'
        BY DEF TypeOK, StepInv, SeenInv, TipInv, Operating, Height
      <3>2. ItemInv' /\ LoopInv'
        BY DEF ItemInv, LoopInv, Operating, InRange, Grew, Height, EntryAt
      <3>3. AnswerInv'
        BY DEF AnswerInv, ItemsAreAtomic, ContainsAgreesWithItems, TipsAreCurrent,
              LoopsFollowTheChain, Answered, Grew
      <3> QED
        BY <3>1, <3>2, <3>3
    <2> QED
      BY <2>1, <2>2, <2>3, <2>4 DEF Next
  <1> QED
    BY <1>1, <1>2, PTL DEF Spec

\* The variables keep their types; in particular an index that is corrected,
\* even twice, stays between the ends of the chain.
THEOREM TypeCorrect == Spec => []TypeOK
  <1>1. IInv => TypeOK
    BY DEF IInv
  <1> QED
    BY <1>1, Invariance, PTL

\* chain[k] and contains() answer for one moment of the call.
THEOREM AnswersAreAtomicCorrect == Spec => []AnswersAreAtomic
  <1>1. IInv => AnswersAreAtomic
    BY DEF IInv, AnswerInv, AnswersAreAtomic
  <1> QED
    BY <1>1, Invariance, PTL

\* tip() gives the entry, of a chain of the call, at the height of that chain's
\* tip or of an earlier one's; it fails only if that height is gone.
THEOREM TipsAreCurrentCorrect == Spec => []TipsAreCurrent
  <1>1. IInv => TipsAreCurrent
    BY DEF IInv, AnswerInv
  <1> QED
    BY <1>1, Invariance, PTL

\* A loop over a chain that grows yields an unbroken line of entries, at least
\* to the tip there was.
THEOREM LoopsFollowTheChainCorrect == Spec => []LoopsFollowTheChain
  <1>1. IInv => LoopsFollowTheChain
    BY DEF IInv, AnswerInv
  <1> QED
    BY <1>1, Invariance, PTL

----------------------------------------------------------------------------
(***************************************************************************)
(* The refinement: each step is a step of AtomicChain or a stutter.  What  *)
(* counts from the tip is decided at the height that is read, and the      *)
(* answer stays the same as long as the chain keeps its branch.            *)
(***************************************************************************)

\* The abstract module's definitions and this one's are the same.
LEMMA SameBlocks ==
  /\ Atomic!Blocks = Blocks
  /\ Atomic!CountsFromTip <=> CountsFromTip
  /\ \A a, b : Atomic!IsPrefix(a, b) <=> IsPrefix(a, b)
  BY DEF Atomic!Blocks, Blocks, Atomic!BoundedSeq, BoundedSeq, Atomic!SeqOf, SeqOf,
      Atomic!CountsFromTip, CountsFromTip, Atomic!IsPrefix, IsPrefix

\* As long as nothing was excused, an index counted from the tip is in range.
LEMMA CountedInRange ==
  ASSUME IInv, CountsFromTip, ~Excused, pc \in {"slot", "get"}
  PROVE  index \in 0..Height /\ EntryAt(index) \in Blocks /\ Decided = EntryAt(index)
  <1> USE DEF IInv, Height
  <1>1. /\ active \in Blocks /\ Len(active) \in Nat /\ asked \in Int
        /\ seen \subseteq Blocks /\ \A c \in Blocks : Len(c) \in Nat
    BY BlocksAreSeqs DEF TypeOK
  <1>2. Grew /\ InRange
    BY <1>1 DEF Excused, InRange
  <1>3. Operating /\ \A c \in seen : Len(c) \in Nat /\ Len(c) <= Len(active)
    BY <1>2, SeenPrefixes DEF Operating
  <1>4. index \in 0..Len(active)
    <2>1. CASE op = "tip"
      <3>1. pc = "get"
        BY <2>1 DEF StepInv
      <3> QED
        BY <1>1, <1>3, <2>1, <3>1 DEF TipInv
    <2>2. CASE op = "item" /\ asked < 0
      <3>1. PICK c \in seen : index = asked + Len(c) + 1
        BY <1>2, <2>2 DEF ItemInv
      <3>2. -asked <= Len(c) + 1
        BY <1>2, <3>1 DEF InRange
      <3> QED
        BY <1>1, <1>3, <2>2, <3>1, <3>2
    <2> QED
      BY <2>1, <2>2 DEF CountsFromTip
  <1>5. EntryAt(index) \in Blocks
    BY <1>1, <1>4, PrefixBlocks DEF EntryAt
  <1> QED
    BY <1>4, <1>5 DEF Decided

LEMMA AtomicInit == Init => Atomic!Init
  <1> SUFFICES ASSUME Init  PROVE Atomic!Init
    OBVIOUS
  <1>1. op # "tip" /\ op # "item"
    BY RepliesAssumption DEF Init, Ops
  <1>2. Excused = FALSE
    BY <1>1 DEF Excused, CountsFromTip
  <1> QED
    BY <1>2 DEF Init, Atomic!Init, Decided

LEMMA AtomicStutter ==
  ASSUME UNCHANGED vars
  PROVE  UNCHANGED Atomic!vars
  BY DEF vars, Atomic!vars, Decided, Excused, CountsFromTip, Grew, EntryAt

\* The chain moves: what was decided stays decided unless a branch was left.
LEMMA AtomicMove ==
  ASSUME IInv, NEW chain \in Blocks, ActivateBestChain(chain)
  PROVE  Atomic!Move(chain)
  <1> USE DEF IInv, Height
  <1>1. /\ active \in Blocks /\ asked \in Int /\ seen \subseteq Blocks
        /\ \A c \in Blocks : Len(c) \in Nat
        /\ Work[chain] > Work[active] /\ active' = chain
        /\ seen' = IF pc = "idle" THEN seen ELSE seen \cup {chain}
        /\ UNCHANGED <<op, pc, index, asked, entry, result, collected>>
    BY BlocksAreSeqs DEF TypeOK, ActivateBestChain
  <1>2. Work[chain] \in Nat /\ Work[active] \in Nat
    BY <1>1, WorkAssumption
  <1>3. ~IsPrefix(chain, active)
    <2> SUFFICES ASSUME IsPrefix(chain, active)  PROVE FALSE
      OBVIOUS
    <2>1. IsStrictPrefix(chain, active)
      BY <1>1, <1>2 DEF IsStrictPrefix
    <2>2. Work[chain] < Work[active]
      BY <1>1, <2>1, WorkAssumption
    <2> QED
      BY <1>1, <1>2, <2>2
  <1>4. CountsFromTip' <=> CountsFromTip
    BY <1>1 DEF CountsFromTip
  <1>5. CASE pc = "idle"
    <2>1. Excused' = Excused /\ Decided' = Decided
      BY <1>1, <1>4, <1>5 DEF Excused, Grew, Decided
    <2> QED
      BY <1>1, <1>3, <1>5, <2>1, SameBlocks DEF Atomic!Move
  <1>6. CASE pc # "idle" /\ ~CountsFromTip
    <2>1. Excused = FALSE /\ Excused' = FALSE /\ Decided = None /\ Decided' = None
      BY <1>1, <1>4, <1>6 DEF Excused, Decided
    <2> QED
      BY <1>1, <1>3, <1>6, <2>1, SameBlocks DEF Atomic!Move
  <1>7. CASE pc # "idle" /\ CountsFromTip
    <2>1. active \in seen /\ chain \in seen' /\ seen \subseteq seen' /\ seen' = seen \cup {chain}
      BY <1>1, <1>7 DEF SeenInv, Operating
    <2>2. Excused => Excused'
      BY <1>1, <1>4, <2>1 DEF Excused, Grew
    <2>3. CASE ~IsPrefix(active, chain)
      <3>2. ~Grew'
        BY <1>3, <2>1, <2>3 DEF Grew
      <3>3. Excused' = TRUE /\ Decided' = None
        BY <1>1, <1>4, <1>7, <3>2 DEF Excused, Decided
      <3> QED
        BY <1>1, <1>3, <1>7, <2>3, <3>3, SameBlocks DEF Atomic!Move
    <2>4. CASE IsPrefix(active, chain) /\ Excused
      <3>1. Excused = TRUE /\ Excused' = TRUE /\ Decided = None /\ Decided' = None
        BY <1>1, <1>3, <1>7, <2>2, <2>4 DEF Excused, Decided
      <3> QED
        BY <1>1, <1>3, <1>7, <2>4, <3>1, SameBlocks DEF Atomic!Move
    <2>5. CASE IsPrefix(active, chain) /\ ~Excused
      <3>1. Len(active) <= Len(chain)
        BY <2>5 DEF IsPrefix
      <3>2. Grew /\ \A c \in seen : ~(asked < -(Len(c) + 1))
        BY <1>7, <2>5 DEF Excused
      <3>3. \A c \in seen : IsPrefix(c, chain)
        <4> SUFFICES ASSUME NEW c \in seen  PROVE IsPrefix(c, chain)
          OBVIOUS
        <4>1. c \in Blocks /\ Len(c) \in Nat /\ Len(c) <= Len(active)
          BY <1>7, <3>2, SeenPrefixes DEF Operating
        <4>2. IsPrefix(c, active) \/ IsPrefix(active, c)
          BY <2>1, <3>2 DEF Grew
        <4>3. Len(c) \in 0..Len(c) /\ Len(c) \in 0..Len(active) /\ Len(active) \in 0..Len(active)
          BY <1>1, <4>1
        <4>4. SubSeq(c, 1, Len(c)) = SubSeq(active, 1, Len(c))
          BY <1>1, <4>1, <4>2, <4>3, OneLine
        <4>5. SubSeq(active, 1, Len(c)) = SubSeq(chain, 1, Len(c))
          BY <1>1, <2>5, <3>1, <4>3, OneLine
        <4> QED
          BY <1>1, <3>1, <4>1, <4>4, <4>5, WholeSeqs DEF IsPrefix
      <3>4. IsPrefix(chain, chain)
        BY <1>1 DEF IsPrefix
      <3>5. Grew'
        BY <2>1, <3>2, <3>3, <3>4 DEF Grew
      <3>6. ~(asked < -(Len(chain) + 1))
        BY <1>1, <2>1, <3>1, <3>2
      <3>7. Excused = FALSE /\ Excused' = FALSE
        BY <1>1, <1>4, <2>1, <2>5, <3>2, <3>5, <3>6 DEF Excused
      <3>8. Decided' = Decided
        <4>1. CASE pc \in {"slot", "get"}
          <5>1. index \in 0..Len(active)
            BY <1>7, <2>5, <4>1, CountedInRange
          <5>2. SubSeq(active, 1, index) = SubSeq(chain, 1, index)
            BY <1>1, <2>5, <3>1, <5>1, OneLine
          <5> QED
            BY <1>1, <1>4, <1>7, <3>7, <4>1, <5>2 DEF Decided, EntryAt
        <4>2. CASE pc \notin {"slot", "get"}
          BY <1>1, <1>7, <4>2 DEF Decided
        <4> QED
          BY <4>1, <4>2
      <3> QED
        BY <1>1, <1>3, <1>7, <2>5, <3>7, <3>8, SameBlocks DEF Atomic!Move
    <2> QED
      BY <2>3, <2>4, <2>5
  <1> QED
    BY <1>5, <1>6, <1>7

LEMMA AtomicCall ==
  ASSUME IInv, CallItem \/ CallIter \/ CallTip \/ CallContains
  PROVE  Atomic!Next
  <1> USE DEF IInv
  <1>1. PICK o \in Ops, w \in PCs, k \in -(MaxHeight + 1)..(MaxHeight + 1), e \in Blocks :
            /\ Call(o, w, k, e)
            /\ \/ o = "item" /\ w = "subscript"
               \/ o \in {"iter", "tip", "contains"} /\ k = 0 /\ w \notin {"idle", "slot", "get"}
    <2>1. 0 \in -(MaxHeight + 1)..(MaxHeight + 1)
      BY HeightAssumption
    <2>2. {"item", "tip", "contains", "iter"} \subseteq Ops
          /\ {"subscript", "tip", "contains"} \subseteq PCs
      BY DEF Ops, PCs
    <2>3. CASE CallItem
      BY <2>2, <2>3, EmptyBlock DEF CallItem
    <2>4. CASE CallIter
      BY <2>1, <2>2, <2>4, EmptyBlock DEF CallIter
    <2>5. CASE CallTip
      BY <2>1, <2>2, <2>5, EmptyBlock DEF CallTip
    <2>6. CASE CallContains
      BY <2>1, <2>2, <2>6 DEF CallContains
    <2> QED
      BY <2>3, <2>4, <2>5, <2>6
  <1>2. /\ pc = "idle" /\ pc' # "idle" /\ pc' \notin {"slot", "get"}
        /\ op' = o /\ asked' = k /\ entry' = e
        /\ collected' = <<>> /\ seen' = {active} /\ active' = active
    BY <1>1 DEF Call
  <1>3. active \in Blocks /\ Len(active) \in Nat /\ IsPrefix(active, active) /\ k \in Int
    BY BlocksAreSeqs DEF TypeOK, IsPrefix
  <1>4. Decided' = None
    BY <1>2 DEF Decided
  <1>5. Grew'
    BY <1>2, <1>3 DEF Grew
  <1>6. Excused' = (o = "item" /\ k < -(Len(active) + 1))
    <2>1. Excused' <=> (o = "item" /\ k < -(Len(active) + 1))
      BY <1>1, <1>2, <1>3, <1>5 DEF Excused, CountsFromTip
    <2>2. Excused' \in BOOLEAN
      BY DEF Excused
    <2> QED
      BY <2>1, <2>2
  <1>7. Atomic!Call(o, k, e)
    BY <1>2, <1>4, <1>6 DEF Atomic!Call
  <1>8. o \in Atomic!Ops /\ e \in Atomic!Blocks
    BY SameBlocks DEF Atomic!Ops, Ops
  <1> QED
    BY <1>7, <1>8 DEF Atomic!Next

\* A step of a call that leaves the chain, the answers and their excuse alone
\* is none of AtomicChain.
LEMMA AtomicInternal ==
  ASSUME UNCHANGED <<active, op, asked, entry, collected, seen>>,
         pc # "idle", pc' # "idle", Decided' = Decided
  PROVE  UNCHANGED Atomic!vars
  BY DEF Atomic!vars, Excused, CountsFromTip, Grew

\* The height is read: the subscript is decided.
LEMMA AtomicSubscript ==
  ASSUME IInv, Subscript
  PROVE  Atomic!Decide \/ UNCHANGED Atomic!vars
  <1> USE DEF IInv, Height
  <1>1. /\ pc = "subscript" /\ pc' = "slot" /\ op \in {"item", "iter"} /\ index \in Int
        /\ active \in Blocks /\ Len(active) \in Nat /\ active \in seen
        /\ UNCHANGED <<active, op, asked, entry, result, collected, seen>>
        /\ index' = IF index < 0 THEN index + Len(active) + 1 ELSE index
    BY BlocksAreSeqs, HeightAssumption DEF Subscript, Goto, StepInv, SeenInv, Operating, TypeOK
  <1>2. Excused' = Excused /\ (CountsFromTip' <=> CountsFromTip) /\ Decided = None
    BY <1>1 DEF Excused, CountsFromTip, Grew, Decided
  <1>3. CASE CountsFromTip /\ ~Excused
    <2>1. op = "item" /\ asked < 0 /\ index = asked
      BY <1>1, <1>3 DEF CountsFromTip, ItemInv
    <2>2. index' = asked + Len(active) + 1 /\ index' <= Len(active)
      BY <1>1, <2>1
    <2>3. Decided' = SubSeq(active, 1, asked + Len(active) + 1)
      BY <1>1, <1>2, <1>3, <2>2 DEF Decided, EntryAt
    <2>4. asked + Len(active) + 1 <= Len(active)
      BY <1>1, <2>1
    <2>5. Atomic!Exact = Decided'
      BY <2>1, <2>3, <2>4 DEF Atomic!Exact, Atomic!Item, Atomic!EntryAt
    <2>6. Excused = FALSE
      BY <1>3 DEF Excused
    <2> QED
      BY <1>1, <1>2, <2>1, <2>5, <2>6 DEF Atomic!Decide, Atomic!Decidable
  <1>4. CASE ~(CountsFromTip /\ ~Excused)
    <2>1. Decided' = None
      BY <1>1, <1>2, <1>4 DEF Decided
    <2> QED
      BY <1>1, <1>2, <2>1, AtomicInternal
  <1> QED
    BY <1>3, <1>4

\* ... and tip() likewise: what it will return is the tip of this moment.
LEMMA AtomicTip ==
  ASSUME IInv, Tip
  PROVE  Atomic!Decide \/ UNCHANGED Atomic!vars
  <1> USE DEF IInv, Height
  <1>1. /\ pc = "tip" /\ pc' = "get" /\ op = "tip"
        /\ active \in Blocks
        /\ UNCHANGED <<active, op, asked, entry, result, collected, seen>>
        /\ index' = Len(active)
    BY DEF Tip, Goto, StepInv, TypeOK
  <1>2. Excused' = Excused /\ CountsFromTip /\ CountsFromTip' /\ Decided = None
    BY <1>1 DEF Excused, CountsFromTip, Grew, Decided
  <1>3. CASE ~Excused
    <2>1. Decided' = active
      BY <1>1, <1>2, <1>3, WholeSeqs DEF Decided, EntryAt
    <2>2. Atomic!Exact = active
      BY <1>1 DEF Atomic!Exact
    <2>3. Excused = FALSE
      BY <1>3 DEF Excused
    <2> QED
      BY <1>1, <1>2, <2>1, <2>2, <2>3 DEF Atomic!Decide, Atomic!Decidable
  <1>4. CASE Excused
    <2>1. Decided' = None
      BY <1>1, <1>2, <1>4 DEF Decided
    <2> QED
      BY <1>1, <1>2, <2>1, AtomicInternal
  <1> QED
    BY <1>3, <1>4

\* The index is found in range, which decides nothing, or the call is over.
LEMMA AtomicGetItem ==
  ASSUME IInv, GetItem
  PROVE  Atomic!Return \/ UNCHANGED Atomic!vars
  <1> USE DEF IInv, Height
  <1> DEFINE k == IF index < 0 THEN index + (Len(active) + 1) ELSE index
  <1>1. /\ active \in Blocks /\ Len(active) \in Nat /\ index \in Int /\ asked \in Int
        /\ pc = "slot" /\ op \in {"item", "iter"}
        /\ UNCHANGED <<active, op, asked, entry, collected, seen>>
        /\ \/ /\ 0 <= k /\ k < Len(active) + 1
              /\ pc' = "get" /\ index' = k /\ UNCHANGED result
           \/ /\ ~(0 <= k /\ k < Len(active) + 1)
              /\ pc' = "idle" /\ result' = IndexError /\ UNCHANGED index
    BY BlocksAreSeqs, HeightAssumption DEF GetItem, Goto, Answer, TypeOK, StepInv
  <1>2. Excused' = Excused /\ (CountsFromTip' <=> CountsFromTip)
    BY <1>1 DEF Excused, CountsFromTip, Grew
  <1>3. CASE CountsFromTip /\ ~Excused
    <2>1. index \in 0..Len(active) /\ Decided = SubSeq(active, 1, index)
      BY <1>1, <1>3, CountedInRange DEF EntryAt
    <2>2. k = index /\ 0 <= k /\ k < Len(active) + 1
      BY <1>1, <2>1
    <2>3. pc' = "get" /\ index' = index
      BY <1>1, <2>2
    <2>4. Decided' = Decided
      BY <1>1, <1>2, <1>3, <2>1, <2>3 DEF Decided, EntryAt
    <2> QED
      BY <1>1, <2>3, <2>4, AtomicInternal
  <1>4. CASE Excused
    <2>1. Decided = None
      BY <1>1, <1>4 DEF Decided
    <2>2. CASE pc' = "get"
      BY <1>1, <1>2, <1>4, <2>1, <2>2, AtomicInternal DEF Decided
    <2>3. CASE pc' = "idle" /\ result' = IndexError
      <3>1. Decided' = IndexError
        BY <2>3 DEF Decided
      <3>2. op # "tip" /\ pc # "idle"
        BY <1>1
      <3> QED
        BY <1>1, <1>2, <1>4, <2>1, <2>3, <3>1, <3>2 DEF Atomic!Return, Atomic!NotThere
    <2> QED
      BY <1>1, <2>2, <2>3
  <1>5. CASE ~CountsFromTip
    <2>1. Decided = None /\ Excused = FALSE
      BY <1>1, <1>5 DEF Decided, Excused
    <2>2. /\ op = "item" => asked >= 0 /\ index = asked
          /\ op = "iter" => index = Len(collected) /\ Len(collected) \in Nat
      BY <1>1, <1>5 DEF CountsFromTip, ItemInv, LoopInv, Operating, TypeOK
    <2>3. k = index
      BY <1>1, <2>2
    <2>4. CASE pc' = "get"
      BY <1>1, <1>2, <1>5, <2>1, <2>4, AtomicInternal DEF Decided
    <2>5. CASE pc' = "idle" /\ result' = IndexError /\ index > Len(active)
      <3>1. Decided' = IndexError
        BY <2>5 DEF Decided
      <3>2. Atomic!Decidable
        BY <2>2, <2>5 DEF Atomic!Decidable
      <3>3. Atomic!Exact = IndexError
        <4>1. CASE op = "item"
          <5>1. ~(asked < 0) /\ ~(asked <= Len(active))
            BY <1>1, <2>2, <2>5, <4>1
          <5> QED
            BY <4>1, <5>1 DEF Atomic!Exact, Atomic!Item
        <4>2. CASE op = "iter"
          BY <4>2 DEF Atomic!Exact
        <4> QED
          BY <1>1, <4>1, <4>2
      <3> QED
        BY <1>1, <1>2, <2>1, <2>5, <3>1, <3>2, <3>3 DEF Atomic!Return
    <2> QED
      BY <1>1, <2>2, <2>3, <2>4, <2>5
  <1> QED
    BY <1>3, <1>4, <1>5

\* The entry is there: it is the one decided upon, or the answer of now.
LEMMA AtomicEntryFound ==
  ASSUME IInv, GetByHeight, index <= Height
  PROVE  Atomic!Return \/ Atomic!Yield
  <1> USE DEF IInv, Height
  <1>1. /\ active \in Blocks /\ Len(active) \in Nat /\ index \in 0..Len(active) /\ asked \in Int
        /\ pc = "get" /\ op \in {"item", "iter", "tip"}
        /\ UNCHANGED <<active, op, asked, entry, seen>>
        /\ \/ /\ op # "iter" /\ pc' = "idle" /\ result' = SubSeq(active, 1, index)
              /\ UNCHANGED <<index, collected>>
           \/ /\ op = "iter" /\ pc' = "subscript" /\ index' = index + 1
              /\ collected' = Append(collected, SubSeq(active, 1, index))
              /\ UNCHANGED result
    BY BlocksAreSeqs, HeightAssumption DEF GetByHeight, Answer, EntryAt, TypeOK, StepInv
  <1>2. Excused' = Excused /\ (CountsFromTip' <=> CountsFromTip)
    BY <1>1 DEF Excused, CountsFromTip, Grew
  <1> DEFINE e == SubSeq(active, 1, index)
  <1>3. e \in Blocks
    BY <1>1, PrefixBlocks
  <1>4. e # None
    BY <1>3, RepliesAssumption DEF Replies
  <1> HIDE DEF e
  <1>5. CASE op = "iter"
    <2>1. index = Len(collected)
      BY <1>1, <1>5 DEF LoopInv, Operating
    <2>2. Decided = None /\ Decided' = None
      BY <1>1, <1>5 DEF Decided, CountsFromTip
    <2>3. Len(collected) <= Len(active) /\ pc' # "idle"
          /\ collected' = Append(collected, SubSeq(active, 1, Len(collected)))
      BY <1>1, <1>5, <2>1
    <2> QED
      BY <1>1, <1>2, <1>5, <2>2, <2>3 DEF Atomic!Yield, Atomic!EntryAt
  <1>6. CASE op # "iter"
    <2>1. pc' = "idle" /\ Decided' = e /\ UNCHANGED collected
      BY <1>1, <1>6 DEF Decided, e
    <2>2. CASE Excused
      BY <1>1, <1>2, <1>3, <2>1, <2>2, SameBlocks DEF Atomic!Return
    <2>3. CASE CountsFromTip /\ ~Excused
      <3>1. Decided = e
        BY <1>1, <2>3, CountedInRange DEF EntryAt, e
      <3> QED
        BY <1>1, <1>2, <1>4, <2>1, <3>1 DEF Atomic!Return
    <2>4. CASE ~CountsFromTip
      <3>1. Decided = None /\ Excused = FALSE
        BY <1>1, <2>4 DEF Decided, Excused
      <3>2. op = "item" /\ ~(asked < 0) /\ index = asked
        BY <1>1, <1>6, <2>4 DEF CountsFromTip, ItemInv
      <3>3. Atomic!Exact = e
        BY <1>1, <3>2 DEF Atomic!Exact, Atomic!Item, Atomic!EntryAt, e
      <3> QED
        BY <1>1, <1>2, <1>6, <2>1, <3>1, <3>3 DEF Atomic!Return, Atomic!Decidable
    <2> QED
      BY <2>2, <2>3, <2>4
  <1> QED
    BY <1>5, <1>6

\* The entry is not there: something was reorganised, or it is too high now.
LEMMA AtomicNotThere ==
  ASSUME IInv, pc = "get", index > Height,
         Answer(IF op = "tip" THEN KernelError ELSE IndexError)
  PROVE  Atomic!Return
  <1> USE DEF IInv, Height
  <1>1. /\ active \in Blocks /\ Len(active) \in Nat /\ index \in Int /\ asked \in Int
        /\ op \in {"item", "iter", "tip"} /\ pc' = "idle"
        /\ result' = IF op = "tip" THEN KernelError ELSE IndexError
        /\ UNCHANGED <<active, op, index, asked, entry, collected, seen>>
    BY BlocksAreSeqs, HeightAssumption DEF Answer, TypeOK, StepInv
  <1>2. Excused' = Excused /\ Decided' = result'
    BY <1>1 DEF Excused, CountsFromTip, Grew, Decided
  <1>3. CASE CountsFromTip
    <2>1. Excused
      BY <1>1, <1>3, CountedInRange
    <2>2. Decided = None /\ Excused = TRUE
      BY <1>3, <2>1 DEF Decided, Excused
    <2>3. result' = Atomic!NotThere
      BY <1>1 DEF Atomic!NotThere
    <2> QED
      BY <1>1, <1>2, <2>2, <2>3 DEF Atomic!Return
  <1>4. CASE ~CountsFromTip
    <2>1. Decided = None /\ Excused = FALSE
      BY <1>4 DEF Decided, Excused
    <2>2. Atomic!Decidable /\ Atomic!Exact = IndexError
      <3>1. CASE op = "item"
        <4>1. ~(asked < 0) /\ ~(asked <= Len(active))
          BY <1>1, <1>4, <3>1 DEF CountsFromTip, ItemInv
        <4> QED
          BY <3>1, <4>1 DEF Atomic!Exact, Atomic!Item, Atomic!Decidable
      <3>2. CASE op = "iter"
        <4>1. Len(collected) > Len(active)
          BY <3>2 DEF LoopInv, Operating
        <4> QED
          BY <3>2, <4>1 DEF Atomic!Exact, Atomic!Decidable
      <3> QED
        BY <1>1, <1>4, <3>1, <3>2 DEF CountsFromTip
    <2>3. result' = IndexError
      BY <1>1, <1>4 DEF CountsFromTip
    <2> QED
      BY <1>1, <1>2, <2>1, <2>2, <2>3 DEF Atomic!Return
  <1> QED
    BY <1>3, <1>4

LEMMA AtomicGetByHeight ==
  ASSUME IInv, GetByHeight
  PROVE  Atomic!Return \/ Atomic!Yield
  <1>1. Height \in Nat /\ index \in Int
    BY BlocksAreSeqs, HeightAssumption DEF IInv, TypeOK, Height
  <1>2. CASE index > Height
    <2>1. pc = "get" /\ Answer(IF op = "tip" THEN KernelError ELSE IndexError)
      BY <1>1, <1>2 DEF GetByHeight
    <2> QED
      BY <1>2, <2>1, AtomicNotThere
  <1>3. CASE index <= Height
    BY <1>3, AtomicEntryFound
  <1> QED
    BY <1>1, <1>2, <1>3

LEMMA AtomicContains ==
  ASSUME IInv, ContainsEntry
  PROVE  Atomic!Return
  <1> USE DEF IInv
  <1>1. /\ pc = "contains" /\ pc' = "idle" /\ op = "contains"
        /\ active \in Blocks /\ entry \in Blocks
        /\ result' = IF IsPrefix(entry, active) THEN Yes ELSE No
        /\ UNCHANGED <<active, op, index, asked, entry, collected, seen>>
    BY DEF ContainsEntry, Answer, StepInv, TypeOK
  <1>2. Excused = FALSE /\ Excused' = FALSE /\ Decided = None /\ Decided' = result'
    BY <1>1 DEF Excused, CountsFromTip, Decided
  <1>3. Atomic!Exact = result'
    <2>1. SubSeq(entry, 1, Len(entry)) = entry
      BY <1>1, WholeSeqs
    <2>2. IsPrefix(entry, active) <=> /\ Len(entry) <= Len(active)
                                      /\ SubSeq(active, 1, Len(entry)) = entry
      BY <2>1 DEF IsPrefix
    <2> QED
      BY <1>1, <2>2 DEF Atomic!Exact, Atomic!Membership, Atomic!EntryAt
  <1> QED
    BY <1>1, <1>2, <1>3 DEF Atomic!Return, Atomic!Decidable

\* Every operation on the chain is atomic, however many calls into the kernel it
\* is and however often the chain moves between them, except what counts from
\* the tip while the chain leaves a branch.
THEOREM AtomicCorrect == Spec => AtomicSpec
  <1>1. Init => Atomic!Init
    BY AtomicInit
  <1>2. IInv /\ [Next]_vars => [Atomic!Next]_(Atomic!vars)
    <2> SUFFICES ASSUME IInv, [Next]_vars  PROVE [Atomic!Next]_(Atomic!vars)
      OBVIOUS
    <2> USE DEF Atomic!Next
    <2>1. CASE \E chain \in Blocks : ActivateBestChain(chain)
      BY <2>1, AtomicMove, SameBlocks
    <2>2. CASE CallItem \/ CallIter \/ CallTip \/ CallContains
      BY <2>2, AtomicCall
    <2>3. CASE Subscript \/ GetItem \/ Tip \/ GetByHeight \/ ContainsEntry
      BY <2>3, AtomicSubscript, AtomicGetItem, AtomicTip, AtomicGetByHeight, AtomicContains
    <2>4. CASE UNCHANGED vars
      BY <2>4, AtomicStutter
    <2> QED
      BY <2>1, <2>2, <2>3, <2>4 DEF Next
  <1>3. Spec => []IInv
    BY Invariance, PTL
  <1> QED
    BY <1>1, <1>2, <1>3, PTL DEF Spec, AtomicSpec, Atomic!Spec
=============================================================================
