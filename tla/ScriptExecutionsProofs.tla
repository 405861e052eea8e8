------------------------ MODULE ScriptExecutionsProofs ------------------------
(***************************************************************************)
(* The loop of ScriptTrace.executions splits every stream of frames, of    *)
(* any length and however malformed, into its executions.                  *)
(***************************************************************************)
EXTENDS ScriptExecutions, TLAPS

\* The frames the loop has seen.
Seen == SubSeq(kinds, 1, i)

\* The last group is the one that holds the last frame seen, and `current` tells
\* whether it is still open.
OpenInv ==
    /\ current <=> (i > 0 /\ kinds[i] # "END")
    /\ i > 0 => groups # <<>> /\ i \in groups[Len(groups)]
    /\ i = 0 => groups = <<>>

\* Groups hold frames that have been seen.
SeenInv == \A k \in 1..Len(groups) : groups[k] \subseteq 1..i

\* Each group is the execution of one of the starts, each start has its group.
StartsInv ==
    /\ \A k \in 1..Len(groups) :
          \E a \in Starts(Seen) : groups[k] = Execution(Seen, a)
    /\ \A a \in Starts(Seen) :
          \E k \in 1..Len(groups) : groups[k] = Execution(Seen, a)

IInv == OpenInv /\ SeenInv /\ StartsInv /\ GroupsAreInOrder /\ GroupsHaveOneBeginAndEnd

----------------------------------------------------------------------------
(* What one more frame does to starts and executions.                      *)

LEMMA SeenFacts ==
  ASSUME NEW ks \in Seq(Kinds), NEW n \in 0..Len(ks)
  PROVE  /\ SubSeq(ks, 1, n) \in Seq(Kinds)
         /\ Len(SubSeq(ks, 1, n)) = n
         /\ DOMAIN SubSeq(ks, 1, n) = 1..n
         /\ \A j \in 1..n : SubSeq(ks, 1, n)[j] = ks[j]
  OBVIOUS

\* The frames of a prefix that start a group.
LEMMA StartsOfPrefix ==
  ASSUME NEW ks \in Seq(Kinds), NEW n \in 0..Len(ks), NEW j
  PROVE  j \in Starts(SubSeq(ks, 1, n)) <=>
            j \in 1..n /\ (ks[j] = "BEGIN" \/ j = 1 \/ ks[j - 1] = "END")
  <1> DEFINE pre == SubSeq(ks, 1, n)
  <1>1. DOMAIN pre = 1..n /\ \A k \in 1..n : pre[k] = ks[k]
    BY SeenFacts
  <1>2. ASSUME j \in 1..n, j # 1
        PROVE  pre[j - 1] = ks[j - 1]
    BY <1>1, <1>2
  <1> HIDE DEF pre
  <1>3. j \in Starts(pre) <=> j \in 1..n /\ (pre[j] = "BEGIN" \/ j = 1 \/ pre[j - 1] = "END")
    BY <1>1 DEF Starts
  <1>4. QED
    BY <1>1, <1>2, <1>3 DEF pre

\* The members of an execution of a prefix.
LEMMA ExecutionOfPrefix ==
  ASSUME NEW ks \in Seq(Kinds), NEW n \in 0..Len(ks), NEW a \in 1..n, NEW k
  PROVE  k \in Execution(SubSeq(ks, 1, n), a) <=>
            /\ k \in 1..n /\ k >= a
            /\ \A s \in (a + 1)..k : s \notin Starts(SubSeq(ks, 1, n))
  BY SeenFacts DEF Execution

LEMMA TypeInit == Init => TypeOK
  <1> SUFFICES ASSUME Init PROVE TypeOK
    OBVIOUS
  <1>1. PICK ks \in Seq(Kinds) : \E es \in [1..Len(ks) -> Errors] : InitWith(ks, es)
    BY DEF Init
  <1>2. kinds \in Seq(Kinds) /\ errors \in [1..Len(kinds) -> Errors]
    BY <1>1 DEF InitWith
  <1>3. i = 0 /\ groups = <<>> /\ current = FALSE
    BY <1>1 DEF InitWith
  <1>4. Len(kinds) \in Nat /\ <<>> \in Seq(SUBSET (1..Len(kinds)))
    BY <1>2
  <1>5. i \in 0..Len(kinds)
    BY <1>3, <1>4
  <1>6. groups \in Seq(SUBSET (1..Len(kinds))) /\ current \in BOOLEAN
    BY <1>3, <1>4
  <1>7. QED
    BY <1>2, <1>5, <1>6 DEF TypeOK

LEMMA TypeStep == TypeOK /\ OpenInv /\ [Next]_vars => TypeOK'
  <1> SUFFICES ASSUME TypeOK, OpenInv, [Next]_vars PROVE TypeOK'
    OBVIOUS
  <1>1. CASE UNCHANGED vars
    BY <1>1 DEF vars, TypeOK
  <1>2. CASE NextFrame
    <2>1. i + 1 \in 1..Len(kinds) /\ kinds' = kinds /\ errors' = errors
      BY <1>2 DEF NextFrame, TypeOK
    <2>2. groups' \in Seq(SUBSET (1..Len(kinds)))
      <3>1. CASE OpenGroup(i + 1)
        BY <2>1, <3>1 DEF OpenGroup, TypeOK
      <3>2. CASE current /\ AppendFrame(i + 1)
        <4>1. Len(groups) \in 1..Len(groups)
          BY <3>2 DEF OpenInv, TypeOK
        <4>2. QED
          BY <2>1, <3>2, <4>1 DEF AppendFrame, TypeOK
      <3>3. QED
        BY <1>2, <3>1, <3>2 DEF NextFrame
    <2>3. current' \in BOOLEAN /\ i' \in 0..Len(kinds)
      BY <1>2, <2>1 DEF NextFrame
    <2>4. QED
      BY <2>1, <2>2, <2>3 DEF TypeOK
  <1>3. QED
    BY <1>1, <1>2 DEF Next
\* The strengthened invariant holds of the empty stream seen at first ...
LEMMA IInvInit == Init => IInv
  <1> SUFFICES ASSUME Init PROVE IInv
    OBVIOUS
  <1>1. TypeOK /\ i = 0 /\ groups = <<>> /\ current = FALSE
    BY TypeInit DEF Init, InitWith
  <1>2. Len(groups) = 0
    BY <1>1
  <1>3. Starts(Seen) = {}
    BY <1>1, SeenFacts DEF Starts, Seen, TypeOK
  <1>4. QED
    BY <1>1, <1>2, <1>3 DEF IInv, OpenInv, SeenInv, StartsInv, GroupsAreInOrder,
       GroupsHaveOneBeginAndEnd

\* ... when a frame opens a group ...
LEMMA OpenGroupInv ==
  ASSUME TypeOK, TypeOK', IInv, NextFrame,
         kinds[i + 1] = "BEGIN" \/ ~current, OpenGroup(i + 1)
  PROVE  IInv'
  <1> DEFINE n == Len(groups)
  <1>1. /\ kinds' = kinds /\ i' = i + 1 /\ i + 1 \in 1..Len(kinds)
        /\ current' = (kinds[i + 1] # "END")
    BY DEF NextFrame, TypeOK
  <1>2. /\ n \in Nat
        /\ Len(groups') = n + 1
        /\ groups'[n + 1] = {i + 1}
        /\ \A k \in 1..n : groups'[k] = groups[k]
    BY DEF OpenGroup, TypeOK
  <1>a. /\ Seen = SubSeq(kinds, 1, i) /\ Seen' = SubSeq(kinds, 1, i + 1)
        /\ kinds \in Seq(Kinds) /\ i \in 0..Len(kinds) /\ i + 1 \in 0..Len(kinds)
    BY <1>1 DEF Seen, TypeOK
  <1>3. i + 1 \in Starts(Seen')
    <2>1. kinds[i + 1] = "BEGIN" \/ i + 1 = 1 \/ kinds[i] = "END"
      BY DEF IInv, OpenInv, TypeOK
    <2>2. (i + 1) - 1 = i
      BY DEF TypeOK
    <2>3. QED
      BY <1>a, <1>1, <2>1, <2>2, StartsOfPrefix
  <1>4. ASSUME NEW a \in 1..i
        PROVE  a \in Starts(Seen') <=> a \in Starts(Seen)
    <2>1. a \in 1..(i + 1)
      BY DEF TypeOK
    <2>2. QED
      BY <1>a, <2>1, StartsOfPrefix
  <1>5. OpenInv'
    <2>1. i + 1 > 0 /\ i + 1 # 0 /\ groups' # <<>>
      BY <1>1, <1>2
    <2>2. current' <=> kinds'[i'] # "END"
      BY <1>1
    <2>3. i + 1 \in groups'[Len(groups')]
      BY <1>2
    <2>4. QED
      BY <1>1, <2>1, <2>2, <2>3 DEF OpenInv
  <1>6. SeenInv'
    <2> SUFFICES ASSUME NEW k \in 1..(n + 1) PROVE groups'[k] \subseteq 1..(i + 1)
      BY <1>1, <1>2 DEF SeenInv
    <2>1. CASE k = n + 1
      BY <1>1, <1>2, <2>1
    <2>2. CASE k \in 1..n
      BY <1>1, <1>2, <2>2 DEF IInv, SeenInv, TypeOK
    <2>3. QED
      BY <1>2, <2>1, <2>2
  <1>7. ASSUME NEW a \in Starts(Seen)
        PROVE  a \in 1..i /\ Execution(Seen', a) = Execution(Seen, a)
    <2>1. a \in 1..i
      BY StartsOfPrefix DEF Seen, TypeOK
    <2>2. a \in 1..(i + 1)
      BY <2>1 DEF TypeOK
    <2>3. ASSUME NEW k PROVE k \in Execution(Seen', a) <=> k \in Execution(Seen, a)
      <3>1. k \in Execution(Seen', a) <=>
              k \in 1..(i + 1) /\ k >= a /\ \A s \in (a + 1)..k : s \notin Starts(Seen')
        BY <1>1, <2>2, ExecutionOfPrefix DEF Seen, TypeOK
      <3>2. k \in Execution(Seen, a) <=>
              k \in 1..i /\ k >= a /\ \A s \in (a + 1)..k : s \notin Starts(Seen)
        BY <2>1, ExecutionOfPrefix DEF Seen, TypeOK
      <3>3. CASE k \in 1..i
        <4>1. \A s \in (a + 1)..k : s \in 1..i
          BY <2>1, <3>3 DEF TypeOK
        <4>2. k \in 1..(i + 1)
          BY <3>3 DEF TypeOK
        <4>3. QED
          BY <1>4, <3>1, <3>2, <3>3, <4>1, <4>2
      <3>4. CASE k = i + 1
        <4>1. i + 1 \in (a + 1)..k
          BY <2>1, <3>4 DEF TypeOK
        <4>2. k \notin 1..i
          BY <3>4 DEF TypeOK
        <4>3. QED
          BY <1>3, <3>1, <3>2, <4>1, <4>2
      <3>5. QED
        BY <3>1, <3>2, <3>3, <3>4 DEF TypeOK
    <2>4. QED
      BY <2>1, <2>3 DEF Execution
  <1>8. Execution(Seen', i + 1) = {i + 1}
    <2>1. ASSUME NEW k PROVE k \in Execution(Seen', i + 1) <=> k = i + 1
      <3>1. k \in Execution(Seen', i + 1) <=>
              /\ k \in 1..(i + 1) /\ k >= i + 1
              /\ \A s \in (i + 1 + 1)..k : s \notin Starts(Seen')
        BY <1>1, ExecutionOfPrefix DEF Seen, TypeOK
      <3>2. QED
        BY <1>1, <3>1 DEF TypeOK
    <2>2. QED
      BY <2>1 DEF Execution
  <1>9. StartsInv'
    <2>1. ASSUME NEW k \in 1..(n + 1)
          PROVE  \E a \in Starts(Seen') : groups'[k] = Execution(Seen', a)
      <3>1. CASE k = n + 1
        BY <1>2, <1>3, <1>8, <3>1
      <3>2. CASE k \in 1..n
        <4>1. PICK a \in Starts(Seen) : groups[k] = Execution(Seen, a)
          BY <3>2 DEF IInv, StartsInv
        <4>2. a \in Starts(Seen') /\ groups'[k] = Execution(Seen', a)
          BY <1>2, <1>4, <1>7, <3>2, <4>1
        <4>3. QED
          BY <4>2
      <3>3. QED
        BY <1>2, <3>1, <3>2
    <2>2. ASSUME NEW a \in Starts(Seen')
          PROVE  \E k \in 1..(n + 1) : groups'[k] = Execution(Seen', a)
      <3>1. a \in 1..(i + 1)
        BY <1>a, StartsOfPrefix
      <3>2. CASE a = i + 1
        <4>1. groups'[n + 1] = Execution(Seen', a) /\ n + 1 \in 1..(n + 1)
          BY <1>2, <1>8, <3>2
        <4>2. QED
          BY <4>1
      <3>3. CASE a \in 1..i
        <4>1. a \in Starts(Seen)
          BY <1>4, <3>3
        <4>2. PICK k \in 1..n : groups[k] = Execution(Seen, a)
          BY <4>1 DEF IInv, StartsInv
        <4>3. groups'[k] = Execution(Seen', a) /\ k \in 1..(n + 1)
          BY <1>2, <1>7, <4>1, <4>2
        <4>4. QED
          BY <4>3
      <3>4. QED
        BY <3>1, <3>2, <3>3 DEF TypeOK
    <2>3. QED
      BY <1>2, <2>1, <2>2 DEF StartsInv
  <1>10. GroupsAreInOrder'
    <2> SUFFICES ASSUME NEW j \in 1..(n + 1), NEW k \in 1..(n + 1), j < k,
                        NEW f \in groups'[j], NEW g \in groups'[k]
                 PROVE  f < g
      BY <1>2 DEF GroupsAreInOrder
    <2>1. j \in 1..n /\ f \in groups[j] /\ f \in 1..i
      BY <1>2 DEF IInv, SeenInv
    <2>2. CASE k = n + 1
      BY <1>2, <2>1, <2>2 DEF TypeOK
    <2>3. CASE k \in 1..n
      BY <1>2, <2>1, <2>3 DEF IInv, GroupsAreInOrder
    <2>4. QED
      BY <1>2, <2>2, <2>3
  <1>11. GroupsHaveOneBeginAndEnd'
    <2> SUFFICES ASSUME NEW k \in 1..(n + 1), NEW f \in groups'[k], NEW g \in groups'[k],
                        f < g
                 PROVE  kinds[g] # "BEGIN" /\ kinds[f] # "END"
      BY <1>1, <1>2 DEF GroupsHaveOneBeginAndEnd
    <2>1. CASE k = n + 1
      BY <1>1, <1>2, <2>1
    <2>2. CASE k \in 1..n
      BY <1>2, <2>2 DEF IInv, GroupsHaveOneBeginAndEnd
    <2>3. QED
      BY <1>2, <2>1, <2>2
  <1>12. QED
    BY <1>5, <1>6, <1>9, <1>10, <1>11 DEF IInv

\* ... and when it joins the group that is open.
LEMMA AppendFrameInv ==
  ASSUME TypeOK, TypeOK', IInv, NextFrame,
         kinds[i + 1] # "BEGIN", current, AppendFrame(i + 1)
  PROVE  IInv'
  <1> DEFINE n == Len(groups)
  <1>1. /\ kinds' = kinds /\ i' = i + 1 /\ i + 1 \in 1..Len(kinds)
        /\ current' = (kinds[i + 1] # "END")
    BY DEF NextFrame, TypeOK
  <1>a. /\ Seen = SubSeq(kinds, 1, i) /\ Seen' = SubSeq(kinds, 1, i + 1)
        /\ kinds \in Seq(Kinds) /\ i \in 0..Len(kinds) /\ i + 1 \in 0..Len(kinds)
    BY <1>1 DEF Seen, TypeOK
  <1>b. i > 0 /\ kinds[i] # "END" /\ groups # <<>> /\ i \in groups[n]
    BY <1>a DEF IInv, OpenInv
  <1>2. /\ n \in 1..n /\ n \in Nat
        /\ Len(groups') = n
        /\ groups'[n] = groups[n] \cup {i + 1}
        /\ \A k \in 1..n : k # n => groups'[k] = groups[k]
    BY <1>b DEF AppendFrame, TypeOK
  <1>3. i + 1 \notin Starts(Seen')
    <2>1. kinds[i + 1] # "BEGIN" /\ i + 1 # 1 /\ kinds[(i + 1) - 1] # "END"
      BY <1>a, <1>b
    <2>2. QED
      BY <1>a, <2>1, StartsOfPrefix
  <1>4. Starts(Seen') = Starts(Seen)
    <2>1. ASSUME NEW a PROVE a \in Starts(Seen') <=> a \in Starts(Seen)
      <3>1. CASE a \in 1..i
        <4>1. a \in 1..(i + 1)
          BY <1>a, <3>1
        <4>2. QED
          BY <1>a, <3>1, <4>1, StartsOfPrefix
      <3>2. CASE a \notin 1..i
        <4>1. a \notin Starts(Seen)
          BY <1>a, <3>2, StartsOfPrefix
        <4>2. a \in Starts(Seen') => a \in 1..(i + 1)
          BY <1>a, StartsOfPrefix
        <4>3. a \notin Starts(Seen')
          BY <1>a, <1>3, <3>2, <4>2
        <4>4. QED
          BY <4>1, <4>3
      <3>3. QED
        BY <3>1, <3>2
    <2>2. QED
      BY <2>1 DEF Starts
  <1>5. PICK last \in Starts(Seen) : groups[n] = Execution(Seen, last)
    BY <1>2 DEF IInv, StartsInv
  <1>c. \A a \in Starts(Seen) : a \in 1..i
    BY <1>a, StartsOfPrefix
  <1>d. \A s \in (last + 1)..(i + 1) : s \notin Starts(Seen)
    <2>1. \A s \in (last + 1)..i : s \notin Starts(Seen)
      BY <1>a, <1>b, <1>c, <1>5, ExecutionOfPrefix
    <2>2. QED
      BY <1>a, <1>c, <2>1
  <1>6. ASSUME NEW a \in Starts(Seen), NEW k
        PROVE  k \in Execution(Seen', a) <=>
                  k \in Execution(Seen, a) \/ (a = last /\ k = i + 1)
    <2>1. a \in 1..i /\ a \in 1..(i + 1)
      BY <1>a, <1>c
    <2>2. k \in Execution(Seen', a) <=>
            k \in 1..(i + 1) /\ k >= a /\ \A s \in (a + 1)..k : s \notin Starts(Seen)
      BY <1>a, <1>4, <2>1, ExecutionOfPrefix
    <2>3. k \in Execution(Seen, a) <=>
            k \in 1..i /\ k >= a /\ \A s \in (a + 1)..k : s \notin Starts(Seen)
      BY <1>a, <2>1, ExecutionOfPrefix
    <2>4. CASE k # i + 1
      BY <1>a, <2>2, <2>3, <2>4
    <2>5. CASE k = i + 1
      <3>1. k \in 1..(i + 1) /\ k >= a /\ k \notin 1..i
        BY <1>a, <2>1, <2>5
      <3>2. CASE a = last
        BY <1>d, <2>2, <2>5, <3>1, <3>2
      <3>3. CASE a < last
        <4>1. last \in (a + 1)..k
          BY <1>a, <1>c, <2>1, <2>5, <3>3
        <4>2. QED
          BY <2>1, <2>2, <2>3, <3>1, <3>3, <4>1, <1>c
      <3>4. CASE a > last
        <4>1. a \in (last + 1)..(i + 1)
          BY <1>a, <1>c, <2>1, <3>4
        <4>2. QED
          BY <1>d, <4>1
      <3>5. QED
        BY <1>c, <2>1, <3>2, <3>3, <3>4
    <2>6. QED
      BY <2>4, <2>5
  <1>7. /\ Execution(Seen', last) = groups'[n]
        /\ \A a \in Starts(Seen) : a # last => Execution(Seen', a) = Execution(Seen, a)
    BY <1>2, <1>5, <1>6 DEF Execution
  <1>8. OpenInv'
    <2>1. i + 1 > 0 /\ i + 1 # 0 /\ groups' # <<>>
      BY <1>1, <1>2
    <2>2. current' <=> kinds'[i'] # "END"
      BY <1>1
    <2>3. i + 1 \in groups'[Len(groups')]
      BY <1>2
    <2>4. QED
      BY <1>1, <2>1, <2>2, <2>3 DEF OpenInv
  <1>9. SeenInv'
    <2> SUFFICES ASSUME NEW k \in 1..n PROVE groups'[k] \subseteq 1..(i + 1)
      BY <1>1, <1>2 DEF SeenInv
    <2>1. groups[k] \subseteq 1..i
      BY DEF IInv, SeenInv
    <2>2. QED
      BY <1>a, <1>2, <2>1
  <1>e. \A k \in 1..n : k # n => groups[k] # groups[n]
    <2> SUFFICES ASSUME NEW k \in 1..n, k # n, groups[k] = groups[n] PROVE FALSE
      OBVIOUS
    <2>1. k < n
      BY <1>2
    <2>2. i < i
      BY <1>b, <1>2, <2>1 DEF IInv, GroupsAreInOrder
    <2>3. QED
      BY <1>a, <2>2
  <1>10. StartsInv'
    <2>1. ASSUME NEW k \in 1..n
          PROVE  \E a \in Starts(Seen') : groups'[k] = Execution(Seen', a)
      <3>1. CASE k = n
        BY <1>4, <1>7, <3>1
      <3>2. CASE k # n
        <4>1. PICK a \in Starts(Seen) : groups[k] = Execution(Seen, a)
          BY DEF IInv, StartsInv
        <4>2. a # last
          BY <1>e, <1>5, <3>2, <4>1
        <4>3. groups'[k] = Execution(Seen', a)
          BY <1>2, <1>7, <3>2, <4>1, <4>2
        <4>4. QED
          BY <1>4, <4>3
      <3>3. QED
        BY <3>1, <3>2
    <2>2. ASSUME NEW a \in Starts(Seen')
          PROVE  \E k \in 1..n : groups'[k] = Execution(Seen', a)
      <3>1. CASE a = last
        BY <1>2, <1>7, <3>1
      <3>2. CASE a # last
        <4>1. Execution(Seen', a) = Execution(Seen, a)
          BY <1>4, <1>7, <3>2
        <4>2. PICK k \in 1..n : groups[k] = Execution(Seen, a)
          BY <1>4 DEF IInv, StartsInv
        <4>3. k # n
          <5> SUFFICES ASSUME k = n PROVE FALSE
            OBVIOUS
          <5>1. i + 1 \in Execution(Seen', last) /\ i + 1 \notin Execution(Seen', a)
            BY <1>4, <1>5, <1>6, <3>2, ExecutionOfPrefix, <1>a, <1>c, <4>1
          <5>2. a \in Execution(Seen, last) /\ last \in Execution(Seen, a)
            <6>1. a \in Execution(Seen, a) /\ last \in Execution(Seen, last)
              BY <1>a, <1>c, <1>4, ExecutionOfPrefix
            <6>2. QED
              BY <1>5, <4>2, <6>1
          <5>3. a >= last /\ last >= a
            BY <1>a, <1>c, <1>4, <5>2, ExecutionOfPrefix
          <5>4. QED
            BY <1>a, <1>c, <1>4, <3>2, <5>3
        <4>4. groups'[k] = Execution(Seen', a)
          BY <1>2, <4>1, <4>2, <4>3
        <4>5. QED
          BY <4>4
      <3>3. QED
        BY <3>1, <3>2
    <2>3. QED
      BY <1>2, <2>1, <2>2 DEF StartsInv
  <1>11. GroupsAreInOrder'
    <2> SUFFICES ASSUME NEW j \in 1..n, NEW k \in 1..n, j < k,
                        NEW f \in groups'[j], NEW g \in groups'[k]
                 PROVE  f < g
      BY <1>2 DEF GroupsAreInOrder
    <2>1. j # n /\ f \in groups[j] /\ f \in 1..i
      BY <1>2 DEF IInv, SeenInv
    <2>2. CASE g = i + 1
      BY <1>a, <2>1, <2>2
    <2>3. CASE g # i + 1
      <3>1. g \in groups[k]
        BY <1>2, <2>3
      <3>2. QED
        BY <2>1, <3>1 DEF IInv, GroupsAreInOrder
    <2>4. QED
      BY <2>2, <2>3
  <1>12. GroupsHaveOneBeginAndEnd'
    <2> SUFFICES ASSUME NEW k \in 1..n, NEW f \in groups'[k], NEW g \in groups'[k],
                        f < g
                 PROVE  kinds[g] # "BEGIN" /\ kinds[f] # "END"
      BY <1>1, <1>2 DEF GroupsHaveOneBeginAndEnd
    <2>1. CASE f \in groups[k] /\ g \in groups[k]
      BY <2>1 DEF IInv, GroupsHaveOneBeginAndEnd
    <2>2. CASE k = n /\ g = i + 1 /\ f \in groups[n]
      <3>1. f \in 1..i
        BY <1>2, <2>2 DEF IInv, SeenInv
      <3>2. f < i => kinds[f] # "END"
        BY <1>b, <1>2, <2>2 DEF IInv, GroupsHaveOneBeginAndEnd
      <3>3. QED
        BY <1>a, <1>b, <2>2, <3>1, <3>2
    <2>3. CASE f = i + 1
      <3>1. g \in 1..(i + 1)
        BY <1>1, <1>2, <1>9 DEF SeenInv
      <3>2. QED
        BY <1>a, <2>3, <3>1
    <2>4. QED
      BY <1>2, <2>1, <2>2, <2>3
  <1>13. QED
    BY <1>8, <1>9, <1>10, <1>11, <1>12 DEF IInv

LEMMA IInvStep == TypeOK /\ IInv /\ [Next]_vars => IInv'
  <1> SUFFICES ASSUME TypeOK, IInv, [Next]_vars PROVE IInv'
    OBVIOUS
  <1>1. TypeOK'
    BY TypeStep DEF IInv
  <1>2. CASE UNCHANGED vars
    BY <1>2 DEF vars, IInv, OpenInv, SeenInv, StartsInv, Seen, GroupsAreInOrder,
       GroupsHaveOneBeginAndEnd
  <1>3. CASE NextFrame
    <2>1. CASE (kinds[i + 1] = "BEGIN" \/ ~current) /\ OpenGroup(i + 1)
      BY <1>1, <1>3, <2>1, OpenGroupInv
    <2>2. CASE kinds[i + 1] # "BEGIN" /\ current /\ AppendFrame(i + 1)
      BY <1>1, <1>3, <2>2, AppendFrameInv
    <2>3. QED
      BY <1>3, <2>1, <2>2 DEF NextFrame
  <1>4. QED
    BY <1>2, <1>3 DEF Next

----------------------------------------------------------------------------
LEMMA Invariant == Spec => [](TypeOK /\ IInv)
  <1>1. Init => TypeOK /\ IInv
    BY TypeInit, IInvInit
  <1>2. TypeOK /\ IInv /\ [Next]_vars => (TypeOK /\ IInv)'
    BY TypeStep, IInvStep DEF IInv
  <1>3. QED
    BY <1>1, <1>2, PTL DEF Spec

\* Every variable of the loop keeps to its type, for streams of any length.
THEOREM TypeCorrect == Spec => []TypeOK
  BY Invariant, PTL

\* The loop of ScriptTrace.executions makes exactly the executions of the frames
\* it has seen: no frame of any stream is lost or put in two groups.
THEOREM LoopMakesExecutionsCorrect == Spec => []LoopMakesExecutions
  <1>1. IInv => LoopMakesExecutions
    BY DEF IInv, StartsInv, Seen, LoopMakesExecutions, Executions
  <1>2. QED
    BY <1>1, Invariant, PTL

\* ScriptTrace.executions lists the groups in the order of their frames, and in
\* each of them a BEGIN frame is the first and an END frame the last.
THEOREM GroupsAreExecutionsCorrect == Spec => []GroupsAreExecutions
  <1>1. IInv => GroupsAreExecutions
    BY DEF IInv, GroupsAreExecutions
  <1>2. QED
    BY <1>1, Invariant, PTL

----------------------------------------------------------------------------
(* The error of a trace.                                                   *)

Failed(j) == kinds[j] = "END" /\ errors[j] # OK

\* Every frame seen is in a group, and if one of them failed, one is the first.
ErrorInv ==
    /\ \A f \in 1..i : \E k \in 1..Len(groups) : f \in groups[k]
    /\ \A f \in 1..i : Failed(f) =>
          \E j \in 1..i : Failed(j) /\ \A k \in 1..i : Failed(k) => j <= k

LEMMA ErrorInvStep == TypeOK /\ IInv /\ ErrorInv /\ [Next]_vars => ErrorInv'
  <1> SUFFICES ASSUME TypeOK, IInv, ErrorInv, [Next]_vars  PROVE ErrorInv'
    OBVIOUS
  <1>1. CASE UNCHANGED vars
    BY <1>1 DEF vars, ErrorInv, Failed
  <1>2. CASE NextFrame
    <2>1. /\ kinds' = kinds /\ errors' = errors /\ i' = i + 1 /\ i \in Nat
          /\ i + 1 \in 1..Len(kinds)
      BY <1>2 DEF NextFrame, TypeOK
    <2>2. /\ Len(groups') \in Nat /\ Len(groups') >= Len(groups)
          /\ \A k \in 1..Len(groups) : groups[k] \subseteq groups'[k]
          /\ \E k \in 1..Len(groups') : i + 1 \in groups'[k]
      <3>1. CASE OpenGroup(i + 1)
        <4>1. /\ Len(groups') = Len(groups) + 1 /\ Len(groups) \in Nat
              /\ \A k \in 1..Len(groups) : groups'[k] = groups[k]
              /\ groups'[Len(groups) + 1] = {i + 1}
          BY <3>1 DEF OpenGroup, TypeOK
        <4> QED
          BY <4>1
      <3>2. CASE current /\ AppendFrame(i + 1)
        <4>1. Len(groups) \in 1..Len(groups) /\ Len(groups) \in Nat
          BY <3>2 DEF IInv, OpenInv, TypeOK
        <4>2. /\ Len(groups') = Len(groups)
              /\ groups'[Len(groups)] = groups[Len(groups)] \cup {i + 1}
              /\ \A k \in 1..Len(groups) : k # Len(groups) => groups'[k] = groups[k]
          BY <3>2, <4>1 DEF AppendFrame, TypeOK
        <4> QED
          BY <4>1, <4>2
      <3> QED
        BY <1>2, <3>1, <3>2 DEF NextFrame
    <2>3. \A f \in 1..(i + 1) : \E k \in 1..Len(groups') : f \in groups'[k]
      <3> SUFFICES ASSUME NEW f \in 1..(i + 1)
                   PROVE  \E k \in 1..Len(groups') : f \in groups'[k]
        OBVIOUS
      <3>1. CASE f = i + 1
        BY <2>2, <3>1
      <3>2. CASE f \in 1..i
        <4>1. PICK k \in 1..Len(groups) : f \in groups[k]
          BY <3>2 DEF ErrorInv
        <4>2. k \in 1..Len(groups') /\ f \in groups'[k]
          BY <2>2, <4>1 DEF TypeOK
        <4> QED
          BY <4>2
      <3> QED
        BY <2>1, <3>1, <3>2
    <2>4. \A f \in 1..(i + 1) : Failed(f)' <=> Failed(f)
      BY <2>1 DEF Failed
    <2>5. ASSUME NEW f \in 1..(i + 1), Failed(f)
          PROVE  \E j \in 1..(i + 1) : Failed(j) /\ \A k \in 1..(i + 1) : Failed(k) => j <= k
      <3>1. CASE \E g \in 1..i : Failed(g)
        <4>1. PICK j \in 1..i : Failed(j) /\ \A k \in 1..i : Failed(k) => j <= k
          BY <3>1 DEF ErrorInv
        <4>2. j \in 1..(i + 1) /\ \A k \in 1..(i + 1) : k \in 1..i \/ j <= k
          BY <2>1
        <4> QED
          BY <4>1, <4>2
      <3>2. CASE ~ \E g \in 1..i : Failed(g)
        <4>1. f = i + 1 /\ \A k \in 1..(i + 1) : Failed(k) => f <= k
          BY <2>1, <2>5, <3>2
        <4> QED
          BY <2>5, <4>1
      <3> QED
        BY <3>1, <3>2
    <2> QED
      BY <2>1, <2>3, <2>4, <2>5 DEF ErrorInv
  <1> QED
    BY <1>1, <1>2 DEF Next

\* error is that of the first END frame that has one, in the whole stream: the
\* error of the first group that reports one is the first error of all.
THEOREM ErrorIsTheFirstCorrect == Spec => []ErrorIsTheFirst
  <1>1. Init => ErrorInv
    <2> SUFFICES ASSUME Init  PROVE ErrorInv
      OBVIOUS
    <2>1. i = 0
      BY DEF Init, InitWith
    <2> QED
      BY <2>1 DEF ErrorInv
  <1>2. TypeOK /\ IInv /\ ErrorInv => ErrorIsTheFirst
    <2> SUFFICES ASSUME TypeOK, IInv, ErrorInv, i = Len(kinds)
                 PROVE  LET failed == {j \in 1..Len(kinds) : Failed(j)}
                        IN  TraceError = IF failed = {} THEN OK ELSE errors[First(failed)]
      BY DEF ErrorIsTheFirst, Done, Failed
    <2> DEFINE n == Len(groups)
               frames == {j \in 1..i : Failed(j)}
               bad == {k \in 1..n : GroupError(groups[k]) # OK}
    <2>1. n \in Nat /\ i \in Nat /\ \A k \in 1..n : groups[k] \subseteq 1..i
      BY DEF TypeOK, IInv, SeenInv
    \* A group has one END frame at most, and reports that frame's error.
    <2>2. ASSUME NEW k \in 1..n, NEW e \in groups[k], kinds[e] = "END"
          PROVE  GroupError(groups[k]) = errors[e]
      <3>1. e \in Ends(groups[k])
        BY <2>2 DEF Ends
      <3>2. ASSUME NEW f \in Ends(groups[k])  PROVE f = e
        <4>1. f \in groups[k] /\ kinds[f] = "END" /\ f \in 1..i /\ e \in 1..i
          BY <2>1 DEF Ends
        <4>2. ~(f < e) /\ ~(e < f)
          BY <2>2, <4>1 DEF IInv, GroupsHaveOneBeginAndEnd
        <4> QED
          BY <2>1, <4>1, <4>2
      <3>3. e <= e
        BY <2>1
      <3>4. Last(Ends(groups[k])) = e
        BY <3>1, <3>2, <3>3 DEF Last
      <3> QED
        BY <3>1, <3>4 DEF GroupError
    <2>3. ASSUME NEW k \in bad  PROVE \E e \in groups[k] : Failed(e)
      <3>1. PICK e \in groups[k] : kinds[e] = "END"
        BY DEF GroupError, Ends
      <3> QED
        BY <2>2, <3>1 DEF Failed
    <2>4. ASSUME NEW k \in 1..n, NEW e \in groups[k], Failed(e)
          PROVE  k \in bad
      BY <2>2, <2>4 DEF Failed
    <2>5. CASE frames = {}
      <3>1. bad = {}
        BY <2>1, <2>3, <2>5
      <3> QED
        BY <2>5, <3>1 DEF TraceError
    <2>6. CASE frames # {}
      <3>1. PICK j \in 1..i : Failed(j) /\ \A k \in 1..i : Failed(k) => j <= k
        BY <2>6 DEF ErrorInv
      <3>2. First(frames) = j
        <4>1. \A k \in frames : (\A l \in frames : k <= l) => k = j
          BY <2>1, <3>1
        <4>2. j \in frames /\ \A l \in frames : j <= l
          BY <3>1
        <4> QED
          BY <4>1, <4>2 DEF First
      <3>3. PICK k \in 1..n : j \in groups[k]
        BY <3>1 DEF ErrorInv
      <3>4. k \in bad /\ GroupError(groups[k]) = errors[j]
        BY <2>2, <2>4, <3>1, <3>3 DEF Failed
      <3>5. ASSUME NEW l \in bad  PROVE k <= l
        <4>1. PICK e \in groups[l] : Failed(e)
          BY <2>3
        <4>2. l \in 1..n /\ e \in 1..i /\ j <= e
          BY <2>1, <3>1, <4>1
        <4>3. ~(l < k)
          BY <2>1, <3>1, <3>3, <4>2 DEF IInv, GroupsAreInOrder
        <4> QED
          BY <2>1, <4>2, <4>3
      <3>6. First(bad) = k
        <4>1. \A l \in bad : (\A q \in bad : l <= q) => l = k
          BY <2>1, <3>4, <3>5
        <4> QED
          BY <3>4, <3>5, <4>1 DEF First
      <3> QED
        BY <2>6, <3>2, <3>4, <3>6 DEF TraceError
    <2> QED
      BY <2>5, <2>6
  <1> QED
    BY <1>1, <1>2, ErrorInvStep, Invariant, PTL DEF Spec
=============================================================================
