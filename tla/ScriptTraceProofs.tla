--------------------------- MODULE ScriptTraceProofs ---------------------------
(***************************************************************************)
(* The script trace hook, for any number of threads, contexts, scripts and *)
(* frames.                                                                 *)
(*                                                                         *)
(* A context's callback is in the slot from its entry until the next entry *)
(* or exit, and never again.  So what it receives of one script is a run   *)
(* of frames that goes on to the newest frame as long as the callback is   *)
(* in the slot.  When contexts and evaluations do not mix, that is while   *)
(* its context is active, and one thread evaluates one script after the    *)
(* other in it.                                                            *)
(***************************************************************************)
EXTENDS ScriptTrace, SequenceTheorems, TLAPS

InFlight(t, c) == pending[t] # None /\ pending[t][1] = c

\* The slot holds the context that was entered last, or nothing.  A context that
\* was not entered yet has left no trace.
SlotInv ==
    /\ \A c \in Active : by[c] # None
    /\ slot # None => Len(entered) > 0 /\ slot = Last(entered)
    /\ \A c \in Tracers : by[c] = None =>
          /\ frames[c] = <<>> /\ own[c] = {}
          /\ \A t \in Threads : ~InFlight(t, c)

\* A thread in a call evaluates a script of its own and delivers its last frame.
ScriptInv ==
    /\ \A t \in Threads : script[t] = None <=> mode[t] = "python"
    /\ \A t \in Threads : script[t] = None => pending[t] = None
    /\ \A t, u \in Threads : script[t] # None /\ script[t] = script[u] => t = u
    /\ \A t \in Threads : pending[t] # None =>
          /\ pending[t] = <<pending[t][1], <<script[t], sent[t]>> >>
          /\ <<script[t], sent[t]>> \in due[pending[t][1]]

\* What a callback received of a script that is being evaluated has come from
\* its last frames but the one in delivery.
Reaches(c, t, f) ==
    \A n \in f[2]..sent[t] :
        \/ <<f[1], n>> \in Range(frames[c]) \cup lost
        \/ pending[t] = <<c, <<f[1], n>> >>

RunInv ==
    \A c \in Tracers, t \in Threads : \A f \in Range(frames[c]) :
        f[1] = script[t] =>
            /\ f[2] <= sent[t]
            /\ pending[t] # None => f[2] < sent[t]
            /\ slot = c \/ InFlight(t, c) => Reaches(c, t, f)

StreamInv == FramesWereDue /\ StreamsHaveNoGaps /\ RunInv

\* Without mixing, the one active context is in the slot and all evaluations are
\* those of its thread.
AloneInv ==
    ~mixed =>
        /\ Len(entered) <= 1
        /\ \A c \in Active : slot = c
        /\ \A c \in Active, t \in Threads :
              script[t] # None => by[c] = t /\ script[t] \in own[c]
        /\ \A t \in Threads : pending[t] # None => pending[t][1] \in Active

\* ... and of every script in a context all frames have come, or those up to now.
Whole(c, s) == {s} \X (1..FramesPerScript) \subseteq Range(frames[c]) \cup lost
SoFar(c, s) ==
    /\ c \in Active /\ script[by[c]] = s
    /\ \A n \in 1..sent[by[c]] :
          \/ <<s, n>> \in Range(frames[c]) \cup lost
          \/ pending[by[c]] = <<c, <<s, n>> >>
WholeInv == ~mixed => \A c \in Tracers : \A s \in own[c] : Whole(c, s) \/ SoFar(c, s)

\* ... and when none was lost they have come in blocks, one for each script.
Received(t) == IF pending[t] = None THEN sent[t] ELSE sent[t] - 1

\* The frame at j is in its place in a block.
InBlock(fs, j) ==
    /\ fs[j][2] <= j
    /\ \A i \in 1..FramesPerScript :
          j - fs[j][2] + i \in 1..Len(fs) => fs[j - fs[j][2] + i] = <<fs[j][1], i>>
\* The block of the frame at j has ended.
Ended(fs, j) == j - fs[j][2] + FramesPerScript <= Len(fs)
\* It is the one that is growing.
Growing(c, j) ==
    LET fs == frames[c]
    IN  /\ c \in Active /\ script[by[c]] = fs[j][1]
        /\ Len(fs) = j - fs[j][2] + Received(by[c])
\* Where a block grows.
GrowsAtEnd(c) ==
    LET fs == frames[c]
        t == by[c]
    IN  c \in Active /\ script[t] # None =>
            /\ Received(t) > 0 => Len(fs) >= Received(t) /\ fs[Len(fs)] = <<script[t], Received(t)>>
            /\ Received(t) = 0 => \A j \in 1..Len(fs) : fs[j][1] # script[t]

BlockInv ==
    ~mixed /\ lost = {} =>
        \A c \in Tracers :
            /\ GrowsAtEnd(c)
            /\ \A j \in 1..Len(frames[c]) :
                  /\ frames[c][j][1] \in own[c]
                  /\ InBlock(frames[c], j)
                  /\ Ended(frames[c], j) \/ Growing(c, j)

IInv == TypeOK /\ SlotInv /\ ScriptInv /\ StreamInv /\ AloneInv /\ WholeInv /\ BlockInv

----------------------------------------------------------------------------
LEMMA ItemsOfSeq ==
  ASSUME NEW S, NEW s \in Seq(S)
  PROVE  /\ \A x : x \in Range(s) <=> \E i \in 1..Len(s) : s[i] = x
         /\ Range(s) \subseteq S
  BY DEF Range

LEMMA RangeOfAppend ==
  ASSUME NEW S, NEW s \in Seq(S), NEW e \in S
  PROVE  Range(Append(s, e)) = Range(s) \cup {e}
  <1>1. /\ Append(s, e) \in Seq(S)
        /\ Len(Append(s, e)) = Len(s) + 1 /\ Len(s) \in Nat
        /\ \A i \in 1..Len(s) : Append(s, e)[i] = s[i]
        /\ Append(s, e)[Len(s) + 1] = e
    BY AppendProperties
  <1>2. \A i \in 1..(Len(s) + 1) : i \in 1..Len(s) \/ i = Len(s) + 1
    BY <1>1
  <1>3. 1..Len(s) \subseteq 1..(Len(s) + 1) /\ Len(s) + 1 \in 1..(Len(s) + 1)
    BY <1>1
  <1> DEFINE a == Append(s, e)
  <1>0. a \in Seq(S) /\ Len(a) = Len(s) + 1
    BY <1>1
  <1>6. (\A i \in 1..Len(s) : a[i] = s[i]) /\ a[Len(s) + 1] = e
    BY <1>1
  <1> HIDE DEF a
  <1>4. \A x : x \in Range(a) <=> \E i \in 1..(Len(s) + 1) : a[i] = x
    <2>1. \A x : x \in Range(a) <=> \E i \in 1..Len(a) : a[i] = x
      BY <1>0, ItemsOfSeq
    <2> QED
      BY <1>0, <2>1
  <1>5. \A x : x \in Range(s) <=> \E i \in 1..Len(s) : s[i] = x
    BY ItemsOfSeq
  <1>7. \A x : x \in Range(a) <=> x \in Range(s) \/ x = e
    BY <1>2, <1>3, <1>4, <1>5, <1>6
  <1> QED
    BY <1>7 DEF a

\* Taking an item out of a sequence.
LEMMA Removing ==
  ASSUME NEW S, NEW s \in Seq(S), NEW k \in 1..Len(s)
  PROVE  /\ RemoveAt(s, k) \in Seq(S)
         /\ Len(RemoveAt(s, k)) = Len(s) - 1
         /\ Range(RemoveAt(s, k)) \subseteq Range(s)
  <1> DEFINE l == SubSeq(s, 1, k - 1)
             r == SubSeq(s, k + 1, Len(s))
  <1>1. l \in Seq(S) /\ Len(l) = k - 1 /\ \A i \in 1..(k - 1) : l[i] = s[i]
    BY SubSeqProperties
  <1>2. r \in Seq(S) /\ Len(r) = Len(s) - k /\ \A i \in 1..(Len(s) - k) : r[i] = s[k + i]
    BY SubSeqProperties
  <1>3. RemoveAt(s, k) = l \o r
    BY DEF RemoveAt
  <1> HIDE DEF l, r
  <1>4. l \o r \in Seq(S) /\ Len(l \o r) = Len(s) - 1 /\ Len(s) \in Nat
    <2>1. l \o r \in Seq(S) /\ Len(l \o r) = Len(l) + Len(r)
      BY <1>1, <1>2, ConcatProperties
    <2>2. (k - 1) + (Len(s) - k) = Len(s) - 1 /\ Len(s) \in Nat
      OBVIOUS
    <2> QED
      BY <1>1, <1>2, <2>1, <2>2
  <1>5. Range(l \o r) \subseteq Range(s)
    <2> DEFINE m == l \o r
    <2>0. m \in Seq(S)
      BY <1>4
    <2> SUFFICES ASSUME NEW i \in 1..Len(m)  PROVE m[i] \in Range(s)
      <3>1. (\A i \in 1..Len(m) : m[i] \in Range(s)) => Range(m) \subseteq Range(s)
        <4> HIDE DEF m
        <4> QED
          BY <2>0, ItemsOfSeq
      <3> QED
        BY <3>1
    <2>1. CASE i <= k - 1
      <3>1. (l \o r)[i] = s[i] /\ i \in 1..Len(s)
        BY <1>1, <1>2, <1>4, <2>1
      <3> QED
        BY <3>1, ItemsOfSeq
    <2>2. CASE i > k - 1
      <3>1. (l \o r)[i] = s[i + 1] /\ i + 1 \in 1..Len(s)
        <4>1. (l \o r)[i] = r[i - (k - 1)]
          BY <1>1, <1>2, <1>4, <2>2
        <4>2. i - (k - 1) \in 1..(Len(s) - k) /\ k + (i - (k - 1)) = i + 1
          BY <1>4, <2>2
        <4> QED
          BY <1>2, <4>1, <4>2
      <3> QED
        BY <3>1, ItemsOfSeq
    <2> QED
      BY <1>4, <2>1, <2>2
  <1> QED
    BY <1>3, <1>4, <1>5

LEMMA InvariantInit == Init => IInv
  <1> SUFFICES ASSUME Init  PROVE IInv
    OBVIOUS
  <1> USE DEF Init
  <1>1. Range(<<>>) = {} /\ Len(<<>>) = 0
    BY DEF Range
  <1>2. TypeOK
    <2>1. 0 \in 0..FramesPerScript
      BY ConstantsAssumption
    <2>2. <<>> \in Seq(Tracers) /\ <<>> \in Seq(Frames)
      OBVIOUS
    <2> QED
      BY <2>1, <2>2 DEF TypeOK
  <1>3. SlotInv /\ AloneInv
    BY <1>1 DEF SlotInv, AloneInv, InFlight, Active
  <1>4. ScriptInv
    BY DEF ScriptInv
  <1>5. StreamInv
    BY <1>1 DEF StreamInv, FramesWereDue, StreamsHaveNoGaps, RunInv
  <1>6. WholeInv /\ BlockInv
    BY <1>1 DEF WholeInv, BlockInv, GrowsAtEnd, Active
  <1> QED
    BY <1>2, <1>3, <1>4, <1>5, <1>6 DEF IInv

----------------------------------------------------------------------------
\* The GIL alone tells nothing of a trace.
LEMMA QuietStep ==
  ASSUME IInv, gil' \in Threads \cup {Free}, UNCHANGED <<hook, evaluation, received, history>>
  PROVE  IInv'
  <1> USE DEF IInv, hook, evaluation, received, history
  <1>1. TypeOK'
    BY DEF TypeOK
  <1>2. SlotInv'
    BY DEF SlotInv, Active, InFlight
  <1>3. ScriptInv'
    BY DEF ScriptInv
  <1>4. StreamInv'
    BY DEF StreamInv, FramesWereDue, StreamsHaveNoGaps, RunInv, Reaches, InFlight
  <1>5. AloneInv' /\ WholeInv'
    BY DEF AloneInv, WholeInv, Whole, SoFar, Active
  <1>6. BlockInv'
    BY DEF BlockInv, GrowsAtEnd, Growing, Received, Active
  <1> QED
    BY <1>1, <1>2, <1>3, <1>4, <1>5, <1>6

LEMMA TypeFacts ==
  ASSUME TypeOK
  PROVE  /\ FramesPerScript \in Nat /\ FramesPerScript >= 2
         /\ None \notin Threads /\ None \notin Tracers /\ None \notin Scripts
         /\ None \notin Tracers \X Frames
         /\ \A c \in Tracers : /\ frames[c] \in Seq(Frames) /\ Len(frames[c]) \in Nat
                               /\ Range(frames[c]) \subseteq Frames
         /\ entered \in Seq(Tracers) /\ Active \subseteq Tracers
  BY ConstantsAssumption, ItemsOfSeq DEF TypeOK, Active

LEMMA FrameFacts ==
  ASSUME NEW f \in Frames
  PROVE  f[1] \in Scripts /\ f[2] \in 1..FramesPerScript /\ f = <<f[1], f[2]>>
  BY DEF Frames

\* Entry.  The callback of a context that was not entered yet has received
\* nothing, and the others' are out of the slot from here on.
LEMMA EnterStep ==
  ASSUME IInv, NEW t \in Threads, NEW c \in Tracers, Enter(t, c)
  PROVE  IInv'
  <1> USE DEF IInv
  <1>1. /\ mode[t] = "python" /\ by[c] = None /\ slot' = c /\ entered' = Append(entered, c)
        /\ by' = [by EXCEPT ![c] = t]
        /\ mixed' = (mixed \/ entered # <<>> \/ Evaluating # {})
        /\ UNCHANGED <<gil, mode, script, sent, pending, frames, lost, due, own>>
    BY DEF Enter, Running, evaluation, received
  <1>2. /\ entered' \in Seq(Tracers) /\ Len(entered') = Len(entered) + 1 /\ Len(entered) \in Nat
        /\ entered'[Len(entered) + 1] = c
        /\ Active' = Active \cup {c}
    BY <1>1, TypeFacts, AppendProperties, RangeOfAppend DEF Active
  <1>3. /\ by'[c] = t /\ \A d \in Tracers : d # c => by'[d] = by[d]
        /\ by \in [Tracers -> Threads \cup {None}] /\ by' \in [Tracers -> Threads \cup {None}]
    BY <1>1 DEF TypeOK
  <1>4. /\ frames[c] = <<>> /\ own[c] = {} /\ c \notin Active
        /\ \A u \in Threads : ~InFlight(u, c)
    BY <1>1 DEF SlotInv
  <1>5. TypeOK'
    BY <1>1, <1>2, <1>3 DEF TypeOK
  <1>6. SlotInv'
    <2>1. \A d \in Active' : by'[d] # None
      BY <1>2, <1>3, TypeFacts DEF SlotInv
    <2>2. Len(entered') > 0 /\ slot' = Last(entered')
      BY <1>1, <1>2 DEF Last
    <2>3. \A d \in Tracers : by'[d] = None => by[d] = None
      BY <1>1, <1>3
    <2> QED
      BY <1>1, <2>1, <2>2, <2>3 DEF SlotInv, InFlight
  <1>7. ScriptInv'
    BY <1>1 DEF ScriptInv
  <1>8. StreamInv'
    <2>1. Range(<<>>) = {}
      BY DEF Range
    <2>2. RunInv'
      <3> SUFFICES ASSUME NEW d \in Tracers, NEW u \in Threads, NEW f \in Range(frames[d]),
                          f[1] = script[u]
                   PROVE  /\ f[2] <= sent[u]
                          /\ pending[u] # None => f[2] < sent[u]
                          /\ slot' = d \/ InFlight(u, d) => Reaches(d, u, f)
        BY <1>1 DEF RunInv, Reaches, InFlight
      <3>1. d # c
        BY <1>4, <2>1
      <3> QED
        BY <1>1, <3>1 DEF StreamInv, RunInv
    <2>3. FramesWereDue' /\ StreamsHaveNoGaps'
      BY <1>1 DEF StreamInv, FramesWereDue, StreamsHaveNoGaps
    <2> QED
      BY <2>2, <2>3 DEF StreamInv
  <1>9. ~mixed' => /\ ~mixed /\ entered = <<>> /\ Active = {} /\ Active' = {c}
                   /\ \A u \in Threads : script[u] = None /\ pending[u] = None
    <2> SUFFICES ASSUME ~mixed'
                 PROVE  /\ ~mixed /\ entered = <<>> /\ Active = {} /\ Active' = {c}
                        /\ \A u \in Threads : script[u] = None /\ pending[u] = None
      OBVIOUS
    <2>1. mixed \in BOOLEAN
      BY DEF TypeOK
    <2>2. ~mixed /\ entered = <<>> /\ Evaluating = {}
      BY <1>1, <2>1
    <2>3. Active = {}
      BY <2>2 DEF Active, Range
    <2> QED
      BY <1>2, <2>2, <2>3 DEF Evaluating, ScriptInv
  <1>10. AloneInv'
    BY <1>1, <1>2, <1>9 DEF AloneInv
  <1>11. WholeInv'
    <2> SUFFICES ASSUME ~mixed', NEW d \in Tracers, NEW s \in own[d]  PROVE Whole(d, s)
      BY <1>1 DEF WholeInv, Whole
    <2> QED
      BY <1>9 DEF WholeInv, SoFar
  <1>12. BlockInv'
    <2> SUFFICES ASSUME ~mixed', lost = {}, NEW d \in Tracers
                 PROVE  /\ GrowsAtEnd(d)'
                        /\ \A j \in 1..Len(frames[d]) :
                              /\ frames[d][j][1] \in own[d]
                              /\ InBlock(frames[d], j)
                              /\ Ended(frames[d], j)
      BY <1>1 DEF BlockInv
    <2>1. GrowsAtEnd(d)'
      BY <1>1, <1>3, <1>9 DEF GrowsAtEnd
    <2> QED
      BY <1>9, <2>1 DEF BlockInv, Growing
  <1> QED
    BY <1>5, <1>6, <1>7, <1>8, <1>10, <1>11, <1>12

\* Exit.  Without mixing, the thread that leaves the context is the only one
\* that evaluated in it, and it has returned from its evaluations.
LEMMA LeaveStep ==
  ASSUME IInv, NEW t \in Threads, Leave(t)
  PROVE  IInv'
  <1> USE DEF IInv
  <1>1. /\ mode[t] = "python" /\ slot' = None
        /\ UNCHANGED <<gil, by, mode, script, sent, pending, frames, lost, due, own, mixed>>
    BY DEF Leave, Running, evaluation, received, history
  <1>2. PICK k \in 1..Len(entered) : by[entered[k]] = t /\ entered' = RemoveAt(entered, k)
    BY DEF Leave, PopContext
  <1>3. /\ entered' \in Seq(Tracers) /\ Len(entered') = Len(entered) - 1 /\ Active' \subseteq Active
        /\ entered[k] \in Active /\ Len(entered) \in Nat
    BY <1>2, TypeFacts, Removing, ItemsOfSeq DEF Active
  <1>4. TypeOK'
    BY <1>1, <1>3 DEF TypeOK
  <1>5. SlotInv'
    BY <1>1, <1>3 DEF SlotInv, InFlight
  <1>6. ScriptInv'
    BY <1>1 DEF ScriptInv
  <1>7. StreamInv'
    <2>1. None \notin Tracers
      BY TypeFacts
    <2>2. RunInv'
      BY <1>1, <2>1 DEF StreamInv, RunInv, Reaches, InFlight
    <2>3. FramesWereDue' /\ StreamsHaveNoGaps'
      BY <1>1 DEF StreamInv, FramesWereDue, StreamsHaveNoGaps
    <2> QED
      BY <2>2, <2>3 DEF StreamInv
  <1>8. ~mixed => /\ \A u \in Threads : script[u] = None /\ pending[u] = None
                  /\ Active' = {}
    <2> SUFFICES ASSUME ~mixed  PROVE /\ \A u \in Threads : script[u] = None /\ pending[u] = None
                                      /\ Active' = {}
      OBVIOUS
    <2>1. Len(entered) <= 1 /\ Len(entered') = 0
      BY <1>3 DEF AloneInv
    <2>2. Active' = {}
      <3>1. \A x : x \in Range(entered') <=> \E i \in 1..Len(entered') : entered'[i] = x
        BY <1>3, ItemsOfSeq
      <3>2. 1..Len(entered') = {}
        BY <2>1
      <3> QED
        BY <3>1, <3>2 DEF Active
    <2>3. \A u \in Threads : script[u] # None => u = t
      BY <1>2, <1>3 DEF AloneInv
    <2> QED
      BY <1>1, <2>2, <2>3 DEF ScriptInv
  <1>9. AloneInv'
    BY <1>1, <1>3, <1>8 DEF AloneInv
  <1>10. \A d \in Tracers : ~mixed /\ d \in Active => script[by[d]] = None
    BY <1>8 DEF SlotInv, TypeOK
  <1>11. WholeInv'
    <2> SUFFICES ASSUME ~mixed, NEW d \in Tracers, NEW s \in own[d]  PROVE Whole(d, s)
      BY <1>1 DEF WholeInv, Whole
    <2>1. s # None
      BY TypeFacts DEF TypeOK
    <2> QED
      BY <1>10, <2>1 DEF WholeInv, SoFar
  <1>12. BlockInv'
    <2> SUFFICES ASSUME ~mixed, lost = {}, NEW d \in Tracers
                 PROVE  /\ GrowsAtEnd(d)'
                        /\ \A j \in 1..Len(frames[d]) :
                              /\ frames[d][j][1] \in own[d]
                              /\ InBlock(frames[d], j)
                              /\ Ended(frames[d], j)
      BY <1>1 DEF BlockInv
    <2>1. GrowsAtEnd(d)'
      BY <1>8 DEF GrowsAtEnd
    <2>2. ASSUME NEW j \in 1..Len(frames[d])
          PROVE  frames[d][j][1] \in own[d] /\ InBlock(frames[d], j) /\ Ended(frames[d], j)
      <3>1. frames[d][j][1] \in own[d] /\ InBlock(frames[d], j)
            /\ (Ended(frames[d], j) \/ Growing(d, j))
        BY DEF BlockInv
      <3>2. frames[d][j][1] # None
        BY <3>1, TypeFacts DEF TypeOK
      <3> QED
        BY <1>10, <3>1, <3>2 DEF Growing
    <2> QED
      BY <2>1, <2>2
  <1> QED
    BY <1>4, <1>5, <1>6, <1>7, <1>9, <1>11, <1>12

\* A call begins.  It evaluates a script that no callback has seen a frame of,
\* and without mixing it is a call of the thread whose context is active.
LEMMA BeginStep ==
  ASSUME IInv, NEW t \in Threads, NEW s \in Scripts, NEW m \in Calls, Begin(t, s, m)
  PROVE  IInv'
  <1> USE DEF IInv
  <1>1. /\ gil = t /\ mode[t] = "python"
        /\ \A u \in Threads : script[u] # s
        /\ \A c \in Tracers : s \notin own[c] /\ \A f \in due[c] : f[1] # s
        /\ mode' = [mode EXCEPT ![t] = m]
        /\ script' = [script EXCEPT ![t] = s]
        /\ sent' = [sent EXCEPT ![t] = 0]
        /\ gil' = IF m = "verify" THEN t ELSE Free
        /\ own' = [c \in Tracers |-> IF c \in EnteredBy(t) THEN own[c] \cup {s} ELSE own[c]]
        /\ mixed' = (mixed \/ EnteredBy(t) # Active)
        /\ UNCHANGED <<slot, entered, by, pending, frames, lost, due>>
    BY DEF Begin, Running, Fresh, hook, received
  <1>2. /\ script'[t] = s /\ sent'[t] = 0 /\ mode'[t] = m
        /\ \A u \in Threads : u # t => /\ script'[u] = script[u] /\ sent'[u] = sent[u]
                                       /\ mode'[u] = mode[u]
    BY <1>1 DEF TypeOK
  <1>3. /\ m \in {"verify", "block"} /\ s # None
        /\ \A c \in Tracers : own[c] \subseteq own'[c] /\ own'[c] \subseteq own[c] \cup {s}
        /\ \A c \in Tracers : own'[c] # own[c] => c \in Active /\ by[c] = t
    BY <1>1, ConstantsAssumption DEF EnteredBy
  <1>4. TypeOK'
    <2>1. 0 \in 0..FramesPerScript
      BY ConstantsAssumption
    <2>2. own' \in [Tracers -> SUBSET Scripts]
      BY <1>1 DEF TypeOK
    <2>3. mode' \in [Threads -> {"python", "verify", "block"}] /\ mixed' \in BOOLEAN
      BY <1>1, <1>3 DEF TypeOK
    <2> QED
      BY <1>1, <2>1, <2>2, <2>3 DEF TypeOK
  <1>5. script[t] = None /\ pending[t] = None
    BY <1>1 DEF ScriptInv
  <1>6. SlotInv'
    <2>1. \A c \in Tracers : by[c] = None => own'[c] = own[c]
      BY <1>3, TypeFacts
    <2> QED
      BY <1>1, <2>1 DEF SlotInv, InFlight, Active
  <1>7. ScriptInv'
    BY <1>1, <1>2, <1>3, <1>5 DEF ScriptInv
  <1>8. \A c \in Tracers : \A f \in Range(frames[c]) : f[1] # s
    BY <1>1 DEF StreamInv, FramesWereDue
  <1>9. StreamInv'
    <2>1. RunInv'
      <3> SUFFICES ASSUME NEW c \in Tracers, NEW u \in Threads, NEW f \in Range(frames[c]),
                          f[1] = script'[u]
                   PROVE  /\ f[2] <= sent'[u]
                          /\ pending[u] # None => f[2] < sent'[u]
                          /\ slot = c \/ InFlight(u, c) => Reaches(c, u, f)'
        BY <1>1 DEF RunInv, InFlight
      <3>1. u # t
        BY <1>2, <1>8
      <3> QED
        BY <1>1, <1>2, <3>1 DEF StreamInv, RunInv, Reaches
    <2>2. FramesWereDue' /\ StreamsHaveNoGaps'
      BY <1>1 DEF StreamInv, FramesWereDue, StreamsHaveNoGaps
    <2> QED
      BY <2>1, <2>2 DEF StreamInv
  <1>10. ~mixed' => ~mixed /\ \A c \in Active : by[c] = t /\ own'[c] = own[c] \cup {s}
    <2> SUFFICES ASSUME ~mixed'
                 PROVE  ~mixed /\ \A c \in Active : by[c] = t /\ own'[c] = own[c] \cup {s}
      OBVIOUS
    <2>1. mixed \in BOOLEAN
      BY DEF TypeOK
    <2>2. ~mixed /\ EnteredBy(t) = Active
      BY <1>1, <2>1
    <2>3. Active \subseteq Tracers
      BY TypeFacts
    <2> QED
      BY <1>1, <2>2, <2>3 DEF EnteredBy
  <1>11. ~mixed' => Active \subseteq Tracers /\ \A c \in Active, u \in Threads :
                        script[u] # None => FALSE
    BY <1>5, <1>10, TypeFacts DEF AloneInv
  <1>12. AloneInv'
    <2> SUFFICES ASSUME ~mixed'
                 PROVE  /\ \A c \in Active, u \in Threads :
                              script'[u] # None => by[c] = u /\ script'[u] \in own'[c]
                        /\ Len(entered) <= 1
                        /\ \A c \in Active : slot = c
                        /\ \A u \in Threads : pending[u] # None => pending[u][1] \in Active
      BY <1>1 DEF AloneInv, Active
    <2> QED
      BY <1>2, <1>10, <1>11 DEF AloneInv
  <1>13. WholeInv'
    <2> SUFFICES ASSUME ~mixed', NEW c \in Tracers, NEW x \in own'[c]
                 PROVE  Whole(c, x)' \/ SoFar(c, x)'
      BY DEF WholeInv
    <2>1. CASE x = s
      <3>1. c \in Active /\ by[c] = t
        BY <1>1, <1>3, <2>1
      <3>2. \A n \in 1..sent'[t] : FALSE
        BY <1>2
      <3> QED
        BY <1>1, <1>2, <2>1, <3>1, <3>2 DEF SoFar, Active
    <2>2. CASE x # s
      <3>1. x \in own[c] /\ x # None
        BY <1>3, <2>2, TypeFacts DEF TypeOK
      <3>2. Whole(c, x) \/ SoFar(c, x)
        BY <1>10, <3>1 DEF WholeInv
      <3>3. ~SoFar(c, x)
        <4>1. c \in Active => script[by[c]] = None
          BY <1>5, <1>10
        <4> QED
          BY <3>1, <4>1 DEF SoFar
      <3> QED
        BY <1>1, <3>2, <3>3 DEF Whole
    <2> QED
      BY <2>1, <2>2
  <1>14. BlockInv'
    <2> SUFFICES ASSUME ~mixed', lost = {}, NEW c \in Tracers
                 PROVE  /\ GrowsAtEnd(c)'
                        /\ \A j \in 1..Len(frames[c]) :
                              /\ frames[c][j][1] \in own'[c]
                              /\ InBlock(frames[c], j)
                              /\ Ended(frames[c], j)
      BY <1>1 DEF BlockInv
    <2>1. GrowsAtEnd(c)'
      <3> SUFFICES ASSUME c \in Active
                   PROVE  /\ Received(t)' = 0
                          /\ \A j \in 1..Len(frames[c]) : frames[c][j][1] # s
        BY <1>1, <1>2, <1>10 DEF GrowsAtEnd, Active
      <3>1. Received(t)' = 0
        BY <1>1, <1>2, <1>5 DEF Received
      <3>2. \A j \in 1..Len(frames[c]) : frames[c][j] \in Range(frames[c])
        BY TypeFacts, ItemsOfSeq
      <3> QED
        BY <1>8, <3>1, <3>2
    <2>2. ASSUME NEW j \in 1..Len(frames[c])
          PROVE  frames[c][j][1] \in own'[c] /\ InBlock(frames[c], j) /\ Ended(frames[c], j)
      <3>1. frames[c][j][1] \in own[c] /\ InBlock(frames[c], j)
            /\ (Ended(frames[c], j) \/ Growing(c, j))
        BY <1>10 DEF BlockInv
      <3>2. frames[c][j][1] # None /\ frames[c][j][1] \in own'[c]
        BY <1>3, <3>1, TypeFacts DEF TypeOK
      <3>3. c \in Active => script[by[c]] = None
        BY <1>5, <1>10
      <3> QED
        BY <3>1, <3>2, <3>3 DEF Growing
    <2> QED
      BY <2>1, <2>2
  <1> QED
    BY <1>4, <1>6, <1>7, <1>9, <1>12, <1>13, <1>14

\* A call returns once its last frame was delivered.
LEMMA ReturnStep ==
  ASSUME IInv, NEW t \in Threads, Return(t)
  PROVE  IInv'
  <1> USE DEF IInv
  <1>1. /\ script[t] # None /\ sent[t] = FramesPerScript /\ pending[t] = None
        /\ gil' = t
        /\ mode' = [mode EXCEPT ![t] = "python"]
        /\ script' = [script EXCEPT ![t] = None]
        /\ UNCHANGED <<slot, entered, by, sent, pending, frames, lost, due, own, mixed>>
    BY DEF Return, hook, received, history
  <1>2. /\ script'[t] = None /\ mode'[t] = "python"
        /\ \A u \in Threads : u # t => script'[u] = script[u] /\ mode'[u] = mode[u]
    BY <1>1 DEF TypeOK
  <1>3. TypeOK'
    BY <1>1 DEF TypeOK
  <1>4. SlotInv'
    BY <1>1 DEF SlotInv, InFlight, Active
  <1>5. ScriptInv'
    BY <1>1, <1>2 DEF ScriptInv
  <1>6. StreamInv'
    <2>1. RunInv'
      <3> SUFFICES ASSUME NEW c \in Tracers, NEW u \in Threads, NEW f \in Range(frames[c]),
                          f[1] = script'[u]
                   PROVE  /\ f[2] <= sent[u]
                          /\ pending[u] # None => f[2] < sent[u]
                          /\ slot = c \/ InFlight(u, c) => Reaches(c, u, f)
        BY <1>1 DEF RunInv, InFlight, Reaches
      <3>1. f[1] # None
        BY TypeFacts, FrameFacts
      <3>2. u # t
        BY <1>2, <3>1
      <3> QED
        BY <1>2, <3>2 DEF StreamInv, RunInv
    <2>2. FramesWereDue' /\ StreamsHaveNoGaps'
      BY <1>1 DEF StreamInv, FramesWereDue, StreamsHaveNoGaps
    <2> QED
      BY <2>1, <2>2 DEF StreamInv
  <1>7. AloneInv'
    BY <1>1, <1>2 DEF AloneInv, Active
  <1>8. WholeInv'
    <2> SUFFICES ASSUME ~mixed, NEW c \in Tracers, NEW s \in own[c]
                 PROVE  Whole(c, s) \/ SoFar(c, s)'
      BY <1>1 DEF WholeInv, Whole
    <2>1. Whole(c, s) \/ SoFar(c, s)
      BY DEF WholeInv
    <2>2. CASE SoFar(c, s) /\ by[c] = t
      <3>1. None \notin Tracers \X Frames
        BY TypeFacts
      <3>2. \A n \in 1..FramesPerScript : <<s, n>> \in Range(frames[c]) \cup lost
        <4> SUFFICES ASSUME NEW n \in 1..FramesPerScript, pending[t] = <<c, <<s, n>> >>
                     PROVE  FALSE
          BY <1>1, <2>2 DEF SoFar
        <4>1. <<c, <<s, n>> >> \in Tracers \X Frames
          BY DEF Frames, TypeOK
        <4> QED
          BY <1>1, <3>1, <4>1
      <3> QED
        BY <3>2 DEF Whole
    <2>3. CASE SoFar(c, s) /\ by[c] # t
      <3>1. by[c] \in Threads
        BY <2>3 DEF SoFar, SlotInv, TypeOK
      <3> QED
        BY <1>1, <1>2, <2>3, <3>1 DEF SoFar, Active
    <2> QED
      BY <2>1, <2>2, <2>3
  <1>9. BlockInv'
    <2> SUFFICES ASSUME ~mixed, lost = {}, NEW c \in Tracers
                 PROVE  /\ GrowsAtEnd(c)'
                        /\ \A j \in 1..Len(frames[c]) :
                              /\ frames[c][j][1] \in own[c]
                              /\ InBlock(frames[c], j)
                              /\ Ended(frames[c], j) \/ Growing(c, j)'
      BY <1>1 DEF BlockInv
    <2>1. c \in Active => by[c] \in Threads
      BY DEF SlotInv, TypeOK
    <2>2. GrowsAtEnd(c)'
      BY <1>1, <1>2, <2>1 DEF BlockInv, GrowsAtEnd, Received, Active
    <2>3. ASSUME NEW j \in 1..Len(frames[c])
          PROVE  /\ frames[c][j][1] \in own[c] /\ InBlock(frames[c], j)
                 /\ Ended(frames[c], j) \/ Growing(c, j)'
      <3>1. /\ frames[c][j][1] \in own[c] /\ InBlock(frames[c], j)
            /\ Ended(frames[c], j) \/ Growing(c, j)
        BY DEF BlockInv
      <3>2. CASE Growing(c, j) /\ by[c] = t
        <4>1. Len(frames[c]) = j - frames[c][j][2] + FramesPerScript
          BY <1>1, <3>2 DEF Growing, Received
        <4>2. Len(frames[c]) \in Nat
          BY TypeFacts
        <4> QED
          BY <3>1, <4>1, <4>2 DEF Ended
      <3>3. CASE Growing(c, j) /\ by[c] # t
        BY <1>1, <1>2, <2>1, <3>1, <3>3 DEF Growing, Received, Active
      <3> QED
        BY <3>1, <3>2, <3>3
    <2> QED
      BY <2>2, <2>3
  <1> QED
    BY <1>3, <1>4, <1>5, <1>6, <1>7, <1>8, <1>9

\* What is in the slot is active.
LEMMA SlotIsActive ==
  ASSUME TypeOK, SlotInv, slot # None
  PROVE  slot \in Active /\ by[slot] # None /\ Len(entered) > 0 /\ slot = Last(entered)
  <1>1. Len(entered) > 0 /\ slot = entered[Len(entered)] /\ Len(entered) \in Nat
        /\ entered \in Seq(Tracers)
    BY DEF SlotInv, Last, TypeOK
  <1>2. Len(entered) \in 1..Len(entered)
    BY <1>1
  <1>3. slot \in Active
    BY <1>1, <1>2, ItemsOfSeq DEF Active
  <1> QED
    BY <1>1, <1>3 DEF SlotInv, Last

\* A frame is emitted: it is on its way to the callback in the slot.
LEMMA EmitStep ==
  ASSUME IInv, NEW t \in Threads, Emit(t)
  PROVE  IInv'
  <1> USE DEF IInv
  <1> DEFINE f0 == <<script[t], sent[t] + 1>>
  <1>1. /\ script[t] # None /\ sent[t] < FramesPerScript /\ pending[t] = None
        /\ sent' = [sent EXCEPT ![t] = @ + 1]
        /\ pending' = [pending EXCEPT ![t] = IF slot = None THEN None ELSE <<slot, f0>>]
        /\ due' = IF entered = <<>> THEN due ELSE [due EXCEPT ![Last(entered)] = @ \cup {f0}]
        /\ UNCHANGED <<gil, slot, entered, by, mode, script, frames, lost, own, mixed>>
    BY DEF Emit, hook, received
  <1>2. /\ sent[t] \in 0..FramesPerScript /\ sent[t] + 1 \in 1..FramesPerScript
        /\ sent'[t] = sent[t] + 1
        /\ pending'[t] = IF slot = None THEN None ELSE <<slot, f0>>
        /\ \A u \in Threads : u # t => sent'[u] = sent[u] /\ pending'[u] = pending[u]
    <2>1. sent[t] \in 0..FramesPerScript /\ FramesPerScript \in Nat
      BY TypeFacts DEF TypeOK
    <2>2. sent[t] + 1 \in 1..FramesPerScript
      BY <1>1, <2>1
    <2> QED
      BY <1>1, <2>1, <2>2 DEF TypeOK
  <1>3. f0 \in Frames /\ script[t] \in Scripts
    BY <1>1, <1>2 DEF Frames, TypeOK
  <1>4. slot # None => /\ slot \in Tracers /\ slot \in Active /\ by[slot] # None
                       /\ entered # <<>> /\ slot = Last(entered)
    <2> SUFFICES ASSUME slot # None
                 PROVE  /\ slot \in Tracers /\ slot \in Active /\ by[slot] # None
                        /\ entered # <<>> /\ slot = Last(entered)
      OBVIOUS
    <2>1. slot \in Active /\ by[slot] # None /\ Len(entered) > 0 /\ slot = Last(entered)
      BY SlotIsActive
    <2> QED
      BY <2>1, TypeFacts
  <1> HIDE DEF f0
  <1>5. \A c \in Tracers : due[c] \subseteq due'[c]
    BY <1>1 DEF TypeOK
  <1>6. slot # None => f0 \in due'[slot]
    BY <1>1, <1>4 DEF TypeOK
  <1>7. TypeOK'
    <2>1. sent' \in [Threads -> 0..FramesPerScript]
      BY <1>1, <1>2 DEF TypeOK
    <2>2. pending' \in [Threads -> (Tracers \X Frames) \cup {None}]
      BY <1>1, <1>3, <1>4 DEF TypeOK
    <2>3. due' \in [Tracers -> SUBSET Frames]
      BY <1>1, <1>3 DEF TypeOK
    <2> QED
      BY <1>1, <2>1, <2>2, <2>3 DEF TypeOK
  <1>8. SlotInv'
    <2>1. \A c \in Tracers, u \in Threads :
              InFlight(u, c)' => InFlight(u, c) \/ (slot # None /\ c = slot)
      BY <1>2 DEF InFlight
    <2> QED
      BY <1>1, <1>4, <2>1 DEF SlotInv, Active
  <1>9. ScriptInv'
    <2>1. ASSUME NEW u \in Threads, pending'[u] # None
          PROVE  /\ pending'[u] = <<pending'[u][1], <<script[u], sent'[u]>> >>
                 /\ <<script[u], sent'[u]>> \in due'[pending'[u][1]]
      <3>1. CASE u = t
        BY <1>2, <1>6, <2>1, <3>1 DEF f0
      <3>2. CASE u # t
        <4>1. /\ pending[u] # None /\ pending'[u] = pending[u] /\ sent'[u] = sent[u]
              /\ pending[u][1] \in Tracers
          BY <1>2, <2>1, <3>2 DEF TypeOK
        <4> QED
          BY <1>5, <4>1 DEF ScriptInv
      <3> QED
        BY <3>1, <3>2
    <2> QED
      BY <1>1, <1>2, <2>1 DEF ScriptInv
  <1>10. None \notin Tracers \X Frames
    BY TypeFacts
  <1>11. StreamInv'
    <2>1. RunInv'
      <3> SUFFICES ASSUME NEW c \in Tracers, NEW u \in Threads, NEW f \in Range(frames[c]),
                          f[1] = script[u]
                   PROVE  /\ f[2] <= sent'[u]
                          /\ pending'[u] # None => f[2] < sent'[u]
                          /\ slot = c \/ InFlight(u, c)' => Reaches(c, u, f)'
        BY <1>1 DEF RunInv, InFlight
      <3>1. CASE u = t
        <4>1. f \in Frames /\ f[2] \in 1..FramesPerScript /\ f[2] <= sent[t]
          BY <3>1, TypeFacts, FrameFacts DEF StreamInv, RunInv
        <4>2. ASSUME slot = c  PROVE Reaches(c, t, f)'
          <5> SUFFICES ASSUME NEW n \in f[2]..sent'[t]
                       PROVE  \/ <<f[1], n>> \in Range(frames[c]) \cup lost
                              \/ pending'[t] = <<c, <<f[1], n>> >>
            BY <1>1 DEF Reaches
          <5>1. CASE n = sent[t] + 1
            BY <1>2, <3>1, <4>2, <5>1, TypeFacts DEF f0
          <5>2. CASE n # sent[t] + 1
            <6>1. n \in f[2]..sent[t] /\ n \in 1..FramesPerScript
              BY <1>2, <4>1, <5>2, TypeFacts
            <6>2. \/ <<f[1], n>> \in Range(frames[c]) \cup lost
                  \/ pending[t] = <<c, <<f[1], n>> >>
              BY <3>1, <4>2, <6>1 DEF StreamInv, RunInv, Reaches
            <6>3. <<c, <<f[1], n>> >> \in Tracers \X Frames
              BY <4>1, <6>1 DEF Frames
            <6> QED
              BY <1>1, <1>10, <6>2, <6>3
          <5> QED
            BY <5>1, <5>2
        <4>3. InFlight(t, c)' => slot = c
          BY <1>2 DEF InFlight
        <4> QED
          BY <1>2, <3>1, <4>1, <4>2, <4>3
      <3>2. CASE u # t
        BY <1>1, <1>2, <3>2 DEF StreamInv, RunInv, Reaches, InFlight
      <3> QED
        BY <3>1, <3>2
    <2>2. FramesWereDue' /\ StreamsHaveNoGaps'
      BY <1>1, <1>5 DEF StreamInv, FramesWereDue, StreamsHaveNoGaps
    <2> QED
      BY <2>1, <2>2 DEF StreamInv
  <1>12. AloneInv'
    <2>1. \A u \in Threads : pending'[u] # None =>
              \/ pending[u] # None /\ pending'[u] = pending[u]
              \/ pending'[u][1] \in Active
      BY <1>2, <1>4
    <2> QED
      BY <1>1, <2>1 DEF AloneInv, Active
  <1>13. ~mixed => \A c \in Active : slot = c /\ pending'[t] = <<c, f0>> /\ pending'[t] # None
    <2> SUFFICES ASSUME ~mixed, NEW c \in Active
                 PROVE  slot = c /\ pending'[t] = <<c, f0>> /\ pending'[t] # None
      OBVIOUS
    <2>1. slot = c /\ c \in Tracers /\ c # None
      BY TypeFacts DEF AloneInv
    <2>2. <<c, f0>> \in Tracers \X Frames
      BY <1>3, <2>1
    <2> QED
      BY <1>2, <1>10, <2>1, <2>2
  <1>14. WholeInv'
    <2> SUFFICES ASSUME ~mixed, NEW c \in Tracers, NEW s \in own[c], SoFar(c, s)
                 PROVE  SoFar(c, s)'
      BY <1>1 DEF WholeInv, Whole
    <2>1. c \in Active /\ script[by[c]] = s /\ by[c] \in Threads
      BY DEF SoFar, SlotInv, TypeOK
    <2>2. CASE by[c] = t
      <3> SUFFICES ASSUME NEW n \in 1..sent'[t]
                   PROVE  \/ <<s, n>> \in Range(frames[c]) \cup lost
                          \/ pending'[t] = <<c, <<s, n>> >>
        BY <1>1, <2>1, <2>2 DEF SoFar, Active
      <3>1. CASE n = sent[t] + 1
        BY <1>13, <2>1, <2>2, <3>1 DEF f0
      <3>2. CASE n # sent[t] + 1
        <4>1. n \in 1..sent[t] /\ n \in 1..FramesPerScript
          BY <1>2, <3>2, TypeFacts
        <4>2. <<c, <<s, n>> >> \in Tracers \X Frames
          BY <4>1 DEF Frames, TypeOK
        <4> QED
          BY <1>1, <1>10, <2>2, <4>1, <4>2 DEF SoFar
      <3> QED
        BY <3>1, <3>2
    <2>3. CASE by[c] # t
      BY <1>1, <1>2, <2>1, <2>3 DEF SoFar, Active
    <2> QED
      BY <2>2, <2>3
  <1>15. BlockInv'
    <2> SUFFICES ASSUME ~mixed, lost = {}, NEW c \in Tracers
                 PROVE  /\ GrowsAtEnd(c)'
                        /\ \A j \in 1..Len(frames[c]) :
                              /\ frames[c][j][1] \in own[c]
                              /\ InBlock(frames[c], j)
                              /\ Ended(frames[c], j) \/ Growing(c, j)'
      BY <1>1 DEF BlockInv
    <2>1. c \in Active => by[c] \in Threads /\ Received(by[c])' = Received(by[c])
      <3> SUFFICES ASSUME c \in Active  PROVE by[c] \in Threads /\ Received(by[c])' = Received(by[c])
        OBVIOUS
      <3>1. by[c] \in Threads
        BY DEF SlotInv, TypeOK
      <3>2. CASE by[c] = t
        <4>1. pending'[t] # None
          BY <1>13
        <4>2. Received(t)' = (sent[t] + 1) - 1 /\ Received(t) = sent[t]
          BY <1>1, <1>2, <4>1 DEF Received
        <4> QED
          BY <1>1, <1>2, <3>1, <3>2, <4>2
      <3>3. CASE by[c] # t
        BY <1>1, <1>2, <3>1, <3>3 DEF Received
      <3> QED
        BY <3>1, <3>2, <3>3
    <2>2. GrowsAtEnd(c)'
      BY <1>1, <2>1 DEF BlockInv, GrowsAtEnd, Active
    <2> QED
      BY <1>1, <2>1, <2>2 DEF BlockInv, Growing, Active
  <1> QED
    BY <1>7, <1>8, <1>9, <1>11, <1>12, <1>14, <1>15

----------------------------------------------------------------------------
\* A block grows by the next frame of its script.
BlocksUpTo(fs, s, r) ==
    /\ \A j \in 1..Len(fs) : InBlock(fs, j)
    /\ \A j \in 1..Len(fs) : \/ Ended(fs, j)
                             \/ s = fs[j][1] /\ Len(fs) = j - fs[j][2] + r
    /\ r > 0 => Len(fs) >= r /\ fs[Len(fs)] = <<s, r>>

LEMMA BlockGrows ==
  ASSUME NEW fs \in Seq(Frames), NEW s \in Scripts, NEW r \in Nat, r + 1 <= FramesPerScript,
         BlocksUpTo(fs, s, r),
         NEW gs, gs = Append(fs, <<s, r + 1>>)
  PROVE  /\ BlocksUpTo(gs, s, r + 1)
         /\ Len(gs) = Len(fs) + 1 /\ \A j \in 1..Len(fs) : gs[j] = fs[j]
  <1>0. /\ \A j \in 1..Len(fs) : InBlock(fs, j)
        /\ \A j \in 1..Len(fs) : \/ Ended(fs, j)
                                 \/ s = fs[j][1] /\ Len(fs) = j - fs[j][2] + r
        /\ r > 0 => Len(fs) >= r /\ fs[Len(fs)] = <<s, r>>
    BY DEF BlocksUpTo
  <1>1. FramesPerScript \in Nat /\ r + 1 \in 1..FramesPerScript
    BY ConstantsAssumption
  <1>2. <<s, r + 1>> \in Frames
    BY <1>1 DEF Frames
  <1>3. /\ gs \in Seq(Frames) /\ Len(gs) = Len(fs) + 1 /\ Len(fs) \in Nat
        /\ gs[Len(fs) + 1] = <<s, r + 1>> /\ \A j \in 1..Len(fs) : gs[j] = fs[j]
    BY <1>2, AppendProperties
  <1>4. \A j \in 1..Len(fs) : /\ fs[j] \in Frames /\ fs[j][2] \in 1..FramesPerScript
                              /\ fs[j] = <<fs[j][1], fs[j][2]>>
    BY FrameFacts
  <1>5. Len(fs) >= r
    BY <1>0, <1>3
  <1>6. ASSUME NEW j \in 1..Len(gs)
        PROVE  /\ InBlock(gs, j)
               /\ Ended(gs, j) \/ (s = gs[j][1] /\ Len(gs) = j - gs[j][2] + (r + 1))
    <2>1. CASE j = Len(fs) + 1
      <3>1. gs[j][1] = s /\ gs[j][2] = r + 1 /\ j - gs[j][2] = Len(fs) - r
        BY <1>3, <2>1
      <3>2. ASSUME NEW i \in 1..FramesPerScript, Len(fs) - r + i \in 1..(Len(fs) + 1)
            PROVE  gs[Len(fs) - r + i] = <<s, i>>
        <4>1. CASE i = r + 1
          BY <1>3, <4>1
        <4>2. CASE i # r + 1
          <5>1. i <= r /\ r > 0 /\ Len(fs) - r + i \in 1..Len(fs) /\ Len(fs) \in 1..Len(fs)
            BY <1>0, <1>1, <1>3, <1>5, <3>2, <4>2
          <5>2. fs[Len(fs)][1] = s /\ fs[Len(fs)][2] = r
            BY <1>0, <5>1
          <5>3. fs[Len(fs) - r + i] = <<s, i>>
            BY <1>0, <5>1, <5>2 DEF InBlock
          <5> QED
            BY <1>3, <5>1, <5>3
        <4> QED
          BY <4>1, <4>2
      <3>3. InBlock(gs, j)
        <4>1. ASSUME NEW i \in 1..FramesPerScript, j - gs[j][2] + i \in 1..Len(gs)
              PROVE  gs[j - gs[j][2] + i] = <<gs[j][1], i>>
          <5>1. Len(fs) - r + i \in 1..(Len(fs) + 1)
            BY <1>3, <3>1, <4>1
          <5>2. gs[Len(fs) - r + i] = <<s, i>>
            BY <3>2, <5>1
          <5> QED
            BY <3>1, <5>2
        <4>2. gs[j][2] <= j
          BY <1>3, <1>5, <2>1, <3>1
        <4> QED
          BY <4>1, <4>2 DEF InBlock
      <3>4. Len(gs) = j - gs[j][2] + (r + 1)
        BY <1>3, <3>1
      <3> QED
        BY <3>1, <3>3, <3>4
    <2>2. CASE j # Len(fs) + 1
      <3>1. j \in 1..Len(fs) /\ gs[j] = fs[j]
        BY <1>3, <2>2
      <3> DEFINE b == j - fs[j][2]
      <3>2. b \in Nat /\ fs[j][2] \in Nat /\ b <= Len(fs) /\ fs[j][2] <= j
        BY <1>0, <1>3, <1>4, <3>1 DEF InBlock
      <3>3. /\ \A i \in 1..FramesPerScript : b + i \in 1..Len(fs) => fs[b + i] = <<fs[j][1], i>>
            /\ \/ b + FramesPerScript <= Len(fs)
               \/ s = fs[j][1] /\ Len(fs) = b + r
        BY <1>0, <3>1 DEF InBlock, Ended
      <3> HIDE DEF b
      <3>4. ASSUME NEW i \in 1..FramesPerScript, b + i \in 1..(Len(fs) + 1)
            PROVE  gs[b + i] = <<fs[j][1], i>>
        <4>1. CASE b + i \in 1..Len(fs)
          BY <1>3, <3>3, <4>1
        <4>2. CASE b + i = Len(fs) + 1
          <5>1. ~(b + FramesPerScript <= Len(fs))
            BY <1>1, <1>3, <3>2, <4>2
          <5>2. s = fs[j][1] /\ i = r + 1
            BY <1>3, <3>2, <3>3, <4>2, <5>1
          <5> QED
            BY <1>3, <4>2, <5>2
        <4> QED
          BY <1>3, <3>4, <4>1, <4>2
      <3>5. InBlock(gs, j)
        <4>1. \A i \in 1..FramesPerScript :
                  j - gs[j][2] + i \in 1..Len(gs) => gs[j - gs[j][2] + i] = <<gs[j][1], i>>
          BY <1>3, <3>1, <3>4 DEF b
        <4> QED
          BY <3>1, <3>2, <4>1 DEF InBlock
      <3>6. \/ b + FramesPerScript <= Len(gs)
            \/ s = gs[j][1] /\ Len(gs) = b + (r + 1)
        <4>1. CASE b + FramesPerScript <= Len(fs)
          BY <1>1, <1>3, <3>2, <4>1
        <4>2. CASE s = fs[j][1] /\ Len(fs) = b + r
          BY <1>3, <3>1, <3>2, <4>2
        <4> QED
          BY <3>3, <4>1, <4>2
      <3> QED
        BY <3>1, <3>5, <3>6 DEF Ended, b
    <2> QED
      BY <2>1, <2>2
  <1>7. Len(gs) >= r + 1 /\ gs[Len(gs)] = <<s, r + 1>>
    BY <1>3, <1>5
  <1> QED
    BY <1>3, <1>6, <1>7 DEF BlocksUpTo

\* A frame is received or lost.
LEMMA DeliverStep ==
  ASSUME IInv, NEW t \in Threads, Deliver(t)
  PROVE  IInv'
  <1> USE DEF IInv
  <1> DEFINE c0 == pending[t][1]
             f0 == <<script[t], sent[t]>>
  <1>1. /\ pending[t] # None /\ pending' = [pending EXCEPT ![t] = None]
        /\ gil' \in Threads \cup {Free}
        /\ UNCHANGED <<slot, entered, by, mode, script, sent, due, own, mixed>>
    BY DEF Deliver, Delivered, hook, history
  <1>2. /\ pending[t] = <<c0, f0>> /\ f0 \in due[c0] /\ c0 \in Tracers /\ f0 \in Frames
        /\ script[t] \in Scripts /\ sent[t] \in 1..FramesPerScript
    <2>1. pending[t] = <<c0, f0>> /\ f0 \in due[c0]
      BY <1>1 DEF ScriptInv
    <2>2. pending[t] \in Tracers \X Frames
      BY <1>1 DEF TypeOK
    <2>3. c0 \in Tracers /\ f0 \in Frames
      BY <2>1, <2>2
    <2> QED
      BY <2>1, <2>3, FrameFacts
  <1>3. pending'[t] = None /\ \A u \in Threads : u # t => pending'[u] = pending[u]
    BY <1>1 DEF TypeOK
  <1>4. \/ frames' = [frames EXCEPT ![c0] = Append(@, f0)] /\ lost' = lost
        \/ frames' = frames /\ lost' = lost \cup {f0}
    <2>1. pending[t][2] = f0
      BY <1>2
    <2> QED
      BY <2>1 DEF Deliver, Receive
  <1> HIDE DEF c0, f0
  <1>5. /\ \A c \in Tracers : frames'[c] = frames[c] \/ (c = c0 /\ frames'[c] = Append(frames[c], f0))
        /\ lost \subseteq lost' /\ lost' \subseteq lost \cup {f0}
        /\ \A c \in Tracers : c # c0 => frames'[c] = frames[c]
    BY <1>4 DEF TypeOK
  <1>6. \A c \in Tracers : /\ Range(frames[c]) \subseteq Range(frames'[c])
                           /\ Range(frames'[c]) \subseteq Range(frames[c]) \cup {f0}
                           /\ c # c0 => Range(frames'[c]) = Range(frames[c])
    <2> TAKE c \in Tracers
    <2>1. frames[c] \in Seq(Frames)
      BY TypeFacts
    <2>2. Range(Append(frames[c], f0)) = Range(frames[c]) \cup {f0}
      BY <1>2, <2>1, RangeOfAppend
    <2> QED
      BY <1>5, <2>2
  <1>7. f0 \in Range(frames'[c0]) \cup lost'
    <2>1. frames[c0] \in Seq(Frames)
      BY <1>2, TypeFacts
    <2>2. Range(Append(frames[c0], f0)) = Range(frames[c0]) \cup {f0}
      BY <1>2, <2>1, RangeOfAppend
    <2> QED
      BY <1>2, <1>4, <2>2 DEF TypeOK
  <1>8. TypeOK'
    <2>1. frames' \in [Tracers -> Seq(Frames)]
      <3>1. Append(frames[c0], f0) \in Seq(Frames)
        BY <1>2, TypeFacts, AppendProperties
      <3> QED
        BY <1>4, <3>1 DEF TypeOK
    <2>2. lost' \subseteq Frames
      BY <1>2, <1>5 DEF TypeOK
    <2>3. pending' \in [Threads -> (Tracers \X Frames) \cup {None}]
      BY <1>1 DEF TypeOK
    <2> QED
      BY <1>1, <2>1, <2>2, <2>3 DEF TypeOK
  <1>9. SlotInv'
    <2>1. by[c0] # None
      BY <1>1, <1>2 DEF SlotInv, InFlight, c0
    <2>2. \A c \in Tracers : by[c] = None => frames'[c] = frames[c]
      BY <1>5, <2>1
    <2>3. \A c \in Tracers, u \in Threads : InFlight(u, c)' => InFlight(u, c)
      BY <1>3 DEF InFlight
    <2> QED
      BY <1>1, <2>2, <2>3 DEF SlotInv, Active
  <1>10. ScriptInv'
    BY <1>1, <1>3 DEF ScriptInv
  <1>11. f0[1] = script[t] /\ f0[2] = sent[t] /\ sent[t] \in Nat /\ script[t] # None
    BY <1>2, TypeFacts DEF f0
  <1>12. StreamInv'
    <2>1. FramesWereDue'
      BY <1>1, <1>2, <1>6 DEF StreamInv, FramesWereDue
    <2>2. RunInv'
      <3> SUFFICES ASSUME NEW c \in Tracers, NEW u \in Threads, NEW f \in Range(frames'[c]),
                          f[1] = script[u]
                   PROVE  /\ f[2] <= sent[u]
                          /\ pending'[u] # None => f[2] < sent[u]
                          /\ slot = c \/ InFlight(u, c)' => Reaches(c, u, f)'
        BY <1>1 DEF RunInv, InFlight
      <3>1. CASE f \in Range(frames[c])
        <4>1. /\ f[2] <= sent[u] /\ (pending[u] # None => f[2] < sent[u])
              /\ slot = c \/ InFlight(u, c) => Reaches(c, u, f)
          BY <3>1 DEF StreamInv, RunInv
        <4>2. InFlight(u, c)' => InFlight(u, c)
          BY <1>3 DEF InFlight
        <4>3. pending'[u] # None => pending[u] # None
          BY <1>3
        <4>4. ASSUME Reaches(c, u, f)  PROVE Reaches(c, u, f)'
          <5> SUFFICES ASSUME NEW n \in f[2]..sent[u]
                       PROVE  \/ <<f[1], n>> \in Range(frames'[c]) \cup lost'
                              \/ pending'[u] = <<c, <<f[1], n>> >>
            BY <1>1 DEF Reaches
          <5>1. \/ <<f[1], n>> \in Range(frames[c]) \cup lost
                \/ pending[u] = <<c, <<f[1], n>> >>
            BY <4>4 DEF Reaches
          <5>2. CASE u = t /\ pending[u] = <<c, <<f[1], n>> >>
            <6>1. c = c0 /\ f0 = <<f[1], n>>
              BY <1>2, <5>2
            <6> QED
              BY <1>7, <6>1
          <5> QED
            BY <1>3, <1>5, <1>6, <5>1, <5>2
        <4> QED
          BY <4>1, <4>2, <4>3, <4>4
      <3>2. CASE f \notin Range(frames[c])
        <4>1. f = f0 /\ c = c0
          BY <1>6, <3>2
        <4>2. u = t
          BY <1>11, <4>1 DEF ScriptInv
        <4>3. \A n \in f[2]..sent[t] : <<f[1], n>> = f0
          BY <1>11, <4>1 DEF f0
        <4>4. Reaches(c, t, f)'
          BY <1>1, <4>1, <4>3 DEF Reaches
        <4> QED
          BY <1>3, <1>11, <4>1, <4>2, <4>4
      <3> QED
        BY <3>1, <3>2
    <2>3. StreamsHaveNoGaps'
      <3> SUFFICES ASSUME NEW c \in Tracers, NEW j \in DOMAIN frames'[c], NEW k \in DOMAIN frames'[c],
                          j < k, frames'[c][j][1] = frames'[c][k][1]
                   PROVE  /\ frames'[c][j][2] < frames'[c][k][2]
                          /\ \A n \in frames'[c][j][2]..frames'[c][k][2] :
                                <<frames'[c][j][1], n>> \in Range(frames'[c]) \cup lost'
        BY DEF StreamsHaveNoGaps
      <3>1. frames[c] \in Seq(Frames) /\ DOMAIN frames[c] = 1..Len(frames[c]) /\ Len(frames[c]) \in Nat
        BY TypeFacts
      <3>2. CASE frames'[c] = frames[c]
        BY <1>5, <1>6, <3>2 DEF StreamInv, StreamsHaveNoGaps
      <3>3. CASE c = c0 /\ frames'[c] = Append(frames[c], f0)
        <4> DEFINE L == Len(frames[c])
        <4>1. /\ DOMAIN frames'[c] = 1..(L + 1)
              /\ frames'[c][L + 1] = f0
              /\ \A i \in 1..L : frames'[c][i] = frames[c][i]
          BY <1>2, <3>1, <3>3, AppendProperties
        <4>2. j \in 1..L /\ (k \in 1..L \/ k = L + 1)
          BY <3>1, <4>1
        <4>3. CASE k \in 1..L
          <5>1. frames'[c][j] = frames[c][j] /\ frames'[c][k] = frames[c][k]
            BY <4>1, <4>2, <4>3
          <5>2. /\ frames[c][j][2] < frames[c][k][2]
                /\ \A n \in frames[c][j][2]..frames[c][k][2] :
                      <<frames[c][j][1], n>> \in Range(frames[c]) \cup lost
            <6>1. j \in DOMAIN frames[c] /\ k \in DOMAIN frames[c]
              BY <3>1, <4>2, <4>3
            <6>2. j < k /\ frames[c][j][1] = frames[c][k][1]
              BY <5>1
            <6> QED
              BY <6>1, <6>2 DEF StreamInv, StreamsHaveNoGaps
          <5> QED
            BY <1>5, <1>6, <5>1, <5>2
        <4>4. CASE k = L + 1
          <5> DEFINE f == frames[c][j]
          <5>1. f \in Range(frames[c]) /\ frames'[c][j] = f /\ f[1] = script[t]
            BY <1>11, <3>1, <4>1, <4>2, <4>4, ItemsOfSeq
          <5>2. InFlight(t, c)
            BY <1>1, <3>3 DEF InFlight, c0
          <5>3. f[2] < sent[t] /\ Reaches(c, t, f)
            BY <1>1, <5>1, <5>2 DEF StreamInv, RunInv
          <5> HIDE DEF f
          <5>4. ASSUME NEW n \in f[2]..sent[t]
                PROVE  <<f[1], n>> \in Range(frames'[c]) \cup lost'
            <6>1. \/ <<f[1], n>> \in Range(frames[c]) \cup lost
                  \/ pending[t] = <<c, <<f[1], n>> >>
              BY <5>3 DEF Reaches
            <6>2. pending[t] = <<c, <<f[1], n>> >> => <<f[1], n>> = f0
              BY <1>2
            <6> QED
              BY <1>5, <1>6, <1>7, <3>3, <6>1, <6>2
          <5> QED
            BY <1>11, <4>1, <4>4, <5>1, <5>3, <5>4
        <4> QED
          BY <4>2, <4>3, <4>4
      <3> QED
        BY <1>5, <3>2, <3>3
    <2> QED
      BY <2>1, <2>2, <2>3 DEF StreamInv
  <1>13. AloneInv'
    BY <1>1, <1>3 DEF AloneInv, Active
  <1>14. WholeInv'
    <2> SUFFICES ASSUME ~mixed, NEW c \in Tracers, NEW s \in own[c]
                 PROVE  Whole(c, s)' \/ SoFar(c, s)'
      BY <1>1 DEF WholeInv
    <2>1. CASE Whole(c, s)
      BY <1>5, <1>6, <2>1 DEF Whole
    <2>2. CASE SoFar(c, s)
      <3>1. c \in Active /\ script[by[c]] = s /\ by[c] \in Threads
        BY <2>2 DEF SoFar, SlotInv, TypeOK
      <3>2. ASSUME NEW n \in 1..sent[by[c]]
            PROVE  \/ <<s, n>> \in Range(frames'[c]) \cup lost'
                   \/ pending'[by[c]] = <<c, <<s, n>> >>
        <4>1. \/ <<s, n>> \in Range(frames[c]) \cup lost
              \/ pending[by[c]] = <<c, <<s, n>> >>
          BY <2>2 DEF SoFar
        <4>2. CASE by[c] = t /\ pending[by[c]] = <<c, <<s, n>> >>
          <5>1. c = c0 /\ f0 = <<s, n>>
            BY <1>2, <4>2
          <5> QED
            BY <1>7, <5>1
        <4> QED
          BY <1>3, <1>5, <1>6, <3>1, <4>1, <4>2
      <3> QED
        BY <1>1, <3>1, <3>2 DEF SoFar, Active
    <2> QED
      BY <2>1, <2>2 DEF WholeInv
  <1>15. BlockInv'
    <2> SUFFICES ASSUME ~mixed, lost' = {}, NEW c \in Tracers
                 PROVE  /\ GrowsAtEnd(c)'
                        /\ \A j \in 1..Len(frames'[c]) :
                              /\ frames'[c][j][1] \in own[c]
                              /\ InBlock(frames'[c], j)
                              /\ Ended(frames'[c], j) \/ Growing(c, j)'
      BY <1>1 DEF BlockInv
    <2>1. lost = {} /\ frames' = [frames EXCEPT ![c0] = Append(@, f0)]
      BY <1>4
    <2>2. /\ c0 \in Active /\ by[c0] = t /\ script[t] \in own[c0]
          /\ \A d \in Active : d = c0
      <3>1. c0 \in Active
        BY <1>1 DEF AloneInv, c0
      <3>2. \A d \in Active : slot = d
        BY DEF AloneInv
      <3> QED
        BY <1>11, <3>1, <3>2 DEF AloneInv
    <2>3. /\ GrowsAtEnd(c)
          /\ \A j \in 1..Len(frames[c]) :
                 /\ frames[c][j][1] \in own[c]
                 /\ InBlock(frames[c], j)
                 /\ Ended(frames[c], j) \/ Growing(c, j)
      BY <2>1 DEF BlockInv
    <2>4. CASE c # c0
      <3>1. frames'[c] = frames[c] /\ c \notin Active
        BY <1>5, <2>2, <2>4
      <3> QED
        BY <1>1, <2>3, <3>1 DEF GrowsAtEnd, Growing, Active
    <2>5. CASE c = c0
      <3> DEFINE r == sent[t] - 1
                 fs == frames[c]
      <3>1. /\ r \in Nat /\ r + 1 = sent[t] /\ r + 1 <= FramesPerScript
            /\ Received(t) = r /\ Received(t)' = r + 1
        BY <1>1, <1>2, <1>3, <1>11, TypeFacts DEF Received
      <3>2. fs \in Seq(Frames) /\ frames'[c] = Append(fs, <<script[t], r + 1>>)
        BY <1>2, <2>1, <2>5, <3>1, TypeFacts DEF TypeOK, f0
      <3>3. r > 0 => Len(fs) >= r /\ fs[Len(fs)] = <<script[t], r>>
        BY <1>11, <2>2, <2>3, <2>5, <3>1 DEF GrowsAtEnd
      <3>4. \A j \in 1..Len(fs) :
                /\ InBlock(fs, j) /\ fs[j][1] \in own[c]
                /\ Ended(fs, j) \/ (script[t] = fs[j][1] /\ Len(fs) = j - fs[j][2] + r)
        BY <2>2, <2>3, <2>5, <3>1 DEF Growing
      <3>5. BlocksUpTo(fs, script[t], r)
        BY <3>3, <3>4 DEF BlocksUpTo
      <3> HIDE DEF r, fs
      <3> DEFINE gs == frames'[c]
      <3>6. gs = Append(fs, <<script[t], r + 1>>)
        BY <3>2
      <3> HIDE DEF gs
      <3>12. /\ BlocksUpTo(gs, script[t], r + 1)
             /\ Len(gs) = Len(fs) + 1 /\ \A j \in 1..Len(fs) : gs[j] = fs[j]
        BY <1>2, <3>1, <3>2, <3>5, <3>6, BlockGrows
      <3>11. /\ \A j \in 1..Len(gs) : InBlock(gs, j)
             /\ \A j \in 1..Len(gs) : \/ Ended(gs, j)
                                      \/ script[t] = gs[j][1] /\ Len(gs) = j - gs[j][2] + (r + 1)
             /\ Len(gs) >= r + 1 /\ gs[Len(gs)] = <<script[t], r + 1>>
        BY <3>1, <3>12 DEF BlocksUpTo
      <3>7. \A j \in 1..Len(gs) : gs[j][1] \in own[c]
        <4>1. \A j \in 1..Len(gs) : j \in 1..Len(fs) \/ j = Len(gs)
          BY <3>2, <3>12
        <4> QED
          BY <2>2, <2>5, <3>4, <3>12, <3>11, <4>1
      <3>8. GrowsAtEnd(c)'
        BY <1>1, <1>2, <2>2, <2>5, <3>1, <3>11 DEF GrowsAtEnd, gs
      <3>9. \A j \in 1..Len(gs) : Ended(gs, j) \/ Growing(c, j)'
        BY <1>1, <2>2, <2>5, <3>1, <3>11 DEF Growing, Active, gs
      <3> QED
        BY <3>7, <3>8, <3>9, <3>11 DEF gs
    <2> QED
      BY <2>4, <2>5
  <1> QED
    BY <1>8, <1>9, <1>10, <1>12, <1>13, <1>14, <1>15

----------------------------------------------------------------------------
LEMMA Invariance == Spec => []IInv
  <1>1. Init => IInv
    BY InvariantInit
  <1>2. IInv /\ [Next]_vars => IInv'
    <2> SUFFICES ASSUME IInv, [Next]_vars  PROVE IInv'
      OBVIOUS
    <2>1. CASE \E t \in Threads : AcquireGil(t) \/ YieldGil(t)
      <3>1. gil' \in Threads \cup {Free} /\ UNCHANGED <<hook, evaluation, received, history>>
        BY <2>1 DEF AcquireGil, YieldGil
      <3> QED
        BY <3>1, QuietStep
    <2>2. CASE \E t \in Threads : (\E c \in Tracers : Enter(t, c)) \/ Leave(t)
      BY <2>2, EnterStep, LeaveStep
    <2>3. CASE \E t \in Threads :
                  \/ \E s \in Scripts, m \in Calls : Begin(t, s, m)
                  \/ Emit(t) \/ Deliver(t) \/ Return(t)
      BY <2>3, BeginStep, EmitStep, DeliverStep, ReturnStep
    <2>4. CASE UNCHANGED vars
      <3>1. gil' \in Threads \cup {Free} /\ UNCHANGED <<hook, evaluation, received, history>>
        BY <2>4 DEF vars, hook, evaluation, received, history, IInv, TypeOK
      <3> QED
        BY <3>1, QuietStep
    <2> QED
      BY <2>1, <2>2, <2>3, <2>4 DEF Next
  <1> QED
    BY <1>1, <1>2, PTL DEF Spec

\* A stream of whole blocks divides into them.
LEMMA BlocksAreExecutions ==
  ASSUME NEW fs \in Seq(Frames),
         \A j \in 1..Len(fs) : InBlock(fs, j) /\ Ended(fs, j),
         NEW g \in Executions([j \in DOMAIN fs |-> Kind(fs[j])])
  PROVE  \E j \in 1..Len(fs) : {fs[k] : k \in g} = {fs[j][1]} \X (1..FramesPerScript)
  <1> DEFINE kinds == [j \in DOMAIN fs |-> Kind(fs[j])]
             F == FramesPerScript
             L == Len(fs)
  <1>1. F \in Nat /\ F >= 2 /\ L \in Nat /\ DOMAIN fs = 1..L /\ DOMAIN kinds = 1..L
    BY ConstantsAssumption
  <1>2. \A j \in 1..L : /\ fs[j] \in Frames /\ fs[j][2] \in 1..F
                        /\ kinds[j] = "BEGIN" <=> fs[j][2] = 1
                        /\ kinds[j] = "END" <=> fs[j][2] = F
    <2> TAKE j \in 1..L
    <2>1. fs[j] \in Frames /\ fs[j][2] \in 1..F
      BY FrameFacts
    <2>2. kinds[j] = Kind(fs[j])
      BY <1>1
    <2> QED
      BY <1>1, <2>1, <2>2 DEF Kind
  <1>3. PICK a \in Starts(kinds) : g = Execution(kinds, a)
    BY DEF Executions
  <1> HIDE DEF kinds
  <1>4. a \in 1..L /\ (kinds[a] = "BEGIN" \/ a = 1 \/ kinds[a - 1] = "END")
    BY <1>1 DEF Starts
  <1>5. /\ fs[a][2] <= a
        /\ a - fs[a][2] + F <= L
        /\ \A i \in 1..F : a - fs[a][2] + i \in 1..L => fs[a - fs[a][2] + i] = <<fs[a][1], i>>
    BY <1>4 DEF InBlock, Ended
  <1>6. fs[a][2] = 1
    <2>1. CASE a = 1
      BY <1>2, <1>4, <1>5, <2>1
    <2>2. CASE a # 1 /\ kinds[a - 1] = "END"
      <3> SUFFICES ASSUME fs[a][2] # 1  PROVE FALSE
        OBVIOUS
      <3> DEFINE i == fs[a][2] - 1
      <3>1. fs[a][2] \in 1..F /\ a - 1 \in 1..L
        BY <1>1, <1>2, <1>4, <2>2
      <3>2. i \in 1..F /\ i < F /\ a - fs[a][2] + i = a - 1
        BY <1>1, <1>4, <3>1
      <3>3. fs[a - 1] = <<fs[a][1], i>>
        BY <1>5, <3>1, <3>2
      <3>4. fs[a - 1][2] = F
        BY <1>2, <2>2, <3>1
      <3> QED
        BY <1>1, <3>2, <3>3, <3>4
    <2> QED
      BY <1>2, <1>4, <2>1, <2>2
  <1>7. a + (F - 1) <= L /\ \A i \in 1..F : a + (i - 1) \in 1..L /\ fs[a + (i - 1)] = <<fs[a][1], i>>
    <2>1. a + (F - 1) <= L
      BY <1>1, <1>4, <1>5, <1>6
    <2>2. ASSUME NEW i \in 1..F
          PROVE  a + (i - 1) \in 1..L /\ fs[a + (i - 1)] = <<fs[a][1], i>>
      <3>1. a - fs[a][2] + i = a + (i - 1) /\ a + (i - 1) \in 1..L
        BY <1>1, <1>4, <1>6, <2>1
      <3> QED
        BY <1>5, <3>1
    <2> QED
      BY <2>1, <2>2
  <1>8. ASSUME NEW k \in 1..L, k >= a, k <= a + (F - 1)
        PROVE  /\ k - a + 1 \in 1..F /\ k = a + ((k - a + 1) - 1)
               /\ fs[k] = <<fs[a][1], k - a + 1>>
    <2>1. k - a + 1 \in 1..F /\ k = a + ((k - a + 1) - 1)
      BY <1>1, <1>4, <1>8
    <2> QED
      BY <1>7, <2>1
  <1>9. ASSUME NEW m \in 1..L, m > a, m <= a + (F - 1)  PROVE m \notin Starts(kinds)
    <2>1. fs[m][2] = m - a + 1 /\ m - a + 1 # 1 /\ m # 1
      BY <1>4, <1>8, <1>9
    <2>2. m - 1 \in 1..L /\ fs[m - 1][2] = (m - 1) - a + 1 /\ (m - 1) - a + 1 # F
      <3>1. m - 1 \in 1..L /\ m - 1 >= a /\ m - 1 <= a + (F - 1) /\ (m - 1) - a + 1 # F
        BY <1>1, <1>4, <1>9
      <3> QED
        BY <1>8, <3>1
    <2> QED
      BY <1>1, <1>2, <2>1, <2>2 DEF Starts
  <1>10. \A k \in 1..L : k \in g <=> (k >= a /\ k <= a + (F - 1))
    <2> SUFFICES ASSUME NEW k \in 1..L  PROVE k \in g <=> (k >= a /\ k <= a + (F - 1))
      OBVIOUS
    <2>1. k \in g <=> k >= a /\ (a + 1)..k \cap Starts(kinds) = {}
      BY <1>1, <1>3 DEF Execution
    <2>2. ASSUME k > a + (F - 1)  PROVE (a + 1)..k \cap Starts(kinds) # {}
      <3> DEFINE e == a + F
      <3>1. e \in (a + 1)..k /\ e \in 1..L /\ e - 1 \in 1..L /\ e - 1 >= a /\ e - 1 <= a + (F - 1)
            /\ (e - 1) - a + 1 = F
        BY <1>1, <1>4, <2>2
      <3>2. fs[e - 1][2] = F
        BY <1>8, <3>1
      <3>3. e \in Starts(kinds)
        BY <1>1, <1>2, <3>1, <3>2 DEF Starts
      <3> QED
        BY <3>1, <3>3
    <2>3. ASSUME k >= a, k <= a + (F - 1)  PROVE (a + 1)..k \cap Starts(kinds) = {}
      <3>1. \A m \in (a + 1)..k : m \in 1..L /\ m > a /\ m <= a + (F - 1)
        BY <1>1, <1>4, <2>3
      <3> QED
        BY <1>9, <3>1
    <2>4. k > a + (F - 1) \/ k <= a + (F - 1)
      BY <1>1, <1>4
    <2> QED
      BY <2>1, <2>2, <2>3, <2>4
  <1>11. g \subseteq 1..L
    BY <1>1, <1>3 DEF Execution
  <1>12. {fs[k] : k \in g} = {fs[a][1]} \X (1..F)
    <2>1. ASSUME NEW k \in g  PROVE fs[k] \in {fs[a][1]} \X (1..F)
      <3>1. k \in 1..L /\ k >= a /\ k <= a + (F - 1)
        BY <1>10, <1>11, <2>1
      <3>2. k - a + 1 \in 1..F /\ fs[k] = <<fs[a][1], k - a + 1>>
        BY <1>8, <3>1
      <3> QED
        BY <3>2
    <2>2. ASSUME NEW i \in 1..F  PROVE <<fs[a][1], i>> \in {fs[k] : k \in g}
      <3>1. a + (i - 1) \in 1..L /\ fs[a + (i - 1)] = <<fs[a][1], i>>
        BY <1>7
      <3>2. a + (i - 1) >= a /\ a + (i - 1) <= a + (F - 1)
        BY <1>1, <1>4
      <3>3. a + (i - 1) \in g
        BY <1>10, <3>1, <3>2
      <3> QED
        BY <3>1, <3>3
    <2> QED
      BY <2>1, <2>2
  <1> QED
    BY <1>4, <1>12

----------------------------------------------------------------------------
\* The variables keep their types; in particular the callback only gets frames.
THEOREM TypeCorrect == Spec => []TypeOK
  <1>1. IInv => TypeOK
    BY DEF IInv
  <1> QED
    BY <1>1, Invariance, PTL

\* No callback stays registered once its context was left, in whatever order
\* any number of threads enter and leave.
THEOREM LeftCallbacksAreGoneCorrect == Spec => []LeftCallbacksAreGone
  <1>1. IInv => LeftCallbacksAreGone
    BY SlotIsActive DEF IInv, LeftCallbacksAreGone
  <1> QED
    BY <1>1, Invariance, PTL

\* A callback receives an unbroken run of every script's frames, in their order.
THEOREM StreamsHaveNoGapsCorrect == Spec => []StreamsHaveNoGaps
  <1>1. IInv => StreamsHaveNoGaps
    BY DEF IInv, StreamInv
  <1> QED
    BY <1>1, Invariance, PTL

\* A callback receives nothing that was emitted for another context.
THEOREM FramesWereDueCorrect == Spec => []FramesWereDue
  <1>1. IInv => FramesWereDue
    BY DEF IInv, StreamInv
  <1> QED
    BY <1>1, Invariance, PTL

\* Without mixing, debug_script() returns all frames of its scripts.
THEOREM DebugScriptIsCompleteCorrect == Spec => []DebugScriptIsComplete
  <1>1. IInv => DebugScriptIsComplete
    <2> SUFFICES ASSUME IInv, ~mixed, NEW c \in Left
                 PROVE  own[c] \X (1..FramesPerScript) \subseteq Range(frames[c]) \cup lost
      BY DEF DebugScriptIsComplete
    <2>1. c \in Tracers /\ c \notin Active
      BY DEF Left
    <2>2. \A s \in own[c] : Whole(c, s)
      BY <2>1 DEF IInv, WholeInv, SoFar
    <2> QED
      BY <2>2 DEF Whole
  <1> QED
    BY <1>1, Invariance, PTL

\* Without mixing, the executions of a trace are the scripts that ran, each with
\* all its frames.
THEOREM ExecutionsAreScriptsCorrect == Spec => []ExecutionsAreScripts
  <1>1. IInv => ExecutionsAreScripts
    <2> SUFFICES ASSUME IInv, ~mixed, lost = {}, NEW c \in Left,
                        NEW g \in Executions([j \in DOMAIN frames[c] |-> Kind(frames[c][j])])
                 PROVE  \E s \in own[c] :
                            {frames[c][k] : k \in g} = {s} \X (1..FramesPerScript)
      BY DEF ExecutionsAreScripts
    <2>1. c \in Tracers /\ c \notin Active /\ frames[c] \in Seq(Frames)
      BY TypeFacts DEF Left, IInv
    <2>2. \A j \in 1..Len(frames[c]) :
              /\ frames[c][j][1] \in own[c]
              /\ InBlock(frames[c], j) /\ Ended(frames[c], j)
      BY <2>1 DEF IInv, BlockInv, Growing
    <2>3. PICK j \in 1..Len(frames[c]) :
              {frames[c][k] : k \in g} = {frames[c][j][1]} \X (1..FramesPerScript)
      BY <2>1, <2>2, BlocksAreExecutions
    <2> QED
      BY <2>2, <2>3
  <1> QED
    BY <1>1, Invariance, PTL

----------------------------------------------------------------------------
\* Every frame that was due to a context has come, was lost or is on its way.
DueInv ==
    ~mixed =>
        \A c \in Tracers : \A f \in due[c] :
            \/ f \in Range(frames[c]) \cup lost
            \/ \E t \in Threads : pending[t] = <<c, f>>

LEMMA DueQuiet ==
  ASSUME DueInv, mixed => mixed', UNCHANGED <<due, frames, lost, pending>>
  PROVE  DueInv'
  BY DEF DueInv

LEMMA DueEmit ==
  ASSUME IInv, DueInv, NEW t \in Threads, Emit(t)
  PROVE  DueInv'
  <1> USE ConstantsAssumption DEF IInv
  <1> DEFINE f == <<script[t], sent[t] + 1>>
  <1>1. SUFFICES ASSUME ~mixed, NEW c \in Tracers, NEW g \in due'[c]
                 PROVE  \/ g \in Range(frames[c]) \cup lost
                        \/ \E u \in Threads : pending'[u] = <<c, g>>
    BY DEF DueInv, Emit, received
  <1>2. /\ pending \in [Threads -> (Tracers \X Frames) \cup {None}]
        /\ due \in [Tracers -> SUBSET Frames] /\ entered \in Seq(Tracers)
    BY DEF TypeOK
  <1>3. /\ pending[t] = None
        /\ pending' = [pending EXCEPT ![t] = IF slot = None THEN None ELSE <<slot, f>>]
        /\ due' = IF entered = <<>> THEN due ELSE [due EXCEPT ![Last(entered)] = @ \cup {f}]
    BY DEF Emit
  <1>4. CASE g \in due[c]
    <2>1. CASE g \in Range(frames[c]) \cup lost
      BY <2>1
    <2>2. CASE \E u \in Threads : pending[u] = <<c, g>>
      <3>1. PICK u \in Threads : pending[u] = <<c, g>>
        BY <2>2
      <3>2. <<c, g>> \in Tracers \X Frames
        BY <1>2, <1>4
      <3>3. u # t
        BY <1>3, <3>1, <3>2
      <3> QED
        BY <1>2, <1>3, <3>1, <3>3
    <2> QED
      BY <1>1, <1>4, <2>1, <2>2 DEF DueInv
  <1>5. CASE g \notin due[c]
    <2>1. entered # <<>> /\ c = Last(entered) /\ g = f
      BY <1>1, <1>2, <1>3, <1>5
    <2>2. c \in Active
      <3>1. Len(entered) \in Nat /\ Len(entered) > 0 /\ Last(entered) = entered[Len(entered)]
        BY <1>2, <2>1, EmptySeq, LenProperties DEF Last
      <3> QED
        BY <1>2, <2>1, <3>1, ItemsOfSeq DEF Active
    <2>3. slot = c /\ c # None
      BY <1>1, <2>2 DEF AloneInv
    <2> QED
      BY <1>2, <1>3, <2>1, <2>3
  <1> QED
    BY <1>4, <1>5

LEMMA DueDeliver ==
  ASSUME IInv, DueInv, NEW t \in Threads, Deliver(t)
  PROVE  DueInv'
  <1> USE ConstantsAssumption DEF IInv
  <1>1. SUFFICES ASSUME ~mixed, NEW c \in Tracers, NEW g \in due[c]
                 PROVE  \/ g \in Range(frames'[c]) \cup lost'
                        \/ \E u \in Threads : pending'[u] = <<c, g>>
    BY DEF DueInv, Deliver, Delivered, history
  <1>2. /\ pending[t] # None /\ pending' = [pending EXCEPT ![t] = None]
        /\ pending \in [Threads -> (Tracers \X Frames) \cup {None}]
        /\ frames \in [Tracers -> Seq(Frames)]
    BY DEF TypeOK, Deliver, Delivered
  <1> DEFINE d == pending[t][1]
             f == pending[t][2]
  <1>3. d \in Tracers /\ f \in Frames /\ pending[t] = <<d, f>>
    BY <1>2
  <1>4. \/ frames' = [frames EXCEPT ![d] = Append(@, f)] /\ lost' = lost
        \/ frames' = frames /\ lost' = lost \cup {f}
    BY DEF Deliver, Receive
  <1> HIDE DEF d, f
  <1>5. /\ Range(frames[c]) \subseteq Range(frames'[c])
        /\ c = d => f \in Range(frames'[c]) \cup lost'
        /\ lost \subseteq lost'
    <2>1. CASE frames' = [frames EXCEPT ![d] = Append(@, f)] /\ lost' = lost
      <3>1. Range(Append(frames[d], f)) = Range(frames[d]) \cup {f}
        BY <1>2, <1>3, RangeOfAppend
      <3> QED
        BY <1>2, <1>3, <2>1, <3>1
    <2>2. CASE frames' = frames /\ lost' = lost \cup {f}
      BY <2>2
    <2> QED
      BY <1>4, <2>1, <2>2
  <1>6. CASE g \in Range(frames[c]) \cup lost
    BY <1>5, <1>6
  <1>7. CASE \E u \in Threads : pending[u] = <<c, g>>
    <2>1. PICK u \in Threads : pending[u] = <<c, g>>
      BY <1>7
    <2>2. CASE u = t
      BY <1>3, <1>5, <2>1, <2>2
    <2>3. CASE u # t
      BY <1>2, <2>1, <2>3
    <2> QED
      BY <2>2, <2>3
  <1> QED
    BY <1>1, <1>6, <1>7 DEF DueInv

\* Contexts that do not overlap keep the promise that nested ones break: every
\* frame that is emitted while a context is the innermost one reaches its callback.
THEOREM InnermostFiresUnlessMixed == Spec => [](~mixed => InnermostFires)
  <1>1. Init => DueInv
    BY DEF Init, DueInv
  <1>2. IInv /\ DueInv /\ [Next]_vars => DueInv'
    <2> SUFFICES ASSUME IInv, DueInv, [Next]_vars  PROVE DueInv'
      OBVIOUS
    <2>1. CASE UNCHANGED vars
      BY <2>1, DueQuiet DEF vars
    <2>2. ASSUME NEW t \in Threads, AcquireGil(t) \/ YieldGil(t) \/ Leave(t) \/ Return(t)
          PROVE  DueInv'
      BY <2>2, DueQuiet DEF AcquireGil, YieldGil, Leave, Return, evaluation, received, history
    <2>3. ASSUME NEW t \in Threads,
                 \/ \E c \in Tracers : Enter(t, c)
                 \/ \E s \in Scripts, m \in Calls : Begin(t, s, m)
          PROVE  DueInv'
      BY <2>3, DueQuiet DEF Enter, Begin, evaluation, received
    <2>4. ASSUME NEW t \in Threads, Emit(t) \/ Deliver(t)  PROVE DueInv'
      BY <2>4, DueEmit, DueDeliver
    <2> QED
      BY <2>1, <2>2, <2>3, <2>4 DEF Next
  <1>3. IInv /\ DueInv => (~mixed => InnermostFires)
    <2> SUFFICES ASSUME IInv, DueInv, ~mixed, NEW c \in Tracers, NEW f \in due[c]
                 PROVE  f \in Range(frames[c]) \cup lost \cup
                            {pending[t][2] : t \in {u \in Threads : pending[u] # None}}
      BY DEF InnermostFires
    <2>1. CASE \E t \in Threads : pending[t] = <<c, f>>
      <3>1. PICK t \in Threads : pending[t] = <<c, f>>
        BY <2>1
      <3>2. <<c, f>> # None
        BY ConstantsAssumption DEF IInv, TypeOK
      <3>3. pending[t] # None /\ pending[t][2] = f
        BY <3>1, <3>2
      <3> QED
        BY <3>3
    <2>2. CASE f \in Range(frames[c]) \cup lost
      BY <2>2
    <2> QED
      BY <2>1, <2>2 DEF DueInv
  <1> QED
    BY <1>1, <1>2, <1>3, Invariance, PTL DEF Spec
=============================================================================
