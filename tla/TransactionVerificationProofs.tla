-------------------- MODULE TransactionVerificationProofs --------------------
(***************************************************************************)
(* Script verification, for transactions of any size, C integers of any    *)
(* width and Python integers of any magnitude.                             *)
(***************************************************************************)
EXTENDS TransactionVerification, TLAPS

InLoop == pc \in {"coin", "register", "verify", "kernel_verify"}
BeforeLoop == pc \in {"count", "precompute", "kernel_precompute"}
Loops == {"verify_transaction", "debug_transaction"}

\* The spent outputs that have been counted are one per input, or none where
\* verify_script() may do without.
SpentInv ==
    /\ pc = "kernel_precompute" => Len(spent) \in {0, n}
    /\ precomputed = "outputs" => Len(spent) = n /\ Len(spent) > 0
    /\ op \in Loops /\ (pc \in {"precompute", "kernel_precompute"} \/ InLoop) => Len(spent) = n
    /\ op \in Loops /\ (pc = "kernel_precompute" \/ InLoop) => "other" \notin Range(spent)
    /\ op \in Loops /\ InLoop => precomputed = "outputs"

\* The kernel is called with known flags and an input there is.
CallInv == pc = "kernel_verify" => KnownFlags(KernelFlags) /\ index \in 0..(n - 1)

\* A loop has the verdicts of all inputs before the current one.
LoopInv ==
    /\ op \in Loops /\ BeforeLoop => index = 0 /\ traced = <<>>
    /\ pc = "coin" => op \in Loops
    /\ pc = "register" => op = "debug_transaction"
    /\ op \in Loops /\ InLoop => index \in 0..(n - 1)
    /\ op = "verify_transaction" /\ InLoop => \A k \in 0..(index - 1) : verdicts[k]
    /\ op = "debug_transaction" /\ InLoop =>
          Len(traced) = index /\ \A k \in 1..index : traced[k] = verdicts[k - 1]

\* What is returned.
ReturnInv == VerdictsAreOfAllInputs /\ VerdictsHaveTheirOutputs

IInv == TypeOK /\ SpentInv /\ CallInv /\ LoopInv /\ ReturnInv

----------------------------------------------------------------------------
LEMMA BoundedSeqs ==
  ASSUME NEW S, NEW max \in Nat, NEW s
  PROVE  s \in BoundedSeq(S, max) <=> s \in Seq(S) /\ Len(s) <= max
  <1>1. s \in BoundedSeq(S, max) <=> \E m \in 0..max : s \in [1..m -> S]
    BY DEF BoundedSeq, SeqOf
  <1>2. ASSUME NEW m \in 0..max, s \in [1..m -> S]
        PROVE  s \in Seq(S) /\ Len(s) <= max
    BY <1>2
  <1>3. ASSUME s \in Seq(S), Len(s) <= max
        PROVE  \E m \in 0..max : s \in [1..m -> S]
    BY <1>3
  <1> QED
    BY <1>1, <1>2, <1>3

\* The low bits of an int.
LEMMA LowBits ==
  ASSUME NEW x \in Int, NEW max \in Nat
  PROVE  /\ x % (max + 1) \in 0..max
         /\ x \in 0..max => x % (max + 1) = x
  OBVIOUS

LEMMA InvariantInit == Init => IInv
  <1> SUFFICES ASSUME Init  PROVE IInv
    OBVIOUS
  <1> USE DEF Init
  <1>1. TypeOK
    <2>1. MaxInputs \in Nat /\ MaxInputs + 1 \in Nat /\ UIntMax \in Nat /\ ULongMax \in Nat
      BY WidthsAssumption
    <2>2. spent \in BoundedSeq({"output", "other"}, MaxInputs + 1)
      <3>1. <<>> \in Seq({"output", "other"}) /\ Len(<<>>) = 0
        OBVIOUS
      <3> QED
        BY <2>1, <3>1, BoundedSeqs
    <2>3. traced \in BoundedSeq(BOOLEAN, MaxInputs)
      <3>1. <<>> \in Seq(BOOLEAN) /\ Len(<<>>) = 0
        OBVIOUS
      <3> QED
        BY <2>1, <3>1, BoundedSeqs
    <2>4. index \in Arguments \cup 0..UIntMax /\ flags \in Arguments \cup 0..ULongMax
      BY <2>1
    <2> QED
      BY <2>2, <2>3, <2>4 DEF TypeOK, PCs, Results, Ops
  <1>2. SpentInv
    BY DEF SpentInv, InLoop, Loops
  <1>3. CallInv
    BY DEF CallInv
  <1>4. LoopInv
    BY DEF LoopInv, BeforeLoop, InLoop, Loops, Ops
  <1>5. ReturnInv
    BY DEF ReturnInv, VerdictsAreOfAllInputs, VerdictsHaveTheirOutputs, Returned
  <1> QED
    BY <1>1, <1>2, <1>3, <1>4, <1>5 DEF IInv

LEMMA TypeFacts ==
  ASSUME TypeOK
  PROVE  /\ MaxInputs \in Nat /\ UIntMax \in Nat /\ ULongMax \in Nat /\ AllFlags \in Nat
         /\ MaxArgument \in Nat /\ MaxInputs <= UIntMax
         /\ n \in Nat /\ n <= UIntMax /\ n <= MaxInputs /\ index \in Int /\ flags \in Int
         /\ spent \in Seq({"output", "other"}) /\ Len(spent) \in Nat
         /\ traced \in Seq(BOOLEAN) /\ Len(traced) \in Nat
  <1>1. /\ MaxInputs \in Nat /\ MaxInputs + 1 \in Nat /\ UIntMax \in Nat /\ ULongMax \in Nat
        /\ AllFlags \in Nat /\ MaxArgument \in Nat /\ MaxInputs <= UIntMax
    BY WidthsAssumption
  <1>2. spent \in Seq({"output", "other"}) /\ traced \in Seq(BOOLEAN)
    BY <1>1, BoundedSeqs DEF TypeOK
  <1> QED
    BY <1>1, <1>2 DEF TypeOK, Arguments

\* Calls that end in an error.
LEMMA ErrorStep ==
  ASSUME IInv, NEW r \in Results, r \notin {"true", "false"},
         Done(r) \/ Fail("memory", r) \/ Fail("kernel", r)
  PROVE  IInv'
  <1> USE DEF Done, Fail, arguments, IInv
  <1>1. /\ pc' = "done" /\ result' = r /\ failed' \in {"nothing", "memory", "kernel"}
        /\ UNCHANGED <<op, n, spent, flags, verdicts, built, index, precomputed, traced>>
    BY DEF TypeOK
  <1>2. TypeOK'
    BY <1>1 DEF TypeOK, PCs
  <1>3. SpentInv' /\ CallInv' /\ LoopInv'
    BY <1>1 DEF SpentInv, CallInv, LoopInv, BeforeLoop, InLoop
  <1>4. ReturnInv'
    BY <1>1 DEF ReturnInv, VerdictsAreOfAllInputs, VerdictsHaveTheirOutputs, Returned
  <1> QED
    BY <1>2, <1>3, <1>4

LEMMA CountStep == IInv /\ CountSpentOutputs => IInv'
  <1> SUFFICES ASSUME IInv, CountSpentOutputs  PROVE IInv'
    OBVIOUS
  <1>1. CASE Done("ValueError")
    BY <1>1, ErrorStep DEF Results
  <1>2. CASE Len(spent) = n /\ Goto("precompute")
    <2> USE <1>2 DEF Goto, arguments, IInv
    <2>1. TypeOK'
      BY DEF TypeOK, PCs
    <2>2. SpentInv' /\ CallInv' /\ LoopInv'
      BY DEF CountSpentOutputs, SpentInv, CallInv, LoopInv, BeforeLoop, InLoop
    <2>3. ReturnInv'
      BY DEF ReturnInv, VerdictsAreOfAllInputs, VerdictsHaveTheirOutputs, Returned
    <2> QED
      BY <2>1, <2>2, <2>3
  <1> QED
    BY <1>1, <1>2 DEF CountSpentOutputs

LEMMA PrecomputeStep == IInv /\ Precompute => IInv'
  <1> SUFFICES ASSUME IInv, Precompute  PROVE IInv'
    OBVIOUS
  <1>1. CASE Done("ValueError") \/ Done("TypeError") \/ Fail("memory", "MemoryError")
    BY <1>1, ErrorStep DEF Results
  <1>2. CASE /\ Len(spent) \in {0, n} /\ "other" \notin Range(spent)
             /\ Goto("kernel_precompute")
    <2> USE <1>2 DEF Goto, arguments, IInv
    <2>1. TypeOK'
      BY DEF TypeOK, PCs
    <2>2. SpentInv'
      BY DEF Precompute, SpentInv, InLoop
    <2>3. CallInv' /\ LoopInv'
      BY DEF Precompute, CallInv, LoopInv, BeforeLoop, InLoop
    <2>4. ReturnInv'
      BY DEF ReturnInv, VerdictsAreOfAllInputs, VerdictsHaveTheirOutputs, Returned
    <2> QED
      BY <2>1, <2>2, <2>3, <2>4
  <1> QED
    BY <1>1, <1>2 DEF Precompute

LEMMA KernelPrecomputeStep == IInv /\ KernelPrecompute => IInv'
  <1> SUFFICES ASSUME IInv, KernelPrecompute  PROVE IInv'
    OBVIOUS
  <1>0. CASE Fail("kernel", "KernelError") \/ Fail("memory", "MemoryError")
    BY <1>0, ErrorStep DEF Results
  <1>1. CASE /\ precomputed' = IF spent = <<>> THEN "bare" ELSE "outputs"
             /\ \/ op = "verify_script" /\ pc' = "verify" /\ result' = result
                \/ op # "verify_script" /\ n > 0 /\ pc' = "coin" /\ result' = result
                \/ op # "verify_script" /\ n = 0 /\ pc' = "done" /\ result' = "true"
             /\ UNCHANGED <<arguments, index, traced, failed>>
    <2> USE DEF IInv
    <2>1. /\ pc = "kernel_precompute" /\ n \in Nat
          /\ precomputed' = IF spent = <<>> THEN "bare" ELSE "outputs"
          /\ Len(spent) \in {0, n} /\ spent \in Seq({"output", "other"})
          /\ spent # <<>> => Len(spent) > 0
          /\ UNCHANGED <<op, n, spent, flags, verdicts, built, index, traced, failed>>
      BY <1>1, TypeFacts DEF KernelPrecompute, SpentInv, arguments
    <2>2. TypeOK'
      BY <1>1, <2>1 DEF TypeOK, PCs, Results
    <2>3. op \in Loops => index = 0 /\ traced = <<>> /\ Len(spent) = n /\ "other" \notin Range(spent)
      BY <2>1 DEF LoopInv, BeforeLoop, SpentInv
    <2>4. CASE op # "verify_script" /\ n = 0 /\ pc' = "done" /\ result' = "true"
      <3>0. op \in Loops
        BY <2>4 DEF TypeOK, Ops, Loops
      <3>1. SpentInv' /\ CallInv' /\ LoopInv'
        BY <2>1, <2>4, <3>0 DEF SpentInv, CallInv, LoopInv, BeforeLoop, InLoop
      <3>2. VerdictsAreOfAllInputs'
        <4>1. \A k \in 0..(n - 1) : verdicts[k]
          BY <2>4
        <4>2. traced = [k \in 1..n |-> verdicts[k - 1]]
          BY <2>3, <2>4, <3>0
        <4> QED
          BY <2>1, <2>4, <4>1, <4>2 DEF VerdictsAreOfAllInputs, VerdictText
      <3>3. VerdictsHaveTheirOutputs'
        BY <2>1, <2>3, <2>4, <3>0 DEF VerdictsHaveTheirOutputs
      <3> QED
        BY <2>2, <3>1, <3>2, <3>3 DEF ReturnInv
    <2>5. CASE \/ op = "verify_script" /\ pc' = "verify" /\ result' = result
               \/ op # "verify_script" /\ n > 0 /\ pc' = "coin" /\ result' = result
      <3>1. CallInv' /\ ReturnInv'
        BY <2>1, <2>5 DEF CallInv, ReturnInv, VerdictsAreOfAllInputs,
              VerdictsHaveTheirOutputs, Returned
      <3>2. op \in Loops => n > 0 /\ spent # <<>> /\ op # "verify_script" /\ pc' = "coin"
        BY <2>1, <2>3, <2>5 DEF Loops
      <3>3. pc' = "coin" => op \in Loops
        BY <2>5 DEF TypeOK, Ops, Loops
      <3>4. SpentInv'
        BY <2>1, <2>3, <2>5, <3>2 DEF SpentInv, InLoop
      <3>5. LoopInv'
        BY <2>1, <2>3, <2>5, <3>2, <3>3 DEF LoopInv, BeforeLoop, InLoop, Loops
      <3> QED
        BY <2>2, <3>1, <3>4, <3>5
    <2> QED
      BY <1>1, <2>4, <2>5
  <1> QED
    BY <1>0, <1>1 DEF KernelPrecompute

\* A loop goes on with the same input.
LEMMA OnwardStep ==
  ASSUME IInv, pc \in {"coin", "register"}, op \in Loops,
         NEW where \in {"register", "verify"}, Goto(where),
         where = "register" => op = "debug_transaction"
  PROVE  IInv'
  <1> USE DEF Goto, arguments, IInv
  <1>1. TypeOK'
    BY DEF TypeOK, PCs
  <1>2. SpentInv' /\ CallInv' /\ LoopInv'
    BY DEF SpentInv, CallInv, LoopInv, BeforeLoop, InLoop
  <1>3. ReturnInv'
    BY DEF ReturnInv, VerdictsAreOfAllInputs, VerdictsHaveTheirOutputs, Returned
  <1> QED
    BY <1>1, <1>2, <1>3

LEMMA FetchCoinStep == IInv /\ FetchCoin => IInv'
  <1> SUFFICES ASSUME IInv, FetchCoin  PROVE IInv'
    OBVIOUS
  <1>1. CASE Fail("memory", "MemoryError")
    BY <1>1, ErrorStep DEF Results
  <1>2. CASE Goto(IF op = "debug_transaction" THEN "register" ELSE "verify")
    <2>1. pc = "coin" /\ op \in Loops
      BY DEF FetchCoin, IInv, LoopInv
    <2>2. CASE op = "debug_transaction"
      BY <1>2, <2>1, <2>2, OnwardStep
    <2>3. CASE op # "debug_transaction"
      BY <1>2, <2>1, <2>3, OnwardStep
    <2> QED
      BY <2>2, <2>3
  <1> QED
    BY <1>1, <1>2 DEF FetchCoin

LEMMA RegisterTraceStep == IInv /\ RegisterTrace => IInv'
  <1> SUFFICES ASSUME IInv, RegisterTrace  PROVE IInv'
    OBVIOUS
  <1>1. CASE Done("KernelError")
    BY <1>1, ErrorStep DEF Results
  <1>2. CASE Goto("verify")
    <2>1. pc = "register" /\ op \in Loops
      BY DEF RegisterTrace, IInv, LoopInv, Loops
    <2> QED
      BY <1>2, <2>1, OnwardStep
  <1> QED
    BY <1>1, <1>2 DEF RegisterTrace

LEMMA VerifyStep == IInv /\ Verify => IInv'
  <1> SUFFICES ASSUME IInv, Verify  PROVE IInv'
    OBVIOUS
  <1> DEFINE f == flags % (ULongMax + 1)
             k == index % (UIntMax + 1)
  <1>1. CASE Done("TypeError") \/ Done("ValueError") \/ Done("IndexError")
    BY <1>1, ErrorStep DEF Results
  <1>2. CASE KnownFlags(f) /\ k < n /\ Checked(k)
    <2> USE DEF IInv, arguments
    <2>0. /\ pc = "verify" /\ pc' = "kernel_verify" /\ index' = k
          /\ UNCHANGED <<op, n, spent, flags, verdicts, built, precomputed, traced, failed, result>>
      BY <1>2 DEF Verify, Checked
    <2>1. /\ k \in 0..(n - 1) /\ k \in 0..UIntMax /\ n \in Nat
          /\ index \in 0..(n - 1) => index = k
      <3>1. UIntMax \in Nat /\ index \in Int /\ n <= UIntMax /\ n \in Nat
        BY TypeFacts
      <3>2. k \in 0..UIntMax /\ (index \in 0..UIntMax => k = index)
        BY <3>1, LowBits
      <3> QED
        BY <1>2, <3>1, <3>2
    <2> HIDE DEF k
    <2>2. TypeOK'
      BY <2>0, <2>1 DEF TypeOK, PCs
    <2>4. SpentInv'
      BY <2>0 DEF SpentInv, InLoop
    <2>5. CallInv'
      BY <1>2, <2>0, <2>1 DEF CallInv, KernelFlags, KnownFlags
    <2>6. op \in Loops => index' = index
      BY <2>0, <2>1 DEF LoopInv, BeforeLoop, InLoop
    <2>7. LoopInv'
      BY <2>0, <2>1, <2>6 DEF LoopInv, BeforeLoop, InLoop, Loops
    <2>8. ReturnInv'
      BY <2>0 DEF ReturnInv, VerdictsAreOfAllInputs, VerdictsHaveTheirOutputs, Returned
    <2> QED
      BY <2>2, <2>4, <2>5, <2>7, <2>8
  <1> QED
    BY <1>1, <1>2 DEF Verify

LEMMA KernelRefusesStep == IInv /\ KernelRefuses => IInv'
  BY ErrorStep DEF KernelRefuses, Results

\* The kernel has a verdict; taproot is only asked with spent outputs.
LEMMA ReturnVerdictStep ==
  ASSUME IInv, KernelVerify, ReturnVerdict(verdicts[index])
  PROVE  IInv'
  <1> USE DEF IInv, Done, arguments
  <1>1. /\ pc' = "done" /\ result' \in {"true", "false"} /\ op = "verify_script"
        /\ UNCHANGED <<op, n, spent, flags, verdicts, built, index, precomputed, traced, failed>>
    BY DEF ReturnVerdict, VerdictText
  <1>2. TypeOK'
    BY <1>1 DEF TypeOK, PCs, Results
  <1>3. SpentInv' /\ CallInv' /\ LoopInv'
    BY <1>1 DEF SpentInv, CallInv, LoopInv, BeforeLoop, InLoop, Loops
  <1>4. ReturnInv'
    BY <1>1 DEF KernelVerify, ReturnInv, VerdictsAreOfAllInputs, VerdictsHaveTheirOutputs,
          Taproot, KernelFlags, SpentInv
  <1> QED
    BY <1>2, <1>3, <1>4

LEMMA ContinueAllStep ==
  ASSUME IInv, KernelVerify, ContinueAll(verdicts[index])
  PROVE  IInv'
  <1> USE DEF IInv, Done, arguments
  <1>1. /\ pc = "kernel_verify" /\ op = "verify_transaction" /\ index \in 0..(n - 1)
        /\ n \in Nat /\ n <= UIntMax /\ UIntMax \in Nat
        /\ precomputed = "outputs" /\ Len(spent) = n /\ "other" \notin Range(spent)
        /\ UNCHANGED <<op, n, spent, flags, verdicts, built, precomputed, traced, failed>>
    BY TypeFacts DEF KernelVerify, ContinueAll, NextInput, CallInv, SpentInv, Loops, InLoop
  <1>2. \A k \in 0..(index - 1) : verdicts[k]
    BY <1>1 DEF LoopInv, BeforeLoop, InLoop
  <1>3. CASE /\ pc' = "done" /\ UNCHANGED index
             /\ \/ ~verdicts[index] /\ result' = "false"
                \/ verdicts[index] /\ index + 1 = n /\ result' = "true"
    <2>1. TypeOK'
      BY <1>1, <1>3 DEF TypeOK, PCs, Results
    <2>2. SpentInv' /\ CallInv' /\ LoopInv'
      BY <1>1, <1>3 DEF SpentInv, CallInv, LoopInv, BeforeLoop, InLoop, Loops
    <2>3. result' = VerdictText(\A k \in 0..(n - 1) : verdicts[k])
      <3>1. CASE ~verdicts[index] /\ result' = "false"
        <4>1. ~ \A k \in 0..(n - 1) : verdicts[k]
          BY <1>1, <3>1
        <4> QED
          BY <3>1, <4>1 DEF VerdictText
      <3>2. CASE verdicts[index] /\ index + 1 = n /\ result' = "true"
        <4>1. \A k \in 0..(n - 1) : k \in 0..(index - 1) \/ k = index
          <5>1. index + 1 = n
            BY <3>2
          <5> QED
            BY <1>1, <5>1
        <4>2. \A k \in 0..(n - 1) : verdicts[k]
          BY <1>2, <3>2, <4>1
        <4> QED
          BY <3>2, <4>2 DEF VerdictText
      <3> QED
        BY <1>3, <3>1, <3>2
    <2>4. VerdictsAreOfAllInputs'
      BY <1>1, <2>3 DEF VerdictsAreOfAllInputs
    <2>5. VerdictsHaveTheirOutputs'
      BY <1>1, <1>3 DEF VerdictsHaveTheirOutputs
    <2> QED
      BY <2>1, <2>2, <2>4, <2>5 DEF ReturnInv
  <1>4. CASE /\ verdicts[index] /\ index + 1 < n
             /\ index' = index + 1 /\ pc' = "coin" /\ UNCHANGED result
    <2>1. index' \in 0..UIntMax
      BY <1>1, <1>4
    <2>2. TypeOK'
      BY <1>1, <1>4, <2>1 DEF TypeOK, PCs
    <2>3. SpentInv' /\ CallInv'
      BY <1>1, <1>4 DEF SpentInv, CallInv, InLoop
    <2>4. LoopInv'
      <3>1. \A k \in 0..index : k \in 0..(index - 1) \/ k = index
        BY <1>1
      <3>2. \A k \in 0..(index' - 1) : verdicts[k]
        BY <1>1, <1>2, <1>4, <3>1
      <3>3. index' \in 0..(n - 1)
        BY <1>1, <1>4
      <3> QED
        BY <1>1, <1>4, <3>2, <3>3 DEF LoopInv, BeforeLoop, InLoop, Loops
    <2>5. ReturnInv'
      BY <1>4 DEF ReturnInv, VerdictsAreOfAllInputs, VerdictsHaveTheirOutputs, Returned
    <2> QED
      BY <2>2, <2>3, <2>4, <2>5
  <1> QED
    BY <1>3, <1>4 DEF ContinueAll, NextInput

(***************************************************************************)
(* Appending to a list of verdicts changes its last item only.             *)
(***************************************************************************)
LEMMA Appending ==
  ASSUME NEW S, NEW s \in Seq(S), NEW e \in S
  PROVE  /\ Append(s, e) \in Seq(S)
         /\ Len(Append(s, e)) = Len(s) + 1
         /\ Append(s, e)[Len(s) + 1] = e
         /\ \A k \in 1..Len(s) : Append(s, e)[k] = s[k]
  OBVIOUS

LEMMA CollectTraceStep ==
  ASSUME IInv, KernelVerify, CollectTrace(verdicts[index])
  PROVE  IInv'
  <1> USE DEF IInv, arguments
  <1>1. /\ pc = "kernel_verify" /\ op = "debug_transaction" /\ index \in 0..(n - 1)
        /\ n \in Nat /\ n <= UIntMax /\ n <= MaxInputs /\ UIntMax \in Nat /\ MaxInputs \in Nat
        /\ precomputed = "outputs" /\ Len(spent) = n /\ "other" \notin Range(spent)
        /\ traced \in Seq(BOOLEAN) /\ verdicts \in [0..(n - 1) -> BOOLEAN]
        /\ traced' = Append(traced, verdicts[index])
        /\ UNCHANGED <<op, n, spent, flags, verdicts, built, precomputed, failed>>
    BY TypeFacts DEF KernelVerify, CollectTrace, NextInput, CallInv, SpentInv, Loops, InLoop, TypeOK
  <1>2. Len(traced) = index /\ \A k \in 1..index : traced[k] = verdicts[k - 1]
    BY <1>1 DEF LoopInv, BeforeLoop, InLoop
  <1>3. /\ traced' \in Seq(BOOLEAN) /\ Len(traced') = index + 1
        /\ traced'[index + 1] = verdicts[index]
        /\ \A k \in 1..index : traced'[k] = traced[k]
    <2>1. verdicts[index] \in BOOLEAN
      BY <1>1
    <2>2. Len(traced) = index
      BY <1>2
    <2> DEFINE v == verdicts[index]
    <2>3. v \in BOOLEAN /\ traced \in Seq(BOOLEAN) /\ traced' = Append(traced, v)
      BY <1>1, <2>1
    <2> HIDE DEF v
    <2>4. /\ Append(traced, v) \in Seq(BOOLEAN)
          /\ Len(Append(traced, v)) = index + 1
          /\ Append(traced, v)[index + 1] = v
          /\ \A k \in 1..index : Append(traced, v)[k] = traced[k]
      <3>1. /\ Append(traced, v) \in Seq(BOOLEAN)
            /\ Len(Append(traced, v)) = Len(traced) + 1
            /\ Append(traced, v)[Len(traced) + 1] = v
            /\ \A k \in 1..Len(traced) : Append(traced, v)[k] = traced[k]
        <4>1. traced \in Seq(BOOLEAN) /\ v \in BOOLEAN
          BY <2>3
        <4> QED
          BY ONLY <4>1, Appending
      <3> QED
        BY <2>2, <3>1
    <2> QED
      BY <2>3, <2>4, Zenon DEF v
  <1>4. \A k \in 1..(index + 1) : traced'[k] = verdicts[k - 1]
    <2> SUFFICES ASSUME NEW k \in 1..(index + 1)  PROVE traced'[k] = verdicts[k - 1]
      OBVIOUS
    <2>1. CASE k = index + 1
      <3>1. k - 1 = index
        BY <1>1, <2>1
      <3> QED
        BY <1>3, <2>1, <3>1
    <2>2. CASE k \in 1..index
      BY <1>2, <1>3, <2>2
    <2>3. k = index + 1 \/ k \in 1..index
      BY <1>1
    <2> QED
      BY <2>1, <2>2, <2>3, Zenon
  <1>5. traced' \in BoundedSeq(BOOLEAN, MaxInputs)
    <2>1. Len(traced') <= MaxInputs
      BY <1>1, <1>3
    <2> QED
      BY <1>1, <1>3, <2>1, BoundedSeqs
  <1>6. CASE index + 1 < n /\ index' = index + 1 /\ pc' = "coin" /\ UNCHANGED result
    <2>1. index' \in 0..UIntMax /\ index' \in 0..(n - 1)
      BY <1>1, <1>6
    <2>2. TypeOK'
      BY <1>1, <1>5, <1>6, <2>1 DEF TypeOK, PCs
    <2>3. SpentInv' /\ CallInv'
      BY <1>1, <1>6 DEF SpentInv, CallInv, InLoop
    <2>4. LoopInv'
      BY <1>1, <1>3, <1>4, <1>6, <2>1 DEF LoopInv, BeforeLoop, InLoop, Loops
    <2>5. ReturnInv'
      BY <1>6 DEF ReturnInv, VerdictsAreOfAllInputs, VerdictsHaveTheirOutputs, Returned
    <2> QED
      BY <2>2, <2>3, <2>4, <2>5
  <1>7. CASE /\ index + 1 = n /\ pc' = "done" /\ UNCHANGED index
             /\ result' = VerdictText(\A k \in DOMAIN traced' : traced'[k])
    <2>1. TypeOK'
      BY <1>1, <1>5, <1>7 DEF TypeOK, PCs, Results, VerdictText
    <2>2. SpentInv' /\ CallInv' /\ LoopInv'
      BY <1>1, <1>7 DEF SpentInv, CallInv, LoopInv, BeforeLoop, InLoop, Loops
    <2>3. DOMAIN traced' = 1..n
      BY <1>3, <1>7
    <2>4. (\A k \in 1..n : traced'[k]) <=> (\A k \in 0..(n - 1) : verdicts[k])
      <3>1. ASSUME \A k \in 1..n : traced'[k], NEW k \in 0..(n - 1)  PROVE verdicts[k]
        <4>1. k + 1 \in 1..n /\ (k + 1) - 1 = k
          BY <1>1
        <4>2. traced'[k + 1] = verdicts[k]
          BY <1>4, <1>7, <4>1
        <4> QED
          BY <3>1, <4>1, <4>2
      <3>2. ASSUME \A k \in 0..(n - 1) : verdicts[k], NEW k \in 1..n  PROVE traced'[k]
        <4>1. k - 1 \in 0..(n - 1) /\ k \in 1..(index + 1)
          <5>1. index + 1 = n
            BY <1>7
          <5> QED
            BY <1>1, <5>1
        <4>2. traced'[k] = verdicts[k - 1] /\ verdicts[k - 1]
          BY <1>4, <3>2, <4>1, Zenon
        <4> QED
          BY <4>2, Zenon
      <3> QED
        BY <3>1, <3>2
    <2>5. result' = VerdictText(\A k \in 0..(n - 1) : verdicts[k])
      BY <1>7, <2>3, <2>4 DEF VerdictText
    <2>6. traced' = [k \in 1..n |-> verdicts[k - 1]]
      BY <1>3, <1>4, <1>7, <2>3
    <2>7. VerdictsAreOfAllInputs'
      BY <1>1, <2>5, <2>6 DEF VerdictsAreOfAllInputs
    <2>8. VerdictsHaveTheirOutputs'
      BY <1>1, <1>7 DEF VerdictsHaveTheirOutputs
    <2> QED
      BY <2>1, <2>2, <2>7, <2>8 DEF ReturnInv
  <1> QED
    BY <1>6, <1>7 DEF CollectTrace, NextInput

----------------------------------------------------------------------------
LEMMA Invariance == Spec => []IInv
  <1>1. Init => IInv
    BY InvariantInit
  <1>2. IInv /\ [Next]_vars => IInv'
    <2> SUFFICES ASSUME IInv, [Next]_vars  PROVE IInv'
      OBVIOUS
    <2>1. CASE \/ CountSpentOutputs \/ Precompute \/ KernelPrecompute \/ FetchCoin
               \/ RegisterTrace \/ Verify \/ KernelRefuses
      BY <2>1, CountStep, PrecomputeStep, KernelPrecomputeStep, FetchCoinStep,
         RegisterTraceStep, VerifyStep, KernelRefusesStep
    <2>2. CASE KernelVerify
      BY <2>2, ReturnVerdictStep, ContinueAllStep, CollectTraceStep DEF KernelVerify
    <2>3. CASE UNCHANGED vars
      <3> USE <2>3 DEF vars, IInv
      <3>1. TypeOK'
        BY DEF TypeOK
      <3>2. SpentInv' /\ CallInv' /\ LoopInv'
        BY DEF SpentInv, CallInv, LoopInv, BeforeLoop, InLoop, KernelFlags
      <3>3. ReturnInv'
        BY DEF ReturnInv, VerdictsAreOfAllInputs, VerdictsHaveTheirOutputs, Returned,
              Taproot, KernelFlags
      <3> QED
        BY <3>1, <3>2, <3>3
    <2> QED
      BY <2>1, <2>2, <2>3 DEF Next
  <1> QED
    BY <1>1, <1>2, PTL DEF Spec

\* The variables keep their types.
THEOREM TypeCorrect == Spec => []TypeOK
  <1>1. IInv => TypeOK
    BY DEF IInv
  <1> QED
    BY <1>1, Invariance, PTL

\* Whatever Python integers ScriptPubkey.verify() is given, and however wide the
\* C types are, the kernel never sees arguments that it asserts on.
THEOREM KernelNeverAbortsCorrect == Spec => []KernelNeverAborts
  <1>1. IInv => KernelNeverAborts
    BY DEF IInv, SpentInv, CallInv, KernelNeverAborts
  <1> QED
    BY <1>1, Invariance, PTL

\* verify_transaction() and debug_transaction() return the conjunction of the
\* verdicts of all inputs, for any number of them.
THEOREM VerdictsAreOfAllInputsCorrect == Spec => []VerdictsAreOfAllInputs
  <1>1. IInv => VerdictsAreOfAllInputs
    BY DEF IInv, ReturnInv
  <1> QED
    BY <1>1, Invariance, PTL

\* No taproot verdict without the spent outputs it signs.
THEOREM VerdictsHaveTheirOutputsCorrect == Spec => []VerdictsHaveTheirOutputs
  <1>1. IInv => VerdictsHaveTheirOutputs
    BY DEF IInv, ReturnInv
  <1> QED
    BY <1>1, Invariance, PTL

----------------------------------------------------------------------------
(***************************************************************************)
(* The checks are exact.  What each has let pass the next may count on, and*)
(* nothing that fits is rejected.                                          *)
(***************************************************************************)
ExactInv ==
    /\ pc = "count" => op # "verify_script"
    /\ pc = "precompute" /\ op \in Loops => CountFits
    /\ pc = "kernel_precompute" \/ InLoop => SpentFit
    /\ BeforeLoop => precomputed = "none"
    /\ op # "verify_script" => precomputed # "other"
    /\ InLoop => ~NothingToVerify /\ (precomputed = "outputs" <=> spent # <<>>)
    /\ pc \in {"verify", "kernel_verify"} => TracingFits
    /\ pc = "kernel_verify" => precomputed # "other" /\ KnownFlags(KernelFlags) /\ IndexFits
    /\ pc # "done" => failed = "nothing"
    /\ VerdictsAreExact

Inv == IInv /\ ExactInv

\* A step that leaves the arguments alone leaves alone what is made of them.
LEMMA SameArguments ==
  ASSUME UNCHANGED <<op, n, spent, flags, verdicts, built>>,
         precomputed' = "other" <=> precomputed = "other",
         op = "verify_script" => index' % (UIntMax + 1) = index % (UIntMax + 1)
  PROVE  /\ CountFits' <=> CountFits
         /\ SpentFit' <=> SpentFit
         /\ TypesFit' <=> TypesFit
         /\ TracingFits' <=> TracingFits
         /\ FlagsFit' <=> FlagsFit
         /\ KnownFlags(KernelFlags)' <=> KnownFlags(KernelFlags)
         /\ IndexFits' <=> IndexFits
         /\ NothingToVerify' <=> NothingToVerify
         /\ Fits' <=> Fits
  BY DEF CountFits, SpentFit, TypesFit, TracingFits, FlagsFit, IndexFits, NothingToVerify,
      Fits, KnownFlags, KernelFlags, BadCombination, Taproot

\* A call ends with the error that its arguments deserve.
LEMMA RejectStep ==
  ASSUME Inv, pc # "done",
         NEW r \in {"ValueError", "TypeError", "IndexError", "KernelError"}, Done(r),
         ~Fits,
         r = "TypeError" <=> CountFits /\ ~TypesFit,
         r = "KernelError" <=> TypesFit /\ ~NothingToVerify /\ ~TracingFits,
         r = "IndexError" <=> TypesFit /\ KnownFlags(KernelFlags) /\ ~IndexFits
  PROVE  ExactInv'
  <1>1. /\ pc' = "done" /\ result' = r /\ failed = "nothing"
        /\ UNCHANGED <<op, n, spent, flags, verdicts, built, index, precomputed, failed>>
    BY DEF Done, arguments, Inv, ExactInv
  <1>2. VerdictsAreExact'
    BY <1>1, SameArguments DEF VerdictsAreExact, Returned
  <1> QED
    BY <1>1, <1>2 DEF Inv, ExactInv, InLoop, BeforeLoop

\* Memory runs out, or the kernel fails.
LEMMA FailStep ==
  ASSUME Inv, pc # "done", CountFits,
         Fail("memory", "MemoryError") \/ (Fail("kernel", "KernelError") /\ SpentFit)
  PROVE  ExactInv'
  <1>1. /\ pc' = "done"
        /\ \/ failed' = "memory" /\ result' = "MemoryError"
           \/ failed' = "kernel" /\ result' = "KernelError" /\ SpentFit
        /\ UNCHANGED <<op, n, spent, flags, verdicts, built, index, precomputed>>
    BY DEF Fail, arguments
  <1>2. VerdictsAreExact'
    BY <1>1, SameArguments DEF VerdictsAreExact, Returned
  <1> QED
    BY <1>1, <1>2 DEF Inv, ExactInv, InLoop, BeforeLoop

\* A call ends with a verdict.
LEMMA AcceptStep ==
  ASSUME Inv, pc # "done", pc' = "done", result' \in {"true", "false"},
         UNCHANGED <<op, n, spent, flags, verdicts, built, index, failed>>,
         precomputed # "other", precomputed' # "other",
         SpentFit,
         NothingToVerify \/ (TracingFits /\ FlagsFit /\ IndexFits),
         op = "verify_script" => result' = VerdictText(verdicts[index % (UIntMax + 1)])
  PROVE  ExactInv'
  <1>1. Returned' /\ failed' = "nothing"
    BY DEF Returned, Inv, ExactInv
  <1>2. Fits /\ TypesFit /\ CountFits /\ IndexFits
    BY DEF Fits, TypesFit, SpentFit, NothingToVerify, IndexFits
  <1>3. result' \notin {"TypeError", "IndexError", "KernelError", "MemoryError"}
    OBVIOUS
  <1>4. VerdictsAreExact'
    BY <1>1, <1>2, <1>3, SameArguments DEF VerdictsAreExact
  <1> QED
    BY <1>4 DEF Inv, ExactInv, InLoop, BeforeLoop

LEMMA ExactInit == Init => ExactInv
  <1> SUFFICES ASSUME Init  PROVE ExactInv
    OBVIOUS
  <1>1. /\ pc \in {"verify", "precompute", "count"} /\ (pc # "count" <=> op = "verify_script")
        /\ pc = "verify" => spent = <<>>
        /\ precomputed \in {"none", "other"} /\ (pc # "verify" => precomputed = "none")
        /\ failed = "nothing"
    BY DEF Init, Ops
  <1>2. pc = "verify" => SpentFit /\ ~NothingToVerify /\ TracingFits
    <2>1. Len(<<>>) = 0 /\ Range(<<>>) = {}
      BY DEF Range
    <2> QED
      BY <1>1, <2>1 DEF SpentFit, CountFits, NothingToVerify, TracingFits
  <1> QED
    BY <1>1, <1>2 DEF ExactInv, InLoop, BeforeLoop, Loops, VerdictsAreExact

LEMMA ExactCount == Inv /\ CountSpentOutputs => ExactInv'
  <1> SUFFICES ASSUME Inv, CountSpentOutputs  PROVE ExactInv'
    OBVIOUS
  <1>1. pc = "count" /\ op # "verify_script"
    BY DEF CountSpentOutputs, Inv, ExactInv
  <1>2. CASE Len(spent) # n /\ Done("ValueError")
    <2>1. ~CountFits /\ ~TypesFit /\ ~Fits
      BY <1>1, <1>2 DEF CountFits, SpentFit, TypesFit, Fits
    <2> QED
      BY <1>1, <1>2, <2>1, RejectStep
  <1>3. CASE Len(spent) = n /\ Goto("precompute")
    <2>1. CountFits
      BY <1>1, <1>3 DEF CountFits
    <2>2. pc' = "precompute"
          /\ UNCHANGED <<op, n, spent, flags, verdicts, built, index, precomputed, failed>>
      BY <1>3 DEF Goto, arguments
    <2> QED
      BY <1>1, <2>1, <2>2, SameArguments DEF Inv, ExactInv, InLoop, BeforeLoop, VerdictsAreExact
  <1> QED
    BY <1>2, <1>3 DEF CountSpentOutputs

LEMMA ExactPrecompute == Inv /\ Precompute => ExactInv'
  <1> SUFFICES ASSUME Inv, Precompute  PROVE ExactInv'
    OBVIOUS
  <1>1. /\ pc = "precompute" /\ precomputed = "none"
        /\ CountFits <=> Len(spent) \in {0, n}
    BY DEF Precompute, Inv, ExactInv, BeforeLoop, CountFits, Loops, IInv, TypeOK, Ops
  <1>2. CASE Len(spent) \notin {0, n} /\ Done("ValueError")
    <2>1. ~CountFits /\ ~TypesFit /\ ~Fits
      BY <1>1, <1>2 DEF SpentFit, TypesFit, Fits
    <2> QED
      BY <1>1, <1>2, <2>1, RejectStep
  <1>3. CASE Len(spent) \in {0, n} /\ "other" \in Range(spent) /\ Done("TypeError")
    <2>1. CountFits /\ ~TypesFit /\ ~Fits
      BY <1>1, <1>3 DEF SpentFit, TypesFit, Fits
    <2> QED
      BY <1>1, <1>3, <2>1, RejectStep
  <1>4. CASE Len(spent) \in {0, n} /\ "other" \notin Range(spent) /\ Goto("kernel_precompute")
    <2>1. SpentFit
      BY <1>1, <1>4 DEF SpentFit
    <2>2. pc' = "kernel_precompute"
          /\ UNCHANGED <<op, n, spent, flags, verdicts, built, index, precomputed, failed>>
      BY <1>4 DEF Goto, arguments
    <2> QED
      BY <1>1, <2>1, <2>2, SameArguments DEF Inv, ExactInv, InLoop, BeforeLoop, VerdictsAreExact
  <1>5. CASE Len(spent) = n /\ Fail("memory", "MemoryError")
    BY <1>1, <1>5, FailStep
  <1> QED
    BY <1>2, <1>3, <1>4, <1>5 DEF Precompute

LEMMA ExactKernelPrecompute == Inv /\ KernelPrecompute => ExactInv'
  <1> SUFFICES ASSUME Inv, KernelPrecompute  PROVE ExactInv'
    OBVIOUS
  <1>1. pc = "kernel_precompute" /\ SpentFit /\ CountFits /\ precomputed = "none" /\ failed = "nothing"
    BY DEF KernelPrecompute, Inv, ExactInv, BeforeLoop, SpentFit
  <1>2. CASE Fail("kernel", "KernelError") \/ Fail("memory", "MemoryError")
    BY <1>1, <1>2, FailStep
  <1>3. CASE /\ precomputed' = IF spent = <<>> THEN "bare" ELSE "outputs"
             /\ \/ op = "verify_script" /\ pc' = "verify" /\ result' = result
                \/ op # "verify_script" /\ n > 0 /\ pc' = "coin" /\ result' = result
                \/ op # "verify_script" /\ n = 0 /\ pc' = "done" /\ result' = "true"
             /\ UNCHANGED <<arguments, index, traced, failed>>
    <2>1. UNCHANGED <<op, n, spent, flags, verdicts, built, index, failed>>
      BY <1>3 DEF arguments
    <2>2. CASE op # "verify_script" /\ n = 0 /\ pc' = "done" /\ result' = "true"
      <3>1. NothingToVerify
        BY <2>2 DEF NothingToVerify
      <3> QED
        BY <1>1, <1>3, <2>1, <2>2, <3>1, AcceptStep
    <2>3. CASE \/ op = "verify_script" /\ pc' = "verify"
               \/ op # "verify_script" /\ n > 0 /\ pc' = "coin"
      <3>1. ~NothingToVerify
        BY <2>3 DEF NothingToVerify
      <3>2. op = "verify_script" => TracingFits
        BY DEF TracingFits
      <3> QED
        BY <1>1, <1>3, <2>1, <2>3, <3>1, <3>2, SameArguments
           DEF ExactInv, InLoop, BeforeLoop, VerdictsAreExact
    <2> QED
      BY <1>3, <2>2, <2>3
  <1> QED
    BY <1>2, <1>3 DEF KernelPrecompute

LEMMA ExactFetchCoin == Inv /\ FetchCoin => ExactInv'
  <1> SUFFICES ASSUME Inv, FetchCoin  PROVE ExactInv'
    OBVIOUS
  <1>1. /\ pc = "coin" /\ SpentFit /\ CountFits /\ ~NothingToVerify
        /\ op # "debug_transaction" => TracingFits
    BY DEF FetchCoin, Inv, ExactInv, InLoop, SpentFit, TracingFits
  <1>2. CASE Fail("memory", "MemoryError")
    BY <1>1, <1>2, FailStep
  <1>3. CASE Goto(IF op = "debug_transaction" THEN "register" ELSE "verify")
    <2>1. /\ pc' = IF op = "debug_transaction" THEN "register" ELSE "verify"
          /\ UNCHANGED <<op, n, spent, flags, verdicts, built, index, precomputed, failed>>
      BY <1>3 DEF Goto, arguments
    <2> QED
      BY <1>1, <2>1, SameArguments DEF Inv, ExactInv, InLoop, BeforeLoop, VerdictsAreExact
  <1> QED
    BY <1>2, <1>3 DEF FetchCoin

LEMMA ExactRegisterTrace == Inv /\ RegisterTrace => ExactInv'
  <1> SUFFICES ASSUME Inv, RegisterTrace  PROVE ExactInv'
    OBVIOUS
  <1>1. /\ pc = "register" /\ op = "debug_transaction" /\ SpentFit /\ CountFits /\ TypesFit
        /\ ~NothingToVerify
    BY DEF RegisterTrace, Inv, IInv, LoopInv, ExactInv, InLoop, SpentFit, TypesFit
  <1>2. CASE built /\ Goto("verify")
    <2>1. /\ pc' = "verify" /\ TracingFits
          /\ UNCHANGED <<op, n, spent, flags, verdicts, built, index, precomputed, failed>>
      BY <1>2 DEF Goto, arguments, TracingFits
    <2> QED
      BY <1>1, <2>1, SameArguments DEF Inv, ExactInv, InLoop, BeforeLoop, VerdictsAreExact
  <1>3. CASE ~built /\ Done("KernelError")
    <2>1. ~TracingFits /\ ~Fits /\ IndexFits
      BY <1>1, <1>3 DEF TracingFits, Fits, IndexFits
    <2> QED
      BY <1>1, <1>3, <2>1, RejectStep
  <1> QED
    BY <1>2, <1>3 DEF RegisterTrace

LEMMA ExactVerify == Inv /\ Verify => ExactInv'
  <1> SUFFICES ASSUME Inv, Verify  PROVE ExactInv'
    OBVIOUS
  <1> DEFINE k == index % (UIntMax + 1)
  <1>1. /\ pc = "verify" /\ SpentFit /\ CountFits /\ ~NothingToVerify /\ TracingFits
        /\ precomputed = "outputs" <=> spent # <<>>
        /\ TypesFit <=> precomputed # "other"
    BY DEF Verify, Inv, ExactInv, InLoop, SpentFit, TypesFit
  <1>2. UIntMax \in Nat /\ index \in Int /\ n \in Nat /\ n <= UIntMax /\ k \in 0..UIntMax
    BY TypeFacts, LowBits DEF Inv, IInv
  <1>3. k < n <=> IndexFits
    <2>1. op # "verify_script" => k < n
      <3>1. op # "verify_script" => index \in 0..(n - 1)
        BY <1>1 DEF Inv, IInv, LoopInv, Loops, InLoop, TypeOK, Ops
      <3>2. index \in 0..(n - 1) => k < n
        BY <1>2, LowBits
      <3> QED
        BY <3>1, <3>2
    <2> QED
      BY <2>1 DEF IndexFits
  <1> HIDE DEF k
  <1>4. CASE precomputed = "other" /\ Done("TypeError")
    <2>1. ~TypesFit /\ ~Fits
      BY <1>1, <1>4 DEF Fits
    <2> QED
      BY <1>1, <1>4, <2>1, RejectStep
  <1>5. CASE precomputed # "other" /\ ~KnownFlags(KernelFlags) /\ Done("ValueError")
    <2>1. TypesFit /\ ~Fits
      BY <1>1, <1>5 DEF FlagsFit, Fits
    <2> QED
      BY <1>1, <1>5, <2>1, RejectStep
  <1>6. CASE precomputed # "other" /\ KnownFlags(KernelFlags) /\ k >= n /\ Done("IndexError")
    <2>1. TypesFit /\ ~IndexFits /\ ~Fits
      BY <1>1, <1>2, <1>3, <1>6 DEF Fits
    <2> QED
      BY <1>1, <1>6, <2>1, RejectStep
  <1>7. CASE precomputed # "other" /\ KnownFlags(KernelFlags) /\ k < n /\ Checked(k)
    <2>1. /\ pc' = "kernel_verify" /\ index' = k
          /\ UNCHANGED <<op, n, spent, flags, verdicts, built, precomputed, failed>>
      BY <1>7 DEF Checked, arguments
    <2>2. index' % (UIntMax + 1) = index % (UIntMax + 1)
      <3>1. k % (UIntMax + 1) = k
        BY <1>2, LowBits
      <3> QED
        BY <2>1, <3>1 DEF k
    <2> QED
      BY <1>1, <1>3, <1>7, <2>1, <2>2, SameArguments
         DEF Inv, ExactInv, InLoop, BeforeLoop, VerdictsAreExact
  <1> QED
    BY <1>4, <1>5, <1>6, <1>7 DEF Verify, KernelFlags, k

\* The kernel's own refusal.
LEMMA ExactRefuses == Inv /\ KernelRefuses => ExactInv'
  <1> SUFFICES ASSUME Inv, KernelRefuses  PROVE ExactInv'
    OBVIOUS
  <1>1. /\ Done("ValueError") /\ pc = "kernel_verify" /\ SpentFit /\ ~NothingToVerify
        /\ IndexFits /\ TracingFits /\ precomputed # "other"
        /\ BadCombination \/ (Taproot /\ ~(spent # <<>>))
    BY DEF KernelRefuses, Inv, ExactInv, InLoop
  <1>2. TypesFit /\ ~Fits
    BY <1>1 DEF FlagsFit, TypesFit, Fits
  <1> QED
    BY <1>1, <1>2, RejectStep

LEMMA ExactKernelVerify == Inv /\ KernelVerify => ExactInv'
  <1> SUFFICES ASSUME Inv, KernelVerify  PROVE ExactInv'
    OBVIOUS
  <1>1. /\ pc = "kernel_verify" /\ SpentFit /\ ~NothingToVerify /\ FlagsFit /\ IndexFits
        /\ TracingFits /\ precomputed # "other"
        /\ precomputed = "outputs" <=> spent # <<>>
        /\ KnownFlags(KernelFlags)
    BY DEF KernelVerify, Inv, ExactInv, InLoop, FlagsFit
  <1>2. UNCHANGED <<op, n, spent, flags, verdicts, built, precomputed, failed>>
    BY DEF KernelVerify, ReturnVerdict, ContinueAll, CollectTrace, NextInput, Done, arguments
  <1>3. CASE pc' = "done" /\ result' \in {"true", "false"} /\ UNCHANGED index
             /\ (op = "verify_script" => result' = VerdictText(verdicts[index]))
    <2>1. op = "verify_script" => index = index % (UIntMax + 1)
      <3>1. index \in 0..(n - 1) /\ UIntMax \in Nat /\ n \in Nat /\ n <= UIntMax
        BY <1>1, TypeFacts DEF Inv, IInv, CallInv
      <3>2. index \in 0..UIntMax /\ index \in Int
        BY <3>1
      <3> QED
        BY <3>1, <3>2, LowBits
    <2> QED
      BY <1>1, <1>2, <1>3, <2>1, AcceptStep
  <1>4. CASE pc' = "coin" /\ op # "verify_script"
    BY <1>1, <1>2, <1>4, SameArguments DEF Inv, ExactInv, InLoop, BeforeLoop, VerdictsAreExact
  <1>5. \/ /\ pc' = "done" /\ result' \in {"true", "false"} /\ UNCHANGED index
           /\ (op = "verify_script" => result' = VerdictText(verdicts[index]))
        \/ pc' = "coin" /\ op # "verify_script"
    BY DEF KernelVerify, ReturnVerdict, ContinueAll, CollectTrace, NextInput, Done, VerdictText
  <1> QED
    BY <1>3, <1>4, <1>5

\* Arguments that fit always get a verdict, and the others the error they deserve,
\* whatever the kernel takes the flags for; a call that memory or the kernel fails
\* on never gets a verdict.
THEOREM VerdictsAreExactCorrect == Spec => []VerdictsAreExact
  <1>1. IInv /\ ExactInv /\ [Next]_vars => ExactInv'
    <2> SUFFICES ASSUME IInv, ExactInv, [Next]_vars  PROVE ExactInv'
      OBVIOUS
    <2>1. Inv
      BY DEF Inv
    <2>2. CASE UNCHANGED vars
      <3> USE <2>2 DEF vars
      <3>1. VerdictsAreExact'
        BY SameArguments DEF ExactInv, VerdictsAreExact, Returned
      <3> QED
        BY <3>1, SameArguments DEF ExactInv, InLoop, BeforeLoop
    <2>3. CASE Next
      BY <2>1, <2>3, ExactCount, ExactPrecompute, ExactKernelPrecompute, ExactFetchCoin,
         ExactRegisterTrace, ExactVerify, ExactRefuses, ExactKernelVerify DEF Next
    <2> QED
      BY <2>2, <2>3
  <1>2. ExactInv => VerdictsAreExact
    BY DEF ExactInv
  <1> QED
    BY <1>1, <1>2, ExactInit, Invariance, PTL DEF Spec
=============================================================================
