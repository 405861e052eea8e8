----------------------- MODULE TransactionVerification -----------------------
(***************************************************************************)
(* Script verification: ScriptPubkey.verify(), PrecomputedTransactionData, *)
(* and the two loops over the inputs of a transaction, verify_transaction()*)
(* and debug_transaction().  The kernel asserts (aborts the process) on    *)
(* arguments that do not fit together, so the wrapper must reject them.    *)
(*                                                                         *)
(* Widths are scaled down: an unsigned int holds 0..UIntMax and flags are  *)
(* numbers up to ULongMax of which 0..AllFlags are known.                  *)
(***************************************************************************)
EXTENDS Integers, Sequences, SequencesExt

CONSTANTS
    MaxInputs,     \* inputs of a transaction
    UIntMax,       \* the largest C unsigned int
    ULongMax,      \* the largest C unsigned long
    AllFlags,      \* every known script verification flag
    TaprootFlags,  \* the flags that contain TAPROOT, which needs spent outputs
    RefusedFlags,  \* the combinations of known flags that the kernel refuses
    MaxArgument    \* the largest magnitude of a Python int that is passed

ASSUME WidthsAssumption ==
    /\ {MaxInputs, UIntMax, ULongMax, AllFlags, MaxArgument} \subseteq Nat
    /\ MaxInputs <= UIntMax
    /\ AllFlags < ULongMax
    /\ TaprootFlags \cup RefusedFlags \subseteq 0..AllFlags

Arguments == -MaxArgument..MaxArgument
Ops == {"verify_script", "verify_transaction", "debug_transaction"}
Results == {"none", "true", "false", "TypeError", "ValueError", "IndexError",
            "KernelError", "MemoryError"}

VARIABLES
    op,          \* the function that is called
    n,           \* the inputs of the transaction
    spent,       \* the spent outputs: TransactionOutputs or other objects
    index,       \* input_index
    flags,
    precomputed, \* the precomputed data: "none", "bare", with spent "outputs",
                 \* or an "other" object in its place
    verdicts,    \* history: what the kernel finds of each input
    built,       \* the kernel was built with script tracing
    pc,
    traced,      \* the verdicts debug_transaction() has collected
    failed,      \* history: "nothing", the "memory" or the "kernel" did
    result

vars == <<op, n, spent, index, flags, precomputed, verdicts, built, pc, traced, failed,
          result>>
arguments == <<op, n, spent, flags, verdicts, built>>

PCs == {"count", "precompute", "kernel_precompute", "coin", "register", "verify",
        "kernel_verify", "done"}

\* Type correctness: every variable of the model keeps to its type.
TypeOK ==
    /\ op \in Ops
    /\ n \in 0..MaxInputs
    /\ spent \in BoundedSeq({"output", "other"}, MaxInputs + 1)
    /\ index \in Arguments \cup 0..UIntMax
    /\ flags \in Arguments \cup 0..ULongMax
    /\ precomputed \in {"none", "bare", "outputs", "other"}
    /\ verdicts \in [0..(n - 1) -> BOOLEAN]
    /\ built \in BOOLEAN
    /\ pc \in PCs
    /\ traced \in BoundedSeq(BOOLEAN, MaxInputs)
    /\ failed \in {"nothing", "memory", "kernel"}
    /\ result \in Results

\* verify_script() is given what PrecomputedTransactionData() made, if anything, or
\* some other object; the others make their own.  The arguments are those that the
\* C parsing of arguments lets pass.
Init ==
    /\ op \in Ops
    /\ n \in 0..MaxInputs
    /\ verdicts \in [0..(n - 1) -> BOOLEAN]
    /\ flags \in Arguments
    /\ IF op = "verify_script"
         THEN /\ index \in Arguments
              /\ \/ pc = "verify" /\ spent = <<>> /\ precomputed \in {"none", "other"}
                 \/ /\ pc = "precompute" /\ precomputed = "none"
                    /\ spent \in BoundedSeq({"output", "other"}, MaxInputs + 1)
         ELSE /\ index = 0
              /\ pc = "count" /\ precomputed = "none"
              /\ spent \in BoundedSeq({"output", "other"}, MaxInputs + 1)
    /\ built \in IF op = "debug_transaction" THEN BOOLEAN ELSE {TRUE}
    /\ traced = <<>>
    /\ failed = "nothing"
    /\ result = "none"

Done(r) ==
    /\ pc' = "done"
    /\ result' = r
    /\ UNCHANGED <<arguments, index, precomputed, traced, failed>>

\* An error that is not about the arguments.
Fail(who, r) ==
    /\ pc' = "done"
    /\ failed' = who
    /\ result' = r
    /\ UNCHANGED <<arguments, index, precomputed, traced>>

Goto(where) ==
    /\ pc' = where
    /\ UNCHANGED <<arguments, index, precomputed, traced, failed, result>>

\* verify_transaction(), debug_transaction(): one spent output per input.
CountSpentOutputs ==
    /\ pc = "count"
    /\ IF Len(spent) = n THEN Goto("precompute") ELSE Done("ValueError")

\* Mutant: the number of spent outputs is not compared with the inputs.
PrecomputeUncounted ==
    /\ pc = "precompute"
    /\ \/ spent # <<>> /\ Fail("memory", "MemoryError")
       \/ "other" \in Range(spent) /\ Done("TypeError")
       \/ "other" \notin Range(spent) /\ Goto("kernel_precompute")

\* PrecomputedTransactionData_new(): none or one per input, and of that type; the
\* array of pointers to them may not be had.
Precompute ==
    /\ pc = "precompute"
    /\ \/ Len(spent) \notin {0, n} /\ Done("ValueError")
       \/ Len(spent) = n /\ spent # <<>> /\ Fail("memory", "MemoryError")
       \/ Len(spent) \in {0, n} /\ "other" \in Range(spent) /\ Done("TypeError")
       \/ /\ Len(spent) \in {0, n} /\ "other" \notin Range(spent)
          /\ Goto("kernel_precompute")

\* The precomputed data is made: the kernel may have none, and where there is no
\* memory for the wrapper it is destroyed again.  A loop goes on with the first
\* input if there is one: all() of no inputs is True, and the list of their traces
\* is empty.
KernelPrecompute ==
    /\ pc = "kernel_precompute"
    /\ \/ Fail("kernel", "KernelError")
       \/ Fail("memory", "MemoryError")
       \/ /\ precomputed' = IF spent = <<>> THEN "bare" ELSE "outputs"
          /\ \/ op = "verify_script" /\ pc' = "verify" /\ result' = result
             \/ op # "verify_script" /\ n > 0 /\ pc' = "coin" /\ result' = result
             \/ op # "verify_script" /\ n = 0 /\ pc' = "done" /\ result' = "true"
          /\ UNCHANGED <<arguments, index, traced, failed>>

\* The getters of a spent output, each of which makes an object.
FetchCoin ==
    /\ pc = "coin"
    /\ \/ Fail("memory", "MemoryError")
       \/ Goto(IF op = "debug_transaction" THEN "register" ELSE "verify")

\* script_trace() in debug_script(): the callback is registered, if the kernel can
\* trace at all.
RegisterTrace ==
    /\ pc = "register"
    /\ IF built THEN Goto("verify") ELSE Done("KernelError")

KnownFlags(f) == 0 <= f /\ f <= AllFlags

Checked(k) ==
    /\ pc' = "kernel_verify"
    /\ index' = k
    /\ UNCHANGED <<arguments, precomputed, traced, failed, result>>

\* Mutant: input_index may be one past the last input.
VerifyOffByOne ==
    LET f == flags % (ULongMax + 1)
        k == index % (UIntMax + 1)
    IN  /\ pc = "verify"
        /\ \/ precomputed = "other" /\ Done("TypeError")
           \/ precomputed # "other" /\ ~KnownFlags(f) /\ Done("ValueError")
           \/ precomputed # "other" /\ KnownFlags(f) /\ k > n /\ Done("IndexError")
           \/ precomputed # "other" /\ KnownFlags(f) /\ k <= n /\ Checked(k)

\* ScriptPubkey_verify(): the "k" and "I" formats take the low bits of any int
\* before flags and input_index are checked, after the precomputed data's type.
Verify ==
    LET f == flags % (ULongMax + 1)
        k == index % (UIntMax + 1)
    IN  /\ pc = "verify"
        /\ \/ precomputed = "other" /\ Done("TypeError")
           \/ precomputed # "other" /\ ~KnownFlags(f) /\ Done("ValueError")
           \/ precomputed # "other" /\ KnownFlags(f) /\ k >= n /\ Done("IndexError")
           \/ precomputed # "other" /\ KnownFlags(f) /\ k < n /\ Checked(k)

----------------------------------------------------------------------------
(* The kernel's answer and what the caller makes of it.                    *)

KernelFlags == flags % (ULongMax + 1)

\* What the kernel takes known flags for.
Taproot == KernelFlags \in TaprootFlags
BadCombination == KernelFlags \in RefusedFlags

VerdictText(b) == IF b THEN "true" ELSE "false"

\* A verdict for input `index` is there: verify_script() returns it.
ReturnVerdict(valid) ==
    /\ op = "verify_script"
    /\ Done(VerdictText(valid))

NextInput ==
    /\ index + 1 < n
    /\ index' = index + 1
    /\ pc' = "coin"
    /\ UNCHANGED <<arguments, precomputed, failed, result>>

\* Mutant: the last verdict is the result.
ContinueAllLast(valid) ==
    /\ op = "verify_transaction"
    /\ \/ index + 1 = n /\ Done(VerdictText(valid))
       \/ NextInput /\ UNCHANGED traced

\* all() in verify_transaction(): the first invalid input ends it.
ContinueAll(valid) ==
    /\ op = "verify_transaction"
    /\ \/ ~valid /\ Done("false")
       \/ valid /\ index + 1 = n /\ Done("true")
       \/ valid /\ NextInput /\ UNCHANGED traced

\* The list in debug_transaction(), of which the caller takes all().
CollectTrace(valid) ==
    /\ op = "debug_transaction"
    /\ traced' = Append(traced, valid)
    /\ \/ NextInput
       \/ /\ index + 1 = n
          /\ pc' = "done"
          /\ result' = VerdictText(\A k \in DOMAIN traced' : traced'[k])
          /\ UNCHANGED <<arguments, index, precomputed, failed>>

\* Mutant: NULL is returned for a refusal, and no exception is set.
KernelRefusesUnset ==
    /\ pc = "kernel_verify"
    /\ BadCombination \/ (Taproot /\ precomputed # "outputs")
    /\ Done("SystemError")

\* The kernel refuses the flags, with or without spent outputs.
KernelRefuses ==
    /\ pc = "kernel_verify"
    /\ BadCombination \/ (Taproot /\ precomputed # "outputs")
    /\ Done("ValueError")

KernelVerify ==
    /\ pc = "kernel_verify"
    /\ ~BadCombination /\ (Taproot => precomputed = "outputs")
    /\ LET valid == verdicts[index]
       IN  ReturnVerdict(valid) \/ ContinueAll(valid) \/ CollectTrace(valid)

Next ==
    \/ CountSpentOutputs \/ Precompute \/ KernelPrecompute
    \/ FetchCoin \/ RegisterTrace
    \/ Verify \/ KernelRefuses \/ KernelVerify

Spec == Init /\ [][Next]_vars

----------------------------------------------------------------------------
Returned == pc = "done" /\ result \in {"true", "false"}

\* "The kernel asserts (aborts) on these, so reject them here": whenever the
\* kernel is called, its arguments fit together, whatever a Python int becomes
\* in its C type.
KernelNeverAborts ==
    /\ pc = "kernel_precompute" => Len(spent) \in {0, n}
    /\ pc = "kernel_verify" => KnownFlags(KernelFlags) /\ index \in 0..(n - 1)

\* verify_transaction() and debug_transaction() give the same verdict, the
\* conjunction of those of all inputs, although one stops at the first invalid
\* input and the other traces all of them, the invalid ones included.
VerdictsAreOfAllInputs ==
    Returned /\ op # "verify_script" =>
        /\ result = VerdictText(\A k \in 0..(n - 1) : verdicts[k])
        /\ op = "debug_transaction" => traced = [k \in 1..n |-> verdicts[k - 1]]

\* No verdict of a taproot check without the spent outputs it signs, and none
\* for a transaction whose spent outputs do not match its inputs.
VerdictsHaveTheirOutputs ==
    Returned =>
        /\ Taproot /\ n > 0 => precomputed = "outputs" /\ Len(spent) = n
        /\ op # "verify_script" => Len(spent) = n /\ "other" \notin Range(spent)

\* What the three layers of checks make of the arguments together, in their order.
CountFits == Len(spent) \in IF op = "verify_script" THEN {0, n} ELSE {n}
SpentFit == CountFits /\ "other" \notin Range(spent)
NothingToVerify == op # "verify_script" /\ n = 0
TracingFits == op = "debug_transaction" => built
TypesFit == SpentFit /\ precomputed # "other"
FlagsFit == KnownFlags(KernelFlags) /\ ~BadCombination /\ (Taproot => spent # <<>>)
IndexFits == op = "verify_script" => index % (UIntMax + 1) < n
Fits == TypesFit /\ (NothingToVerify \/ (TracingFits /\ FlagsFit /\ IndexFits))

\* Unless memory runs out or the kernel fails, there is a verdict exactly when the
\* arguments fit, so that no check rejects what the next would take: otherwise
\* objects of another type are a TypeError, a trace that the kernel cannot give is
\* a KernelError, an input that is not there is an IndexError, anything else a
\* ValueError.  A failure, also of an input in the middle of a loop, is never a
\* verdict.  And verify_script() gives the verdict of the input that was asked for.
VerdictsAreExact ==
    pc = "done" =>
        /\ Returned <=> Fits /\ failed = "nothing"
        /\ result = "MemoryError" <=> failed = "memory"
        /\ failed = "kernel" => SpentFit /\ result = "KernelError"
        /\ failed = "nothing" =>
              /\ result = "TypeError" <=> CountFits /\ ~TypesFit
              /\ result = "KernelError" <=> TypesFit /\ ~NothingToVerify /\ ~TracingFits
              /\ result = "IndexError"
                    <=> TypesFit /\ KnownFlags(KernelFlags) /\ ~IndexFits
        /\ failed # "nothing" => CountFits
        /\ Returned /\ op = "verify_script"
              => result = VerdictText(verdicts[index % (UIntMax + 1)])
===============================================================================
