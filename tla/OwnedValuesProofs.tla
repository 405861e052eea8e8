--------------------------- MODULE OwnedValuesProofs ---------------------------
(***************************************************************************)
(* Nothing leaks, nothing dangles and nothing half-made is handed out, for *)
(* any number of threads, objects, parts and bytes.                        *)
(*                                                                         *)
(* Ownership is a fact about the wrappers and the frames alone, and does   *)
(* not depend on the GIL: a frame touches only what it has made, what it   *)
(* references and what is still unused.  Control says which frames have    *)
(* something in their hands, and on top of both WholeInv counts it.        *)
(***************************************************************************)
EXTENDS OwnedValues, FiniteSetTheorems, WellFoundedInduction, TLAPS

Types ==
    /\ pc \in [Threads -> PCs]
    /\ op \in [Threads -> Ops \cup {None}]
    /\ from \in [Threads -> Objects \cup {None}]
    /\ goal \in [Threads -> Nat]
    /\ tried \in [Threads -> Nat]
    /\ made \in [Threads -> SUBSET Objects]
    /\ raw \in [Threads -> Objects \cup {None}]
    /\ alive \in SUBSET Objects
    /\ refs \in [Objects -> SUBSET (Threads \cup {Var})]
    /\ ptr \in [Objects -> Objects \cup {None}]
    /\ DOMAIN buf = Threads
    /\ paths \in Nat
    /\ shrunk \in BOOLEAN /\ overrun \in BOOLEAN

\* What a frame holds, by where it is.
Control ==
    \A t \in Threads :
        /\ op[t] = None <=> pc[t] = "out"
        /\ op[t] = None => made[t] = {} /\ from[t] = None
        /\ raw[t] # None => pc[t] \in {"wrap", "called"}
        /\ pc[t] = "wrap" => raw[t] # None
        /\ pc[t] = "write" => op[t] = "bytes"
        /\ buf[t] # NoBuf => op[t] = "bytes"

\* The list of an import is at least as long as the import takes it to be.
PathsInv ==
    /\ overrun => shrunk
    /\ ~shrunk => \A t \in Threads : op[t] = "import" => goal[t] <= paths

\* A wrapper destroys the value that was made for it.
WrapperInv == \A o \in Objects : refs[o] # {} => ptr[o] = o /\ o \in alive

\* The references of a frame are to what it has made and to self.
HeldInv ==
    \A t \in Threads, o \in Objects :
        t \in refs[o] <=> \/ o \in made[t]
                          \/ op[t] \notin Callbacks /\ from[t] = o

\* A value without a wrapper is in the hands of one frame.
RawInv ==
    \A t \in Threads :
        raw[t] # None =>
            /\ raw[t] \in alive
            /\ refs[raw[t]] = {}
            /\ \A u \in Threads : raw[u] = raw[t] => u = t

\* What the kernel lends to a callback is nobody else's.
LentInv ==
    \A t \in Threads :
        op[t] \in Callbacks =>
            /\ from[t] \in alive
            /\ refs[from[t]] = {}
            /\ \A u \in Threads :
                  /\ raw[u] # from[t]
                  /\ op[u] \in Callbacks /\ from[u] = from[t] => u = t

\* Every value is one of the three.
OwnedInv ==
    \A v \in alive : \/ refs[v] # {}
                     \/ \E t \in Threads : raw[t] = v
                     \/ \E t \in Threads : op[t] \in Callbacks /\ from[t] = v

Ownership == WrapperInv /\ HeldInv /\ RawInv /\ LentInv /\ OwnedInv

IInv == Types /\ Control /\ PathsInv /\ Ownership
----------------------------------------------------------------------------
(* Types, Control and the list of paths.                                   *)

LEMMA BookkeepingInit == Init => Types /\ Control /\ PathsInv
  <1> SUFFICES ASSUME Init
               PROVE  Types /\ Control /\ PathsInv
    OBVIOUS
  <1> USE ConstantsAssumption DEF Init
  <1>1. Types
    <2>1. paths \in Nat
      OBVIOUS
    <2>2. DOMAIN buf = Threads
      OBVIOUS
    <2>3. goal \in [Threads -> Nat] /\ tried \in [Threads -> Nat]
      OBVIOUS
    <2> QED
      BY <2>1, <2>2, <2>3, Zenon DEF Types, PCs, PythonStates
  <1>2. Control
    BY DEF Control, Ops
  <1>3. PathsInv
    BY DEF PathsInv, Ops
  <1> QED
    BY <1>1, <1>2, <1>3


LEMMA BookkeepingStep ==
  ASSUME Types, Control, PathsInv, NEW t \in Threads, Step(t)
  PROVE  Types' /\ Control' /\ PathsInv'
  <1> USE ConstantsAssumption
      DEF Types, Control, PathsInv, PCs, PythonStates, Ops, Callbacks, At, Goto,
          callVars, valueVars, pathVars
  <1>1. CASE TakeGil(t)
    BY <1>1 DEF TakeGil
  <1>2. CASE YieldGil(t)
    BY <1>2 DEF YieldGil
  <1>3. CASE ChangeList(t)
    <2>1. paths' \in Nat
      BY <1>3 DEF ChangeList
    <2>2. shrunk' \in BOOLEAN /\ (shrunk => shrunk')
      BY <1>3, Zenon DEF ChangeList
    <2>3. ASSUME ~shrunk', NEW u \in Threads, op[u] = "import"
          PROVE  paths <= paths'
      <3>1. ~(paths' < paths)
        BY <1>3, <2>3, Zenon DEF ChangeList
      <3> QED
        BY <2>1, <3>1
    <2> QED
      BY <1>3, <2>1, <2>2, <2>3 DEF ChangeList
  <1>4. CASE New(t)
    BY <1>4 DEF New, Start
  <1>5. CASE Read(t)
    BY <1>5 DEF Read, Start
  <1>6. CASE Import(t)
    BY <1>6 DEF Import, Start
  <1>7. CASE FinishWrite(t)
    BY <1>7 DEF FinishWrite
  <1>8. CASE Copy(t)
    BY <1>8 DEF Copy, More, Unused, Tried
  <1>9. CASE Wrap(t)
    BY <1>9 DEF Wrap, Hold
  <1>10. CASE WrapFails(t)
    BY <1>10 DEF WrapFails
  <1>11. CASE MakeBytes(t)
    BY <1>11 DEF MakeBytes, More, HoldBytes, Unused, Hold, Tried
  <1>12. CASE MakeFails(t)
    BY <1>12 DEF MakeFails, More
  <1>13. CASE MakeBytesFails(t)
    BY <1>13 DEF MakeBytesFails, More, Tried
  <1>14. CASE Convert(t)
    BY <1>14 DEF Convert, More
  <1>15. CASE Converted(t)
    BY <1>15 DEF Converted, HoldBytes, Unused, Hold, Tried
  <1>16. CASE ConvertFails(t)
    BY <1>16 DEF ConvertFails, More
  <1>17. CASE AllTried(t)
    BY <1>17 DEF AllTried
  <1>18. CASE KernelReads(t)
    BY <1>18 DEF KernelReads, Unused, Tried
  <1>19. CASE KernelImports(t)
    BY <1>19 DEF KernelImports
  <1>20. CASE Called(t)
    BY <1>20 DEF Called
  <1>21. CASE Return(t)
    BY <1>21 DEF Return, LeaveCall, SetRefs
  <1>22. CASE Undo(t)
    BY <1>22 DEF Undo, LeaveCall, SetRefs
  <1>23. CASE CallHandler(t)
    BY <1>23 DEF CallHandler
  <1>24. CASE HandlerEnds(t)
    BY <1>24 DEF HandlerEnds
  <1>25. ASSUME NEW o \in Objects, Drop(t, o)
        PROVE  Types' /\ Control' /\ PathsInv'
    BY <1>25 DEF Drop, SetRefs
  <1>26. ASSUME NEW o \in Objects, Keep(t, o)
        PROVE  Types' /\ Control' /\ PathsInv'
    BY <1>26 DEF Keep
  <1>27. ASSUME NEW o \in Objects, Get(t, o)
        PROVE  Types' /\ Control' /\ PathsInv'
    BY <1>27 DEF Get, WithSelf, Start
  <1>28. ASSUME NEW o \in Objects, ToBytes(t, o)
        PROVE  Types' /\ Control' /\ PathsInv'
    BY <1>28 DEF ToBytes, WithSelf, Start
  <1>29. ASSUME NEW c \in Callbacks, NEW o \in Objects, CallBack(t, c, o)
        PROVE  Types' /\ Control' /\ PathsInv'
    BY <1>29 DEF CallBack, Start
  <1>30. ASSUME NEW size \in 1..MaxBytes, Write(t, size)
        PROVE  Types' /\ Control' /\ PathsInv'
    BY <1>30 DEF Write
  <1> QED
    BY <1>1, <1>2, <1>3, <1>4, <1>5, <1>6, <1>7, <1>8, <1>9, <1>10, <1>11, <1>12, <1>13, <1>14, <1>15, <1>16, <1>17, <1>18, <1>19, <1>20, <1>21, <1>22, <1>23, <1>24, <1>25, <1>26, <1>27, <1>28, <1>29, <1>30 DEF Step

----------------------------------------------------------------------------
(* Ownership.                                                              *)

LEMMA OwnershipInit == Init => Ownership
  BY ConstantsAssumption
     DEF Init, Ownership, WrapperInv, HeldInv, RawInv, LentInv, OwnedInv, Ops, Callbacks

\* Steps that touch neither frames nor values.
LEMMA Quiet ==
  ASSUME Ownership, UNCHANGED <<op, from, made, raw, valueVars>>
  PROVE  Ownership'
  BY DEF Ownership, WrapperInv, HeldInv, RawInv, LentInv, OwnedInv, valueVars

\* A call that needs no other object begins.
LEMMA Begins ==
  ASSUME Types, Control, Ownership, NEW t \in Threads, pc[t] = "out",
         NEW o \in Ops \ Callbacks,
         op' = [op EXCEPT ![t] = o],
         UNCHANGED <<from, made, raw, valueVars>>
  PROVE  Ownership'
  BY ConstantsAssumption
     DEF Types, Control, Ownership, WrapperInv, HeldInv, RawInv, LentInv, OwnedInv,
         valueVars, Ops, Callbacks

\* A call begins with an object of the program, which its frame references.
LEMMA BeginsWithSelf ==
  ASSUME Types, Control, Ownership, NEW t \in Threads, pc[t] = "out",
         NEW o \in Ops \ Callbacks, NEW p \in Objects,
         op' = [op EXCEPT ![t] = o], WithSelf(t, p), UNCHANGED <<made, raw>>
  PROVE  Ownership'
  <1> USE ConstantsAssumption
      DEF Types, Control, Ownership, WithSelf, Ops, Callbacks
  <1>1. WrapperInv'
    BY DEF WrapperInv
  <1>2. HeldInv'
    BY DEF HeldInv
  <1>3. RawInv' /\ LentInv'
    BY DEF RawInv, LentInv
  <1>4. OwnedInv'
    BY DEF OwnedInv
  <1> QED
    BY <1>1, <1>2, <1>3, <1>4

\* The kernel makes a value, for the frame to wrap or to lend it.
LEMMA RawAppears ==
  ASSUME Types, Ownership, NEW t \in Threads, raw[t] = None,
         NEW o \in Objects, Unused(o),
         alive' = alive \cup {o}, raw' = [raw EXCEPT ![t] = o],
         UNCHANGED <<op, from, made, refs, ptr>>
  PROVE  Ownership'
  <1> USE ConstantsAssumption DEF Types, Ownership, Unused
  <1>1. WrapperInv' /\ HeldInv'
    BY DEF WrapperInv, HeldInv
  <1>2. RawInv'
    BY DEF RawInv
  <1>3. LentInv'
    BY DEF LentInv, RawInv
  <1>4. OwnedInv'
    BY DEF OwnedInv
  <1> QED
    BY <1>1, <1>2, <1>3, <1>4

LEMMA CallBackKeepsOwnership ==
  ASSUME Types, Control, Ownership, NEW t \in Threads,
         NEW c \in Callbacks, NEW v \in Objects, CallBack(t, c, v)
  PROVE  Ownership'
  <1> USE ConstantsAssumption
      DEF Types, Control, Ownership, CallBack, Start, Ops, Callbacks
  <1>1. WrapperInv'
    BY DEF WrapperInv
  <1>2. HeldInv'
    BY DEF HeldInv
  <1>3. RawInv'
    BY DEF RawInv
  <1>4. LentInv'
    BY DEF LentInv, RawInv
  <1>5. OwnedInv'
    BY DEF OwnedInv
  <1> QED
    BY <1>1, <1>2, <1>3, <1>4, <1>5

\* The frame wraps its raw value.
LEMMA WrapKeepsOwnership ==
  ASSUME Types, Control, Ownership, NEW t \in Threads, Wrap(t)
  PROVE  Ownership'
  <1> DEFINE v == raw[t]
  <1>0. /\ v \in Objects /\ v \in alive /\ refs[v] = {}
        /\ \A u \in Threads : raw[u] = v => u = t
        /\ refs' = [refs EXCEPT ![v] = {t}]
        /\ ptr' = [ptr EXCEPT ![v] = v]
        /\ made' = [made EXCEPT ![t] = @ \cup {v}]
        /\ raw' = [raw EXCEPT ![t] = None]
        /\ UNCHANGED <<op, from, alive>>
    BY DEF Types, Control, Ownership, RawInv, Wrap, Hold, At, callVars
  <1> HIDE DEF v
  <1> USE ConstantsAssumption, <1>0 DEF Types, Ownership
  <1>1. WrapperInv'
    BY DEF WrapperInv
  <1>2. HeldInv'
    <2>1. ASSUME NEW u \in Threads, NEW o \in Objects, o # v
          PROVE  u \in refs'[o] <=> \/ o \in made'[u]
                                    \/ op'[u] \notin Callbacks /\ from'[u] = o
      BY <2>1 DEF HeldInv
    <2>2. ASSUME NEW u \in Threads
          PROVE  u \in refs'[v] <=> \/ v \in made'[u]
                                    \/ op'[u] \notin Callbacks /\ from'[u] = v
      BY DEF HeldInv
    <2> QED
      BY <2>1, <2>2 DEF HeldInv
  <1>3. RawInv'
    BY DEF RawInv
  <1>4. LentInv'
    <2>1. \A u \in Threads : op[u] \in Callbacks => from[u] # v
      BY DEF LentInv, v
    <2> QED
      BY <2>1 DEF LentInv
  <1>5. OwnedInv'
    BY DEF OwnedInv, v
  <1> QED
    BY <1>1, <1>2, <1>3, <1>4, <1>5

LEMMA WrapFailsKeepsOwnership ==
  ASSUME Types, Control, Ownership, NEW t \in Threads, WrapFails(t)
  PROVE  Ownership'
  <1> USE ConstantsAssumption
      DEF Types, Control, Ownership, WrapFails, At, callVars
  <1>1. WrapperInv' /\ HeldInv'
    BY DEF WrapperInv, HeldInv, RawInv
  <1>2. RawInv'
    BY DEF RawInv
  <1>3. LentInv'
    BY DEF LentInv, RawInv
  <1>4. OwnedInv'
    BY DEF OwnedInv, RawInv
  <1> QED
    BY <1>1, <1>2, <1>3, <1>4

\* A bytes object is made together with its wrapper.
LEMMA HoldBytesKeepsOwnership ==
  ASSUME Types, Ownership, NEW t \in Threads, HoldBytes(t)
  PROVE  Ownership'
  <1> PICK o \in Objects : Unused(o) /\ alive' = alive \cup {o} /\ Hold(t, o, o)
    BY DEF HoldBytes
  <1> USE ConstantsAssumption
      DEF Types, Ownership, HoldBytes, Hold, Unused, callVars
  <1>1. WrapperInv'
    BY DEF WrapperInv
  <1>2. HeldInv'
    BY DEF HeldInv, WrapperInv, LentInv
  <1>3. RawInv'
    BY DEF RawInv
  <1>4. LentInv'
    BY DEF LentInv
  <1>5. OwnedInv'
    <2>1. t \in refs'[o] /\ \A w \in Objects \ {o} : refs'[w] = refs[w]
      OBVIOUS
    <2>2. ASSUME NEW w \in alive', w # o
          PROVE  \/ refs'[w] # {}
                 \/ \E u \in Threads : raw'[u] = w
                 \/ \E u \in Threads : op'[u] \in Callbacks /\ from'[u] = w
      BY <2>1, <2>2 DEF OwnedInv
    <2> QED
      BY <2>1, <2>2 DEF OwnedInv
  <1> QED
    BY <1>1, <1>2, <1>3, <1>4, <1>5

LEMMA KeepKeepsOwnership ==
  ASSUME Types, Ownership, NEW t \in Threads, NEW o \in Objects, Keep(t, o)
  PROVE  Ownership'
  <1> USE ConstantsAssumption DEF Types, Ownership, Keep, callVars
  <1>0. t \in refs[o]
    BY DEF HeldInv
  <1>1. WrapperInv' /\ HeldInv'
    BY <1>0 DEF WrapperInv, HeldInv
  <1>2. RawInv' /\ LentInv'
    BY <1>0 DEF RawInv, LentInv
  <1>3. OwnedInv'
    BY DEF OwnedInv
  <1> QED
    BY <1>1, <1>2, <1>3

\* What the deallocators destroy is what their wrappers were made for.
LEMMA DeallocatedValues ==
  ASSUME WrapperInv, NEW rs
  PROVE  Deallocated(rs) = {o \in Objects : refs[o] # {} /\ rs[o] = {}}
  BY DEF WrapperInv, Deallocated

LEMMA DropKeepsOwnership ==
  ASSUME Types, Ownership, NEW t \in Threads, NEW o \in Objects, Drop(t, o)
  PROVE  Ownership'
  <1> DEFINE rs == [refs EXCEPT ![o] = @ \ {Var}]
  <1>0. /\ refs' = rs
        /\ alive' = alive \ {w \in Objects : refs[w] # {} /\ rs[w] = {}}
        /\ ptr' = [w \in Objects |-> IF rs[w] = {} THEN None ELSE ptr[w]]
        /\ Var \in refs[o]
        /\ UNCHANGED <<op, from, made, raw>>
    BY DeallocatedValues DEF Drop, SetRefs, Ownership, callVars
  <1> USE ConstantsAssumption, <1>0 DEF Types, Ownership
  <1>1. WrapperInv'
    BY DEF WrapperInv
  <1>2. HeldInv'
    BY DEF HeldInv
  <1>3. RawInv' /\ LentInv'
    BY DEF RawInv, LentInv
  <1>4. OwnedInv'
    BY DEF OwnedInv
  <1> QED
    BY <1>1, <1>2, <1>3, <1>4

\* A call ends: what it does not give to the program goes, and nothing else.
LEMMA LeaveCallKeepsOwnership ==
  ASSUME Types, Control, Ownership, NEW t \in Threads, raw[t] = None, op[t] # None,
         NEW given \in SUBSET made[t], LeaveCall(t, given)
  PROVE  Ownership'
  <1> DEFINE mine == made[t] \cup {from[t]}
             Left(o) == IF o \in mine THEN refs[o] \ {t} ELSE refs[o]
             rs == [o \in Objects |-> Left(o) \cup (IF o \in given THEN {Var} ELSE {})]
             gone == IF op[t] \in Callbacks THEN {from[t]} ELSE {}
  <1>1. /\ refs' = rs
        /\ alive' = alive \ ({w \in Objects : refs[w] # {} /\ rs[w] = {}} \cup gone)
        /\ ptr' = [w \in Objects |-> IF rs[w] = {} THEN None ELSE ptr[w]]
    BY DeallocatedValues DEF LeaveCall, SetRefs, Ownership
  <1>2. /\ made' = [made EXCEPT ![t] = {}]
        /\ op' = [op EXCEPT ![t] = None]
        /\ from' = [from EXCEPT ![t] = None]
        /\ raw' = raw
    BY DEF LeaveCall
  <1> USE ConstantsAssumption DEF Types, Ownership, Ops, Callbacks
  \* Only frames and the program hold references, t none any more.
  <1>3. \A o \in Objects : /\ t \notin rs[o]
                           /\ \A u \in Threads \ {t} : u \in rs[o] <=> u \in refs[o]
                           /\ rs[o] # {} => refs[o] # {}
    BY DEF HeldInv
  <1>4. \A v \in gone : refs[v] = {}
    BY DEF LentInv
  <1> HIDE DEF rs
  <1>5. WrapperInv'
    BY <1>1, <1>3, <1>4 DEF WrapperInv
  <1>6. HeldInv'
    BY <1>1, <1>2, <1>3 DEF HeldInv
  <1>7. RawInv'
    BY <1>1, <1>2, <1>3 DEF RawInv, LentInv
  <1>8. LentInv'
    BY <1>1, <1>2, <1>3 DEF LentInv
  <1>9. OwnedInv'
    BY <1>1, <1>2, <1>3 DEF OwnedInv
  <1> QED
    BY <1>5, <1>6, <1>7, <1>8, <1>9

LEMMA OwnershipStep ==
  ASSUME Types, Control, Ownership, NEW t \in Threads, Step(t)
  PROVE  Ownership'
  <1>1. CASE TakeGil(t) \/ YieldGil(t) \/ ChangeList(t) \/ FinishWrite(t) \/ MakeFails(t) \/ MakeBytesFails(t)
          \/ Convert(t) \/ ConvertFails(t) \/ AllTried(t) \/ KernelImports(t)
          \/ Called(t) \/ CallHandler(t) \/ HandlerEnds(t)
    BY <1>1, Quiet DEF TakeGil, YieldGil, ChangeList, FinishWrite, MakeFails, MakeBytesFails, Convert,
       ConvertFails, AllTried, KernelImports, Called, CallHandler, HandlerEnds, callVars
  <1>2. ASSUME NEW size \in 1..MaxBytes, Write(t, size)
        PROVE  Ownership'
    BY <1>2, Quiet DEF Write, callVars
  <1>3. CASE New(t) \/ Read(t) \/ Import(t)
    BY <1>3, Begins DEF New, Read, Import, Start, At, Ops, Callbacks
  <1>4. ASSUME NEW o \in Objects, Get(t, o) \/ ToBytes(t, o)
        PROVE  Ownership'
    BY <1>4, BeginsWithSelf DEF Get, ToBytes, Start, At, Ops, Callbacks
  <1>5. CASE Copy(t) \/ KernelReads(t)
    <2>1. raw[t] = None
      BY <1>5 DEF Copy, KernelReads, More, At, Control
    <2>2. ASSUME UNCHANGED <<alive, raw>>
          PROVE  Ownership'
      BY <1>5, <2>2, Quiet DEF Copy, KernelReads, callVars, valueVars
    <2> QED
      BY <1>5, <2>1, <2>2, RawAppears DEF Copy, KernelReads, callVars
  <1>6. CASE Wrap(t)
    BY <1>6, WrapKeepsOwnership
  <1>7. CASE WrapFails(t)
    BY <1>7, WrapFailsKeepsOwnership
  <1>8. CASE MakeBytes(t) \/ Converted(t)
    BY <1>8, HoldBytesKeepsOwnership DEF MakeBytes, Converted
  <1>9. CASE Return(t) \/ Undo(t)
    <2>1. raw[t] = None /\ op[t] # None
      BY <1>9 DEF Return, Undo, At, Control
    <2> QED
      BY <1>9, <2>1, LeaveCallKeepsOwnership DEF Return, Undo
  <1>10. ASSUME NEW o \in Objects, Drop(t, o) \/ Keep(t, o)
        PROVE  Ownership'
    BY <1>10, DropKeepsOwnership, KeepKeepsOwnership
  <1>11. ASSUME NEW c \in Callbacks, NEW o \in Objects, CallBack(t, c, o)
        PROVE  Ownership'
    BY <1>11, CallBackKeepsOwnership
  <1> QED
    BY <1>1, <1>2, <1>3, <1>4, <1>5, <1>6, <1>7, <1>8, <1>9, <1>10, <1>11 DEF Step

----------------------------------------------------------------------------
(* The theorems.                                                           *)

LEMMA Invariance == Spec => []IInv
  <1>1. Init => IInv
    BY BookkeepingInit, OwnershipInit DEF IInv
  <1>2. IInv /\ [Next]_vars => IInv'
    <2> SUFFICES ASSUME IInv, [Next]_vars
                 PROVE  IInv'
      OBVIOUS
    <2>1. ASSUME NEW t \in Threads, Step(t)
          PROVE  IInv'
      BY <2>1, BookkeepingStep, OwnershipStep DEF IInv
    <2>2. CASE UNCHANGED vars
      <3>1. Ownership'
        BY <2>2, Quiet DEF IInv, vars, callVars
      <3> QED
        BY <2>2, <3>1
           DEF IInv, vars, callVars, valueVars, pathVars, Types, Control, PathsInv
    <2> QED
      BY <2>1, <2>2 DEF Next
  <1> QED
    BY <1>1, <1>2, PTL DEF Spec

LEMMA OwnershipIsEnough == IInv => NothingLeaks /\ NothingDangles
  <1> SUFFICES ASSUME IInv
               PROVE  NothingLeaks /\ NothingDangles
    OBVIOUS
  <1> USE DEF IInv, Ownership, Types
  <1>1. NothingLeaks
    <2>1. \A v \in alive : \/ \E o \in Objects : refs[o] # {} /\ ptr[o] = v
                          \/ \E t \in Threads : raw[t] = v
                          \/ \E u \in Threads : op[u] \in Callbacks /\ from[u] = v
      BY DEF OwnedInv, WrapperInv
    <2>2. \A o \in Objects, t \in Threads :
             t \in refs[o] => o \in made[t] \cup {from[t]}
      BY DEF HeldInv
    <2> QED
      BY <2>1, <2>2 DEF NothingLeaks, Control
  <1>2. NothingDangles
    <2>1. \A o, q \in Objects :
             /\ refs[o] # {} => ptr[o] \in alive
             /\ refs[o] # {} /\ refs[q] # {} /\ ptr[o] = ptr[q] => o = q
      BY DEF WrapperInv
    <2>2. ASSUME NEW t \in Threads
          PROVE  /\ \A v \in {from[t], raw[t]} \ {None} : v \in alive
                 /\ raw[t] # None => refs[raw[t]] = {}
                 /\ op[t] \in Callbacks => refs[from[t]] = {}
                 /\ \A o \in made[t] : t \in refs[o]
      BY DEF HeldInv, RawInv, LentInv, WrapperInv
    <2> QED
      BY <2>1, <2>2 DEF NothingDangles, PathsInv
  <1> QED
    BY <1>1, <1>2

\* Whatever allocation, copy or handler fails, every kernel value has somebody
\* who will destroy it, and no frame keeps a reference beyond its call.
THEOREM NothingLeaksCorrect == Spec => []NothingLeaks
  BY Invariance, OwnershipIsEnough, PTL

\* No wrapper outlives its value, no two destroy the same one, and an import
\* stays within a list that nobody shortens.
THEOREM NothingDanglesCorrect == Spec => []NothingDangles
  BY Invariance, OwnershipIsEnough, PTL

----------------------------------------------------------------------------
(* The capacity of a WriteBuf, whose doubling is a recursive function.       *)

\* Every set of naturals that is not empty has a least element.
LEMMA LeastNatural ==
  ASSUME NEW S \in SUBSET Nat, S # {}
  PROVE  \E n \in S : \A m \in S : n <= m
  <1> DEFINE Less == {p \in Nat \X Nat : p[1] < p[2]}
  <1>1. IsWellFoundedOn(Less, Nat)
    BY NatLessThanWellFounded DEF OpToRel
  <1>2. \E n \in S : \A m \in S : ~ (<<m, n>> \in Less)
    <2> HIDE DEF Less
    <2>1. S \subseteq Nat /\ S # {}
      OBVIOUS
    <2> QED
      BY <1>1, <2>1, WFMin, Zenon
  <1>3. \A m, n \in Nat : m < n => <<m, n>> \in Less
    OBVIOUS
  <1> HIDE DEF Less
  <1>4. PICK n \in S : \A m \in S : ~ (<<m, n>> \in Less)
    BY <1>2
  <1>5. ASSUME NEW m \in S
        PROVE  n <= m
    <2>1. m \in Nat /\ n \in Nat /\ ~ (<<m, n>> \in Less)
      BY <1>4
    <2> QED
      BY <2>1, <1>3
  <1> QED
    BY <1>5

\* The doubling function exists: one that is right from need - d on is made
\* right one below.
LEMMA DoublingExists ==
  ASSUME NEW need \in Nat
  PROVE  \E g : g = [c \in Nat |-> IF c >= need THEN c ELSE g[2 * c]]
  <1> DEFINE Right(g, d) == \A c \in Nat : c >= need - d => g[c] = IF c >= need THEN c ELSE g[2 * c]
             Wrong == {d \in Nat : ~ \E g \in [Nat -> Nat] : Right(g, d)}
  <1>1. 0 \notin Wrong
    <2> DEFINE g0 == [c \in Nat |-> c]
    <2>1. g0 \in [Nat -> Nat] /\ Right(g0, 0)
      OBVIOUS
    <2> QED
      BY <2>1
  <1>2. ASSUME NEW d \in Nat, d \notin Wrong
        PROVE  d + 1 \notin Wrong
    <2>1. PICK g \in [Nat -> Nat] : Right(g, d)
      BY <1>2
    <2> DEFINE new == need - (d + 1)
               h == [g EXCEPT ![new] = g[2 * new]]
    <2>2. CASE new <= 0
      <3>1. Right(g, d + 1)
        BY <2>1, <2>2
      <3> QED
        BY <3>1
    <2>3. CASE new > 0
      <3>1. new \in Nat /\ 2 * new \in Nat /\ 2 * new # new /\ new < need
        BY <2>3
      <3>2. h \in [Nat -> Nat] /\ h[new] = g[2 * new]
            /\ \A c \in Nat \ {new} : h[c] = g[c]
        BY <3>1
      <3>3. ASSUME NEW c \in Nat, c >= need - (d + 1)
            PROVE  h[c] = IF c >= need THEN c ELSE h[2 * c]
        <4>1. CASE c = new
          BY <4>1, <3>1, <3>2
        <4>2. CASE c # new
          <5>1. c >= need - d /\ 2 * c \in Nat /\ 2 * c # new
            BY <4>2, <3>1, <3>3
          <5> QED
            BY <5>1, <4>2, <3>2, <2>1
        <4> QED
          BY <4>1, <4>2
      <3> QED
        BY <3>2, <3>3
    <2> QED
      BY <2>2, <2>3
  <1>3. Wrong = {}
    <2> SUFFICES ASSUME Wrong # {}
                 PROVE  FALSE
      OBVIOUS
    <2>1. \E d \in Wrong : \A e \in Wrong : d <= e
      <3>1. Wrong \in SUBSET Nat
        OBVIOUS
      <3> HIDE DEF Wrong
      <3> QED
        BY <3>1, LeastNatural
    <2>2. PICK d \in Nat : d \in Wrong /\ \A e \in Wrong : d <= e
      BY <2>1
    <2> HIDE DEF Wrong
    <2>3. d # 0 /\ d - 1 \in Nat /\ d - 1 \notin Wrong
      BY <2>2, <1>1
    <2>4. (d - 1) + 1 \notin Wrong
      BY <2>3, <1>2
    <2> QED
      BY <2>2, <2>4
  <1>4. PICK g \in [Nat -> Nat] : Right(g, need)
    BY <1>3
  <1>5. g = [c \in Nat |-> IF c >= need THEN c ELSE g[2 * c]]
    BY <1>4
  <1> QED
    BY <1>5

\* What the loop of writebuf_cb() ends with: a capacity that fits.
LEMMA GrowFits ==
  ASSUME NEW cap \in Nat, NEW need \in Nat
  PROVE  Grow(cap, need) \in Nat /\ Grow(cap, need) >= need
  <1> DEFINE f == CHOOSE g : g = [c \in Nat |-> IF c >= need THEN c ELSE g[2 * c]]
             start == IF cap = 0 THEN InitialCap ELSE cap
             Bad == {d \in Nat : \E c \in Nat \ {0} : need - c <= d /\ ~(f[c] \in Nat /\ f[c] >= need)}
  <1>1. f = [c \in Nat |-> IF c >= need THEN c ELSE f[2 * c]]
    <2>1. \E g : g = [c \in Nat |-> IF c >= need THEN c ELSE g[2 * c]]
      BY DoublingExists
    <2> QED
      BY <2>1, Zenon
  <1>2. \A c \in Nat : f[c] = IF c >= need THEN c ELSE f[2 * c]
    BY <1>1
  <1> HIDE DEF f
  <1>3. Bad = {}
    <2> SUFFICES ASSUME Bad # {}
                 PROVE  FALSE
      OBVIOUS
    <2>1. PICK d \in Bad : \A e \in Bad : d <= e
      <3>1. Bad \in SUBSET Nat
        OBVIOUS
      <3> HIDE DEF Bad
      <3> QED
        BY <3>1, LeastNatural
    <2>2. PICK c \in Nat \ {0} : need - c <= d /\ ~(f[c] \in Nat /\ f[c] >= need)
      BY <2>1
    <2>3. c < need /\ 2 * c \in Nat \ {0} /\ f[c] = f[2 * c] /\ need - 2 * c <= d - 1 /\ d - 1 \in Nat
      BY <2>2, <1>2
    <2>4. d - 1 \in Bad
      BY <2>2, <2>3
    <2> QED
      BY <2>1, <2>4
  <1>4. start \in Nat \ {0}
    BY ConstantsAssumption
  <1>5. f[start] \in Nat /\ f[start] >= need
    BY <1>3, <1>4
  <1>6. Grow(cap, need) = f[start]
    BY DEF Grow, f
  <1> QED
    BY <1>5, <1>6

----------------------------------------------------------------------------
(* What is handed out is whole.                                            *)

\* How many parts a frame has made of those that it has tried.
Count(t) ==
    LET count == Cardinality(made[t])
    IN  /\ IsFiniteSet(made[t]) /\ count <= tried[t]
        /\ tried[t] <= goal[t] /\ goal[t] <= MaxParts
        /\ pc[t] = "make" => count = tried[t] \/ op[t] = "trace"
        /\ pc[t] = "convert" => count = tried[t] /\ tried[t] < goal[t]
        /\ pc[t] \in {"wrap", "called"} /\ raw[t] # None => tried[t] = count + 1
        /\ pc[t] = "call" /\ op[t] = "read" => tried[t] = 0 /\ goal[t] = 1
        /\ pc[t] = "write" => tried[t] = 0 /\ goal[t] = 1
        /\ pc[t] \in {"full", "handler"} => count = goal[t]
        /\ pc[t] = "call" /\ op[t] = "import" => count = goal[t]

\* The bytes of a WriteBuf fit, and are all there unless an allocation failed,
\* which ends the call.
Buffers == [len: 0..MaxBytes, cap: Nat, oom: BOOLEAN, offered: 0..MaxBytes]
Stored(t) ==
    /\ buf[t] \in Buffers
    /\ buf[t].len <= buf[t].cap
    /\ buf[t].len <= buf[t].offered
    /\ buf[t].len = buf[t].offered \/ buf[t].oom
    /\ buf[t].oom => pc[t] \in {"write", "undo"}

WholeInv ==
    /\ gil \in Threads \cup {Free}
    /\ paths \in 0..MaxParts
    /\ buf \in [Threads -> Buffers]
    /\ \A t \in Threads : Count(t) /\ Stored(t)

LEMMA WholeInit == Init => WholeInv
  <1> SUFFICES ASSUME Init
               PROVE  WholeInv
    OBVIOUS
  <1>1. IsFiniteSet({}) /\ Cardinality({}) = 0
    BY FS_EmptySet
  <1>2. NoBuf \in Buffers
    BY ConstantsAssumption DEF NoBuf, Buffers
  <1>3. ASSUME NEW t \in Threads
        PROVE  Count(t)
    BY <1>1, ConstantsAssumption DEF Init, Count
  <1>4. ASSUME NEW t \in Threads
        PROVE  Stored(t)
    <2>1. buf[t] = NoBuf
      BY DEF Init
    <2> QED
      BY <2>1, <1>2 DEF NoBuf, Stored
  <1>5. buf \in [Threads -> Buffers]
    BY <1>2 DEF Init
  <1> QED
    BY <1>3, <1>4, <1>5 DEF Init, WholeInv

\* The other threads' frames.
LEMMA OthersStayWhole ==
  ASSUME WholeInv, NEW t \in Threads, NEW u \in Threads,
         pc'[u] = pc[u], op'[u] = op[u], goal'[u] = goal[u], tried'[u] = tried[u],
         made'[u] = made[u], raw'[u] = raw[u], buf'[u] = buf[u]
  PROVE  Count(u)' /\ Stored(u)'
  BY DEF WholeInv, Count, Stored

\* One more part.
LEMMA OneMore ==
  ASSUME NEW S, IsFiniteSet(S), NEW o, o \notin S
  PROVE  /\ IsFiniteSet(S \cup {o})
         /\ Cardinality(S) \in Nat /\ Cardinality(S \cup {o}) = Cardinality(S) + 1
  BY FS_AddElement, FS_CardinalityType

LEMMA CountStep ==
  ASSUME IInv, WholeInv, NEW t \in Threads, Step(t)
  PROVE  Count(t)'
  <1>0. /\ Count(t) /\ paths \in 0..MaxParts
        /\ Cardinality(made[t]) \in Nat
        /\ IsFiniteSet({}) /\ Cardinality({}) = 0
    BY FS_EmptySet, FS_CardinalityType DEF WholeInv, Count
  <1> USE ConstantsAssumption, <1>0
      DEF IInv, Types, Control, Count, At, Goto, callVars, valueVars, pathVars,
          PCs, PythonStates, Ops, Callbacks
  <1>1. CASE TakeGil(t) \/ YieldGil(t) \/ ChangeList(t)
    BY <1>1 DEF TakeGil, YieldGil, ChangeList
  <1>2. ASSUME NEW o, NEW n \in 0..MaxParts, NEW where \in {"make", "write", "call"},
               pc[t] = "out", Start(t, o, n, where), where # "make" => n = 1,
               where = "call" => o = "read"
        PROVE  Count(t)'
    <2>1. made'[t] = {} /\ raw'[t] = None
      BY <1>2 DEF Start
    <2>2. pc'[t] = where /\ op'[t] = o /\ goal'[t] = n /\ tried'[t] = 0
      BY <1>2 DEF Start
    <2> QED
      BY <1>2, <2>1, <2>2
  <1>17. CASE New(t) \/ Read(t) \/ Import(t)
    <2>1. 1 \in 0..MaxParts
      OBVIOUS
    <2> QED
      BY <1>2, <1>17, <2>1 DEF New, Read, Import
  <1>3. ASSUME NEW o \in Objects, Drop(t, o) \/ Keep(t, o)
        PROVE  Count(t)'
    BY <1>3 DEF Drop, Keep
  <1>4. ASSUME NEW o \in Objects, Get(t, o) \/ ToBytes(t, o)
        PROVE  Count(t)'
    <2>1. 1 \in 0..MaxParts /\ 1..MaxParts \subseteq 0..MaxParts
      OBVIOUS
    <2>2. CASE Get(t, o)
      BY <1>2, <2>1, <2>2 DEF Get
    <2>3. CASE ToBytes(t, o)
      BY <1>2, <2>1, <2>3 DEF ToBytes
    <2> QED
      BY <1>4, <2>2, <2>3
  <1>5. ASSUME NEW c \in Callbacks, NEW o \in Objects, CallBack(t, c, o)
        PROVE  Count(t)'
    BY <1>2, <1>5 DEF CallBack
  <1>6. ASSUME NEW size \in 1..MaxBytes, Write(t, size)
        PROVE  Count(t)'
    BY <1>6 DEF Write
  <1>7. CASE FinishWrite(t) \/ WrapFails(t) \/ MakeFails(t) \/ ConvertFails(t)
    BY <1>7 DEF FinishWrite, WrapFails, MakeFails, ConvertFails, More
  <1>8. CASE Copy(t)
    BY <1>8 DEF Copy, More, Tried
  <1>9. CASE Wrap(t)
    <2>1. raw[t] \notin made[t]
      BY <1>9 DEF Wrap, Ownership, HeldInv, RawInv
    <2>2. /\ IsFiniteSet(made[t] \cup {raw[t]})
          /\ Cardinality(made[t] \cup {raw[t]}) = Cardinality(made[t]) + 1
      BY <2>1, OneMore
    <2> QED
      BY <1>9, <2>2 DEF Wrap, Hold
  <1>10. CASE MakeBytes(t) \/ Converted(t)
    <2>1. PICK o \in Objects : refs[o] = {} /\ made' = [made EXCEPT ![t] = @ \cup {o}]
      BY <1>10 DEF MakeBytes, Converted, HoldBytes, Unused, Hold
    <2>2. o \notin made[t]
      BY <2>1 DEF Ownership, HeldInv
    <2>3. /\ IsFiniteSet(made[t] \cup {o})
          /\ Cardinality(made[t] \cup {o}) = Cardinality(made[t]) + 1
      BY <2>2, OneMore
    <2> QED
      BY <1>10, <2>1, <2>3 DEF MakeBytes, Converted, HoldBytes, More, Tried
  <1>11. CASE MakeBytesFails(t) \/ Convert(t)
    BY <1>11 DEF MakeBytesFails, Convert, More, Tried
  <1>12. CASE AllTried(t)
    BY <1>12 DEF AllTried
  <1>13. CASE KernelReads(t)
    BY <1>13 DEF KernelReads, Tried
  <1>14. CASE KernelImports(t) \/ Called(t)
    BY <1>14 DEF KernelImports, Called
  <1>15. CASE Return(t) \/ Undo(t)
    <2>1. /\ made'[t] = {} /\ raw'[t] = raw[t]
          /\ pc'[t] = "out" /\ goal'[t] = 0 /\ tried'[t] = 0
      BY <1>15 DEF Return, Undo, LeaveCall
    <2> QED
      BY <2>1
  <1>16. CASE CallHandler(t) \/ HandlerEnds(t)
    BY <1>16 DEF CallHandler, HandlerEnds
  <1> QED
    BY <1>1, <1>3, <1>4, <1>5, <1>6, <1>7, <1>8, <1>9, <1>10, <1>11, <1>12,
       <1>13, <1>14, <1>15, <1>16, <1>17 DEF Step

LEMMA StoredStep ==
  ASSUME IInv, WholeInv, NEW t \in Threads, Step(t)
  PROVE  Stored(t)' /\ buf' \in [Threads -> Buffers]
  <1>0. Stored(t) /\ buf \in [Threads -> Buffers] /\ NoBuf \in Buffers
    BY ConstantsAssumption DEF WholeInv, NoBuf, Buffers
  <1> USE ConstantsAssumption, <1>0
      DEF IInv, Types, Control, Stored, At, Goto, callVars, valueVars, pathVars,
          PCs, PythonStates, Ops, Callbacks
  <1>1. CASE TakeGil(t) \/ YieldGil(t) \/ ChangeList(t) \/ FinishWrite(t)
    BY <1>1 DEF TakeGil, YieldGil, ChangeList, FinishWrite
  <1>2. ASSUME NEW o \in Objects, Drop(t, o) \/ Keep(t, o)
        PROVE  Stored(t)' /\ buf' \in [Threads -> Buffers]
    BY <1>2 DEF Drop, Keep
  <1>3. ASSUME UNCHANGED buf, pc[t] = "out" \/ pc'[t] = "undo" \/ ~buf[t].oom
        PROVE  Stored(t)' /\ buf' \in [Threads -> Buffers]
    <2>1. pc[t] = "out" => ~buf[t].oom
      BY DEF NoBuf
    <2> QED
      BY <1>3, <2>1
  <1>4. CASE New(t) \/ Read(t) \/ Import(t)
    BY <1>3, <1>4 DEF New, Read, Import
  <1>5. ASSUME NEW o \in Objects, Get(t, o) \/ ToBytes(t, o)
        PROVE  Stored(t)' /\ buf' \in [Threads -> Buffers]
    BY <1>3, <1>5 DEF Get, ToBytes, WithSelf
  <1>6. ASSUME NEW c \in Callbacks, NEW o \in Objects, CallBack(t, c, o)
        PROVE  Stored(t)' /\ buf' \in [Threads -> Buffers]
    BY <1>3, <1>6 DEF CallBack
  <1>7. CASE Copy(t) \/ Wrap(t) \/ MakeBytes(t) \/ MakeBytesFails(t) \/ Convert(t)
             \/ Converted(t) \/ AllTried(t) \/ KernelReads(t) \/ KernelImports(t)
             \/ Called(t) \/ CallHandler(t) \/ HandlerEnds(t)
    BY <1>3, <1>7 DEF Copy, Wrap, MakeBytes, MakeBytesFails, Convert, Converted,
       AllTried, KernelReads, KernelImports, Called, CallHandler, HandlerEnds,
       HoldBytes, More
  <1>8. CASE WrapFails(t) \/ MakeFails(t) \/ ConvertFails(t)
    BY <1>3, <1>8 DEF WrapFails, MakeFails, ConvertFails, More
  <1>9. CASE Return(t) \/ Undo(t)
    <2>1. buf' = [buf EXCEPT ![t] = NoBuf]
      BY <1>9 DEF Return, Undo, LeaveCall
    <2> QED
      BY <2>1 DEF NoBuf
  <1>10. ASSUME NEW size \in 1..MaxBytes, Write(t, size)
        PROVE  Stored(t)' /\ buf' \in [Threads -> Buffers]
    <2> DEFINE b == buf[t]
               need == b.len + size
               offered == [b EXCEPT !.offered = @ + size]
    <2>1. /\ b \in Buffers /\ need \in 0..MaxBytes /\ need \in Nat
          /\ b.offered + size \in 0..MaxBytes /\ need <= b.offered + size
          /\ pc'[t] = "write"
      BY <1>10 DEF Write, Buffers
    <2>2. \/ buf' = [buf EXCEPT ![t] = [offered EXCEPT !.len = need, !.cap = b.cap]]
             /\ need <= b.cap
          \/ buf' = [buf EXCEPT ![t] = [offered EXCEPT !.len = need, !.cap = Grow(b.cap, need)]]
          \/ buf' = [buf EXCEPT ![t] = [offered EXCEPT !.oom = TRUE]]
      BY <1>10 DEF Write
    <2>3. Grow(b.cap, need) \in Nat /\ need <= Grow(b.cap, need)
      BY <2>1, GrowFits DEF Buffers
    <2>4. ASSUME NEW cap \in Nat, need <= cap,
                 buf' = [buf EXCEPT ![t] = [offered EXCEPT !.len = need, !.cap = cap]]
          PROVE  Stored(t)' /\ buf' \in [Threads -> Buffers]
      <3>1. /\ buf'[t] \in Buffers
            /\ buf'[t].len = need /\ buf'[t].cap = cap /\ buf'[t].oom = b.oom
            /\ buf'[t].offered = b.offered + size
        BY <2>1, <2>4 DEF Buffers
      <3> QED
        BY <2>1, <2>4, <3>1 DEF Buffers
    <2>5. ASSUME buf' = [buf EXCEPT ![t] = [offered EXCEPT !.oom = TRUE]]
          PROVE  Stored(t)' /\ buf' \in [Threads -> Buffers]
      <3>1. /\ buf'[t] \in Buffers
            /\ buf'[t].len = b.len /\ buf'[t].cap = b.cap /\ buf'[t].oom = TRUE
            /\ buf'[t].offered = b.offered + size
        BY <2>1, <2>5 DEF Buffers
      <3> QED
        BY <2>1, <2>5, <3>1 DEF Buffers
    <2>6. b.cap \in Nat
      BY <2>1 DEF Buffers
    <2> QED
      BY <2>2, <2>3, <2>4, <2>5, <2>6
  <1> QED
    BY <1>1, <1>2, <1>4, <1>5, <1>6, <1>7, <1>8, <1>9, <1>10 DEF Step

LEMMA WholeStep ==
  ASSUME IInv, WholeInv, NEW t \in Threads, Step(t)
  PROVE  WholeInv'
  <1>1. gil' \in Threads \cup {Free}
    BY DEF WholeInv, Step, TakeGil, YieldGil, ChangeList, New, Read, Import, Drop, Keep, Get,
       ToBytes, CallBack, Write, FinishWrite, Copy, Wrap, WrapFails, MakeBytes, MakeFails,
       MakeBytesFails, Convert, Converted, HoldBytes, ConvertFails, AllTried, KernelReads,
       KernelImports, Called, Return, Undo, LeaveCall, CallHandler, HandlerEnds
  <1>2. paths' \in 0..MaxParts
    BY DEF WholeInv, Step, TakeGil, YieldGil, ChangeList, New, Read, Import, Start, Drop, Keep, Get,
       ToBytes, CallBack, Write, FinishWrite, Copy, Wrap, WrapFails, MakeBytes, MakeFails,
       MakeBytesFails, Convert, Converted, HoldBytes, ConvertFails, AllTried, KernelReads,
       KernelImports, Called, Return, Undo, LeaveCall, CallHandler, HandlerEnds, pathVars
  <1>3. ASSUME NEW u \in Threads, u # t
        PROVE  Count(u)' /\ Stored(u)'
    <2>1. /\ pc'[u] = pc[u] /\ op'[u] = op[u] /\ goal'[u] = goal[u]
          /\ tried'[u] = tried[u] /\ made'[u] = made[u] /\ raw'[u] = raw[u]
      BY <1>3 DEF IInv, Types, Step, TakeGil, YieldGil, ChangeList, New, Read, Import, Start,
         Drop, Keep, Get, ToBytes, CallBack, Write, FinishWrite, Copy, Wrap, WrapFails,
         MakeBytes, MakeFails, MakeBytesFails, Convert, Converted, HoldBytes, Hold, Tried,
         ConvertFails, AllTried, KernelReads, KernelImports, Called, Return, Undo, LeaveCall,
         CallHandler, HandlerEnds, Goto, callVars
    <2>2. buf'[u] = buf[u]
      BY <1>3 DEF WholeInv, Step, TakeGil, YieldGil, ChangeList, New, Read, Import,
         Drop, Keep, Get, ToBytes, WithSelf, CallBack, Write, FinishWrite, Copy, Wrap, WrapFails,
         MakeBytes, MakeFails, MakeBytesFails, Convert, Converted, HoldBytes,
         ConvertFails, AllTried, KernelReads, KernelImports, Called, Return, Undo, LeaveCall,
         CallHandler, HandlerEnds
    <2> QED
      BY <2>1, <2>2, OthersStayWhole
  <1> QED
    BY <1>1, <1>2, <1>3, CountStep, StoredStep DEF WholeInv

LEMMA WholeInvariance == Spec => []WholeInv
  <1>1. IInv /\ WholeInv /\ [Next]_vars => WholeInv'
    <2> SUFFICES ASSUME IInv, WholeInv, [Next]_vars
                 PROVE  WholeInv'
      OBVIOUS
    <2>1. ASSUME NEW t \in Threads, Step(t)
          PROVE  WholeInv'
      BY <2>1, WholeStep
    <2>2. CASE UNCHANGED vars
      BY <2>2 DEF vars, callVars, pathVars, WholeInv, Count, Stored
    <2> QED
      BY <2>1, <2>2 DEF Next
  <1> QED
    BY <1>1, WholeInit, Invariance, PTL DEF Spec

\* Nothing half-made is handed out: a tuple, the arguments of a handler, a frame
\* and the paths of an import are all there, and bytes are all that was written.
THEOREM AnswersAreWholeCorrect == Spec => []AnswersAreWhole
  <1>1. WholeInv => AnswersAreWhole
    BY DEF WholeInv, Count, Stored, AnswersAreWhole
  <1> QED
    BY <1>1, WholeInvariance, PTL

\* Every variable keeps to its type, the bounds included: no call tries more than
\* MaxParts parts, and no buffer holds more than MaxBytes bytes, in a capacity
\* that is a number however often it was doubled.
THEOREM TypeCorrect == Spec => []TypeOK
  <1>1. IInv /\ WholeInv => TypeOK
    <2> SUFFICES ASSUME IInv, WholeInv
                 PROVE  TypeOK
      OBVIOUS
    <2>1. \A t \in Threads : goal[t] \in 0..MaxParts /\ tried[t] \in 0..MaxParts
      BY FS_CardinalityType, ConstantsAssumption DEF IInv, Types, WholeInv, Count
    <2> QED
      BY <2>1 DEF IInv, Types, WholeInv, Buffers, TypeOK
  <1> QED
    BY <1>1, Invariance, WholeInvariance, PTL
=============================================================================
