----------------------- MODULE ChainstateManagerProofs -----------------------
(***************************************************************************)
(* What holds of ChainstateManager for any number of threads, callbacks,   *)
(* managers and views.                                                     *)
(***************************************************************************)
EXTENDS ChainstateManager, TLAPS

\* A kernel manager is destroyed at most once, whatever threads race to
\* close(), leave their "with" block or drop the last reference.
DestroyedOnce == "destroy" \notin faults

\* A destroyed kernel manager stays destroyed, and once its destruction has
\* begun nothing brings its wrapper's pointer back.
KernelLifeIsOneWay ==
    [][\A m \in Managers :
          /\ kernel[m] = "gone" => kernel'[m] = "gone"
          /\ kernel[m] \in {"destroying", "gone"} => ~ptr'[m]]_vars

\* Frames that hold a reference to self.
FrameStates == {"import", "call", "kernel", "done"}
\* Frames of ChainstateManager_new, whose wrapper does not exist yet.
NewStates == {"create", "created", "failed"}
\* No method of a manager is on the stack.
NoSelfStates == {"py", "idle", "ensure"}

\* An open wrapper has a whole kernel object and is referenced.
OpenInv ==
    \A m \in Managers : ptr[m] => kernel[m] = "live" /\ refs[m] # {}

\* Views: an owner is the manager the memory belongs to, and is referenced.
ViewInv ==
    \A v \in Views :
        /\ owner[v] # Null => v \in refs[owner[v]] /\ origin[v] = owner[v]
        /\ \A m \in Managers : v \in refs[m] => owner[v] = m

\* Which frame may stand on which manager.
FrameInv ==
    \A a \in Acts :
        /\ pc[a] \in NoSelfStates <=> self[a] = Null
        /\ pc[a] \in FrameStates => a \in refs[self[a]]
        /\ \A m \in Managers :
              a \in refs[m] =>
                  /\ self[a] = m
                  /\ pc[a] \in FrameStates \cup {"destroy", "closed"}
        /\ pc[a] \in NewStates =>
              /\ refs[self[a]] = {}
              /\ \A b \in Acts : self[b] = self[a] => b = a
        /\ pc[a] = "create" => kernel[self[a]] = "absent"
        /\ pc[a] = "created" => kernel[self[a]] = "live" /\ ~ptr[self[a]]
        /\ pc[a] = "failed" => kernel[self[a]] = "gone"
        /\ pc[a] = "destroy" =>
              /\ kernel[self[a]] = "destroying"
              /\ \A b \in Acts : pc[b] = "destroy" /\ self[b] = self[a] => b = a

\* Who is responsible for a kernel object that no open wrapper has.
KernelInv ==
    \A m \in Managers :
        /\ kernel[m] = "absent" => refs[m] = {}
        /\ kernel[m] = "live" /\ ~ptr[m] =>
              \E a \in Acts : self[a] = m /\ pc[a] = "created"
        /\ kernel[m] = "destroying" =>
              \E a \in Acts : self[a] = m /\ pc[a] = "destroy"

\* As long as no close() has raced a call, the frames that are yet to reach the
\* kernel, or are in it, stand on an open wrapper.
QuiescentInv ==
    ~raced => \A a \in Acts :
        pc[a] \in {"import", "call", "kernel"} => ptr[self[a]]

FaultInv ==
    /\ DestroyedOnce
    /\ GuardedAccessesStayValid
    /\ QuiescentCallsStayValid

IInv == OpenInv /\ ViewInv /\ FrameInv /\ KernelInv /\ QuiescentInv /\ FaultInv
----------------------------------------------------------------------------

LEMMA TypeInit == Init => TypeOK
  BY ConstantsAssumption DEF Init, TypeOK, Acts, PCs, PyStates, FaultKinds

\* What CloseImpl and Decref change keeps its type.
LEMMA CloseImplType ==
  ASSUME TypeOK, NEW a \in Acts, NEW m \in Managers \cup {Null}, CloseImpl(a, m)
  PROVE  /\ gil' \in Acts \cup {Free}
         /\ pc' \in [Acts -> PCs]
         /\ self' \in [Acts -> Managers \cup {Null}]
         /\ ptr' \in [Managers -> BOOLEAN]
         /\ kernel' \in [Managers -> {"absent", "live", "destroying", "gone"}]
         /\ faults' \in SUBSET FaultKinds
  BY DEF TypeOK, CloseImpl, Fault, PCs, KernelStates, FaultKinds

LEMMA DecrefType ==
  ASSUME TypeOK, NEW a \in Acts, NEW m \in Managers \cup {Null}, NEW h,
         Decref(a, m, h)
  PROVE  /\ gil' \in Acts \cup {Free}
         /\ pc' \in [Acts -> PCs]
         /\ self' \in [Acts -> Managers \cup {Null}]
         /\ ptr' \in [Managers -> BOOLEAN]
         /\ kernel' \in [Managers -> {"absent", "live", "destroying", "gone"}]
         /\ refs' \in [Managers -> SUBSET (Acts \cup Views \cup {Var})]
         /\ faults' \in SUBSET FaultKinds
  <1>1. refs' \in [Managers -> SUBSET (Acts \cup Views \cup {Var})]
    BY DEF TypeOK, Decref
  <1>2. CASE refs[m] = {h} /\ ptr[m]
    <2>1. CloseImpl(a, m)
      BY <1>2 DEF Decref
    <2>2. QED
      BY <1>1, <2>1, CloseImplType
  <1>3. CASE ~(refs[m] = {h} /\ ptr[m])
    <2>1. Resume(a) /\ UNCHANGED <<ptr, kernel, faults>>
      BY <1>3 DEF Decref
    <2>2. QED
      BY <1>1, <2>1 DEF TypeOK, Resume, PCs, PyStates
  <1>4. QED
    BY <1>2, <1>3

LEMMA TypeNext == TypeOK /\ [Next]_vars => TypeOK'
  <1> SUFFICES ASSUME TypeOK, [Next]_vars PROVE TypeOK'
    OBVIOUS
  <1> USE ConstantsAssumption
      DEF TypeOK, Acts, PCs, PyStates, KernelStates, WaitStates, FaultKinds,
          managerVars, viewVars
  <1>1. ASSUME NEW a \in Acts, YieldGil(a) PROVE TypeOK'
    BY <1>1 DEF YieldGil
  <1>2. ASSUME NEW a \in Acts, TakeGil(a) PROVE TypeOK'
    <2>1. CASE AcquireGil(a)
      BY <2>1 DEF AcquireGil
    <2>6. CASE CreateFails(a)
      BY <2>6 DEF CreateFails, Resume
    <2>2. CASE CreateReturn(a)
      BY <2>2 DEF CreateReturn, Resume
    <2>3. CASE AllocFails(a)
      BY <2>3, CloseImplType DEF AllocFails
    <2>4. CASE CallReturn(a) \/ CloseReturn(a)
      BY <2>4, DecrefType DEF CallReturn, CloseReturn
    <2>5. QED
      BY <1>2, <2>1, <2>2, <2>3, <2>4, <2>6 DEF TakeGil
  <1>3. ASSUME NEW a \in Acts, KernelStep(a) PROVE TypeOK'
    BY <1>3 DEF KernelStep, EnterKernel, KernelCreate, KernelReturn, DestroyReturn,
       CallFaults, SelfFault, ArgFault, Fault
  <1>4. ASSUME NEW a \in Acts, LeaveImport(a) PROVE TypeOK'
    <2>1. CASE ImportFails(a)
      BY <2>1, DecrefType DEF ImportFails
    <2>2. CASE ImportCall(a)
      BY <2>2 DEF ImportCall
    <2>3. QED
      BY <1>4, <2>1, <2>2 DEF LeaveImport
  <1>5. ASSUME NEW a \in Acts, UseLibrary(a) PROVE TypeOK'
    <2>1. ASSUME NEW m \in Managers,
                 CreateCall(a, m) \/ Close(a, m) \/ DropVar(a, m) \/ StartImport(a, m)
          PROVE TypeOK'
      <3>1. CASE CreateCall(a, m)
        BY <3>1 DEF CreateCall
      <3>2. CASE Close(a, m)
        <4>1. CASE ptr[m]
          <5>1. refs' \in [Managers -> SUBSET (Acts \cup Views \cup {Var})]
            BY <3>2, <4>1 DEF Close
          <5>2. /\ CloseImpl(a, m) /\ UNCHANGED <<arg, parent, viewVars>>
                /\ raced' \in BOOLEAN
            BY <3>2, <4>1 DEF Close
          <5>3. QED
            BY <5>1, <5>2, CloseImplType
        <4>2. CASE ~ptr[m]
          BY <3>2, <4>2 DEF Close, vars
        <4>3. QED
          BY <4>1, <4>2
      <3>5. CASE StartImport(a, m)
        BY <3>5 DEF StartImport
      <3>3. CASE DropVar(a, m)
        BY <3>3, DecrefType DEF DropVar
      <3>4. QED
        BY <2>1, <3>1, <3>2, <3>3, <3>5
    <2>2. ASSUME NEW m \in Managers, NEW v \in Views, GetView(a, m, v)
          PROVE TypeOK'
      BY <2>2 DEF GetView, Wrap, SelfFault, Fault
    <2>3. ASSUME NEW m \in Managers, NEW e \in Views \cup {Null}, StartCall(a, m, e)
          PROVE TypeOK'
      BY <2>3 DEF StartCall
    <2>4. ASSUME NEW v \in Views, UseView(a, v) \/ DropView(a, v) PROVE TypeOK'
      <3>1. CASE UseView(a, v)
        BY <3>1 DEF UseView, ViewFault, Fault
      <3>2. CASE DropView(a, v)
        BY <3>2, DecrefType DEF DropView
      <3>3. QED
        BY <2>4, <3>1, <3>2
    <2>5. ASSUME NEW v \in Views, NEW w \in Views,
                 DeriveView(a, v, w) \/ CompareViews(a, v, w) \/ Contains(a, v, w)
          PROVE TypeOK'
      BY <2>5 DEF DeriveView, CompareViews, Contains, ViewFault, ArgFault, Fault,
         Wrap, NoView
    <2>6. QED
      BY <1>5, <2>1, <2>2, <2>3, <2>4, <2>5 DEF UseLibrary
  <1>6. ASSUME NEW k \in Callbacks, Callback(k) PROVE TypeOK'
    <2>1. ASSUME EnterHandler(k) \/ HandlerReturn(k) PROVE TypeOK'
      BY <2>1 DEF EnterHandler, HandlerReturn, EnterPython
    <2>2. ASSUME NEW a \in Acts, Deliver(k, a) PROVE TypeOK'
      BY <2>2 DEF Deliver
    <2>3. ASSUME NEW v \in Views, EnterHandlerWithEntry(k, v) PROVE TypeOK'
      BY <2>3 DEF EnterHandlerWithEntry, EnterPython, Wrap
    <2>4. QED
      BY <1>6, <2>1, <2>2, <2>3 DEF Callback
  <1>7. CASE UNCHANGED vars
    BY <1>7 DEF vars
  <1>8. QED
    BY <1>1, <1>2, <1>3, <1>4, <1>5, <1>6, <1>7 DEF Next, Act

\* The variables keep their types in every behaviour.
THEOREM TypeCorrect == Spec => []TypeOK
  BY TypeInit, TypeNext, PTL DEF Spec

----------------------------------------------------------------------------
(* The inductive invariant.  Each lemma takes one kind of step.            *)

LEMMA IInvInit == Init => IInv
  <1> SUFFICES ASSUME Init PROVE IInv
    OBVIOUS
  <1> USE ConstantsAssumption DEF Init, Acts
  <1>1. OpenInv /\ KernelInv
    BY DEF OpenInv, KernelInv
  <1>2. ViewInv
    BY DEF ViewInv
  <1>3. FrameInv
    <2>1. \A a \in Acts : pc[a] \in {"py", "idle"} /\ self[a] = Null
      OBVIOUS
    <2>2. \A m \in Managers : refs[m] = {}
      OBVIOUS
    <2>3. QED
      BY <2>1, <2>2 DEF FrameInv, NoSelfStates, FrameStates, NewStates
  <1>4. QuiescentInv
    BY DEF QuiescentInv
  <1>5. FaultInv
    BY DEF FaultInv, DestroyedOnce, GuardedAccessesStayValid,
       QuiescentCallsStayValid
  <1>6. QED
    BY <1>1, <1>2, <1>3, <1>4, <1>5 DEF IInv

\* Giving up a reference: the last one destroys the kernel object, and then no
\* frame, view or variable stands on the manager.
LEMMA DecrefInv ==
  ASSUME TypeOK, TypeOK', IInv,
         NEW a \in Acts, NEW m \in Managers, NEW h \in Acts \cup Views \cup {Var},
         Decref(a, m, h), UNCHANGED raced,
         \/ h = a /\ self[a] = m /\ pc[a] \in {"import", "done", "closed"}
         \/ h \notin Acts /\ pc[a] = "py",
         \/ h \notin Views /\ UNCHANGED viewVars
         \/ /\ h \in Views
            /\ owner[h] = m
            /\ owner' = [owner EXCEPT ![h] = Null]
            /\ origin' = [origin EXCEPT ![h] = Null]
  PROVE  IInv'
  <1> USE ConstantsAssumption DEF TypeOK, IInv
  <1>1. /\ refs' = [refs EXCEPT ![m] = @ \ {h}] /\ raced' = raced
        /\ \A b \in Acts : b # a => pc'[b] = pc[b] /\ self'[b] = self[b]
    BY DEF Decref, CloseImpl, Resume
  <1>2. CASE refs[m] = {h} /\ ptr[m]
    <2>1. CloseImpl(a, m) /\ kernel[m] = "live"
      BY <1>2 DEF Decref, OpenInv
    <2>2. /\ ptr' = [ptr EXCEPT ![m] = FALSE]
          /\ kernel' = [kernel EXCEPT ![m] = "destroying"]
          /\ pc'[a] = "destroy" /\ self'[a] = m /\ faults' = faults
          /\ refs'[m] = {}
      BY <1>1, <1>2, <2>1 DEF CloseImpl, Fault
    <2>3. \A b \in Acts : b # a => self[b] # m \/ pc[b] = "closed"
      BY <1>2, <2>1 DEF FrameInv, NoSelfStates, FrameStates, NewStates, PCs,
         PyStates, KernelStates, WaitStates
    <2>4. OpenInv'
      BY <1>1, <2>2 DEF OpenInv
    <2>5. ViewInv'
      BY <1>1, <2>2 DEF ViewInv, viewVars
    <2>6. FrameInv'
      BY <1>1, <2>2, <2>3 DEF FrameInv, NoSelfStates, FrameStates, NewStates
    <2>7. KernelInv'
      BY <1>1, <2>2 DEF KernelInv
    <2>8. QuiescentInv' /\ FaultInv'
      BY <1>1, <2>2, <2>3 DEF QuiescentInv, FaultInv, DestroyedOnce,
         GuardedAccessesStayValid, QuiescentCallsStayValid
    <2>9. QED
      BY <2>4, <2>5, <2>6, <2>7, <2>8
  <1>3. CASE ~(refs[m] = {h} /\ ptr[m])
    <2>1. /\ pc'[a] = "py" /\ self'[a] = Null
          /\ UNCHANGED <<ptr, kernel, faults>>
      BY <1>3 DEF Decref, Resume
    <2>4. OpenInv'
      BY <1>1, <1>3, <2>1 DEF OpenInv
    <2>5. ViewInv'
      BY <1>1, <2>1 DEF ViewInv, viewVars
    <2>6. FrameInv'
      BY <1>1, <2>1 DEF FrameInv, NoSelfStates, FrameStates, NewStates
    <2>7. KernelInv'
      BY <1>1, <2>1 DEF KernelInv
    <2>8. QuiescentInv' /\ FaultInv'
      BY <1>1, <2>1 DEF QuiescentInv, FaultInv, DestroyedOnce,
         GuardedAccessesStayValid, QuiescentCallsStayValid
    <2>9. QED
      BY <2>4, <2>5, <2>6, <2>7, <2>8
  <1>4. QED
    BY <1>2, <1>3

LEMMA IInvNext == TypeOK /\ IInv /\ [Next]_vars => IInv'
  <1> SUFFICES ASSUME TypeOK, IInv, [Next]_vars PROVE IInv'
    OBVIOUS
  <1>0. TypeOK'
    BY TypeNext
  <1> USE ConstantsAssumption, <1>0 DEF TypeOK, IInv, managerVars, viewVars
  <1>1. ASSUME NEW a \in Acts, AcquireGil(a) \/ YieldGil(a) PROVE IInv'
    <2>1. OpenInv'
      BY <1>1 DEF AcquireGil, YieldGil, OpenInv
    <2>2. ViewInv'
      BY <1>1 DEF AcquireGil, YieldGil, ViewInv
    <2>3. FrameInv'
      BY <1>1 DEF AcquireGil, YieldGil, FrameInv, NoSelfStates, FrameStates, NewStates
    <2>4. KernelInv'
      BY <1>1 DEF AcquireGil, YieldGil, KernelInv
    <2>5. QuiescentInv'
      BY <1>1 DEF AcquireGil, YieldGil, QuiescentInv
    <2>6. FaultInv'
      BY <1>1 DEF AcquireGil, YieldGil, FaultInv, DestroyedOnce, GuardedAccessesStayValid, QuiescentCallsStayValid
    <2>7. QED
      BY <2>1, <2>2, <2>3, <2>4, <2>5, <2>6
  <1>2. ASSUME NEW a \in Acts, CreateReturn(a) PROVE IInv'
    <2>0. /\ self[a] \in Managers /\ refs[self[a]] = {}
          /\ kernel[self[a]] = "live" /\ ~ptr[self[a]]
          /\ \A b \in Acts : self[b] = self[a] => b = a
      BY <1>2 DEF CreateReturn, FrameInv, NoSelfStates, NewStates
    <2>1. OpenInv'
      <3>1. kernel' = kernel /\ refs'[self[a]] = {Var}
        BY <1>2, <2>0 DEF CreateReturn
      <3>2. \A m \in Managers : m # self[a] => ptr'[m] = ptr[m] /\ refs'[m] = refs[m]
        BY <1>2, <2>0 DEF CreateReturn
      <3>3. QED
        BY <2>0, <3>1, <3>2 DEF OpenInv
    <2>2. ViewInv'
      BY <1>2, <2>0 DEF CreateReturn, Resume, ViewInv
    <2>3. FrameInv'
      BY <1>2, <2>0 DEF CreateReturn, Resume, FrameInv, NoSelfStates, FrameStates, NewStates
    <2>4. KernelInv'
      BY <1>2, <2>0 DEF CreateReturn, Resume, KernelInv
    <2>5. QuiescentInv'
      BY <1>2, <2>0 DEF CreateReturn, Resume, QuiescentInv
    <2>6. FaultInv'
      BY <1>2 DEF CreateReturn, Resume, FaultInv, DestroyedOnce, GuardedAccessesStayValid, QuiescentCallsStayValid
    <2>7. QED
      BY <2>1, <2>2, <2>3, <2>4, <2>5, <2>6
  <1>3. ASSUME NEW a \in Acts, AllocFails(a) PROVE IInv'
    <2>0. /\ self[a] \in Managers /\ refs[self[a]] = {}
          /\ kernel[self[a]] = "live" /\ ~ptr[self[a]]
          /\ \A b \in Acts : self[b] = self[a] => b = a
      BY <1>3 DEF AllocFails, FrameInv, NoSelfStates, NewStates
    <2>1. OpenInv'
      BY <1>3, <2>0 DEF AllocFails, CloseImpl, Fault, OpenInv
    <2>2. ViewInv'
      BY <1>3, <2>0 DEF AllocFails, CloseImpl, Fault, ViewInv
    <2>3. FrameInv'
      BY <1>3, <2>0 DEF AllocFails, CloseImpl, Fault, FrameInv, NoSelfStates, FrameStates, NewStates
    <2>4. KernelInv'
      BY <1>3, <2>0 DEF AllocFails, CloseImpl, Fault, KernelInv
    <2>5. QuiescentInv'
      BY <1>3, <2>0 DEF AllocFails, CloseImpl, Fault, QuiescentInv, FrameInv, FrameStates
    <2>6. FaultInv'
      BY <1>3 DEF AllocFails, CloseImpl, Fault, FaultInv, DestroyedOnce, GuardedAccessesStayValid, QuiescentCallsStayValid, FrameInv
    <2>7. QED
      BY <2>1, <2>2, <2>3, <2>4, <2>5, <2>6
  <1>4. ASSUME NEW a \in Acts, CreateFails(a) PROVE IInv'
    <2>1. OpenInv'
      BY <1>4 DEF CreateFails, Resume, OpenInv
    <2>2. ViewInv'
      BY <1>4 DEF CreateFails, Resume, ViewInv
    <2>3. FrameInv'
      BY <1>4 DEF CreateFails, Resume, FrameInv, NoSelfStates, FrameStates, NewStates
    <2>4. KernelInv'
      BY <1>4 DEF CreateFails, Resume, KernelInv
    <2>5. QuiescentInv'
      BY <1>4 DEF CreateFails, Resume, QuiescentInv
    <2>6. FaultInv'
      BY <1>4 DEF CreateFails, Resume, FaultInv, DestroyedOnce, GuardedAccessesStayValid, QuiescentCallsStayValid
    <2>7. QED
      BY <2>1, <2>2, <2>3, <2>4, <2>5, <2>6
  <1>5. ASSUME NEW a \in Acts, CallReturn(a) \/ CloseReturn(a) \/ ImportFails(a) PROVE IInv'
    <2>1. self[a] \in Managers /\ pc[a] \in {"done", "closed", "import"}
      BY <1>5 DEF CallReturn, CloseReturn, ImportFails, FrameInv, NoSelfStates
    <2>2. Decref(a, self[a], a) /\ UNCHANGED <<raced, viewVars>>
      BY <1>5 DEF CallReturn, CloseReturn, ImportFails
    <2>3. QED
      BY <2>1, <2>2, DecrefInv
  <1>6. ASSUME NEW a \in Acts, EnterKernel(a) \/ KernelReturn(a) PROVE IInv'
    <2>1. OpenInv'
      BY <1>6 DEF EnterKernel, KernelReturn, OpenInv
    <2>2. ViewInv'
      BY <1>6 DEF EnterKernel, KernelReturn, ViewInv
    <2>3. FrameInv'
      BY <1>6 DEF EnterKernel, KernelReturn, FrameInv, NoSelfStates, FrameStates, NewStates
    <2>4. KernelInv'
      BY <1>6 DEF EnterKernel, KernelReturn, KernelInv
    <2>5. QuiescentInv'
      BY <1>6 DEF EnterKernel, KernelReturn, QuiescentInv
    <2>6. FaultInv'
      BY <1>6 DEF EnterKernel, KernelReturn, FaultInv, DestroyedOnce, GuardedAccessesStayValid, QuiescentCallsStayValid, CallFaults, SelfFault, ArgFault, Fault, QuiescentInv, OpenInv,
         FrameInv, NoSelfStates
    <2>7. QED
      BY <2>1, <2>2, <2>3, <2>4, <2>5, <2>6
  <1>7. ASSUME NEW a \in Acts, KernelCreate(a) PROVE IInv'
    <2>0. /\ self[a] \in Managers /\ refs[self[a]] = {}
          /\ kernel[self[a]] = "absent"
          /\ \A b \in Acts : self[b] = self[a] => b = a
      BY <1>7 DEF KernelCreate, FrameInv, NoSelfStates, NewStates
    <2>1. OpenInv'
      BY <1>7, <2>0 DEF KernelCreate, OpenInv
    <2>2. ViewInv'
      BY <1>7, <2>0 DEF KernelCreate, ViewInv
    <2>3. FrameInv'
      BY <1>7, <2>0 DEF KernelCreate, FrameInv, NoSelfStates, FrameStates, NewStates, OpenInv
    <2>4. KernelInv'
      BY <1>7, <2>0 DEF KernelCreate, KernelInv
    <2>5. QuiescentInv'
      BY <1>7, <2>0 DEF KernelCreate, QuiescentInv
    <2>6. FaultInv'
      BY <1>7 DEF KernelCreate, FaultInv, DestroyedOnce, GuardedAccessesStayValid, QuiescentCallsStayValid
    <2>7. QED
      BY <2>1, <2>2, <2>3, <2>4, <2>5, <2>6
  <1>8. ASSUME NEW a \in Acts, DestroyReturn(a) PROVE IInv'
    <2>1. OpenInv'
      BY <1>8 DEF DestroyReturn, OpenInv, FrameInv
    <2>2. ViewInv'
      BY <1>8 DEF DestroyReturn, ViewInv
    <2>3. FrameInv'
      BY <1>8 DEF DestroyReturn, FrameInv, NoSelfStates, FrameStates, NewStates
    <2>4. KernelInv'
      BY <1>8 DEF DestroyReturn, KernelInv
    <2>5. QuiescentInv'
      BY <1>8 DEF DestroyReturn, QuiescentInv
    <2>6. FaultInv'
      BY <1>8 DEF DestroyReturn, FaultInv, DestroyedOnce, GuardedAccessesStayValid, QuiescentCallsStayValid
    <2>7. QED
      BY <2>1, <2>2, <2>3, <2>4, <2>5, <2>6
  <1>9. ASSUME NEW a \in Acts, ImportCall(a) PROVE IInv'
    <2>1. OpenInv'
      BY <1>9 DEF ImportCall, OpenInv
    <2>2. ViewInv'
      BY <1>9 DEF ImportCall, ViewInv
    <2>3. FrameInv'
      BY <1>9 DEF ImportCall, FrameInv, NoSelfStates, FrameStates, NewStates
    <2>4. KernelInv'
      BY <1>9 DEF ImportCall, KernelInv
    <2>5. QuiescentInv'
      BY <1>9 DEF ImportCall, QuiescentInv
    <2>6. FaultInv'
      BY <1>9 DEF ImportCall, FaultInv, DestroyedOnce, GuardedAccessesStayValid, QuiescentCallsStayValid
    <2>7. QED
      BY <2>1, <2>2, <2>3, <2>4, <2>5, <2>6
  <1>10. ASSUME NEW a \in Acts, NEW m \in Managers, CreateCall(a, m) PROVE IInv'
    <2>1. OpenInv'
      BY <1>10 DEF CreateCall, NoCallOn, Running, OpenInv
    <2>2. ViewInv'
      BY <1>10 DEF CreateCall, NoCallOn, Running, ViewInv
    <2>3. FrameInv'
      BY <1>10 DEF CreateCall, NoCallOn, Running, FrameInv, NoSelfStates, FrameStates, NewStates, KernelInv
    <2>4. KernelInv'
      BY <1>10 DEF CreateCall, NoCallOn, Running, KernelInv
    <2>5. QuiescentInv'
      BY <1>10 DEF CreateCall, NoCallOn, Running, QuiescentInv
    <2>6. FaultInv'
      BY <1>10 DEF CreateCall, NoCallOn, Running, FaultInv, DestroyedOnce, GuardedAccessesStayValid, QuiescentCallsStayValid
    <2>7. QED
      BY <2>1, <2>2, <2>3, <2>4, <2>5, <2>6
  <1>11. ASSUME NEW a \in Acts, NEW m \in Managers, Close(a, m), ptr[m] PROVE IInv'
    <2>0. self[a] = Null /\ kernel[m] = "live" /\ refs[m] # {}
      BY <1>11 DEF Close, Running, FrameInv, NoSelfStates, OpenInv
    <2>1. OpenInv'
      BY <1>11 DEF Close, CloseImpl, Running, Fault, NoCallOn, OpenInv
    <2>2. ViewInv'
      BY <1>11 DEF Close, CloseImpl, Running, Fault, NoCallOn, ViewInv
    <2>3. FrameInv'
      BY <1>11, <2>0 DEF Close, CloseImpl, Running, Fault, NoCallOn, FrameInv, NoSelfStates, FrameStates, NewStates
    <2>4. KernelInv'
      BY <1>11 DEF Close, CloseImpl, Running, Fault, NoCallOn, KernelInv
    <2>5. QuiescentInv'
      BY <1>11, <2>0 DEF Close, CloseImpl, Running, Fault, NoCallOn, QuiescentInv, FrameInv, NoSelfStates
    <2>6. FaultInv'
      BY <1>11 DEF Close, CloseImpl, Running, Fault, NoCallOn, FaultInv, DestroyedOnce, GuardedAccessesStayValid, QuiescentCallsStayValid, OpenInv
    <2>7. QED
      BY <2>1, <2>2, <2>3, <2>4, <2>5, <2>6
  <1>12. ASSUME NEW a \in Acts, NEW m \in Managers, DropVar(a, m) PROVE IInv'
    BY <1>12, DecrefInv DEF DropVar, Running
  <1>13. ASSUME NEW a \in Acts, NEW m \in Managers, StartImport(a, m) PROVE IInv'
    <2>1. OpenInv'
      BY <1>13 DEF StartImport, Running, OpenInv
    <2>2. ViewInv'
      BY <1>13 DEF StartImport, Running, ViewInv
    <2>3. FrameInv'
      BY <1>13 DEF StartImport, Running, FrameInv, NoSelfStates, FrameStates, NewStates
    <2>4. KernelInv'
      BY <1>13 DEF StartImport, Running, KernelInv
    <2>5. QuiescentInv'
      BY <1>13 DEF StartImport, Running, QuiescentInv
    <2>6. FaultInv'
      BY <1>13 DEF StartImport, Running, FaultInv, DestroyedOnce, GuardedAccessesStayValid, QuiescentCallsStayValid
    <2>7. QED
      BY <2>1, <2>2, <2>3, <2>4, <2>5, <2>6
  <1>14. ASSUME NEW a \in Acts, NEW m \in Managers, NEW v \in Views,
               GetView(a, m, v) PROVE IInv'
    <2>1. OpenInv'
      BY <1>14 DEF GetView, Wrap, NoView, Running, OpenInv
    <2>2. ViewInv'
      BY <1>14 DEF GetView, Wrap, NoView, Running, ViewInv
    <2>3. FrameInv'
      BY <1>14 DEF GetView, Wrap, NoView, Running, FrameInv, NoSelfStates, FrameStates, NewStates
    <2>4. KernelInv'
      BY <1>14 DEF GetView, Wrap, NoView, Running, KernelInv
    <2>5. QuiescentInv'
      BY <1>14 DEF GetView, Wrap, NoView, Running, QuiescentInv
    <2>6. FaultInv'
      BY <1>14 DEF GetView, Wrap, NoView, Running, FaultInv, DestroyedOnce, GuardedAccessesStayValid, QuiescentCallsStayValid, SelfFault, Fault, OpenInv
    <2>7. QED
      BY <2>1, <2>2, <2>3, <2>4, <2>5, <2>6
  <1>15. ASSUME NEW a \in Acts, NEW m \in Managers, NEW e \in Views \cup {Null},
               StartCall(a, m, e) PROVE IInv'
    <2>1. OpenInv'
      BY <1>15 DEF StartCall, Running, OpenInv
    <2>2. ViewInv'
      BY <1>15 DEF StartCall, Running, ViewInv
    <2>3. FrameInv'
      BY <1>15 DEF StartCall, Running, FrameInv, NoSelfStates, FrameStates, NewStates
    <2>4. KernelInv'
      BY <1>15 DEF StartCall, Running, KernelInv
    <2>5. QuiescentInv'
      BY <1>15 DEF StartCall, Running, QuiescentInv
    <2>6. FaultInv'
      BY <1>15 DEF StartCall, Running, FaultInv, DestroyedOnce, GuardedAccessesStayValid, QuiescentCallsStayValid
    <2>7. QED
      BY <2>1, <2>2, <2>3, <2>4, <2>5, <2>6
  <1>16. ASSUME NEW a \in Acts, NEW v \in Views, NEW w \in Views,
               UseView(a, v) \/ CompareViews(a, v, w) \/ Contains(a, v, w) PROVE IInv'
    <2>1. OpenInv'
      BY <1>16 DEF UseView, CompareViews, Contains, OpenInv
    <2>2. ViewInv'
      BY <1>16 DEF UseView, CompareViews, Contains, ViewInv
    <2>3. FrameInv'
      BY <1>16 DEF UseView, CompareViews, Contains, FrameInv, NoSelfStates, FrameStates, NewStates
    <2>4. KernelInv'
      BY <1>16 DEF UseView, CompareViews, Contains, KernelInv
    <2>5. QuiescentInv'
      BY <1>16 DEF UseView, CompareViews, Contains, QuiescentInv
    <2>6. FaultInv'
      BY <1>16 DEF UseView, CompareViews, Contains, FaultInv, DestroyedOnce, GuardedAccessesStayValid, QuiescentCallsStayValid, CheckView, ViewFault, ArgFault, Fault, OpenInv, ViewInv, NoView
    <2>7. QED
      BY <2>1, <2>2, <2>3, <2>4, <2>5, <2>6
  <1>17. ASSUME NEW a \in Acts, NEW v \in Views, NEW w \in Views,
               DeriveView(a, v, w) PROVE IInv'
    <2>1. OpenInv'
      BY <1>17 DEF DeriveView, Wrap, NoView, CheckView, Running, OpenInv
    <2>2. ViewInv'
      BY <1>17 DEF DeriveView, Wrap, NoView, CheckView, Running, ViewInv
    <2>3. FrameInv'
      BY <1>17 DEF DeriveView, Wrap, NoView, CheckView, Running, FrameInv, NoSelfStates, FrameStates, NewStates, ViewInv
    <2>4. KernelInv'
      BY <1>17 DEF DeriveView, Wrap, NoView, CheckView, Running, KernelInv, ViewInv
    <2>5. QuiescentInv'
      BY <1>17 DEF DeriveView, Wrap, NoView, CheckView, Running, QuiescentInv
    <2>6. FaultInv'
      BY <1>17 DEF DeriveView, Wrap, NoView, CheckView, Running, FaultInv, DestroyedOnce, GuardedAccessesStayValid, QuiescentCallsStayValid, ViewFault, Fault, OpenInv, ViewInv
    <2>7. QED
      BY <2>1, <2>2, <2>3, <2>4, <2>5, <2>6
  <1>18. ASSUME NEW a \in Acts, NEW v \in Views, DropView(a, v) PROVE IInv'
    <2>1. CASE owner[v] # Null
      BY <1>18, <2>1, DecrefInv DEF DropView, Running
    <2>2. CASE owner[v] = Null
      <3>1. UNCHANGED <<pc, self, managerVars, owner, faults, raced>>
        BY <1>18, <2>2 DEF DropView
      <3>2. ViewInv'
        BY <1>18, <2>2, <3>1 DEF ViewInv, DropView
      <3>3. OpenInv' /\ FrameInv' /\ KernelInv' /\ QuiescentInv' /\ FaultInv'
        BY <3>1 DEF OpenInv, FrameInv, KernelInv, QuiescentInv, FaultInv,
           DestroyedOnce, GuardedAccessesStayValid,
           QuiescentCallsStayValid
      <3>4. QED
        BY <3>2, <3>3
    <2>3. QED
      BY <2>1, <2>2
  <1>19. ASSUME NEW k \in Callbacks, EnterHandler(k) \/ HandlerReturn(k) PROVE IInv'
    <2>1. OpenInv'
      BY <1>19 DEF EnterHandler, EnterPython, HandlerReturn, Running, Acts, OpenInv
    <2>2. ViewInv'
      BY <1>19 DEF EnterHandler, EnterPython, HandlerReturn, Running, Acts, ViewInv
    <2>3. FrameInv'
      BY <1>19 DEF EnterHandler, EnterPython, HandlerReturn, Running, Acts, FrameInv, NoSelfStates, FrameStates, NewStates
    <2>4. KernelInv'
      BY <1>19 DEF EnterHandler, EnterPython, HandlerReturn, Running, Acts, KernelInv
    <2>5. QuiescentInv'
      BY <1>19 DEF EnterHandler, EnterPython, HandlerReturn, Running, Acts, QuiescentInv
    <2>6. FaultInv'
      BY <1>19 DEF EnterHandler, EnterPython, HandlerReturn, Running, Acts, FaultInv, DestroyedOnce, GuardedAccessesStayValid, QuiescentCallsStayValid
    <2>7. QED
      BY <2>1, <2>2, <2>3, <2>4, <2>5, <2>6
  <1>20. ASSUME NEW k \in Callbacks, NEW a \in Acts, Deliver(k, a) PROVE IInv'
    <2>1. OpenInv'
      BY <1>20 DEF Deliver, Acts, OpenInv
    <2>2. ViewInv'
      BY <1>20 DEF Deliver, Acts, ViewInv
    <2>3. FrameInv'
      BY <1>20 DEF Deliver, Acts, FrameInv, NoSelfStates, FrameStates, NewStates
    <2>4. KernelInv'
      BY <1>20 DEF Deliver, Acts, KernelInv
    <2>5. QuiescentInv'
      BY <1>20 DEF Deliver, Acts, QuiescentInv
    <2>6. FaultInv'
      BY <1>20 DEF Deliver, Acts, FaultInv, DestroyedOnce, GuardedAccessesStayValid, QuiescentCallsStayValid
    <2>7. QED
      BY <2>1, <2>2, <2>3, <2>4, <2>5, <2>6
  <1>21. ASSUME NEW k \in Callbacks, NEW v \in Views,
               EnterHandlerWithEntry(k, v) PROVE IInv'
    <2>1. OpenInv'
      BY <1>21 DEF EnterHandlerWithEntry, EnterPython, Wrap, NoView, Acts, OpenInv
    <2>2. ViewInv'
      BY <1>21 DEF EnterHandlerWithEntry, EnterPython, Wrap, NoView, Acts, ViewInv
    <2>3. FrameInv'
      BY <1>21 DEF EnterHandlerWithEntry, EnterPython, Wrap, NoView, Acts, FrameInv, NoSelfStates, FrameStates, NewStates
    <2>4. KernelInv'
      BY <1>21 DEF EnterHandlerWithEntry, EnterPython, Wrap, NoView, Acts, KernelInv
    <2>5. QuiescentInv'
      BY <1>21 DEF EnterHandlerWithEntry, EnterPython, Wrap, NoView, Acts, QuiescentInv
    <2>6. FaultInv'
      BY <1>21 DEF EnterHandlerWithEntry, EnterPython, Wrap, NoView, Acts, FaultInv, DestroyedOnce, GuardedAccessesStayValid, QuiescentCallsStayValid
    <2>7. QED
      BY <2>1, <2>2, <2>3, <2>4, <2>5, <2>6
  <1>22. CASE UNCHANGED vars
    BY <1>22 DEF vars, OpenInv, ViewInv, FrameInv, KernelInv, QuiescentInv, FaultInv,
       DestroyedOnce, GuardedAccessesStayValid,
       QuiescentCallsStayValid
  <1>23. ASSUME NEW a \in Acts, Act(a) PROVE IInv'
    <2>1. CASE UseLibrary(a)
      <3>1. ASSUME NEW m \in Managers, Close(a, m) PROVE IInv'
        BY <3>1, <1>11, <1>22 DEF Close
      <3>2. QED
        BY <2>1, <3>1, <1>10, <1>12, <1>13, <1>14, <1>15, <1>16, <1>17, <1>18
        DEF UseLibrary
    <2>2. CASE TakeGil(a) \/ YieldGil(a)
      BY <2>2, <1>1, <1>2, <1>3, <1>4, <1>5 DEF TakeGil
    <2>3. CASE KernelStep(a)
      BY <2>3, <1>6, <1>7, <1>8 DEF KernelStep
    <2>4. CASE LeaveImport(a)
      BY <2>4, <1>5, <1>9 DEF LeaveImport
    <2>5. QED
      BY <1>23, <2>1, <2>2, <2>3, <2>4 DEF Act
  <1>24. QED
    BY <1>19, <1>20, <1>21, <1>22, <1>23 DEF Next, Callback

\* The inductive invariant holds in every behaviour.
LEMMA IInvCorrect == Spec => []IInv
  BY TypeCorrect, IInvInit, IInvNext, PTL DEF Spec

----------------------------------------------------------------------------

\* However many threads race to close a manager or to drop its last reference,
\* btck_chainstate_manager_destroy() is called at most once on it.
THEOREM DestroyedOnceCorrect == Spec => []DestroyedOnce
  <1>1. IInv => DestroyedOnce
    BY DEF IInv, FaultInv
  <1>2. QED
    BY <1>1, IInvCorrect, PTL

\* CHECK_VIEW on an owner that was INCREF'd keeps every Chain and every entry
\* that came from a manager away from freed memory.
THEOREM GuardedAccessesStayValidCorrect == Spec => []GuardedAccessesStayValid
  <1>1. IInv => GuardedAccessesStayValid
    BY DEF IInv, FaultInv
  <1>2. QED
    BY <1>1, IInvCorrect, PTL

\* Unless a manager was closed while one of its methods was running, every call
\* that releases the GIL has a whole kernel object from entry to return.
THEOREM QuiescentCallsStayValidCorrect == Spec => []QuiescentCallsStayValid
  <1>1. IInv => QuiescentCallsStayValid
    BY DEF IInv, FaultInv
  <1>2. QED
    BY <1>1, IInvCorrect, PTL

\* No path through creation, close() and dealloc leaks a kernel manager.
THEOREM NoOrphanCorrect == Spec => []NoOrphan
  <1>1. IInv => NoOrphan
    BY DEF IInv, OpenInv, KernelInv, NoOrphan
  <1>2. QED
    BY <1>1, IInvCorrect, PTL

\* A wrapper is freed only with its kernel object given up and no view left.
THEOREM FreedWrappersAreUnusedCorrect == Spec => []FreedWrappersAreUnused
  <1>1. IInv => FreedWrappersAreUnused
    BY ConstantsAssumption DEF IInv, OpenInv, ViewInv, FreedWrappersAreUnused
  <1>2. QED
    BY <1>1, IInvCorrect, PTL

\* Only three operators change kernel, and each starts from another state.
LEMMA KernelOneWayStep ==
  ASSUME TypeOK, IInv, [Next]_vars, NEW m \in Managers
  PROVE  /\ kernel[m] = "gone" => kernel'[m] = "gone"
         /\ kernel[m] = "destroying" => kernel'[m] \in {"destroying", "gone"}
  <1> USE ConstantsAssumption DEF TypeOK, IInv, managerVars
  <1>1. ASSUME NEW a \in Acts, NEW n \in Managers, NEW h, Decref(a, n, h)
        PROVE  kernel' = kernel \/ (kernel[n] = "live" /\ CloseImpl(a, n))
    BY <1>1 DEF Decref, OpenInv
  <1>2. ASSUME NEW a \in Acts, NEW n \in Managers, kernel[n] = "live", CloseImpl(a, n)
        PROVE  kernel[m] \in {"gone", "destroying"} => kernel'[m] = kernel[m]
    BY <1>2 DEF CloseImpl
  <1>3. ASSUME NEW a \in Acts, TakeGil(a)
        PROVE  kernel[m] \in {"gone", "destroying"} => kernel'[m] = kernel[m]
    <2>1. CASE AcquireGil(a) \/ CreateReturn(a) \/ CreateFails(a)
      BY <2>1 DEF AcquireGil, CreateReturn, CreateFails
    <2>2. CASE AllocFails(a)
      BY <2>2, <1>2 DEF AllocFails, FrameInv, NoSelfStates
    <2>3. CASE CallReturn(a) \/ CloseReturn(a)
      <3>1. self[a] \in Managers /\ Decref(a, self[a], a)
        BY <2>3 DEF CallReturn, CloseReturn, FrameInv, NoSelfStates
      <3>2. QED
        BY <3>1, <1>1, <1>2
    <2>4. QED
      BY <1>3, <2>1, <2>2, <2>3 DEF TakeGil
  <1>4. ASSUME NEW a \in Acts, LeaveImport(a)
        PROVE  kernel[m] \in {"gone", "destroying"} => kernel'[m] = kernel[m]
    <2>1. CASE ImportFails(a)
      <3>1. self[a] \in Managers /\ Decref(a, self[a], a)
        BY <2>1 DEF ImportFails, FrameInv, NoSelfStates
      <3>2. QED
        BY <3>1, <1>1, <1>2
    <2>2. CASE ImportCall(a)
      BY <2>2 DEF ImportCall
    <2>3. QED
      BY <1>4, <2>1, <2>2 DEF LeaveImport
  <1>5. ASSUME NEW a \in Acts, KernelStep(a)
        PROVE  /\ kernel[m] = "gone" => kernel'[m] = "gone"
               /\ kernel[m] = "destroying" => kernel'[m] \in {"destroying", "gone"}
    BY <1>5 DEF KernelStep, EnterKernel, KernelCreate, KernelReturn, DestroyReturn,
       FrameInv
  <1>6. ASSUME NEW a \in Acts, UseLibrary(a)
        PROVE  kernel[m] \in {"gone", "destroying"} => kernel'[m] = kernel[m]
    <2>1. ASSUME NEW n \in Managers, Close(a, n) \/ DropVar(a, n)
          PROVE  kernel[m] \in {"gone", "destroying"} => kernel'[m] = kernel[m]
      <3>1. CASE Close(a, n)
        BY <3>1, <1>2 DEF Close, OpenInv, vars
      <3>2. CASE DropVar(a, n)
        BY <3>2, <1>1, <1>2 DEF DropVar
      <3>3. QED
        BY <2>1, <3>1, <3>2
    <2>2. ASSUME NEW v \in Views, DropView(a, v)
          PROVE  kernel[m] \in {"gone", "destroying"} => kernel'[m] = kernel[m]
      BY <2>2, <1>1, <1>2 DEF DropView
    <2>3. QED
      BY <1>6, <2>1, <2>2
      DEF UseLibrary, CreateCall, StartImport, GetView, StartCall, UseView,
          DeriveView, CompareViews, Contains
  <1>7. CASE \E a \in Acts : YieldGil(a)
    BY <1>7 DEF YieldGil
  <1>8. CASE \E k \in Callbacks : Callback(k)
    BY <1>8 DEF Callback, EnterHandler, EnterHandlerWithEntry, EnterPython,
       HandlerReturn, Deliver
  <1>9. CASE UNCHANGED vars
    BY <1>9 DEF vars
  <1>10. QED
    BY <1>3, <1>4, <1>5, <1>6, <1>7, <1>8, <1>9 DEF Next, Act

\* Destruction is final, and a manager under destruction is never open again.
THEOREM KernelLifeIsOneWayCorrect == Spec => KernelLifeIsOneWay
  <1>1. ASSUME TypeOK, IInv, [Next]_vars, NEW m \in Managers
        PROVE  /\ kernel[m] = "gone" => kernel'[m] = "gone"
               /\ kernel[m] \in {"destroying", "gone"} => ~ptr'[m]
    <2>1. OpenInv' /\ TypeOK'
      BY <1>1, IInvNext, TypeNext DEF IInv
    <2>2. QED
      BY <1>1, <2>1, KernelOneWayStep DEF OpenInv
  <1>2. TypeOK /\ IInv /\ [Next]_vars =>
          [\A m \in Managers :
              /\ kernel[m] = "gone" => kernel'[m] = "gone"
              /\ kernel[m] \in {"destroying", "gone"} => ~ptr'[m]]_vars
    BY <1>1
  <1>3. QED
    BY <1>2, TypeCorrect, IInvCorrect, PTL DEF Spec, KernelLifeIsOneWay

----------------------------------------------------------------------------
(* The refinement: each step is a step of ManagerContract or a stutter.    *)

\* What of a frame the contract can see.
Seen == {"kernel", "destroy"}

LEMMA ContractInit == Init => Contract!Init
  <1> SUFFICES ASSUME Init PROVE Contract!Init
    OBVIOUS
  <1>1. \A a \in Acts : pc[a] \notin Seen
    BY DEF Init, Seen
  <1>2. QED
    BY <1>1 DEF Init, Contract!Init, Status, Inside, Seen

\* A step that leaves the kernel objects and the frames inside the kernel alone
\* is a stutter.
LEMMA ContractStutter ==
  ASSUME TypeOK, UNCHANGED <<kernel, raced>>,
         \A b \in Acts : pc[b] \in Seen \/ pc'[b] \in Seen =>
                             pc'[b] = pc[b] /\ self'[b] = self[b]
  PROVE  UNCHANGED Contract!vars
  BY DEF Contract!vars, Inside, Seen

\* Whichever way a close() or a last reference begins the destruction of a whole
\* kernel object, the contract allows it.
LEMMA ContractClose ==
  ASSUME TypeOK, IInv, NEW a \in Acts, NEW m \in Managers, CloseImpl(a, m),
         kernel[m] = "live", pc[a] \notin Seen, raced' \in BOOLEAN,
         raced \/ Inside(m, "kernel") # {} => raced'
  PROVE  Contract!Next
  <1> USE DEF TypeOK, Seen
  <1>1. \A b \in Acts : b # a => pc'[b] = pc[b] /\ self'[b] = self[b]
    BY DEF CloseImpl
  <1>2. pc'[a] = "destroy" /\ self'[a] = m
    BY DEF CloseImpl
  <1>3. \A n \in Managers : Inside(n, "kernel")' = Inside(n, "kernel")
    BY <1>1, <1>2 DEF Inside
  <1>4. Inside(m, "destroy") = {}
    BY DEF Inside, IInv, FrameInv
  <1>5. \A n \in Managers :
            Inside(n, "destroy")' =
                IF n = m THEN {a} ELSE Inside(n, "destroy")
    BY <1>1, <1>2, <1>4 DEF Inside
  <1>6. \A n \in Managers :
            Status(kernel'[n]) = IF n = m THEN "closing" ELSE Status(kernel[n])
    BY DEF CloseImpl, Status
  <1>7. Contract!BeginClose(a, m)
    BY <1>3, <1>5, <1>6 DEF Contract!BeginClose, Status
  <1>8. QED
    BY <1>7 DEF Contract!Next

\* A frame drops its reference, or Python code one that is not a frame's.
LEMMA ContractDecref ==
  ASSUME TypeOK, IInv, NEW a \in Acts, NEW m \in Managers,
         NEW h \in Acts \cup Views \cup {Var}, Decref(a, m, h), UNCHANGED raced,
         pc[a] \notin Seen, h \in Acts => h = a
  PROVE  [Contract!Next]_(Contract!vars)
  <1> USE ConstantsAssumption DEF TypeOK, IInv
  <1>1. CASE refs[m] = {h} /\ ptr[m]
    <2>1. CloseImpl(a, m) /\ kernel[m] = "live"
      BY <1>1 DEF Decref, OpenInv
    <2>2. Inside(m, "kernel") = {}
      BY <1>1 DEF Inside, FrameInv, FrameStates, Seen
    <2>3. QED
      BY <2>1, <2>2, ContractClose
  <1>2. CASE ~(refs[m] = {h} /\ ptr[m])
    <2>1. Resume(a) /\ UNCHANGED kernel
      BY <1>2 DEF Decref
    <2>2. \A b \in Acts : pc[b] \in Seen \/ pc'[b] \in Seen =>
                             pc'[b] = pc[b] /\ self'[b] = self[b]
      BY <2>1 DEF Resume, Seen
    <2>3. QED
      BY <2>1, <2>2, ContractStutter
  <1>3. QED
    BY <1>1, <1>2

\* The kernel takes or gives up control: the steps the contract is about.
LEMMA ContractKernelStep ==
  ASSUME TypeOK, IInv, NEW a \in Acts, KernelStep(a)
  PROVE  [Contract!Next]_(Contract!vars)
  <1> USE DEF TypeOK, IInv, Contract!Next
  <1>0. ASSUME KernelStep(a), pc[a] \notin NoSelfStates PROVE self[a] \in Managers
    BY <1>0 DEF FrameInv
  <1>1. CASE EnterKernel(a)
    <2>1. self[a] \in Managers /\ pc[a] = "call"
      BY <1>0, <1>1 DEF EnterKernel, NoSelfStates
    <2>2. Status(kernel[self[a]]) = "open" \/ raced
      BY <2>1 DEF QuiescentInv, OpenInv, Status
    <2>3. /\ \A b \in Acts : b # a => pc'[b] = pc[b] /\ self'[b] = self[b]
          /\ pc'[a] = "kernel" /\ self'[a] = self[a] /\ UNCHANGED <<kernel, raced>>
      BY <1>1 DEF EnterKernel, managerVars
    <2>4. \A n \in Managers :
              /\ Inside(n, "destroy")' = Inside(n, "destroy")
              /\ Inside(n, "kernel")' =
                    IF n = self[a] THEN Inside(n, "kernel") \cup {a}
                    ELSE Inside(n, "kernel")
      BY <2>1, <2>3 DEF Inside
    <2>5. Contract!Enter(a, self[a])
      BY <2>1, <2>2, <2>3, <2>4 DEF Contract!Enter
    <2>6. QED
      BY <2>1, <2>5
  <1>2. CASE KernelReturn(a)
    <2>1. self[a] \in Managers /\ pc[a] = "kernel"
      BY <1>0, <1>2 DEF KernelReturn, NoSelfStates
    <2>3. /\ \A b \in Acts : b # a => pc'[b] = pc[b] /\ self'[b] = self[b]
          /\ pc'[a] = "done" /\ self'[a] = self[a] /\ UNCHANGED <<kernel, raced>>
      BY <1>2 DEF KernelReturn, managerVars
    <2>4. \A n \in Managers :
              /\ Inside(n, "destroy")' = Inside(n, "destroy")
              /\ Inside(n, "kernel")' =
                    IF n = self[a] THEN Inside(n, "kernel") \ {a}
                    ELSE Inside(n, "kernel")
      BY <2>1, <2>3 DEF Inside
    <2>5. a \in Inside(self[a], "kernel")
      BY <2>1 DEF Inside
    <2>6. Contract!Leave(a, self[a])
      BY <2>1, <2>3, <2>4, <2>5 DEF Contract!Leave
    <2>7. QED
      BY <2>1, <2>6
  <1>3. CASE KernelCreate(a)
    <2>1. self[a] \in Managers /\ kernel[self[a]] = "absent"
      BY <1>0, <1>3 DEF KernelCreate, NoSelfStates, FrameInv
    <2>2. /\ \A b \in Acts : b # a => pc'[b] = pc[b] /\ self'[b] = self[b]
          /\ pc[a] = "create" /\ pc'[a] \in {"created", "failed"}
          /\ self'[a] = self[a] /\ UNCHANGED raced
      BY <1>3 DEF KernelCreate
    <2>3. \A n \in Managers, p \in Seen : Inside(n, p)' = Inside(n, p)
      BY <2>2 DEF Inside, Seen
    <2>4. \E s \in {"open", "closed"} : \A n \in Managers :
              Status(kernel'[n]) = IF n = self[a] THEN s ELSE Status(kernel[n])
      BY <1>3, <2>1 DEF KernelCreate, Status
    <2>5. Contract!Open(self[a])
      BY <2>1, <2>2, <2>3, <2>4 DEF Contract!Open, Status, Seen
    <2>6. QED
      BY <2>1, <2>5
  <1>4. CASE DestroyReturn(a)
    <2>1. self[a] \in Managers /\ pc[a] = "destroy"
      BY <1>0, <1>4 DEF DestroyReturn, NoSelfStates
    <2>2. Inside(self[a], "destroy") = {a}
      BY <2>1 DEF Inside, FrameInv
    <2>3. /\ \A b \in Acts : b # a => pc'[b] = pc[b] /\ self'[b] = self[b]
          /\ pc'[a] = "closed" /\ self'[a] = self[a] /\ UNCHANGED raced
      BY <1>4 DEF DestroyReturn
    <2>4. \A n \in Managers :
              /\ Inside(n, "kernel")' = Inside(n, "kernel")
              /\ Inside(n, "destroy")' =
                    IF n = self[a] THEN {} ELSE Inside(n, "destroy")
      BY <2>1, <2>2, <2>3 DEF Inside
    <2>5. \A n \in Managers :
              Status(kernel'[n]) = IF n = self[a] THEN "closed" ELSE Status(kernel[n])
      BY <1>4, <2>1 DEF DestroyReturn, Status
    <2>6. Contract!EndClose(a, self[a])
      BY <2>1, <2>2, <2>3, <2>4, <2>5 DEF Contract!EndClose
    <2>7. QED
      BY <2>1, <2>6
  <1>5. QED
    BY <1>1, <1>2, <1>3, <1>4 DEF KernelStep

LEMMA ContractNext ==
  TypeOK /\ IInv /\ [Next]_vars => [Contract!Next]_(Contract!vars)
  <1> SUFFICES ASSUME TypeOK, IInv, [Next]_vars
               PROVE  [Contract!Next]_(Contract!vars)
    OBVIOUS
  <1> USE ConstantsAssumption DEF TypeOK, IInv, managerVars, viewVars
  <1>1. ASSUME NEW a \in Acts, TakeGil(a) \/ YieldGil(a)
        PROVE  [Contract!Next]_(Contract!vars)
    <2>1. CASE AcquireGil(a) \/ YieldGil(a) \/ CreateReturn(a) \/ CreateFails(a)
      BY <2>1, ContractStutter
      DEF AcquireGil, YieldGil, CreateReturn, CreateFails, Resume, Seen
    <2>2. CASE AllocFails(a)
      <3>1. /\ self[a] \in Managers /\ kernel[self[a]] = "live"
            /\ pc[a] \notin Seen /\ Inside(self[a], "kernel") = {}
        BY <2>2 DEF AllocFails, FrameInv, NoSelfStates, NewStates, Seen, Inside
      <3>2. QED
        BY <2>2, <3>1, ContractClose DEF AllocFails
    <2>3. CASE CallReturn(a) \/ CloseReturn(a)
      <3>1. self[a] \in Managers /\ pc[a] \notin Seen
        BY <2>3 DEF CallReturn, CloseReturn, FrameInv, NoSelfStates, Seen
      <3>2. QED
        BY <2>3, <3>1, ContractDecref DEF CallReturn, CloseReturn
    <2>4. QED
      BY <1>1, <2>1, <2>2, <2>3 DEF TakeGil
  <1>2. ASSUME NEW a \in Acts, LeaveImport(a)
        PROVE  [Contract!Next]_(Contract!vars)
    <2>1. CASE ImportFails(a)
      <3>1. self[a] \in Managers /\ pc[a] \notin Seen
        BY <2>1 DEF ImportFails, FrameInv, NoSelfStates, Seen
      <3>2. QED
        BY <2>1, <3>1, ContractDecref DEF ImportFails
    <2>2. CASE ImportCall(a)
      BY <2>2, ContractStutter DEF ImportCall, Seen
    <2>3. QED
      BY <1>2, <2>1, <2>2 DEF LeaveImport
  <1>3. ASSUME NEW a \in Acts, UseLibrary(a)
        PROVE  [Contract!Next]_(Contract!vars)
    <2>1. ASSUME NEW m \in Managers, Close(a, m)
          PROVE  [Contract!Next]_(Contract!vars)
      <3>1. CASE ptr[m]
        <4>1. Inside(m, "kernel") # {} => ~NoCallOn(m)
          BY DEF Inside, NoCallOn
        <4>2. QED
          BY <2>1, <3>1, <4>1, ContractClose DEF Close, Running, OpenInv, Seen
      <3>2. CASE ~ptr[m]
        BY <2>1, <3>2, ContractStutter DEF Close, vars
      <3>3. QED
        BY <3>1, <3>2
    <2>2. ASSUME NEW m \in Managers, DropVar(a, m)
          PROVE  [Contract!Next]_(Contract!vars)
      BY <2>2, ContractDecref DEF DropVar, Running, Seen
    <2>3. ASSUME NEW v \in Views, DropView(a, v)
          PROVE  [Contract!Next]_(Contract!vars)
      <3>1. CASE owner[v] = Null
        BY <2>3, <3>1, ContractStutter DEF DropView
      <3>2. CASE owner[v] # Null
        BY <2>3, <3>2, ContractDecref DEF DropView, Running, Seen
      <3>3. QED
        BY <3>1, <3>2
    <2>4. ASSUME NEW m \in Managers, CreateCall(a, m) \/ StartImport(a, m)
          PROVE  [Contract!Next]_(Contract!vars)
      BY <2>4, ContractStutter DEF CreateCall, StartImport, Running, Seen
    <2>5. ASSUME NEW m \in Managers, NEW e \in Views \cup {Null}, StartCall(a, m, e)
          PROVE  [Contract!Next]_(Contract!vars)
      BY <2>5, ContractStutter DEF StartCall, Running, Seen
    <2>6. ASSUME NEW m \in Managers, NEW v \in Views, GetView(a, m, v)
          PROVE  [Contract!Next]_(Contract!vars)
      BY <2>6, ContractStutter DEF GetView
    <2>7. ASSUME NEW v \in Views, NEW w \in Views,
                 \/ UseView(a, v) \/ DeriveView(a, v, w)
                 \/ CompareViews(a, v, w) \/ Contains(a, v, w)
          PROVE  [Contract!Next]_(Contract!vars)
      BY <2>7, ContractStutter DEF UseView, DeriveView, CompareViews, Contains
    <2>8. QED
      BY <1>3, <2>1, <2>2, <2>3, <2>4, <2>5, <2>6, <2>7 DEF UseLibrary
  <1>4. ASSUME NEW k \in Callbacks, Callback(k)
        PROVE  [Contract!Next]_(Contract!vars)
    <2>1. \A b \in Acts : pc[b] \in Seen \/ pc'[b] \in Seen =>
                             pc'[b] = pc[b] /\ self'[b] = self[b]
      BY <1>4 DEF Callback, EnterHandler, EnterHandlerWithEntry, EnterPython,
         HandlerReturn, Deliver, Running, Seen, Acts
    <2>2. UNCHANGED <<kernel, raced>>
      BY <1>4 DEF Callback, EnterHandler, EnterHandlerWithEntry, EnterPython,
         HandlerReturn, Deliver
    <2>3. QED
      BY <2>1, <2>2, ContractStutter
  <1>5. CASE UNCHANGED vars
    BY <1>5, ContractStutter DEF vars
  <1>6. QED
    BY <1>1, <1>2, <1>3, <1>4, <1>5, ContractKernelStep DEF Next, Act

\* The wrappers, their reference counts, the views and the GIL implement
\* ManagerContract for any number of threads, callbacks, managers and views:
\* no race to close() or to drop the last reference destroys a kernel manager
\* twice, and none is used but while it is open unless a close() met a method.
THEOREM ContractCorrect == Spec => ContractSpec
  BY ContractInit, ContractNext, TypeCorrect, IInvCorrect, PTL
  DEF Spec, ContractSpec, Contract!Spec

----------------------------------------------------------------------------
(***************************************************************************)
(* Who waits for whom.                                                     *)
(***************************************************************************)

\* Who has the GIL runs Python.
GilInv == \A a \in Acts : gil = a => pc[a] \in PyStates

\* A callback runs on behalf of a call that is inside the kernel.
ParentInv == \A k \in Callbacks : parent[k] # Null => pc[parent[k]] \in KernelStates

\* Calls and callbacks are nested: among any callbacks there is one that has
\* called none of the others.
NestingInv ==
    \A nest \in SUBSET Callbacks :
        nest # {} => \E k \in nest : \A j \in nest : parent[j] # k

WaitInv == GilInv /\ ParentInv /\ NestingInv

\* A step of one activation: nobody else's frames change, it has the GIL
\* afterwards only if it runs Python, and it leaves the kernel only when its
\* callbacks have ended.
OwnStep(a) ==
    /\ parent' = parent
    /\ \A b \in Acts \ {a} : pc'[b] = pc[b]
    /\ gil' \in {gil, Free, a}
    /\ gil' = a => pc'[a] \in PyStates
    /\ pc[a] \in KernelStates => pc'[a] \in KernelStates \/ NoChild(a)

LEMMA DecrefOwnStep ==
  ASSUME TypeOK, NEW a \in Acts, NEW m, NEW h, Decref(a, m, h),
         parent' = parent, pc[a] \notin KernelStates
  PROVE  OwnStep(a)
  BY ConstantsAssumption DEF TypeOK, OwnStep, Decref, CloseImpl, Resume, PyStates

LEMMA ActOwnStep ==
  ASSUME TypeOK, GilInv, NEW a \in Acts, Act(a)
  PROVE  OwnStep(a)
  <1> USE ConstantsAssumption
      DEF TypeOK, GilInv, PyStates, KernelStates, managerVars, viewVars
  <1>1. CASE YieldGil(a)
    BY <1>1 DEF OwnStep, YieldGil
  <1>2. CASE TakeGil(a)
    <2>1. CASE AcquireGil(a) \/ CreateReturn(a) \/ CreateFails(a)
      BY <2>1 DEF OwnStep, AcquireGil, CreateReturn, CreateFails, Resume
    <2>2. CASE AllocFails(a)
      BY <2>2 DEF OwnStep, AllocFails, CloseImpl
    <2>3. CASE CallReturn(a) \/ CloseReturn(a)
      BY <2>3, DecrefOwnStep DEF CallReturn, CloseReturn
    <2> QED
      BY <1>2, <2>1, <2>2, <2>3 DEF TakeGil
  <1>3. CASE KernelStep(a)
    BY <1>3 DEF OwnStep, KernelStep, EnterKernel, KernelCreate, KernelReturn, DestroyReturn
  <1>4. CASE LeaveImport(a)
    <2>1. CASE ImportFails(a)
      BY <2>1, DecrefOwnStep DEF ImportFails
    <2>2. CASE ImportCall(a)
      BY <2>2 DEF OwnStep, ImportCall
    <2> QED
      BY <1>4, <2>1, <2>2 DEF LeaveImport
  <1>5. CASE UseLibrary(a)
    <2>1. Running(a)
      BY <1>5 DEF UseLibrary, CreateCall, Close, DropVar, StartImport, GetView, StartCall,
            UseView, DropView, DeriveView, CompareViews, Contains
    <2>2. ASSUME NEW m \in Managers, DropVar(a, m)  PROVE OwnStep(a)
      BY <2>1, <2>2, DecrefOwnStep DEF DropVar, Running
    <2>3. ASSUME NEW m \in Managers, CreateCall(a, m) \/ StartImport(a, m)  PROVE OwnStep(a)
      BY <2>1, <2>3 DEF OwnStep, CreateCall, StartImport, Running
    <2>4. ASSUME NEW m \in Managers, Close(a, m)  PROVE OwnStep(a)
      BY <2>1, <2>4 DEF OwnStep, Close, CloseImpl, Running, vars
    <2>5. ASSUME NEW m \in Managers, NEW e \in Views \cup {Null}, StartCall(a, m, e)
          PROVE  OwnStep(a)
      BY <2>1, <2>5 DEF OwnStep, StartCall, Running
    <2>6. ASSUME NEW v \in Views, DropView(a, v)  PROVE OwnStep(a)
      <3>1. CASE owner[v] = Null
        BY <2>1, <2>6, <3>1 DEF OwnStep, DropView, Running
      <3>2. CASE owner[v] # Null
        BY <2>1, <2>6, <3>2, DecrefOwnStep DEF DropView, Running
      <3> QED
        BY <3>1, <3>2
    <2>7. ASSUME \/ \E m \in Managers, v \in Views : GetView(a, m, v)
                 \/ \E v \in Views : UseView(a, v)
                 \/ \E v \in Views, w \in Views :
                       DeriveView(a, v, w) \/ CompareViews(a, v, w) \/ Contains(a, v, w)
          PROVE  OwnStep(a)
      <3>1. UNCHANGED <<gil, pc, parent>>
        BY <2>7 DEF GetView, UseView, DeriveView, CompareViews, Contains
      <3> QED
        BY <2>1, <3>1 DEF OwnStep, Running
    <2> QED
      BY <1>5, <2>2, <2>3, <2>4, <2>5, <2>6, <2>7 DEF UseLibrary
  <1> QED
    BY <1>1, <1>2, <1>3, <1>4, <1>5 DEF Act

LEMMA WaitOwnStep ==
  ASSUME TypeOK, WaitInv, NEW a \in Acts, OwnStep(a)
  PROVE  WaitInv'
  <1> USE ConstantsAssumption DEF WaitInv, OwnStep
  <1>1. GilInv'
    BY DEF GilInv
  <1>2. ParentInv'
    <2> SUFFICES ASSUME NEW k \in Callbacks, parent[k] # Null
                 PROVE  pc'[parent[k]] \in KernelStates
      BY DEF ParentInv
    <2>1. parent[k] \in Acts /\ pc[parent[k]] \in KernelStates
      BY DEF TypeOK, ParentInv
    <2>2. CASE parent[k] = a
      BY <2>1, <2>2 DEF NoChild
    <2>3. CASE parent[k] # a
      BY <2>1, <2>3
    <2> QED
      BY <2>2, <2>3
  <1>3. NestingInv'
    BY DEF NestingInv
  <1> QED
    BY <1>1, <1>2, <1>3

\* A new callback has called nobody yet.
LEMMA WaitDeliver ==
  ASSUME TypeOK, WaitInv, NEW k \in Callbacks, NEW a \in Acts, Deliver(k, a)
  PROVE  WaitInv'
  <1> USE ConstantsAssumption DEF WaitInv
  <1>1. /\ pc[k] = "idle" /\ pc[a] \in KernelStates /\ k \in Acts /\ a # k
        /\ pc' = [pc EXCEPT ![k] = "ensure"] /\ parent' = [parent EXCEPT ![k] = a]
        /\ gil' = gil /\ pc \in [Acts -> PCs] /\ parent \in [Callbacks -> Acts \cup {Null}]
    BY DEF Deliver, TypeOK, Acts, KernelStates
  <1>2. \A j \in Callbacks : parent[j] # k
    BY <1>1 DEF ParentInv, KernelStates
  <1>3. GilInv'
    BY <1>1 DEF GilInv, PyStates
  <1>4. ParentInv'
    BY <1>1, <1>2 DEF ParentInv
  <1>5. ASSUME NEW nest \in SUBSET Callbacks, nest # {}
        PROVE  \E i \in nest : \A j \in nest : parent'[j] # i
    <2>1. CASE k \in nest
      BY <1>1, <1>2, <2>1
    <2>2. CASE k \notin nest
      BY <1>1, <1>5, <2>2 DEF NestingInv
    <2> QED
      BY <2>1, <2>2
  <1> QED
    BY <1>3, <1>4, <1>5 DEF NestingInv

LEMMA WaitHandler ==
  ASSUME TypeOK, WaitInv, NEW k \in Callbacks, EnterPython(k) \/ HandlerReturn(k),
         parent' \in {parent, [parent EXCEPT ![k] = Null]}
  PROVE  WaitInv'
  <1> USE ConstantsAssumption DEF WaitInv
  <1>1. /\ pc[k] \in {"ensure", "py"} /\ k \in Acts
        /\ pc \in [Acts -> PCs] /\ parent \in [Callbacks -> Acts \cup {Null}]
        /\ \/ gil' = k /\ pc' = [pc EXCEPT ![k] = "py"]
           \/ gil' = Free /\ pc' = [pc EXCEPT ![k] = "idle"]
    BY DEF EnterPython, HandlerReturn, Running, TypeOK, Acts
  <1>2. GilInv'
    BY <1>1 DEF GilInv, PyStates
  <1>3. \A j \in Callbacks : parent'[j] \in {parent[j], Null}
    BY <1>1
  <1>4. ParentInv'
    <2> SUFFICES ASSUME NEW j \in Callbacks, parent'[j] # Null
                 PROVE  pc'[parent'[j]] \in KernelStates
      BY DEF ParentInv
    <2>1. parent'[j] = parent[j] /\ parent[j] \in Acts /\ pc[parent[j]] \in KernelStates
      BY <1>1, <1>3 DEF ParentInv
    <2>2. parent[j] # k
      BY <1>1, <2>1 DEF KernelStates
    <2> QED
      BY <1>1, <2>1, <2>2
  <1>5. NestingInv'
    BY <1>1, <1>3 DEF NestingInv, Acts
  <1> QED
    BY <1>2, <1>4, <1>5

LEMMA WaitInvariance == Spec => []WaitInv
  <1>1. ASSUME Init  PROVE WaitInv
    <2> USE ConstantsAssumption
    <2>1. gil = Free /\ Free \notin Acts /\ \A k \in Callbacks : parent[k] = Null /\ Null # k
      BY <1>1 DEF Init, Acts
    <2>2. GilInv
      BY <2>1 DEF GilInv
    <2>3. ParentInv
      BY <2>1 DEF ParentInv
    <2>4. NestingInv
      BY <2>1 DEF NestingInv
    <2> QED
      BY <2>2, <2>3, <2>4 DEF WaitInv
  <1>2. TypeOK /\ WaitInv /\ [Next]_vars => WaitInv'
    <2> SUFFICES ASSUME TypeOK, WaitInv, [Next]_vars  PROVE WaitInv'
      OBVIOUS
    <2>1. CASE UNCHANGED vars
      BY <2>1 DEF vars, WaitInv, GilInv, ParentInv, NestingInv
    <2>2. ASSUME NEW a \in Acts, Act(a)  PROVE WaitInv'
      BY <2>2, ActOwnStep, WaitOwnStep DEF WaitInv
    <2>3. ASSUME NEW k \in Callbacks, Callback(k)  PROVE WaitInv'
      <3>1. CASE EnterHandler(k) \/ \E v \in Views : EnterHandlerWithEntry(k, v)
        <4>1. EnterPython(k) /\ parent' = parent
          BY <3>1 DEF EnterHandler, EnterHandlerWithEntry, EnterPython
        <4> QED
          BY <4>1, WaitHandler
      <3>2. CASE HandlerReturn(k)
        BY <3>2, WaitHandler DEF HandlerReturn
      <3>3. CASE \E a \in Acts : Deliver(k, a)
        BY <3>3, WaitDeliver
      <3> QED
        BY <2>3, <3>1, <3>2, <3>3 DEF Callback
    <2> QED
      BY <2>1, <2>2, <2>3 DEF Next
  <1> QED
    BY <1>1, <1>2, TypeCorrect, PTL DEF Spec

\* Threads and callbacks, any number of them, nested to any depth, never wait
\* for each other in a circle.
THEOREM NoCircleCorrect == Spec => []NoCircle
  <1>1. TypeOK /\ WaitInv => NoCircle
    <2> SUFFICES ASSUME TypeOK, WaitInv, NEW company \in SUBSET Acts, company # {}
                 PROVE  \E a \in company : \A b \in company : ~WaitsFor(a, b)
      BY DEF NoCircle
    <2> USE ConstantsAssumption DEF WaitInv
    <2>1. ASSUME NEW a \in Acts, pc[a] \notin KernelStates, NEW b \in Callbacks
          PROVE  parent[b] # a
      BY <2>1 DEF ParentInv, Acts
    <2>2. CASE \E a \in company : gil = a
      <3>1. PICK a \in company : gil = a
        BY <2>2
      <3>2. pc[a] \notin KernelStates
        BY <3>1 DEF GilInv, PyStates, KernelStates
      <3> QED
        BY <2>1, <3>1, <3>2 DEF WaitsFor
    <2>3. CASE \A a \in company : gil # a
      <3> DEFINE nest == company \cap Callbacks
      <3>1. CASE nest = {}
        BY <2>3, <3>1 DEF WaitsFor
      <3>2. CASE nest # {}
        <4>1. PICK k \in nest : \A j \in nest : parent[j] # k
          BY <3>2 DEF NestingInv
        <4> QED
          BY <2>3, <4>1 DEF WaitsFor
      <3> QED
        BY <3>1, <3>2
    <2> QED
      BY <2>2, <2>3
  <1> QED
    BY <1>1, TypeCorrect, WaitInvariance, PTL

----------------------------------------------------------------------------
(***************************************************************************)
(* Entries of callbacks and of other managers.                             *)
(***************************************************************************)

\* No entry came without an owner, calls were passed entries, and no entry was
\* used that was not checked.
OwnedInv ==
    /\ \A v \in Views : owner[v] = origin[v]
    /\ \A a \in Acts : arg[a] # Null => ~NoView(arg[a])
    /\ EntriesStayValid

LEMMA OwnedDecref ==
  ASSUME NEW a \in Acts, NEW m, NEW h, Decref(a, m, h) \/ CloseImpl(a, m), EntriesStayValid
  PROVE  EntriesStayValid'
  BY DEF Decref, CloseImpl, Fault, EntriesStayValid

LEMMA OwnedQuiet ==
  ASSUME OwnedInv, EntriesStayValid', UNCHANGED <<owner, origin, arg>>
  PROVE  OwnedInv'
  BY DEF OwnedInv, NoView

\* Of one manager, a view and the argument of a call have the same.
LEMMA OwnedArg ==
  ASSUME TypeOK, OwnedInv, \A m, n \in Managers : m = n,
         NEW m \in Managers, NEW e \in Views \cup {Null}, e # Null => ~NoView(e)
  PROVE  ArgFault(m, e) = {}
  <1>1. e # Null => origin[e] = m
    BY DEF TypeOK, OwnedInv, NoView
  <1> QED
    BY <1>1 DEF ArgFault

LEMMA OwnedViews ==
  ASSUME TypeOK, OwnedInv, \A m, n \in Managers : m = n, NEW a \in Acts,
         \/ \E m \in Managers, v \in Views : GetView(a, m, v)
         \/ \E v \in Views : UseView(a, v) \/ DropView(a, v)
         \/ \E v \in Views, w \in Views :
               DeriveView(a, v, w) \/ CompareViews(a, v, w) \/ Contains(a, v, w)
  PROVE  OwnedInv'
  <1> USE ConstantsAssumption DEF TypeOK, EntriesStayValid
  <1>1. \A v \in Views : ~NoView(v) => ViewFault(v) \cap {"unowned", "arg"} = {}
    BY DEF OwnedInv, NoView, ViewFault, Fault
  <1>2. ASSUME NEW m \in Managers, NEW v \in Views, GetView(a, m, v)
        PROVE  OwnedInv'
    BY <1>2 DEF GetView, Wrap, SelfFault, Fault, OwnedInv, NoView
  <1>3. ASSUME NEW v \in Views, UseView(a, v)
        PROVE  OwnedInv'
    <2>1. UNCHANGED <<owner, origin, arg>> /\ faults' = faults \cup ViewFault(v) /\ ~NoView(v)
      BY <1>3 DEF UseView, viewVars
    <2> QED
      BY <1>1, <2>1, OwnedQuiet DEF OwnedInv
  <1>4. ASSUME NEW v \in Views, DropView(a, v)
        PROVE  OwnedInv'
    <2>1. EntriesStayValid'
      BY <1>4, OwnedDecref DEF DropView, OwnedInv
    <2> QED
      BY <1>4, <2>1 DEF DropView, OwnedInv, NoView
  <1>5. ASSUME NEW v \in Views, NEW w \in Views, DeriveView(a, v, w)
        PROVE  OwnedInv'
    <2>1. /\ ~NoView(v) /\ NoView(w) /\ arg' = arg /\ faults' = faults \cup ViewFault(v)
          /\ owner' = [owner EXCEPT ![w] = owner[v]]
          /\ origin' = [origin EXCEPT ![w] = origin[v]]
      BY <1>5 DEF DeriveView, Wrap
    <2>2. EntriesStayValid'
      BY <1>1, <2>1 DEF OwnedInv
    <2> QED
      BY <2>1, <2>2 DEF OwnedInv, NoView
  <1>6. ASSUME NEW v \in Views, NEW w \in Views, CompareViews(a, v, w)
        PROVE  OwnedInv'
    <2>1. /\ UNCHANGED <<owner, origin, arg>> /\ ~NoView(v) /\ ~NoView(w)
          /\ faults' = faults \cup ViewFault(v) \cup ViewFault(w)
      BY <1>6 DEF CompareViews, viewVars
    <2> QED
      BY <1>1, <2>1, OwnedQuiet DEF OwnedInv
  <1>7. ASSUME NEW v \in Views, NEW w \in Views, Contains(a, v, w)
        PROVE  OwnedInv'
    <2>1. /\ UNCHANGED <<owner, origin, arg>> /\ owner[v] # Null /\ ~NoView(w)
          /\ faults' = faults \cup ViewFault(v) \cup ArgFault(origin[v], w)
      BY <1>7 DEF Contains, viewVars
    <2>2. origin[v] \in Managers /\ ~NoView(v)
      BY <2>1 DEF OwnedInv, NoView
    <2>3. ArgFault(origin[v], w) = {}
      BY <2>1, <2>2, OwnedArg
    <2> QED
      BY <1>1, <2>1, <2>2, <2>3, OwnedQuiet DEF OwnedInv
  <1> QED
    BY <1>2, <1>3, <1>4, <1>5, <1>6, <1>7

LEMMA OwnedAct ==
  ASSUME TypeOK, IInv, OwnedInv, \A m, n \in Managers : m = n, NEW a \in Acts, Act(a)
  PROVE  OwnedInv'
  <1> USE ConstantsAssumption DEF TypeOK, managerVars, viewVars
  <1>1. EntriesStayValid
    BY DEF OwnedInv
  <1>2. CASE YieldGil(a) \/ AcquireGil(a) \/ CreateReturn(a) \/ CreateFails(a)
               \/ KernelCreate(a) \/ DestroyReturn(a) \/ ImportCall(a)
    <2>1. UNCHANGED <<owner, origin, arg, faults>>
      BY <1>2 DEF YieldGil, AcquireGil, CreateReturn, CreateFails, KernelCreate,
         DestroyReturn, ImportCall
    <2> QED
      BY <1>1, <2>1, OwnedQuiet DEF EntriesStayValid
  <1>3. CASE AllocFails(a) \/ CloseReturn(a) \/ ImportFails(a)
    <2>1. UNCHANGED <<owner, origin, arg>> /\ EntriesStayValid'
      BY <1>1, <1>3, OwnedDecref DEF AllocFails, CloseReturn, ImportFails
    <2> QED
      BY <2>1, OwnedQuiet
  <1>4. CASE CallReturn(a)
    <2>1. EntriesStayValid'
      BY <1>1, <1>4, OwnedDecref DEF CallReturn
    <2> QED
      BY <1>4, <2>1 DEF CallReturn, OwnedInv, NoView
  <1>5. CASE EnterKernel(a) \/ KernelReturn(a)
    <2>1. UNCHANGED <<owner, origin, arg>> /\ faults' = faults \cup CallFaults(a)
          /\ pc[a] \in {"call", "kernel"}
      BY <1>5 DEF EnterKernel, KernelReturn
    <2>2. self[a] \in Managers /\ arg[a] \in Views \cup {Null}
      BY <2>1 DEF IInv, FrameInv, NoSelfStates
    <2>3. ArgFault(self[a], arg[a]) = {}
      BY <2>2, OwnedArg DEF OwnedInv
    <2>4. EntriesStayValid'
      BY <1>1, <2>1, <2>3 DEF EntriesStayValid, CallFaults, SelfFault, Fault
    <2> QED
      BY <2>1, <2>4, OwnedQuiet
  <1>6. ASSUME NEW m \in Managers, CreateCall(a, m) \/ StartImport(a, m)
        PROVE  OwnedInv'
    <2>1. UNCHANGED <<owner, origin, arg, faults>>
      BY <1>6 DEF CreateCall, StartImport
    <2> QED
      BY <1>1, <2>1, OwnedQuiet DEF EntriesStayValid
  <1>7. ASSUME NEW m \in Managers, Close(a, m) \/ DropVar(a, m)
        PROVE  OwnedInv'
    <2>1. UNCHANGED <<owner, origin, arg>> /\ EntriesStayValid'
      BY <1>1, <1>7, OwnedDecref DEF Close, DropVar, vars, EntriesStayValid
    <2> QED
      BY <2>1, OwnedQuiet
  <1>8. ASSUME NEW m \in Managers, NEW e \in Views \cup {Null}, StartCall(a, m, e)
        PROVE  OwnedInv'
    BY <1>8 DEF StartCall, OwnedInv, EntriesStayValid, NoView
  <1> QED
    BY <1>2, <1>3, <1>4, <1>5, <1>6, <1>7, <1>8, OwnedViews
    DEF Act, TakeGil, KernelStep, LeaveImport, UseLibrary

\* The entries of callbacks and those passed to another manager are all there is
\* to what the run stale_entries finds: a program with one manager and without
\* handlers never uses an entry of a dead manager, other than by the close() that
\* meets a running call (CallsStayValid).
THEOREM EntriesStayValidOtherwise ==
  ASSUME Callbacks = {}, \A m, n \in Managers : m = n
  PROVE  Spec => []EntriesStayValid
  <1>1. Init => OwnedInv
    BY ConstantsAssumption DEF Init, OwnedInv, EntriesStayValid
  <1>2. TypeOK /\ IInv /\ OwnedInv /\ [Next]_vars => OwnedInv'
    <2> SUFFICES ASSUME TypeOK, IInv, OwnedInv, [Next]_vars  PROVE OwnedInv'
      OBVIOUS
    <2>1. CASE UNCHANGED vars
      BY <2>1, OwnedQuiet DEF vars, managerVars, viewVars, OwnedInv, EntriesStayValid
    <2>2. ASSUME NEW a \in Acts, Act(a)  PROVE OwnedInv'
      BY <2>2, OwnedAct
    <2> QED
      BY <2>1, <2>2 DEF Next
  <1>3. OwnedInv => EntriesStayValid
    BY DEF OwnedInv
  <1> QED
    BY <1>1, <1>2, <1>3, IInvCorrect, TypeCorrect, PTL DEF Spec
=============================================================================
