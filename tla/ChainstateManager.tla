-------------------------- MODULE ChainstateManager --------------------------
(***************************************************************************)
(* The life of ChainstateManager wrappers, of the views taken from them    *)
(* (Chain, BlockTreeEntry) and of the kernel objects behind them, as       *)
(* src/_bitcoinkernel.c manages them under CPython's GIL.                  *)
(*                                                                         *)
(* An activation is one stack of C and Python frames that takes the GIL by *)
(* itself: a Python thread, or one run of a callback trampoline.  A        *)
(* trampoline that the kernel runs on the caller's own thread is an        *)
(* activation too, because the caller has released the GIL and cannot      *)
(* return before its callback does (see parent).                           *)
(*                                                                         *)
(* One wrapper stands for one call of ChainstateManager(options); a wrapper*)
(* is never reused.  A view is a slot that is reused.                      *)
(***************************************************************************)

CONSTANTS
    Threads,    \* Python threads
    Callbacks,  \* activations of callback trampolines (bounds the nesting)
    Managers,   \* ChainstateManager wrappers
    Views,      \* Chain and BlockTreeEntry wrappers alive at the same time
    Free,       \* nobody holds the GIL
    Null,       \* the C NULL
    Var         \* the reference held by the program's variable

Acts == Threads \cup Callbacks

ASSUME ConstantsAssumption ==
    /\ Threads \cap Callbacks = {}
    /\ Acts \cap Views = {}
    /\ Free \notin Acts
    /\ Null \notin Acts \cup Views \cup Managers
    /\ Var \notin Acts \cup Views

VARIABLES
    gil,     \* the activation that holds the GIL, or Free
    pc,      \* where each activation is
    self,    \* the manager whose method an activation is executing, or Null
    arg,     \* the entry passed to read_block(), or Null
    parent,  \* the kernel call that runs a callback, or Null
    ptr,     \* self->ptr # NULL, for each manager
    kernel,  \* the kernel object made for each manager
    refs,    \* who holds a reference to each manager: its refcount, by name
    owner,   \* view->owner, for each view
    origin,  \* the manager whose memory view->ptr points into (Null: no view)
    faults,  \* kinds of access to a dead kernel object made so far
    raced    \* history: a close() began while a method of its manager ran

managerVars == <<ptr, kernel, refs>>
viewVars == <<owner, origin>>
vars == <<gil, pc, self, arg, parent, managerVars, viewVars, faults, raced>>

\* "py" is Python code (waiting for the GIL, or running when gil names it);
\* "import" is Python code called from inside import_blocks().
PyStates == {"py", "import"}
\* The activation is inside the kernel, without the GIL.
KernelStates == {"create", "kernel", "destroy"}
\* The kernel has returned and Py_END_ALLOW_THREADS waits for the GIL.
WaitStates == {"created", "failed", "done", "closed"}
PCs == PyStates \cup KernelStates \cup WaitStates \cup {"idle", "ensure", "call"}

FaultKinds == {"self", "view", "unowned", "arg", "call", "destroy"}

TypeOK ==
    /\ gil \in Acts \cup {Free}
    /\ pc \in [Acts -> PCs]
    /\ self \in [Acts -> Managers \cup {Null}]
    /\ arg \in [Acts -> Views \cup {Null}]
    /\ parent \in [Callbacks -> Acts \cup {Null}]
    /\ ptr \in [Managers -> BOOLEAN]
    /\ kernel \in [Managers -> {"absent", "live", "destroying", "gone"}]
    /\ refs \in [Managers -> SUBSET (Acts \cup Views \cup {Var})]
    /\ owner \in [Views -> Managers \cup {Null}]
    /\ origin \in [Views -> Managers \cup {Null}]
    /\ faults \in SUBSET FaultKinds
    /\ raced \in BOOLEAN

Init ==
    /\ gil = Free
    /\ pc = [a \in Acts |-> IF a \in Threads THEN "py" ELSE "idle"]
    /\ self = [a \in Acts |-> Null]
    /\ arg = [a \in Acts |-> Null]
    /\ parent = [k \in Callbacks |-> Null]
    /\ ptr = [m \in Managers |-> FALSE]
    /\ kernel = [m \in Managers |-> "absent"]
    /\ refs = [m \in Managers |-> {}]
    /\ owner = [v \in Views |-> Null]
    /\ origin = [v \in Views |-> Null]
    /\ faults = {}
    /\ raced = FALSE

----------------------------------------------------------------------------
(* The GIL.                                                                *)

Running(a) == gil = a /\ pc[a] = "py"

\* PyEval_RestoreThread and PyGILState_Ensure wait for the GIL unless the
\* calling thread has it already.
CanTakeGil(a) == gil \in {Free, a}

AcquireGil(a) ==
    /\ gil = Free
    /\ pc[a] \in PyStates
    /\ gil' = a
    /\ UNCHANGED <<pc, self, arg, parent, raced, managerVars, viewVars, faults>>

\* The interpreter's switch interval: Python code may lose the GIL anywhere.
YieldGil(a) ==
    /\ gil = a
    /\ pc[a] \in PyStates
    /\ gil' = Free
    /\ UNCHANGED <<pc, self, arg, parent, raced, managerVars, viewVars, faults>>

\* A C function returns to the Python code that called it.
Resume(a) ==
    /\ gil' = a
    /\ pc' = [pc EXCEPT ![a] = "py"]
    /\ self' = [self EXCEPT ![a] = Null]

----------------------------------------------------------------------------
(* Accesses to kernel memory.                                              *)

Fault(kind, bad) == IF bad THEN {kind} ELSE {}

\* A method of m hands m's own kernel object to the kernel.
SelfFault(kind, m) == Fault(kind, kernel[m] # "live")

\* Mutant: no CHECK_VIEW.
CheckViewNever(v) == TRUE

\* view_owner_alive(): a view without an owner passes.
CheckView(v) == owner[v] # Null => ptr[owner[v]]
\* A view's pointer is dereferenced.  An owned view was checked first, so the
\* kernel object must be whole.
ViewFault(v) ==
    IF owner[v] = Null
    THEN Fault("unowned", kernel[origin[v]] = "gone")
    ELSE Fault("view", kernel[origin[v]] # "live")

\* A BlockTreeEntry passed as an argument to a call on m is dereferenced:
\* contains(), read_block() and read_block_spent_outputs() check self only.
ArgFault(m, e) ==
    CASE e = Null \/ origin[e] = m -> {}
      [] OTHER -> Fault(IF owner[e] = Null THEN "unowned" ELSE "arg",
                        kernel[origin[e]] = "gone")

----------------------------------------------------------------------------
(* Destruction.                                                            *)

\* Mutant: the kernel object is destroyed with the GIL held.
CloseImplUnderGil(a, m) ==
    /\ ptr' = [ptr EXCEPT ![m] = FALSE]
    /\ kernel' = [kernel EXCEPT ![m] = "destroying"]
    /\ pc' = [pc EXCEPT ![a] = "destroy"]
    /\ self' = [self EXCEPT ![a] = m]
    /\ gil' = a
    /\ faults' = faults \cup Fault("destroy", kernel[m] # "live")

\* ChainstateManager_close_impl with self->ptr # NULL: the pointer is cleared
\* before the GIL is released for btck_chainstate_manager_destroy().
CloseImpl(a, m) ==
    /\ ptr' = [ptr EXCEPT ![m] = FALSE]
    /\ kernel' = [kernel EXCEPT ![m] = "destroying"]
    /\ pc' = [pc EXCEPT ![a] = "destroy"]
    /\ self' = [self EXCEPT ![a] = m]
    /\ gil' = Free
    /\ faults' = faults \cup Fault("destroy", kernel[m] # "live")

\* Py_DECREF(m) by the activation that has the GIL, on its way back to Python.
\* The last reference runs ChainstateManager_dealloc there and then.
Decref(a, m, holder) ==
    /\ refs' = [refs EXCEPT ![m] = @ \ {holder}]
    /\ IF refs[m] = {holder} /\ ptr[m]
       THEN CloseImpl(a, m)
       ELSE Resume(a) /\ UNCHANGED <<ptr, kernel, faults>>

\* Nothing the kernel called from a's kernel call is still running.
NoChild(a) == \A k \in Callbacks : parent[k] # a

\* btck_chainstate_manager_destroy() returns.
DestroyReturn(a) ==
    /\ pc[a] = "destroy"
    /\ NoChild(a)
    /\ pc' = [pc EXCEPT ![a] = "closed"]
    /\ kernel' = [kernel EXCEPT ![self[a]] = "gone"]
    /\ UNCHANGED <<gil, self, arg, parent, raced, ptr, refs, viewVars, faults>>

\* close_impl has the GIL back: close() returns and drops the reference its
\* caller's frame held (if any), or dealloc frees the wrapper.
CloseReturn(a) ==
    /\ pc[a] = "closed"
    /\ CanTakeGil(a)
    /\ Decref(a, self[a], a)
    /\ UNCHANGED <<arg, parent, raced, viewVars>>

\* No method of m is on any stack.
NoCallOn(m) == \A b \in Acts : self[b] # m

\* close(), or leaving a "with" block.
Close(a, m) ==
    /\ Running(a)
    /\ Var \in refs[m]
    /\ IF ptr[m]
       THEN /\ CloseImpl(a, m)
            /\ refs' = [refs EXCEPT ![m] = @ \cup {a}]
            /\ raced' = (raced \/ ~NoCallOn(m))
            /\ UNCHANGED <<arg, parent, viewVars>>
       ELSE UNCHANGED vars

\* "del manager", or the variable is rebound.
DropVar(a, m) ==
    /\ Running(a)
    /\ Var \in refs[m]
    /\ Decref(a, m, Var)
    /\ UNCHANGED <<arg, parent, raced, viewVars>>

----------------------------------------------------------------------------
(* ChainstateManager(options).                                             *)

CreateCall(a, m) ==
    /\ Running(a)
    /\ kernel[m] = "absent"
    /\ NoCallOn(m)
    /\ pc' = [pc EXCEPT ![a] = "create"]
    /\ self' = [self EXCEPT ![a] = m]
    /\ gil' = Free
    /\ UNCHANGED <<arg, parent, raced, managerVars, viewVars, faults>>

\* Mutant: the NULL that a failed creation returns is taken for a manager.
KernelCreateUnchecked(a) ==
    /\ pc[a] = "create"
    /\ NoChild(a)
    /\ \E result \in {"live", "NULL"} :
          kernel' = [kernel EXCEPT ![self[a]] = result]
    /\ pc' = [pc EXCEPT ![a] = "created"]
    /\ UNCHANGED <<gil, self, arg, parent, raced, ptr, refs, viewVars, faults>>

\* btck_chainstate_manager_create() returns a manager, or NULL.
KernelCreate(a) ==
    /\ pc[a] = "create"
    /\ NoChild(a)
    /\ \/ /\ kernel' = [kernel EXCEPT ![self[a]] = "live"]
          /\ pc' = [pc EXCEPT ![a] = "created"]
       \/ /\ kernel' = [kernel EXCEPT ![self[a]] = "gone"]
          /\ pc' = [pc EXCEPT ![a] = "failed"]
    /\ UNCHANGED <<gil, self, arg, parent, raced, ptr, refs, viewVars, faults>>

CreateReturn(a) ==
    /\ pc[a] = "created"
    /\ CanTakeGil(a)
    /\ ptr' = [ptr EXCEPT ![self[a]] = TRUE]
    /\ refs' = [refs EXCEPT ![self[a]] = {Var}]
    /\ Resume(a)
    /\ UNCHANGED <<arg, parent, raced, kernel, viewVars, faults>>

\* Mutant: the error path returns without destroying the kernel object.
AllocFailsLeaks(a) ==
    /\ pc[a] = "created"
    /\ CanTakeGil(a)
    /\ Resume(a)
    /\ UNCHANGED <<arg, parent, raced, managerVars, viewVars, faults>>

\* tp_alloc fails: the new kernel object is destroyed, without the GIL.
AllocFails(a) ==
    /\ pc[a] = "created"
    /\ CanTakeGil(a)
    /\ CloseImpl(a, self[a])
    /\ UNCHANGED <<arg, parent, raced, refs, viewVars>>

CreateFails(a) ==
    /\ pc[a] = "failed"
    /\ CanTakeGil(a)
    /\ Resume(a)
    /\ UNCHANGED <<arg, parent, raced, managerVars, viewVars, faults>>

----------------------------------------------------------------------------
(* Views.                                                                  *)

NoView(v) == owner[v] = Null /\ origin[v] = Null

\* Mutant: the owner is not INCREF'd.
WrapBorrowed(v, m, own) ==
    /\ NoView(v)
    /\ owner' = [owner EXCEPT ![v] = own]
    /\ origin' = [origin EXCEPT ![v] = m]
    /\ refs' = refs

\* BlockTreeEntry_wrap() and get_active_chain(): a new view into m's memory.
\* An owner is INCREF'd; callbacks pass NULL.
Wrap(v, m, own) ==
    /\ NoView(v)
    /\ owner' = [owner EXCEPT ![v] = own]
    /\ origin' = [origin EXCEPT ![v] = m]
    /\ refs' = IF own = Null THEN refs
               ELSE [refs EXCEPT ![own] = @ \cup {v}]

\* get_best_entry(), get_active_chain(), get_block_tree_entry_by_hash().
GetView(a, m, v) ==
    /\ Running(a)
    /\ Var \in refs[m]
    /\ ptr[m]
    /\ Wrap(v, m, m)
    /\ faults' = faults \cup SelfFault("self", m)
    /\ UNCHANGED <<gil, pc, self, arg, parent, raced, ptr, kernel>>

\* chain[i], chain.tip(), entry.prev: a view from a view, with the same owner.
DeriveView(a, v, w) ==
    /\ Running(a)
    /\ ~NoView(v)
    /\ CheckView(v)
    /\ Wrap(w, origin[v], owner[v])
    /\ faults' = faults \cup ViewFault(v)
    /\ UNCHANGED <<gil, pc, self, arg, parent, raced, ptr, kernel>>

\* chain.height, len(chain), entry.height, .block_hash, .header, repr(entry).
UseView(a, v) ==
    /\ Running(a)
    /\ ~NoView(v)
    /\ CheckView(v)
    /\ faults' = faults \cup ViewFault(v)
    /\ UNCHANGED <<gil, pc, self, arg, parent, raced, managerVars, viewVars>>

\* entry == entry checks both owners.
CompareViews(a, v, w) ==
    /\ Running(a)
    /\ ~NoView(v) /\ ~NoView(w)
    /\ CheckView(v) /\ CheckView(w)
    /\ faults' = faults \cup ViewFault(v) \cup ViewFault(w)
    /\ UNCHANGED <<gil, pc, self, arg, parent, raced, managerVars, viewVars>>

\* chain.contains(entry) and "entry in chain" check the chain's owner only.
Contains(a, chain, e) ==
    /\ Running(a)
    /\ owner[chain] # Null /\ ~NoView(e)
    /\ CheckView(chain)
    /\ faults' = faults \cup ViewFault(chain)
                      \cup ArgFault(origin[chain], e)
    /\ UNCHANGED <<gil, pc, self, arg, parent, raced, managerVars, viewVars>>

\* The last reference to a view goes.  A call that was passed the view keeps it.
DropView(a, v) ==
    /\ Running(a)
    /\ ~NoView(v)
    /\ \A b \in Acts : arg[b] # v
    /\ owner' = [owner EXCEPT ![v] = Null]
    /\ origin' = [origin EXCEPT ![v] = Null]
    /\ IF owner[v] = Null
       THEN UNCHANGED <<gil, pc, self, managerVars, faults>>
       ELSE Decref(a, owner[v], v)
    /\ UNCHANGED <<arg, parent, raced>>

----------------------------------------------------------------------------
(* Calls that release the GIL.                                             *)

\* Mutant: the method runs on a borrowed reference to its manager.
StartCallBorrowed(a, m, e) ==
    /\ Running(a)
    /\ Var \in refs[m]
    /\ ptr[m]
    /\ e # Null => ~NoView(e)
    /\ refs' = refs
    /\ self' = [self EXCEPT ![a] = m]
    /\ arg' = [arg EXCEPT ![a] = e]
    /\ pc' = [pc EXCEPT ![a] = "call"]
    /\ gil' = Free
    /\ UNCHANGED <<parent, raced, ptr, kernel, viewVars, faults>>

\* Mutant: the GIL is kept during the call.
StartCallUnderGil(a, m, e) ==
    /\ Running(a)
    /\ Var \in refs[m]
    /\ ptr[m]
    /\ e # Null => ~NoView(e)
    /\ refs' = [refs EXCEPT ![m] = @ \cup {a}]
    /\ self' = [self EXCEPT ![a] = m]
    /\ arg' = [arg EXCEPT ![a] = e]
    /\ pc' = [pc EXCEPT ![a] = "call"]
    /\ gil' = gil
    /\ UNCHANGED <<parent, raced, ptr, kernel, viewVars, faults>>

\* process_block(), process_block_header() with e = Null; read_block(),
\* read_block_spent_outputs() with an entry.  CHECK_PTR, then the GIL goes.
StartCall(a, m, e) ==
    /\ Running(a)
    /\ Var \in refs[m]
    /\ ptr[m]
    /\ e # Null => ~NoView(e)
    /\ refs' = [refs EXCEPT ![m] = @ \cup {a}]
    /\ self' = [self EXCEPT ![a] = m]
    /\ arg' = [arg EXCEPT ![a] = e]
    /\ pc' = [pc EXCEPT ![a] = "call"]
    /\ gil' = Free
    /\ UNCHANGED <<parent, raced, ptr, kernel, viewVars, faults>>

\* import_blocks(paths): CHECK_PTR comes before the paths are converted, and
\* PySequence_Fast and PyUnicode_FSConverter run Python code.
StartImport(a, m) ==
    /\ Running(a)
    /\ Var \in refs[m]
    /\ ptr[m]
    /\ refs' = [refs EXCEPT ![m] = @ \cup {a}]
    /\ self' = [self EXCEPT ![a] = m]
    /\ pc' = [pc EXCEPT ![a] = "import"]
    /\ UNCHANGED <<gil, arg, parent, raced, ptr, kernel, viewVars, faults>>

\* A path cannot be converted: the call raises.
ImportFails(a) ==
    /\ gil = a
    /\ pc[a] = "import"
    /\ Decref(a, self[a], a)
    /\ UNCHANGED <<arg, parent, raced, viewVars>>

ImportCall(a) ==
    /\ gil = a
    /\ pc[a] = "import"
    /\ pc' = [pc EXCEPT ![a] = "call"]
    /\ gil' = Free
    /\ UNCHANGED <<self, arg, parent, raced, managerVars, viewVars, faults>>

\* The call needs self->ptr, which is read only now, and what it points to.
CallFaults(a) ==
    Fault("call", ~ptr[self[a]]) \cup SelfFault("call", self[a])
        \cup ArgFault(self[a], arg[a])

EnterKernel(a) ==
    /\ pc[a] = "call"
    /\ pc' = [pc EXCEPT ![a] = "kernel"]
    /\ faults' = faults \cup CallFaults(a)
    /\ UNCHANGED <<gil, self, arg, parent, raced, managerVars, viewVars>>

KernelReturn(a) ==
    /\ pc[a] = "kernel"
    /\ NoChild(a)
    /\ pc' = [pc EXCEPT ![a] = "done"]
    /\ faults' = faults \cup CallFaults(a)
    /\ UNCHANGED <<gil, self, arg, parent, raced, managerVars, viewVars>>

CallReturn(a) ==
    /\ pc[a] = "done"
    /\ CanTakeGil(a)
    /\ arg' = [arg EXCEPT ![a] = Null]
    /\ Decref(a, self[a], a)
    /\ UNCHANGED <<parent, raced, viewVars>>

----------------------------------------------------------------------------
(* Callbacks.                                                              *)

\* The kernel calls a trampoline from a call it has not returned from.
Deliver(k, a) ==
    /\ pc[k] = "idle"
    /\ pc[a] \in KernelStates
    /\ pc' = [pc EXCEPT ![k] = "ensure"]
    /\ parent' = [parent EXCEPT ![k] = a]
    /\ UNCHANGED <<gil, self, arg, managerVars, viewVars, faults, raced>>

EnterPython(k) ==
    /\ pc[k] = "ensure"
    /\ CanTakeGil(k)
    /\ gil' = k
    /\ pc' = [pc EXCEPT ![k] = "py"]
    /\ UNCHANGED <<self, arg, parent, raced, ptr, kernel, faults>>

\* header_tip, progress, warnings, errors, block_checked, log messages.
EnterHandler(k) ==
    /\ EnterPython(k)
    /\ UNCHANGED <<refs, viewVars>>

\* block_tip, pow_valid_block, block_connected, block_disconnected: the handler
\* gets an entry whose owner is NULL, and may keep it.
EnterHandlerWithEntry(k, v) ==
    /\ EnterPython(k)
    /\ \E a \in Acts : parent[k] = a /\ Wrap(v, self[a], Null)

HandlerReturn(k) ==
    /\ Running(k)
    /\ pc' = [pc EXCEPT ![k] = "idle"]
    /\ parent' = [parent EXCEPT ![k] = Null]
    /\ gil' = Free
    /\ UNCHANGED <<self, arg, managerVars, viewVars, faults, raced>>

----------------------------------------------------------------------------

\* The activation waits for the GIL and gets it.
TakeGil(a) ==
    \/ AcquireGil(a)
    \/ CreateReturn(a) \/ AllocFails(a) \/ CreateFails(a)
    \/ CallReturn(a) \/ CloseReturn(a)

\* The kernel takes or gives up control.
KernelStep(a) ==
    EnterKernel(a) \/ KernelCreate(a) \/ KernelReturn(a) \/ DestroyReturn(a)

\* The Python code that import_blocks() runs ends.
LeaveImport(a) == ImportFails(a) \/ ImportCall(a)

\* Python code uses the library.
UseLibrary(a) ==
    \/ \E m \in Managers :
          \/ CreateCall(a, m) \/ Close(a, m) \/ DropVar(a, m)
          \/ StartImport(a, m)
          \/ \E v \in Views : GetView(a, m, v)
          \/ \E e \in Views \cup {Null} : StartCall(a, m, e)
    \/ \E v \in Views :
          \/ UseView(a, v) \/ DropView(a, v)
          \/ \E w \in Views :
                DeriveView(a, v, w) \/ CompareViews(a, v, w) \/ Contains(a, v, w)

Act(a) ==
    YieldGil(a) \/ TakeGil(a) \/ KernelStep(a) \/ LeaveImport(a) \/ UseLibrary(a)

Callback(k) ==
    \/ EnterHandler(k) \/ HandlerReturn(k)
    \/ \E a \in Acts : Deliver(k, a)
    \/ \E v \in Views : EnterHandlerWithEntry(k, v)

Next ==
    \/ \E a \in Acts : Act(a)
    \/ \E k \in Callbacks : Callback(k)

Spec == Init /\ [][Next]_vars

\* The interpreter takes the GIL from running Python code, a thread that waits
\* for the GIL gets it in the end, a call into the kernel ends once its
\* callbacks have, and the code of a handler or of a path conversion ends.
\* Python code need not ever call this library, and the kernel need not call
\* back.  (What pc allows decides which disjunct of Proceed is enabled, so one
\* strong fairness stands for one of each.)
Proceed(a) == TakeGil(a) \/ KernelStep(a)

Fairness ==
    /\ \A a \in Acts : WF_vars(YieldGil(a))
    /\ \A t \in Threads : SF_vars(Proceed(t)) /\ SF_vars(LeaveImport(t))
    /\ \A k \in Callbacks :
          /\ SF_vars(Proceed(k) \/ EnterHandler(k))
          /\ SF_vars(LeaveImport(k))
          /\ SF_vars(HandlerReturn(k))

FairSpec == Spec /\ Fairness

----------------------------------------------------------------------------
(* Properties.                                                             *)

\* Chain and BlockTreeEntry objects taken from a manager, and the objects taken
\* from those, reach kernel memory only while the manager is whole and its
\* wrapper allocated, and so do the getters of the manager itself: CHECK_VIEW,
\* CHECK_PTR and the INCREF'd owner are enough, because the pointer is cleared
\* under the GIL before the kernel object goes.
GuardedAccessesStayValid == faults \cap {"self", "view"} = {}

\* As long as no manager was closed while one of its methods was running, the
\* calls that release the GIL find a whole kernel object from entry to return:
\* dropping references never takes it from under them.
QuiescentCallsStayValid == ~raced => "call" \notin faults

\* A kernel manager always has somebody who will destroy it: a reference to its
\* open wrapper, or the activation that is creating or destroying it.
NoOrphan ==
    \A m \in Managers :
        kernel[m] \in {"live", "destroying"} =>
            \/ ptr[m] /\ refs[m] # {}
            \/ \E a \in Acts : self[a] = m /\ pc[a] \in {"created", "destroy"}

\* A wrapper whose reference count has reached zero has no open kernel object
\* and no view that still points at it.
FreedWrappersAreUnused ==
    \A m \in Managers :
        refs[m] = {} => ~ptr[m] /\ \A v \in Views : owner[v] # m

\* What the program sees of a manager: the kernel object behind it, and who is
\* inside the kernel to use or to destroy it.
Status(k) ==
    CASE k = "absent" -> "none"
      [] k = "live" -> "open"
      [] k = "destroying" -> "closing"
      [] OTHER -> "closed"

Inside(m, p) == {a \in Acts : self[a] = m /\ pc[a] = p}

Contract == INSTANCE ManagerContract WITH
    status <- [m \in Managers |-> Status(kernel[m])],
    users <- [m \in Managers |-> Inside(m, "kernel")],
    closers <- [m \in Managers |-> Inside(m, "destroy")]

\* The wrappers, their references and the GIL implement the contract: however
\* many threads race to close() a manager, leave its "with" block or drop its
\* last reference, it is destroyed once and for good, and unless a close() met
\* a running method nobody is inside the kernel with it then or later.
ContractSpec == Contract!Spec

\* Whoever waits for the kernel returns to its Python caller, whatever the
\* handlers that the kernel calls meanwhile do: creation, close() and dealloc,
\* because the GIL is free while the kernel creates and destroys, and the calls
\* that release it.
CallsReturn ==
    \A a \in Acts :
        pc[a] \in {"create", "destroy", "call", "import"} ~> pc[a] \in {"py", "idle"}

\* An activation waits for the one that has the GIL, or for a callback that runs
\* on behalf of its kernel call.
WaitsFor(a, b) ==
    \/ /\ gil = b /\ b # a
       /\ pc[a] \in PyStates \cup WaitStates \cup {"ensure"}
    \/ b \in Callbacks /\ parent[b] = a

\* Threads and callbacks never wait for each other in a circle, however deep
\* callbacks call the library again: in any company there is one that waits for
\* none of the others.
NoCircle ==
    \A company \in SUBSET Acts :
        company # {} => \E a \in company : \A b \in company : ~WaitsFor(a, b)

\* What the documentation promises of every entry: "BlockTreeEntry are live
\* views into the manager; they keep it alive, and raise ValueError if you
\* close() it explicitly".  It is to hold of an entry kept from a callback and
\* of one passed to another manager's chain.contains() or read_block() too.
EntriesStayValid == faults \cap {"unowned", "arg"} = {}

\* CHECK_PTR: a method of a closed manager raises "operation on closed object"
\* and so never hands NULL or a dying manager to the kernel.
CallsStayValid == "call" \notin faults
=============================================================================
