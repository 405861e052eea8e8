--------------------------- MODULE ContextLifetime ---------------------------
(***************************************************************************)
(* Who keeps whom alive between Python and the kernel: ContextOptions,     *)
(* Context, ChainstateManagerOptions and ChainstateManager wrappers, the   *)
(* kernel objects behind them, and the Python handlers the kernel calls.   *)
(*                                                                         *)
(* The kernel refers to memory it does not own: options and managers use   *)
(* the kernel context they were made with, and a kernel context uses the   *)
(* handlers registered in the options it was made from.  Only Python       *)
(* reference counts keep those alive.  A count is modelled by the set of   *)
(* its holders: Var (the program's own references), a thread's frame,      *)
(* a wrapper's `context` field, or a registration.                         *)
(***************************************************************************)
EXTENDS FiniteSets

CONSTANTS
    Threads,     \* Python threads
    CtxOptions,  \* ContextOptions wrappers
    Contexts,    \* Context wrappers
    MgrOptions,  \* ChainstateManagerOptions wrappers
    Managers,    \* ChainstateManager wrappers
    Handlers,    \* Python handler objects
    Regs,        \* registrations of a handler, one INCREF each
    Slots,       \* the notification and the validation interface
    Free,        \* nobody holds the GIL
    None,        \* NULL
    Var          \* the program's own references

Wrappers == CtxOptions \cup Contexts \cup MgrOptions \cup Managers
Options == CtxOptions \cup MgrOptions    \* destroyed with the GIL held
Built == Contexts \cup Managers          \* created and destroyed without it
SlotHolders == CtxOptions \cup Contexts
ContextUsers == MgrOptions \cup Managers
Holders == Threads \cup Wrappers \cup Regs \cup {Var}

ASSUME ConstantsAssumption ==
    /\ Free \notin Threads
    /\ None \notin Wrappers \cup Regs \cup Handlers
    /\ Var \notin Threads \cup Wrappers \cup Regs
    /\ Threads \cap Wrappers = {} /\ Threads \cap Regs = {}
    /\ Wrappers \cap Regs = {} /\ Wrappers \cap Handlers = {}
    /\ CtxOptions \cap (Contexts \cup MgrOptions \cup Managers) = {}
    /\ Contexts \cap (MgrOptions \cup Managers) = {}
    /\ MgrOptions \cap Managers = {}

VARIABLES
    gil,        \* the thread that holds the GIL, or Free
    pc,         \* where each thread is
    obj,        \* the object a thread is creating or destroying
    src,        \* the options a thread's frame holds while creating
    refs,       \* the holders of each wrapper and handler
    kernel,     \* the kernel object behind each wrapper
    slots,      \* the registrations a kernel options or context object holds
    handlerOf,  \* the handler of each registration
    context     \* the context whose kernel object a kernel object uses

vars == <<gil, pc, obj, src, refs, kernel, slots, handlerOf, context>>

\* "new" and "free": inside the kernel, without the GIL.  "made", "failed" and
\* "freed": on the way back, waiting for it.
PCs == {"py", "new", "made", "failed", "free", "freed"}

\* Type correctness: every variable of the model keeps to its type.
TypeOK ==
    /\ gil \in Threads \cup {Free}
    /\ pc \in [Threads -> PCs]
    /\ obj \in [Threads -> Wrappers \cup {None}]
    /\ src \in [Threads -> Options \cup {None}]
    /\ refs \in [Wrappers \cup Handlers -> SUBSET Holders]
    /\ kernel \in [Wrappers -> {"absent", "live", "destroying", "gone"}]
    /\ slots \in [SlotHolders -> [Slots -> Regs \cup {None}]]
    /\ handlerOf \in [Regs -> Handlers \cup {None}]
    /\ context \in [ContextUsers -> Contexts \cup {None}]

NoSlots == [s \in Slots |-> None]

Init ==
    /\ gil = Free
    /\ pc = [t \in Threads |-> "py"]
    /\ obj = [t \in Threads |-> None]
    /\ src = [t \in Threads |-> None]
    /\ refs = [o \in Wrappers \cup Handlers |->
                  IF o \in Handlers THEN {Var} ELSE {}]
    /\ kernel = [w \in Wrappers |-> "absent"]
    /\ slots = [o \in SlotHolders |-> NoSlots]
    /\ handlerOf = [r \in Regs |-> None]
    /\ context = [w \in ContextUsers |-> None]

Running(t) == gil = t /\ pc[t] = "py"

AcquireGil(t) ==
    /\ gil = Free /\ pc[t] = "py"
    /\ gil' = t
    /\ UNCHANGED <<pc, obj, src, refs, kernel, slots, handlerOf, context>>

YieldGil(t) ==
    /\ Running(t)
    /\ gil' = Free
    /\ UNCHANGED <<pc, obj, src, refs, kernel, slots, handlerOf, context>>

----------------------------------------------------------------------------
(* Registrations.                                                          *)

\* The kernel objects that share registration r.
Sharers(sl, r) == {o \in SlotHolders : \E s \in Slots : sl[o][s] = r}

\* Mutant: nothing destroys the user data.
DestroyUnsharedNever(rs, sl) == rs

\* pyobject_destroy_cb(): the kernel destroys the user data of the
\* registrations that no kernel object shares any longer, which drops the
\* references they hold.
DestroyUnshared(rs, sl) ==
    [o \in Wrappers \cup Handlers |->
        rs[o] \ {r \in Regs : handlerOf[r] = o /\ Sharers(sl, r) = {}}]

\* Mutant: the handler is handed over without an INCREF.
SetHandlerBorrowed(t, o, s, h, r) ==
    /\ Running(t)
    /\ Var \in refs[o] /\ Var \in refs[h]
    /\ handlerOf[r] = None
    /\ handlerOf' = [handlerOf EXCEPT ![r] = h]
    /\ slots' = [slots EXCEPT ![o][s] = r]
    /\ refs' = DestroyUnshared(refs, slots')
    /\ UNCHANGED <<gil, pc, obj, src, kernel, context>>

\* set_notifications(), set_validation_interface(): the handler is INCREFed
\* and handed to the kernel, which lets go of the registration it replaces.
SetHandler(t, o, s, h, r) ==
    /\ Running(t)
    /\ Var \in refs[o] /\ Var \in refs[h]
    /\ handlerOf[r] = None
    /\ handlerOf' = [handlerOf EXCEPT ![r] = h]
    /\ slots' = [slots EXCEPT ![o][s] = r]
    /\ refs' = DestroyUnshared([refs EXCEPT ![h] = @ \cup {r}], slots')
    /\ UNCHANGED <<gil, pc, obj, src, kernel, context>>

\* The program drops its own reference to a handler.
DropHandler(t, h) ==
    /\ Running(t)
    /\ Var \in refs[h]
    /\ refs' = [refs EXCEPT ![h] = @ \ {Var}]
    /\ UNCHANGED <<gil, pc, obj, src, kernel, slots, handlerOf, context>>

----------------------------------------------------------------------------
(* Deallocation.                                                           *)

\* The thread is back in Python with the GIL; rs are the references and ks the
\* kernel objects that are left.
Continue(t, rs, ks) ==
    /\ gil' = t
    /\ pc' = [pc EXCEPT ![t] = "py"]
    /\ obj' = [obj EXCEPT ![t] = None]
    /\ src' = [src EXCEPT ![t] = None]
    /\ refs' = rs
    /\ kernel' = ks

\* Context_dealloc() and ChainstateManager_close_impl(): ptr is cleared and the
\* kernel object destroyed without the GIL.
BeginDestroy(t, rs, ks, w) ==
    /\ gil' = Free
    /\ pc' = [pc EXCEPT ![t] = "free"]
    /\ obj' = [obj EXCEPT ![t] = w]
    /\ src' = [src EXCEPT ![t] = None]
    /\ refs' = rs
    /\ kernel' = [ks EXCEPT ![w] = "destroying"]

\* Py_XDECREF(self->context) in the deallocators of w.
DecrefContext(t, rs, ks, w) ==
    LET c == context[w]
        left == [rs EXCEPT ![c] = @ \ {w}]
    IN  IF left[c] = {} THEN BeginDestroy(t, left, ks, c)
                        ELSE Continue(t, left, ks)

\* ContextOptions_dealloc(): the kernel options go, with the registrations no
\* context shares.
FreeCtxOptions(t, rs, o) ==
    /\ slots' = [slots EXCEPT ![o] = NoSlots]
    /\ Continue(t, DestroyUnshared(rs, slots'), [kernel EXCEPT ![o] = "gone"])

\* ChainstateManagerOptions_dealloc(): the kernel options, then the context.
FreeMgrOptions(t, rs, m) ==
    /\ DecrefContext(t, rs, [kernel EXCEPT ![m] = "gone"], m)
    /\ UNCHANGED slots

\* ChainstateManager_dealloc(): an open manager is closed first (FreeReturn
\* goes on from there); then the context goes.
FreeManager(t, rs, g) ==
    /\ IF kernel[g] = "live" THEN BeginDestroy(t, rs, kernel, g)
                             ELSE DecrefContext(t, rs, kernel, g)
    /\ UNCHANGED slots

\* A holder of w has let go, which leaves rs: the last one frees the wrapper.
Decref(t, rs, w) ==
    \/ /\ rs[w] # {}
       /\ Continue(t, rs, kernel) /\ UNCHANGED slots
    \/ rs[w] = {} /\ w \in CtxOptions /\ FreeCtxOptions(t, rs, w)
    \/ rs[w] = {} /\ w \in MgrOptions /\ FreeMgrOptions(t, rs, w)
    \/ /\ rs[w] = {} /\ w \in Contexts
       /\ BeginDestroy(t, rs, kernel, w) /\ UNCHANGED slots
    \/ rs[w] = {} /\ w \in Managers /\ FreeManager(t, rs, w)

\* The program drops its reference to a wrapper.
DropWrapper(t, w) ==
    /\ Running(t)
    /\ Var \in refs[w]
    /\ Decref(t, [refs EXCEPT ![w] = @ \ {Var}], w)
    /\ UNCHANGED <<handlerOf, context>>

\* ChainstateManager_close(): the frame holds the wrapper meanwhile.
Close(t, g) ==
    /\ Running(t)
    /\ Var \in refs[g]
    /\ kernel[g] = "live"
    /\ BeginDestroy(t, [refs EXCEPT ![g] = @ \cup {t}], kernel, g)
    /\ UNCHANGED <<slots, handlerOf, context>>

\* A kernel context that is being destroyed lets go of one of its
\* registrations; pyobject_destroy_cb() takes the GIL.
ReleaseRegistration(t, s) ==
    LET c == obj[t]
    IN  /\ pc[t] = "free"
        /\ c \in Contexts /\ slots[c][s] # None
        /\ gil = Free
        /\ slots' = [slots EXCEPT ![c][s] = None]
        /\ refs' = DestroyUnshared(refs, slots')
        /\ UNCHANGED <<gil, pc, obj, src, kernel, handlerOf, context>>

\* The kernel has destroyed the object.
KernelDestroyed(t) ==
    LET w == obj[t]
    IN  /\ pc[t] = "free"
        /\ w \in Contexts => slots[w] = NoSlots
        /\ kernel' = [kernel EXCEPT ![w] = "gone"]
        /\ pc' = [pc EXCEPT ![t] = "freed"]
        /\ UNCHANGED <<gil, obj, src, refs, slots, handlerOf, context>>

\* The GIL is back.  A deallocated manager lets go of its context; close() and
\* a failed ChainstateManager_new() let go of what their frame holds.
FreeReturn(t) ==
    LET w == obj[t]
    IN  /\ pc[t] = "freed"
        /\ gil = Free
        /\ \/ /\ src[t] # None
              /\ Decref(t, [refs EXCEPT ![src[t]] = @ \ {t}], src[t])
           \/ /\ src[t] = None /\ w \in Contexts
              /\ Continue(t, refs, kernel) /\ UNCHANGED slots
           \/ /\ src[t] = None /\ w \in Managers
              /\ Decref(t, [refs EXCEPT ![w] = @ \ {t}], w)
        /\ UNCHANGED <<handlerOf, context>>

----------------------------------------------------------------------------
(* Creation.                                                               *)

\* ContextOptions_new(); when tp_alloc fails the kernel options are destroyed.
NewCtxOptions(t, o) ==
    /\ Running(t)
    /\ kernel[o] = "absent"
    /\ \/ /\ kernel' = [kernel EXCEPT ![o] = "live"]
          /\ refs' = [refs EXCEPT ![o] = {Var}]
       \/ /\ kernel' = [kernel EXCEPT ![o] = "gone"]
          /\ UNCHANGED refs
    /\ UNCHANGED <<gil, pc, obj, src, slots, handlerOf, context>>

\* ChainstateManagerOptions_new(): the wrapper INCREFs the context its kernel
\* options refer to.
NewMgrOptions(t, m, c) ==
    /\ Running(t)
    /\ kernel[m] = "absent" /\ Var \in refs[c]
    /\ \/ /\ kernel' = [kernel EXCEPT ![m] = "live"]
          /\ refs' = [refs EXCEPT ![m] = {Var}, ![c] = @ \cup {m}]
          /\ context' = [context EXCEPT ![m] = c]
       \/ /\ kernel' = [kernel EXCEPT ![m] = "gone"]
          /\ UNCHANGED <<refs, context>>
    /\ UNCHANGED <<gil, pc, obj, src, slots, handlerOf>>

\* Context_new() and ChainstateManager_new() up to the call into the kernel;
\* the caller's argument keeps the options alive.
BeginCreate(t, w, o) ==
    /\ Running(t)
    /\ kernel[w] = "absent"
    /\ \A u \in Threads : obj[u] # w
    /\ gil' = Free
    /\ pc' = [pc EXCEPT ![t] = "new"]
    /\ obj' = [obj EXCEPT ![t] = w]
    /\ src' = [src EXCEPT ![t] = o]
    /\ refs' = [x \in Wrappers \cup Handlers |->
                   IF x = o THEN refs[x] \cup {t} ELSE refs[x]]
    /\ UNCHANGED <<kernel, slots, handlerOf, context>>

NewContext(t, c, o) ==
    /\ o # None => Var \in refs[o]
    /\ BeginCreate(t, c, o)

NewManager(t, g, m) ==
    /\ Var \in refs[m]
    /\ BeginCreate(t, g, m)

\* Mutant: the manager is given its options for a context.
KernelCreatedFromOptions(t) ==
    /\ pc[t] = "new"
    /\ pc' = [pc EXCEPT ![t] = "made"]
    /\ kernel' = [kernel EXCEPT ![obj[t]] = "live"]
    /\ context' = [w \in ContextUsers |->
                      IF w = obj[t] THEN src[t] ELSE context[w]]
    /\ UNCHANGED <<gil, obj, src, refs, slots, handlerOf>>

\* The kernel reads the options and makes the object: a context shares their
\* registrations, a manager uses their context.
KernelCreated(t) ==
    LET w == obj[t]
        o == src[t]
    IN  /\ pc[t] = "new"
        /\ pc' = [pc EXCEPT ![t] = "made"]
        /\ kernel' = [kernel EXCEPT ![w] = "live"]
        /\ \/ /\ w \in Contexts /\ o = None
              /\ UNCHANGED <<slots, context>>
           \/ /\ w \in Contexts /\ o # None
              /\ slots' = [slots EXCEPT ![w] = slots[o]]
              /\ UNCHANGED context
           \/ /\ w \in Managers
              /\ context' = [context EXCEPT ![w] = context[o]]
              /\ UNCHANGED slots
        /\ UNCHANGED <<gil, obj, src, refs, handlerOf>>

KernelFailed(t) ==
    /\ pc[t] = "new"
    /\ pc' = [pc EXCEPT ![t] = "failed"]
    /\ UNCHANGED <<gil, obj, src, refs, kernel, slots, handlerOf, context>>

\* The frame lets go of the options it was given, which leaves rs.
ReturnFrom(t, rs) ==
    IF src[t] = None
      THEN Continue(t, rs, kernel) /\ UNCHANGED slots
      ELSE Decref(t, [rs EXCEPT ![src[t]] = @ \ {t}], src[t])

CreateFailed(t) ==
    /\ pc[t] = "failed" /\ gil = Free
    /\ ReturnFrom(t, refs)
    /\ UNCHANGED <<handlerOf, context>>

\* Context_new(): the wrapper is allocated.
ContextCreated(t) ==
    /\ pc[t] = "made" /\ obj[t] \in Contexts /\ gil = Free
    /\ ReturnFrom(t, [refs EXCEPT ![obj[t]] = {Var}])
    /\ UNCHANGED <<handlerOf, context>>

\* Mutant: the wrapper relies on its options to hold the context.
ManagerCreatedBorrowed(t) ==
    /\ pc[t] = "made" /\ obj[t] \in Managers /\ gil = Free
    /\ ReturnFrom(t, [refs EXCEPT ![obj[t]] = {Var}])
    /\ UNCHANGED <<handlerOf, context>>

\* ChainstateManager_new(): the wrapper is allocated and INCREFs the context of
\* its options.
ManagerCreated(t) ==
    /\ pc[t] = "made" /\ obj[t] \in Managers /\ gil = Free
    /\ ReturnFrom(t, [refs EXCEPT ![obj[t]] = {Var},
                                  ![context[obj[t]]] = @ \cup {obj[t]}])
    /\ UNCHANGED <<handlerOf, context>>

\* Mutant: the kernel context is not destroyed when tp_alloc fails.
ContextAllocFailsLeaks(t) ==
    /\ pc[t] = "made" /\ obj[t] \in Contexts /\ gil = Free
    /\ ReturnFrom(t, refs)
    /\ UNCHANGED <<handlerOf, context>>

\* Context_new(): tp_alloc fails, the kernel context is destroyed with the GIL
\* held (its registrations are shared with the options, which the frame holds).
ContextAllocFails(t) ==
    LET c == obj[t]
    IN  /\ pc[t] = "made" /\ c \in Contexts /\ gil = Free
        /\ LET sl == [slots EXCEPT ![c] = NoSlots]
               ks == [kernel EXCEPT ![c] = "gone"]
               rs == DestroyUnshared(refs, sl)
               o == src[t]
               left == IF o = None THEN rs ELSE [rs EXCEPT ![o] = @ \ {t}]
           IN  IF o # None /\ left[o] = {}
                 THEN /\ slots' = [sl EXCEPT ![o] = NoSlots]
                      /\ Continue(t, DestroyUnshared(left, slots'),
                                     [ks EXCEPT ![o] = "gone"])
                 ELSE /\ slots' = sl
                      /\ Continue(t, left, ks)
        /\ UNCHANGED <<handlerOf, context>>

\* ChainstateManager_new(): tp_alloc fails, the kernel manager is destroyed
\* without the GIL while the frame still holds the options.
ManagerAllocFails(t) ==
    /\ pc[t] = "made" /\ obj[t] \in Managers /\ gil = Free
    /\ pc' = [pc EXCEPT ![t] = "free"]
    /\ kernel' = [kernel EXCEPT ![obj[t]] = "destroying"]
    /\ UNCHANGED <<gil, obj, src, refs, slots, handlerOf, context>>

----------------------------------------------------------------------------
Step(t) ==
    \/ AcquireGil(t)
    \/ YieldGil(t)
    \/ \E o \in CtxOptions, s \in Slots, h \in Handlers, r \in Regs :
          SetHandler(t, o, s, h, r)
    \/ \E h \in Handlers : DropHandler(t, h)
    \/ \E w \in Wrappers : DropWrapper(t, w)
    \/ \E g \in Managers : Close(t, g)
    \/ \E s \in Slots : ReleaseRegistration(t, s)
    \/ KernelDestroyed(t)
    \/ FreeReturn(t)
    \/ \E o \in CtxOptions : NewCtxOptions(t, o)
    \/ \E m \in MgrOptions, c \in Contexts : NewMgrOptions(t, m, c)
    \/ \E c \in Contexts, o \in CtxOptions \cup {None} : NewContext(t, c, o)
    \/ \E g \in Managers, m \in MgrOptions : NewManager(t, g, m)
    \/ KernelCreated(t)
    \/ KernelFailed(t)
    \/ CreateFailed(t)
    \/ ContextCreated(t)
    \/ ManagerCreated(t)
    \/ ContextAllocFails(t)
    \/ ManagerAllocFails(t)

Next == \E t \in Threads : Step(t)

Spec == Init /\ [][Next]_vars

----------------------------------------------------------------------------
InUse(w) == kernel[w] \in {"live", "destroying"}

\* A kernel context is whole as long as any kernel options or manager made with
\* it exist, while a manager is being destroyed included: wrappers INCREF the
\* context and drop it only after the kernel object that uses it has gone.
ContextOutlivesItsUsers ==
    \A w \in ContextUsers : InUse(w) => kernel[context[w]] = "live"

\* Every handler the kernel may still call is alive: each registration that a
\* kernel options or context object holds still owns its reference.
HandlersStayAlive ==
    \A o \in SlotHolders, s \in Slots :
        LET r == slots[o][s] IN r # None => r \in refs[handlerOf[r]]

\* Neither handlers nor contexts leak.  A registration that owns a reference is
\* held by a kernel object that has not gone, whose end will release it.  What
\* holds a wrapper is a thread that is using it, or the `context` field of a
\* wrapper that is itself referenced or being freed.
ReferencesAreReleased ==
    /\ \A h \in Handlers : \A r \in Regs \cap refs[h] :
          \E o \in Sharers(slots, r) : InUse(o)
    /\ \A w \in Wrappers :
          /\ \A t \in Threads \cap refs[w] : w \in {obj[t], src[t]}
          /\ \A u \in ContextUsers \cap refs[w] :
                refs[u] # {} \/ \E t \in Threads : obj[t] = u

\* No kernel object leaks or is destroyed under a wrapper in use: it is live
\* exactly while its wrapper is referenced or a thread is creating it
\* (a closed manager's wrapper may stay referenced).
WrappersMatchTheKernel ==
    \A w \in Wrappers :
        /\ kernel[w] = "live" =>
              refs[w] # {} \/ \E t \in Threads : obj[t] = w /\ pc[t] = "made"
        /\ refs[w] # {} /\ w \notin Managers => kernel[w] = "live"
        /\ kernel[w] = "destroying" =>
              \E t \in Threads : obj[t] = w /\ pc[t] = "free"

\* The last reference to a wrapper has gone, and the registration r has been
\* given back by the kernel.
Freed(w) ==
    /\ kernel[w] # "absent" /\ refs[w] = {}
    /\ ~ \E t \in Threads : obj[t] = w /\ pc[t] = "made"
Released(r) == handlerOf[r] # None /\ r \notin refs[handlerOf[r]]

\* Ends are final.  What a deallocator has begun to destroy is never live
\* again, memory that was freed never gets a new reference, and user data that
\* pyobject_destroy_cb() has let go of is in no kernel object again, so that it
\* is neither called nor let go of a second time.
EndsAreFinal ==
    [][/\ \A w \in Wrappers :
            /\ kernel[w] = "gone" => kernel'[w] = "gone"
            /\ kernel[w] = "destroying" => kernel'[w] \in {"destroying", "gone"}
            /\ Freed(w) => refs'[w] = {}
       /\ \A h \in Handlers : refs[h] = {} => refs'[h] = {}
       /\ \A r \in Regs : Released(r) => Released(r)' /\ Sharers(slots', r) = {}]_vars
=============================================================================
