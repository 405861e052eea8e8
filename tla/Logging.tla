------------------------------- MODULE Logging -------------------------------
(***************************************************************************)
(* LoggingConnection: Python callables that receive the kernel's log, the  *)
(* GIL and the lock of the kernel's logger.                                *)
(*                                                                         *)
(* The kernel's logger calls the callbacks with its lock held and takes    *)
(* the same lock to add and remove them.  The extension relies on that: it *)
(* releases a callback as soon as its connection is removed.  So a thread  *)
(* that logs holds the lock and waits for the GIL.                         *)
(***************************************************************************)
EXTENDS FiniteSets

CONSTANTS
    Threads,       \* Python threads
    Connections,   \* LoggingConnection objects
    Open,          \* those that exist in the beginning
    Ops,           \* what the program does besides using its connections
    Nobody

ASSUME ConstantsAssumption ==
    /\ Nobody \notin Threads \cup Connections
    /\ "var" \notin Threads
    /\ Open \subseteq Connections
    /\ Ops \subseteq {"create", "configure"}

VARIABLES
    gil,         \* the thread that holds the GIL, or Nobody
    lock,        \* the thread that holds the logger's lock, or Nobody
    pc,          \* where each thread is
    conn,        \* the connection it works on
    rest,        \* the connections a message has still to be given to
    refs,        \* who holds a wrapper: "var" the program, or a thread in close()
    ptr,         \* the wrappers whose ptr is not NULL
    registered,  \* the connections the logger calls
    callback,    \* the connections that hold a reference to their callback
    used,        \* the connections that have been created, or tried
    closed       \* history: those of which a close() that closed it returned

vars == <<gil, lock, pc, conn, rest, refs, ptr, registered, callback, used, closed>>

\* These have the GIL and keep it while they wait for the lock.
GilKept == {"create", "created", "undo", "configure"}
\* These wait for the GIL, or have it and run.
GilWanted == {"python", "log_cb", "unref", "return"}
PCs == GilKept \cup GilWanted \cup {"kernel", "destroy"}

\* Type correctness: every variable of the model keeps to its type.
TypeOK ==
    /\ gil \in Threads \cup {Nobody} /\ lock \in Threads \cup {Nobody}
    /\ pc \in [Threads -> PCs]
    /\ conn \in [Threads -> Connections \cup {Nobody}]
    /\ rest \in [Threads -> SUBSET Connections]
    /\ refs \in [Connections -> SUBSET (Threads \cup {"var"})]
    /\ {ptr, registered, callback, used, closed} \subseteq SUBSET Connections
    /\ \A t \in Threads : pc[t] \in GilKept => gil = t

Init ==
    /\ gil = Nobody /\ lock = Nobody
    /\ pc = [t \in Threads |-> "python"]
    /\ conn = [t \in Threads |-> Nobody]
    /\ rest = [t \in Threads |-> {}]
    /\ refs = [c \in Connections |-> IF c \in Open THEN {"var"} ELSE {}]
    /\ ptr = Open /\ registered = Open /\ callback = Open /\ used = Open
    /\ closed = {}

Goto(t, where) == pc' = [pc EXCEPT ![t] = where]
objects == <<refs, ptr, registered, callback, used, closed>>

----------------------------------------------------------------------------
(* The GIL and calls into the kernel that log.                             *)

AcquireGil(t) ==
    /\ gil = Nobody /\ pc[t] \in GilWanted
    /\ gil' = t
    /\ UNCHANGED <<lock, pc, conn, rest, objects>>

\* The interpreter's switch interval, in a log callback too.
YieldGil(t) ==
    /\ gil = t /\ pc[t] \in {"python", "log_cb"}
    /\ gil' = Nobody
    /\ UNCHANGED <<lock, pc, conn, rest, objects>>

\* A call that releases the GIL: process_block(), ChainstateManager(), ...
CallKernel(t) ==
    /\ gil = t /\ pc[t] = "python"
    /\ Goto(t, "kernel") /\ gil' = Nobody
    /\ UNCHANGED <<lock, conn, rest, objects>>

KernelReturn(t) ==
    /\ pc[t] = "kernel"
    /\ Goto(t, "return")
    /\ UNCHANGED <<gil, lock, conn, rest, objects>>

\* The kernel logs a message: each connection is called under the lock.
Log(t) ==
    /\ pc[t] = "kernel" /\ lock = Nobody
    /\ \E c \in registered :
          /\ conn' = [conn EXCEPT ![t] = c]
          /\ rest' = [rest EXCEPT ![t] = registered \ {c}]
    /\ lock' = t
    /\ Goto(t, "log_cb")
    /\ UNCHANGED <<gil, objects>>

\* log_cb() has called the callback, whose exceptions are only reported.
LogCbReturn(t) ==
    /\ gil = t /\ pc[t] = "log_cb"
    /\ gil' = Nobody
    /\ \/ /\ rest[t] = {}
          /\ lock' = Nobody
          /\ conn' = [conn EXCEPT ![t] = Nobody]
          /\ Goto(t, "kernel")
          /\ UNCHANGED rest
       \/ \E c \in rest[t] :
          /\ conn' = [conn EXCEPT ![t] = c]
          /\ rest' = [rest EXCEPT ![t] = @ \ {c}]
          /\ UNCHANGED <<lock, pc>>
    /\ UNCHANGED objects

----------------------------------------------------------------------------
(* Creation, all of it with the GIL held.                                  *)

\* LoggingConnection_new() up to the call.
Create(t, c) ==
    /\ "create" \in Ops /\ gil = t /\ pc[t] = "python" /\ c \notin used
    /\ used' = used \cup {c}
    /\ callback' = callback \cup {c}
    /\ conn' = [conn EXCEPT ![t] = c]
    /\ Goto(t, "create")
    /\ UNCHANGED <<gil, lock, rest, refs, ptr, registered, closed>>

KernelCreate(t) ==
    /\ pc[t] = "create" /\ lock = Nobody
    /\ registered' = registered \cup {conn[t]}
    /\ Goto(t, "created")
    /\ UNCHANGED <<gil, lock, conn, rest, refs, ptr, callback, used, closed>>

\* The kernel makes no connection and the reference is given back.
CreateFails(t) ==
    /\ pc[t] = "create"
    /\ callback' = callback \ {conn[t]}
    /\ conn' = [conn EXCEPT ![t] = Nobody]
    /\ Goto(t, "python")
    /\ UNCHANGED <<gil, lock, rest, refs, ptr, registered, used, closed>>

\* The wrapper is made.
CreateReturn(t) ==
    /\ pc[t] = "created"
    /\ ptr' = ptr \cup {conn[t]}
    /\ refs' = [refs EXCEPT ![conn[t]] = {"var"}]
    /\ conn' = [conn EXCEPT ![t] = Nobody]
    /\ Goto(t, "python")
    /\ UNCHANGED <<gil, lock, rest, registered, callback, used, closed>>

\* Mutant: the GIL is given up for it and not taken back.
AllocFailsUnlocked(t) ==
    /\ pc[t] = "created"
    /\ Goto(t, "undo") /\ gil' = Nobody
    /\ UNCHANGED <<lock, conn, rest, objects>>

\* tp_alloc() fails and the connection is destroyed, with the GIL held.
AllocFails(t) ==
    /\ pc[t] = "created"
    /\ Goto(t, "undo")
    /\ UNCHANGED <<gil, lock, conn, rest, objects>>

\* pyobject_destroy_cb() runs inside: this thread already has the GIL.
UndoCreate(t) ==
    /\ pc[t] = "undo" /\ lock = Nobody
    /\ registered' = registered \ {conn[t]}
    /\ callback' = callback \ {conn[t]}
    /\ conn' = [conn EXCEPT ![t] = Nobody]
    /\ Goto(t, "python")
    /\ UNCHANGED <<gil, lock, rest, refs, ptr, used, closed>>

\* logging_set_options(), logging_set_level_category() and their likes enter
\* the logger with the GIL held and wait there for its lock.
Configure(t) ==
    /\ "configure" \in Ops /\ gil = t /\ pc[t] = "python"
    /\ Goto(t, "configure")
    /\ UNCHANGED <<gil, lock, conn, rest, objects>>

ConfigureReturn(t) ==
    /\ pc[t] = "configure" /\ lock = Nobody
    /\ Goto(t, "python")
    /\ UNCHANGED <<gil, lock, conn, rest, objects>>

----------------------------------------------------------------------------
(* Destruction, without the GIL.                                           *)

Running(t) == gil = t /\ pc[t] = "python"

\* Mutant: the connection is destroyed with the GIL held.
DestroyUnderGil(t, c) ==
    /\ ptr' = ptr \ {c}
    /\ conn' = [conn EXCEPT ![t] = c]
    /\ Goto(t, "destroy") /\ gil' = t
    /\ UNCHANGED <<lock, rest, registered, callback, used, closed>>

\* Mutant: ptr is cleared when the kernel has returned.
DestroyClearsLate(t, c) ==
    /\ conn' = [conn EXCEPT ![t] = c]
    /\ Goto(t, "destroy") /\ gil' = Nobody
    /\ UNCHANGED <<lock, rest, ptr, registered, callback, used, closed>>

\* Mutant: the pointer is cleared and the kernel is not called.
DestroyForgotten(t, c) ==
    /\ ptr' = ptr \ {c}
    /\ conn' = [conn EXCEPT ![t] = c]
    /\ Goto(t, "return") /\ gil' = Nobody
    /\ UNCHANGED <<lock, rest, registered, callback, used, closed>>

\* The pointer is cleared, then the GIL is released for the kernel.
Destroy(t, c) ==
    /\ ptr' = ptr \ {c}
    /\ conn' = [conn EXCEPT ![t] = c]
    /\ Goto(t, "destroy") /\ gil' = Nobody
    /\ UNCHANGED <<lock, rest, registered, callback, used, closed>>

\* close(): the caller's frame holds the wrapper.  Of a closed connection it
\* does nothing.
Close(t, c) ==
    /\ Running(t)
    /\ refs[c] # {} /\ c \in ptr
    /\ refs' = [refs EXCEPT ![c] = @ \cup {t}]
    /\ Destroy(t, c)

\* The program drops its reference.
DropReference(t, c) ==
    /\ Running(t)
    /\ "var" \in refs[c]
    /\ refs' = [refs EXCEPT ![c] = @ \ {"var"}]
    /\ \/ /\ refs[c] = {"var"} /\ c \in ptr     \* LoggingConnection_dealloc()
          /\ Destroy(t, c)
       \/ /\ refs[c] # {"var"} \/ c \notin ptr
          /\ UNCHANGED <<gil, lock, pc, conn, rest, ptr, registered, callback,
                         used, closed>>

KernelDestroy(t) ==
    /\ pc[t] = "destroy" /\ lock = Nobody
    /\ registered' = registered \ {conn[t]}
    /\ Goto(t, "unref")
    /\ UNCHANGED <<gil, lock, conn, rest, refs, ptr, callback, used, closed>>

\* Mutant: it does nothing.
ReleaseCallbackNever(t) ==
    /\ gil = t /\ pc[t] = "unref"
    /\ Goto(t, "return") /\ gil' = Nobody
    /\ UNCHANGED <<lock, conn, rest, objects>>

\* pyobject_destroy_cb().
ReleaseCallback(t) ==
    /\ gil = t /\ pc[t] = "unref"
    /\ callback' = callback \ {conn[t]}
    /\ Goto(t, "return") /\ gil' = Nobody
    /\ UNCHANGED <<lock, conn, rest, refs, ptr, registered, used, closed>>

\* Py_END_ALLOW_THREADS: back to Python from a kernel call, close() or dealloc.
\* close() gives its reference back.
Return(t) ==
    /\ gil = t /\ pc[t] = "return"
    /\ Goto(t, "python")
    /\ refs' = [c \in Connections |-> refs[c] \ {t}]
    /\ closed' = closed \cup {c \in Connections : t \in refs[c]}
    /\ conn' = [conn EXCEPT ![t] = Nobody]
    /\ UNCHANGED <<gil, lock, rest, ptr, registered, callback, used>>

----------------------------------------------------------------------------
Step(t) ==
    \/ AcquireGil(t) \/ YieldGil(t)
    \/ CallKernel(t) \/ KernelReturn(t) \/ Log(t) \/ LogCbReturn(t)
    \/ KernelCreate(t) \/ CreateFails(t) \/ CreateReturn(t)
    \/ AllocFails(t) \/ UndoCreate(t)
    \/ Configure(t) \/ ConfigureReturn(t)
    \/ KernelDestroy(t) \/ ReleaseCallback(t) \/ Return(t)
    \/ \E c \in Connections : Create(t, c) \/ Close(t, c) \/ DropReference(t, c)

Next == \E t \in Threads : Step(t)
Spec == Init /\ [][Next]_vars

\* What ends once the logger's lock is there.
LeaveLogger(t) ==
    KernelCreate(t) \/ CreateFails(t) \/ UndoCreate(t) \/ ConfigureReturn(t)
        \/ KernelDestroy(t)

\* The interpreter gives the GIL to every thread that waits for it, a running
\* thread gives it up, callbacks and kernel calls return, and the logger's lock
\* is given to every thread that waits for it.
Fairness ==
    \A t \in Threads :
        /\ SF_vars(AcquireGil(t)) /\ SF_vars(YieldGil(t))
        /\ SF_vars(LogCbReturn(t)) /\ SF_vars(LeaveLogger(t))
        /\ WF_vars(CreateReturn(t) \/ AllocFails(t))
        /\ WF_vars(ReleaseCallback(t)) /\ WF_vars(Return(t))

FairSpec == Spec /\ Fairness

----------------------------------------------------------------------------
\* The logger calls, or is about to call, only callbacks that are alive: a
\* connection that another thread closes meanwhile keeps its reference until
\* the logger has let go of it.
CallbacksStayAlive ==
    \A t \in Threads : pc[t] = "log_cb" => conn[t] \in callback /\ rest[t] \subseteq callback

\* What a connection has come to: it is the logger's, or it was.
Life(c) ==
    IF c \in registered THEN "connected"
    ELSE IF c \in used /\ ~ \E t \in Threads : pc[t] = "create" /\ conn[t] = c THEN "gone"
    ELSE "none"

\* Those that a message has still to reach.
Pending(t) == IF pc[t] = "log_cb" THEN {conn[t]} \cup rest[t] ELSE {}

Contract == INSTANCE LoggerContract
    WITH life <- [c \in Connections |-> Life(c)],
         held <- callback,
         pending <- [t \in Threads |-> Pending(t)]

\* Every message reaches every connection once, none is made or removed in the
\* middle of one, callbacks are held as long as that and let go once, and after
\* close() all is over: Logging implements LoggerContract.
ContractSpec == Contract!Spec

\* "Stop logging and destroy the connection": after close() has returned the
\* callback gets no message, not even one that was being logged.
ClosedConnectionsAreSilent ==
    \A t \in Threads :
        pc[t] = "log_cb" => conn[t] \notin closed /\ rest[t] \cap closed = {}

\* Every connection of the logger is destroyed once and by somebody: it has an
\* open wrapper that is referenced, or a thread that is making or destroying it,
\* and never both.
ConnectionsHaveOneOwner ==
    \A c \in Connections :
        LET busy == {t \in Threads : conn[t] = c /\ pc[t] \in {"created", "destroy", "undo"}}
        IN  IF c \in registered
              THEN \/ c \in ptr /\ refs[c] # {} /\ busy = {}
                   \/ c \notin ptr /\ Cardinality(busy) = 1
              ELSE c \notin ptr /\ busy = {}

\* No callback is leaked: a reference that the extension took is the logger's,
\* or a thread is taking it or giving it back.
CallbacksAreReleased ==
    \A c \in callback :
        \/ c \in registered
        \/ \E t \in Threads : conn[t] = c /\ pc[t] \in {"create", "unref"}

\* "Callbacks may arrive from kernel worker threads; ... ordinary Python code
\* just works": no thread keeps the GIL while it waits for the lock of a thread
\* that waits for the GIL.
OrdinaryCodeWorks ==
    \A t \in Threads, u \in Threads :
        ~ /\ lock = t /\ pc[t] = "log_cb"
          /\ gil = u /\ pc[u] \in {"create", "undo", "configure"}

\* A thread waits for another that has the GIL, or the lock of the logger; one
\* inside a kernel call may want to log.
InLogger == {"create", "undo", "configure"}
WaitsFor(t, u) ==
    /\ u # t
    /\ \/ gil = u /\ pc[t] \in GilWanted
       \/ lock = u /\ pc[t] \in InLogger \cup {"destroy", "kernel"}

\* Whenever threads wait for each other in a circle, one of them is in front of
\* the logger with the GIL in its hands.  Of the calls of this module, making
\* connections and changing the settings are the only ones that can lock a program
\* up, never close(), dealloc or a callback.  (A call of another component that
\* has the kernel log while it keeps the GIL would be in front of the logger too.)
CirclesKeepTheGil ==
    \A circle \in SUBSET Threads :
        circle # {} /\ (\A t \in circle : \E u \in circle : WaitsFor(t, u))
            => \E t \in circle : gil = t /\ pc[t] \in InLogger

\* close() and dealloc return, however much is logged meanwhile: the GIL is free
\* while they wait for the logger's lock.  Only another thread that keeps the
\* GIL in front of the logger can stop them.
ClosesReturn ==
    \A t \in Threads :
        pc[t] \in {"destroy", "unref", "undo"} ~> pc[t] = "python" \/ ~OrdinaryCodeWorks
=============================================================================
