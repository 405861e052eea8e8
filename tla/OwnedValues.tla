----------------------------- MODULE OwnedValues -----------------------------
(***************************************************************************)
(* Who owns what a call of the extension makes, also when it fails half-   *)
(* way: constructors, getters that copy a part of another object, tuples of*)
(* parts, to_bytes(), reads from disk, the arguments that trampolines pack *)
(* for a handler, trace frames, and the paths of import_blocks().          *)
(*                                                                         *)
(* All of them make a number of things in a loop (or a straight line) and  *)
(* either hand all of them over or release those made so far.  An object   *)
(* of the model is a wrapper together with the kernel value made for it;   *)
(* a bytes object or a tuple is its own value.  A reference count is the   *)
(* set of its holders: the C frame of a thread, and Var, the program.      *)
(***************************************************************************)
EXTENDS Integers, FiniteSets

CONSTANTS
    Threads,     \* Python threads, and kernel threads that call back
    Objects,     \* wrappers and kernel values alive at the same time
    MaxParts,    \* things one call makes
    InitialCap,  \* the first capacity of a WriteBuf (256 in the code)
    MaxBytes,    \* bytes of one serialization
    Free,        \* nobody holds the GIL
    None,        \* NULL
    Var          \* the references of the program

\* "out" is outside the extension: Python code, or the kernel, which may call
\* back.  "convert" and "handler" are Python code that the extension called.
PythonStates == {"out", "convert", "handler"}
PCs == PythonStates \cup {"write", "make", "wrap", "full", "undo", "call", "called"}

\* "event" stands for the notifications and validation events.
Ops == {"new", "get", "read", "bytes", "import", "event", "trace"}
Callbacks == {"event", "trace"}

ASSUME ConstantsAssumption ==
    /\ Free \notin Threads
    /\ Var \notin Threads
    /\ None \notin Objects \cup Ops
    /\ MaxParts \in Nat \ {0}
    /\ InitialCap \in Nat \ {0}
    /\ MaxBytes \in Nat

VARIABLES
    gil,      \* the thread that holds the GIL, or Free
    pc,       \* where each thread is
    op,       \* the call that it executes
    from,     \* the object the parts are copied from
    goal,     \* how many things the call is to make
    tried,    \* how many it has tried to make
    made,     \* those it has made and still holds
    raw,      \* a kernel value that has no wrapper yet
    alive,    \* the kernel values that exist
    refs,     \* the holders of each wrapper; {}: there is no wrapper
    ptr,      \* the kernel value that each wrapper destroys with itself
    buf,      \* the WriteBuf of each thread
    paths,    \* the length of the list passed to import_blocks()
    shrunk,   \* history: the list was shortened during an import
    overrun   \* history: an item beyond the end of the list was read

callVars == <<op, from, goal>>
valueVars == <<alive, refs, ptr>>
pathVars == <<paths, shrunk, overrun>>
vars == <<gil, pc, callVars, tried, made, raw, valueVars, buf, pathVars>>

NoBuf == [len |-> 0, cap |-> 0, oom |-> FALSE, offered |-> 0]

\* Type correctness: every variable of the model keeps to its type.
TypeOK ==
    /\ gil \in Threads \cup {Free}
    /\ pc \in [Threads -> PCs]
    /\ op \in [Threads -> Ops \cup {None}]
    /\ from \in [Threads -> Objects \cup {None}]
    /\ goal \in [Threads -> 0..MaxParts]
    /\ tried \in [Threads -> 0..MaxParts]
    /\ made \in [Threads -> SUBSET Objects]
    /\ raw \in [Threads -> Objects \cup {None}]
    /\ alive \in SUBSET Objects
    /\ refs \in [Objects -> SUBSET (Threads \cup {Var})]
    /\ ptr \in [Objects -> Objects \cup {None}]
    /\ buf \in [Threads -> [len: 0..MaxBytes, cap: Nat, oom: BOOLEAN,
                            offered: 0..MaxBytes]]
    /\ paths \in 0..MaxParts
    /\ shrunk \in BOOLEAN /\ overrun \in BOOLEAN

Init ==
    /\ gil = Free
    /\ pc = [t \in Threads |-> "out"]
    /\ op = [t \in Threads |-> None]
    /\ from = [t \in Threads |-> None]
    /\ goal = [t \in Threads |-> 0]
    /\ tried = [t \in Threads |-> 0]
    /\ made = [t \in Threads |-> {}]
    /\ raw = [t \in Threads |-> None]
    /\ alive = {}
    /\ refs = [o \in Objects |-> {}]
    /\ ptr = [o \in Objects |-> None]
    /\ buf = [t \in Threads |-> NoBuf]
    /\ paths \in 0..MaxParts
    /\ shrunk = FALSE /\ overrun = FALSE

----------------------------------------------------------------------------
(* The GIL and the Python code around the calls.                           *)

At(t, where) == gil = t /\ pc[t] = where
Goto(t, where) == pc' = [pc EXCEPT ![t] = where]

TakeGil(t) ==
    /\ gil = Free
    /\ pc[t] \in PythonStates
    /\ gil' = t
    /\ UNCHANGED <<pc, callVars, tried, made, raw, valueVars, buf, pathVars>>

YieldGil(t) ==
    /\ gil = t
    /\ pc[t] \in PythonStates
    /\ gil' = Free
    /\ UNCHANGED <<pc, callVars, tried, made, raw, valueVars, buf, pathVars>>

\* The deallocators: a wrapper without references destroys its kernel value.
Deallocated(rs) == {ptr[o] : o \in {w \in Objects : refs[w] # {} /\ rs[w] = {}}}

SetRefs(rs, gone) ==
    /\ refs' = rs
    /\ alive' = alive \ (Deallocated(rs) \cup gone)
    /\ ptr' = [o \in Objects |-> IF rs[o] = {} THEN None ELSE ptr[o]]

\* The program drops its reference to an object.
Drop(t, o) ==
    /\ At(t, "out")
    /\ Var \in refs[o]
    /\ SetRefs([refs EXCEPT ![o] = @ \ {Var}], {})
    /\ UNCHANGED <<gil, pc, callVars, tried, made, raw, buf, pathVars>>

\* A handler keeps one of its arguments.
Keep(t, o) ==
    /\ At(t, "handler")
    /\ o \in made[t]
    /\ refs' = [refs EXCEPT ![o] = @ \cup {Var}]
    /\ UNCHANGED <<gil, pc, callVars, tried, made, raw, alive, ptr, buf, pathVars>>

\* Any Python code, an __fspath__ method included, may change the list.
ChangeList(t) ==
    /\ gil = t
    /\ pc[t] \in PythonStates
    /\ paths' \in 0..MaxParts \ {paths}
    /\ shrunk' = (shrunk \/ (paths' < paths /\ \E u \in Threads : op[u] = "import"))
    /\ UNCHANGED <<gil, pc, callVars, tried, made, raw, valueVars, buf, overrun>>

----------------------------------------------------------------------------
(* A call begins.                                                          *)

Start(t, o, n, where) ==
    /\ op' = [op EXCEPT ![t] = o]
    /\ goal' = [goal EXCEPT ![t] = n]
    /\ tried' = [tried EXCEPT ![t] = 0]
    /\ Goto(t, where)
    /\ UNCHANGED <<made, raw, pathVars>>

\* X(...): the bytes, script or chain type is checked when the call makes it.
New(t) ==
    /\ At(t, "out")
    /\ Start(t, "new", 1, "make")
    /\ UNCHANGED <<gil, from, valueVars, buf>>

\* An object of the program is passed as self; the call's frame keeps it.
WithSelf(t, p) ==
    /\ Var \in refs[p]
    /\ from' = [from EXCEPT ![t] = p]
    /\ refs' = [refs EXCEPT ![p] = @ \cup {t}]
    /\ UNCHANGED <<alive, ptr, buf>>

\* tx.txid, output.script_pubkey, block[i], tx.input(i), ... make one object;
\* tx.inputs and tx.outputs a tuple and its items.
Get(t, p) ==
    /\ At(t, "out")
    /\ WithSelf(t, p)
    /\ \E n \in 1..MaxParts : Start(t, "get", n, "make")
    /\ UNCHANGED gil

\* to_bytes() of a transaction, a block or a script.
ToBytes(t, p) ==
    /\ At(t, "out")
    /\ WithSelf(t, p)
    /\ Start(t, "bytes", 1, "write")
    /\ UNCHANGED gil

\* read_block(), read_block_spent_outputs(): the kernel makes the value while
\* other threads run.
Read(t) ==
    /\ At(t, "out")
    /\ Start(t, "read", 1, "call")
    /\ gil' = Free
    /\ UNCHANGED <<from, valueVars, buf>>

\* import_blocks(paths): the length of the list is read once.
Import(t) ==
    /\ At(t, "out")
    /\ Start(t, "import", paths, "make")
    /\ UNCHANGED <<gil, from, valueVars, buf>>

\* The kernel calls a trampoline with a block, or with a trace frame, that is
\* its own and goes after the callback.  Of the arguments of a handler only the
\* copies are parts: numbers and entries own nothing.  A thread that calls the
\* kernel without the GIL may be called back itself: another thread stands for it.
CallBack(t, o, v) ==
    /\ gil = Free /\ pc[t] = "out"
    /\ v \notin alive /\ refs[v] = {}
    /\ gil' = t
    /\ from' = [from EXCEPT ![t] = v]
    /\ alive' = alive \cup {v}
    /\ \E n \in 0..MaxParts : (n = 0 => o = "event") /\ Start(t, o, n, "make")
    /\ UNCHANGED <<refs, ptr, buf>>

----------------------------------------------------------------------------
(* WriteBuf.                                                               *)

\* The capacity is doubled until the bytes fit.
Grow(cap, need) ==
    LET doubled[c \in Nat] == IF c >= need THEN c ELSE doubled[2 * c]
    IN  doubled[IF cap = 0 THEN InitialCap ELSE cap]

\* writebuf_cb(): realloc() may fail.  The kernel may go on writing all the same.
Write(t, size) ==
    LET b == buf[t]
        need == b.len + size
        offered == [b EXCEPT !.offered = @ + size]
        Stored(cap) == [offered EXCEPT !.len = need, !.cap = cap]
    IN  /\ At(t, "write")
        /\ b.offered + size <= MaxBytes
        /\ \E new \in (IF need <= b.cap
                       THEN {Stored(b.cap)}
                       ELSE {Stored(Grow(b.cap, need)), [offered EXCEPT !.oom = TRUE]}) :
              buf' = [buf EXCEPT ![t] = new]
        /\ UNCHANGED <<gil, pc, callVars, tried, made, raw, valueVars, pathVars>>

\* Mutant: only the kernel's answer is looked at.
FinishWriteByAnswer(t) ==
    /\ At(t, "write")
    /\ \E rc \in {0, 1} : Goto(t, IF rc = 0 THEN "make" ELSE "undo")
    /\ UNCHANGED <<gil, callVars, tried, made, raw, valueVars, buf, pathVars>>

\* The serialization function of the kernel returns.
FinishWrite(t) ==
    /\ At(t, "write")
    /\ \E rc \in {0, 1} :
          Goto(t, IF rc = 0 /\ ~buf[t].oom THEN "make" ELSE "undo")
    /\ UNCHANGED <<gil, callVars, tried, made, raw, valueVars, buf, pathVars>>

----------------------------------------------------------------------------
(* The parts, one after the other.                                         *)

More(t) == At(t, "make") /\ tried[t] < goal[t]
Unused(o) == o \notin alive /\ refs[o] = {}
Tried(t) == tried' = [tried EXCEPT ![t] = @ + 1]

\* The frame of t holds the wrapper o, which destroys the value v.
Hold(t, o, v) ==
    /\ refs' = [refs EXCEPT ![o] = {t}]
    /\ ptr' = [ptr EXCEPT ![o] = v]
    /\ made' = [made EXCEPT ![t] = @ \cup {o}]

\* Mutant: the loop over the parts goes one too far.
CopyOneMore(t) ==
    /\ At(t, "make") /\ tried[t] <= goal[t]
    /\ op[t] \in {"new", "get", "event"}
    /\ \E o \in Objects :
          /\ Unused(o)
          /\ alive' = alive \cup {o}
          /\ raw' = [raw EXCEPT ![t] = o]
    /\ Tried(t)
    /\ Goto(t, "wrap")
    /\ UNCHANGED <<gil, callVars, made, refs, ptr, buf, pathVars>>

\* The kernel creates a value, or copies a part of another one.
Copy(t) ==
    /\ More(t)
    /\ op[t] \in {"new", "get", "event"}
    /\ \E o \in Objects :
          /\ Unused(o)
          /\ alive' = alive \cup {o}
          /\ raw' = [raw EXCEPT ![t] = o]
    /\ Tried(t)
    /\ Goto(t, "wrap")
    /\ UNCHANGED <<gil, callVars, made, refs, ptr, buf, pathVars>>

\* Mutant: a getter wraps the part itself and not a copy of it.
WrapView(t) ==
    /\ At(t, "wrap")
    /\ LET view == IF op[t] = "get" THEN from[t] ELSE raw[t]
       IN  /\ Hold(t, raw[t], view)
           /\ alive' = IF view = raw[t] THEN alive ELSE alive \ {raw[t]}
    /\ raw' = [raw EXCEPT ![t] = None]
    /\ Goto(t, "make")
    /\ UNCHANGED <<gil, callVars, tried, buf, pathVars>>

\* X_wrap(): the wrapper takes the kernel value over.
Wrap(t) ==
    /\ At(t, "wrap")
    /\ Hold(t, raw[t], raw[t])
    /\ raw' = [raw EXCEPT ![t] = None]
    /\ Goto(t, "make")
    /\ UNCHANGED <<gil, callVars, tried, alive, buf, pathVars>>

\* Mutant: without a wrapper the value is forgotten.
WrapFailsLeaks(t) ==
    /\ At(t, "wrap")
    /\ raw' = [raw EXCEPT ![t] = None]
    /\ Goto(t, "undo")
    /\ UNCHANGED <<gil, callVars, tried, made, valueVars, buf, pathVars>>

\* Without memory for the wrapper the value is destroyed.
WrapFails(t) ==
    /\ At(t, "wrap")
    /\ alive' = alive \ {raw[t]}
    /\ raw' = [raw EXCEPT ![t] = None]
    /\ Goto(t, "undo")
    /\ UNCHANGED <<gil, callVars, tried, made, refs, ptr, buf, pathVars>>

\* A bytes object (a stack is a tuple of them) is a value of its own.
HoldBytes(t) ==
    /\ \E o \in Objects :
          /\ Unused(o)
          /\ alive' = alive \cup {o}
          /\ Hold(t, o, o)
    /\ Tried(t)
    /\ UNCHANGED <<gil, callVars, raw, buf, pathVars>>

MakeBytes(t) ==
    /\ More(t)
    /\ op[t] \in {"bytes", "trace"}
    /\ HoldBytes(t)
    /\ UNCHANGED pc

\* A part, the tuple or the arguments of a handler cannot be made.  A trace
\* frame tries the others all the same.
MakeFails(t) ==
    /\ \/ More(t) /\ op[t] \in {"new", "get", "bytes", "event"}
       \/ At(t, "full") /\ op[t] = "event"
    /\ Goto(t, "undo")
    /\ UNCHANGED <<gil, callVars, tried, made, raw, valueVars, buf, pathVars>>

MakeBytesFails(t) ==
    /\ More(t)
    /\ op[t] = "trace"
    /\ Tried(t)
    /\ UNCHANGED <<gil, pc, callVars, made, raw, valueVars, buf, pathVars>>

\* import_blocks() takes the next item of the list, without a look at how long
\* the list is by now, and asks it for its path: Python code may run.
Convert(t) ==
    /\ More(t)
    /\ op[t] = "import"
    /\ overrun' = (overrun \/ tried[t] >= paths)
    /\ Goto(t, "convert")
    /\ UNCHANGED <<gil, callVars, tried, made, raw, valueVars, buf, paths, shrunk>>

Converted(t) ==
    /\ At(t, "convert")
    /\ HoldBytes(t)
    /\ Goto(t, "make")

\* No memory for the arrays, or an item that is no path.
ConvertFails(t) ==
    /\ At(t, "convert") \/ (More(t) /\ op[t] = "import" /\ tried[t] = 0)
    /\ Goto(t, "undo")
    /\ UNCHANGED <<gil, callVars, tried, made, raw, valueVars, buf, pathVars>>

\* All parts were tried: a frame that lacks one is given up, an import lets
\* the kernel read the files.
AllTried(t) ==
    /\ At(t, "make") /\ tried[t] = goal[t]
    /\ LET lacks == op[t] = "trace" /\ Cardinality(made[t]) < goal[t]
       IN  Goto(t, IF lacks THEN "undo"
                   ELSE IF op[t] = "import" THEN "call" ELSE "full")
    /\ gil' = IF op[t] = "import" THEN Free ELSE t
    /\ UNCHANGED <<callVars, tried, made, raw, valueVars, buf, pathVars>>

----------------------------------------------------------------------------
(* The kernel without the GIL, handlers, and the end of a call.            *)

\* btck_block_read(), btck_block_spent_outputs_read(): a value or NULL.
KernelReads(t) ==
    /\ pc[t] = "call" /\ op[t] = "read"
    /\ \/ \E o \in Objects :
             /\ Unused(o)
             /\ alive' = alive \cup {o}
             /\ raw' = [raw EXCEPT ![t] = o]
       \/ UNCHANGED <<alive, raw>>
    /\ Tried(t)
    /\ Goto(t, "called")
    /\ UNCHANGED <<gil, callVars, made, refs, ptr, buf, pathVars>>

KernelImports(t) ==
    /\ pc[t] = "call" /\ op[t] = "import"
    /\ Goto(t, "called")
    /\ UNCHANGED <<gil, callVars, tried, made, raw, valueVars, buf, pathVars>>

\* Py_END_ALLOW_THREADS
Called(t) ==
    /\ pc[t] = "called" /\ gil = Free
    /\ gil' = t
    /\ Goto(t, IF raw[t] # None THEN "wrap" ELSE "undo")
    /\ UNCHANGED <<callVars, tried, made, raw, valueVars, buf, pathVars>>

\* The call returns the objects in "given" and drops what else it holds.  What
\* the kernel lent to a callback goes when the callback has returned.
LeaveCall(t, given) ==
    LET mine == made[t] \cup {from[t]}
        Left(o) == IF o \in mine THEN refs[o] \ {t} ELSE refs[o]
        rs == [o \in Objects |-> Left(o) \cup (IF o \in given THEN {Var} ELSE {})]
    IN  /\ SetRefs(rs, IF op[t] \in Callbacks THEN {from[t]} ELSE {})
        /\ made' = [made EXCEPT ![t] = {}]
        /\ op' = [op EXCEPT ![t] = None]
        /\ from' = [from EXCEPT ![t] = None]
        /\ goal' = [goal EXCEPT ![t] = 0]
        /\ tried' = [tried EXCEPT ![t] = 0]
        /\ buf' = [buf EXCEPT ![t] = NoBuf]
        /\ Goto(t, "out")
        /\ gil' = IF op[t] \in Callbacks THEN Free ELSE t
        /\ UNCHANGED <<raw, pathVars>>

Return(t) ==
    /\ At(t, "full")
    /\ op[t] \notin Callbacks
    /\ LeaveCall(t, made[t])

Undo(t) ==
    /\ At(t, "undo")
    /\ LeaveCall(t, {})

\* call_handler_method(): a handler without such a method is not called.
CallHandler(t) ==
    /\ At(t, "full")
    /\ op[t] \in Callbacks
    /\ Goto(t, "handler")
    /\ UNCHANGED <<gil, callVars, tried, made, raw, valueVars, buf, pathVars>>

\* The handler returns or raises; an exception is reported and swallowed.
HandlerEnds(t) ==
    /\ At(t, "handler")
    /\ Goto(t, "undo")
    /\ UNCHANGED <<gil, callVars, tried, made, raw, valueVars, buf, pathVars>>

Step(t) ==
    \/ TakeGil(t) \/ YieldGil(t) \/ ChangeList(t)
    \/ New(t) \/ Read(t) \/ Import(t)
    \/ \E o \in Objects : Drop(t, o) \/ Keep(t, o) \/ Get(t, o) \/ ToBytes(t, o)
    \/ \E c \in Callbacks, o \in Objects : CallBack(t, c, o)
    \/ \E size \in 1..MaxBytes : Write(t, size)
    \/ FinishWrite(t)
    \/ Copy(t) \/ Wrap(t) \/ WrapFails(t)
    \/ MakeBytes(t) \/ MakeFails(t) \/ MakeBytesFails(t)
    \/ Convert(t) \/ Converted(t) \/ ConvertFails(t) \/ AllTried(t)
    \/ KernelReads(t) \/ KernelImports(t) \/ Called(t)
    \/ Return(t) \/ Undo(t) \/ CallHandler(t) \/ HandlerEnds(t)

Next == \E t \in Threads : Step(t)
Spec == Init /\ [][Next]_vars

----------------------------------------------------------------------------
(* Properties.                                                             *)

\* Nothing leaks, whatever fails: each kernel value belongs to a wrapper, to a
\* frame that is about to wrap it, or to the kernel that lent it; a frame holds
\* only what its call has made and self; and a WriteBuf goes with its call.
NothingLeaks ==
    /\ \A v \in alive : \/ \E o \in Objects : refs[o] # {} /\ ptr[o] = v
                        \/ \E t \in Threads : raw[t] = v
                        \/ \E t \in Threads : op[t] \in Callbacks /\ from[t] = v
    /\ \A o \in Objects, t \in Threads : t \in refs[o] => o \in made[t] \cup {from[t]}
    /\ \A t \in Threads : buf[t] # NoBuf => op[t] = "bytes"

\* Nothing dangles: the value of a wrapper, and the one parts are copied from,
\* exist, whatever other threads and handlers drop meanwhile; no two wrappers
\* destroy the same value, nor one that a frame or the kernel still has; a call
\* holds what it has made; and an import reads beyond the end of its list only
\* if Python code has shortened the list since the import began.
NothingDangles ==
    /\ \A o \in Objects : refs[o] # {} => ptr[o] \in alive
    /\ \A o, q \in Objects :
          refs[o] # {} /\ refs[q] # {} /\ ptr[o] = ptr[q] => o = q
    /\ \A t \in Threads :
          /\ \A v \in {from[t], raw[t]} \ {None} : v \in alive
          /\ raw[t] # None => refs[raw[t]] = {}
          /\ op[t] \in Callbacks => refs[from[t]] = {}
          /\ \A o \in made[t] : t \in refs[o]
    /\ overrun => shrunk

\* What is given to the program, to a handler or to the kernel is whole: all
\* parts were made, and the bytes are all that the kernel has written, in a
\* buffer that is large enough.
AnswersAreWhole ==
    \A t \in Threads :
        /\ pc[t] \in {"full", "handler"} \/ (pc[t] = "call" /\ op[t] = "import")
              => Cardinality(made[t]) = goal[t]
        /\ pc[t] = "full" => buf[t].len = buf[t].offered
        /\ buf[t].len <= buf[t].cap
=============================================================================
