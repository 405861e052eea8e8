# pybitcoinkernel in TLA+

`pybitcoinkernel` makes Bitcoin Core's libbitcoinkernel available to Python. It is
one C extension (`src/_bitcoinkernel.c`), a thin package
(`src/pybitcoinkernel/__init__.py`) and a script debugger in Python
(`src/pybitcoinkernel/debugger.py`). The kernel is a submodule that is not part of
this repository: it is modelled as far as the extension's calls and comments show
what it does, and those definitions are marked external in `PROJECT.json`.

Consensus is the kernel's business. What can go wrong here is the border: memory
of the kernel that Python objects point at, Python objects that the kernel calls,
and the GIL, which the extension releases around long calls and takes in
callbacks. Most of the modules are about that border.

## The parts of the system

| Part | State | Operations | What is hard | Correct when |
| --- | --- | --- | --- | --- |
| Chainstate manager (`ChainstateManagerObject`) | `ptr`, `context`, reference count | creation, `close()`, `with`, dealloc, getters, `process_block`, `process_block_header`, `import_blocks`, `read_block`, `read_block_spent_outputs` | creation, destruction and the long calls release the GIL; callbacks run inside | the kernel object is destroyed once, and used only while it is whole |
| Views (`Chain`, `BlockTreeEntry`) | `ptr`, `owner` | accessors, `chain[i]`, `tip()`, `prev`, `contains()`, comparison | they point into the manager; entries from callbacks have no owner | they never reach freed memory |
| Contexts, options, handlers | kernel objects, `context` fields, registrations | create, set handlers, drop, in any order and thread | the kernel refers to contexts and handlers without counting references | what the kernel refers to is alive, and nothing leaks |
| Active chain | none of its own: the kernel's chain moves | `height`, `len()`, `chain[i]`, `tip()`, `in`, loops | one operation is several kernel calls and the tip moves between them, also to a lower chain: the kernel chooses by work | an answer is right for some moment of the call |
| Containers (`Block`, spent outputs, `Transaction`) | immutable | subscripts, loops, `input()`, `output()` | indices pass through CPython's sequence protocol; the kernel asserts on bad ones | every element by its index, no other reaches the kernel (the index arithmetic is not modelled) |
| Kernel values and what is made of them (primitive values, tuples of parts, `to_bytes()`, arguments of handlers, trace frames, paths of `import_blocks()`) | wrapper and kernel value, reference count, `WriteBuf` | constructors, getters that copy a part, deallocators, reads from disk, trampolines | every allocation may fail in the middle of a loop; the kernel grows a buffer through a callback; a list may change while Python code converts its items | a value has exactly one destroyer at every moment, and no half-made thing is handed out |
| Verification | immutable | `ScriptPubkey.verify`, `PrecomputedTransactionData`, `verify_transaction`, `debug_transaction` | the kernel aborts on arguments that do not fit; C widths; any input of a loop may raise | no abort, and verdicts of all inputs with their outputs, or an exception |
| Script trace hook | one global callback slot in the kernel | `script_trace()`, `trace_available()`, `debug_script()`, the trampoline | the slot is shared by all contexts and threads; frames wait for the GIL | callbacks get the frames they should, in order |
| Trace model | a list of frames | `executions`, `error` | streams may start or stop anywhere | no frame is lost, the error is the first |
| Logging | connections in the kernel's logger, its lock | `LoggingConnection`, `close()`, dealloc, `log_cb`, `logging_*` | the logger calls Python with its lock held | callbacks alive when called, silent when closed, nobody stuck |
| Chain parameters, option setters, enumerations, `load_chainstate`, `disassemble()`, formatting, comparisons and hashes | immutable or none | pass-through | little | not modelled |

The parts interact as follows. `load_chainstate()` chains context options,
context, manager options and manager. A context takes its handlers from its
options; a manager holds its context; views hold their manager. The kernel calls
handlers, log callbacks and trace callbacks in the thread that called it or in one
of its own, through trampolines that take the GIL. `debug_script()` fills the
trace slot around `verify_script()` and hands the frames to `ScriptTrace`, and
`debug_transaction()` does so for each input.

## Modules

| Module | Models | State and actions against the code |
| --- | --- | --- |
| `ChainstateManager` | managers, views, calls in flight, callbacks | `ptr`, `kernel` (the object behind it), `refs` (the set of holders stands for the count), `owner`/`origin` of views, a `pc` per Python thread and callback thread. `CloseImpl` is `ChainstateManager_close_impl`, `Decref` with it is dealloc, `EnterKernel` reads `self->ptr` again without the GIL as the C code does. A use of dead memory is recorded in `faults`, and in `raced` that a `close()` began while a method of its manager was running. |
| `ManagerContract` | what a manager promises its users | abstract: `status`, `users` and `closers` of each kernel manager, `raced`. `ChainstateManager` implements it with `status` computed from `kernel`, and `users` and `closers` from the frames inside the kernel or in its destruction (`ContractSpec`) |
| `ContextLifetime` | options, contexts, managers, handlers | a set of holders per wrapper and handler; a registration is one INCREF, shared by options and the contexts made of them; creation and destruction leave the GIL in the middle |
| `ScriptTrace`, with `FrameGroups` | the trace hook | `slot`, the contexts entered, an evaluation per thread that keeps (`verify_script`) or gives up (`process_block`) the GIL; a frame is taken for a callback in `Emit` and delivered in `Deliver` when the GIL is there; `mixed` records that contexts overlapped, or a context and another thread's evaluation |
| `ScriptExecutions`, with `FrameGroups` | `ScriptTrace.executions` and `.error` | one `NextFrame` per turn of the loop; `FrameGroups` says without a loop what it should compute and is its abstract specification |
| `AtomicChain` | what the live chain promises its users | abstract: the chain moves on its own; an operation, or a turn of a loop, is one step that answers as one call into the kernel would. `ActiveChain` implements it (`AtomicSpec`) |
| `ActiveChain` | the live chain | a block is its path from genesis, the chain the path to its tip; each kernel call is a step and `ActivateBestChain` may come between any two. It takes any chain with more work, a lower one too; `Work` is any function that grows with every block |
| `TransactionVerification` | `verify`, precomputed data, the two loops over inputs | arguments as unbounded Python ints that `Verify` reduces to C widths; verdicts of the kernel chosen beforehand; one step per kernel call and per check before it, each with its errors: no memory (`Precompute`, `KernelPrecompute`, `FetchCoin`), no precomputed data (`KernelPrecompute`), no tracing (`RegisterTrace`), flags refused (`KernelRefuses`). `failed` records memory and the kernel, whose failures say nothing of the arguments |
| `LoggerContract` | what a connection promises | abstract: each connection is made, connected and gone, its callback held, and messages have connections they have still to reach. `Logging` implements it (`ContractSpec`) |
| `Logging` | connections, the log callback, settings | the GIL and the logger's lock as owners, a `pc` per thread; states that keep the GIL while they wait for the lock (`GilKept`) are those in which the C code does |
| `OwnedValues` | everything a call makes and hands over or undoes | an object is a wrapper with the kernel value made for it; `pc` goes through the stages that all such calls share: make a value, `wrap` it, `full` when all are there, `undo` when one fails; for trampolines then `call` the `handler` and release; `convert` is Python code that the conversion of paths runs. `op` says which call it is, `made` and `raw` what the frame holds, `buf` the `WriteBuf` |

The modules that end in `Proofs` extend the module they are named after and hold
its theorems; see Proofs below.

`MC...` modules add the symmetry sets, for `ScriptExecutions` a bounded
initial predicate, and for `ActiveChain` the work of chains and a constraint. The other modules are run as they are. Definitions that begin
with `\* Mutant:` are plausible bugs, put in the place of the definition below
them to see that a property notices; nothing else refers to them.

A reference count is a set of holders everywhere, so that "the count reaches zero"
is "the set is empty" and a borrowed reference is a missing holder. Memory is
never freed in a model: a use of an object that is gone is a fault, or a state
that an invariant rejects.

## Runs

| Run | Instance | Shows |
| --- | --- | --- |
| `manager` | 2 threads, 1 kernel callback thread, 1 manager, 2 views (36,917 states) | the manager implements `ManagerContract`; views with an owner and guarded getters never meet a dead kernel manager, none is orphaned, wrappers are freed last, threads and callbacks never wait for each other in a circle (`NoCircle`), and creation, calls, `close()` and dealloc return |
| `stale_entries`, `calls_race_close` | the same with 2 managers | two violations, see below |
| `context_lifetime` | 2 threads, 1 of each option, 2 contexts, 1 manager, 1 handler, 3 registrations | what the kernel refers to is alive; handlers and contexts are released; wrappers match kernel objects |
| `script_trace` | 2 threads, 2 contexts, 2 evaluations of 3 frames, frames may be lost (556,410 states) | left callbacks are gone, streams have no gaps, no frame is delivered to a context it is not for; and while contexts and evaluations are not mixed, a trace is complete and its executions are the scripts that ran |
| `nested_trace` | 1 thread, 2 contexts, 2 calls of `verify()` | one violation, see below |
| `script_executions` | every stream of up to 5 frames, 3 error codes | the loop computes `Executions` in order, each with its BEGIN and END, and `error` is the first error |
| `active_chain` | a tree of 2 branches per block, of work 1 and 4, 3 high; the chain moves at most twice during an operation (100,792 states) | the view implements `AtomicChain`: what it answers is right for one moment of the call; `tip()` answers for a height that was the tip's, and raises `KernelError` only where that height is gone; loops yield an unbroken line, across growth, reorganisations and moves to lower chains |
| `verification` | up to 3 inputs, 2-bit unsigned int, 3-bit unsigned long, ints from -9 to 9, 2 of 4 flag values with taproot and 2 refused, of which one is both (489,726 states) | no abort; `verify_transaction()` and `debug_transaction()` conjoin the verdicts of all inputs; a verdict exactly when the arguments fit together and nothing fails, and otherwise the error that says what was wrong, also when that happens in the middle of a loop |
| `logging` | 2 threads, 2 connections, of which one exists | connections implement `LoggerContract` (no message is cut by a connection that comes or goes, callbacks are alive when called and silent when closed), each has one owner, callbacks are released, `close()` and dealloc return, and where threads wait for each other in a circle one of them keeps the GIL in front of the logger (`CirclesKeepTheGil`, which speaks of the calls of this module: a kernel call of another component that logs with the GIL held is not modelled) |
| `logging_creation` | 2 threads, 2 connections | one violation, see below |
| `values` | 2 threads, 5 objects, up to 2 parts, buffers that start at 1 byte and serializations of up to 5 (113,822 states) | whatever fails, no value leaks, is destroyed twice or used after its destruction, and tuples, frames, argument lists and bytes are complete when they are handed out |

Why these bounds: a race needs two threads, and a third party only where the
kernel calls back on a thread of its own (the callback thread). In `logging` one
thread logs while the other creates, configures, closes or drops, or both do the
latter. Two views make it possible to derive one from another and drop the first.
A manager shares nothing with another but the GIL, and a step changes the state of
one, so the run that checks refinement and liveness has one; two are only needed
to pass an entry of one to the other, which the violation runs allow, and the
theorems hold for any number. Three registrations are needed for a handler in two
slots and one that replaces the other. Three frames are BEGIN, STEP and END; five
frames hold every pattern of two executions with stray frames. A chain three high
has room for a subscript, a growth and a reorganisation; two branches are a
reorganisation, and as one block of work 4 outweighs three of work 1, also one to
a lower chain (a change of difficulty is what makes that possible). Two
moves put one into each gap between the three kernel calls of a negative
subscript, and two into the one gap of `tip()`. In `values` five objects are two frames with two parts each and
the object that both copy from; a buffer that starts at 1 and doubles reaches 5
bytes in several growths, or in one when a large piece comes. The scaled widths
keep the relations of the real ones: more inputs than a check can mistake, flags
outside the known ones, and ints beyond both ends of both C types.

`CHECK_DEADLOCK FALSE` is set where a program really ends (one call per behaviour,
a chain at `MaxHeight`, a stream that has been split) and in `logging`, where
threads that create connections can lock each other out, which is what
`logging_creation` shows.

### Fairness

Two runs have a fair specification; the others assume no fairness.

`manager` assumes that a thread or callback that runs Python gives the GIL up
again and again (`WF` of `YieldGil`: CPython's switch interval and its request
flag see to that), that one that waits for the GIL gets it in the end although
others take it too, that the kernel finishes what it has been asked to do once the
callbacks it waits for have returned, and that an import in progress ends (`SF` of
`TakeGil` or `KernelStep`, and of `LeaveImport`). A callback, once it is there,
enters its handler or returns, and handlers return (`SF` of `HandlerReturn`: they
can only do so in the moments in which they hold the GIL). It does not assume that
a program calls `close()`, nor that the kernel calls back.

`logging` assumes the same of the GIL and of callbacks, that the logger's lock is
given to every thread that waits for it, and that a frame that has nothing to wait
for goes on (`WF` of `Return`, `ReleaseCallback` and the two outcomes of a
creation). A thread may log for ever, so the rest is strong fairness, which a
mutex gives in practice and not by contract. `ClosesReturn` lets a close wait for
ever only behind a thread that keeps the GIL in front of the logger, which is the
deadlock that `logging_creation` shows.

## What does not hold

| Run | Disagreement |
| --- | --- |
| `stale_entries` | entries handed to handlers have no owner: kept, they outlive their manager unchecked; nor do `contains()` and `read_block()` check whether the entry's own manager is open |
| `calls_race_close` | a GIL-releasing method checks `self->ptr` under the GIL and reads it again without it |
| `logging_creation` | creating a connection keeps the GIL while it waits for the logger |
| `nested_trace` | leaving an inner `script_trace()` empties the kernel's one slot, so the outer one, which is still active, gets no more frames; `trace_available()` does the same |

`logging_creation` rests on the kernel calling log callbacks with the lock held
that it takes to add a connection. The extension counts on that lock elsewhere: it
releases the callback as soon as the connection is removed, which is only safe if
no thread is still in it, and it gives up the GIL for the removal.

Other promises hold with a condition, which the property states:
`DebugScriptIsComplete` and `ExecutionsAreScripts` while contexts and evaluations
are not mixed (two threads in `debug_script()` take the one slot from each other);
`TipsAreCurrent` instead of "was the tip": `tip()` is two kernel calls, and after a
reorganisation between them it gives an entry that need not have been a tip, or
raises `KernelError` if the new chain, with more work, is lower (`chain[-1]` then
raises `IndexError`);
`AtomicSpec` for `tip()` and a negative index while the chain leaves no branch, and
from -len up (CPython corrects a negative index and the slot corrects it again, so
`chain[-len - 1]` is the tip and no `IndexError`; containers do the same);
`KernelNeverAborts` for the index that C receives (a Python int beyond an unsigned
int is reduced modulo its size first); `NothingDangles` reads no path beyond the
end of the list as long as no `__fspath__` method of an item shortens it, because
`import_blocks()` takes the length once; `ManagerContract` keeps callers of the kernel
out of a closing manager as long as no `close()` meets a method of it.

Three theorems say where the disagreements end. `QuiescentCallsStayValidCorrect`: without
such a `close()` no call meets a dead manager. `EntriesStayValidOtherwise`: with one
manager and no handlers no entry of a dead one is used. `InnermostFiresUnlessMixed`:
contexts that do not overlap receive every frame.

## Proofs

TLAPS checks theorems in eight modules, for every value of the constants: any
number of threads, objects, connections, frames or blocks, and integers of any
width. Every invariant, action property and refinement of the passing runs is a theorem;
their two liveness properties are not. Each proof has an inductive
invariant `IInv`, three steps (it holds initially, every step keeps it, it implies
the property), and one step per action below the second. The only assumptions are
the named `ASSUME`s of the modules, which say that the names of different kinds of
things differ, that bounds are natural numbers, in `ActiveChain` that every block adds
work, and in `TransactionVerification` that the widths are in the order that C has
them; TLC evaluates them in the runs.

| Module | Proved | What `IInv` adds, and why |
| --- | --- | --- |
| `ChainstateManagerProofs` | the invariants of `manager`; that a kernel manager is destroyed once and never comes back; that `ChainstateManager` implements `ManagerContract`; that calls are safe without a race; that entries are where they come from their own manager; that nobody waits in a circle | that no view meets a dead manager depends on who holds which reference: an open wrapper has a live kernel object and a holder (`OpenInv`), a view's owner counts it and is the manager it points into (`ViewInv`), which frames hold what, and one that creates or destroys is alone (`FrameInv`), a live kernel object is open or in the hands of one frame (`KernelInv`), calls in flight keep their manager open until a `close()` races one (`QuiescentInv`). One lemma for giving up a reference serves `close()`, dealloc and every return. `NoCircle` has an invariant of its own (`WaitInv`): who has the GIL runs Python, who waits for a callback is in the kernel without the GIL, and callbacks nest, so that of any who wait, the innermost callback waits for nobody among them |
| `ContextLifetimeProofs` | all five properties; that ends are final (`EndsAreFinal`: what was freed or given back is never referenced, called or given back again) | who owes a context holds it (`ContextInv`), each registration owns one reference of its handler (`RegsInv`), frames and kernel objects match (`FrameInv`, `KernelInv`). A deallocator drops references that run further deallocators, so the invariant is an operator of the state and of a set of wrappers that are dead but not freed, and the lemmas follow one reference through it; those of `EndsAreFinal` follow it in the same way (`Follows`) |
| `ScriptTraceProofs` | all six properties; that contexts which do not overlap receive every frame | the slot holds the context entered last (`SlotInv`); what a context has of one script is a run of frames that reaches the newest one while it is in the slot (`StreamInv`); without mixing, the one active context is in the slot, all evaluations are its thread's and its trace is a series of whole scripts (`AloneInv`, `WholeInv`, `BlockInv`). A lemma shows that such a series has the scripts as its executions |
| `ScriptExecutionsProofs` | all four properties, for streams of any length | what `current` means (`OpenInv`), that groups hold seen frames (`SeenInv`), that groups and starts correspond (`StartsInv`) and that a first failure exists (`ErrorInv`) |
| `ActiveChainProofs` | the three invariants, for chains of any height; that `ActiveChain` implements `AtomicChain` | the chain gets more work with every change, so of the chains since an operation began the active one has the most (`SeenInv`); it may be lower than a height that was in range, unless nothing was reorganised: then all of them are prefixes of it and the same blocks stay below every height (`ItemInv`, `TipInv`, `LoopInv`, `AnswerInv`) |
| `TransactionVerificationProofs` | all four properties, for any size and width | outputs that have been counted are one per input (`SpentInv`), the kernel gets known flags and an index in range (`CallInv`), a loop has the verdicts of all inputs before the current one (`LoopInv`), and what a call has checked fits, what it has refused does not, and until it is over nothing has failed (`ExactInv`) |
| `LoggingProofs` | the invariants of `logging`; that `Logging` implements `LoggerContract`; that a circle of waiting threads has one that keeps the GIL in front of the logger | a message is given to callbacks under the logger's lock (`LockInv`), frames that make or destroy a connection are alone with it (`BusyInv`), whose connections the logger has (`RegisteredInv`), what frames hold (`RefsInv`), and that what is closed stays so (`ClosedInv`). For circles, who has the GIL runs or keeps it (`GilInv`): each thread waits for the GIL or the lock, so one in the circle has the GIL and waits, which, of the calls of `Logging`, only those in front of the logger do |
| `OwnedValuesProofs` | all four properties | every kernel value is the value of one wrapper, in the hands of one frame, or lent by the kernel (`WrapperInv`, `RawInv`, `LentInv`, `OwnedInv`), and frames hold what they made (`HeldInv`). The GIL does not occur: ownership does not depend on it. That answers are whole needs how many parts a frame has (`Count`), what the buffer has stored (`Stored`, `WholeInv`), and that doubling reaches every size |

Only model-checked are the liveness properties `CallsReturn` and `ClosesReturn`: the
prover knows no ENABLED, which fairness is made of. What they say about states is
proved: `NoCircle` (threads and callbacks of `manager` never wait for each other in a circle) and `CirclesKeepTheGil` (in `logging`, of the calls it models, only creation and settings can
complete a circle). The four violations are counterexamples of TLC.

Induction over the naturals, which the library states for an operator as a parameter
and the provers cannot instantiate, is avoided where a proof would want it: a set of
naturals that is not empty has a least element, and the counterexamples to a claim are
a set (in `OwnedValuesProofs`, for the doubling buffer).

## What is not modelled

- What the kernel computes: validation, storage, script evaluation. Its answers
  are chosen freely, within what the extension lets it do.
- Which methods of a handler are called with which arguments, and the exceptions
  that handlers raise (reported and swallowed).
- Getters of numbers, hashes and comparisons of values that never change, chain
  parameters, option setters, `interrupt()`, enumerations, `load_chainstate()`. They pass arguments on
  and keep no state.
- The index arithmetic of containers (who owns the copies they hand out is in
  `OwnedValues`). Their hazard, that a negative index is corrected by CPython and
  then again by the slot, is in `ActiveChain`, over a chain that changes; over
  immutable containers tests of every index reach it.
- `disassemble()`, a loop over immutable bytes that input and output tests reach, and
  wording: opcode names, descriptions, `classify_script()`, `format()`.
- Python finalizers that the garbage collector runs during an allocation: Python code
  runs in the models where the extension calls it or gives up the GIL.
- The kernel's own locks, where no comment or call of the extension shows them:
  whether options may be changed while a context reads them, what protects the
  trace slot, and who frees a callback that the kernel refuses.
- Handlers that refer to their own manager, and log callbacks that close their own
  connection (a thread that waits for a lock it holds).
- Precomputed data of another transaction than the one verified, and what the
  parsing of arguments refuses in front of the checks of `TransactionVerification`
  (another type for `tx_to`, an amount beyond 64 bits, no sequence of outputs).
- Kernel calls outside `Logging` that log while their caller keeps the GIL.
- The build, examples, scripts and tests.

## Plan

Done: managers and their contract, contexts, the trace hook and its executions,
the active chain, verification, logging, ownership of values; contracts of managers, the chain and the
logger; theorems about each.

What is left, in this order:

1. A contract for the trace slot, in the way of `LoggerContract`: the frames due to a
   context and when they come, for `ScriptTrace` to implement.
2. A list of connections for log callbacks that log or close connections
   themselves, once the locking of the logger they meet is known.
3. `disassemble()` and `classify_script()` as pure functions against the encoding of
   opcodes and the templates they name.
