----------------------------- MODULE ScriptTrace -----------------------------
(***************************************************************************)
(* The script trace hook.  The kernel has one global slot for a trace      *)
(* callback.  script_trace() fills it on entry and empties it on exit;     *)
(* while it is filled, every script that any thread evaluates sends a      *)
(* BEGIN frame, STEP frames and an END frame to it.                        *)
(*                                                                         *)
(* verify_script() evaluates with the GIL held, so its frames are          *)
(* delivered at once; but the callback is Python and the GIL may pass to   *)
(* another thread in it.  process_block() evaluates without the GIL: the   *)
(* kernel takes the callback from the slot and then waits for the GIL.     *)
(***************************************************************************)
EXTENDS Naturals, Sequences, FiniteSets, SequencesExt, FrameGroups

CONSTANTS
    Threads,
    Tracers,         \* the activations of script_trace()
    Scripts,         \* the script evaluations
    FramesPerScript, \* BEGIN, the STEPs and END
    Calls,           \* the calls that evaluate scripts: "verify" keeps the GIL,
                     \* "block" gives it up
    Free, None

Frames == Scripts \X (1..FramesPerScript)

ASSUME ConstantsAssumption ==
    /\ FramesPerScript \in Nat /\ FramesPerScript >= 2
    /\ Calls \subseteq {"verify", "block"}
    /\ Free \notin Threads
    /\ None \notin Threads \cup Tracers \cup Scripts \cup (Tracers \X Frames)

VARIABLES
    gil,      \* the thread that holds the GIL, or Free
    slot,     \* the callback in the kernel's slot
    entered,  \* the active contexts, in the order they were entered
    by,       \* the thread that entered each context
    mode,     \* where a thread is: Python, verify_script() or process_block()
    script,   \* the script it is evaluating
    sent,     \* how many of its frames the evaluation has emitted
    pending,  \* the frame a thread is delivering, and to whom
    frames,   \* what each callback has received
    lost,     \* the frames that could not be copied
    due,      \* history: the frames emitted while a context was the innermost
    own,      \* history: the scripts a context's own thread evaluated in it
    mixed     \* history: two contexts overlapped, or a context and an
              \* evaluation of another thread

vars == <<gil, slot, entered, by, mode, script, sent, pending, frames, lost,
          due, own, mixed>>
hook == <<slot, entered, by>>
evaluation == <<mode, script, sent, pending>>
received == <<frames, lost>>
history == <<due, own, mixed>>

Kind(f) == CASE f[2] = 1 -> "BEGIN"
             [] f[2] = FramesPerScript -> "END"
             [] OTHER -> "STEP"

\* Type correctness: every variable of the model keeps to its type.
TypeOK ==
    /\ gil \in Threads \cup {Free}
    /\ slot \in Tracers \cup {None}
    /\ entered \in Seq(Tracers)
    /\ by \in [Tracers -> Threads \cup {None}]
    /\ mode \in [Threads -> {"python", "verify", "block"}]
    /\ script \in [Threads -> Scripts \cup {None}]
    /\ sent \in [Threads -> 0..FramesPerScript]
    /\ pending \in [Threads -> (Tracers \X Frames) \cup {None}]
    /\ frames \in [Tracers -> Seq(Frames)]
    /\ lost \in SUBSET Frames
    /\ due \in [Tracers -> SUBSET Frames]
    /\ own \in [Tracers -> SUBSET Scripts]
    /\ mixed \in BOOLEAN

Init ==
    /\ gil = Free
    /\ slot = None
    /\ entered = <<>>
    /\ by = [c \in Tracers |-> None]
    /\ mode = [t \in Threads |-> "python"]
    /\ script = [t \in Threads |-> None]
    /\ sent = [t \in Threads |-> 0]
    /\ pending = [t \in Threads |-> None]
    /\ frames = [c \in Tracers |-> <<>>]
    /\ lost = {}
    /\ due = [c \in Tracers |-> {}]
    /\ own = [c \in Tracers |-> {}]
    /\ mixed = FALSE

Active == Range(entered)
Running(t) == gil = t /\ mode[t] = "python"
Evaluating == {t \in Threads : script[t] # None}

\* The GIL passes between threads that run Python: between the program's own
\* statements, or inside a callback that verify_script() has made.
AcquireGil(t) ==
    /\ gil = Free /\ mode[t] # "block"
    /\ gil' = t
    /\ UNCHANGED <<hook, evaluation, received, history>>

YieldGil(t) ==
    /\ gil = t
    /\ mode[t] = "verify" => sent[t] > 0 /\ slot # None
    /\ gil' = Free
    /\ UNCHANGED <<hook, evaluation, received, history>>

----------------------------------------------------------------------------
(* script_trace().                                                         *)

\* The contexts t is in.
EnteredBy(t) == {c \in Active : by[c] = t}

\* Entry: the callback replaces whatever the slot holds.
Enter(t, c) ==
    /\ Running(t)
    /\ by[c] = None
    /\ slot' = c
    /\ entered' = Append(entered, c)
    /\ by' = [by EXCEPT ![c] = t]
    /\ mixed' = (mixed \/ entered # <<>> \/ Evaluating # {})
    /\ UNCHANGED <<gil, evaluation, received, due, own>>

\* The context that t entered last is not active any more.
PopContext(t) ==
    \E k \in 1..Len(entered) :
        /\ by[entered[k]] = t
        /\ \A j \in (k + 1)..Len(entered) : by[entered[j]] # t
        /\ entered' = RemoveAt(entered, k)

\* Mutant: the body raises and the callback stays registered.
LeaveWithoutFinally(t) ==
    /\ Running(t)
    /\ PopContext(t)
    /\ \E empty \in BOOLEAN : slot' = IF empty THEN None ELSE slot
    /\ UNCHANGED <<gil, by, evaluation, received, history>>

\* Exit, normal or not: the slot is emptied, whoever filled it.  (What
\* trace_available() does is to enter and leave a context of its own.)
Leave(t) ==
    /\ Running(t)
    /\ PopContext(t)
    /\ slot' = None
    /\ UNCHANGED <<gil, by, evaluation, received, history>>

----------------------------------------------------------------------------
(* Evaluation.                                                             *)

\* Evaluations are told apart: s has left no trace yet.
Fresh(s) ==
    /\ \A t \in Threads : script[t] # s
    /\ \A c \in Tracers : s \notin own[c] /\ \A f \in due[c] : f[1] # s

\* verify_script() keeps the GIL; process_block() gives it up.
Begin(t, s, m) ==
    /\ Running(t)
    /\ Fresh(s)
    /\ mode' = [mode EXCEPT ![t] = m]
    /\ script' = [script EXCEPT ![t] = s]
    /\ sent' = [sent EXCEPT ![t] = 0]
    /\ gil' = IF m = "verify" THEN t ELSE Free
    /\ own' = [c \in Tracers |->
                  IF c \in EnteredBy(t) THEN own[c] \cup {s} ELSE own[c]]
    /\ mixed' = (mixed \/ EnteredBy(t) # Active)
    /\ UNCHANGED <<hook, pending, received, due>>

\* The interpreter emits its next frame: the kernel takes the callback.
Emit(t) ==
    LET f == <<script[t], sent[t] + 1>>
    IN  /\ script[t] # None /\ sent[t] < FramesPerScript
        /\ pending[t] = None
        /\ mode[t] = "verify" => gil = t
        /\ sent' = [sent EXCEPT ![t] = @ + 1]
        /\ pending' = [pending EXCEPT ![t] = IF slot = None THEN None
                                                            ELSE <<slot, f>>]
        /\ due' = IF entered = <<>> THEN due
                  ELSE [due EXCEPT ![Last(entered)] = @ \cup {f}]
        /\ UNCHANGED <<gil, hook, mode, script, received, own, mixed>>

\* The trampoline has the GIL and is done with the frame.
Delivered(t) ==
    /\ pending[t] # None
    /\ gil \in {t, Free}
    /\ pending' = [pending EXCEPT ![t] = None]
    /\ gil' = IF mode[t] = "verify" THEN t ELSE Free
    /\ UNCHANGED <<hook, mode, script, sent, history>>

Receive(c, f) ==
    /\ frames' = [frames EXCEPT ![c] = Append(@, f)]
    /\ UNCHANGED lost

\* Mutant: the frame goes to whichever callback is registered by then.
DeliverToSlot(t) ==
    /\ Delivered(t)
    /\ IF slot = None THEN UNCHANGED received ELSE Receive(slot, pending[t][2])

\* Mutant: the trampoline does not wait for a GIL that another thread holds.
DeliverOrSkip(t) ==
    \/ Delivered(t) /\ Receive(pending[t][1], pending[t][2])
    \/ /\ pending[t] # None
       /\ gil \notin {t, Free}
       /\ pending' = [pending EXCEPT ![t] = None]
       /\ UNCHANGED <<gil, hook, mode, script, sent, received, history>>

\* Mutant: the callback is run although the frame could not be copied.
DeliverNull(t) ==
    /\ Delivered(t)
    /\ \E f \in {pending[t][2], None} : Receive(pending[t][1], f)

\* Mutant: END frames, which carry no opcode, are skipped.
DeliverUnlessEnd(t) ==
    /\ Delivered(t)
    /\ IF Kind(pending[t][2]) = "END" THEN UNCHANGED received
                                     ELSE Receive(pending[t][1], pending[t][2])

\* script_trace_cb(): with the GIL, the frame is copied and the callback run.
\* A frame that cannot be copied is reported and skipped.
Deliver(t) ==
    /\ Delivered(t)
    /\ \/ Receive(pending[t][1], pending[t][2])
       \/ /\ lost' = lost \cup {pending[t][2]}
          /\ UNCHANGED frames

Return(t) ==
    /\ script[t] # None /\ sent[t] = FramesPerScript /\ pending[t] = None
    /\ gil = IF mode[t] = "verify" THEN t ELSE Free
    /\ gil' = t
    /\ mode' = [mode EXCEPT ![t] = "python"]
    /\ script' = [script EXCEPT ![t] = None]
    /\ UNCHANGED <<hook, sent, pending, received, history>>

Next ==
    \E t \in Threads :
        \/ AcquireGil(t)
        \/ YieldGil(t)
        \/ \E c \in Tracers : Enter(t, c)
        \/ Leave(t)
        \/ \E s \in Scripts, m \in Calls : Begin(t, s, m)
        \/ Emit(t)
        \/ Deliver(t)
        \/ Return(t)

Spec == Init /\ [][Next]_vars

----------------------------------------------------------------------------
\* The slot never keeps the callback of a context that has been left, on
\* whatever path and in whatever order contexts are entered and left.
LeftCallbacksAreGone == slot # None => slot \in Active

\* What a callback receives of one script is an unbroken run of its frames, in
\* order: a stream may start or stop in the middle of a script, but no frame is
\* missing in between (other than one that could not be copied).
StreamsHaveNoGaps ==
    \A c \in Tracers : \A j, k \in DOMAIN frames[c] :
        LET f == frames[c][j]
            g == frames[c][k]
        IN  j < k /\ f[1] = g[1] =>
                /\ f[2] < g[2]
                /\ \A n \in f[2]..g[2] : <<f[1], n>> \in Range(frames[c]) \cup lost

\* A callback only receives frames that were emitted while its context was the
\* innermost one, however late the GIL was there to deliver them.
FramesWereDue == \A c \in Tracers : Range(frames[c]) \subseteq due[c]

\* script_trace() runs its callback "for *every* script evaluated while the
\* context is active", and of several contexts "only the innermost (most recently
\* registered) callback fires": every frame emitted while a context is the
\* innermost active one reaches its callback.
InnermostFires ==
    \A c \in Tracers :
        due[c] \subseteq Range(frames[c]) \cup lost \cup
            {pending[t][2] : t \in {u \in Threads : pending[u] # None}}

Left == {c \in Tracers : by[c] # None /\ c \notin Active}

\* debug_script() returns every frame the interpreter emitted for it: once a
\* context has been left, its callback has all frames of the scripts its own
\* thread evaluated in it, other than those that could not be copied.  (Two
\* threads in debug_script() at once take each other's frames.)
DebugScriptIsComplete ==
    ~mixed =>
        \A c \in Left :
            own[c] \X (1..FramesPerScript) \subseteq Range(frames[c]) \cup lost

\* The executions of a trace are the scripts that ran: every group of frames
\* ScriptTrace.executions makes of what a callback received holds the frames of
\* one script, from BEGIN to END.
ExecutionsAreScripts ==
    ~mixed /\ lost = {} =>
        \A c \in Left :
            LET fs == frames[c]
                kinds == [j \in DOMAIN fs |-> Kind(fs[j])]
            IN  \A g \in Executions(kinds) :
                    \E s \in own[c] :
                        {fs[j] : j \in g} = {s} \X (1..FramesPerScript)
=============================================================================
