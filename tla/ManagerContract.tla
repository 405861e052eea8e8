--------------------------- MODULE ManagerContract ---------------------------
(***************************************************************************)
(* What ChainstateManager promises of the kernel objects it stands for,    *)
(* whatever wrappers, views, variables, frames and callbacks refer to them *)
(* and whoever holds the GIL:                                              *)
(*                                                                         *)
(*   - each is opened at most once, or fails to open, and is closed at most*)
(*     once, by one closer, after which it never opens again;              *)
(*   - it is used only while it is open, and closing begins only when      *)
(*     nobody uses it, unless a close() was called on a manager one of     *)
(*     whose methods was running (raced).                                  *)
(*                                                                         *)
(* ChainstateManager implements this module: see ContractSpec there.       *)
(***************************************************************************)

CONSTANTS
    Acts,      \* whoever may call into the kernel
    Managers   \* kernel managers

VARIABLES
    status,    \* "none", "open", "closing" or "closed", for each manager
    users,     \* who is inside the kernel with each manager
    closers,   \* who is closing each manager
    raced      \* a close() has met a method of its manager

vars == <<status, users, closers, raced>>

Init ==
    /\ status = [m \in Managers |-> "none"]
    /\ users = [m \in Managers |-> {}]
    /\ closers = [m \in Managers |-> {}]
    /\ raced = FALSE

\* ChainstateManager(options) makes a kernel manager, or raises.
Open(m) ==
    /\ status[m] = "none"
    /\ \E s \in {"open", "closed"} : status' = [status EXCEPT ![m] = s]
    /\ UNCHANGED <<users, closers, raced>>

\* process_block() and its likes, from their call of the kernel to its return.
Enter(a, m) ==
    /\ status[m] = "open" \/ raced
    /\ users' = [users EXCEPT ![m] = @ \cup {a}]
    /\ UNCHANGED <<status, closers, raced>>

Leave(a, m) ==
    /\ a \in users[m]
    /\ users' = [users EXCEPT ![m] = @ \ {a}]
    /\ UNCHANGED <<status, closers, raced>>

\* close(), the end of a "with" block, or the last reference goes.
BeginClose(a, m) ==
    /\ status[m] = "open"
    /\ status' = [status EXCEPT ![m] = "closing"]
    /\ closers' = [closers EXCEPT ![m] = {a}]
    /\ raced' \in BOOLEAN
    /\ raced \/ users[m] # {} => raced'
    /\ UNCHANGED users

EndClose(a, m) ==
    /\ closers[m] = {a}
    /\ status' = [status EXCEPT ![m] = "closed"]
    /\ closers' = [closers EXCEPT ![m] = {}]
    /\ UNCHANGED <<users, raced>>

Next ==
    \E m \in Managers :
        \/ Open(m)
        \/ \E a \in Acts :
              Enter(a, m) \/ Leave(a, m) \/ BeginClose(a, m) \/ EndClose(a, m)

Spec == Init /\ [][Next]_vars
=============================================================================
