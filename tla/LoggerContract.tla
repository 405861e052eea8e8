---------------------------- MODULE LoggerContract ----------------------------
(***************************************************************************)
(* What logging connections promise: messages come one at a time, each to  *)
(* every connection there is, once; none is connected or disconnected in   *)
(* the middle of a message; a callback is held from before its connection  *)
(* until after it, and let go once; and when close() has returned all this *)
(* is over.                                                                *)
(*                                                                         *)
(* Logging implements this module: see ContractSpec there.                 *)
(***************************************************************************)
CONSTANTS
    Threads,       \* those that log
    Connections,
    Open           \* the connections that exist in the beginning

VARIABLES
    life,          \* "none", "connected", then "gone" for ever
    held,          \* the connections whose callback is held
    pending,       \* to whom the message a thread logs has still to be given
    closed         \* those whose close() has returned

vars == <<life, held, pending, closed>>

Init ==
    /\ life = [c \in Connections |-> IF c \in Open THEN "connected" ELSE "none"]
    /\ held = Open
    /\ pending = [t \in Threads |-> {}]
    /\ closed = {}

Quiet == \A t \in Threads : pending[t] = {}

\* A connection is going to be made.
Take(c) ==
    /\ life[c] = "none" /\ c \notin held
    /\ held' = held \cup {c}
    /\ UNCHANGED <<life, pending, closed>>

Connect(c) ==
    /\ life[c] = "none" /\ c \in held /\ Quiet
    /\ life' = [life EXCEPT ![c] = "connected"]
    /\ UNCHANGED <<held, pending, closed>>

Refuse(c) ==
    /\ life[c] = "none" /\ c \in held
    /\ life' = [life EXCEPT ![c] = "gone"]
    /\ held' = held \ {c}
    /\ UNCHANGED <<pending, closed>>

\* A message for all.
Log(t) ==
    /\ Quiet
    /\ pending' = [pending EXCEPT ![t] = {c \in Connections : life[c] = "connected"}]
    /\ UNCHANGED <<life, held, closed>>

\* A callback has had it.
Deliver(t, c) ==
    /\ c \in pending[t]
    /\ pending' = [pending EXCEPT ![t] = @ \ {c}]
    /\ UNCHANGED <<life, held, closed>>

\* The callback is let go at once, or later.
Disconnect(c) ==
    /\ life[c] = "connected" /\ Quiet
    /\ life' = [life EXCEPT ![c] = "gone"]
    /\ held' \in {held, held \ {c}}
    /\ UNCHANGED <<pending, closed>>

Release(c) ==
    /\ life[c] = "gone" /\ c \in held
    /\ held' = held \ {c}
    /\ UNCHANGED <<life, pending, closed>>

Close(c) ==
    /\ life[c] = "gone" /\ c \notin held
    /\ closed' = closed \cup {c}
    /\ UNCHANGED <<life, held, pending>>

Next ==
    \/ \E c \in Connections :
          \/ Take(c) \/ Connect(c) \/ Refuse(c)
          \/ Disconnect(c) \/ Release(c) \/ Close(c)
    \/ \E t \in Threads : Log(t) \/ \E c \in Connections : Deliver(t, c)

Spec == Init /\ [][Next]_vars
=============================================================================
