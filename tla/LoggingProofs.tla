---------------------------- MODULE LoggingProofs ----------------------------
(***************************************************************************)
(* The safety of logging connections, for any number of threads and        *)
(* connections.                                                            *)
(***************************************************************************)
EXTENDS Logging, FiniteSetTheorems, TLAPS

\* The thread that gives a message to the callbacks holds the logger's lock, so
\* that none of them is removed meanwhile.
LockInv ==
    \A t \in Threads :
        /\ pc[t] = "log_cb" <=> lock = t
        /\ pc[t] = "log_cb" => /\ conn[t] \in registered /\ rest[t] \subseteq registered
                              /\ conn[t] \notin rest[t]

\* Frames that make or destroy a connection.
Destroying == {"destroy", "unref"}
Making == {"create", "created", "undo"}
Busy(t) == pc[t] \in Making \cup Destroying

BusyInv ==
    \A t \in Threads :
        /\ Busy(t) => /\ conn[t] \in used
                      /\ conn[t] \notin ptr
                      /\ \A u \in Threads : Busy(u) /\ conn[u] = conn[t] => u = t
        /\ pc[t] \in Making => refs[conn[t]] = {} /\ conn[t] \notin closed
        /\ pc[t] \in {"create", "unref"} =>
              conn[t] \in callback /\ conn[t] \notin registered
        /\ pc[t] \in {"created", "undo", "destroy"} => conn[t] \in registered

\* An open wrapper is referenced and its connection is the logger's; what else
\* the logger has, a frame is making or destroying.
RegisteredInv ==
    /\ ptr \subseteq registered
    /\ registered \subseteq callback
    /\ callback \subseteq used
    /\ \A c \in ptr : refs[c] # {}
    /\ \A c \in registered \ ptr :
          \E t \in Threads : conn[t] = c /\ pc[t] \in {"created", "undo", "destroy"}
    /\ \A c \in callback \ registered :
          \E t \in Threads : conn[t] = c /\ pc[t] \in {"create", "unref"}

\* The frame of a close() holds its connection until it returns.
RefsInv ==
    /\ \A c \in Connections : refs[c] # {} => c \in used
    /\ \A c \in Connections, t \in Threads :
          t \in refs[c] => /\ conn[t] = c
                           /\ pc[t] \in Destroying \cup {"return"}
                           /\ c \notin ptr
                           /\ pc[t] = "return" => c \notin registered \cup callback

\* A closed connection is never the logger's again.
ClosedInv == closed \subseteq used /\ closed \cap registered = {}

IInv == TypeOK /\ LockInv /\ BusyInv /\ RegisteredInv /\ RefsInv /\ ClosedInv

----------------------------------------------------------------------------
LEMMA InvariantInit == Init => IInv
  BY ConstantsAssumption
     DEF Init, IInv, TypeOK, LockInv, BusyInv, RegisteredInv, RefsInv, ClosedInv,
         PCs, GilKept, GilWanted, Busy, Making, Destroying

LEMMA InvariantStep ==
  ASSUME IInv, NEW t \in Threads, Step(t)
  PROVE  IInv'
  <1> USE ConstantsAssumption
      DEF IInv, TypeOK, LockInv, BusyInv, RegisteredInv, RefsInv, ClosedInv,
          PCs, GilKept, GilWanted, Busy, Making, Destroying, Goto, objects
  <1>1. CASE AcquireGil(t)
    BY <1>1 DEF AcquireGil
  <1>2. CASE YieldGil(t)
    BY <1>2 DEF YieldGil
  <1>3. CASE CallKernel(t)
    BY <1>3 DEF CallKernel
  <1>4. CASE KernelReturn(t)
    BY <1>4 DEF KernelReturn
  <1>5. CASE Log(t)
    BY <1>5 DEF Log
  <1>6. CASE LogCbReturn(t)
    BY <1>6 DEF LogCbReturn
  <1>7. CASE KernelCreate(t)
    BY <1>7 DEF KernelCreate
  <1>8. CASE CreateFails(t)
    BY <1>8 DEF CreateFails
  <1>9. CASE CreateReturn(t)
    BY <1>9 DEF CreateReturn
  <1>10. CASE AllocFails(t)
    BY <1>10 DEF AllocFails
  <1>11. CASE UndoCreate(t)
    BY <1>11 DEF UndoCreate
  <1>12. CASE Configure(t)
    BY <1>12 DEF Configure
  <1>13. CASE ConfigureReturn(t)
    BY <1>13 DEF ConfigureReturn
  <1>14. CASE KernelDestroy(t)
    BY <1>14 DEF KernelDestroy
  <1>15. CASE ReleaseCallback(t)
    BY <1>15 DEF ReleaseCallback
  <1>16. CASE Return(t)
    BY <1>16 DEF Return
  <1>17. ASSUME NEW c \in Connections, Create(t, c)
        PROVE  IInv'
    BY <1>17 DEF Create
  <1>18. ASSUME NEW c \in Connections, Close(t, c)
        PROVE  IInv'
    BY <1>18 DEF Close, Running, Destroy
  <1>19. ASSUME NEW c \in Connections, DropReference(t, c)
        PROVE  IInv'
    BY <1>19 DEF DropReference, Running, Destroy
  <1> QED
    BY <1>1, <1>2, <1>3, <1>4, <1>5, <1>6, <1>7, <1>8, <1>9, <1>10, <1>11, <1>12, <1>13, <1>14, <1>15, <1>16, <1>17, <1>18, <1>19 DEF Step

LEMMA Invariance == Spec => []IInv
  <1>1. IInv /\ [Next]_vars => IInv'
    <2> SUFFICES ASSUME IInv, [Next]_vars
                 PROVE  IInv'
      OBVIOUS
    <2>1. CASE UNCHANGED vars
      BY <2>1 DEF vars, IInv, TypeOK, LockInv, BusyInv, RegisteredInv, RefsInv,
                  ClosedInv, Busy
    <2> QED
      BY <2>1, InvariantStep DEF Next
  <1> QED
    BY <1>1, InvariantInit, PTL DEF Spec

----------------------------------------------------------------------------
(* The theorems.                                                           *)

\* The variables keep their types, and a frame that waits for the logger with
\* the GIL held does hold it.
THEOREM TypeCorrect == Spec => []TypeOK
  BY Invariance, PTL DEF IInv

\* log_cb() is only ever called with a callback whose reference the logger's
\* connection still owns.
THEOREM CallbacksStayAliveCorrect == Spec => []CallbacksStayAlive
  <1>1. IInv => CallbacksStayAlive
    BY DEF IInv, LockInv, RegisteredInv, CallbacksStayAlive
  <1> QED
    BY <1>1, Invariance, PTL

\* A callback gets no message once close() of its connection has returned.
THEOREM ClosedConnectionsAreSilentCorrect == Spec => []ClosedConnectionsAreSilent
  <1>1. IInv => ClosedConnectionsAreSilent
    BY DEF IInv, LockInv, ClosedInv, ClosedConnectionsAreSilent
  <1> QED
    BY <1>1, Invariance, PTL

\* A reference that LoggingConnection_new() took is given back exactly when the
\* logger has let go of the connection.
THEOREM CallbacksAreReleasedCorrect == Spec => []CallbacksAreReleased
  <1>1. IInv => CallbacksAreReleased
    BY DEF IInv, RegisteredInv, CallbacksAreReleased
  <1> QED
    BY <1>1, Invariance, PTL

\* However close(), dealloc and failed creations race, each connection of the
\* logger has one wrapper or frame that destroys it.
THEOREM ConnectionsHaveOneOwnerCorrect == Spec => []ConnectionsHaveOneOwner
  <1>1. ASSUME IInv
        PROVE  ConnectionsHaveOneOwner
    <2> SUFFICES ASSUME NEW c \in Connections
                 PROVE  LET busy == {t \in Threads :
                                conn[t] = c /\ pc[t] \in {"created", "destroy", "undo"}}
                        IN  IF c \in registered
                              THEN \/ c \in ptr /\ refs[c] # {} /\ busy = {}
                                   \/ c \notin ptr /\ Cardinality(busy) = 1
                              ELSE c \notin ptr /\ busy = {}
      BY DEF ConnectionsHaveOneOwner
    <2> DEFINE busy == {t \in Threads :
                            conn[t] = c /\ pc[t] \in {"created", "destroy", "undo"}}
    <2> USE <1>1 DEF IInv, BusyInv, RegisteredInv, Busy, Making, Destroying
    <2>1. c \in ptr => c \in registered /\ refs[c] # {} /\ busy = {}
      OBVIOUS
    <2>2. c \notin registered => busy = {}
      OBVIOUS
    <2>3. ASSUME c \in registered, c \notin ptr
          PROVE  Cardinality(busy) = 1
      <3>1. PICK t \in Threads : t \in busy
        BY <2>3
      <3>2. busy = {t}
        BY <3>1
      <3> QED
        BY <3>2, FS_Singleton
    <2> QED
      BY <2>1, <2>2, <2>3
  <1> QED
    BY <1>1, Invariance, PTL

----------------------------------------------------------------------------
(***************************************************************************)
(* The refinement: each step is a step of LoggerContract or a stutter.     *)
(***************************************************************************)

\* A step that leaves the connections, the callbacks and the message alone.
LEMMA ContractStutter ==
  ASSUME UNCHANGED <<callback, closed>>,
         \A c \in Connections : Life(c)' = Life(c),
         \A t \in Threads : Pending(t)' = Pending(t)
  PROVE  UNCHANGED Contract!vars
  BY DEF Contract!vars

\* Who has the logger's lock is alone with the connections.
LEMMA LockedIsQuiet ==
  ASSUME IInv, lock = Nobody
  PROVE  Contract!Quiet
  BY ConstantsAssumption DEF IInv, LockInv, Contract!Quiet, Pending

LEMMA ContractInit == Init => Contract!Init
  <1> SUFFICES ASSUME Init  PROVE Contract!Init
    OBVIOUS
  <1>1. \A c \in Connections : Life(c) = IF c \in Open THEN "connected" ELSE "none"
    BY DEF Init, Life
  <1> QED
    BY <1>1 DEF Init, Contract!Init, Pending

\* Steps that concern the GIL, kernel calls and configuration.
LEMMA ContractOthers ==
  ASSUME IInv, NEW t \in Threads,
         \/ AcquireGil(t) \/ YieldGil(t) \/ CallKernel(t) \/ KernelReturn(t)
         \/ AllocFails(t) \/ Configure(t) \/ ConfigureReturn(t)
  PROVE  UNCHANGED Contract!vars
  <1>1. UNCHANGED <<conn, rest, callback, closed, used, registered>>
    BY DEF AcquireGil, YieldGil, CallKernel, KernelReturn, AllocFails, Configure,
           ConfigureReturn, objects
  <1>2. \A u \in Threads : (pc'[u] = "create" <=> pc[u] = "create")
                           /\ (pc'[u] = "log_cb" <=> pc[u] = "log_cb")
    BY DEF IInv, TypeOK, Goto, AcquireGil, YieldGil, CallKernel, KernelReturn, AllocFails,
           Configure, ConfigureReturn
  <1>3. \A c \in Connections : Life(c)' = Life(c)
    BY <1>1, <1>2 DEF Life
  <1>4. \A u \in Threads : Pending(u)' = Pending(u)
    BY <1>1, <1>2 DEF Pending
  <1> QED
    BY <1>1, <1>3, <1>4, ContractStutter

LEMMA ContractLog ==
  ASSUME IInv, NEW t \in Threads, Log(t)
  PROVE  Contract!Log(t)
  <1> USE DEF IInv, TypeOK
  <1>1. PICK c \in registered : /\ conn' = [conn EXCEPT ![t] = c]
                                /\ rest' = [rest EXCEPT ![t] = registered \ {c}]
                                /\ pc' = [pc EXCEPT ![t] = "log_cb"]
                                /\ pc[t] = "kernel" /\ lock = Nobody
                                /\ UNCHANGED <<callback, closed, used, registered>>
    BY DEF Log, Goto, objects
  <1>2. Contract!Quiet
    BY <1>1, LockedIsQuiet
  <1>3. \A d \in Connections : Life(d)' = Life(d)
    BY <1>1 DEF Life
  <1>4. Pending(t)' = registered /\ \A u \in Threads \ {t} : Pending(u)' = Pending(u)
    BY <1>1 DEF Pending
  <1>5. registered = {d \in Connections : Life(d) = "connected"}
    BY DEF Life
  <1> DEFINE life == [d \in Connections |-> Life(d)]
             pending == [u \in Threads |-> Pending(u)]
  <1>6. life' = life /\ registered = {d \in Connections : life[d] = "connected"}
    BY <1>3, <1>5
  <1>7. pending' = [pending EXCEPT ![t] = registered]
    BY <1>4
  <1> QED
    BY <1>1, <1>2, <1>6, <1>7 DEF Contract!Log

LEMMA ContractDeliver ==
  ASSUME IInv, NEW t \in Threads, LogCbReturn(t)
  PROVE  Contract!Deliver(t, conn[t]) /\ conn[t] \in Connections
  <1> USE DEF IInv, TypeOK
  <1>1. /\ pc[t] = "log_cb" /\ conn[t] \in registered /\ conn[t] \notin rest[t]
        /\ UNCHANGED <<callback, closed, used, registered>>
        /\ \/ /\ rest[t] = {} /\ conn' = [conn EXCEPT ![t] = Nobody]
              /\ pc' = [pc EXCEPT ![t] = "kernel"] /\ rest' = rest
           \/ /\ pc' = pc
              /\ \E c \in rest[t] : /\ conn' = [conn EXCEPT ![t] = c]
                                    /\ rest' = [rest EXCEPT ![t] = @ \ {c}]
    BY DEF LogCbReturn, Goto, objects, LockInv
  <1>2. \A d \in Connections : Life(d)' = Life(d)
    BY <1>1 DEF Life
  <1>3. ASSUME NEW u \in Threads \ {t}  PROVE Pending(u)' = Pending(u)
    <2>1. pc'[u] = pc[u] /\ conn'[u] = conn[u] /\ rest'[u] = rest[u]
      BY <1>1, <1>3
    <2> QED
      BY <2>1 DEF Pending
  <1>4. Pending(t)' = Pending(t) \ {conn[t]} /\ conn[t] \in Pending(t)
    BY <1>1 DEF Pending
  <1> DEFINE life == [d \in Connections |-> Life(d)]
             pending == [u \in Threads |-> Pending(u)]
  <1>5. life' = life
    BY <1>2
  <1>6. pending' = [pending EXCEPT ![t] = @ \ {conn[t]}] /\ conn[t] \in pending[t]
    BY <1>3, <1>4
  <1> QED
    BY <1>1, <1>5, <1>6 DEF Contract!Deliver

\* Steps of a frame that makes or destroys a connection: it is the only one for
\* this connection, and no message is its.
LEMMA FrameAlone ==
  ASSUME IInv, NEW t \in Threads, Busy(t) \/ pc[t] \in {"python", "return"},
         pc' = [pc EXCEPT ![t] = pc'[t]], pc'[t] \notin {"create", "log_cb"},
         conn' \in {conn, [conn EXCEPT ![t] = Nobody]},
         UNCHANGED <<rest, used>>
  PROVE  /\ \A u \in Threads : Pending(u)' = Pending(u)
         /\ \A d \in Connections : d # conn[t] /\ (d \in registered' <=> d \in registered)
               => Life(d)' = Life(d)
  <1> USE DEF IInv, TypeOK
  <1>1. pc[t] # "log_cb" /\ \A u \in Threads \ {t} : pc'[u] = pc[u] /\ conn'[u] = conn[u]
    BY DEF Busy, Making, Destroying
  <1>2. \A u \in Threads : Pending(u)' = Pending(u)
    BY <1>1 DEF Pending
  <1>3. ASSUME NEW d \in Connections, d # conn[t], d \in registered' <=> d \in registered
        PROVE  Life(d)' = Life(d)
    <2>1. (\E u \in Threads : pc'[u] = "create" /\ conn'[u] = d)
            <=> \E u \in Threads : pc[u] = "create" /\ conn[u] = d
      BY <1>1, <1>3
    <2> QED
      BY <1>3, <2>1 DEF Life
  <1> QED
    BY <1>2, <1>3

\* How the life of one connection changes makes the step of the contract.
LEMMA LifeOfOne ==
  ASSUME NEW c \in Connections, NEW l,
         \A d \in Connections \ {c} : Life(d)' = Life(d), Life(c)' = l,
         \A u \in Threads : Pending(u)' = Pending(u)
  PROVE  /\ [d \in Connections |-> Life(d)]' = [[d \in Connections |-> Life(d)] EXCEPT ![c] = l]
         /\ [u \in Threads |-> Pending(u)]' = [u \in Threads |-> Pending(u)]
  OBVIOUS

LEMMA ContractCreate ==
  ASSUME IInv, NEW t \in Threads, NEW c \in Connections, Create(t, c)
  PROVE  Contract!Take(c)
  <1> USE DEF IInv, TypeOK
  <1>1. /\ pc[t] = "python" /\ pc' = [pc EXCEPT ![t] = "create"]
        /\ conn' = [conn EXCEPT ![t] = c] /\ c \notin used
        /\ used' = used \cup {c} /\ callback' = callback \cup {c}
        /\ UNCHANGED <<rest, registered, closed>>
    BY DEF Create, Goto
  <1>2. c \notin callback /\ c \notin registered
    BY <1>1 DEF RegisteredInv
  <1>3. \A u \in Threads \ {t} : pc'[u] = pc[u] /\ conn'[u] = conn[u]
    BY <1>1
  <1>4. Life(c) = "none" /\ Life(c)' = "none"
    BY <1>1, <1>2 DEF Life
  <1>5. ASSUME NEW d \in Connections \ {c}  PROVE Life(d)' = Life(d)
    <2>1. (\E u \in Threads : pc'[u] = "create" /\ conn'[u] = d)
            <=> \E u \in Threads : pc[u] = "create" /\ conn[u] = d
      BY <1>1, <1>3
    <2> QED
      BY <1>1, <2>1 DEF Life
  <1>6. \A u \in Threads : Pending(u)' = Pending(u)
    BY <1>1, <1>3 DEF Pending
  <1> QED
    BY <1>1, <1>2, <1>4, <1>5, <1>6 DEF Contract!Take

LEMMA ContractKernelCreate ==
  ASSUME IInv, NEW t \in Threads, KernelCreate(t)
  PROVE  Contract!Connect(conn[t]) /\ conn[t] \in Connections
  <1> USE DEF IInv, TypeOK
  <1>1. /\ pc[t] = "create" /\ lock = Nobody /\ pc' = [pc EXCEPT ![t] = "created"]
        /\ registered' = registered \cup {conn[t]}
        /\ UNCHANGED <<conn, rest, callback, used, closed>>
    BY DEF KernelCreate, Goto
  <1>2. conn[t] \in used /\ conn[t] \in Connections /\ conn[t] \in callback
        /\ conn[t] \notin registered
    BY <1>1 DEF BusyInv, Busy, Making
  <1>3. Life(conn[t]) = "none" /\ Life(conn[t])' = "connected"
    BY <1>1, <1>2 DEF Life
  <1>4. \A d \in Connections \ {conn[t]} : Life(d)' = Life(d)
    BY <1>1, FrameAlone DEF Busy, Making
  <1>5. \A u \in Threads : Pending(u)' = Pending(u)
    BY <1>1 DEF Pending
  <1>6. Contract!Quiet
    BY <1>1, LockedIsQuiet
  <1> QED
    BY <1>1, <1>2, <1>3, <1>4, <1>5, <1>6, LifeOfOne DEF Contract!Connect

LEMMA ContractCreateFails ==
  ASSUME IInv, NEW t \in Threads, CreateFails(t)
  PROVE  Contract!Refuse(conn[t]) /\ conn[t] \in Connections
  <1> USE DEF IInv, TypeOK
  <1>1. /\ pc[t] = "create" /\ pc' = [pc EXCEPT ![t] = "python"]
        /\ callback' = callback \ {conn[t]} /\ conn' = [conn EXCEPT ![t] = Nobody]
        /\ UNCHANGED <<rest, registered, used, closed>>
    BY DEF CreateFails, Goto
  <1>2. conn[t] \in used /\ conn[t] \in Connections /\ conn[t] \in callback
        /\ conn[t] \notin registered
        /\ \A u \in Threads : pc[u] = "create" /\ conn[u] = conn[t] => u = t
    BY <1>1 DEF BusyInv, Busy, Making
  <1>3. Life(conn[t]) = "none"
    BY <1>1, <1>2 DEF Life
  <1>4. ~ \E u \in Threads : pc'[u] = "create" /\ conn'[u] = conn[t]
    BY <1>1, <1>2
  <1>5. \A c : c = conn[t] => Life(c)' = "gone"
    BY <1>1, <1>2, <1>4 DEF Life
  <1>6. \A d \in Connections \ {conn[t]} : Life(d)' = Life(d)
    BY <1>1, FrameAlone DEF Busy, Making
  <1>7. \A u \in Threads : Pending(u)' = Pending(u)
    BY <1>1, FrameAlone DEF Busy, Making
  <1> DEFINE c == conn[t]
  <1>8. c \in Connections /\ Life(c) = "none" /\ c \in callback
    BY <1>2, <1>3
  <1> QED
    BY <1>1, <1>2, <1>3, <1>5, <1>6, <1>7 DEF Contract!Refuse

\* The wrapper takes over what the frame had.
LEMMA ContractCreateReturn ==
  ASSUME IInv, NEW t \in Threads, CreateReturn(t)
  PROVE  UNCHANGED Contract!vars
  <1> USE DEF IInv, TypeOK
  <1>1. /\ pc[t] = "created" /\ pc' = [pc EXCEPT ![t] = "python"]
        /\ conn' = [conn EXCEPT ![t] = Nobody]
        /\ UNCHANGED <<rest, registered, callback, used, closed>>
    BY DEF CreateReturn, Goto
  <1>2. conn[t] \in registered
    BY <1>1 DEF BusyInv
  <1>3. \A c \in Connections : c # conn[t] => Life(c)' = Life(c)
    BY <1>1, FrameAlone DEF Busy, Making
  <1>4. \A c : c = conn[t] => Life(c)' = Life(c)
    BY <1>1, <1>2 DEF Life
  <1>5. \A u \in Threads : Pending(u)' = Pending(u)
    BY <1>1 DEF Pending
  <1> QED
    BY <1>1, <1>3, <1>4, <1>5, ContractStutter

\* The kernel lets go of a connection, under the lock.
LEMMA ContractDisconnect ==
  ASSUME IInv, NEW t \in Threads, UndoCreate(t) \/ KernelDestroy(t)
  PROVE  Contract!Disconnect(conn[t]) /\ conn[t] \in Connections
  <1> USE DEF IInv, TypeOK
  <1> DEFINE c == conn[t]
  <1>1. /\ pc[t] \in {"undo", "destroy"} /\ lock = Nobody
        /\ pc'[t] \in {"python", "unref"} /\ pc' = [pc EXCEPT ![t] = pc'[t]]
        /\ conn' \in {conn, [conn EXCEPT ![t] = Nobody]}
        /\ registered' = registered \ {c}
        /\ callback' \in {callback, callback \ {c}}
        /\ UNCHANGED <<rest, used, closed>>
    BY DEF UndoCreate, KernelDestroy, Goto
  <1>2. c \in registered /\ c \in used /\ c \in Connections
        /\ \A u \in Threads : pc[u] = "create" => conn[u] # c
    BY <1>1 DEF BusyInv, Busy, Making, Destroying
  <1>3. ~ \E u \in Threads : pc'[u] = "create" /\ conn'[u] = c
    BY <1>1, <1>2
  <1>4. \A d \in Connections \ {c} : Life(d)' = Life(d)
    BY <1>1, FrameAlone DEF Busy, Making, Destroying
  <1>5. \A u \in Threads : Pending(u)' = Pending(u)
    BY <1>1 DEF Pending
  <1>6. Life(c) = "connected"
    BY <1>2 DEF Life
  <1>7. \A d : d = c => Life(d)' = "gone"
    BY <1>1, <1>2, <1>3 DEF Life
  <1>8. Contract!Quiet
    BY <1>1, LockedIsQuiet
  <1> DEFINE life == [d \in Connections |-> Life(d)]
  <1>9. life[c] = "connected" /\ life' = [life EXCEPT ![c] = "gone"]
    BY <1>2, <1>4, <1>6, <1>7
  <1>10. [u \in Threads |-> Pending(u)]' = [u \in Threads |-> Pending(u)]
    BY <1>5
  <1> QED
    BY <1>1, <1>2, <1>8, <1>9, <1>10 DEF Contract!Disconnect

LEMMA ContractRelease ==
  ASSUME IInv, NEW t \in Threads, ReleaseCallback(t)
  PROVE  Contract!Release(conn[t]) /\ conn[t] \in Connections
  <1> USE DEF IInv, TypeOK
  <1>1. /\ pc[t] = "unref" /\ pc' = [pc EXCEPT ![t] = "return"]
        /\ callback' = callback \ {conn[t]}
        /\ UNCHANGED <<conn, rest, registered, used, closed>>
    BY DEF ReleaseCallback, Goto
  <1>2. conn[t] \notin registered /\ conn[t] \in used /\ conn[t] \in Connections
        /\ conn[t] \in callback
        /\ \A u \in Threads : pc[u] = "create" => conn[u] # conn[t]
    BY <1>1 DEF BusyInv, Busy, Making, Destroying
  <1>3. Life(conn[t]) = "gone"
    BY <1>2 DEF Life
  <1>4. \A u \in Threads : pc'[u] = "create" <=> pc[u] = "create"
    BY <1>1
  <1>5. \A d \in Connections : Life(d)' = Life(d)
    BY <1>1, <1>4 DEF Life
  <1>6. \A u \in Threads : Pending(u)' = Pending(u)
    BY <1>1 DEF Pending
  <1> QED
    BY <1>1, <1>2, <1>3, <1>5, <1>6 DEF Contract!Release

\* close() and dealloc clear the pointer; the kernel is called later.
LEMMA ContractDestroy ==
  ASSUME IInv, NEW t \in Threads, NEW c \in Connections, Close(t, c) \/ DropReference(t, c)
  PROVE  UNCHANGED Contract!vars
  <1> USE DEF IInv, TypeOK
  <1>1. /\ pc[t] = "python"
        /\ \/ pc' = [pc EXCEPT ![t] = "destroy"] /\ conn' = [conn EXCEPT ![t] = c]
           \/ pc' = pc /\ conn' = conn
        /\ UNCHANGED <<rest, registered, callback, used, closed>>
    BY DEF Close, DropReference, Destroy, Running, Goto
  <1>2. \A u \in Threads : /\ pc'[u] = "create" <=> pc[u] = "create"
                           /\ pc'[u] = "create" => conn'[u] = conn[u]
    BY <1>1
  <1>3. \A d \in Connections : Life(d)' = Life(d)
    BY <1>1, <1>2 DEF Life
  <1>4. \A u \in Threads : Pending(u)' = Pending(u)
    BY <1>1 DEF Pending
  <1> QED
    BY <1>1, <1>3, <1>4, ContractStutter

\* What close() held is its connection, and that has gone with its callback.
LEMMA ContractReturn ==
  ASSUME IInv, NEW t \in Threads, Return(t)
  PROVE  UNCHANGED Contract!vars \/ \E c \in Connections : Contract!Close(c)
  <1> USE DEF IInv, TypeOK
  <1>1. /\ pc[t] = "return" /\ pc' = [pc EXCEPT ![t] = "python"]
        /\ conn' = [conn EXCEPT ![t] = Nobody]
        /\ closed' = closed \cup {c \in Connections : t \in refs[c]}
        /\ UNCHANGED <<rest, registered, callback, used>>
    BY DEF Return, Goto
  <1>2. \A u \in Threads : /\ pc'[u] = "create" <=> pc[u] = "create"
                           /\ pc'[u] = "create" => conn'[u] = conn[u]
    BY <1>1
  <1>3. \A d \in Connections : Life(d)' = Life(d)
    BY <1>1, <1>2 DEF Life
  <1>4. \A u \in Threads : Pending(u)' = Pending(u)
    BY <1>1 DEF Pending
  <1>5. ASSUME NEW c \in Connections, t \in refs[c]
        PROVE  Contract!Close(c)
    <2>1. c = conn[t] /\ c \notin registered /\ c \notin callback /\ c \in used
      BY <1>1, <1>5 DEF RefsInv
    <2>2. {d \in Connections : t \in refs[d]} = {c}
      BY <1>5, <2>1 DEF RefsInv
    <2>3. ASSUME NEW u \in Threads, pc[u] = "create"  PROVE conn[u] # c
      BY <1>5, <2>3 DEF BusyInv, Making
    <2>4. Life(c) = "gone"
      BY <2>1, <2>3 DEF Life
    <2> QED
      BY <1>1, <1>3, <1>4, <2>1, <2>2, <2>4 DEF Contract!Close
  <1>6. CASE \A c \in Connections : t \notin refs[c]
    <2>1. closed' = closed
      BY <1>1, <1>6
    <2> QED
      BY <1>1, <1>3, <1>4, <2>1, ContractStutter
  <1> QED
    BY <1>5, <1>6

\* Every message reaches every connection once, none is made or removed in the
\* middle of one, callbacks are let go once, and after close() all is over.
THEOREM ContractCorrect == Spec => ContractSpec
  <1>1. Init => Contract!Init
    BY ContractInit
  <1>2. IInv /\ [Next]_vars => [Contract!Next]_(Contract!vars)
    <2> SUFFICES ASSUME IInv, [Next]_vars  PROVE [Contract!Next]_(Contract!vars)
      OBVIOUS
    <2>1. CASE UNCHANGED vars
      BY <2>1, ContractStutter DEF vars, Life, Pending
    <2>2. ASSUME NEW t \in Threads, Step(t)
          PROVE  [Contract!Next]_(Contract!vars)
      <3> USE DEF Contract!Next
      <3>1. CASE \/ AcquireGil(t) \/ YieldGil(t) \/ CallKernel(t) \/ KernelReturn(t)
                 \/ AllocFails(t) \/ Configure(t) \/ ConfigureReturn(t)
        BY <3>1, ContractOthers
      <3>2. CASE Log(t) \/ LogCbReturn(t)
        BY <3>2, ContractLog, ContractDeliver
      <3>3. CASE KernelCreate(t) \/ CreateFails(t) \/ CreateReturn(t)
        BY <3>3, ContractKernelCreate, ContractCreateFails, ContractCreateReturn
      <3>4. CASE UndoCreate(t) \/ KernelDestroy(t) \/ ReleaseCallback(t) \/ Return(t)
        BY <3>4, ContractDisconnect, ContractRelease, ContractReturn
      <3>5. CASE \E c \in Connections : Create(t, c) \/ Close(t, c) \/ DropReference(t, c)
        BY <3>5, ContractCreate, ContractDestroy
      <3> QED
        BY <2>2, <3>1, <3>2, <3>3, <3>4, <3>5 DEF Step
    <2> QED
      BY <2>1, <2>2 DEF Next
  <1> QED
    BY <1>1, <1>2, Invariance, PTL DEF Spec, ContractSpec, Contract!Spec

----------------------------------------------------------------------------
(***************************************************************************)
(* Who waits for whom.                                                     *)
(***************************************************************************)

\* The thread that has the GIL runs, or keeps it in front of the logger.
GilInv == \A t \in Threads : gil = t => pc[t] \in GilWanted \cup GilKept

LEMMA GilInvariance == Spec => []GilInv
  <1>1. Init => GilInv
    BY ConstantsAssumption DEF Init, GilInv
  <1>2. TypeOK /\ GilInv /\ [Next]_vars => GilInv'
    <2> SUFFICES ASSUME TypeOK, GilInv, [Next]_vars  PROVE GilInv'
      OBVIOUS
    <2> USE ConstantsAssumption DEF TypeOK, GilInv, GilWanted, GilKept, Goto
    <2>1. CASE UNCHANGED vars
      BY <2>1 DEF vars
    <2>2. ASSUME NEW t \in Threads, Step(t)  PROVE GilInv'
      <3>1. CASE AcquireGil(t) \/ YieldGil(t) \/ CallKernel(t) \/ KernelReturn(t)
        BY <3>1 DEF AcquireGil, YieldGil, CallKernel, KernelReturn
      <3>2. CASE Log(t) \/ LogCbReturn(t)
        BY <3>2 DEF Log, LogCbReturn
      <3>3. CASE KernelCreate(t) \/ CreateFails(t) \/ CreateReturn(t) \/ AllocFails(t)
                   \/ UndoCreate(t) \/ Configure(t) \/ ConfigureReturn(t)
        BY <3>3 DEF KernelCreate, CreateFails, CreateReturn, AllocFails, UndoCreate,
                    Configure, ConfigureReturn
      <3>4. CASE KernelDestroy(t) \/ ReleaseCallback(t) \/ Return(t)
        BY <3>4 DEF KernelDestroy, ReleaseCallback, Return
      <3>5. CASE \E c \in Connections : Create(t, c) \/ Close(t, c) \/ DropReference(t, c)
        BY <3>5 DEF Create, Close, DropReference, Destroy, Running
      <3> QED
        BY <2>2, <3>1, <3>2, <3>3, <3>4, <3>5 DEF Step
    <2> QED
      BY <2>1, <2>2 DEF Next
  <1> QED
    BY <1>1, <1>2, TypeCorrect, PTL DEF Spec

\* Of any number of threads in the calls of Logging that wait for each other in a
\* circle, one makes a connection or changes the settings with the GIL held.
THEOREM CirclesKeepTheGilCorrect == Spec => []CirclesKeepTheGil
  <1>1. IInv /\ GilInv => CirclesKeepTheGil
    <2> SUFFICES ASSUME IInv, GilInv, NEW circle \in SUBSET Threads, circle # {},
                        \A t \in circle : \E u \in circle : WaitsFor(t, u)
                 PROVE  \E t \in circle : gil = t /\ pc[t] \in InLogger
      BY DEF CirclesKeepTheGil
    <2>1. ASSUME NEW t \in circle, gil = t  PROVE pc[t] \in InLogger
      <3>1. PICK u \in circle : WaitsFor(t, u)
        OBVIOUS
      <3>2. u # t /\ lock = u /\ pc[t] \in InLogger \cup {"destroy", "kernel"}
        BY <2>1, <3>1 DEF WaitsFor
      <3>3. pc[t] \in GilWanted \cup GilKept
        BY <2>1 DEF GilInv
      <3> QED
        BY <3>2, <3>3 DEF GilWanted, GilKept
    <2>2. ASSUME NEW t \in circle, lock = t  PROVE \E v \in circle : gil = v
      <3>1. PICK v \in circle : WaitsFor(t, v)
        OBVIOUS
      <3>2. v # t /\ lock # v
        BY <2>2, <3>1 DEF WaitsFor
      <3> QED
        BY <3>1, <3>2 DEF WaitsFor
    <2>3. PICK t \in circle, u \in circle : WaitsFor(t, u)
      OBVIOUS
    <2>4. \E v \in circle : gil = v
      BY <2>2, <2>3 DEF WaitsFor
    <2> QED
      BY <2>1, <2>4
  <1> QED
    BY <1>1, Invariance, GilInvariance, PTL
=============================================================================
