------------------------ MODULE ContextLifetimeProofs ------------------------
(***************************************************************************)
(* Who keeps whom alive, for any number of threads, wrappers, handlers and *)
(* registrations.                                                          *)
(*                                                                         *)
(* The inductive invariant is an operator: of the threads T that have a    *)
(* frame, of references rs, kernel objects ks and registrations sl, and of *)
(* a set X of wrappers that have lost their last reference and are not     *)
(* freed yet.  A thread that gives up a reference is not in T while the    *)
(* lemmas below follow it through the deallocators.                        *)
(***************************************************************************)
EXTENDS ContextLifetime, TLAPS

KernelStates == {"absent", "live", "destroying", "gone"}

TypesInv(rs, ks, sl) ==
    /\ rs \in [Wrappers \cup Handlers -> SUBSET Holders]
    /\ ks \in [Wrappers -> KernelStates]
    /\ sl \in [SlotHolders -> [Slots -> Regs \cup {None}]]

\* Who may hold a reference to what.
HoldersInv(T, rs) ==
    /\ \A w \in Wrappers \ Contexts : rs[w] \subseteq T \cup {Var}
    /\ \A c \in Contexts : rs[c] \subseteq ContextUsers \cup {Var}
    /\ \A h \in Handlers : rs[h] \subseteq Regs \cup {Var}

\* Frames that create a wrapper, and those that destroy a kernel object.
Creating == {"new", "made", "failed"}
Freeing == {"free", "freed"}

\* What a frame works on, and which references it holds.
FrameInv(T, rs, X) ==
    \A t \in T :
        /\ pc[t] = "py" <=> obj[t] = None
        /\ pc[t] = "py" => src[t] = None
        /\ pc[t] # "py" => obj[t] \in Built
        /\ \A u \in T : obj[t] # None /\ obj[u] = obj[t] => u = t
        /\ src[t] # None => t \in rs[src[t]]
        /\ pc[t] \in Creating =>
              /\ rs[obj[t]] = {}
              /\ obj[t] \in Contexts => src[t] \in CtxOptions \cup {None}
              /\ obj[t] \in Managers => src[t] \in MgrOptions
        /\ pc[t] \in Freeing /\ src[t] # None =>
              obj[t] \in Managers /\ src[t] \in MgrOptions /\ rs[obj[t]] = {}
        /\ pc[t] # "py" /\ (rs[obj[t]] # {} \/ obj[t] \in X) => t \in rs[obj[t]]
        /\ \A w \in Wrappers :
              t \in rs[w] => \/ w = src[t]
                             \/ w = obj[t] /\ w \in Managers
                                /\ src[t] = None /\ pc[t] \in Freeing

\* What the kernel object of a frame is.
FrameKernelInv(T, ks) ==
    \A t \in T :
        /\ pc[t] \in {"new", "failed"} => ks[obj[t]] = "absent"
        /\ pc[t] = "made" => ks[obj[t]] = "live"
        /\ pc[t] = "free" => ks[obj[t]] = "destroying"
        /\ pc[t] = "freed" => ks[obj[t]] = "gone"

\* Kernel objects, wrappers and frames match.
KernelInv(T, rs, ks, X) ==
    \A w \in Wrappers :
        /\ ks[w] = "absent" => rs[w] = {}
        /\ ks[w] = "live" =>
              rs[w] # {} \/ w \in X \/ \E t \in T : obj[t] = w /\ pc[t] = "made"
        /\ (rs[w] # {} /\ w \notin Managers) \/ w \in X \cap Contexts => ks[w] = "live"
        /\ ks[w] = "destroying" => \E t \in T : obj[t] = w /\ pc[t] = "free"

\* u has not given its context back yet.
OwesContext(u, T, rs, X) ==
    \/ rs[u] # {} \/ u \in X
    \/ \E t \in T : obj[t] = u /\ pc[t] \in Freeing /\ src[t] = None

\* Who owes a context holds it, and nobody else.  A manager without a wrapper
\* uses the context of the options it is made from.
ContextInv(T, rs, X) ==
    /\ \A u \in ContextUsers :
          /\ OwesContext(u, T, rs, X) => context[u] \in Contexts /\ u \in rs[context[u]]
          /\ \A c \in Contexts : u \in rs[c] => context[u] = c /\ OwesContext(u, T, rs, X)
    /\ \A t \in T :
          obj[t] \in Managers /\ src[t] # None /\ pc[t] \in {"made"} \cup Freeing =>
              context[obj[t]] = context[src[t]]

\* A registration that a kernel object has owns a reference, and no other does.
RegsInv(rs, ks, sl) ==
    /\ \A o \in SlotHolders, s \in Slots :
          sl[o][s] # None =>
              /\ handlerOf[sl[o][s]] \in Handlers
              /\ sl[o][s] \in rs[handlerOf[sl[o][s]]]
              /\ ks[o] \in {"live", "destroying"}
    /\ \A h \in Handlers, r \in Regs :
          r \in rs[h] => handlerOf[r] = h /\ \E o \in SlotHolders, s \in Slots : sl[o][s] = r

Inv(T, rs, ks, sl, X) ==
    /\ TypesInv(rs, ks, sl)
    /\ HoldersInv(T, rs)
    /\ FrameInv(T, rs, X)
    /\ FrameKernelInv(T, ks)
    /\ KernelInv(T, rs, ks, X)
    /\ ContextInv(T, rs, X)
    /\ RegsInv(rs, ks, sl)

IInv == TypeOK /\ Inv(Threads, refs, kernel, slots, {})

----------------------------------------------------------------------------
\* A thread that is back in Python has no frame left to speak of.
LEMMA ContinueStep ==
  ASSUME TypeOK, NEW t \in Threads, NEW rs, NEW ks,
         Inv(Threads \ {t}, rs, ks, slots', {}),
         Continue(t, rs, ks), UNCHANGED <<handlerOf, context>>
  PROVE  IInv'
  <1> USE ConstantsAssumption DEF Inv, Continue, PCs
  <1>1. TypeOK'
    BY DEF TypeOK, TypesInv, KernelStates
  <1>2. TypesInv(rs, ks, slots')
    OBVIOUS
  <1>3. HoldersInv(Threads, rs)
    BY DEF HoldersInv
  <1>4. FrameInv(Threads, rs, {})'
    BY DEF FrameInv, HoldersInv, TypeOK, Creating, Freeing, Wrappers, ContextUsers
  <1>5. FrameKernelInv(Threads, ks)'
    BY DEF FrameKernelInv, TypeOK
  <1>6. KernelInv(Threads, rs, ks, {})'
    BY DEF KernelInv, TypeOK
  <1>7. ContextInv(Threads, rs, {})'
    BY DEF ContextInv, OwesContext, TypeOK, Freeing
  <1>8. RegsInv(rs, ks, slots)'
    BY DEF RegsInv
  <1> QED
    BY <1>1, <1>2, <1>3, <1>4, <1>5, <1>6, <1>7, <1>8 DEF IInv

\* A wrapper without references, or one that close() was called for, has its
\* kernel object destroyed by a frame of this thread.
LEMMA BeginDestroyStep ==
  ASSUME TypeOK, NEW t \in Threads, NEW rs, NEW ks, NEW w \in Built,
         Inv(Threads \ {t}, rs, ks, slots, {w}),
         rs[w] = {}, ks[w] = "live",
         BeginDestroy(t, rs, ks, w), UNCHANGED <<slots, handlerOf, context>>
  PROVE  IInv'
  <1> USE ConstantsAssumption DEF Inv, BeginDestroy, PCs
  <1>1. w \in Wrappers /\ w # None
    BY DEF Built, Wrappers
  <1>2. TypeOK'
    BY <1>1 DEF TypeOK, TypesInv, KernelStates
  <1>3. TypesInv(rs, kernel', slots)
    BY <1>1 DEF TypesInv, KernelStates
  <1>4. HoldersInv(Threads, rs)
    BY DEF HoldersInv
  <1>5. \A u \in Threads \ {t} : obj[u] # w
    BY <1>1 DEF FrameInv
  <1>6. FrameInv(Threads, rs, {})'
    BY <1>1, <1>5 DEF FrameInv, HoldersInv, TypeOK, Creating, Freeing, Wrappers, ContextUsers, Built
  <1>7. FrameKernelInv(Threads, kernel)'
    BY <1>1, <1>5 DEF FrameKernelInv, FrameInv, TypesInv, TypeOK, Built, Wrappers
  <1>8. KernelInv(Threads, rs, kernel, {})'
    BY <1>1, <1>5 DEF KernelInv, TypeOK, TypesInv
  <1>9. ContextInv(Threads, rs, {})'
    BY <1>1, <1>5 DEF ContextInv, OwesContext, TypeOK, Freeing
  <1>10. RegsInv(rs, kernel, slots)'
    BY <1>1 DEF RegsInv, TypesInv
  <1> QED
    BY <1>2, <1>3, <1>4, <1>6, <1>7, <1>8, <1>9, <1>10 DEF IInv

\* A freed wrapper lets go of its context, and of a last reference with it.
LEMMA DecrefContextStep ==
  ASSUME TypeOK, NEW t \in Threads, NEW rs, NEW ks, NEW w \in ContextUsers,
         Inv(Threads \ {t}, rs, ks, slots, {w}),
         rs[w] = {}, ks[w] # "live",
         DecrefContext(t, rs, ks, w), UNCHANGED <<slots, handlerOf, context>>
  PROVE  IInv'
  <1> DEFINE T == Threads \ {t}
             c == context[w]
             left == [rs EXCEPT ![c] = @ \ {w}]
             X == IF left[c] = {} THEN {c} ELSE {}
  <1> USE ConstantsAssumption DEF Inv
  <1>1. c \in Contexts /\ w \in rs[c] /\ c # w /\ w \in Wrappers /\ c \in Wrappers
    BY DEF ContextInv, OwesContext, Wrappers, ContextUsers
  <1>2. rs \in [Wrappers \cup Handlers -> SUBSET Holders]
    BY DEF TypesInv
  <1>3. left \in [Wrappers \cup Handlers -> SUBSET Holders]
    BY <1>1, <1>2
  <1>4. /\ left[c] = rs[c] \ {w}
        /\ \A x \in Wrappers \cup Handlers : x # c => left[x] = rs[x]
    BY <1>1, <1>2
  <1>5. \A u \in T : u # w
    BY DEF Wrappers, ContextUsers
  <1>6. \A h \in Handlers : h # c
    BY <1>1
  <1> HIDE DEF c, left
  <1>7. \A x : x \in X <=> x = c /\ left[c] = {}
    OBVIOUS
  <1> HIDE DEF X
  <1>8. TypesInv(left, ks, slots)
    BY <1>3 DEF TypesInv
  <1>9. HoldersInv(T, left)
    BY <1>1, <1>4, <1>6 DEF HoldersInv, Wrappers
  <1>10. ks[c] = "live"
    BY <1>1 DEF KernelInv, ContextUsers
  <1>11. \A u \in T : obj[u] # c
    BY <1>1, <1>10 DEF FrameKernelInv, FrameInv, Creating, Freeing, PCs, TypeOK
  <1>12. FrameInv(T, left, X)
    <2>1. \A u \in T, x \in Wrappers : u \in left[x] <=> u \in rs[x]
      BY <1>1, <1>4, <1>5
    <2>2. \A u \in T : pc[u] # "py" => obj[u] \in Wrappers /\ left[obj[u]] = rs[obj[u]]
      BY <1>4, <1>11 DEF FrameInv, Wrappers, Built
    <2>3. \A u \in T : src[u] # None => src[u] \in Wrappers
      BY DEF TypeOK, Wrappers, Options
    <2> QED
      BY <1>7, <1>11, <2>1, <2>2, <2>3 DEF FrameInv, Creating, Freeing
  <1>13. FrameKernelInv(T, ks)
    OBVIOUS
  <1>14. KernelInv(T, left, ks, X)
    BY <1>1, <1>4, <1>7, <1>10 DEF KernelInv, ContextUsers
  <1>15. ContextInv(T, left, X)
    BY <1>1, <1>4, <1>7 DEF ContextInv, OwesContext, FrameInv, Wrappers, ContextUsers
  <1>16. RegsInv(left, ks, slots)
    BY <1>4, <1>6 DEF RegsInv
  <1>17. Inv(T, left, ks, slots, X)
    BY <1>8, <1>9, <1>12, <1>13, <1>14, <1>15, <1>16
  <1>18. CASE left[c] = {}
    <2>1. BeginDestroy(t, left, ks, c)
      BY <1>18 DEF DecrefContext, c, left
    <2>2. X = {c}
      BY <1>18 DEF X
    <2> QED
      BY <2>1, <2>2, <1>1, <1>10, <1>17, <1>18, BeginDestroyStep DEF Built
  <1>19. CASE left[c] # {}
    <2>1. Continue(t, left, ks)
      BY <1>19 DEF DecrefContext, c, left
    <2>2. X = {} /\ slots' = slots
      BY <1>19 DEF X
    <2> QED
      BY <2>1, <2>2, <1>17, ContinueStep
  <1> QED
    BY <1>18, <1>19

\* What is left when the kernel lets go of the registrations nobody shares.
LEMMA DestroyUnsharedStep ==
  ASSUME TypeOK, NEW T, T \subseteq Threads, NEW X, NEW rs, NEW ks, NEW sl,
         TypesInv(rs, ks, sl), HoldersInv(T, rs), FrameInv(T, rs, X),
         KernelInv(T, rs, ks, X), ContextInv(T, rs, X),
         \A o \in SlotHolders, s \in Slots :
            sl[o][s] # None =>
               /\ handlerOf[sl[o][s]] \in Handlers
               /\ sl[o][s] \in rs[handlerOf[sl[o][s]]]
               /\ ks[o] \in {"live", "destroying"},
         \A h \in Handlers, r \in Regs : r \in rs[h] => handlerOf[r] = h
  PROVE  LET left == DestroyUnshared(rs, sl)
         IN  /\ TypesInv(left, ks, sl) /\ HoldersInv(T, left) /\ FrameInv(T, left, X)
             /\ KernelInv(T, left, ks, X) /\ ContextInv(T, left, X)
             /\ RegsInv(left, ks, sl)
             /\ \A w \in Wrappers : left[w] = rs[w]
  <1> DEFINE left == DestroyUnshared(rs, sl)
  <1> USE ConstantsAssumption
  <1>1. left \in [Wrappers \cup Handlers -> SUBSET Holders]
    BY DEF DestroyUnshared, TypesInv
  <1>2. \A x \in Wrappers \cup Handlers :
          left[x] = rs[x] \ {r \in Regs : handlerOf[r] = x /\ Sharers(sl, r) = {}}
    BY DEF DestroyUnshared
  <1>3. \A w \in Wrappers : left[w] = rs[w]
    <2> SUFFICES ASSUME NEW w \in Wrappers  PROVE left[w] = rs[w]
      OBVIOUS
    <2>1. \A r \in Regs : r \notin rs[w]
      BY DEF HoldersInv, Wrappers, ContextUsers
    <2>2. left[w] = rs[w] \ {r \in Regs : handlerOf[r] = w /\ Sharers(sl, r) = {}}
      BY <1>2
    <2> HIDE DEF left
    <2> QED
      BY <2>1, <2>2
  <1>4. \A h \in Handlers, r \in Regs :
          r \in left[h] <=> r \in rs[h] /\ Sharers(sl, r) # {}
    BY <1>2
  <1>5. \A h \in Handlers : left[h] \subseteq rs[h]
    BY <1>2
  <1> HIDE DEF left
  <1>6. TypesInv(left, ks, sl)
    BY <1>1 DEF TypesInv
  <1>7. HoldersInv(T, left)
    BY <1>3, <1>5 DEF HoldersInv, Wrappers
  <1>8. FrameInv(T, left, X)
    <2>1. \A u \in T : pc[u] # "py" => obj[u] \in Wrappers
      BY DEF FrameInv, Built, Wrappers
    <2>2. \A u \in T : src[u] # None => src[u] \in Wrappers
      BY DEF TypeOK, Wrappers, Options
    <2> QED
      BY <1>3, <2>1, <2>2 DEF FrameInv, Creating, Freeing
  <1>9. KernelInv(T, left, ks, X)
    BY <1>3 DEF KernelInv
  <1>10. ContextInv(T, left, X)
    BY <1>3 DEF ContextInv, OwesContext, Wrappers, ContextUsers
  <1>11. RegsInv(left, ks, sl)
    <2>1. \A o \in SlotHolders, s \in Slots : sl[o][s] # None => sl[o][s] \in Regs
      BY DEF TypesInv
    <2> QED
      BY <1>4, <2>1 DEF RegsInv, Sharers
  <1> QED
    BY <1>3, <1>6, <1>7, <1>8, <1>9, <1>10, <1>11 DEF left

\* The kernel options of a freed wrapper go, with their registrations.
LEMMA FreeOptionsStep ==
  ASSUME TypeOK, NEW t \in Threads, NEW rs, NEW kernels, NEW regs, NEW o \in CtxOptions,
         Inv(Threads \ {t}, rs, kernels, regs, {o}), rs[o] = {},
         slots' = [regs EXCEPT ![o] = NoSlots],
         Continue(t, DestroyUnshared(rs, slots'), [kernels EXCEPT ![o] = "gone"]),
         UNCHANGED <<handlerOf, context>>
  PROVE  IInv'
  <1> DEFINE T == Threads \ {t}
             sl == [regs EXCEPT ![o] = NoSlots]
             ks == [kernels EXCEPT ![o] = "gone"]
             left == DestroyUnshared(rs, sl)
  <1> USE ConstantsAssumption DEF Inv
  <1>1. o \in Wrappers /\ o \in SlotHolders /\ o \notin ContextUsers /\ o \notin Contexts
    BY DEF Wrappers, SlotHolders, ContextUsers
  <1>2. TypesInv(rs, ks, sl)
    BY <1>1 DEF TypesInv, KernelStates, NoSlots
  <1>3. /\ ks[o] = "gone" /\ \A w \in Wrappers : w # o => ks[w] = kernels[w]
        /\ \A s \in Slots : sl[o][s] = None
        /\ \A x \in SlotHolders : x # o => sl[x] = regs[x]
    BY <1>1 DEF TypesInv, NoSlots
  <1> HIDE DEF ks, sl
  <1>4. \A u \in T : obj[u] # o /\ obj[u] \in Wrappers \cup {None}
    BY <1>1 DEF FrameInv, TypeOK, Built
  <1>5. FrameInv(T, rs, {})
    BY DEF FrameInv
  <1>6. FrameKernelInv(T, ks)
    BY <1>3, <1>4 DEF FrameKernelInv, FrameInv, Built, Wrappers
  <1>7. KernelInv(T, rs, ks, {})
    BY <1>1, <1>3, <1>4 DEF KernelInv
  <1>8. ContextInv(T, rs, {})
    BY <1>1 DEF ContextInv, OwesContext
  <1>9. \A x \in SlotHolders, s \in Slots :
            sl[x][s] # None =>
               /\ handlerOf[sl[x][s]] \in Handlers
               /\ sl[x][s] \in rs[handlerOf[sl[x][s]]]
               /\ ks[x] \in {"live", "destroying"}
    BY <1>3 DEF RegsInv, SlotHolders, Wrappers
  <1>10. \A h \in Handlers, r \in Regs : r \in rs[h] => handlerOf[r] = h
    BY DEF RegsInv
  <1>11. HoldersInv(T, rs)
    OBVIOUS
  <1>12. Inv(T, left, ks, sl, {}) 
    BY <1>2, <1>5, <1>6, <1>7, <1>8, <1>9, <1>10, <1>11, DestroyUnsharedStep
  <1>13. slots' = sl /\ Continue(t, left, ks)
    BY DEF sl, ks
  <1> QED
    BY <1>12, <1>13, ContinueStep

\* Giving up a reference, the last one or not, preserves the invariant.
LEMMA DecrefStep ==
  ASSUME TypeOK, NEW t \in Threads, NEW rs, NEW w \in Wrappers,
         Inv(Threads \ {t}, rs, kernel, slots, {w}),
         Decref(t, rs, w), UNCHANGED <<handlerOf, context>>
  PROVE  IInv'
  <1> USE ConstantsAssumption
  <1>1. CASE rs[w] # {} /\ Continue(t, rs, kernel) /\ UNCHANGED slots
    <2>1. Inv(Threads \ {t}, rs, kernel, slots, {})
      <3> USE DEF Inv
      <3>1. FrameInv(Threads \ {t}, rs, {})
        BY DEF FrameInv
      <3>2. KernelInv(Threads \ {t}, rs, kernel, {})
        BY <1>1 DEF KernelInv
      <3>3. ContextInv(Threads \ {t}, rs, {})
        BY <1>1 DEF ContextInv, OwesContext
      <3> QED
        BY <3>1, <3>2, <3>3
    <2> QED
      BY <1>1, <2>1, ContinueStep
  <1>2. CASE rs[w] = {} /\ w \in CtxOptions /\ FreeCtxOptions(t, rs, w)
    BY <1>2, FreeOptionsStep DEF FreeCtxOptions
  <1>3. CASE rs[w] = {} /\ w \in MgrOptions /\ FreeMgrOptions(t, rs, w)
    <2> DEFINE ks == [kernel EXCEPT ![w] = "gone"]
    <2>1. /\ ks[w] = "gone" /\ \A x \in Wrappers : x # w => ks[x] = kernel[x]
          /\ TypesInv(rs, ks, slots)
      BY DEF Inv, TypesInv, KernelStates
    <2>2. DecrefContext(t, rs, ks, w) /\ UNCHANGED slots
      BY <1>3 DEF FreeMgrOptions
    <2> HIDE DEF ks
    <2>3. w \in ContextUsers /\ w \notin SlotHolders /\ w \notin Built
      BY <1>3 DEF ContextUsers, SlotHolders, Built
    <2>4. FrameKernelInv(Threads \ {t}, ks)
      BY <2>1, <2>3 DEF FrameKernelInv, FrameInv, Inv, Built, Wrappers
    <2>5. KernelInv(Threads \ {t}, rs, ks, {w})
      BY <1>3, <2>1, <2>3 DEF KernelInv, Inv, FrameInv
    <2>6. RegsInv(rs, ks, slots)
      BY <2>1, <2>3 DEF RegsInv, Inv, SlotHolders, Wrappers
    <2> QED
      BY <1>3, <2>1, <2>2, <2>3, <2>4, <2>5, <2>6, DecrefContextStep DEF Inv
  <1>4. CASE rs[w] = {} /\ w \in Contexts /\ BeginDestroy(t, rs, kernel, w) /\ UNCHANGED slots
    <2>1. kernel[w] = "live" /\ w \in Built
      BY <1>4 DEF Inv, KernelInv, Built, ContextUsers
    <2> QED
      BY <1>4, <2>1, BeginDestroyStep
  <1>5. CASE rs[w] = {} /\ w \in Managers /\ FreeManager(t, rs, w)
    <2>1. CASE kernel[w] = "live"
      BY <1>5, <2>1, BeginDestroyStep DEF FreeManager, Built
    <2>2. CASE kernel[w] # "live"
      BY <1>5, <2>2, DecrefContextStep DEF FreeManager, ContextUsers
    <2> QED
      BY <2>1, <2>2
  <1> QED
    BY <1>1, <1>2, <1>3, <1>4, <1>5 DEF Decref

\* The invariant of everything but the frame of t, which may hold references.
InvBut(t, rs, ks, sl) ==
    LET T == Threads \ {t}
    IN  /\ TypesInv(rs, ks, sl)
        /\ HoldersInv(Threads, rs)
        /\ FrameInv(T, rs, {})
        /\ FrameKernelInv(T, ks)
        /\ KernelInv(T, rs, ks, {})
        /\ ContextInv(T, rs, {})
        /\ RegsInv(rs, ks, sl)

\* Thread t gives up the last reference of its frame, or one of the program's.
LEMMA LetGo ==
  ASSUME TypeOK, NEW t \in Threads, NEW rs, NEW ks, NEW sl,
         NEW w \in Wrappers, NEW e \in {t, Var},
         InvBut(t, rs, ks, sl), e \in rs[w],
         \A x \in Wrappers : t \in rs[x] => e = t /\ x = w
  PROVE  Inv(Threads \ {t}, [rs EXCEPT ![w] = @ \ {e}], ks, sl, {w})
  <1> DEFINE T == Threads \ {t}
             left == [rs EXCEPT ![w] = @ \ {e}]
  <1> USE ConstantsAssumption DEF InvBut
  <1>1. left \in [Wrappers \cup Handlers -> SUBSET Holders]
    BY DEF TypesInv
  <1>2. /\ left[w] = rs[w] \ {e}
        /\ \A x \in Wrappers \cup Handlers : x # w => left[x] = rs[x]
    BY DEF TypesInv
  <1>4. \A h \in Handlers : h # w
    OBVIOUS
  <1>5. \A u \in T : u # e
    OBVIOUS
  <1>6. \A u \in ContextUsers : u # e /\ u \in Wrappers
    BY DEF Wrappers, ContextUsers
  <1> HIDE DEF left
  <1>7. TypesInv(left, ks, sl)
    BY <1>1 DEF TypesInv
  <1>8. HoldersInv(T, left)
    <2>1. \A x \in Wrappers : t \notin left[x]
      BY <1>2
    <2>2. \A x \in Wrappers \cup Handlers : left[x] \subseteq rs[x]
      BY <1>2
    <2> QED
      BY <2>1, <2>2 DEF HoldersInv, Wrappers
  <1>9. FrameInv(T, left, {w})
    <2>1. \A u \in T, x \in Wrappers : u \in left[x] <=> u \in rs[x]
      BY <1>2, <1>5
    <2>2. \A u \in T : pc[u] # "py" => obj[u] \in Wrappers
      BY DEF FrameInv, Built, Wrappers
    <2>3. \A u \in T : src[u] # None => src[u] \in Wrappers
      BY DEF TypeOK, Wrappers, Options
    <2>4. \A x \in Wrappers : rs[x] = {} => left[x] = {}
      BY <1>2
    <2>5. \A x \in Wrappers : left[x] # {} => rs[x] # {}
      BY <1>2
    <2> QED
      BY <2>1, <2>2, <2>3, <2>4, <2>5 DEF FrameInv, Creating, Freeing
  <1>10. KernelInv(T, left, ks, {w})
    BY <1>2 DEF KernelInv, ContextUsers
  <1>11. ContextInv(T, left, {w})
    BY <1>2, <1>6 DEF ContextInv, OwesContext, Wrappers
  <1>12. RegsInv(left, ks, sl)
    BY <1>2, <1>4 DEF RegsInv
  <1>13. Inv(T, left, ks, sl, {w})
    BY <1>7, <1>8, <1>9, <1>10, <1>11, <1>12 DEF Inv
  <1> QED
    BY <1>13 DEF left

LEMMA LetGoStep ==
  ASSUME TypeOK, NEW t \in Threads, NEW rs, NEW w \in Wrappers, NEW e \in {t, Var},
         InvBut(t, rs, kernel, slots), e \in rs[w],
         \A x \in Wrappers : t \in rs[x] => e = t /\ x = w,
         Decref(t, [rs EXCEPT ![w] = @ \ {e}], w), UNCHANGED <<handlerOf, context>>
  PROVE  IInv'
  BY LetGo, DecrefStep

\* A constructor that returns lets go of the options it was given.
LEMMA ReturnFromStep ==
  ASSUME TypeOK, NEW t \in Threads, NEW rs,
         InvBut(t, rs, kernel, slots),
         src[t] # None => t \in rs[src[t]],
         \A x \in Wrappers : t \in rs[x] => x = src[t],
         ReturnFrom(t, rs), UNCHANGED <<handlerOf, context>>
  PROVE  IInv'
  <1>1. CASE src[t] = None
    <2>1. \A x \in Wrappers : t \notin rs[x]
      BY <1>1, ConstantsAssumption
    <2>2. HoldersInv(Threads \ {t}, rs)
      BY <2>1 DEF InvBut, HoldersInv, Wrappers
    <2>3. Continue(t, rs, kernel) /\ UNCHANGED slots
      BY <1>1 DEF ReturnFrom
    <2> QED
      BY <2>2, <2>3, ContinueStep DEF InvBut, Inv
  <1>2. CASE src[t] # None
    <2>1. src[t] \in Wrappers
      BY <1>2 DEF TypeOK, Wrappers, Options
    <2>2. Decref(t, [rs EXCEPT ![src[t]] = @ \ {t}], src[t])
      BY <1>2 DEF ReturnFrom
    <2> QED
      BY <1>2, <2>1, <2>2, LetGoStep
  <1> QED
    BY <1>1, <1>2

LEMMA InvariantInit == Init => IInv
  <1> SUFFICES ASSUME Init  PROVE IInv
    OBVIOUS
  <1> USE ConstantsAssumption DEF Init
  <1>1. TypeOK
    BY DEF TypeOK, PCs, Holders, Wrappers, SlotHolders, ContextUsers, NoSlots
  <1>2. TypesInv(refs, kernel, slots)
    BY <1>1 DEF TypeOK, TypesInv, KernelStates
  <1>3. HoldersInv(Threads, refs)
    BY DEF HoldersInv, Wrappers
  <1>4. FrameInv(Threads, refs, {})
    BY DEF FrameInv, Creating, Freeing, Wrappers
  <1>5. FrameKernelInv(Threads, kernel)
    BY DEF FrameKernelInv
  <1>6. KernelInv(Threads, refs, kernel, {})
    BY DEF KernelInv, Wrappers
  <1>7. ContextInv(Threads, refs, {})
    BY DEF ContextInv, OwesContext, Wrappers, ContextUsers, Freeing
  <1>8. RegsInv(refs, kernel, slots)
    BY DEF RegsInv, NoSlots, Wrappers
  <1> QED
    BY <1>1, <1>2, <1>3, <1>4, <1>5, <1>6, <1>7, <1>8 DEF IInv, Inv

\* Python code.
LEMMA GilStep ==
  ASSUME IInv, NEW t \in Threads, AcquireGil(t) \/ YieldGil(t)
  PROVE  IInv'
  <1> USE DEF IInv, Inv, AcquireGil, YieldGil, Running
  <1>1. TypeOK'
    BY DEF TypeOK
  <1>2. UNCHANGED <<pc, obj, src, refs, kernel, slots, handlerOf, context>>
    OBVIOUS
  <1>3. TypesInv(refs, kernel, slots)' /\ HoldersInv(Threads, refs)'
    BY <1>2 DEF TypesInv, HoldersInv
  <1>4. FrameInv(Threads, refs, {})' /\ FrameKernelInv(Threads, kernel)'
    BY <1>2 DEF FrameInv, FrameKernelInv
  <1>5. KernelInv(Threads, refs, kernel, {})' /\ ContextInv(Threads, refs, {})'
    BY <1>2 DEF KernelInv, ContextInv, OwesContext
  <1>6. RegsInv(refs, kernel, slots)'
    BY <1>2 DEF RegsInv
  <1> QED
    BY <1>1, <1>3, <1>4, <1>5, <1>6

LEMMA DropHandlerStep ==
  ASSUME IInv, NEW t \in Threads, NEW h \in Handlers, DropHandler(t, h)
  PROVE  IInv'
  <1> USE ConstantsAssumption DEF IInv, Inv, DropHandler
  <1>1. TypeOK' /\ TypesInv(refs, kernel, slots)'
    BY DEF TypeOK, TypesInv
  <1>2. /\ \A w \in Wrappers : refs'[w] = refs[w]
        /\ \A x \in Handlers : refs'[x] \subseteq refs[x]
        /\ \A x \in Handlers, r \in Regs : r \in refs'[x] <=> r \in refs[x]
    BY DEF TypesInv
  <1>3. HoldersInv(Threads, refs)'
    BY <1>2 DEF HoldersInv, Wrappers
  <1>4. \A u \in Threads : /\ pc[u] # "py" => obj[u] \in Wrappers
                           /\ src[u] # None => src[u] \in Wrappers
    BY DEF FrameInv, TypeOK, Built, Wrappers, Options
  <1>5. FrameInv(Threads, refs, {})'
    BY <1>2, <1>4 DEF FrameInv, Creating, Freeing
  <1>6. FrameKernelInv(Threads, kernel)'
    BY DEF FrameKernelInv
  <1>7. KernelInv(Threads, refs, kernel, {})'
    BY <1>2 DEF KernelInv
  <1>8. ContextInv(Threads, refs, {})'
    BY <1>2 DEF ContextInv, OwesContext, Wrappers, ContextUsers
  <1>9. RegsInv(refs, kernel, slots)'
    BY <1>1, <1>2 DEF RegsInv, TypesInv
  <1> QED
    BY <1>1, <1>3, <1>5, <1>6, <1>7, <1>8, <1>9

\* An INCREF for the new registration, and the one it replaces goes.
LEMMA SetHandlerStep ==
  ASSUME IInv, NEW t \in Threads, NEW o \in CtxOptions, NEW s \in Slots,
         NEW h \in Handlers, NEW r \in Regs, SetHandler(t, o, s, h, r)
  PROVE  IInv'
  <1> DEFINE rs == [refs EXCEPT ![h] = @ \cup {r}]
  <1> USE ConstantsAssumption DEF IInv, Inv
  <1>1. /\ Running(t) /\ Var \in refs[o] /\ handlerOf[r] = None
        /\ handlerOf' = [handlerOf EXCEPT ![r] = h]
        /\ slots' = [slots EXCEPT ![o][s] = r]
        /\ UNCHANGED <<gil, pc, obj, src, kernel, context>>
    BY DEF SetHandler
  <1>2. rs \in [Wrappers \cup Handlers -> SUBSET Holders]
    BY DEF TypesInv, Holders
  <1>3. /\ \A w \in Wrappers : rs[w] = refs[w]
        /\ rs[h] = refs[h] \cup {r}
        /\ \A x \in Handlers : x # h => rs[x] = refs[x]
    BY DEF TypesInv
  <1>4. refs' = [x \in Wrappers \cup Handlers |->
                    rs[x] \ {q \in Regs : handlerOf[q] = x /\ Sharers(slots', q) = {}}]
    BY DEF SetHandler, DestroyUnshared
  <1> HIDE DEF rs
  <1>5. refs' \in [Wrappers \cup Handlers -> SUBSET Holders]
    BY <1>2, <1>4
  <1>6. \A w \in Wrappers : refs'[w] = refs[w]
    <2> SUFFICES ASSUME NEW w \in Wrappers  PROVE refs'[w] = refs[w]
      OBVIOUS
    <2>1. \A q \in Regs : q \notin rs[w]
      BY <1>3 DEF HoldersInv, Wrappers, ContextUsers
    <2>2. refs'[w] = rs[w] \ {q \in Regs : handlerOf[q] = w /\ Sharers(slots', q) = {}}
      BY <1>4
    <2> QED
      BY <1>3, <2>1, <2>2
  <1>7. \A x \in Handlers, q \in Regs :
          q \in refs'[x] <=> /\ q \in refs[x] \/ (x = h /\ q = r)
                             /\ handlerOf[q] = x => Sharers(slots', q) # {}
    <2> SUFFICES ASSUME NEW x \in Handlers, NEW q \in Regs
                 PROVE  q \in refs'[x] <=> /\ q \in refs[x] \/ (x = h /\ q = r)
                                           /\ handlerOf[q] = x => Sharers(slots', q) # {}
      OBVIOUS
    <2>1. q \in rs[x] <=> q \in refs[x] \/ (x = h /\ q = r)
      <3>1. CASE x = h
        BY <1>3, <3>1
      <3>2. CASE x # h
        BY <1>3, <3>2
      <3> QED
        BY <3>1, <3>2
    <2>2. refs'[x] = rs[x] \ {p \in Regs : handlerOf[p] = x /\ Sharers(slots', p) = {}}
      BY <1>4
    <2> QED
      BY <2>1, <2>2
  <1>8. \A x \in Handlers : refs'[x] \subseteq Regs \cup {Var}
    BY <1>3, <1>4 DEF HoldersInv
  <1>9. TypeOK'
    BY <1>1, <1>5 DEF TypeOK, SlotHolders
  <1>10. TypesInv(refs, kernel, slots)'
    BY <1>9 DEF TypeOK, TypesInv, KernelStates
  <1>11. HoldersInv(Threads, refs)'
    BY <1>6, <1>8 DEF HoldersInv, Wrappers
  <1>12. \A u \in Threads : /\ pc[u] # "py" => obj[u] \in Wrappers
                            /\ src[u] # None => src[u] \in Wrappers
    BY DEF FrameInv, TypeOK, Built, Wrappers, Options
  <1>13. FrameInv(Threads, refs, {})'
    BY <1>1, <1>6, <1>12 DEF FrameInv, Creating, Freeing
  <1>14. FrameKernelInv(Threads, kernel)'
    BY <1>1 DEF FrameKernelInv
  <1>15. KernelInv(Threads, refs, kernel, {})'
    BY <1>1, <1>6 DEF KernelInv
  <1>16. ContextInv(Threads, refs, {})'
    BY <1>1, <1>6 DEF ContextInv, OwesContext, Wrappers, ContextUsers
  <1>17. RegsInv(refs, kernel, slots)'
    <2>1. o \in SlotHolders /\ kernel[o] = "live"
      BY <1>1 DEF SlotHolders, KernelInv, Wrappers
    <2>2. /\ slots'[o][s] = r
          /\ \A x \in SlotHolders, y \in Slots :
                x # o \/ y # s => slots'[x][y] = slots[x][y]
      BY <1>1, <2>1 DEF TypesInv
    <2>3. /\ handlerOf'[r] = h
          /\ \A q \in Regs : q # r => handlerOf'[q] = handlerOf[q]
      BY <1>1 DEF TypeOK
    <2>4. \A x \in SlotHolders, y \in Slots :
            slots[x][y] # None => slots[x][y] \in Regs /\ slots[x][y] # r
      BY <1>1 DEF TypesInv, RegsInv
    <2>5. \A q \in Regs : Sharers(slots', q) # {} <=>
            \E x \in SlotHolders, y \in Slots : slots'[x][y] = q
      BY DEF Sharers
    <2>6. \A x \in SlotHolders, y \in Slots :
            slots'[x][y] # None => \/ slots'[x][y] = r /\ x = o
                                   \/ slots'[x][y] = slots[x][y] /\ slots[x][y] # r
      BY <2>2, <2>4
    <2>7. \A x \in SlotHolders, y \in Slots :
            slots'[x][y] # None =>
               /\ handlerOf'[slots'[x][y]] \in Handlers
               /\ slots'[x][y] \in refs'[handlerOf'[slots'[x][y]]]
               /\ kernel[x] \in {"live", "destroying"}
      <3> SUFFICES ASSUME NEW x \in SlotHolders, NEW y \in Slots, slots'[x][y] # None
                   PROVE  /\ handlerOf'[slots'[x][y]] \in Handlers
                          /\ slots'[x][y] \in refs'[handlerOf'[slots'[x][y]]]
                          /\ kernel[x] \in {"live", "destroying"}
        OBVIOUS
      <3>1. CASE slots'[x][y] = r /\ x = o
        BY <1>1, <1>7, <2>1, <2>3, <3>1
      <3>2. CASE slots'[x][y] = slots[x][y] /\ slots[x][y] # r
        <4> DEFINE q == slots[x][y]
        <4>1. /\ q \in Regs /\ q # r /\ q # None /\ handlerOf[q] \in Handlers
              /\ q \in refs[handlerOf[q]] /\ kernel[x] \in {"live", "destroying"}
          BY <2>4, <3>2 DEF RegsInv
        <4>2. Sharers(slots', q) # {}
          BY <2>5, <3>2, <4>1
        <4> QED
          BY <1>7, <2>3, <3>2, <4>1, <4>2
      <3> QED
        BY <2>6, <3>1, <3>2
    <2>8. \A x \in Handlers, q \in Regs :
            q \in refs'[x] => /\ handlerOf'[q] = x
                              /\ \E y \in SlotHolders, z \in Slots : slots'[y][z] = q
      <3> SUFFICES ASSUME NEW x \in Handlers, NEW q \in Regs, q \in refs'[x]
                   PROVE  /\ handlerOf'[q] = x
                          /\ \E y \in SlotHolders, z \in Slots : slots'[y][z] = q
        OBVIOUS
      <3>1. r \notin refs[x]
        BY <1>1 DEF RegsInv
      <3>2. CASE q = r
        BY <1>7, <2>1, <2>2, <2>3, <3>1, <3>2
      <3>3. CASE q # r
        BY <1>7, <2>3, <2>5, <3>3 DEF RegsInv
      <3> QED
        BY <3>2, <3>3
    <2> QED
      BY <1>1, <2>7, <2>8 DEF RegsInv
  <1> QED
    BY <1>9, <1>10, <1>11, <1>13, <1>14, <1>15, <1>16, <1>17

LEMMA ReleaseRegistrationStep ==
  ASSUME IInv, NEW t \in Threads, NEW s \in Slots, ReleaseRegistration(t, s)
  PROVE  IInv'
  <1> DEFINE c == obj[t]
             sl == [slots EXCEPT ![c][s] = None]
  <1> USE ConstantsAssumption DEF IInv, Inv
  <1>1. /\ c \in Contexts /\ c \in SlotHolders
        /\ slots' = sl /\ refs' = DestroyUnshared(refs, sl)
        /\ UNCHANGED <<gil, pc, obj, src, kernel, handlerOf, context>>
    BY DEF ReleaseRegistration, SlotHolders
  <1>2. TypesInv(refs, kernel, sl)
    BY <1>1 DEF TypesInv
  <1>3. \A o \in SlotHolders, x \in Slots : sl[o][x] # None => sl[o][x] = slots[o][x]
    BY <1>1 DEF TypesInv
  <1> HIDE DEF sl
  <1>4. \A o \in SlotHolders, x \in Slots :
            sl[o][x] # None =>
               /\ handlerOf[sl[o][x]] \in Handlers
               /\ sl[o][x] \in refs[handlerOf[sl[o][x]]]
               /\ kernel[o] \in {"live", "destroying"}
    BY <1>3 DEF RegsInv
  <1>5. \A h \in Handlers, r \in Regs : r \in refs[h] => handlerOf[r] = h
    BY DEF RegsInv
  <1>6. /\ TypesInv(refs', kernel, sl) /\ HoldersInv(Threads, refs')
        /\ FrameInv(Threads, refs', {}) /\ KernelInv(Threads, refs', kernel, {})
        /\ ContextInv(Threads, refs', {}) /\ RegsInv(refs', kernel, sl)
    BY <1>1, <1>2, <1>4, <1>5, DestroyUnsharedStep
  <1>7. TypeOK'
    BY <1>1, <1>6 DEF TypeOK, TypesInv
  <1>8. TypesInv(refs, kernel, slots)' /\ HoldersInv(Threads, refs)'
    BY <1>1, <1>6 DEF TypesInv, HoldersInv
  <1>9. FrameInv(Threads, refs, {})'
    BY <1>1, <1>6 DEF FrameInv
  <1>10. FrameKernelInv(Threads, kernel)'
    BY <1>1 DEF FrameKernelInv
  <1>11. KernelInv(Threads, refs, kernel, {})'
    BY <1>1, <1>6 DEF KernelInv
  <1>12. ContextInv(Threads, refs, {})'
    BY <1>1, <1>6 DEF ContextInv, OwesContext
  <1>13. RegsInv(refs, kernel, slots)'
    BY <1>1, <1>6 DEF RegsInv
  <1> QED
    BY <1>7, <1>8, <1>9, <1>10, <1>11, <1>12, <1>13

\* Wrappers made with the GIL held.
LEMMA NewCtxOptionsStep ==
  ASSUME IInv, NEW t \in Threads, NEW o \in CtxOptions, NewCtxOptions(t, o)
  PROVE  IInv'
  <1> USE ConstantsAssumption DEF IInv, Inv
  <1>1. o \in Wrappers /\ o \notin Built /\ o \notin ContextUsers /\ o \notin Contexts
    BY DEF Wrappers, Built, ContextUsers
  <1>2. /\ kernel[o] = "absent" /\ refs[o] = {}
        /\ UNCHANGED <<gil, pc, obj, src, slots, handlerOf, context>>
    BY <1>1 DEF NewCtxOptions, KernelInv
  <1>3. /\ \A x \in Wrappers \cup Handlers : x # o => refs'[x] = refs[x]
        /\ \A w \in Wrappers : w # o => kernel'[w] = kernel[w]
        /\ \/ kernel'[o] = "live" /\ refs'[o] = {Var}
           \/ kernel'[o] = "gone" /\ refs'[o] = {}
    BY <1>1, <1>2 DEF NewCtxOptions, TypesInv
  <1>4. TypesInv(refs, kernel, slots)'
    BY <1>1, <1>2 DEF NewCtxOptions, TypesInv, KernelStates, Holders
  <1>5. TypeOK'
    BY <1>2, <1>4 DEF TypeOK, TypesInv, KernelStates
  <1>6. \A h \in Handlers : h # o
    BY <1>1
  <1>7. HoldersInv(Threads, refs)'
    BY <1>1, <1>3, <1>6 DEF HoldersInv, Wrappers
  <1>8. \A u \in Threads : /\ pc[u] # "py" => obj[u] \in Wrappers /\ obj[u] # o
                           /\ src[u] # None => src[u] \in Wrappers /\ src[u] # o
    BY <1>1, <1>2 DEF FrameInv, TypeOK, Built, Wrappers, Options
  <1>9. FrameInv(Threads, refs, {})'
    <2>1. \A u \in Threads : u # Var
      OBVIOUS
    <2>2. \A u \in Threads, w \in Wrappers : u \in refs'[w] => u \in refs[w]
      BY <1>3, <2>1
    <2> QED
      BY <1>2, <1>3, <1>8, <2>2 DEF FrameInv, Creating, Freeing
  <1>10. FrameKernelInv(Threads, kernel)'
    BY <1>2, <1>3, <1>8 DEF FrameKernelInv
  <1>11. KernelInv(Threads, refs, kernel, {})'
    BY <1>1, <1>2, <1>3 DEF KernelInv
  <1>12. ContextInv(Threads, refs, {})'
    <2>1. \A u \in ContextUsers : refs'[u] = refs[u]
      BY <1>1, <1>3 DEF Wrappers, ContextUsers
    <2>2. \A c \in Contexts : refs'[c] = refs[c]
      BY <1>1, <1>3 DEF Wrappers
    <2> QED
      BY <1>2, <2>1, <2>2 DEF ContextInv, OwesContext
  <1>13. RegsInv(refs, kernel, slots)'
    BY <1>2, <1>3, <1>6 DEF RegsInv, SlotHolders, Wrappers
  <1> QED
    BY <1>4, <1>5, <1>7, <1>9, <1>10, <1>11, <1>12, <1>13

LEMMA NewMgrOptionsStep ==
  ASSUME IInv, NEW t \in Threads, NEW m \in MgrOptions, NEW c \in Contexts,
         NewMgrOptions(t, m, c)
  PROVE  IInv'
  <1> USE ConstantsAssumption DEF IInv, Inv
  <1>1. /\ m \in Wrappers /\ m \notin Built /\ m \in ContextUsers /\ m \notin SlotHolders
        /\ c \in Wrappers /\ c # m /\ c \notin ContextUsers
    BY DEF Wrappers, Built, ContextUsers, SlotHolders
  <1>2. /\ kernel[m] = "absent" /\ refs[m] = {} /\ Var \in refs[c]
        /\ UNCHANGED <<gil, pc, obj, src, slots, handlerOf>>
    BY <1>1 DEF NewMgrOptions, KernelInv
  <1>3. /\ \A x \in Wrappers \cup Handlers : x \notin {c, m} => refs'[x] = refs[x]
        /\ \A w \in Wrappers : w # m => kernel'[w] = kernel[w]
        /\ \A u \in ContextUsers : u # m => context'[u] = context[u]
        /\ \/ /\ kernel'[m] = "live" /\ context'[m] = c
              /\ refs'[m] = {Var} /\ refs'[c] = refs[c] \cup {m}
           \/ kernel'[m] = "gone" /\ refs'[m] = {} /\ refs'[c] = refs[c]
    BY <1>1, <1>2 DEF NewMgrOptions, TypesInv, TypeOK
  <1>4. TypesInv(refs, kernel, slots)'
    BY <1>1, <1>2 DEF NewMgrOptions, TypesInv, KernelStates, Holders
  <1>5. TypeOK'
    BY <1>1, <1>2, <1>4 DEF NewMgrOptions, TypeOK, TypesInv, KernelStates
  <1>6. \A h \in Handlers : h # m /\ h # c
    BY <1>1
  <1>7. HoldersInv(Threads, refs)'
    BY <1>1, <1>3, <1>6 DEF HoldersInv, Wrappers
  <1>8. \A u \in Threads :
           /\ pc[u] # "py" => obj[u] \in Wrappers /\ obj[u] # m
           /\ src[u] # None => src[u] \in Wrappers /\ src[u] # m
    BY <1>1, <1>2 DEF FrameInv, TypeOK, Built, Wrappers, Options
  <1>9. \A u \in Threads : pc[u] # "py" => obj[u] # c
    BY <1>1, <1>2 DEF FrameInv, HoldersInv, ContextUsers, Creating, Freeing, TypeOK, PCs,
          KernelInv, FrameKernelInv
  <1>10. FrameInv(Threads, refs, {})'
    <2>1. \A u \in Threads : u # Var /\ u # m
      BY <1>1
    <2>2. \A u \in Threads, w \in Wrappers : u \in refs'[w] <=> u \in refs[w]
      BY <1>2, <1>3, <2>1
    <2> QED
      BY <1>2, <1>3, <1>8, <1>9, <2>2 DEF FrameInv, Creating, Freeing
  <1>11. FrameKernelInv(Threads, kernel)'
    BY <1>2, <1>3, <1>8 DEF FrameKernelInv
  <1>12. KernelInv(Threads, refs, kernel, {})'
    BY <1>1, <1>2, <1>3 DEF KernelInv
  <1>13. ContextInv(Threads, refs, {})'
    <2>1. \A u \in ContextUsers : u # m => refs'[u] = refs[u]
      BY <1>1, <1>3 DEF Wrappers, ContextUsers
    <2>2. \A d \in Contexts, u \in ContextUsers : u # m => (u \in refs'[d] <=> u \in refs[d])
      BY <1>1, <1>3 DEF Wrappers
    <2>3. \A u \in Threads : obj[u] # m
      BY <1>1, <1>8 DEF FrameInv
    <2>4. \A u \in ContextUsers : u # m =>
            (OwesContext(u, Threads, refs, {})' <=> OwesContext(u, Threads, refs, {}))
      BY <1>2, <2>1 DEF OwesContext
    <2>5. OwesContext(m, Threads, refs, {})' => context'[m] = c /\ m \in refs'[c]
      BY <1>2, <1>3, <2>3 DEF OwesContext
    <2>6. \A d \in Contexts : m \in refs'[d] => context'[m] = d /\ refs'[m] # {}
      BY <1>1, <1>2, <1>3, <2>3 DEF ContextInv, OwesContext, Wrappers
    <2>7. \A u \in ContextUsers :
            /\ OwesContext(u, Threads, refs, {})' =>
                  context'[u] \in Contexts /\ u \in refs'[context'[u]]
            /\ \A d \in Contexts :
                  u \in refs'[d] => context'[u] = d /\ OwesContext(u, Threads, refs, {})'
      <3> SUFFICES ASSUME NEW u \in ContextUsers
            PROVE /\ OwesContext(u, Threads, refs, {})' =>
                        context'[u] \in Contexts /\ u \in refs'[context'[u]]
                  /\ \A d \in Contexts :
                        u \in refs'[d] => context'[u] = d /\ OwesContext(u, Threads, refs, {})'
        OBVIOUS
      <3>1. CASE u = m
        BY <2>5, <2>6, <3>1 DEF OwesContext
      <3>2. CASE u # m
        BY <1>3, <2>2, <2>4, <3>2 DEF ContextInv
      <3> QED
        BY <3>1, <3>2
    <2>8. \A u \in Threads :
            obj[u] \in Managers /\ src[u] # None /\ pc[u] \in {"made"} \cup Freeing =>
                context'[obj[u]] = context'[src[u]]
      <3>1. \A u \in Threads : obj[u] \in Managers /\ src[u] # None /\ pc[u] # "py" =>
              src[u] \in ContextUsers /\ src[u] # m
        BY <1>8 DEF FrameInv, TypeOK, PCs, Creating, Freeing, ContextUsers
      <3> QED
        BY <1>3, <2>3, <3>1 DEF ContextInv, ContextUsers, Freeing
    <2> QED
      BY <1>2, <2>7, <2>8 DEF ContextInv
  <1>14. RegsInv(refs, kernel, slots)'
    BY <1>1, <1>2, <1>3, <1>6 DEF RegsInv, SlotHolders, Wrappers
  <1> QED
    BY <1>4, <1>5, <1>7, <1>10, <1>11, <1>12, <1>13, <1>14

\* Into the kernel to make a context or a manager.
LEMMA BeginCreateStep ==
  ASSUME IInv, NEW t \in Threads, NEW w \in Built, NEW o \in Options \cup {None},
         w \in Contexts => o \in CtxOptions \cup {None},
         w \in Managers => o \in MgrOptions,
         o # None => Var \in refs[o],
         BeginCreate(t, w, o)
  PROVE  IInv'
  <1> USE ConstantsAssumption DEF IInv, Inv
  <1>1. /\ w \in Wrappers /\ w # None /\ w # o /\ o \notin Built
        /\ o # None => o \in Wrappers /\ o \notin Contexts
    BY DEF Wrappers, Options, Built
  <1>2. /\ pc[t] = "py" /\ obj[t] = None /\ src[t] = None
        /\ kernel[w] = "absent" /\ refs[w] = {}
        /\ \A u \in Threads : obj[u] # w
        /\ UNCHANGED <<kernel, slots, handlerOf, context>>
    BY <1>1 DEF BeginCreate, Running, FrameInv, KernelInv
  <1>3. /\ pc'[t] = "new" /\ obj'[t] = w /\ src'[t] = o
        /\ \A u \in Threads : u # t => pc'[u] = pc[u] /\ obj'[u] = obj[u] /\ src'[u] = src[u]
    BY DEF BeginCreate, TypeOK
  <1>4. /\ \A x \in Wrappers \cup Handlers : x # o => refs'[x] = refs[x]
        /\ o # None => refs'[o] = refs[o] \cup {t}
    BY <1>1 DEF BeginCreate
  <1>5. TypesInv(refs, kernel, slots)'
    BY <1>2 DEF BeginCreate, TypesInv, Holders
  <1>6. TypeOK'
    BY <1>1, <1>2, <1>5 DEF BeginCreate, TypeOK, TypesInv, KernelStates, PCs
  <1>7. \A h \in Handlers : h # o
    BY <1>1
  <1>8. HoldersInv(Threads, refs)'
    <2>1. \A x \in Wrappers \ Contexts : refs'[x] \subseteq Threads \cup {Var}
      BY <1>1, <1>4 DEF HoldersInv
    <2>2. \A x \in Contexts \cup Handlers : refs'[x] = refs[x]
      BY <1>1, <1>4, <1>7 DEF Wrappers
    <2> QED
      BY <2>1, <2>2 DEF HoldersInv
  <1>9. \A u \in Threads : /\ pc[u] # "py" => obj[u] \in Wrappers /\ obj[u] # o
                           /\ src[u] # None => src[u] \in Wrappers
    BY <1>1 DEF FrameInv, TypeOK, Built, Wrappers, Options
  <1>10. \A x \in Wrappers : t \notin refs[x]
    BY <1>1, <1>2 DEF FrameInv
  <1>11. FrameInv(Threads, refs, {})'
    <2>1. \A u \in Threads, x \in Wrappers : u # t => (u \in refs'[x] <=> u \in refs[x])
      BY <1>1, <1>4
    <2>2. \A x \in Wrappers : t \in refs'[x] <=> x = o
      BY <1>1, <1>4, <1>10
    <2>3. refs'[w] = {}
      BY <1>1, <1>2, <1>4
    <2>4. \A u \in Threads : u # t /\ pc[u] # "py" => refs'[obj[u]] = refs[obj[u]]
      BY <1>4, <1>9
    <2> QED
      BY <1>1, <1>2, <1>3, <1>9, <2>1, <2>2, <2>3, <2>4 DEF FrameInv, Creating, Freeing, Built
  <1>12. FrameKernelInv(Threads, kernel)'
    BY <1>2, <1>3 DEF FrameKernelInv
  <1>13. KernelInv(Threads, refs, kernel, {})'
    <2>1. \A x \in Wrappers : x # o => refs'[x] = refs[x]
      BY <1>4
    <2>2. o # None => refs[o] # {} /\ refs'[o] # {} /\ o \notin Managers /\ kernel[o] = "live"
      BY <1>1, <1>4 DEF KernelInv, Built
    <2>3. \A x \in Wrappers, p \in {"made", "free"} :
            (\E u \in Threads : obj[u] = x /\ pc[u] = p) =>
            (\E u \in Threads : obj'[u] = x /\ pc'[u] = p)
      BY <1>2, <1>3
    <2> QED
      BY <1>2, <2>1, <2>2, <2>3 DEF KernelInv
  <1>14. ContextInv(Threads, refs, {})'
    <2>1. \A x \in ContextUsers : refs'[x] # {} <=> refs[x] # {}
      BY <1>4 DEF Wrappers, ContextUsers
    <2>2. \A x \in Contexts : refs'[x] = refs[x]
      BY <1>1, <1>4 DEF Wrappers
    <2>3. \A x \in ContextUsers :
            OwesContext(x, Threads, refs, {})' <=> OwesContext(x, Threads, refs, {})
      BY <1>2, <1>3, <2>1 DEF OwesContext, Freeing
    <2> QED
      BY <1>2, <1>3, <2>2, <2>3 DEF ContextInv, Freeing
  <1>15. RegsInv(refs, kernel, slots)'
    BY <1>2, <1>4, <1>7 DEF RegsInv
  <1> QED
    BY <1>5, <1>6, <1>8, <1>11, <1>12, <1>13, <1>14, <1>15

\* close() takes the kernel manager and keeps the wrapper.
LEMMA CloseStep ==
  ASSUME IInv, NEW t \in Threads, NEW g \in Managers, Close(t, g)
  PROVE  IInv'
  <1> USE ConstantsAssumption DEF IInv, Inv
  <1>1. /\ g \in Wrappers /\ g # None /\ g \in Built /\ g \notin Contexts
        /\ g \in ContextUsers /\ g \notin SlotHolders
    BY DEF Wrappers, Built, ContextUsers, SlotHolders
  <1>2. /\ pc[t] = "py" /\ obj[t] = None /\ src[t] = None
        /\ kernel[g] = "live" /\ Var \in refs[g]
        /\ UNCHANGED <<slots, handlerOf, context>>
    BY DEF Close, Running, FrameInv
  <1>3. /\ pc'[t] = "free" /\ obj'[t] = g /\ src'[t] = None
        /\ \A u \in Threads : u # t => pc'[u] = pc[u] /\ obj'[u] = obj[u] /\ src'[u] = src[u]
    BY DEF Close, BeginDestroy, TypeOK
  <1>4. /\ refs'[g] = refs[g] \cup {t}
        /\ \A x \in Wrappers \cup Handlers : x # g => refs'[x] = refs[x]
        /\ kernel'[g] = "destroying"
        /\ \A x \in Wrappers : x # g => kernel'[x] = kernel[x]
    BY <1>1 DEF Close, BeginDestroy, TypesInv
  <1>5. TypesInv(refs, kernel, slots)'
    BY <1>1, <1>2 DEF Close, BeginDestroy, TypesInv, KernelStates, Holders
  <1>6. TypeOK'
    BY <1>1, <1>2, <1>5 DEF Close, BeginDestroy, TypeOK, TypesInv, KernelStates, PCs
  <1>7. \A h \in Handlers : h # g
    BY <1>1
  <1>8. HoldersInv(Threads, refs)'
    BY <1>1, <1>4, <1>7 DEF HoldersInv, Wrappers
  <1>9. \A u \in Threads : /\ pc[u] # "py" => obj[u] \in Wrappers
                           /\ src[u] # None => src[u] \in Wrappers
    BY DEF FrameInv, TypeOK, Built, Wrappers, Options
  <1>10. \A x \in Wrappers : t \notin refs[x]
    BY <1>1, <1>2 DEF FrameInv
  <1>11. \A u \in Threads : obj[u] # g
    BY <1>1, <1>2, <1>9 DEF FrameInv, FrameKernelInv, Creating, TypeOK, PCs
  <1>12. FrameInv(Threads, refs, {})'
    <2>1. \A u \in Threads, x \in Wrappers : u # t => (u \in refs'[x] <=> u \in refs[x])
      BY <1>4
    <2>2. \A x \in Wrappers : t \in refs'[x] <=> x = g
      BY <1>1, <1>4, <1>10
    <2>3. \A u \in Threads : u # t /\ pc[u] # "py" => refs'[obj[u]] = refs[obj[u]]
      BY <1>4, <1>9, <1>11
    <2> QED
      BY <1>1, <1>2, <1>3, <1>9, <1>11, <2>1, <2>2, <2>3 DEF FrameInv, Creating, Freeing
  <1>13. FrameKernelInv(Threads, kernel)'
    BY <1>2, <1>3, <1>4, <1>9, <1>11 DEF FrameKernelInv
  <1>14. KernelInv(Threads, refs, kernel, {})'
    <2>1. \A x \in Wrappers : x # g => refs'[x] = refs[x]
      BY <1>4
    <2>2. \A x \in Wrappers, p \in {"made", "free"} :
            (\E u \in Threads : obj[u] = x /\ pc[u] = p) =>
            (\E u \in Threads : obj'[u] = x /\ pc'[u] = p)
      BY <1>2, <1>3
    <2> QED
      BY <1>1, <1>2, <1>3, <1>4, <2>1, <2>2 DEF KernelInv
  <1>15. ContextInv(Threads, refs, {})'
    <2>1. \A x \in ContextUsers : refs'[x] # {} <=> refs[x] # {}
      BY <1>2, <1>4 DEF Wrappers, ContextUsers
    <2>2. \A x \in Contexts : refs'[x] = refs[x]
      BY <1>1, <1>4 DEF Wrappers
    <2>3. \A x \in ContextUsers :
            OwesContext(x, Threads, refs, {})' <=> OwesContext(x, Threads, refs, {})
      BY <1>2, <1>3, <2>1 DEF OwesContext, Freeing
    <2> QED
      BY <1>2, <1>3, <2>2, <2>3 DEF ContextInv, Freeing
  <1>16. RegsInv(refs, kernel, slots)'
    BY <1>1, <1>2, <1>4, <1>7 DEF RegsInv, SlotHolders, Wrappers
  <1> QED
    BY <1>5, <1>6, <1>8, <1>12, <1>13, <1>14, <1>15, <1>16

\* The kernel's own steps.
LEMMA KernelDestroyedStep ==
  ASSUME IInv, NEW t \in Threads, KernelDestroyed(t)
  PROVE  IInv'
  <1> DEFINE w == obj[t]
  <1> USE ConstantsAssumption DEF IInv, Inv
  <1>1. /\ pc[t] = "free" /\ w \in Built /\ w \in Wrappers /\ w # None
        /\ w \in Contexts => slots[w] = NoSlots
        /\ UNCHANGED <<gil, obj, src, refs, slots, handlerOf, context>>
    BY DEF KernelDestroyed, FrameInv, Built, Wrappers
  <1>2. /\ pc'[t] = "freed" /\ \A u \in Threads : u # t => pc'[u] = pc[u]
        /\ kernel[w] = "destroying" /\ kernel'[w] = "gone"
        /\ \A x \in Wrappers : x # w => kernel'[x] = kernel[x]
    BY <1>1 DEF KernelDestroyed, TypeOK, FrameKernelInv
  <1>3. TypesInv(refs, kernel, slots)' /\ TypeOK'
    BY <1>1 DEF KernelDestroyed, TypesInv, KernelStates, TypeOK, PCs
  <1>4. HoldersInv(Threads, refs)'
    BY <1>1 DEF HoldersInv
  <1>5. \A u \in Threads : obj[u] = w => u = t
    BY <1>1 DEF FrameInv
  <1>6. \A u \in Threads : pc[u] # "py" => obj[u] \in Wrappers
    BY DEF FrameInv, Built, Wrappers
  <1>7. FrameInv(Threads, refs, {})'
    BY <1>1, <1>2 DEF FrameInv, Creating, Freeing
  <1>8. FrameKernelInv(Threads, kernel)'
    BY <1>1, <1>2, <1>5, <1>6 DEF FrameKernelInv
  <1>9. KernelInv(Threads, refs, kernel, {})'
    BY <1>1, <1>2, <1>5 DEF KernelInv
  <1>10. ContextInv(Threads, refs, {})'
    <2>1. \A u \in Threads : pc'[u] \in Freeing <=> pc[u] \in Freeing
      BY <1>1, <1>2 DEF Freeing
    <2>2. \A u \in Threads : pc'[u] = "made" => pc[u] = "made"
      BY <1>2
    <2>3. \A x \in ContextUsers :
            OwesContext(x, Threads, refs, {})' <=> OwesContext(x, Threads, refs, {})
      BY <1>1, <2>1 DEF OwesContext
    <2> QED
      BY <1>1, <2>1, <2>2, <2>3 DEF ContextInv
  <1>11. RegsInv(refs, kernel, slots)'
    <2>1. \A o \in SlotHolders, s \in Slots : slots[o][s] # None => o # w
      BY <1>1 DEF NoSlots, SlotHolders, Built
    <2> QED
      BY <1>1, <1>2, <2>1 DEF RegsInv, SlotHolders, Wrappers
  <1> QED
    BY <1>3, <1>4, <1>7, <1>8, <1>9, <1>10, <1>11

LEMMA KernelFailedStep ==
  ASSUME IInv, NEW t \in Threads, KernelFailed(t)
  PROVE  IInv'
  <1> USE ConstantsAssumption DEF IInv, Inv
  <1>1. /\ pc[t] = "new" /\ pc'[t] = "failed"
        /\ \A u \in Threads : u # t => pc'[u] = pc[u]
        /\ UNCHANGED <<gil, obj, src, refs, kernel, slots, handlerOf, context>>
    BY DEF KernelFailed, TypeOK
  <1>2. TypesInv(refs, kernel, slots)' /\ TypeOK'
    BY <1>1 DEF KernelFailed, TypesInv, TypeOK, PCs
  <1>3. HoldersInv(Threads, refs)'
    BY <1>1 DEF HoldersInv
  <1>4. FrameInv(Threads, refs, {})'
    BY <1>1 DEF FrameInv, Creating, Freeing
  <1>5. FrameKernelInv(Threads, kernel)'
    BY <1>1 DEF FrameKernelInv
  <1>6. KernelInv(Threads, refs, kernel, {})'
    BY <1>1 DEF KernelInv
  <1>7. ContextInv(Threads, refs, {})'
    <2>1. \A u \in Threads : /\ pc'[u] \in Freeing <=> pc[u] \in Freeing
                             /\ pc'[u] = "made" => pc[u] = "made"
      BY <1>1 DEF Freeing
    <2>2. \A x \in ContextUsers :
            OwesContext(x, Threads, refs, {})' <=> OwesContext(x, Threads, refs, {})
      BY <1>1, <2>1 DEF OwesContext
    <2> QED
      BY <1>1, <2>1, <2>2 DEF ContextInv
  <1>8. RegsInv(refs, kernel, slots)'
    BY <1>1 DEF RegsInv
  <1> QED
    BY <1>2, <1>3, <1>4, <1>5, <1>6, <1>7, <1>8

\* A manager without a wrapper is destroyed while the options keep its context.
LEMMA ManagerAllocFailsStep ==
  ASSUME IInv, NEW t \in Threads, ManagerAllocFails(t)
  PROVE  IInv'
  <1> DEFINE w == obj[t]
  <1> USE ConstantsAssumption DEF IInv, Inv
  <1>1. /\ pc[t] = "made" /\ w \in Managers /\ w \in Wrappers /\ w # None
        /\ refs[w] = {} /\ src[t] \in MgrOptions /\ src[t] # None
        /\ UNCHANGED <<gil, obj, src, refs, slots, handlerOf, context>>
    BY DEF ManagerAllocFails, FrameInv, Creating, Wrappers
  <1>2. /\ pc'[t] = "free" /\ \A u \in Threads : u # t => pc'[u] = pc[u]
        /\ kernel'[w] = "destroying"
        /\ \A x \in Wrappers : x # w => kernel'[x] = kernel[x]
    BY <1>1 DEF ManagerAllocFails, TypeOK
  <1>3. TypesInv(refs, kernel, slots)' /\ TypeOK'
    BY <1>1 DEF ManagerAllocFails, TypesInv, KernelStates, TypeOK, PCs
  <1>4. HoldersInv(Threads, refs)'
    BY <1>1 DEF HoldersInv
  <1>5. \A u \in Threads : obj[u] = w => u = t
    BY <1>1 DEF FrameInv
  <1>6. \A u \in Threads : pc[u] # "py" => obj[u] \in Wrappers
    BY DEF FrameInv, Built, Wrappers
  <1>7. FrameInv(Threads, refs, {})'
    BY <1>1, <1>2 DEF FrameInv, Creating, Freeing
  <1>8. FrameKernelInv(Threads, kernel)'
    BY <1>1, <1>2, <1>5, <1>6 DEF FrameKernelInv
  <1>9. KernelInv(Threads, refs, kernel, {})'
    BY <1>1, <1>2, <1>5 DEF KernelInv
  <1>10. ContextInv(Threads, refs, {})'
    <2>1. \A u \in Threads : pc'[u] \in Freeing /\ src[u] = None <=>
                             pc[u] \in Freeing /\ src[u] = None
      BY <1>1, <1>2 DEF Freeing
    <2>2. \A u \in Threads : pc'[u] \in {"made"} \cup Freeing => pc[u] \in {"made"} \cup Freeing
      BY <1>1, <1>2 DEF Freeing
    <2>3. \A x \in ContextUsers :
            OwesContext(x, Threads, refs, {})' <=> OwesContext(x, Threads, refs, {})
      BY <1>1, <2>1 DEF OwesContext
    <2> QED
      BY <1>1, <2>2, <2>3 DEF ContextInv
  <1>11. RegsInv(refs, kernel, slots)'
    BY <1>1, <1>2 DEF RegsInv, SlotHolders, Wrappers
  <1> QED
    BY <1>3, <1>4, <1>7, <1>8, <1>9, <1>10, <1>11

\* The new context shares the registrations of its options, whose frame holds
\* them; the new manager uses the context of its options.
LEMMA KernelCreatedStep ==
  ASSUME IInv, NEW t \in Threads, KernelCreated(t)
  PROVE  IInv'
  <1> DEFINE w == obj[t]
             o == src[t]
  <1> USE ConstantsAssumption DEF IInv, Inv
  <1>1. /\ pc[t] = "new" /\ w \in Built /\ w \in Wrappers /\ w # None
        /\ kernel[w] = "absent" /\ refs[w] = {}
        /\ UNCHANGED <<gil, obj, src, refs, handlerOf>>
    BY DEF KernelCreated, FrameInv, FrameKernelInv, Creating, Built, Wrappers
  <1>2. /\ pc'[t] = "made" /\ \A u \in Threads : u # t => pc'[u] = pc[u]
        /\ kernel'[w] = "live"
        /\ \A x \in Wrappers : x # w => kernel'[x] = kernel[x]
    BY <1>1 DEF KernelCreated, TypeOK
  <1>3. \/ w \in Contexts /\ UNCHANGED <<slots, context>>
        \/ /\ w \in Contexts /\ o \in CtxOptions /\ t \in refs[o]
           /\ slots' = [slots EXCEPT ![w] = slots[o]] /\ UNCHANGED context
        \/ /\ w \in Managers /\ o \in MgrOptions /\ o # None /\ t \in refs[o]
           /\ context' = [context EXCEPT ![w] = context[o]] /\ UNCHANGED slots
    BY <1>1 DEF KernelCreated, FrameInv, Creating, Wrappers
  <1>4. TypeOK'
    <2>1. kernel' \in [Wrappers -> {"absent", "live", "destroying", "gone"}]
      BY <1>1 DEF KernelCreated, TypeOK
    <2>2. pc' \in [Threads -> PCs]
      BY DEF KernelCreated, TypeOK, PCs
    <2>3. slots' \in [SlotHolders -> [Slots -> Regs \cup {None}]]
      BY <1>3 DEF TypeOK, SlotHolders
    <2>4. context' \in [ContextUsers -> Contexts \cup {None}]
      BY <1>3 DEF TypeOK, ContextUsers
    <2> QED
      BY <1>1, <2>1, <2>2, <2>3, <2>4 DEF TypeOK
  <1>5. TypesInv(refs, kernel, slots)'
    BY <1>4 DEF TypeOK, TypesInv, KernelStates
  <1>6. HoldersInv(Threads, refs)'
    BY <1>1 DEF HoldersInv
  <1>7. \A u \in Threads : obj[u] = w => u = t
    BY <1>1 DEF FrameInv
  <1>8. \A u \in Threads : pc[u] # "py" => obj[u] \in Wrappers
    BY DEF FrameInv, Built, Wrappers
  <1>9. FrameInv(Threads, refs, {})'
    BY <1>1, <1>2 DEF FrameInv, Creating, Freeing
  <1>10. FrameKernelInv(Threads, kernel)'
    BY <1>1, <1>2, <1>7, <1>8 DEF FrameKernelInv
  <1>11. KernelInv(Threads, refs, kernel, {})'
    BY <1>1, <1>2, <1>7 DEF KernelInv
  <1>12. ContextInv(Threads, refs, {})'
    <2>1. \A u \in Threads : u # t => /\ pc'[u] \in Freeing <=> pc[u] \in Freeing
                                      /\ pc'[u] = "made" <=> pc[u] = "made"
      BY <1>2
    <2>2. pc[t] \notin Freeing /\ pc'[t] \notin Freeing
      BY <1>1, <1>2 DEF Freeing
    <2>3. \A x \in ContextUsers :
            OwesContext(x, Threads, refs, {})' <=> OwesContext(x, Threads, refs, {})
      BY <1>1, <2>1, <2>2 DEF OwesContext
    <2>4. w \in ContextUsers => ~OwesContext(w, Threads, refs, {})
      BY <1>1, <1>7, <2>2 DEF OwesContext
    <2>5. \A x \in ContextUsers : x # w => context'[x] = context[x]
      BY <1>3 DEF TypeOK
    <2>6. \A x \in ContextUsers :
            /\ OwesContext(x, Threads, refs, {})' =>
                  context'[x] \in Contexts /\ x \in refs'[context'[x]]
            /\ \A c \in Contexts :
                  x \in refs'[c] => context'[x] = c /\ OwesContext(x, Threads, refs, {})'
      BY <1>1, <2>3, <2>4, <2>5 DEF ContextInv
    <2>7. w \in Managers => context'[w] = context'[o]
      BY <1>1, <1>3 DEF TypeOK, ContextUsers, Built
    <2>8. \A u \in Threads :
            obj[u] \in Managers /\ src[u] # None /\ pc'[u] \in {"made"} \cup Freeing =>
                context'[obj[u]] = context'[src[u]]
      <3>1. \A u \in Threads : obj[u] \in Managers /\ src[u] # None /\ pc[u] # "py" =>
              src[u] \in ContextUsers /\ src[u] # w
        BY <1>1 DEF FrameInv, TypeOK, PCs, Creating, Freeing, ContextUsers, Built
      <3>2. \A u \in Threads : u # t =>
              (obj[u] \in Managers /\ src[u] # None /\ pc'[u] \in {"made"} \cup Freeing =>
                context'[obj[u]] = context'[src[u]])
        BY <1>2, <1>7, <2>5, <3>1 DEF ContextInv, ContextUsers, Freeing
      <3> QED
        BY <2>7, <3>2
    <2> QED
      BY <1>1, <2>6, <2>8 DEF ContextInv
  <1>13. RegsInv(refs, kernel, slots)'
    <2>1. \A x \in SlotHolders, s \in Slots :
            x # w => slots'[x] = slots[x]
      BY <1>3 DEF TypeOK
    <2>2. \A s \in Slots : w \in SlotHolders => slots[w][s] = None
      BY <1>1 DEF RegsInv
    <2>3. \A s \in Slots : w \in SlotHolders /\ slots'[w][s] # None =>
            o \in SlotHolders /\ slots'[w][s] = slots[o][s] /\ slots[o][s] # None
      BY <1>3, <2>2 DEF TypeOK, SlotHolders
    <2>4. \A x \in SlotHolders : x \in Wrappers
      BY DEF SlotHolders, Wrappers
    <2>5. \A x \in SlotHolders, s \in Slots :
            slots'[x][s] # None =>
               /\ handlerOf[slots'[x][s]] \in Handlers
               /\ slots'[x][s] \in refs[handlerOf[slots'[x][s]]]
               /\ kernel'[x] \in {"live", "destroying"}
      BY <1>2, <2>1, <2>3, <2>4 DEF RegsInv
    <2>6. \A h \in Handlers, r \in Regs :
            r \in refs[h] => handlerOf[r] = h /\ \E x \in SlotHolders, s \in Slots : slots'[x][s] = r
      <3> SUFFICES ASSUME NEW h \in Handlers, NEW r \in Regs, r \in refs[h]
            PROVE handlerOf[r] = h /\ \E x \in SlotHolders, s \in Slots : slots'[x][s] = r
        OBVIOUS
      <3>1. PICK x \in SlotHolders, s \in Slots : slots[x][s] = r
        BY DEF RegsInv
      <3>2. x # w
        BY <2>2, <3>1
      <3> QED
        BY <2>1, <3>1, <3>2 DEF RegsInv
    <2> QED
      BY <1>1, <2>5, <2>6 DEF RegsInv
  <1> QED
    BY <1>4, <1>5, <1>6, <1>9, <1>10, <1>11, <1>12, <1>13

\* What holds of everything but a frame that has nothing to answer for.
LEMMA InvButFrame ==
  ASSUME IInv, NEW t \in Threads, pc[t] \in {"py", "failed", "freed"},
         pc[t] = "freed" /\ src[t] = None => obj[t] \in Contexts \/ refs[obj[t]] # {}
  PROVE  InvBut(t, refs, kernel, slots)
  <1> USE ConstantsAssumption DEF IInv, Inv
  <1>1. FrameInv(Threads \ {t}, refs, {}) /\ FrameKernelInv(Threads \ {t}, kernel)
    BY DEF FrameInv, FrameKernelInv
  <1>2. KernelInv(Threads \ {t}, refs, kernel, {})
    BY DEF KernelInv
  <1>3. ContextInv(Threads \ {t}, refs, {})
    <2>1. \A u \in ContextUsers :
            obj[t] = u /\ pc[t] \in Freeing /\ src[t] = None => refs[u] # {}
      BY DEF Freeing, ContextUsers
    <2>2. \A u \in ContextUsers :
            OwesContext(u, Threads \ {t}, refs, {}) <=> OwesContext(u, Threads, refs, {})
      BY <2>1 DEF OwesContext
    <2> QED
      BY <2>2 DEF ContextInv
  <1> QED
    BY <1>1, <1>2, <1>3 DEF InvBut

LEMMA DropWrapperStep ==
  ASSUME IInv, NEW t \in Threads, NEW w \in Wrappers, DropWrapper(t, w)
  PROVE  IInv'
  <1> USE ConstantsAssumption
  <1>1. pc[t] = "py" /\ obj[t] = None /\ src[t] = None
    BY DEF DropWrapper, Running, IInv, Inv, FrameInv
  <1>2. \A x \in Wrappers : t \notin refs[x]
    BY <1>1 DEF IInv, Inv, FrameInv
  <1>3. InvBut(t, refs, kernel, slots)
    BY <1>1, InvButFrame
  <1>4. /\ Var \in refs[w]
        /\ Decref(t, [refs EXCEPT ![w] = @ \ {Var}], w)
        /\ UNCHANGED <<handlerOf, context>>
    BY DEF DropWrapper
  <1> QED
    BY <1>2, <1>3, <1>4, LetGoStep DEF IInv

LEMMA FreeReturnStep ==
  ASSUME IInv, NEW t \in Threads, FreeReturn(t)
  PROVE  IInv'
  <1> DEFINE w == obj[t]
  <1> USE ConstantsAssumption
  <1>1. /\ pc[t] = "freed" /\ w \in Built /\ w \in Wrappers
        /\ kernel[w] = "gone" /\ w \in Contexts => refs[w] = {}
        /\ UNCHANGED <<handlerOf, context>>
    BY DEF FreeReturn, IInv, Inv, FrameInv, FrameKernelInv, KernelInv, Built, Wrappers
  <1>2. /\ src[t] # None => t \in refs[src[t]]
        /\ \A x \in Wrappers :
              t \in refs[x] => x = src[t] \/ (x = w /\ w \in Managers /\ src[t] = None)
    BY <1>1 DEF IInv, Inv, FrameInv
  <1>3. CASE /\ src[t] # None
             /\ Decref(t, [refs EXCEPT ![src[t]] = @ \ {t}], src[t])
    <2>1. InvBut(t, refs, kernel, slots)
      BY <1>1, <1>3, InvButFrame
    <2>2. src[t] \in Wrappers
      BY <1>3 DEF IInv, TypeOK, Wrappers, Options
    <2> QED
      BY <1>1, <1>2, <1>3, <2>1, <2>2, LetGoStep DEF IInv
  <1>4. CASE src[t] = None /\ w \in Contexts /\ Continue(t, refs, kernel) /\ UNCHANGED slots
    <2>1. InvBut(t, refs, kernel, slots)
      BY <1>1, <1>4, InvButFrame
    <2>2. ReturnFrom(t, refs)
      BY <1>4 DEF ReturnFrom
    <2>3. w \notin Managers
      BY <1>4
    <2> QED
      BY <1>1, <1>2, <1>4, <2>1, <2>2, <2>3, ReturnFromStep DEF IInv
  <1>5. CASE /\ src[t] = None /\ w \in Managers
             /\ Decref(t, [refs EXCEPT ![w] = @ \ {t}], w)
    <2>1. CASE refs[w] # {}
      <3>1. InvBut(t, refs, kernel, slots)
        BY <1>1, <2>1, InvButFrame
      <3>2. t \in refs[w]
        BY <1>1, <2>1 DEF IInv, Inv, FrameInv
      <3>3. \A x \in Wrappers : t \in refs[x] => x = w
        BY <1>2, <1>5
      <3> QED
        BY <1>1, <1>5, <3>1, <3>2, <3>3, LetGoStep DEF IInv
    <2>2. CASE refs[w] = {}
      <3> USE DEF IInv, Inv
      <3>1. [refs EXCEPT ![w] = @ \ {t}] = refs
        BY <1>1, <2>2 DEF TypeOK
      <3>2. Decref(t, refs, w)
        BY <1>5, <3>1
      <3>3. \A x \in Wrappers : t \notin refs[x]
        BY <1>2, <1>5, <2>2
      <3>4. HoldersInv(Threads \ {t}, refs)
        BY <3>3 DEF HoldersInv, Wrappers
      <3>5. FrameInv(Threads \ {t}, refs, {w}) /\ FrameKernelInv(Threads \ {t}, kernel)
        BY <1>1 DEF FrameInv, FrameKernelInv
      <3>6. KernelInv(Threads \ {t}, refs, kernel, {w})
        BY <1>1, <1>5 DEF KernelInv
      <3>7. ContextInv(Threads \ {t}, refs, {w})
        <4>1. \A u \in ContextUsers :
                OwesContext(u, Threads \ {t}, refs, {w}) <=> OwesContext(u, Threads, refs, {})
          BY <1>1, <1>5 DEF OwesContext, Freeing
        <4> QED
          BY <4>1 DEF ContextInv
      <3>8. Inv(Threads \ {t}, refs, kernel, slots, {w})
        BY <3>4, <3>5, <3>6, <3>7
      <3> QED
        BY <1>1, <3>2, <3>8, DecrefStep
    <2> QED
      BY <2>1, <2>2
  <1> QED
    BY <1>3, <1>4, <1>5 DEF FreeReturn

LEMMA CreateFailedStep ==
  ASSUME IInv, NEW t \in Threads, CreateFailed(t)
  PROVE  IInv'
  <1> USE ConstantsAssumption
  <1>1. /\ pc[t] = "failed" /\ ReturnFrom(t, refs) /\ UNCHANGED <<handlerOf, context>>
    BY DEF CreateFailed
  <1>2. InvBut(t, refs, kernel, slots)
    BY <1>1, InvButFrame
  <1>3. /\ src[t] # None => t \in refs[src[t]]
        /\ \A x \in Wrappers : t \in refs[x] => x = src[t]
    BY <1>1 DEF IInv, Inv, FrameInv, Freeing
  <1> QED
    BY <1>1, <1>2, <1>3, ReturnFromStep DEF IInv

LEMMA ContextCreatedStep ==
  ASSUME IInv, NEW t \in Threads, ContextCreated(t)
  PROVE  IInv'
  <1> DEFINE T == Threads \ {t}
             c == obj[t]
             rs == [refs EXCEPT ![c] = {Var}]
  <1> USE ConstantsAssumption DEF IInv, Inv
  <1>1. /\ pc[t] = "made" /\ c \in Contexts /\ c \in Wrappers /\ c \notin ContextUsers
        /\ refs[c] = {} /\ kernel[c] = "live" /\ c # src[t]
        /\ ReturnFrom(t, rs) /\ UNCHANGED <<handlerOf, context>>
    BY DEF ContextCreated, FrameInv, FrameKernelInv, Creating, Wrappers, ContextUsers
  <1>2. /\ rs[c] = {Var} /\ \A x \in Wrappers \cup Handlers : x # c => rs[x] = refs[x]
        /\ TypesInv(rs, kernel, slots)
    BY <1>1 DEF TypesInv, Holders
  <1> HIDE DEF rs
  <1>3. \A h \in Handlers : h # c
    BY <1>1
  <1>4. HoldersInv(Threads, rs)
    BY <1>1, <1>2, <1>3 DEF HoldersInv, Wrappers
  <1>5. \A u \in T : /\ obj[u] # c
                     /\ pc[u] # "py" => obj[u] \in Wrappers
                     /\ src[u] # None => src[u] \in Wrappers /\ src[u] # c
    BY <1>1 DEF FrameInv, TypeOK, Built, Wrappers, Options
  <1>6. FrameInv(T, rs, {})
    <2>1. \A u \in Threads, x \in Wrappers : u \in rs[x] <=> u \in refs[x]
      BY <1>1, <1>2
    <2> QED
      BY <1>2, <1>5, <2>1 DEF FrameInv, Creating, Freeing
  <1>7. FrameKernelInv(T, kernel)
    BY DEF FrameKernelInv
  <1>8. KernelInv(T, rs, kernel, {})
    BY <1>1, <1>2 DEF KernelInv
  <1>9. ContextInv(T, rs, {})
    <2>1. \A u \in ContextUsers : rs[u] = refs[u] /\ u # Var
      BY <1>1, <1>2 DEF Wrappers, ContextUsers
    <2>2. \A u \in ContextUsers :
            OwesContext(u, T, rs, {}) <=> OwesContext(u, Threads, refs, {})
      BY <1>1, <2>1 DEF OwesContext, Freeing
    <2>3. \A u \in ContextUsers, d \in Contexts : u \in rs[d] <=> u \in refs[d]
      BY <1>1, <1>2, <2>1 DEF Wrappers
    <2> QED
      BY <2>2, <2>3 DEF ContextInv
  <1>10. RegsInv(rs, kernel, slots)
    BY <1>2, <1>3 DEF RegsInv
  <1>11. InvBut(t, rs, kernel, slots)
    BY <1>2, <1>4, <1>6, <1>7, <1>8, <1>9, <1>10 DEF InvBut
  <1>12. src[t] # None => t \in rs[src[t]]
    BY <1>1, <1>2 DEF FrameInv, TypeOK, Options, Wrappers
  <1>13. \A x \in Wrappers : t \in rs[x] => x = src[t]
    BY <1>1, <1>2 DEF FrameInv, Freeing
  <1> QED
    BY <1>1, <1>11, <1>12, <1>13, ReturnFromStep

\* The wrapper of a manager takes its own reference to the context, before the
\* frame gives up the options whose reference kept it so far.
LEMMA ManagerCreatedStep ==
  ASSUME IInv, NEW t \in Threads, ManagerCreated(t)
  PROVE  IInv'
  <1> DEFINE T == Threads \ {t}
             g == obj[t]
             m == src[t]
             c == context[g]
             rs == [refs EXCEPT ![g] = {Var}, ![c] = @ \cup {g}]
  <1> USE ConstantsAssumption DEF IInv, Inv
  <1>1. /\ pc[t] = "made" /\ g \in Managers /\ g \in Wrappers /\ g \in ContextUsers
        /\ refs[g] = {} /\ kernel[g] = "live" /\ g # None /\ g \notin Contexts
        /\ m \in MgrOptions /\ m # None /\ m # g /\ m \in Wrappers /\ t \in refs[m]
        /\ ReturnFrom(t, rs) /\ UNCHANGED <<handlerOf, context>>
    BY DEF ManagerCreated, FrameInv, FrameKernelInv, Creating, Wrappers, ContextUsers
  <1>2. /\ c \in Contexts /\ c \in Wrappers /\ c # g /\ c # m /\ c \notin ContextUsers
        /\ refs[c] # {}
    <2>1. context[m] \in Contexts /\ m \in refs[context[m]]
      BY <1>1 DEF ContextInv, OwesContext, ContextUsers
    <2>2. c = context[m]
      BY <1>1 DEF ContextInv
    <2> QED
      BY <1>1, <2>1, <2>2 DEF Wrappers, ContextUsers
  <1>3. /\ rs[g] = {Var} /\ rs[c] = refs[c] \cup {g}
        /\ \A x \in Wrappers \cup Handlers : x \notin {c, g} => rs[x] = refs[x]
        /\ TypesInv(rs, kernel, slots)
    BY <1>1, <1>2 DEF TypesInv, Holders
  <1> HIDE DEF rs
  <1>4. \A h \in Handlers : h # c /\ h # g
    BY <1>1, <1>2
  <1>5. HoldersInv(Threads, rs)
    BY <1>1, <1>2, <1>3, <1>4 DEF HoldersInv, Wrappers
  <1>6. kernel[c] = "live"
    BY <1>1, <1>2 DEF KernelInv
  <1>7. \A u \in T : /\ obj[u] # g
                     /\ pc[u] # "py" => obj[u] \in Wrappers
                     /\ src[u] # None => src[u] \in Wrappers /\ src[u] # g /\ src[u] # c
    BY <1>1, <1>2 DEF FrameInv, TypeOK, Built, Wrappers, Options
  <1>8. \A u \in Threads : pc[u] # "py" => obj[u] # c
    BY <1>1, <1>2, <1>6 DEF FrameInv, HoldersInv, ContextUsers, Creating, Freeing, TypeOK, PCs,
          KernelInv, FrameKernelInv
  <1>9. FrameInv(T, rs, {})
    <2>1. \A u \in Threads, x \in Wrappers : u \in rs[x] <=> u \in refs[x]
      BY <1>1, <1>2, <1>3
    <2> QED
      BY <1>3, <1>7, <1>8, <2>1 DEF FrameInv, Creating, Freeing
  <1>10. FrameKernelInv(T, kernel)
    BY DEF FrameKernelInv
  <1>11. KernelInv(T, rs, kernel, {})
    <2>1. rs[g] # {} /\ rs[c] # {}
      BY <1>3
    <2> QED
      BY <1>1, <1>2, <1>3, <1>6, <2>1 DEF KernelInv
  <1>12. ContextInv(T, rs, {})
    <2>1. \A u \in ContextUsers : u # g => rs[u] = refs[u] /\ u # Var
      BY <1>2, <1>3 DEF Wrappers, ContextUsers
    <2>2. \A u \in ContextUsers : u # g =>
            (OwesContext(u, T, rs, {}) <=> OwesContext(u, Threads, refs, {}))
      BY <1>1, <2>1 DEF OwesContext, Freeing
    <2>3. \A u \in ContextUsers, d \in Contexts : u # g => (u \in rs[d] <=> u \in refs[d])
      BY <1>1, <1>2, <1>3, <2>1 DEF Wrappers, ContextUsers
    <2>4. ~OwesContext(g, Threads, refs, {})
      BY <1>1 DEF OwesContext, FrameInv, Freeing
    <2>5. \A d \in Contexts : g \in rs[d] <=> d = c
      BY <1>1, <1>2, <1>3, <2>4 DEF ContextInv, Wrappers, ContextUsers
    <2>6. OwesContext(g, T, rs, {})
      BY <1>3 DEF OwesContext
    <2>7. \A u \in ContextUsers :
            /\ OwesContext(u, T, rs, {}) => context[u] \in Contexts /\ u \in rs[context[u]]
            /\ \A d \in Contexts :
                  u \in rs[d] => context[u] = d /\ OwesContext(u, T, rs, {})
      <3> SUFFICES ASSUME NEW u \in ContextUsers
            PROVE /\ OwesContext(u, T, rs, {}) =>
                        context[u] \in Contexts /\ u \in rs[context[u]]
                  /\ \A d \in Contexts :
                        u \in rs[d] => context[u] = d /\ OwesContext(u, T, rs, {})
        OBVIOUS
      <3>1. CASE u = g
        BY <1>2, <2>5, <2>6, <3>1
      <3>2. CASE u # g
        BY <2>2, <2>3, <3>2 DEF ContextInv
      <3> QED
        BY <3>1, <3>2
    <2> QED
      BY <2>7 DEF ContextInv
  <1>13. RegsInv(rs, kernel, slots)
    BY <1>3, <1>4 DEF RegsInv
  <1>14. InvBut(t, rs, kernel, slots)
    BY <1>3, <1>5, <1>9, <1>10, <1>11, <1>12, <1>13 DEF InvBut
  <1>15. t \in rs[src[t]]
    BY <1>1, <1>2, <1>3
  <1>16. \A x \in Wrappers : t \in rs[x] => x = src[t]
    BY <1>1, <1>2, <1>3 DEF FrameInv, Freeing
  <1> QED
    BY <1>1, <1>14, <1>15, <1>16, ReturnFromStep

\* The kernel context goes; then the frame gives up the options.
LEMMA ContextAllocFailsStep ==
  ASSUME IInv, NEW t \in Threads, ContextAllocFails(t)
  PROVE  IInv'
  <1> DEFINE T == Threads \ {t}
             c == obj[t]
             o == src[t]
             sl == [slots EXCEPT ![c] = NoSlots]
             ks == [kernel EXCEPT ![c] = "gone"]
             rs == DestroyUnshared(refs, sl)
             left == [rs EXCEPT ![o] = @ \ {t}]
  <1> USE ConstantsAssumption DEF IInv, Inv
  <1>1. /\ pc[t] = "made" /\ c \in Contexts /\ c \in Wrappers /\ c \in SlotHolders
        /\ c \notin ContextUsers /\ c # None /\ refs[c] = {}
        /\ o \in CtxOptions \cup {None}
        /\ o # None => t \in refs[o] /\ o \in Wrappers /\ o # c
        /\ \A x \in Wrappers : t \in refs[x] => x = o
        /\ UNCHANGED <<handlerOf, context>>
    BY DEF ContextAllocFails, FrameInv, Creating, Freeing, Wrappers, ContextUsers, SlotHolders
  <1>2. /\ TypesInv(refs, ks, sl)
        /\ ks[c] = "gone" /\ \A w \in Wrappers : w # c => ks[w] = kernel[w]
        /\ \A s \in Slots : sl[c][s] = None
        /\ \A x \in SlotHolders : x # c => sl[x] = slots[x]
    BY <1>1 DEF TypesInv, KernelStates, NoSlots
  <1>3. \/ /\ o # None /\ left[o] = {}
           /\ slots' = [sl EXCEPT ![o] = NoSlots]
           /\ Continue(t, DestroyUnshared(left, slots'), [ks EXCEPT ![o] = "gone"])
        \/ o # None /\ left[o] # {} /\ slots' = sl /\ Continue(t, left, ks)
        \/ o = None /\ slots' = sl /\ Continue(t, rs, ks)
    BY DEF ContextAllocFails
  <1> HIDE DEF sl, ks
  <1>4. \A u \in Threads : u # t => obj[u] # c
    BY <1>1 DEF FrameInv
  <1>5. KernelInv(Threads, refs, ks, {})
    BY <1>1, <1>2, <1>4 DEF KernelInv
  <1>6. \A x \in SlotHolders, s \in Slots :
            sl[x][s] # None =>
               /\ handlerOf[sl[x][s]] \in Handlers
               /\ sl[x][s] \in refs[handlerOf[sl[x][s]]]
               /\ ks[x] \in {"live", "destroying"}
    BY <1>2 DEF RegsInv, SlotHolders, Wrappers
  <1>7. \A h \in Handlers, r \in Regs : r \in refs[h] => handlerOf[r] = h
    BY DEF RegsInv
  <1>8. /\ TypesInv(rs, ks, sl) /\ HoldersInv(Threads, rs) /\ FrameInv(Threads, rs, {})
        /\ KernelInv(Threads, rs, ks, {}) /\ ContextInv(Threads, rs, {})
        /\ RegsInv(rs, ks, sl)
        /\ \A w \in Wrappers : rs[w] = refs[w]
    BY <1>2, <1>5, <1>6, <1>7, DestroyUnsharedStep
  <1> HIDE DEF rs
  <1>9. FrameInv(T, rs, {})
    BY <1>8 DEF FrameInv
  <1>10. FrameKernelInv(T, ks)
    <2>1. \A u \in T : pc[u] # "py" => obj[u] \in Wrappers
      BY DEF FrameInv, Built, Wrappers
    <2> QED
      BY <1>2, <1>4, <2>1 DEF FrameKernelInv
  <1>11. KernelInv(T, rs, ks, {})
    BY <1>2, <1>8 DEF KernelInv
  <1>12. ContextInv(T, rs, {})
    <2>1. \A u \in ContextUsers :
            OwesContext(u, T, rs, {}) <=> OwesContext(u, Threads, rs, {})
      BY <1>1 DEF OwesContext
    <2> QED
      BY <1>8, <2>1 DEF ContextInv
  <1>13. InvBut(t, rs, ks, sl)
    BY <1>8, <1>9, <1>10, <1>11, <1>12 DEF InvBut
  <1>14. CASE o = None /\ slots' = sl /\ Continue(t, rs, ks)
    <2>1. \A x \in Wrappers : t \notin rs[x]
      BY <1>1, <1>8, <1>14
    <2>2. HoldersInv(T, rs)
      BY <1>8, <2>1 DEF HoldersInv, Wrappers
    <2>3. Inv(T, rs, ks, slots', {})
      BY <1>8, <1>9, <1>10, <1>11, <1>12, <1>14, <2>2
    <2> QED
      BY <1>1, <1>14, <2>3, ContinueStep
  <1>15. CASE o # None
    <2>1. Inv(T, left, ks, sl, {o})
      BY <1>1, <1>8, <1>13, <1>15, LetGo
    <2>2. o \in CtxOptions
      BY <1>1, <1>15
    <2> HIDE DEF left
    <2>3. CASE /\ left[o] = {}
               /\ slots' = [sl EXCEPT ![o] = NoSlots]
               /\ Continue(t, DestroyUnshared(left, slots'), [ks EXCEPT ![o] = "gone"])
      BY <1>1, <2>1, <2>2, <2>3, FreeOptionsStep
    <2>4. CASE left[o] # {} /\ slots' = sl /\ Continue(t, left, ks)
      <3>1. FrameInv(T, left, {}) /\ KernelInv(T, left, ks, {})
        BY <2>1, <2>4 DEF FrameInv, KernelInv
      <3>2. ContextInv(T, left, {})
        BY <2>1, <2>2, <2>4 DEF ContextInv, OwesContext
      <3>3. Inv(T, left, ks, slots', {})
        BY <2>1, <2>4, <3>1, <3>2
      <3> QED
        BY <1>1, <2>4, <3>3, ContinueStep
    <2> QED
      BY <1>3, <1>15, <2>3, <2>4 DEF left
  <1> QED
    BY <1>3, <1>14, <1>15

----------------------------------------------------------------------------
LEMMA InvariantStep ==
  ASSUME IInv, NEW t \in Threads, Step(t)
  PROVE  IInv'
  <1>1. CASE AcquireGil(t) \/ YieldGil(t)
    BY <1>1, GilStep
  <1>2. CASE \E o \in CtxOptions, s \in Slots, h \in Handlers, r \in Regs :
                SetHandler(t, o, s, h, r)
    BY <1>2, SetHandlerStep
  <1>3. CASE \E h \in Handlers : DropHandler(t, h)
    BY <1>3, DropHandlerStep
  <1>4. CASE \E w \in Wrappers : DropWrapper(t, w)
    BY <1>4, DropWrapperStep
  <1>5. CASE \E g \in Managers : Close(t, g)
    BY <1>5, CloseStep
  <1>6. CASE \E s \in Slots : ReleaseRegistration(t, s)
    BY <1>6, ReleaseRegistrationStep
  <1>7. CASE KernelDestroyed(t) \/ KernelFailed(t) \/ KernelCreated(t)
    BY <1>7, KernelDestroyedStep, KernelFailedStep, KernelCreatedStep
  <1>8. CASE FreeReturn(t) \/ CreateFailed(t)
    BY <1>8, FreeReturnStep, CreateFailedStep
  <1>9. CASE \E o \in CtxOptions : NewCtxOptions(t, o)
    BY <1>9, NewCtxOptionsStep
  <1>10. CASE \E m \in MgrOptions, c \in Contexts : NewMgrOptions(t, m, c)
    BY <1>10, NewMgrOptionsStep
  <1>11. CASE \E c \in Contexts, o \in CtxOptions \cup {None} : NewContext(t, c, o)
    <2>1. PICK c \in Contexts, o \in CtxOptions \cup {None} : NewContext(t, c, o)
      BY <1>11
    <2>2. c \in Built /\ c \notin Managers /\ o \in Options \cup {None}
      BY ConstantsAssumption DEF Built, Options
    <2> QED
      BY <2>1, <2>2, BeginCreateStep DEF NewContext
  <1>12. CASE \E g \in Managers, m \in MgrOptions : NewManager(t, g, m)
    <2>1. PICK g \in Managers, m \in MgrOptions : NewManager(t, g, m)
      BY <1>12
    <2>2. g \in Built /\ g \notin Contexts /\ m \in Options \cup {None}
      BY ConstantsAssumption DEF Built, Options
    <2> QED
      BY <2>1, <2>2, BeginCreateStep DEF NewManager
  <1>13. CASE ContextCreated(t) \/ ManagerCreated(t)
    BY <1>13, ContextCreatedStep, ManagerCreatedStep
  <1>14. CASE ContextAllocFails(t) \/ ManagerAllocFails(t)
    BY <1>14, ContextAllocFailsStep, ManagerAllocFailsStep
  <1> QED
    BY <1>1, <1>2, <1>3, <1>4, <1>5, <1>6, <1>7, <1>8, <1>9, <1>10, <1>11, <1>12,
       <1>13, <1>14 DEF Step

LEMMA Invariance == Spec => []IInv
  <1>1. Init => IInv
    BY InvariantInit
  <1>2. IInv /\ [Next]_vars => IInv'
    <2> SUFFICES ASSUME IInv, [Next]_vars  PROVE IInv'
      OBVIOUS
    <2>1. CASE Next
      BY <2>1, InvariantStep DEF Next
    <2>2. CASE UNCHANGED vars
      <3>1. /\ UNCHANGED <<gil, pc, obj, src, refs, kernel, slots, handlerOf, context>>
        BY <2>2 DEF vars
      <3>2. TypeOK' /\ TypesInv(refs, kernel, slots)' /\ HoldersInv(Threads, refs)'
        BY <3>1 DEF IInv, Inv, TypeOK, TypesInv, HoldersInv
      <3>3. FrameInv(Threads, refs, {})' /\ FrameKernelInv(Threads, kernel)'
        BY <3>1 DEF IInv, Inv, FrameInv, FrameKernelInv
      <3>4. KernelInv(Threads, refs, kernel, {})' /\ ContextInv(Threads, refs, {})'
        BY <3>1 DEF IInv, Inv, KernelInv, ContextInv, OwesContext
      <3>5. RegsInv(refs, kernel, slots)'
        BY <3>1 DEF IInv, Inv, RegsInv
      <3> QED
        BY <3>2, <3>3, <3>4, <3>5 DEF IInv, Inv
    <2> QED
      BY <2>1, <2>2
  <1> QED
    BY <1>1, <1>2, PTL DEF Spec

\* The variables keep their types.
THEOREM TypeCorrect == Spec => []TypeOK
  <1>1. IInv => TypeOK
    BY DEF IInv
  <1> QED
    BY <1>1, Invariance, PTL

\* A kernel context is whole as long as a manager or manager options that use it
\* exist, in whatever order Python drops the wrappers.
THEOREM ContextOutlivesItsUsersCorrect == Spec => []ContextOutlivesItsUsers
  <1>1. IInv => ContextOutlivesItsUsers
    <2> SUFFICES ASSUME IInv, NEW w \in ContextUsers, InUse(w)
                 PROVE  kernel[context[w]] = "live"
      BY DEF ContextOutlivesItsUsers
    <2> USE ConstantsAssumption DEF IInv, Inv
    <2>1. w \in Wrappers
      BY DEF ContextUsers, Wrappers
    <2>2. CASE OwesContext(w, Threads, refs, {})
      <3>1. context[w] \in Contexts /\ refs[context[w]] # {}
        BY <2>2 DEF ContextInv
      <3> QED
        BY <3>1 DEF KernelInv, Wrappers, ContextUsers
    <2>3. CASE ~OwesContext(w, Threads, refs, {})
      \* A manager without a wrapper: its frame holds the options.
      <3>1. PICK t \in Threads : obj[t] = w /\ pc[t] \in {"made", "free"}
        BY <2>1, <2>3 DEF KernelInv, OwesContext, InUse
      <3>2. /\ w \in Managers /\ src[t] \in MgrOptions /\ src[t] # None
            /\ t \in refs[src[t]]
        BY <2>1, <2>3, <3>1 DEF FrameInv, OwesContext, Creating, Freeing, Built,
              ContextUsers, Wrappers
      <3>3. context[w] = context[src[t]]
        BY <3>1, <3>2 DEF ContextInv, Freeing
      <3>4. context[w] \in Contexts /\ refs[context[w]] # {}
        BY <3>2, <3>3 DEF ContextInv, OwesContext, ContextUsers
      <3> QED
        BY <3>4 DEF KernelInv, Wrappers, ContextUsers
    <2> QED
      BY <2>2, <2>3
  <1> QED
    BY <1>1, Invariance, PTL

\* Every handler that a kernel object may call is alive.
THEOREM HandlersStayAliveCorrect == Spec => []HandlersStayAlive
  <1>1. IInv => HandlersStayAlive
    BY DEF IInv, Inv, RegsInv, HandlersStayAlive
  <1> QED
    BY <1>1, Invariance, PTL

\* Handlers and contexts are released by the last kernel object or wrapper that
\* needs them.
THEOREM ReferencesAreReleasedCorrect == Spec => []ReferencesAreReleased
  <1>1. IInv => ReferencesAreReleased
    <2> SUFFICES ASSUME IInv  PROVE ReferencesAreReleased
      OBVIOUS
    <2> USE ConstantsAssumption DEF IInv, Inv
    <2>1. \A h \in Handlers : \A r \in Regs \cap refs[h] :
            \E o \in Sharers(slots, r) : InUse(o)
      <3> SUFFICES ASSUME NEW h \in Handlers, NEW r \in Regs, r \in refs[h]
                   PROVE  \E o \in Sharers(slots, r) : InUse(o)
        OBVIOUS
      <3>1. PICK o \in SlotHolders, s \in Slots : slots[o][s] = r
        BY DEF RegsInv
      <3>2. InUse(o)
        BY <3>1 DEF RegsInv, InUse
      <3> QED
        BY <3>1, <3>2 DEF Sharers
    <2>2. \A w \in Wrappers, t \in Threads : t \in refs[w] => w \in {obj[t], src[t]}
      BY DEF FrameInv
    <2>3. \A w \in Wrappers, u \in ContextUsers :
            u \in refs[w] => refs[u] # {} \/ \E t \in Threads : obj[t] = u
      <3> SUFFICES ASSUME NEW w \in Wrappers, NEW u \in ContextUsers, u \in refs[w]
                   PROVE  refs[u] # {} \/ \E t \in Threads : obj[t] = u
        OBVIOUS
      <3>1. w \in Contexts
        BY DEF HoldersInv, Wrappers, ContextUsers
      <3> QED
        BY <3>1 DEF ContextInv, OwesContext
    <2> QED
      BY <2>1, <2>2, <2>3 DEF ReferencesAreReleased
  <1> QED
    BY <1>1, Invariance, PTL

\* Kernel objects are live exactly as long as wrappers or creating frames need
\* them, and only a frame that says so destroys one.
THEOREM WrappersMatchTheKernelCorrect == Spec => []WrappersMatchTheKernel
  <1>1. IInv => WrappersMatchTheKernel
    BY DEF IInv, Inv, KernelInv, WrappersMatchTheKernel
  <1> QED
    BY <1>1, Invariance, PTL

----------------------------------------------------------------------------
(***************************************************************************)
(* Ends are final.                                                         *)
(***************************************************************************)

\* References rs and kernel objects ks take back no end of this state.
Follows(rs, ks) ==
    /\ rs \in [Wrappers \cup Handlers -> SUBSET Holders]
    /\ ks \in [Wrappers -> KernelStates]
    /\ \A w \in Wrappers :
          /\ kernel[w] = "gone" => ks[w] = "gone"
          /\ kernel[w] = "destroying" => ks[w] \in {"destroying", "gone"}
          /\ Freed(w) => rs[w] = {}
    /\ \A h \in Handlers : refs[h] = {} => rs[h] = {}
    /\ \A r \in Regs : Released(r) => r \notin rs[handlerOf[r]]

LEMMA FollowsItself ==
  ASSUME TypeOK
  PROVE  Follows(refs, kernel)
  BY DEF TypeOK, KernelStates, Follows, Freed, Released

\* Letting go is always possible, and so is the end of a kernel object.
LEMMA FollowsLetGo ==
  ASSUME TypeOK, NEW rs, NEW ks, Follows(rs, ks),
         NEW left \in [Wrappers \cup Handlers -> SUBSET Holders],
         \A x \in Wrappers \cup Handlers : left[x] \subseteq rs[x]
  PROVE  Follows(left, ks)
  <1>1. \A r \in Regs : Released(r) => handlerOf[r] \in Handlers
    BY DEF TypeOK, Released
  <1> QED
    BY <1>1 DEF Follows

LEMMA FollowsGone ==
  ASSUME NEW rs, NEW ks, Follows(rs, ks), NEW w \in Wrappers
  PROVE  Follows(rs, [ks EXCEPT ![w] = "gone"])
  BY DEF Follows, KernelStates

LEMMA FollowsDestroyUnshared ==
  ASSUME TypeOK, NEW rs, NEW ks, NEW sl, Follows(rs, ks)
  PROVE  Follows(DestroyUnshared(rs, sl), ks)
  <1>1. DestroyUnshared(rs, sl) \in [Wrappers \cup Handlers -> SUBSET Holders]
    BY DEF DestroyUnshared, Follows
  <1>2. \A x \in Wrappers \cup Handlers : DestroyUnshared(rs, sl)[x] \subseteq rs[x]
    BY DEF DestroyUnshared
  <1> QED
    BY <1>1, <1>2, FollowsLetGo

\* References are only given to what somebody holds or makes.
LEMMA FollowsTake ==
  ASSUME TypeOK, NEW x \in Wrappers,
         refs[x] # {} \/ kernel[x] = "absent"
            \/ \E t \in Threads : obj[t] = x /\ pc[t] = "made",
         NEW more \in SUBSET (Threads \cup Wrappers \cup {Var})
  PROVE  Follows([refs EXCEPT ![x] = @ \cup more], kernel)
  <1> DEFINE rs == [refs EXCEPT ![x] = @ \cup more]
  <1>1. rs \in [Wrappers \cup Handlers -> SUBSET Holders]
    BY DEF TypeOK, Holders
  <1>2. ~Freed(x)
    BY DEF Freed
  <1>3. /\ rs[x] = refs[x] \cup more
        /\ \A y \in Wrappers \cup Handlers : y # x => rs[y] = refs[y]
    BY DEF TypeOK
  <1> HIDE DEF rs
  <1>4. \A r \in Regs : Released(r) => r \notin rs[handlerOf[r]]
    <2>1. \A r \in Regs : Released(r) => handlerOf[r] \in Handlers
      BY DEF TypeOK, Released
    <2>2. x \notin Handlers
      BY ConstantsAssumption
    <2> QED
      BY <1>3, <2>1, <2>2 DEF Released
  <1>5. \A h \in Handlers : h # x
    BY ConstantsAssumption
  <1>6. kernel \in [Wrappers -> KernelStates]
    BY DEF TypeOK, KernelStates
  <1>7. \A w \in Wrappers : Freed(w) => rs[w] = {}
    BY <1>2, <1>3 DEF Freed
  <1> QED
    BY <1>1, <1>3, <1>4, <1>5, <1>6, <1>7 DEF Follows, rs

LEMMA FollowsBeginDestroy ==
  ASSUME NEW t, NEW rs, NEW ks, Follows(rs, ks), NEW w \in Wrappers,
         kernel[w] # "gone", BeginDestroy(t, rs, ks, w)
  PROVE  Follows(refs', kernel')
  BY DEF Follows, BeginDestroy, KernelStates

LEMMA FollowsContinue ==
  ASSUME NEW t, NEW rs, NEW ks, Follows(rs, ks), Continue(t, rs, ks)
  PROVE  Follows(refs', kernel')
  BY DEF Continue

\* What the deallocators of w rely on.
Deallocatable(w) ==
    /\ w \in Contexts => kernel[w] = "live"
    /\ w \in ContextUsers => context[w] \in Contexts /\ kernel[context[w]] = "live"

LEMMA OwersAreDeallocatable ==
  ASSUME IInv, NEW w \in Wrappers \ Contexts,
         w \in ContextUsers => OwesContext(w, Threads, refs, {})
  PROVE  Deallocatable(w)
  <1>1. ASSUME w \in ContextUsers
        PROVE  context[w] \in Contexts /\ kernel[context[w]] = "live"
    <2>1. context[w] \in Contexts /\ refs[context[w]] # {}
      BY <1>1 DEF IInv, Inv, ContextInv
    <2> QED
      BY <2>1, ConstantsAssumption DEF IInv, Inv, KernelInv, Wrappers, ContextUsers
  <1> QED
    BY <1>1 DEF Deallocatable

LEMMA HeldAreDeallocatable ==
  ASSUME IInv, NEW w \in Wrappers, refs[w] # {}
  PROVE  Deallocatable(w)
  <1>1. CASE w \in Contexts
    BY <1>1, ConstantsAssumption DEF Deallocatable, IInv, Inv, KernelInv, ContextUsers
  <1>2. CASE w \notin Contexts
    BY <1>2, OwersAreDeallocatable DEF OwesContext
  <1> QED
    BY <1>1, <1>2

LEMMA FollowsDecrefContext ==
  ASSUME TypeOK, NEW t, NEW rs, NEW ks, Follows(rs, ks), NEW w \in ContextUsers,
         context[w] \in Contexts, kernel[context[w]] = "live",
         DecrefContext(t, rs, ks, w)
  PROVE  Follows(refs', kernel')
  <1> DEFINE c == context[w]
             left == [rs EXCEPT ![c] = @ \ {w}]
  <1>1. c \in Wrappers /\ kernel[c] # "gone"
    BY DEF Wrappers
  <1>2. Follows(left, ks)
    <2>1. /\ left \in [Wrappers \cup Handlers -> SUBSET Holders]
          /\ \A x \in Wrappers \cup Handlers : left[x] \subseteq rs[x]
      BY <1>1 DEF Follows
    <2> QED
      BY <2>1, FollowsLetGo
  <1>3. BeginDestroy(t, left, ks, c) \/ Continue(t, left, ks)
    BY DEF DecrefContext
  <1> HIDE DEF c, left
  <1> QED
    BY <1>1, <1>2, <1>3, FollowsBeginDestroy, FollowsContinue

LEMMA FollowsDecref ==
  ASSUME TypeOK, NEW t, NEW rs, Follows(rs, kernel), NEW w \in Wrappers,
         Deallocatable(w), Decref(t, rs, w)
  PROVE  Follows(refs', kernel')
  <1>1. CASE Continue(t, rs, kernel)
    BY <1>1, FollowsContinue
  <1>2. CASE w \in CtxOptions /\ FreeCtxOptions(t, rs, w)
    <2>1. Follows(DestroyUnshared(rs, slots'), [kernel EXCEPT ![w] = "gone"])
      BY FollowsGone, FollowsDestroyUnshared
    <2> QED
      BY <1>2, <2>1, FollowsContinue DEF FreeCtxOptions
  <1>3. CASE w \in MgrOptions /\ FreeMgrOptions(t, rs, w)
    <2>1. Follows(rs, [kernel EXCEPT ![w] = "gone"])
      BY FollowsGone
    <2> QED
      BY <1>3, <2>1, FollowsDecrefContext DEF FreeMgrOptions, Deallocatable, ContextUsers
  <1>4. CASE w \in Contexts /\ BeginDestroy(t, rs, kernel, w)
    BY <1>4, FollowsBeginDestroy DEF Deallocatable
  <1>5. CASE w \in Managers /\ FreeManager(t, rs, w)
    <2>1. CASE kernel[w] = "live"
      BY <1>5, <2>1, FollowsBeginDestroy DEF FreeManager
    <2>2. CASE kernel[w] # "live"
      BY <1>5, <2>2, FollowsDecrefContext DEF FreeManager, Deallocatable, ContextUsers
    <2> QED
      BY <2>1, <2>2
  <1> QED
    BY <1>1, <1>2, <1>3, <1>4, <1>5 DEF Decref

\* A frame lets go of the options it holds.
LEMMA FollowsReturnFrom ==
  ASSUME IInv, NEW t \in Threads, NEW rs, Follows(rs, kernel), ReturnFrom(t, rs)
  PROVE  Follows(refs', kernel')
  <1>1. CASE src[t] = None
    BY <1>1, FollowsContinue DEF ReturnFrom
  <1>2. CASE src[t] # None
    <2>1. src[t] \in Wrappers /\ refs[src[t]] # {}
      BY <1>2 DEF IInv, TypeOK, Wrappers, Options, Inv, FrameInv
    <2> DEFINE left == [rs EXCEPT ![src[t]] = @ \ {t}]
    <2>2. /\ left \in [Wrappers \cup Handlers -> SUBSET Holders]
          /\ \A x \in Wrappers \cup Handlers : left[x] \subseteq rs[x]
      BY <2>1 DEF Follows
    <2>3. Follows(left, kernel)
      BY <2>2, FollowsLetGo DEF IInv
    <2>4. Decref(t, left, src[t])
      BY <1>2 DEF ReturnFrom
    <2> HIDE DEF left
    <2> QED
      BY <2>1, <2>3, <2>4, FollowsDecref, HeldAreDeallocatable DEF IInv
  <1> QED
    BY <1>1, <1>2

LEMMA FollowsRegistrations ==
  ASSUME IInv, NEW t \in Threads,
         \/ \E o \in CtxOptions, s \in Slots, h \in Handlers, r \in Regs :
               SetHandler(t, o, s, h, r)
         \/ \E s \in Slots : ReleaseRegistration(t, s)
         \/ \E h \in Handlers : DropHandler(t, h)
  PROVE  Follows(refs', kernel')
  <1> USE DEF IInv
  <1>1. ASSUME NEW o \in CtxOptions, NEW s \in Slots, NEW h \in Handlers, NEW r \in Regs,
               SetHandler(t, o, s, h, r)
        PROVE  Follows(refs', kernel')
    <2> DEFINE rs == [refs EXCEPT ![h] = @ \cup {r}]
    <2>1. /\ rs \in [Wrappers \cup Handlers -> SUBSET Holders]
          /\ rs[h] = refs[h] \cup {r}
          /\ \A x \in Wrappers \cup Handlers : x # h => rs[x] = refs[x]
      BY DEF TypeOK, Holders
    <2>2. handlerOf[r] = None /\ refs[h] # {} /\ kernel' = kernel
          /\ refs' = DestroyUnshared(rs, slots')
      BY <1>1 DEF SetHandler
    <2> HIDE DEF rs
    <2>3. \A x \in Regs : Released(x) => x # r /\ handlerOf[x] \in Handlers
      BY <2>2 DEF Released, TypeOK
    <2>4. \A x \in Regs : Released(x) => x \notin rs[handlerOf[x]]
      BY <2>1, <2>3 DEF Released
    <2>5. \A w \in Wrappers : rs[w] = refs[w]
      BY <2>1, ConstantsAssumption
    <2>6. Follows(rs, kernel)
      BY <2>1, <2>2, <2>4, <2>5, FollowsItself DEF Follows, Freed
    <2> QED
      BY <2>2, <2>6, FollowsDestroyUnshared
  <1>2. ASSUME NEW s \in Slots, ReleaseRegistration(t, s)
        PROVE  Follows(refs', kernel')
    <2>1. refs' = DestroyUnshared(refs, slots') /\ kernel' = kernel
      BY <1>2 DEF ReleaseRegistration
    <2> QED
      BY <2>1, FollowsItself, FollowsDestroyUnshared
  <1>3. ASSUME NEW h \in Handlers, DropHandler(t, h)
        PROVE  Follows(refs', kernel')
    <2>1. /\ refs' = [refs EXCEPT ![h] = @ \ {Var}] /\ kernel' = kernel
      BY <1>3 DEF DropHandler
    <2>2. /\ refs' \in [Wrappers \cup Handlers -> SUBSET Holders]
          /\ \A x \in Wrappers \cup Handlers : refs'[x] \subseteq refs[x]
      BY <2>1 DEF TypeOK
    <2> QED
      BY <2>1, <2>2, FollowsItself, FollowsLetGo
  <1> QED
    BY <1>1, <1>2, <1>3

\* The program's references and the kernel's own steps.
LEMMA FollowsDrop ==
  ASSUME IInv, NEW t \in Threads,
         \/ \E w \in Wrappers : DropWrapper(t, w)
         \/ \E g \in Managers : Close(t, g)
  PROVE  Follows(refs', kernel')
  <1> USE DEF IInv
  <1>1. ASSUME NEW w \in Wrappers, DropWrapper(t, w)
        PROVE  Follows(refs', kernel')
    <2> DEFINE left == [refs EXCEPT ![w] = @ \ {Var}]
    <2>1. refs[w] # {} /\ Decref(t, left, w)
      BY <1>1 DEF DropWrapper
    <2>2. /\ left \in [Wrappers \cup Handlers -> SUBSET Holders]
          /\ \A x \in Wrappers \cup Handlers : left[x] \subseteq refs[x]
      BY DEF TypeOK
    <2> HIDE DEF left
    <2>3. Follows(left, kernel)
      BY <2>2, FollowsItself, FollowsLetGo
    <2> QED
      BY <2>1, <2>3, FollowsDecref, HeldAreDeallocatable
  <1>2. ASSUME NEW g \in Managers, Close(t, g)
        PROVE  Follows(refs', kernel')
    <2>1. g \in Wrappers /\ refs[g] # {} /\ kernel[g] # "gone"
      BY <1>2 DEF Close, Wrappers
    <2>2. Follows([refs EXCEPT ![g] = @ \cup {t}], kernel)
      BY <2>1, FollowsTake
    <2> QED
      BY <1>2, <2>1, <2>2, FollowsBeginDestroy DEF Close
  <1> QED
    BY <1>1, <1>2

LEMMA FollowsKernel ==
  ASSUME IInv, NEW t \in Threads,
         \/ AcquireGil(t) \/ YieldGil(t) \/ KernelDestroyed(t) \/ KernelCreated(t)
         \/ KernelFailed(t) \/ ManagerAllocFails(t)
  PROVE  Follows(refs', kernel')
  <1> USE DEF IInv
  <1>1. CASE AcquireGil(t) \/ YieldGil(t) \/ KernelFailed(t)
    BY <1>1, FollowsItself DEF AcquireGil, YieldGil, KernelFailed
  <1>2. obj[t] \in Wrappers \/ pc[t] = "py"
    BY DEF Inv, FrameInv, Built, Wrappers
  <1>3. CASE KernelDestroyed(t)
    BY <1>2, <1>3, FollowsItself, FollowsGone DEF KernelDestroyed
  <1>4. CASE KernelCreated(t)
    <2>1. kernel[obj[t]] = "absent"
      BY <1>4 DEF KernelCreated, Inv, FrameKernelInv
    <2> QED
      BY <1>2, <1>4, <2>1, FollowsItself DEF KernelCreated, Follows, KernelStates
  <1>5. CASE ManagerAllocFails(t)
    <2>1. kernel[obj[t]] = "live"
      BY <1>5 DEF ManagerAllocFails, Inv, FrameKernelInv
    <2> QED
      BY <1>2, <1>5, <2>1, FollowsItself DEF ManagerAllocFails, Follows, KernelStates
  <1> QED
    BY <1>1, <1>3, <1>4, <1>5

LEMMA FollowsNew ==
  ASSUME IInv, NEW t \in Threads,
         \/ \E o \in CtxOptions : NewCtxOptions(t, o)
         \/ \E m \in MgrOptions, c \in Contexts : NewMgrOptions(t, m, c)
         \/ \E c \in Contexts, o \in CtxOptions \cup {None} : NewContext(t, c, o)
         \/ \E g \in Managers, m \in MgrOptions : NewManager(t, g, m)
  PROVE  Follows(refs', kernel')
  <1> USE DEF IInv
  <1>1. ASSUME NEW o \in CtxOptions, NewCtxOptions(t, o)
        PROVE  Follows(refs', kernel')
    <2>1. o \in Wrappers /\ kernel[o] = "absent"
      BY <1>1 DEF NewCtxOptions, Wrappers
    <2>2. refs[o] = {}
      BY <2>1 DEF Inv, KernelInv
    <2>3. CASE kernel' = [kernel EXCEPT ![o] = "live"] /\ refs' = [refs EXCEPT ![o] = {Var}]
      <3>1. refs' = [refs EXCEPT ![o] = @ \cup {Var}]
        BY <2>1, <2>2, <2>3 DEF TypeOK
      <3>2. Follows(refs', kernel)
        BY <2>1, <3>1, FollowsTake
      <3> QED
        BY <2>1, <2>3, <3>2 DEF Follows, KernelStates
    <2>4. CASE kernel' = [kernel EXCEPT ![o] = "gone"] /\ refs' = refs
      BY <2>1, <2>4, FollowsItself, FollowsGone
    <2> QED
      BY <1>1, <2>3, <2>4 DEF NewCtxOptions
  <1>2. ASSUME NEW m \in MgrOptions, NEW c \in Contexts, NewMgrOptions(t, m, c)
        PROVE  Follows(refs', kernel')
    <2>1. m \in Wrappers /\ c \in Wrappers /\ m # c /\ kernel[m] = "absent" /\ refs[c] # {}
      BY <1>2, ConstantsAssumption DEF NewMgrOptions, Wrappers
    <2>2. CASE /\ kernel' = [kernel EXCEPT ![m] = "live"]
               /\ refs' = [refs EXCEPT ![m] = {Var}, ![c] = @ \cup {m}]
      <3>1. Follows([refs EXCEPT ![c] = @ \cup {m}], kernel)
        BY <2>1, FollowsTake
      <3>2. /\ refs'[m] = {Var}
            /\ \A x \in Wrappers \cup Handlers :
                  x # m => refs'[x] = [refs EXCEPT ![c] = @ \cup {m}][x]
            /\ refs' \in [Wrappers \cup Handlers -> SUBSET Holders]
        BY <2>1, <2>2 DEF TypeOK, Holders
      <3>3. m \notin Handlers /\ ~Freed(m)
        BY <2>1, ConstantsAssumption DEF Freed
      <3>4. \A r \in Regs : Released(r) => handlerOf[r] \in Handlers
        BY DEF TypeOK, Released
      <3>5. Follows(refs', kernel)
        BY <3>1, <3>2, <3>3, <3>4 DEF Follows
      <3> QED
        BY <2>1, <2>2, <3>5 DEF Follows, KernelStates
    <2>3. CASE kernel' = [kernel EXCEPT ![m] = "gone"] /\ refs' = refs
      BY <2>1, <2>3, FollowsItself, FollowsGone
    <2> QED
      BY <1>2, <2>2, <2>3 DEF NewMgrOptions
  <1>3. ASSUME NEW w \in Wrappers, NEW o \in Options \cup {None}, BeginCreate(t, w, o),
               o # None => Var \in refs[o]
        PROVE  Follows(refs', kernel')
    <2>1. /\ refs' = [x \in Wrappers \cup Handlers |->
                         IF x = o THEN refs[x] \cup {t} ELSE refs[x]]
          /\ kernel' = kernel
      BY <1>3 DEF BeginCreate
    <2>2. CASE o = None
      <3>1. refs' = refs
        BY <2>1, <2>2, ConstantsAssumption DEF TypeOK
      <3> QED
        BY <2>1, <3>1, FollowsItself
    <2>3. CASE o # None
      <3>1. refs' = [refs EXCEPT ![o] = @ \cup {t}]
        BY <2>1 DEF TypeOK
      <3>2. o \in Wrappers /\ refs[o] # {}
        BY <1>3, <2>3 DEF Options, Wrappers
      <3>3. Follows([refs EXCEPT ![o] = @ \cup {t}], kernel)
        BY <3>2, FollowsTake
      <3> QED
        BY <2>1, <3>1, <3>3
    <2> QED
      BY <2>2, <2>3
  <1>4. ASSUME NEW c \in Contexts, NEW o \in CtxOptions \cup {None}, NewContext(t, c, o)
        PROVE  Follows(refs', kernel')
    BY <1>3, <1>4 DEF NewContext, Wrappers, Options
  <1>5. ASSUME NEW g \in Managers, NEW m \in MgrOptions, NewManager(t, g, m)
        PROVE  Follows(refs', kernel')
    BY <1>3, <1>5 DEF NewManager, Wrappers, Options
  <1> QED
    BY <1>1, <1>2, <1>4, <1>5

LEMMA FollowsFreeReturn ==
  ASSUME IInv, NEW t \in Threads, FreeReturn(t)
  PROVE  Follows(refs', kernel')
  <1> USE DEF IInv
  <1>1. Follows(refs, kernel)
    BY FollowsItself
  <1>2. CASE src[t] # None /\ Decref(t, [refs EXCEPT ![src[t]] = @ \ {t}], src[t])
    <2>1. ReturnFrom(t, refs)
      BY <1>2 DEF ReturnFrom
    <2> QED
      BY <1>1, <2>1, FollowsReturnFrom
  <1>3. CASE Continue(t, refs, kernel)
    BY <1>1, <1>3, FollowsContinue
  <1>4. CASE /\ src[t] = None /\ obj[t] \in Managers
             /\ Decref(t, [refs EXCEPT ![obj[t]] = @ \ {t}], obj[t])
    <2> DEFINE w == obj[t]
               left == [refs EXCEPT ![w] = @ \ {t}]
    <2>1. w \in Wrappers \ Contexts
      BY <1>4, ConstantsAssumption DEF Wrappers
    <2>2. OwesContext(w, Threads, refs, {})
      BY <1>4 DEF FreeReturn, OwesContext, Freeing
    <2>3. /\ left \in [Wrappers \cup Handlers -> SUBSET Holders]
          /\ \A x \in Wrappers \cup Handlers : left[x] \subseteq refs[x]
      BY DEF TypeOK
    <2>4. Decref(t, left, w)
      BY <1>4
    <2> HIDE DEF left, w
    <2>5. Follows(left, kernel)
      BY <1>1, <2>3, FollowsLetGo
    <2>6. Deallocatable(w)
      BY <2>1, <2>2, OwersAreDeallocatable
    <2> QED
      BY <2>1, <2>4, <2>5, <2>6, FollowsDecref
  <1> QED
    BY <1>2, <1>3, <1>4 DEF FreeReturn

LEMMA FollowsCreated ==
  ASSUME IInv, NEW t \in Threads,
         CreateFailed(t) \/ ContextCreated(t) \/ ManagerCreated(t)
  PROVE  Follows(refs', kernel')
  <1> USE DEF IInv
  <1>1. CASE CreateFailed(t)
    BY <1>1, FollowsItself, FollowsReturnFrom DEF CreateFailed
  <1> DEFINE w == obj[t]
             c == context[w]
  <1>2. ASSUME pc[t] = "made"
        PROVE  w \in Wrappers /\ refs[w] = {}
    BY <1>2 DEF Inv, FrameInv, Creating, Built, Wrappers
  <1>3. ASSUME pc[t] = "made"
        PROVE  Follows([refs EXCEPT ![w] = {Var}], kernel)
    <2>1. [refs EXCEPT ![w] = {Var}] = [refs EXCEPT ![w] = @ \cup {Var}]
      BY <1>2, <1>3 DEF TypeOK
    <2>2. Follows([refs EXCEPT ![w] = @ \cup {Var}], kernel)
      BY <1>2, <1>3, FollowsTake
    <2> QED
      BY <2>1, <2>2
  <1>4. CASE ContextCreated(t)
    BY <1>3, <1>4, FollowsReturnFrom DEF ContextCreated
  <1>5. CASE ManagerCreated(t)
    <2> DEFINE rs == [refs EXCEPT ![w] = {Var}, ![c] = @ \cup {w}]
    <2>1. pc[t] = "made" /\ w \in Managers /\ ReturnFrom(t, rs)
      BY <1>5 DEF ManagerCreated
    <2>2. src[t] \in MgrOptions /\ src[t] # None /\ t \in refs[src[t]]
      BY <2>1, ConstantsAssumption DEF Inv, FrameInv, Creating, Wrappers
    <2>3. c \in Contexts /\ refs[c] # {}
      <3>1. c = context[src[t]]
        BY <2>1, <2>2 DEF Inv, ContextInv
      <3> QED
        BY <2>2, <3>1 DEF Inv, ContextInv, OwesContext, ContextUsers
    <2>4. c \in Wrappers /\ w \in Wrappers /\ c # w
      BY <2>1, <2>3, ConstantsAssumption DEF Wrappers
    <2>5. /\ rs[c] = refs[c] \cup {w}
          /\ \A x \in Wrappers \cup Handlers :
                x # c => rs[x] = [refs EXCEPT ![w] = {Var}][x]
          /\ rs \in [Wrappers \cup Handlers -> SUBSET Holders]
      BY <2>4 DEF TypeOK, Holders
    <2>6. c \notin Handlers /\ ~Freed(c)
      BY <2>3, <2>4, ConstantsAssumption DEF Freed
    <2>7. \A r \in Regs : Released(r) => handlerOf[r] \in Handlers
      BY DEF TypeOK, Released
    <2> HIDE DEF rs, c, w
    <2>8. Follows(rs, kernel)
      BY <1>3, <2>1, <2>5, <2>6, <2>7 DEF Follows
    <2> QED
      BY <2>1, <2>8, FollowsReturnFrom
  <1> QED
    BY <1>1, <1>4, <1>5

LEMMA FollowsContextAllocFails ==
  ASSUME IInv, NEW t \in Threads, ContextAllocFails(t)
  PROVE  Follows(refs', kernel')
  <1> USE DEF IInv
  <1> DEFINE c == obj[t]
             o == src[t]
             sl == [slots EXCEPT ![c] = NoSlots]
             ks == [kernel EXCEPT ![c] = "gone"]
             rs == DestroyUnshared(refs, sl)
             left == IF o = None THEN rs ELSE [rs EXCEPT ![o] = @ \ {t}]
  <1>1. c \in Wrappers /\ o \in Wrappers \cup {None}
    BY DEF ContextAllocFails, Wrappers, TypeOK, Options
  <1>2. Follows(rs, ks)
    BY <1>1, FollowsItself, FollowsGone, FollowsDestroyUnshared
  <1>3. \/ /\ o # None
           /\ refs' = DestroyUnshared(left, slots')
           /\ kernel' = [ks EXCEPT ![o] = "gone"]
        \/ refs' = left /\ kernel' = ks
    BY DEF ContextAllocFails, Continue
  <1> HIDE DEF c, o, sl, ks, rs
  <1>4. Follows(left, ks)
    <2>1. /\ left \in [Wrappers \cup Handlers -> SUBSET Holders]
          /\ \A x \in Wrappers \cup Handlers : left[x] \subseteq rs[x]
      BY <1>2 DEF Follows
    <2> QED
      BY <1>2, <2>1, FollowsLetGo
  <1> HIDE DEF left
  <1> QED
    BY <1>1, <1>3, <1>4, FollowsGone, FollowsDestroyUnshared

LEMMA FollowsStep ==
  ASSUME IInv, NEW t \in Threads, Step(t)
  PROVE  /\ Follows(refs', kernel')
         /\ \A r \in Regs : handlerOf[r] # None => handlerOf'[r] = handlerOf[r]
  <1>1. Follows(refs', kernel')
    BY FollowsRegistrations, FollowsDrop, FollowsKernel, FollowsNew, FollowsFreeReturn,
       FollowsCreated, FollowsContextAllocFails DEF Step
  <1>2. ASSUME NEW o \in CtxOptions, NEW s \in Slots, NEW h \in Handlers, NEW r \in Regs,
               SetHandler(t, o, s, h, r)
        PROVE  \A x \in Regs : handlerOf[x] # None => handlerOf'[x] = handlerOf[x]
    BY <1>2 DEF SetHandler, IInv, TypeOK
  <1>3. \/ handlerOf' = handlerOf
        \/ \E o \in CtxOptions, s \in Slots, h \in Handlers, r \in Regs :
              SetHandler(t, o, s, h, r)
    BY DEF Step, AcquireGil, YieldGil, DropHandler, DropWrapper, Close,
           ReleaseRegistration, KernelDestroyed, FreeReturn, NewCtxOptions, NewMgrOptions,
           NewContext, NewManager, BeginCreate, KernelCreated, KernelFailed, CreateFailed,
           ContextCreated, ManagerCreated, ContextAllocFails, ManagerAllocFails
  <1> QED
    BY <1>1, <1>2, <1>3

\* No kernel object comes back once its destruction has begun, no freed wrapper
\* or handler is referenced again, and pyobject_destroy_cb() has the last word
\* on its registration.
THEOREM EndsAreFinalCorrect == Spec => EndsAreFinal
  <1> DEFINE Final ==
        /\ \A w \in Wrappers :
              /\ kernel[w] = "gone" => kernel'[w] = "gone"
              /\ kernel[w] = "destroying" => kernel'[w] \in {"destroying", "gone"}
              /\ Freed(w) => refs'[w] = {}
        /\ \A h \in Handlers : refs[h] = {} => refs'[h] = {}
        /\ \A r \in Regs : Released(r) => Released(r)' /\ Sharers(slots', r) = {}
  <1>1. IInv /\ IInv' /\ [Next]_vars => [Final]_vars
    <2> SUFFICES ASSUME IInv, IInv', NEW t \in Threads, Step(t)  PROVE Final
      BY DEF Next
    <2>1. /\ Follows(refs', kernel')
          /\ \A r \in Regs : handlerOf[r] # None => handlerOf'[r] = handlerOf[r]
      BY FollowsStep
    <2>2. ASSUME NEW r \in Regs, Released(r)
          PROVE  Released(r)' /\ Sharers(slots', r) = {}
      <3>1. Released(r)'
        BY <2>1, <2>2 DEF Released, Follows
      <3>2. r # None
        BY ConstantsAssumption
      <3>3. Sharers(slots', r) = {}
        BY <3>1, <3>2 DEF Sharers, Released, IInv, Inv, RegsInv
      <3> QED
        BY <3>1, <3>3
    <2> QED
      BY <2>1, <2>2 DEF Follows
  <1> QED
    BY <1>1, Invariance, PTL DEF Spec, EndsAreFinal
=============================================================================
