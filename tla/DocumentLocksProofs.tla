------------------------ MODULE DocumentLocksProofs ------------------------
(***************************************************************************)
(* Proofs about DocumentLocks, for any threads, documents and requests and *)
(* any number of sessions.                                                 *)
(***************************************************************************)
EXTENDS DocumentLocks, TLAPS

\* The lowest of a set of documents is in it, and none is below.
LEMMA LowestIsIn ==
  ASSUME NEW S \in SUBSET Documents, S # {}
  PROVE  Lowest(S) \in S /\ \A e \in S : Lowest(S) <= e
  BY OrderAssumption DEF Lowest

-----------------------------------------------------------------------------
(* Types.                                                                  *)

\* What each thread is about to lock or release is a document it asked for.
LEMMA NextDocument ==
  ASSUME TypeOK, NEW t \in Threads
  PROVE  /\ pc[t] \in Acquiring => Wanted(t) \in request[t] \ acquired[t]
         /\ pc[t] \in Releasing => Visited(t) \in todo[t]
  <1>1. pc[t] \in Acquiring => request[t] \ acquired[t] # {}
    BY DEF TypeOK, SessionShape, Acquiring, Releasing
  <1>2. pc[t] \in Releasing => todo[t] # {}
    BY DEF TypeOK, SessionShape
  <1>3. request[t] \in SUBSET Documents /\ todo[t] \in SUBSET Documents
    BY DEF TypeOK
  <1>4. QED
    BY <1>1, <1>2, <1>3, LowestIsIn DEF Wanted, Visited

\* The bookkeeping of a loop over `todo'.
LEMMA VisitTypes ==
  ASSUME TypeOK, NEW t \in Threads, Visit(t)
  PROVE  /\ pc' \in [Threads -> PCs]
         /\ request' \in [Threads -> SUBSET Documents]
         /\ acquired' \in [Threads -> SUBSET Documents]
         /\ outer' \in [Threads -> SUBSET Documents]
         /\ todo' \in [Threads -> SUBSET Documents]
  BY DEF TypeOK, Visit, Close, PCs, Releasing, Acquiring

\* The initial state is of its type.
LEMMA InitTyped == Init => TypeOK
  BY MaxCallsAssumption
  DEF Init, TypeOK, SessionShape, PCs, Acquiring, Releasing

\* Nobody else's session is touched by a step of t.
OthersKept(t) == \A u \in Threads \ {t} :
  /\ pc'[u] = pc[u]             /\ request'[u] = request[u]
  /\ acquired'[u] = acquired[u] /\ outer'[u] = outer[u]
  /\ todo'[u] = todo[u]

\* A step of a thread changes nothing of another thread.
LEMMA StepsAreLocal ==
  ASSUME TypeOK, NEW t \in Threads,
         (\E ids \in Requests : Begin(t, ids)) \/ Proceed(t)
  PROVE  OthersKept(t)
  <1>1. CASE \E ids \in Requests : Begin(t, ids)
    BY <1>1 DEF TypeOK, OthersKept, Begin
  <1>2. CASE CheckOwner(t) \/ Reenter(t) \/ Acquire(t) \/ Record(t) \/ Exit(t)
    BY <1>2 DEF TypeOK, OthersKept, CheckOwner, Reenter, Acquire, Record, Exit
  <1>3. CASE Forget(t) \/ Unlock(t) \/ HandleRefusal(t)
    BY <1>3 DEF TypeOK, OthersKept, Forget, Unlock, HandleRefusal, Visit, Close
  <1>4. QED
    BY <1>1, <1>2, <1>3 DEF Proceed

\* The shape of a session survives each of its own steps.
LEMMA ShapeKept ==
  ASSUME TypeOK, NEW t \in Threads,
         (\E ids \in Requests : Begin(t, ids)) \/ Proceed(t)
  PROVE  SessionShape(t)'
  <1> USE DEF Acquiring, Releasing
  <1>1. SessionShape(t) /\ (pc[t] \in Acquiring => Wanted(t) \in request[t] \ acquired[t])
    BY NextDocument DEF TypeOK
  <1>2. CASE \E ids \in Requests : Begin(t, ids)
    BY <1>1, <1>2, RequestsAssumption DEF TypeOK, Begin, SessionShape
  <1>3. CASE CheckOwner(t) \/ Acquire(t)
    BY <1>1, <1>3 DEF TypeOK, CheckOwner, Acquire, SessionShape
  <1>4. CASE Reenter(t)
    BY <1>1, <1>4 DEF TypeOK, Reenter, SessionShape
  <1>5. CASE Record(t)
    BY <1>1, <1>5 DEF TypeOK, Record, SessionShape
  <1>6. CASE Exit(t)
    BY <1>1, <1>6 DEF TypeOK, Exit, SessionShape
  <1>7. ASSUME Visit(t), pc[t] \in Releasing
        PROVE  SessionShape(t)'
    BY <1>1, <1>7 DEF TypeOK, Visit, Close, SessionShape
  <1>8. CASE Forget(t)
    <2>1. CASE Visited(t) \notin held
      BY <1>7, <1>8, <2>1 DEF Forget
    <2>2. CASE Visited(t) \in held
      BY <1>1, <1>8, <2>2 DEF TypeOK, Forget, SessionShape
    <2>3. QED
      BY <2>1, <2>2
  <1>9. CASE Unlock(t)
    BY <1>7, <1>9 DEF Unlock
  <1>10. CASE HandleRefusal(t)
    BY <1>1, <1>10 DEF TypeOK, HandleRefusal, Close, SessionShape
  <1>11. QED
    BY <1>2, <1>3, <1>4, <1>5, <1>6, <1>8, <1>9, <1>10 DEF Proceed

\* No step leaves the types.
LEMMA TypeKept == TypeOK /\ [Next]_vars => TypeOK'
  <1> SUFFICES ASSUME TypeOK, [Next]_vars PROVE TypeOK'
    OBVIOUS
  <1> USE DEF PCs, Acquiring, Releasing
  <1>1. ASSUME NEW t \in Threads, (\E ids \in Requests : Begin(t, ids)) \/ Proceed(t)
        PROVE  TypeOK'
    <2>1. \A u \in Threads : SessionShape(u)'
      <3>1. \A u \in Threads \ {t} : SessionShape(u)'
        BY <1>1, StepsAreLocal DEF TypeOK, OthersKept, SessionShape
      <3>2. QED
        BY <1>1, <3>1, ShapeKept
    <2>2. pc[t] \in Acquiring => Wanted(t) \in Documents
      BY NextDocument DEF TypeOK
    <2>3. CASE \E ids \in Requests : Begin(t, ids)
      BY <2>1, <2>3, RequestsAssumption, MaxCallsAssumption DEF TypeOK, Begin, shared
    <2>4. CASE CheckOwner(t) \/ Reenter(t) \/ Exit(t)
      BY <2>1, <2>4 DEF TypeOK, CheckOwner, Reenter, Exit, shared
    <2>5. CASE Acquire(t)
      BY <2>1, <2>2, <2>5 DEF TypeOK, Acquire
    <2>10. CASE Record(t)
      <3>1. acquired[t] \cup {Wanted(t)} \in SUBSET Documents
        BY <2>2, <2>10 DEF TypeOK, Record
      <3>2. QED
        BY <2>1, <2>10, <3>1 DEF TypeOK, Record
    <2>6. CASE Forget(t)
      <3>1. CASE Visited(t) \notin held
        BY <1>1, <2>1, <2>6, <3>1, VisitTypes DEF TypeOK, Forget
      <3>2. CASE Visited(t) \in held
        BY <2>1, <2>6, <3>2 DEF TypeOK, Forget
      <3>3. QED
        BY <3>1, <3>2
    <2>7. CASE Unlock(t)
      BY <2>1, <2>7, VisitTypes DEF TypeOK, Unlock
    <2>8. CASE HandleRefusal(t)
      BY <2>1, <2>8 DEF TypeOK, HandleRefusal, Close, shared
    <2>9. QED
      BY <1>1, <2>3, <2>4, <2>5, <2>10, <2>6, <2>7, <2>8 DEF Proceed
  <1>2. CASE UNCHANGED vars
    BY <1>2 DEF TypeOK, SessionShape, vars
  <1>3. QED
    BY <1>1, <1>2 DEF Next, Rest

(* Every state of the coordinator is well formed, whatever its callers do. *)
THEOREM TypeCorrect == Spec => []TypeOK
  BY InitTyped, TypeKept, PTL DEF Spec

-----------------------------------------------------------------------------
(* Who holds what.                                                         *)

\* An inner session never takes a document of the session around it.
Fresh(t) ==
  /\ pc[t] \in {"wait", "record"} => Wanted(t) \notin outer[t]
  /\ acquired[t] \cap outer[t] = {}
  /\ request[t] = {} => outer[t] = {}
  /\ pc[t] = "record" => locked[Wanted(t)]
  /\ pc[t] \in Releasing => todo[t] \subseteq acquired[t]
  /\ pc[t] = "unlock" => owner[Visited(t)] = Nobody

IInv == /\ TypeOK
        /\ MutualExclusion
        /\ Possession
        /\ NothingLeaks
        /\ \A t \in Threads : Fresh(t)

\* A step of a thread leaves what the others hold, want and wait for.
LEMMA OthersHold ==
  ASSUME NEW t \in Threads, OthersKept(t), NEW u \in Threads \ {t}
  PROVE  /\ Held(u)' = Held(u)       /\ Locking(u)' = Locking(u)
         /\ Wanted(u)' = Wanted(u)   /\ Visited(u)' = Visited(u)
  BY DEF OthersKept, Held, Locking, Wanted, Visited

\* What a step of t does to the documents t holds.
LEMMA HeldByStep ==
  ASSUME IInv, NEW t \in Threads
  PROVE  /\ \A ids \in Requests : Begin(t, ids) => Held(t)' = Held(t) /\ Locking(t)' = Locking(t)
         /\ CheckOwner(t) => Held(t)' = Held(t) /\ Locking(t)' = Locking(t)
         /\ Reenter(t) => Held(t)' = Held(t) /\ Locking(t)' = Locking(t)
         /\ Acquire(t) => Held(t)' = Held(t) /\ Locking(t)' = Locking(t) \cup {Wanted(t)}
         /\ Record(t) => Held(t)' = Held(t) \cup {Wanted(t)} /\ Locking(t)' = Locking(t)
         /\ Exit(t) => Held(t)' = Held(t) /\ Locking(t)' = Locking(t)
         /\ Forget(t) => Held(t)' = Held(t) /\ Locking(t)' = Locking(t)
         /\ Unlock(t) => Held(t)' = Held(t) \ {Visited(t)} /\ Locking(t)' = Locking(t) \ {Visited(t)}
         /\ HandleRefusal(t) => Held(t)' = Held(t) /\ Locking(t)' = Locking(t)
  <1> USE DEF Acquiring, Releasing
  <1>1. TypeOK /\ SessionShape(t) /\ Fresh(t)
    BY DEF IInv, TypeOK
  <1>2. ASSUME NEW ids \in Requests, Begin(t, ids)
        PROVE  Held(t)' = Held(t) /\ Locking(t)' = Locking(t)
    BY <1>1, <1>2 DEF TypeOK, SessionShape, Fresh, Begin, Held, Locking
  <1>3. ASSUME CheckOwner(t)
        PROVE  Held(t)' = Held(t) /\ Locking(t)' = Locking(t)
    BY <1>1, <1>3 DEF TypeOK, CheckOwner, Held, Locking
  <1>4. ASSUME Reenter(t)
        PROVE  Held(t)' = Held(t) /\ Locking(t)' = Locking(t)
    BY <1>1, <1>4 DEF TypeOK, Reenter, Held, Locking
  <1>5. ASSUME Acquire(t)
        PROVE  Held(t)' = Held(t) /\ Locking(t)' = Locking(t) \cup {Wanted(t)}
    BY <1>1, <1>5 DEF TypeOK, Acquire, Held, Locking, Wanted
  <1>6. ASSUME Record(t)
        PROVE  Held(t)' = Held(t) \cup {Wanted(t)} /\ Locking(t)' = Locking(t)
    BY <1>1, <1>6 DEF TypeOK, Record, Held, Locking
  <1>7. ASSUME Exit(t)
        PROVE  Held(t)' = Held(t) /\ Locking(t)' = Locking(t)
    BY <1>1, <1>7 DEF TypeOK, Exit, Held, Locking
  <1>8. ASSUME Forget(t)
        PROVE  Held(t)' = Held(t) /\ Locking(t)' = Locking(t)
    <2>1. pc[t] = "release" /\ Visited(t) \in Held(t) /\ Visited(t) \in Documents
      BY <1>1, <1>8, NextDocument DEF TypeOK, Forget, Fresh, Held
    <2>2. Visited(t) \in held
      BY <2>1, NobodyAssumption DEF IInv, Possession, held
    <2>3. QED
      BY <1>1, <1>8, <2>1, <2>2 DEF TypeOK, Forget, Held, Locking
  <1>9. ASSUME Unlock(t)
        PROVE  Held(t)' = Held(t) \ {Visited(t)} /\ Locking(t)' = Locking(t) \ {Visited(t)}
    <2>1. pc[t] = "unlock" /\ Visit(t)
      BY <1>1, <1>9 DEF Unlock, Fresh
    <2>2. Visited(t) \in todo[t] /\ Visited(t) \notin outer[t]
      BY <1>1, <2>1, NextDocument DEF Fresh
    <2>3. QED
      BY <1>1, <2>1, <2>2 DEF TypeOK, Visit, Close, Held, Locking
  <1>10. ASSUME HandleRefusal(t)
         PROVE  Held(t)' = Held(t) /\ Locking(t)' = Locking(t)
    BY <1>1, <1>10 DEF TypeOK, HandleRefusal, Close, Held, Locking
  <1>11. QED
    BY <1>2, <1>3, <1>4, <1>5, <1>6, <1>7, <1>8, <1>9, <1>10

\* A lock that a thread has taken is locked.
LEMMA LockingIsLocked ==
  ASSUME IInv, NEW t \in Threads, NEW d \in Locking(t)
  PROVE  locked[d]
  BY DEF IInv, Possession, Locking, Fresh

\* A step of t that takes nothing from the others leaves their part of the
\* invariant alone.
LEMMA OthersSafe ==
  ASSUME IInv, NEW t \in Threads, OthersKept(t),
         \A u \in Threads \ {t} : \A d \in Locking(u) :
           locked'[d] = locked[d] /\ owner'[d] = owner[d],
         NEW u \in Threads \ {t}
  PROVE  /\ Fresh(u)'
         /\ \A d \in Held(u)' :
              /\ locked'[d]
              /\ owner'[d] = u \/ (pc'[u] = "unlock" /\ d = Visited(u)')
  <1>1. /\ Held(u)' = Held(u)       /\ Wanted(u)' = Wanted(u)
        /\ Visited(u)' = Visited(u) /\ pc'[u] = pc[u]
    BY OthersHold DEF OthersKept
  <1>2. Held(u) \subseteq Locking(u)
    BY DEF Locking
  <1>3. Fresh(u)'
    <2>1. pc[u] = "record" => Wanted(u) \in Locking(u)
      BY DEF Locking
    <2>2. pc[u] = "unlock" => Visited(u) \in Locking(u)
      BY <1>2, NextDocument DEF IInv, Held, Releasing, Acquiring
    <2>3. QED
      BY <1>1, <2>1, <2>2 DEF IInv, Fresh, OthersKept
  <1>4. QED
    BY <1>1, <1>2, <1>3 DEF IInv, Possession

\* A step that only moves t's program counter and bookkeeping.
LEMMA QuietStep ==
  ASSUME IInv, NEW t \in Threads, OthersKept(t), UNCHANGED shared,
         Held(t)' = Held(t), Locking(t)' = Locking(t), pc[t] # "unlock"
  PROVE  /\ MutualExclusion' /\ Possession' /\ NothingLeaks'
         /\ \A u \in Threads \ {t} : Fresh(u)'
  <1>1. \A u \in Threads : Held(u)' = Held(u) /\ Locking(u)' = Locking(u)
    BY OthersHold
  <1>2. MutualExclusion'
    BY <1>1 DEF IInv, MutualExclusion
  <1>3. Possession'
    <2>1. \A d \in Held(t) : locked[d] /\ owner[d] = t
      BY DEF IInv, Possession, Fresh
    <2>2. \A d \in Held(t)' : locked'[d] /\ owner'[d] = t
      BY <2>1 DEF shared
    <2>3. QED
      BY <2>2, OthersSafe DEF Possession, shared
  <1>4. NothingLeaks'
    BY <1>1 DEF IInv, NothingLeaks, shared
  <1>5. QED
    BY <1>2, <1>3, <1>4, OthersSafe DEF shared

\* Taking a lock keeps the invariant.
LEMMA AcquireKeeps ==
  ASSUME IInv, TypeOK', NEW t \in Threads, OthersKept(t), Acquire(t)
  PROVE  IInv'
  <1>1. /\ Held(t)' = Held(t) /\ Locking(t)' = Locking(t) \cup {Wanted(t)}
        /\ Wanted(t)' = Wanted(t) /\ Wanted(t) \in Documents
    BY HeldByStep, NextDocument DEF IInv, TypeOK, Acquire, Wanted, Acquiring
  <1>2. \A u \in Threads : Wanted(t) \notin Locking(u)
    BY LockingIsLocked DEF Acquire
  <1>3. /\ owner' = owner /\ locked'[Wanted(t)]
        /\ \A d \in Documents \ {Wanted(t)} : locked'[d] = locked[d]
    BY <1>1 DEF IInv, TypeOK, Acquire
  <1>4. \A u \in Threads : Locking(u) \subseteq Documents
    BY NextDocument DEF IInv, TypeOK, Locking, Held, Acquiring
  <1>5. MutualExclusion'
    BY <1>1, <1>2, OthersHold DEF IInv, MutualExclusion
  <1>6. \A u \in Threads \ {t} : \A d \in Locking(u) :
          locked'[d] = locked[d] /\ owner'[d] = owner[d]
    BY <1>2, <1>3, <1>4
  <1>7. Possession'
    <2>1. \A d \in Held(t) : locked[d] /\ owner[d] = t /\ d # Wanted(t) /\ d \in Documents
      BY <1>2, <1>4 DEF IInv, Possession, Acquire, Locking
    <2>2. \A d \in Held(t)' : locked'[d] /\ owner'[d] = t
      BY <1>1, <1>3, <2>1
    <2>3. QED
      BY <1>6, <2>2, OthersSafe DEF Possession
  <1>8. NothingLeaks'
    BY <1>1, <1>3, OthersHold DEF IInv, NothingLeaks
  <1>9. Fresh(t)'
    BY <1>1, <1>3 DEF IInv, TypeOK, Fresh, Acquire, Releasing
  <1>10. QED
    BY <1>5, <1>6, <1>7, <1>8, <1>9, OthersSafe DEF IInv

\* Recording a session keeps the invariant.
LEMMA RecordKeeps ==
  ASSUME IInv, TypeOK', NEW t \in Threads, OthersKept(t), Record(t)
  PROVE  IInv'
  <1>1. /\ Held(t)' = Held(t) \cup {Wanted(t)} /\ Locking(t)' = Locking(t)
        /\ Wanted(t) \in Locking(t) /\ Wanted(t) \in Documents
    BY HeldByStep, NextDocument DEF IInv, TypeOK, Record, Locking, Acquiring
  <1>2. \A u \in Threads \ {t} : Wanted(t) \notin Locking(u)
    BY <1>1 DEF IInv, MutualExclusion
  <1>3. /\ locked' = locked /\ owner'[Wanted(t)] = t
        /\ \A d \in Documents \ {Wanted(t)} : owner'[d] = owner[d]
    BY <1>1 DEF IInv, TypeOK, Record
  <1>4. \A u \in Threads : Locking(u) \subseteq Documents
    BY NextDocument DEF IInv, TypeOK, Locking, Held, Acquiring
  <1>5. MutualExclusion'
    BY <1>1, OthersHold DEF IInv, MutualExclusion
  <1>6. \A u \in Threads \ {t} : \A d \in Locking(u) :
          locked'[d] = locked[d] /\ owner'[d] = owner[d]
    BY <1>2, <1>3, <1>4
  <1>7. Possession'
    <2>1. \A d \in Held(t) : locked[d] /\ owner[d] = t /\ d \in Documents
      BY <1>4 DEF IInv, Possession, Record, Locking
    <2>2. \A d \in Held(t)' : locked'[d] /\ owner'[d] = t
      BY <1>1, <1>3, <2>1, LockingIsLocked
    <2>3. QED
      BY <1>6, <2>2, OthersSafe DEF Possession
  <1>8. NothingLeaks'
    BY <1>1, <1>3, OthersHold DEF IInv, NothingLeaks
  <1>9. Fresh(t)'
    BY <1>1 DEF IInv, TypeOK, Fresh, Record, Releasing
  <1>10. QED
    BY <1>5, <1>6, <1>7, <1>8, <1>9, OthersSafe DEF IInv

\* Forgetting a session keeps the invariant.
LEMMA ForgetKeeps ==
  ASSUME IInv, TypeOK', NEW t \in Threads, OthersKept(t), Forget(t)
  PROVE  IInv'
  <1>1. /\ Held(t)' = Held(t) /\ Locking(t)' = Locking(t)
        /\ pc[t] = "release" /\ Visited(t) \in Held(t) /\ Visited(t) \in Documents
    BY HeldByStep, NextDocument
    DEF IInv, TypeOK, Forget, Fresh, Held, Releasing, Acquiring
  <1>2. Visited(t) \in held
    BY <1>1, NobodyAssumption DEF IInv, Possession, held
  <1>3. /\ locked' = locked /\ owner'[Visited(t)] = Nobody
        /\ pc'[t] = "unlock" /\ Visited(t)' = Visited(t)
        /\ \A d \in Documents \ {Visited(t)} : owner'[d] = owner[d]
    BY <1>1, <1>2 DEF IInv, TypeOK, Forget, Visited
  <1>4. \A u \in Threads : Held(u) \subseteq Locking(u) /\ Locking(u) \subseteq Documents
    BY NextDocument DEF IInv, TypeOK, Locking, Held, Acquiring
  <1>5. MutualExclusion'
    BY <1>1, OthersHold DEF IInv, MutualExclusion
  <1>6. \A u \in Threads \ {t} : \A d \in Locking(u) :
          locked'[d] = locked[d] /\ owner'[d] = owner[d]
    BY <1>1, <1>3, <1>4 DEF IInv, MutualExclusion
  <1>7. Possession'
    <2>1. \A d \in Held(t)' : locked'[d] /\ (owner'[d] = t \/ d = Visited(t)')
      BY <1>1, <1>3, <1>4 DEF IInv, Possession
    <2>2. QED
      BY <1>3, <1>6, <2>1, OthersSafe DEF Possession
  <1>8. NothingLeaks'
    BY <1>1, <1>3, OthersHold DEF IInv, NothingLeaks
  <1>9. Fresh(t)'
    BY <1>1, <1>2, <1>3 DEF IInv, Fresh, Forget, Releasing
  <1>10. QED
    BY <1>5, <1>6, <1>7, <1>8, <1>9, OthersSafe DEF IInv

\* Giving a lock back keeps the invariant.
LEMMA UnlockKeeps ==
  ASSUME IInv, TypeOK', NEW t \in Threads, OthersKept(t), Unlock(t)
  PROVE  IInv'
  <1>1. /\ Held(t)' = Held(t) \ {Visited(t)} /\ Locking(t)' = Locking(t) \ {Visited(t)}
        /\ pc[t] = "unlock" /\ Visited(t) \in todo[t]
        /\ Visited(t) \in Held(t) /\ Visited(t) \in Documents
    BY HeldByStep, NextDocument
    DEF IInv, TypeOK, Unlock, Fresh, Held, Releasing, Acquiring
  <1>2. /\ owner' = owner /\ ~locked'[Visited(t)]
        /\ \A d \in Documents \ {Visited(t)} : locked'[d] = locked[d]
    BY <1>1 DEF IInv, TypeOK, Unlock
  <1>3. Visit(t) /\ owner[Visited(t)] = Nobody
    BY <1>1 DEF IInv, Unlock, Fresh
  <1>4. \A u \in Threads : Held(u) \subseteq Locking(u) /\ Locking(u) \subseteq Documents
    BY NextDocument DEF IInv, TypeOK, Locking, Held, Acquiring
  <1>5. MutualExclusion'
    BY <1>1, OthersHold DEF IInv, MutualExclusion
  <1>6. \A u \in Threads \ {t} : \A d \in Locking(u) :
          locked'[d] = locked[d] /\ owner'[d] = owner[d]
    BY <1>1, <1>2, <1>4 DEF IInv, MutualExclusion
  <1>7. Possession'
    <2>1. \A d \in Held(t) \ {Visited(t)} : locked[d] /\ owner[d] = t /\ d \in Documents
      BY <1>4 DEF IInv, Possession
    <2>2. \A d \in Held(t)' : locked'[d] /\ owner'[d] = t
      BY <1>1, <1>2, <2>1
    <2>3. QED
      BY <1>6, <2>2, OthersSafe DEF Possession
  <1>8. NothingLeaks'
    BY <1>1, <1>2, <1>3, OthersHold DEF IInv, NothingLeaks
  <1>9. Fresh(t)'
    BY <1>1, <1>3 DEF IInv, TypeOK, Fresh, Visit, Close, Releasing
  <1>10. QED
    BY <1>5, <1>6, <1>7, <1>8, <1>9, OthersSafe DEF IInv

\* The invariant holds at first.
LEMMA InitInv == Init => IInv
  <1> SUFFICES ASSUME Init PROVE IInv
    OBVIOUS
  <1>1. \A t \in Threads : Held(t) = {} /\ Locking(t) = {}
    BY DEF Init, Held, Locking, Acquiring, Releasing
  <1>2. \A t \in Threads : Fresh(t)
    BY DEF Init, Fresh, Releasing
  <1>3. NothingLeaks
    BY DEF Init, NothingLeaks
  <1>4. QED
    BY <1>1, <1>2, <1>3, InitTyped DEF IInv, MutualExclusion, Possession

\* Every step keeps the invariant.
LEMMA InvKept == IInv /\ [Next]_vars => IInv'
  <1> SUFFICES ASSUME IInv, [Next]_vars PROVE IInv'
    OBVIOUS
  <1>1. TypeOK'
    BY TypeKept DEF IInv
  <1>2. ASSUME NEW t \in Threads, (\E ids \in Requests : Begin(t, ids)) \/ Proceed(t)
        PROVE  IInv'
    <2> USE DEF Acquiring, Releasing
    <2>1. OthersKept(t) /\ TypeOK /\ SessionShape(t) /\ Fresh(t)
      BY <1>2, StepsAreLocal DEF IInv, TypeOK
    <2>2. ASSUME UNCHANGED shared, Held(t)' = Held(t), Locking(t)' = Locking(t),
                 pc[t] # "unlock", Fresh(t)'
          PROVE  IInv'
      BY <1>1, <2>1, <2>2, QuietStep DEF IInv
    <2>3. ASSUME NEW ids \in Requests, Begin(t, ids)
          PROVE  IInv'
      <3>1. acquired[t] = request[t] /\ Fresh(t)'
        BY <2>1, <2>3, RequestsAssumption DEF TypeOK, SessionShape, Fresh, Begin
      <3>2. QED
        BY <2>2, <2>3, <3>1, HeldByStep DEF Begin, shared
    <2>4. CASE CheckOwner(t)
      <3>1. Wanted(t) \in Documents /\ Wanted(t) \notin Held(t)
        BY <2>1, <2>4, NextDocument DEF IInv, TypeOK, Possession, CheckOwner
      <3>2. Fresh(t)'
        BY <2>1, <2>4, <3>1 DEF TypeOK, Fresh, CheckOwner, Wanted, Held
      <3>3. QED
        BY <2>2, <2>4, <3>2, HeldByStep DEF CheckOwner, shared
    <2>5. CASE Reenter(t)
      <3>1. Fresh(t)'
        BY <2>1, <2>5 DEF TypeOK, Fresh, Reenter
      <3>2. QED
        BY <2>2, <2>5, <3>1, HeldByStep DEF Reenter, shared
    <2>6. CASE Acquire(t)
      BY <1>1, <2>1, <2>6, AcquireKeeps
    <2>7. CASE Record(t)
      BY <1>1, <2>1, <2>7, RecordKeeps
    <2>8. CASE Exit(t)
      <3>1. Fresh(t)'
        BY <2>1, <2>8 DEF TypeOK, Fresh, Exit
      <3>2. QED
        BY <2>2, <2>8, <3>1, HeldByStep DEF Exit, shared
    <2>9. CASE Forget(t)
      BY <1>1, <2>1, <2>9, ForgetKeeps
    <2>10. CASE Unlock(t)
      BY <1>1, <2>1, <2>10, UnlockKeeps
    <2>11. CASE HandleRefusal(t)
      <3>1. Fresh(t)'
        BY <2>1, <2>11 DEF TypeOK, SessionShape, Fresh, HandleRefusal, Close
      <3>2. QED
        BY <2>2, <2>11, <3>1, HeldByStep DEF HandleRefusal, shared
    <2>12. QED
      BY <1>2, <2>3, <2>4, <2>5, <2>6, <2>7, <2>8, <2>9, <2>10, <2>11 DEF Proceed
  <1>3. CASE UNCHANGED vars
    <2>1. \A t \in Threads : /\ Held(t)' = Held(t)     /\ Locking(t)' = Locking(t)
                            /\ Wanted(t)' = Wanted(t) /\ Visited(t)' = Visited(t)
      BY <1>3 DEF Held, Locking, Wanted, Visited, vars
    <2>2. \A t \in Threads : Fresh(t)'
      BY <1>3, <2>1 DEF IInv, Fresh, vars
    <2>3. MutualExclusion' /\ Possession' /\ NothingLeaks'
      BY <1>3, <2>1 DEF IInv, MutualExclusion, Possession, NothingLeaks, vars
    <2>4. QED
      BY <1>1, <2>2, <2>3 DEF IInv
  <1>4. QED
    BY <1>2, <1>3 DEF Next, Rest

\* The invariant that the theorems below follow from always holds.
THEOREM InvCorrect == Spec => []IInv
  <1>1. IInv /\ [Next]_vars => IInv'
    BY InvKept
  <1>2. QED
    BY <1>1, InitInv, PTL DEF Spec

(* Two threads are never inside sessions on the same document, however     *)
(* sessions overlap, nest and are refused (locking.py:9-16).               *)
THEOREM ExclusionCorrect == Spec => []MutualExclusion
  <1>1. IInv => MutualExclusion
    BY DEF IInv
  <1>2. QED
    BY <1>1, InvCorrect, PTL

(* No session ever loses a lock to another session's release, and the      *)
(* records is_locked and the re-entry check read are right.                *)
THEOREM PossessionCorrect == Spec => []Possession
  <1>1. IInv => Possession
    BY DEF IInv
  <1>2. QED
    BY <1>1, InvCorrect, PTL

(* A document nobody uses is free: no lock or record outlives its session. *)
THEOREM NoLeakCorrect == Spec => []NothingLeaks
  <1>1. IInv => NothingLeaks
    BY DEF IInv
  <1>2. QED
    BY <1>1, InvCorrect, PTL

-----------------------------------------------------------------------------
(* No circular wait among threads that do not nest sessions.               *)

\* A session takes the lowest document first.
Ordered ==
  \A t \in Threads :
    \A d \in acquired[t], e \in request[t] \ acquired[t] : d < e

\* A thread without a session around its own holds nothing above what it wants.
AscendingOrder ==
  \A t \in Threads : pc[t] \in Acquiring /\ outer[t] = {} =>
    \A d \in Held(t) : d < Wanted(t)

\* Every session goes on taking the lowest document first.
LEMMA OrderedKept == TypeOK /\ Ordered /\ [Next]_vars => Ordered'
  <1> SUFFICES ASSUME TypeOK, Ordered, [Next]_vars PROVE Ordered'
    OBVIOUS
  <1>1. ASSUME NEW t \in Threads, (\E ids \in Requests : Begin(t, ids)) \/ Proceed(t)
        PROVE  Ordered'
    <2>1. \A u \in Threads \ {t} : acquired'[u] = acquired[u] /\ request'[u] = request[u]
      BY <1>1, StepsAreLocal DEF OthersKept
    <2>2. SessionShape(t)
      BY DEF TypeOK
    <2>3. SUFFICES \A d \in acquired'[t], e \in request'[t] \ acquired'[t] : d < e
      BY <2>1 DEF Ordered
    <2>4. CASE \E ids \in Requests : Begin(t, ids)
      BY <2>2, <2>4 DEF TypeOK, SessionShape, Begin
    <2>5. CASE CheckOwner(t) \/ Reenter(t) \/ Acquire(t) \/ Exit(t)
      BY <2>2, <2>5 DEF TypeOK, Ordered, CheckOwner, Reenter, Acquire, Exit
    <2>6. CASE Record(t)
      <3>1. /\ request[t] \ acquired[t] \in SUBSET Documents
            /\ request[t] \ acquired[t] # {}
            /\ acquired[t] \cup {Wanted(t)} \in SUBSET Documents
        BY <2>6, NextDocument DEF TypeOK, Record, Acquiring
      <3>2. \A e \in request[t] \ acquired[t] : Wanted(t) <= e
        BY <3>1, LowestIsIn DEF Wanted
      <3>3. /\ request' = request
            /\ acquired'[t] = acquired[t] \cup {Wanted(t)}
        BY <2>6 DEF TypeOK, Record
      <3>4. QED
        <4>1. ASSUME NEW d \in acquired'[t], NEW e \in request'[t] \ acquired'[t]
              PROVE  d < e
          <5>1. e \in request[t] \ acquired[t] /\ e # Wanted(t)
            BY <3>3, <4>1
          <5>2. CASE d \in acquired[t]
            BY <5>1, <5>2 DEF Ordered
          <5>3. CASE d = Wanted(t)
            <6>1. d \in Int /\ e \in Int
              BY <3>1, <5>1, <5>3, DocumentsAssumption
            <6>2. QED
              BY <3>2, <5>1, <5>3, <6>1
          <5>4. QED
            BY <3>3, <4>1, <5>2, <5>3
        <4>2. QED
          BY <2>2, <3>3, <4>1
    <2>7. CASE Forget(t) \/ Unlock(t) \/ HandleRefusal(t)
      BY <2>2, <2>7 DEF TypeOK, Ordered, Forget, Unlock, HandleRefusal, Visit, Close
    <2>8. QED
      BY <1>1, <2>4, <2>5, <2>6, <2>7 DEF Proceed
  <1>2. CASE UNCHANGED vars
    BY <1>2 DEF Ordered, vars
  <1>3. QED
    BY <1>1, <1>2 DEF Next, Rest

\* A thread without nested sessions holds only documents below the one it wants.
LEMMA OrderedAscends == TypeOK /\ Ordered => AscendingOrder
  <1> SUFFICES ASSUME TypeOK, Ordered, NEW t \in Threads, pc[t] \in Acquiring,
                      outer[t] = {}, NEW d \in Held(t)
               PROVE  d < Wanted(t)
    BY DEF AscendingOrder
  <1>1. d \in acquired[t]
    <2>1. Held(t) = outer[t] \cup acquired[t]
      BY DEF Held, Acquiring, Releasing
    <2>2. QED
      BY <2>1 DEF Ordered
  <1>2. Wanted(t) \in request[t] \ acquired[t]
    BY NextDocument
  <1>3. QED
    BY <1>1, <1>2 DEF Ordered

\* In a set of waiting threads, nobody in it holds the highest wanted document.
LEMMA AscendingIsAcyclic == TypeOK /\ AscendingOrder => NoCircularWait
  <1> SUFFICES ASSUME TypeOK, AscendingOrder,
                      NEW S \in SUBSET {t \in Threads : outer[t] = {}}, S # {},
                      \A t \in S : pc[t] = "wait" /\ \E u \in S : Wanted(t) \in Locking(u)
               PROVE  FALSE
    BY DEF NoCircularWait, CircularWait
  <1> DEFINE W == {Wanted(t) : t \in S}
  <1>1. W \in (SUBSET Documents) \ {{}}
    BY NextDocument DEF TypeOK, Acquiring
  <1>2. PICK t \in S : \A u \in S : Wanted(u) <= Wanted(t)
    <2>1. PICK m \in W : \A e \in W : e <= m
      BY <1>1, OrderAssumption
    <2>2. PICK t \in S : m = Wanted(t)
      OBVIOUS
    <2>3. \A u \in S : Wanted(u) <= m
      BY <2>1
    <2>4. QED
      BY <2>2, <2>3
  <1>3. PICK u \in S : Wanted(t) \in Locking(u)
    OBVIOUS
  <1>4. Wanted(t) < Wanted(u)
    BY <1>3 DEF AscendingOrder, Locking, Acquiring
  <1>5. Wanted(t) \in Int /\ Wanted(u) \in Int
    BY <1>1, DocumentsAssumption
  <1>6. QED
    BY <1>2, <1>4, <1>5

(* However many threads lock however many documents, no set of them that   *)
(* nests no sessions can wait for each other (locking.py:68-74).           *)
THEOREM DeadlockFreedom == Spec => []NoCircularWait
  <1>1. Init => Ordered
    BY DEF Init, Ordered
  <1>2. TypeOK /\ Ordered /\ [Next]_vars => Ordered'
    BY OrderedKept
  <1>3. TypeOK /\ Ordered => NoCircularWait
    BY OrderedAscends, AscendingIsAcyclic
  <1>4. QED
    BY <1>1, <1>2, <1>3, TypeCorrect, PTL DEF Spec

-----------------------------------------------------------------------------
(* The coordinator implements the lock table.                              *)

\* The abstract lock is held by the thread that holds the lock of the table.
LEMMA HolderIs ==
  ASSUME MutualExclusion, NEW d \in Documents
  PROVE  /\ \A t \in Threads : d \in Locking(t) <=> HolderOf(d) = t
         /\ HolderOf(d) = Nobody <=> \A t \in Threads : d \notin Locking(t)
  BY NobodyAssumption DEF HolderOf, MutualExclusion

\* Who holds the abstract lock changes only with the lock of the table.
LEMMA HolderKept ==
  ASSUME MutualExclusion, MutualExclusion', NEW d \in Documents,
         \A u \in Threads : d \in Locking(u)' <=> d \in Locking(u)
  PROVE  HolderOf(d)' = HolderOf(d)
  <1>1. CASE \E t \in Threads : d \in Locking(t)
    <2>1. PICK t \in Threads : d \in Locking(t)
      BY <1>1
    <2>2. HolderOf(d) = t
      BY <2>1, HolderIs
    <2>3. HolderOf(d)' = t
      BY <2>1 DEF HolderOf, MutualExclusion
    <2>4. QED
      BY <2>2, <2>3
  <1>2. CASE \A t \in Threads : d \notin Locking(t)
    BY <1>2 DEF HolderOf
  <1>3. QED
    BY <1>1, <1>2

holderBar == [d \in Documents |-> HolderOf(d)]

\* A step of t that changes Locking(t) by one document at most.
LEMMA HolderByStep ==
  ASSUME MutualExclusion, MutualExclusion', NEW t \in Threads,
         \A u \in Threads \ {t} : Locking(u)' = Locking(u)
  PROVE  /\ Locking(t)' = Locking(t) => holderBar' = holderBar
         /\ \A d \in Documents :
              Locking(t)' = Locking(t) \cup {d} /\ (\A u \in Threads : d \notin Locking(u))
                => Table!Take(t, d)
         /\ \A d \in Documents :
              Locking(t)' = Locking(t) \ {d} /\ d \in Locking(t) => Table!Drop(t, d)
  <1>1. \A d \in Documents : (d \in Locking(t)' <=> d \in Locking(t)) => HolderOf(d)' = HolderOf(d)
    BY HolderKept
  <1>2. Locking(t)' = Locking(t) => holderBar' = holderBar
    BY <1>1 DEF holderBar
  <1>3. ASSUME NEW d \in Documents, Locking(t)' = Locking(t) \cup {d},
               \A u \in Threads : d \notin Locking(u)
        PROVE  Table!Take(t, d)
    <2>1. HolderOf(d) = Nobody
      BY <1>3 DEF HolderOf
    <2>2. HolderOf(d)' = t
      BY <1>3 DEF HolderOf, MutualExclusion
    <2>3. \A e \in Documents \ {d} : HolderOf(e)' = HolderOf(e)
      BY <1>1, <1>3
    <2>4. QED
      BY <2>1, <2>2, <2>3 DEF Table!Take
  <1>4. ASSUME NEW d \in Documents, Locking(t)' = Locking(t) \ {d}, d \in Locking(t)
        PROVE  Table!Drop(t, d)
    <2>1. HolderOf(d) = t
      BY <1>4, HolderIs
    <2>2. \A u \in Threads : d \notin Locking(u)'
      BY <1>4 DEF MutualExclusion
    <2>3. HolderOf(d)' = Nobody
      BY <2>2 DEF HolderOf
    <2>4. \A e \in Documents \ {d} : HolderOf(e)' = HolderOf(e)
      BY <1>1, <1>4
    <2>5. QED
      BY <2>1, <2>3, <2>4 DEF Table!Drop
  <1>5. QED
    BY <1>2, <1>3, <1>4

\* Every step is one of the abstract lock table or a stutter.
LEMMA StepRefines ==
  ASSUME IInv, IInv', [Next]_vars
  PROVE  Table!TableNext \/ holderBar' = holderBar
  <1>1. ASSUME NEW t \in Threads, (\E ids \in Requests : Begin(t, ids)) \/ Proceed(t)
        PROVE  Table!TableNext \/ holderBar' = holderBar
    <2>1. /\ MutualExclusion /\ MutualExclusion'
          /\ \A u \in Threads \ {t} : Locking(u)' = Locking(u)
      BY <1>1, StepsAreLocal, OthersHold DEF IInv
    <2>2. CASE Acquire(t)
      <3>1. /\ Wanted(t) \in Documents
            /\ Locking(t)' = Locking(t) \cup {Wanted(t)}
            /\ \A u \in Threads : Wanted(t) \notin Locking(u)
        BY <2>2, HeldByStep, NextDocument, LockingIsLocked DEF IInv, TypeOK, Acquire, Acquiring
      <3>2. QED
        BY <2>1, <3>1, HolderByStep DEF Table!TableNext
    <2>3. CASE Unlock(t)
      <3>1. /\ Visited(t) \in Documents
            /\ Locking(t)' = Locking(t) \ {Visited(t)}
            /\ Visited(t) \in Locking(t)
        BY <2>3, HeldByStep, NextDocument
        DEF IInv, TypeOK, Unlock, Fresh, Locking, Held, Releasing, Acquiring
      <3>2. QED
        BY <2>1, <3>1, HolderByStep DEF Table!TableNext
    <2>4. CASE ~Acquire(t) /\ ~Unlock(t)
      <3>1. Locking(t)' = Locking(t)
        BY <1>1, <2>4, HeldByStep DEF Proceed
      <3>2. QED
        BY <2>1, <3>1, HolderByStep
    <2>5. QED
      BY <2>2, <2>3, <2>4
  <1>2. CASE UNCHANGED vars
    <2>1. \A t \in Threads : Locking(t)' = Locking(t)
      BY <1>2 DEF Locking, Held, Wanted, vars
    <2>2. QED
      BY <2>1, HolderKept DEF IInv, holderBar
  <1>3. QED
    BY <1>1, <1>2 DEF Next, Rest

(* The coordinator implements the lock table: a document's lock passes from *)
(* nobody to one thread and back, and only its holder gives it up.          *)
THEOREM LockTableRefined == Spec => LockTableImplemented
  <1>1. Init => Table!TableInit
    <2>1. Init => \A t \in Threads : Locking(t) = {}
      BY DEF Init, Locking, Held, Acquiring, Releasing
    <2>2. QED
      BY <2>1 DEF Table!TableInit, HolderOf
  <1>2. IInv /\ IInv' /\ [Next]_vars => [Table!TableNext]_holderBar
    BY StepRefines
  <1>3. QED
    BY <1>1, <1>2, InvCorrect, PTL
    DEF Spec, LockTableImplemented, Table!TableSpec, holderBar
=============================================================================
