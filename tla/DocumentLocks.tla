--------------------------- MODULE DocumentLocks ---------------------------
(***************************************************************************)
(* tree_engine.core.locking.DocumentLockCoordinator: threads that take the *)
(* locks of several documents in ascending order and release them again.   *)
(*                                                                         *)
(* A section under the coordinator's private guard is one step; so is each *)
(* acquire() and release() of a document's threading.Lock, which happen    *)
(* outside the guard.  A threading.Lock has no owner: anyone may release   *)
(* it, and the coordinator's own records (held, owner) are all that keeps  *)
(* one thread from releasing another's lock.                               *)
(***************************************************************************)
EXTENDS Integers, FiniteSets

CONSTANTS
  Threads,
  Documents,    \* document ids, ordered as UUID.int orders them
  Requests,     \* the sets of documents threads lock together
  Nobody,       \* owner of a document that is not locked
  Nesting,      \* whether a thread opens a session inside another's block
  MaxCalls      \* bound: sessions the threads open

ASSUME DocumentsAssumption == Documents \subseteq Int
ASSUME OrderAssumption     ==    \* what finitely many ids have
  \A S \in (SUBSET Documents) \ {{}} :
    /\ \E d \in S : \A e \in S : d <= e
    /\ \E d \in S : \A e \in S : e <= d
ASSUME RequestsAssumption  == Requests \subseteq (SUBSET Documents) \ {{}}
ASSUME NobodyAssumption    == Nobody \notin Threads
ASSUME NestingAssumption   == Nesting \in BOOLEAN
ASSUME MaxCallsAssumption  == MaxCalls \in Nat

VARIABLES
  locked,     \* document -> whether its threading.Lock is taken
  owner,      \* document -> the thread recorded for it; Nobody when not in _held
  pc,         \* thread -> where its innermost session stands
  request,    \* thread -> the documents of its innermost session
  acquired,   \* thread -> those of them it has locked and recorded
  outer,      \* thread -> the documents of the session around that one
  todo,       \* thread -> the documents its release_locks has still to visit
  calls       \* how many sessions were opened

shared == <<locked, owner>>
vars   == <<locked, owner, pc, request, acquired, outer, todo, calls>>

Acquiring == {"check", "wait", "record"}
Releasing == {"release", "unlock"}
PCs       == Acquiring \cup Releasing \cup {"body", "failed"}

held == {d \in Documents : owner[d] # Nobody}

Lowest(S) == CHOOSE d \in S : \A e \in S : d <= e

\* Variant: in the order the caller gave, which differs from one to another.
WantedUnsorted(t) ==
  IF t = CHOOSE u \in Threads : TRUE
  THEN CHOOSE d \in request[t] \ acquired[t] : \A e \in request[t] \ acquired[t] : e <= d
  ELSE Lowest(request[t] \ acquired[t])

\* The document a session locks next: `ordered' is sorted.
Wanted(t) == Lowest(request[t] \ acquired[t])

\* The document a release_locks call visits next: `acquired' is in that order.
Visited(t) == Lowest(todo[t])

\* The documents t may rely on: recorded in a session that has not let go.
Held(t) == outer[t] \cup
             CASE pc[t] \in Acquiring \cup {"body"} -> acquired[t]
               [] pc[t] \in Releasing               -> todo[t]
               [] OTHER                             -> {}

\* The documents whose threading.Lock t took and did not release.
Locking(t) == Held(t) \cup IF pc[t] = "record" THEN {Wanted(t)} ELSE {}

\* A block runs with all its locks, and a loop of release_locks has its ids.
SessionShape(t) ==
  /\ acquired[t] \subseteq request[t]
  /\ todo[t] \subseteq request[t]
  /\ acquired[t] = request[t] => pc[t] \in {"body"} \cup Releasing
  /\ acquired[t] # request[t] => pc[t] # "body"
  /\ todo[t] # {} <=> pc[t] \in Releasing

TypeOK ==
  /\ locked \in [Documents -> BOOLEAN]
  /\ owner \in [Documents -> Threads \cup {Nobody}]
  /\ pc \in [Threads -> PCs]
  /\ request \in [Threads -> SUBSET Documents]
  /\ acquired \in [Threads -> SUBSET Documents]
  /\ outer \in [Threads -> SUBSET Documents]
  /\ todo \in [Threads -> SUBSET Documents]
  /\ calls \in 0..MaxCalls
  /\ \A t \in Threads : SessionShape(t)

Init ==
  /\ locked = [d \in Documents |-> FALSE]
  /\ owner = [d \in Documents |-> Nobody]
  /\ pc = [t \in Threads |-> "body"]
  /\ request = [t \in Threads |-> {}]
  /\ acquired = [t \in Threads |-> {}]
  /\ outer = [t \in Threads |-> {}]
  /\ todo = [t \in Threads |-> {}]
  /\ calls = 0

-----------------------------------------------------------------------------
(* acquire_locks                                                           *)

\* The caller's code runs under no session, or under one and may open another.
Begin(t, ids) ==
  /\ pc[t] = "body"
  /\ request[t] = {} \/ (Nesting /\ outer[t] = {})
  /\ calls < MaxCalls
  /\ calls' = calls + 1
  /\ pc' = [pc EXCEPT ![t] = "check"]
  /\ outer' = [outer EXCEPT ![t] = acquired[t]]
  /\ request' = [request EXCEPT ![t] = ids]
  /\ acquired' = [acquired EXCEPT ![t] = {}]
  /\ UNCHANGED <<shared, todo>>

CheckOwner(t) ==
  /\ pc[t] = "check"
  /\ owner[Wanted(t)] # t
  /\ pc' = [pc EXCEPT ![t] = "wait"]
  /\ UNCHANGED <<shared, request, acquired, outer, todo, calls>>

\* Variant: no finally clause.
ReenterKeeping(t) ==
  /\ pc[t] = "check"
  /\ owner[Wanted(t)] = t
  /\ pc' = [pc EXCEPT ![t] = "failed"]
  /\ UNCHANGED <<shared, request, acquired, outer, todo, calls>>

\* Variant: the finally clause releases the full request.
ReenterReleasingAll(t) ==
  /\ pc[t] = "check"
  /\ owner[Wanted(t)] = t
  /\ pc' = [pc EXCEPT ![t] = "release"]
  /\ todo' = [todo EXCEPT ![t] = request[t]]
  /\ UNCHANGED <<shared, request, acquired, outer, calls>>

\* LockOrderError: this thread holds the document already; the finally
\* clause releases what the refused session did acquire.
Reenter(t) ==
  /\ pc[t] = "check"
  /\ owner[Wanted(t)] = t
  /\ pc' = [pc EXCEPT ![t] = IF acquired[t] = {} THEN "failed" ELSE "release"]
  /\ todo' = [todo EXCEPT ![t] = acquired[t]]
  /\ UNCHANGED <<shared, request, acquired, outer, calls>>

\* Variant: the record is made before the lock is there.
AcquireRecordingFirst(t) ==
  /\ pc[t] = "wait"
  /\ IF locked[Wanted(t)]
     THEN /\ owner' = [owner EXCEPT ![Wanted(t)] = t]
          /\ UNCHANGED <<locked, pc>>
     ELSE /\ locked' = [locked EXCEPT ![Wanted(t)] = TRUE]
          /\ pc' = [pc EXCEPT ![t] = "record"]
          /\ UNCHANGED owner
  /\ UNCHANGED <<request, acquired, outer, todo, calls>>

\* Variant: acquire(blocking=False), its result not looked at.
AcquireWithoutWaiting(t) ==
  /\ pc[t] = "wait"
  /\ locked' = [locked EXCEPT ![Wanted(t)] = TRUE]
  /\ pc' = [pc EXCEPT ![t] = "record"]
  /\ UNCHANGED <<owner, request, acquired, outer, todo, calls>>

Acquire(t) ==
  /\ pc[t] = "wait"
  /\ ~locked[Wanted(t)]
  /\ locked' = [locked EXCEPT ![Wanted(t)] = TRUE]
  /\ pc' = [pc EXCEPT ![t] = "record"]
  /\ UNCHANGED <<owner, request, acquired, outer, todo, calls>>

\* Variant: one more turn of the loop.
RecordThenCheck(t) ==
  /\ pc[t] = "record"
  /\ owner' = [owner EXCEPT ![Wanted(t)] = t]
  /\ acquired' = [acquired EXCEPT ![t] = @ \cup {Wanted(t)}]
  /\ pc' = [pc EXCEPT ![t] = IF request[t] = acquired[t] THEN "body" ELSE "check"]
  /\ UNCHANGED <<locked, request, outer, todo, calls>>

Record(t) ==
  /\ pc[t] = "record"
  /\ owner' = [owner EXCEPT ![Wanted(t)] = t]
  /\ acquired' = [acquired EXCEPT ![t] = @ \cup {Wanted(t)}]
  /\ pc' = [pc EXCEPT ![t] = IF request[t] = acquired'[t] THEN "body" ELSE "check"]
  /\ UNCHANGED <<locked, request, outer, todo, calls>>

-----------------------------------------------------------------------------
(* release_locks                                                           *)

\* The block ends, normally or with an exception.
Exit(t) ==
  /\ pc[t] = "body"
  /\ request[t] # {}
  /\ pc' = [pc EXCEPT ![t] = "release"]
  /\ todo' = [todo EXCEPT ![t] = acquired[t]]
  /\ UNCHANGED <<shared, request, acquired, outer, calls>>

\* The session is over and the code around it runs on.
Close(t) ==
  /\ pc' = [pc EXCEPT ![t] = "body"]
  /\ request' = [request EXCEPT ![t] = outer[t]]
  /\ acquired' = [acquired EXCEPT ![t] = outer[t]]
  /\ outer' = [outer EXCEPT ![t] = {}]

\* The loop goes on with the next document, or the call returns: to the
\* code around the block, or with LockOrderError to the refused caller.
Visit(t) ==
  LET left == todo[t] \ {Visited(t)} IN
  /\ todo' = [todo EXCEPT ![t] = left]
  /\ IF left = {} /\ request[t] = acquired[t]
     THEN Close(t)
     ELSE /\ pc' = [pc EXCEPT ![t] = IF left = {} THEN "failed" ELSE "release"]
          /\ UNCHANGED <<request, acquired, outer>>

\* Under the guard: the record goes; a document that is not held is skipped.
Forget(t) ==
  /\ pc[t] = "release"
  /\ IF Visited(t) \notin held
     THEN /\ Visit(t)
          /\ UNCHANGED owner
     ELSE /\ owner' = [owner EXCEPT ![Visited(t)] = Nobody]
          /\ pc' = [pc EXCEPT ![t] = "unlock"]
          /\ UNCHANGED <<request, acquired, outer, todo>>
  /\ UNCHANGED <<locked, calls>>

\* Variant: the condition on lock.locked() turned round.
UnlockIfFree(t) ==
  /\ pc[t] = "unlock"
  /\ Visit(t)
  /\ UNCHANGED <<shared, calls>>

\* After the guard: the lock itself, whoever took it.
Unlock(t) ==
  /\ pc[t] = "unlock"
  /\ locked' = [locked EXCEPT ![Visited(t)] = FALSE]
  /\ Visit(t)
  /\ UNCHANGED <<owner, calls>>

\* The refused caller catches LockOrderError and the code around it runs on.
HandleRefusal(t) ==
  /\ pc[t] = "failed"
  /\ Close(t)
  /\ UNCHANGED <<shared, todo, calls>>

\* What a thread does once it is inside a call; whether it opens a session
\* at all is up to it.
Proceed(t) ==
  \/ CheckOwner(t) \/ Reenter(t) \/ Acquire(t) \/ Record(t)
  \/ Exit(t) \/ Forget(t) \/ Unlock(t) \/ HandleRefusal(t)

Finished == calls = MaxCalls /\ \A t \in Threads : pc[t] = "body" /\ request[t] = {}

\* Every thread did what it came for.
Rest == Finished /\ UNCHANGED vars

Next == \/ \E t \in Threads : \/ \E ids \in Requests : Begin(t, ids)
                              \/ Proceed(t)
        \/ Rest

Spec == Init /\ [][Next]_vars

\* Threads are scheduled, and the work done in a block ends.
LiveSpec == Spec /\ \A t \in Threads : WF_vars(Proceed(t))

-----------------------------------------------------------------------------
(* Properties.                                                             *)

\* No two threads are inside sessions on the same document, from acquire()
\* to release() (locking.py:9-16).
MutualExclusion ==
  \A t, u \in Threads : t # u => Locking(t) \cap Locking(u) = {}

\* What a session holds is locked and recorded as its own until its own
\* release_locks call: is_locked and the re-entry check tell the truth, and
\* the finally clause of another session never frees it (locking.py:150-188).
Possession ==
  \A t \in Threads : \A d \in Held(t) :
    /\ locked[d]
    /\ owner[d] = t \/ (pc[t] = "unlock" /\ d = Visited(t))

\* No lock stays taken, and no record stays behind, once nobody uses the
\* document: a later acquire() of it does not block for ever.
NothingLeaks ==
  \A d \in Documents : locked[d] \/ owner[d] # Nobody =>
    \E t \in Threads : d \in Locking(t)

\* Each thread of S waits for a document that another one of S has.
CircularWait(S) ==
  /\ S # {}
  /\ \A t \in S : pc[t] = "wait" /\ \E u \in S : Wanted(t) \in Locking(u)

\* Threads that open no session inside another never wait in a circle: the
\* ascending order rules it out (locking.py:68-74).
NoCircularWait ==
  \A S \in SUBSET {t \in Threads : outer[t] = {}} : ~CircularWait(S)

\* Every acquire_locks block that is entered is left, unless nested sessions
\* closed a circle, when threads open finitely many (a threading.Lock favours
\* nobody, so without that bound a thread may starve).
EverySessionEnds ==
  \A t \in Threads :
    request[t] # {} ~> \/ request[t] = {}
                       \/ \E S \in SUBSET Threads : CircularWait(S)

\* The coordinator implements the lock table: a document changes hands only
\* from nobody to a thread and back, by that thread.
HolderOf(d) == IF \E t \in Threads : d \in Locking(t)
               THEN CHOOSE t \in Threads : d \in Locking(t)
               ELSE Nobody

Table == INSTANCE LockTable WITH holder <- [d \in Documents |-> HolderOf(d)]

LockTableImplemented == Table!TableSpec
=============================================================================
