----------------------------- MODULE LockTable -----------------------------
(***************************************************************************)
(* What tree_engine.core.locking promises: a table of document locks, each *)
(* taken by one thread at a time, only while it is free, and dropped by    *)
(* nobody but the thread that took it.                                     *)
(***************************************************************************)
CONSTANTS
  Threads,
  Documents,
  Nobody      \* holder of a free lock, no thread

VARIABLE holder   \* document -> the thread that holds its lock, or Nobody

TableInit == holder = [d \in Documents |-> Nobody]

Take(t, d) == /\ holder[d] = Nobody
              /\ holder' = [holder EXCEPT ![d] = t]

Drop(t, d) == /\ holder[d] = t
              /\ holder' = [holder EXCEPT ![d] = Nobody]

TableNext == \E t \in Threads, d \in Documents : Take(t, d) \/ Drop(t, d)

TableSpec == TableInit /\ [][TableNext]_holder
=============================================================================
