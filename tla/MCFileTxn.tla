----------------------------- MODULE MCFileTxn -----------------------------
(* The pair of one document: entry 1 is the source file, entry 2 the tree. *)
EXTENDS FileTxn

\* save and publish_pair publish both files, _rebuild and publish_tree_only
\* the tree alone, publish_source_only the source alone.
EveryPlan == {{1, 2}, {2}, {1}}
PairOnly  == {{1, 2}}

-----------------------------------------------------------------------------
(* What went wrong so far, remembered for the properties of recover(): they *)
(* speak of callers that are interrupted in some ways and not in others.    *)

VARIABLE mishaps

\* recover() was stopped; it was stopped while it rolled back; publish() was
\* called over what a failed attempt left.
Mishaps == {"stopped", "rollback", "retry"}

tvars == <<vars, mishaps>>

Stopped == job = "recover" /\ (Crash \/ Fault)

CleanPair ==
  /\ journal = NoJournal
  /\ \A e \in Entries : temp[e] = Absent /\ backup[e] = Absent

Record ==
  mishaps' = mishaps
    \cup {m \in Mishaps :
            \/ m = "stopped"  /\ Stopped
            \/ m = "rollback" /\ Stopped /\ pc \in {"undo", "undo_temp"}
            \/ m = "retry"    /\ StartPublish /\ ~CleanPair}

TrackedInit == Init /\ mishaps = {}

TrackedNext == Next /\ Record

TrackedSpec ==
  /\ TrackedInit
  /\ [][TrackedNext]_tvars
  /\ WF_vars(Publishing \/ Finishing \/ Recovering)

\* recover() never raises StorageIOError over a directory that publish() left,
\* or that a recovery left which did not stop in the middle of a rollback: a
\* rollback finds every backup it has to rename back.  (Neither holds once a
\* publication has been published over: the second attempt's temp files make
\* the first one's journal, complete but for its backups, look unfinished.)
RecoverySucceedsOnce ==
  mishaps \cap {"rollback", "retry"} = {} => RecoverySucceeds

\* recover() reports "rolled_forward" only over a transaction whose every
\* target holds the published bytes, however often it was started before,
\* unless it was stopped in the middle of a rollback.
ForwardIsComplete == "rollback" \notin mishaps => RollForwardIsComplete

\* A session that StorageLifecycle.open begins stands over a pair that bears
\* no trace of an earlier attempt, unless one was published over: no journal,
\* no backup, no staged file.
OpensCleanPair ==
  [][job = "recover" /\ baseline' # NoSession /\ "retry" \notin mishaps
       => CleanPair']_tvars

\* An interrupted publication is settled, one way or the other, by a later
\* open: unless recoveries are stopped or the caller keeps publishing over the
\* leftovers, its journal does not stay.
InterruptedIsSettled ==
  (job = "none" /\ journal # NoJournal)
    ~> (journal = NoJournal \/ mishaps # {})

-----------------------------------------------------------------------------
(* A pair that starts out consistent and is only published whole.          *)

PairSpec == TrackedSpec /\ \A e, f \in Entries : target[e] = target[f]

\* "Every target ends up back at its pre-transaction state" (docstring of
\* file_txn.py): what recover() restores is one publication's pair, never the
\* source of one and the tree of another.
PairTogether == \A e, f \in Entries : Recovered[e] = Recovered[f]
=============================================================================
