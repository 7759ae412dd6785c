--------------------------- MODULE RecoveryProofs ---------------------------
(***************************************************************************)
(* Proofs about recover(): what a rollback finds, what a roll-forward      *)
(* reports and what an open leaves, for the specification with mishaps of  *)
(* MCFileTxn, for every set of entries and values and every choice of what *)
(* crashes and faults may interrupt.                                       *)
(***************************************************************************)
EXTENDS MCFileTxn, FileTxnProofs

-----------------------------------------------------------------------------
(* The inductive invariant, on top of IInv.                                *)

Undoing == pc \in {"undo", "undo_temp"}

\* The journal on disk announces bytes, not an absence.
Announces == journal # NoJournal => journal.val \in Values

\* Unless an attempt was published over, what lies beside the targets belongs
\* to the journal on disk, or to the publication under way.
Leftovers ==
  "retry" \notin mishaps =>
    /\ \A e \in Entries : backup[e] # Absent => e \in journal.had
    /\ journal # NoJournal => \A e \in Entries : Staged(e) => e \in journal.plan
    /\ job = "publish" /\ pc \in Preparing =>
         /\ journal = NoJournal
         /\ \A e \in Entries : Staged(e) => e \in plan

\* A recovery that found no journal has removed the temp files it passed.
Cleaned == job = "recover" /\ pc = "clean" => \A e \in Entries \ todo : Published(e)

\* Every file the journal names was published ...
Delivered == \A e \in journal.plan : target[e] = journal.val

\* ... or some were not, and each of those that were and still have to be
\* restored has its backup ...
Restorable ==
  IF Undoing
  THEN \A e \in todo :
         e \in had /\ Published(e) /\ ~(pc = "undo_temp" /\ First(e)) => backup[e] # Absent
  ELSE /\ \A e \in journal.had : Published(e) => backup[e] # Absent
       /\ \E e \in journal.plan : Staged(e)

\* ... or the bytes published were the bytes that were there, which alone lets
\* a guarded caller publish again over a journal whose every file is published.
SameBytes ==
  /\ "retry" \in mishaps
  /\ journal.had = journal.plan
  /\ Delivered
  /\ \A e \in journal.plan : backup[e] \in {Absent, journal.val}

\* No more can be said once a rollback was stopped in the middle.
JournalUse ==
  "rollback" \notin mishaps /\ journal # NoJournal =>
    (AllPublished /\ Delivered /\ ~Undoing) \/ SameBytes \/ Restorable

RInv == IInv /\ Announces /\ Leftovers /\ Cleaned /\ JournalUse

-----------------------------------------------------------------------------
(* Every step keeps it.                                                    *)

\* Mishaps are recorded and never forgotten.
LEMMA RecordKeeps ==
  ASSUME Record
  PROVE  /\ mishaps \subseteq mishaps'
         /\ Stopped /\ Undoing => "rollback" \in mishaps'
         /\ StartPublish /\ ~CleanPair => "retry" \in mishaps'
  <1>1. mishaps' = mishaps \cup {m \in Mishaps :
            \/ m = "stopped"  /\ Stopped
            \/ m = "rollback" /\ Stopped /\ pc \in {"undo", "undo_temp"}
            \/ m = "retry"    /\ StartPublish /\ ~CleanPair}
    BY DEF Record
  <1>2. "rollback" \in Mishaps /\ "retry" \in Mishaps
    BY DEF Mishaps
  <1> HIDE DEF Stopped, StartPublish, CleanPair
  <1>3. QED
    BY <1>1, <1>2 DEF Undoing

\* The manifest names the bytes publish() was given.
LEMMA AnnouncesStep ==
  ASSUME Checked, RInv, Next, Record PROVE Announces'
  <1> USE EntriesAssumption, ContentAssumption
      DEF Content, NoSession, NoJournal, Manifests, PCs, Loops, InLoop, Jobs, RInv, IInv, TypeOK,
          PublishState, RecoverState, JournalShape, disk, local, First, Staged, Published,
          Preparing, Linking, Announces
  <1>0. mishaps \subseteq mishaps'
    BY RecordKeeps
  <1>1. CASE StartPublish
    BY <1>0, RecordKeeps, <1>1 DEF StartPublish, MayPublish
  <1>2. CASE OpenTemp
    BY <1>0, <1>2 DEF OpenTemp
  <1>3. CASE WriteTemp
    BY <1>0, <1>3 DEF WriteTemp
  <1>4. CASE StageJournal
    BY <1>0, <1>4 DEF StageJournal
  <1>5. CASE WriteJournal
    BY <1>0, <1>5 DEF WriteJournal
  <1>6. CASE ClearBackup
    BY <1>0, <1>6 DEF ClearBackup
  <1>7. CASE LinkBackup
    BY <1>0, <1>7 DEF LinkBackup
  <1>8. CASE StartRenames
    BY <1>0, <1>8 DEF StartRenames
  <1>9. CASE RenameTemp
    BY <1>0, <1>9 DEF RenameTemp
  <1>10. CASE StartFinalize
    BY <1>0, <1>10 DEF StartFinalize
  <1>11. CASE DropBackup
    BY <1>0, <1>11 DEF DropBackup
  <1>12. CASE DropJournal
    BY <1>0, <1>12 DEF DropJournal, Return
  <1>13. CASE Recover
    BY <1>0, <1>13 DEF Recover, RecoverNothing, RecoverForward, RecoverBackward
  <1>14. CASE CleanTemp
    BY <1>0, <1>14 DEF CleanTemp
  <1>15. CASE CleanDone
    BY <1>0, <1>15 DEF CleanDone, Return
  <1>16. CASE UndoEntry
    BY <1>0, <1>16 DEF UndoEntry, Restore, DeleteCreated, DiscardBackup, LeaveAlone
  <1>17. CASE UndoTemp
    BY <1>0, <1>17 DEF UndoTemp
  <1>18. CASE Fault
    BY <1>0, RecordKeeps, <1>18 DEF Fault, Fail, Return
  <1>19. CASE Impossible
    BY <1>0, <1>19 DEF Impossible, Fail, Return
  <1>20. CASE Crash
    BY <1>0, RecordKeeps, <1>20 DEF Crash
  <1>21. QED
    BY <1>1, <1>2, <1>3, <1>4, <1>5, <1>6, <1>7, <1>8, <1>9, <1>10, <1>11, <1>12, <1>13,
       <1>14, <1>15, <1>16, <1>17, <1>18, <1>19, <1>20 DEF Next, Publishing, Finishing,
       Recovering

\* Backups and temp files go before the journal that names them.
LEMMA LeftoversStep ==
  ASSUME Checked, RInv, Next, Record PROVE Leftovers'
  <1> USE EntriesAssumption, ContentAssumption
      DEF Content, NoSession, NoJournal, Manifests, PCs, Loops, InLoop, Jobs, RInv, IInv, TypeOK,
          PublishState, RecoverState, JournalShape, disk, local, First, Staged, Published,
          Preparing, Linking, Leftovers, CleanPair, AllPublished
  <1>0. mishaps \subseteq mishaps'
    BY RecordKeeps
  <1>1. CASE StartPublish
    BY <1>0, RecordKeeps, <1>1 DEF StartPublish, MayPublish
  <1>2. CASE OpenTemp
    BY <1>0, <1>2 DEF OpenTemp
  <1>3. CASE WriteTemp
    BY <1>0, <1>3 DEF WriteTemp
  <1>4. CASE StageJournal
    BY <1>0, <1>4 DEF StageJournal
  <1>5. CASE WriteJournal
    BY <1>0, <1>5 DEF WriteJournal
  <1>6. CASE ClearBackup
    BY <1>0, <1>6 DEF ClearBackup
  <1>7. CASE LinkBackup
    BY <1>0, <1>7 DEF LinkBackup
  <1>8. CASE StartRenames
    BY <1>0, <1>8 DEF StartRenames
  <1>9. CASE RenameTemp
    BY <1>0, <1>9 DEF RenameTemp
  <1>10. CASE StartFinalize
    BY <1>0, <1>10 DEF StartFinalize
  <1>11. CASE DropBackup
    BY <1>0, <1>11 DEF DropBackup
  <1>12. CASE DropJournal
    BY <1>0, <1>12 DEF DropJournal, Return
  <1>13. CASE Recover
    BY <1>0, <1>13 DEF Recover, RecoverNothing, RecoverForward, RecoverBackward
  <1>14. CASE CleanTemp
    BY <1>0, <1>14 DEF CleanTemp
  <1>15. CASE CleanDone
    BY <1>0, <1>15 DEF CleanDone, Return
  <1>16. CASE UndoEntry
    BY <1>0, <1>16 DEF UndoEntry, Restore, DeleteCreated, DiscardBackup, LeaveAlone
  <1>17. CASE UndoTemp
    BY <1>0, <1>17 DEF UndoTemp
  <1>18. CASE Fault
    BY <1>0, RecordKeeps, <1>18 DEF Fault, Fail, Return
  <1>19. CASE Impossible
    BY <1>0, <1>19 DEF Impossible, Fail, Return
  <1>20. CASE Crash
    BY <1>0, RecordKeeps, <1>20 DEF Crash
  <1>21. QED
    BY <1>1, <1>2, <1>3, <1>4, <1>5, <1>6, <1>7, <1>8, <1>9, <1>10, <1>11, <1>12, <1>13,
       <1>14, <1>15, <1>16, <1>17, <1>18, <1>19, <1>20 DEF Next, Publishing, Finishing,
       Recovering

\* The cleaning loop visits every entry.
LEMMA CleanedStep ==
  ASSUME Checked, RInv, Next, Record PROVE Cleaned'
  <1> USE EntriesAssumption, ContentAssumption
      DEF Content, NoSession, NoJournal, Manifests, PCs, Loops, InLoop, Jobs, RInv, IInv, TypeOK,
          PublishState, RecoverState, JournalShape, disk, local, First, Staged, Published,
          Preparing, Linking, Cleaned
  <1>0. mishaps \subseteq mishaps'
    BY RecordKeeps
  <1>1. CASE StartPublish
    BY <1>0, RecordKeeps, <1>1 DEF StartPublish, MayPublish
  <1>2. CASE OpenTemp
    BY <1>0, <1>2 DEF OpenTemp
  <1>3. CASE WriteTemp
    BY <1>0, <1>3 DEF WriteTemp
  <1>4. CASE StageJournal
    BY <1>0, <1>4 DEF StageJournal
  <1>5. CASE WriteJournal
    BY <1>0, <1>5 DEF WriteJournal
  <1>6. CASE ClearBackup
    BY <1>0, <1>6 DEF ClearBackup
  <1>7. CASE LinkBackup
    BY <1>0, <1>7 DEF LinkBackup
  <1>8. CASE StartRenames
    BY <1>0, <1>8 DEF StartRenames
  <1>9. CASE RenameTemp
    BY <1>0, <1>9 DEF RenameTemp
  <1>10. CASE StartFinalize
    BY <1>0, <1>10 DEF StartFinalize
  <1>11. CASE DropBackup
    BY <1>0, <1>11 DEF DropBackup
  <1>12. CASE DropJournal
    BY <1>0, <1>12 DEF DropJournal, Return
  <1>13. CASE Recover
    BY <1>0, <1>13 DEF Recover, RecoverNothing, RecoverForward, RecoverBackward
  <1>14. CASE CleanTemp
    BY <1>0, <1>14 DEF CleanTemp
  <1>15. CASE CleanDone
    BY <1>0, <1>15 DEF CleanDone, Return
  <1>16. CASE UndoEntry
    BY <1>0, <1>16 DEF UndoEntry, Restore, DeleteCreated, DiscardBackup, LeaveAlone
  <1>17. CASE UndoTemp
    BY <1>0, <1>17 DEF UndoTemp
  <1>18. CASE Fault
    BY <1>0, RecordKeeps, <1>18 DEF Fault, Fail, Return
  <1>19. CASE Impossible
    BY <1>0, <1>19 DEF Impossible, Fail, Return
  <1>20. CASE Crash
    BY <1>0, RecordKeeps, <1>20 DEF Crash
  <1>21. QED
    BY <1>1, <1>2, <1>3, <1>4, <1>5, <1>6, <1>7, <1>8, <1>9, <1>10, <1>11, <1>12, <1>13,
       <1>14, <1>15, <1>16, <1>17, <1>18, <1>19, <1>20 DEF Next, Publishing, Finishing,
       Recovering

\* The journal on disk stays of one of the three kinds.
LEMMA JournalUseStep ==
  ASSUME Checked, RInv, Next, Record PROVE JournalUse'
  <1> USE EntriesAssumption, ContentAssumption
      DEF Content, NoSession, NoJournal, Manifests, PCs, Loops, InLoop, Jobs, RInv, IInv, TypeOK,
          PublishState, RecoverState, JournalShape, disk, local, First, Staged, Published,
          Preparing, Linking, JournalUse, Restorable, SameBytes, Delivered,
          AllPublished, Undoing, Neutral, Undoable, SessionView, Stopped, CleanPair
  <1>0. mishaps \subseteq mishaps'
    BY RecordKeeps
  <1>1. CASE StartPublish
    BY <1>0, RecordKeeps, <1>1 DEF StartPublish, MayPublish
  <1>2. CASE OpenTemp
    <2>1. PICK o \in todo : temp' = [temp EXCEPT ![o] = Torn]
      BY <1>2 DEF OpenTemp
    <2>2. /\ job = "publish" /\ pc = "stage" /\ pc' = "write"
          /\ baseline # NoSession /\ target = baseline
          /\ target' = target /\ backup' = backup /\ journal' = journal
      BY <1>2 DEF OpenTemp, PublishState, RecoverState
    <2>3. CASE AllPublished /\ Delivered /\ journal # NoJournal
      <3>1. "retry" \in mishaps
        BY <2>2, <2>3 DEF Leftovers
      <3>2. \A e \in journal.plan : e \in journal.had /\ backup[e] \in {Absent, journal.val}
        BY <2>2, <2>3 DEF SessionView, Delivered, Announces
      <3>3. SameBytes'
        <4>1. journal.had = journal.plan
          BY <3>2
        <4>2. "retry" \in mishaps'
          BY <1>0, <3>1
        <4>3. QED
          BY <2>2, <2>3, <3>2, <4>1, <4>2 DEF SameBytes, Delivered
      <3>4. QED
        BY <3>3 DEF JournalUse
    <2>4. CASE SameBytes
      BY <1>0, <2>2, <2>4 DEF JournalUse, SameBytes, Delivered
    <2>5. CASE Restorable
      BY <1>0, <2>1, <2>2, <2>5 DEF JournalUse, Restorable, Undoing
    <2>6. QED
      BY <1>0, <2>2, <2>3, <2>4, <2>5 DEF JournalUse
  <1>3. CASE WriteTemp
    BY <1>0, <1>3 DEF WriteTemp
  <1>4. CASE StageJournal
    BY <1>0, <1>4 DEF StageJournal
  <1>5. CASE WriteJournal
    BY <1>0, <1>5 DEF WriteJournal
  <1>6. CASE ClearBackup
    BY <1>0, <1>6 DEF ClearBackup
  <1>7. CASE LinkBackup
    BY <1>0, <1>7 DEF LinkBackup
  <1>8. CASE StartRenames
    BY <1>0, <1>8 DEF StartRenames
  <1>9. CASE RenameTemp
    BY <1>0, <1>9 DEF RenameTemp
  <1>10. CASE StartFinalize
    BY <1>0, <1>10 DEF StartFinalize
  <1>11. CASE DropBackup
    BY <1>0, <1>11 DEF DropBackup
  <1>12. CASE DropJournal
    BY <1>0, <1>12 DEF DropJournal, Return
  <1>13. CASE Recover
    BY <1>0, <1>13 DEF Recover, RecoverNothing, RecoverForward, RecoverBackward
  <1>14. CASE CleanTemp
    BY <1>0, <1>14 DEF CleanTemp
  <1>15. CASE CleanDone
    BY <1>0, <1>15 DEF CleanDone, Return
  <1>16. CASE UndoEntry
    BY <1>0, <1>16 DEF UndoEntry, Restore, DeleteCreated, DiscardBackup, LeaveAlone
  <1>17. CASE UndoTemp
    BY <1>0, <1>17 DEF UndoTemp
  <1>18. CASE Fault
    BY <1>0, RecordKeeps, <1>18 DEF Fault, Fail, Return
  <1>19. CASE Impossible
    <2>1. /\ target' = target /\ backup' = backup /\ journal' = journal /\ temp' = temp
          /\ pc' = "idle" /\ pc \in {"undo", "link", "rename"}
          /\ pc = "undo" => \E e \in todo : e \in had /\ Published(e) /\ backup[e] = Absent
      BY <1>19 DEF Impossible, Fail, Return, RestoreImpossible, LinkImpossible, RenameImpossible
    <2>2. CASE pc = "undo"
      BY <1>0, <2>1, <2>2 DEF JournalUse, Restorable, SameBytes, Delivered, Undoing
    <2>3. CASE pc \in {"link", "rename"}
      BY <1>0, <2>1, <2>3 DEF JournalUse, Restorable, SameBytes, Delivered, AllPublished, Undoing
    <2>4. QED
      BY <2>1, <2>2, <2>3
  <1>20. CASE Crash
    BY <1>0, RecordKeeps, <1>20 DEF Crash
  <1>21. QED
    BY <1>1, <1>2, <1>3, <1>4, <1>5, <1>6, <1>7, <1>8, <1>9, <1>10, <1>11, <1>12, <1>13,
       <1>14, <1>15, <1>16, <1>17, <1>18, <1>19, <1>20 DEF Next, Publishing, Finishing,
       Recovering

-----------------------------------------------------------------------------
(* The properties.                                                         *)

\* It holds at first.
LEMMA RInvInit == Checked /\ TrackedInit => RInv
  <1> SUFFICES ASSUME Checked, TrackedInit PROVE RInv
    OBVIOUS
  <1>1. IInv
    BY InvInit DEF TrackedInit
  <1>2. QED
    BY <1>1 DEF TrackedInit, Init, RInv, Announces, Leftovers, Cleaned, JournalUse, NoJournal,
                Staged, Published

\* A step changes the tracked variables as an action does, or none of them.
LEMMA RInvStep == Checked /\ RInv /\ [TrackedNext]_tvars => RInv'
  <1> SUFFICES ASSUME Checked, RInv, [TrackedNext]_tvars PROVE RInv'
    OBVIOUS
  <1>1. CASE TrackedNext
    <2>1. Next /\ Record /\ IInv'
      BY <1>1, InvStep DEF TrackedNext, RInv
    <2>2. QED
      BY <2>1, AnnouncesStep, LeftoversStep, CleanedStep, JournalUseStep DEF RInv
  <1>2. CASE UNCHANGED tvars
    <2>1. IInv'
      BY <1>2, InvStutter DEF RInv, tvars
    <2>2. QED
      BY <1>2, <2>1 DEF RInv, tvars, vars, disk, local, Announces, Leftovers, Cleaned, JournalUse,
                        AllPublished, Delivered, Undoing, Restorable, SameBytes, Staged, Published, First
  <1>3. QED
    BY <1>1, <1>2

\* It holds in every state the callers of Checked reach.
LEMMA RInvHolds == Checked => (TrackedSpec => []RInv)
  <1> SUFFICES ASSUME Checked PROVE TrackedSpec => []RInv
    OBVIOUS
  <1>1. TrackedInit => RInv
    BY RInvInit
  <1>2. RInv /\ [TrackedNext]_tvars => RInv'
    BY RInvStep
  <1>3. QED
    BY <1>1, <1>2, PTL DEF TrackedSpec

\* A rollback finds every backup it has to rename back (_rollback's
\* rollback_restore), unless one was stopped in the middle before, or a failed
\* publication was published over.
THEOREM RecoverySucceedsCorrect == Checked => (TrackedSpec => []RecoverySucceedsOnce)
  <1> SUFFICES ASSUME Checked PROVE TrackedSpec => []RecoverySucceedsOnce
    OBVIOUS
  <1>1. ASSUME RInv, "rollback" \notin mishaps, "retry" \notin mishaps, pc = "undo",
               NEW e \in Entries, First(e), RestoreImpossible(e)
        PROVE  FALSE
    <2>1. job = "recover" /\ journal # NoJournal
      BY <1>1 DEF RInv, IInv, TypeOK, PCs, Jobs, PublishState, RecoverState, Preparing, Linking
    <2>2. Restorable
      BY <1>1, <2>1 DEF RInv, JournalUse, Undoing, SameBytes
    <2>3. QED
      BY <1>1, <2>2 DEF Restorable, Undoing, RestoreImpossible, First
  <1>2. RInv => RecoverySucceedsOnce
    BY <1>1 DEF RecoverySucceedsOnce, RecoverySucceeds
  <1>3. QED
    BY <1>2, RInvHolds, PTL

\* recover() reports "rolled_forward" only over a transaction whose every file
\* holds the published bytes, unless a rollback was stopped in the middle.
THEOREM ForwardCorrect == Checked => (TrackedSpec => []ForwardIsComplete)
  <1> SUFFICES ASSUME Checked PROVE TrackedSpec => []ForwardIsComplete
    OBVIOUS
  <1>1. ASSUME RInv, "rollback" \notin mishaps, job = "recover", pc = "finalize"
        PROVE  Delivered
    <2>1. journal # NoJournal /\ AllPublished
      BY <1>1 DEF RInv, IInv, RecoverState
    <2>2. ~Restorable
      BY <1>1, <2>1 DEF Restorable, Undoing, AllPublished, Published
    <2>3. QED
      BY <1>1, <2>1, <2>2 DEF RInv, JournalUse, SameBytes
  <1>2. RInv => ForwardIsComplete
    BY <1>1 DEF ForwardIsComplete, RollForwardIsComplete, Delivered
  <1>3. QED
    BY <1>2, RInvHolds, PTL

\* An open that ends well (StorageLifecycle._open) leaves no journal, no backup
\* and no staged file, unless a failed publication was published over.
THEOREM OpensCleanCorrect == Checked => (TrackedSpec => OpensCleanPair)
  <1> SUFFICES ASSUME Checked PROVE TrackedSpec => OpensCleanPair
    OBVIOUS
  <1> DEFINE Opens == job = "recover" /\ baseline' # NoSession /\ "retry" \notin mishaps
                        => CleanPair'
  <1>1. ASSUME RInv, Next, job = "recover", baseline' # NoSession, "retry" \notin mishaps
        PROVE  CleanPair'
    <2> USE DEF RInv, IInv
    <2>0. /\ baseline = NoSession /\ pc \in {"clean", "finalize", "undo", "undo_temp"}
          /\ had \subseteq Entries /\ plan \subseteq Entries
      BY <1>1 DEF RecoverState, TypeOK
    <2>1. DropJournal \/ CleanDone
      BY <1>1, <2>0 DEF Next, Publishing, Finishing, Recovering, StartPublish, OpenTemp, WriteTemp,
         StageJournal, WriteJournal, ClearBackup, LinkBackup, StartRenames, RenameTemp, StartFinalize,
         DropBackup, Recover, CleanTemp, UndoEntry, UndoTemp, Fault, Fail, Impossible, Crash
    <2>2. CASE CleanDone
      <3>1. /\ pc = "clean" /\ todo = {} /\ journal = NoJournal
            /\ temp' = temp /\ backup' = backup /\ journal' = journal
        BY <1>1, <2>2 DEF CleanDone, disk, RecoverState
      <3>2. \A e \in Entries : temp[e] = Absent /\ backup[e] = Absent
        BY <1>1, <3>1 DEF Cleaned, Published, Staged, Leftovers, NoJournal
      <3>3. QED
        BY <3>1, <3>2 DEF CleanPair
    <2>3. CASE DropJournal
      <3>1. /\ pc \in {"finalize", "undo"} /\ todo = {} /\ journal # NoJournal
            /\ plan = journal.plan /\ had = journal.had /\ had \subseteq plan
            /\ temp' = temp /\ backup' = backup /\ journal' = NoJournal
        BY <1>1, <2>3 DEF DropJournal, RecoverState, TypeOK
      <3>2. \A e \in plan : Published(e)
        BY <1>1, <3>1 DEF RecoverState, AllPublished
      <3>3. \A e \in had : backup[e] = Absent
        BY <1>1, <3>1 DEF RecoverState
      <3>4. \A e \in Entries : temp[e] = Absent /\ backup[e] = Absent
        BY <1>1, <3>1, <3>2, <3>3 DEF Leftovers, Published, Staged
      <3>5. QED
        BY <3>1, <3>4 DEF CleanPair
    <2>4. QED
      BY <2>1, <2>2, <2>3
  <1>2. RInv /\ [TrackedNext]_tvars => [Opens]_tvars
    BY <1>1 DEF TrackedNext
  <1> HIDE DEF Opens
  <1>3. TrackedSpec => [][Opens]_tvars
    BY <1>2, RInvHolds, PTL DEF TrackedSpec
  <1>4. QED
    BY <1>3 DEF OpensCleanPair, Opens
=============================================================================
