--------------------------- MODULE FileTxnProofs ---------------------------
(***************************************************************************)
(* Proofs about FileTxn, for every set of entries and values, every set of *)
(* plans and every choice of what crashes and faults may interrupt.        *)
(***************************************************************************)
EXTENDS FileTxn, TLAPS

USE DEF Content, NoSession, NoJournal, Manifests, PCs, Loops, InLoop, Jobs

\* The initial state is of its type.
LEMMA TypeInit == Init => TypeOK
<1> SUFFICES ASSUME Init PROVE TypeOK
  OBVIOUS
<1>1. /\ target \in [Entries -> Content]
      /\ temp \in [Entries -> Content]
      /\ backup \in [Entries -> Content]
      /\ baseline \in [Entries -> Content]
  BY DEF Init
<1>2. journal \in Manifests /\ journal.had \subseteq journal.plan
  BY DEF Init
<1>3. QED
  BY <1>1, <1>2 DEF Init, TypeOK

\* No step leaves the types.
LEMMA TypeStep == TypeOK /\ [Next]_vars => TypeOK'
<1> SUFFICES ASSUME TypeOK, [Next]_vars PROVE TypeOK'
  OBVIOUS
<1> USE DEF TypeOK, disk, local, First, Staged, Published, Existing
<1>1. CASE StartPublish
  BY <1>1, PlansAssumption DEF StartPublish
<1>2. CASE OpenTemp
  BY <1>2 DEF OpenTemp
<1>3. CASE WriteTemp
  BY <1>3 DEF WriteTemp
<1>4. CASE StageJournal
  BY <1>4 DEF StageJournal
<1>5. CASE WriteJournal
  BY <1>5 DEF WriteJournal
<1>6. CASE ClearBackup
  BY <1>6 DEF ClearBackup
<1>7. CASE LinkBackup
  BY <1>7 DEF LinkBackup
<1>8. CASE StartRenames
  BY <1>8 DEF StartRenames
<1>9. CASE RenameTemp
  BY <1>9 DEF RenameTemp
<1>10. CASE StartFinalize
  BY <1>10 DEF StartFinalize
<1>11. CASE DropBackup
  BY <1>11 DEF DropBackup
<1>12. CASE DropJournal
  BY <1>12 DEF DropJournal, Return
<1>13. CASE Recover
  BY <1>13 DEF Recover, RecoverNothing, RecoverForward, RecoverBackward
<1>14. CASE CleanTemp
  BY <1>14 DEF CleanTemp
<1>15. CASE CleanDone
  BY <1>15 DEF CleanDone, Return
<1>16. CASE UndoEntry
  BY <1>16 DEF UndoEntry, Restore, DeleteCreated, DiscardBackup, LeaveAlone
<1>17. CASE UndoTemp
  BY <1>17 DEF UndoTemp
<1>18. CASE Fault
  BY <1>18 DEF Fault, Fail, Return
<1>19. CASE Impossible
  BY <1>19 DEF Impossible, Fail, Return
<1>20. CASE Crash
  BY <1>20 DEF Crash
<1>21. CASE UNCHANGED vars
  BY <1>21 DEF vars
<1>22. QED
  BY <1>1, <1>2, <1>3, <1>4, <1>5, <1>6, <1>7, <1>8, <1>9, <1>10, <1>11,
     <1>12, <1>13, <1>14, <1>15, <1>16, <1>17, <1>18, <1>19, <1>20, <1>21
     DEF Next, Publishing, Finishing, Recovering

\* The program counter, the plan and the files stay what their names say:
\* had_target marks entries of the plan, and no call is under way exactly
\* when the program is idle or down.
THEOREM TypeCorrect == Spec => []TypeOK
BY TypeInit, TypeStep, PTL DEF Spec

-----------------------------------------------------------------------------
(* The inductive invariant behind atomicity.  The journal on disk is always *)
(* in one of three conditions: everything it names is published, undoing it *)
(* would change no target, or undoing it restores exactly the files that    *)
(* existed and deletes exactly those that did not, and it can be undone     *)
(* first entry first because the published entries are the first ones.      *)

AllPublished == \A e \in journal.plan : Published(e)

Neutral ==
  \A e \in journal.plan :
    /\ e \in journal.had <=> target[e] # Absent
    /\ backup[e] \in {Absent, target[e]}

Undoable ==
  /\ \A e, f \in journal.plan : Published(e) /\ f < e => Published(f)
  /\ \A e \in journal.had : target[e] # Absent
  /\ \A e \in journal.plan : Staged(e) =>
       /\ e \notin journal.had => target[e] = Absent
       /\ backup[e] \in {Absent, target[e]}

\* No file under its own name, or a backup's, was left half written.
Whole == /\ target \in [Entries -> Values \cup {Absent}]
         /\ backup \in [Entries -> Values \cup {Absent}]

\* A backup no journal speaks of is a second name of the file it backs up.
StrayBackups ==
  \A e \in Entries \ journal.plan : backup[e] \in {Absent, target[e]}

JournalShape ==
  journal # NoJournal =>
    /\ journal.plan # {}
    /\ \A e \in journal.plan \ journal.had : backup[e] = Absent
    /\ AllPublished \/ Neutral \/ Undoable

\* A journal that outlives a failed publish of this session leads back to the
\* pair the session saw.
SessionView ==
  baseline # NoSession =>
    /\ \A e \in journal.plan :
         /\ e \in journal.had <=> baseline[e] # Absent
         /\ backup[e] \in {Absent, baseline[e]}
    /\ Caller = "reopen" /\ job = "none" => target = baseline

Preparing == {"stage", "write", "journal"}
Linking   == {"backup", "link"}

PublishState ==
  job = "publish" =>
    /\ baseline # NoSession
    /\ value \in Values /\ plan # {}
    /\ pc \in Preparing \cup Linking \cup {"rename", "finalize"}
    /\ pc \in Preparing \cup Linking => target = baseline
    /\ \A e \in plan : e \in had <=> baseline[e] # Absent
    /\ pc \in Preparing =>
         /\ journal # NoJournal => Neutral
         /\ \A e \in plan \ todo : temp[e] = value
         /\ todo \subseteq plan
         /\ pc = "journal" => todo = {}
         /\ pc = "write" => \A e \in Entries : First(e) => Staged(e)
    /\ pc \notin Preparing => journal = [plan |-> plan, had |-> had, val |-> value]
    /\ pc \in Linking =>
         /\ \A e \in plan : temp[e] = value
         /\ \A e \in had \ todo : backup[e] = baseline[e]
         /\ todo \subseteq had
    /\ pc = "rename" =>
         /\ todo \subseteq plan
         /\ \A e \in plan \ todo, f \in todo : e < f
         /\ \A e \in todo : temp[e] = value /\ target[e] = baseline[e]
         /\ \A e \in plan \ todo : Published(e) /\ target[e] = value
         /\ \A e \in Entries \ plan : target[e] = baseline[e]
         /\ \A e \in had : backup[e] = baseline[e]
    /\ pc = "finalize" =>
         /\ \A e \in plan : Published(e) /\ target[e] = value
         /\ \A e \in Entries \ plan : target[e] = baseline[e]
         /\ \A e \in had \ todo : backup[e] = Absent

RecoverState ==
  job = "recover" =>
    /\ baseline = NoSession
    /\ pc \in {"clean", "finalize", "undo", "undo_temp"}
    /\ pc = "clean" => journal = NoJournal
    /\ pc # "clean" =>
         /\ journal # NoJournal
         /\ plan = journal.plan /\ had = journal.had
    /\ pc = "finalize" =>
         /\ AllPublished
         /\ \A e \in had \ todo : backup[e] = Absent
    /\ pc \in {"undo", "undo_temp"} =>
         /\ Neutral \/ (Undoable /\ ~AllPublished)
         /\ todo \subseteq plan
         /\ \A e \in plan \ todo :
              /\ Published(e)
              /\ IF e \in had THEN backup[e] = Absent ELSE target[e] = Absent
    /\ pc = "undo_temp" =>
         \A e \in Entries : First(e) =>
           IF e \in had THEN backup[e] = Absent ELSE target[e] = Absent

IInv == /\ TypeOK
        /\ Whole
        /\ StrayBackups
        /\ JournalShape
        /\ SessionView
        /\ PublishState
        /\ RecoverState

\* The callers the proofs are about; see MayPublish.
Checked == Caller \in {"reopen", "guarded"} /\ ShortWrites = FALSE

\* The invariant holds at first.
LEMMA InvInit == Init => IInv
BY TypeInit, ContentAssumption
   DEF Init, IInv, Whole, StrayBackups, JournalShape, SessionView,
       PublishState, RecoverState

\* StartPublish keeps the invariant.
LEMMA InvStartPublish == Checked /\ IInv /\ StartPublish => IInv'
<1> SUFFICES ASSUME Checked, IInv, StartPublish PROVE IInv'
  OBVIOUS
<1> USE PlansAssumption, EntriesAssumption, ContentAssumption
    DEF Checked, IInv, TypeOK, StartPublish, MayPublish, disk, local,
        AllPublished, Neutral, Undoable, Preparing, Linking, Staged, Published, First, Existing
<1>1. TypeOK'
  BY TypeStep DEF Next, Publishing, Finishing, Recovering
<1>2. Whole'
  BY DEF Whole
<1>3. StrayBackups'
  BY DEF StrayBackups
<1>4. JournalShape'
  BY DEF JournalShape
<1>5. SessionView'
  BY DEF SessionView
<1>6. PublishState'
  <2>1. baseline # NoSession /\ target = baseline
    BY DEF SessionView
  <2>2. plan' # {} /\ value' \in Values /\ todo' = plan'
    <3>1. PICK F \in Plans, v \in Values : plan' = F /\ todo' = F /\ value' = v
      OBVIOUS
    <3>2. F # {}
      OBVIOUS
    <3>3. QED
      BY <3>1, <3>2
  <2>3. \A e \in plan' : e \in had' <=> baseline[e] # Absent
    BY <2>1
  <2>4. journal # NoJournal => Neutral'
    BY <2>1 DEF SessionView
  <2>5. job' = "publish" /\ pc' = "stage" /\ baseline' = baseline
        /\ target' = target /\ journal' = journal
    OBVIOUS
  <2>6. QED
    BY <2>1, <2>2, <2>3, <2>4, <2>5 DEF PublishState
<1>7. RecoverState'
  BY DEF RecoverState
<1>8. QED
  BY <1>1, <1>2, <1>3, <1>4, <1>5, <1>6, <1>7

\* OpenTemp keeps the invariant.
LEMMA InvOpenTemp == Checked /\ IInv /\ OpenTemp => IInv'
<1> SUFFICES ASSUME Checked, IInv, OpenTemp PROVE IInv'
  OBVIOUS
<1> USE PlansAssumption, EntriesAssumption, ContentAssumption
    DEF Checked, IInv, TypeOK, OpenTemp, disk, local,
        AllPublished, Neutral, Undoable, Preparing, Linking, Staged, Published, First, Existing
<1>1. TypeOK'
  BY TypeStep DEF Next, Publishing, Finishing, Recovering
<1>2. Whole'
  BY DEF Whole
<1>3. StrayBackups'
  BY DEF StrayBackups
<1>4. JournalShape'
  BY DEF JournalShape, PublishState, RecoverState
<1>5. SessionView'
  BY DEF SessionView
<1>6. PublishState'
  BY DEF PublishState
<1>7. RecoverState'
  BY DEF RecoverState
<1>8. QED
  BY <1>1, <1>2, <1>3, <1>4, <1>5, <1>6, <1>7

\* WriteTemp keeps the invariant.
LEMMA InvWriteTemp == Checked /\ IInv /\ WriteTemp => IInv'
<1> SUFFICES ASSUME Checked, IInv, WriteTemp PROVE IInv'
  OBVIOUS
<1> USE PlansAssumption, EntriesAssumption, ContentAssumption
    DEF Checked, IInv, TypeOK, WriteTemp, disk, local,
        AllPublished, Neutral, Undoable, Preparing, Linking, Staged, Published, First, Existing
<1>1. TypeOK'
  BY TypeStep DEF Next, Publishing, Finishing, Recovering
<1>2. Whole'
  BY DEF Whole
<1>3. StrayBackups'
  BY DEF StrayBackups
<1>4. JournalShape'
  BY DEF JournalShape, PublishState, RecoverState
<1>5. SessionView'
  BY DEF SessionView
<1>6. PublishState'
  BY DEF PublishState
<1>7. RecoverState'
  BY DEF RecoverState
<1>8. QED
  BY <1>1, <1>2, <1>3, <1>4, <1>5, <1>6, <1>7

\* StageJournal keeps the invariant.
LEMMA InvStageJournal == Checked /\ IInv /\ StageJournal => IInv'
<1> SUFFICES ASSUME Checked, IInv, StageJournal PROVE IInv'
  OBVIOUS
<1> USE PlansAssumption, EntriesAssumption, ContentAssumption
    DEF Checked, IInv, TypeOK, StageJournal, disk, local,
        AllPublished, Neutral, Undoable, Preparing, Linking, Staged, Published, First, Existing
<1>1. TypeOK'
  BY TypeStep DEF Next, Publishing, Finishing, Recovering
<1>2. Whole'
  BY DEF Whole
<1>3. StrayBackups'
  BY DEF StrayBackups
<1>4. JournalShape'
  BY DEF JournalShape
<1>5. SessionView'
  BY DEF SessionView
<1>6. PublishState'
  BY DEF PublishState
<1>7. RecoverState'
  BY DEF RecoverState
<1>8. QED
  BY <1>1, <1>2, <1>3, <1>4, <1>5, <1>6, <1>7

\* WriteJournal keeps the invariant.
LEMMA InvWriteJournal == Checked /\ IInv /\ WriteJournal => IInv'
<1> SUFFICES ASSUME Checked, IInv, WriteJournal PROVE IInv'
  OBVIOUS
<1> USE PlansAssumption, EntriesAssumption, ContentAssumption
    DEF Checked, IInv, TypeOK, WriteJournal, disk, local,
        AllPublished, Neutral, Undoable, Preparing, Linking, Staged, Published, First, Existing
<1>1. TypeOK'
  BY TypeStep DEF Next, Publishing, Finishing, Recovering
<1>2. Whole'
  BY DEF Whole
<1>3. StrayBackups'
  BY DEF StrayBackups, PublishState, RecoverState
<1>4. JournalShape'
  BY DEF StrayBackups, JournalShape, PublishState, RecoverState
<1>5. SessionView'
  BY DEF StrayBackups, SessionView, PublishState, RecoverState
<1>6. PublishState'
  BY DEF PublishState
<1>7. RecoverState'
  BY DEF RecoverState
<1>8. QED
  BY <1>1, <1>2, <1>3, <1>4, <1>5, <1>6, <1>7

\* ClearBackup keeps the invariant.
LEMMA InvClearBackup == Checked /\ IInv /\ ClearBackup => IInv'
<1> SUFFICES ASSUME Checked, IInv, ClearBackup PROVE IInv'
  OBVIOUS
<1> USE PlansAssumption, EntriesAssumption, ContentAssumption
    DEF Checked, IInv, TypeOK, ClearBackup, disk, local,
        AllPublished, Neutral, Undoable, Preparing, Linking, Staged, Published, First, Existing
<1>1. TypeOK'
  BY TypeStep DEF Next, Publishing, Finishing, Recovering
<1>2. Whole'
  BY DEF Whole
<1>3. StrayBackups'
  BY DEF StrayBackups
<1>4. JournalShape'
  BY DEF JournalShape
<1>5. SessionView'
  BY DEF SessionView
<1>6. PublishState'
  BY DEF PublishState
<1>7. RecoverState'
  BY DEF RecoverState
<1>8. QED
  BY <1>1, <1>2, <1>3, <1>4, <1>5, <1>6, <1>7

\* LinkBackup keeps the invariant.
LEMMA InvLinkBackup == Checked /\ IInv /\ LinkBackup => IInv'
<1> SUFFICES ASSUME Checked, IInv, LinkBackup PROVE IInv'
  OBVIOUS
<1> USE PlansAssumption, EntriesAssumption, ContentAssumption
    DEF Checked, IInv, TypeOK, LinkBackup, disk, local,
        AllPublished, Neutral, Undoable, Preparing, Linking, Staged, Published, First, Existing
<1>1. TypeOK'
  BY TypeStep DEF Next, Publishing, Finishing, Recovering
<1>2. Whole'
  BY DEF Whole
<1>3. StrayBackups'
  <2>1. journal' = journal /\ todo \subseteq journal.plan
    BY DEF PublishState, RecoverState
  <2>2. \A e \in Entries \ journal.plan : target'[e] = target[e] /\ backup'[e] = backup[e]
    BY <2>1
  <2>3. QED
    BY <2>1, <2>2 DEF StrayBackups
<1>4. JournalShape'
  BY DEF JournalShape, PublishState, RecoverState
<1>5. SessionView'
  BY DEF SessionView, PublishState, RecoverState
<1>6. PublishState'
  BY DEF PublishState
<1>7. RecoverState'
  BY DEF RecoverState
<1>8. QED
  BY <1>1, <1>2, <1>3, <1>4, <1>5, <1>6, <1>7

\* StartRenames keeps the invariant.
LEMMA InvStartRenames == Checked /\ IInv /\ StartRenames => IInv'
<1> SUFFICES ASSUME Checked, IInv, StartRenames PROVE IInv'
  OBVIOUS
<1> USE PlansAssumption, EntriesAssumption, ContentAssumption
    DEF Checked, IInv, TypeOK, StartRenames, disk, local,
        AllPublished, Neutral, Undoable, Preparing, Linking, Staged, Published, First, Existing
<1>1. TypeOK'
  BY TypeStep DEF Next, Publishing, Finishing, Recovering
<1>2. Whole'
  BY DEF Whole
<1>3. StrayBackups'
  BY DEF StrayBackups
<1>4. JournalShape'
  BY DEF JournalShape
<1>5. SessionView'
  BY DEF SessionView
<1>6. PublishState'
  BY DEF PublishState
<1>7. RecoverState'
  BY DEF RecoverState
<1>8. QED
  BY <1>1, <1>2, <1>3, <1>4, <1>5, <1>6, <1>7

\* RenameTemp keeps the invariant.
LEMMA InvRenameTemp == Checked /\ IInv /\ RenameTemp => IInv'
<1> SUFFICES ASSUME Checked, IInv, RenameTemp PROVE IInv'
  OBVIOUS
<1> USE PlansAssumption, EntriesAssumption, ContentAssumption
    DEF Checked, IInv, TypeOK, RenameTemp, disk, local,
        AllPublished, Neutral, Undoable, Preparing, Linking, Staged, Published, First, Existing
<1>1. TypeOK'
  BY TypeStep DEF Next, Publishing, Finishing, Recovering
<1>2. Whole'
  BY DEF Whole, PublishState, RecoverState
<1>3. StrayBackups'
  <2>1. journal' = journal /\ todo \subseteq journal.plan
    BY DEF PublishState, RecoverState
  <2>2. \A e \in Entries \ journal.plan : target'[e] = target[e] /\ backup'[e] = backup[e]
    BY <2>1
  <2>3. QED
    BY <2>1, <2>2 DEF StrayBackups
<1>4. JournalShape'
  BY DEF JournalShape, PublishState, RecoverState
<1>5. SessionView'
  BY DEF SessionView
<1>6. PublishState'
  BY DEF PublishState
<1>7. RecoverState'
  BY DEF RecoverState
<1>8. QED
  BY <1>1, <1>2, <1>3, <1>4, <1>5, <1>6, <1>7

\* StartFinalize keeps the invariant.
LEMMA InvStartFinalize == Checked /\ IInv /\ StartFinalize => IInv'
<1> SUFFICES ASSUME Checked, IInv, StartFinalize PROVE IInv'
  OBVIOUS
<1> USE PlansAssumption, EntriesAssumption, ContentAssumption
    DEF Checked, IInv, TypeOK, StartFinalize, disk, local,
        AllPublished, Neutral, Undoable, Preparing, Linking, Staged, Published, First, Existing
<1>1. TypeOK'
  BY TypeStep DEF Next, Publishing, Finishing, Recovering
<1>2. Whole'
  BY DEF Whole
<1>3. StrayBackups'
  BY DEF StrayBackups
<1>4. JournalShape'
  BY DEF JournalShape
<1>5. SessionView'
  BY DEF SessionView
<1>6. PublishState'
  BY DEF PublishState
<1>7. RecoverState'
  BY DEF RecoverState
<1>8. QED
  BY <1>1, <1>2, <1>3, <1>4, <1>5, <1>6, <1>7

\* DropBackup keeps the invariant.
LEMMA InvDropBackup == Checked /\ IInv /\ DropBackup => IInv'
<1> SUFFICES ASSUME Checked, IInv, DropBackup PROVE IInv'
  OBVIOUS
<1> USE PlansAssumption, EntriesAssumption, ContentAssumption
    DEF Checked, IInv, TypeOK, DropBackup, disk, local,
        AllPublished, Neutral, Undoable, Preparing, Linking, Staged, Published, First, Existing
<1>1. TypeOK'
  BY TypeStep DEF Next, Publishing, Finishing, Recovering
<1>2. Whole'
  BY DEF Whole
<1>3. StrayBackups'
  BY DEF StrayBackups
<1>4. JournalShape'
  BY DEF JournalShape
<1>5. SessionView'
  BY DEF SessionView
<1>6. PublishState'
  BY DEF PublishState
<1>7. RecoverState'
  BY DEF RecoverState
<1>8. QED
  BY <1>1, <1>2, <1>3, <1>4, <1>5, <1>6, <1>7

\* DropJournal keeps the invariant.
LEMMA InvDropJournal == Checked /\ IInv /\ DropJournal => IInv'
<1> SUFFICES ASSUME Checked, IInv, DropJournal PROVE IInv'
  OBVIOUS
<1> USE PlansAssumption, EntriesAssumption, ContentAssumption
    DEF Checked, IInv, TypeOK, DropJournal, Return, Accepted, disk, local,
        AllPublished, Neutral, Undoable, Preparing, Linking, Staged, Published, First, Existing
<1>1. TypeOK'
  BY TypeStep DEF Next, Publishing, Finishing, Recovering
<1>2. Whole'
  BY DEF Whole
<1>3. StrayBackups'
  BY DEF StrayBackups, JournalShape, PublishState, RecoverState
<1>4. JournalShape'
  BY DEF JournalShape
<1>5. SessionView'
  BY DEF SessionView, PublishState
<1>6. PublishState'
  BY DEF PublishState
<1>7. RecoverState'
  BY DEF RecoverState
<1>8. QED
  BY <1>1, <1>2, <1>3, <1>4, <1>5, <1>6, <1>7

\* Recover keeps the invariant.
LEMMA InvRecover == Checked /\ IInv /\ Recover => IInv'
<1> SUFFICES ASSUME Checked, IInv, Recover PROVE IInv'
  OBVIOUS
<1> USE PlansAssumption, EntriesAssumption, ContentAssumption
    DEF Checked, IInv, TypeOK, Recover, RecoverNothing, RecoverForward, RecoverBackward, disk, local,
        AllPublished, Neutral, Undoable, Preparing, Linking, Staged, Published, First, Existing
<1>1. TypeOK'
  BY TypeStep DEF Next, Publishing, Finishing, Recovering
<1>2. Whole'
  BY DEF Whole
<1>3. StrayBackups'
  BY DEF StrayBackups
<1>4. JournalShape'
  BY DEF JournalShape
<1>5. SessionView'
  BY DEF SessionView
<1>6. PublishState'
  BY DEF PublishState
<1>7. RecoverState'
  BY DEF JournalShape, RecoverState
<1>8. QED
  BY <1>1, <1>2, <1>3, <1>4, <1>5, <1>6, <1>7

\* CleanTemp keeps the invariant.
LEMMA InvCleanTemp == Checked /\ IInv /\ CleanTemp => IInv'
<1> SUFFICES ASSUME Checked, IInv, CleanTemp PROVE IInv'
  OBVIOUS
<1> USE PlansAssumption, EntriesAssumption, ContentAssumption
    DEF Checked, IInv, TypeOK, CleanTemp, disk, local,
        AllPublished, Neutral, Undoable, Preparing, Linking, Staged, Published, First, Existing
<1>1. TypeOK'
  BY TypeStep DEF Next, Publishing, Finishing, Recovering
<1>2. Whole'
  BY DEF Whole
<1>3. StrayBackups'
  BY DEF StrayBackups
<1>4. JournalShape'
  BY DEF JournalShape, PublishState, RecoverState
<1>5. SessionView'
  BY DEF SessionView
<1>6. PublishState'
  BY DEF PublishState
<1>7. RecoverState'
  BY DEF RecoverState
<1>8. QED
  BY <1>1, <1>2, <1>3, <1>4, <1>5, <1>6, <1>7

\* CleanDone keeps the invariant.
LEMMA InvCleanDone == Checked /\ IInv /\ CleanDone => IInv'
<1> SUFFICES ASSUME Checked, IInv, CleanDone PROVE IInv'
  OBVIOUS
<1> USE PlansAssumption, EntriesAssumption, ContentAssumption
    DEF Checked, IInv, TypeOK, CleanDone, Return, disk, local,
        AllPublished, Neutral, Undoable, Preparing, Linking, Staged, Published, First, Existing
<1>1. TypeOK'
  BY TypeStep DEF Next, Publishing, Finishing, Recovering
<1>2. Whole'
  BY DEF Whole
<1>3. StrayBackups'
  BY DEF StrayBackups
<1>4. JournalShape'
  BY DEF JournalShape
<1>5. SessionView'
  BY DEF SessionView, PublishState, RecoverState
<1>6. PublishState'
  BY DEF PublishState
<1>7. RecoverState'
  BY DEF RecoverState
<1>8. QED
  BY <1>1, <1>2, <1>3, <1>4, <1>5, <1>6, <1>7

\* UndoEntry keeps the invariant.
LEMMA InvUndoEntry == Checked /\ IInv /\ UndoEntry => IInv'
<1> SUFFICES ASSUME Checked, IInv, UndoEntry PROVE IInv'
  OBVIOUS
<1> USE PlansAssumption, EntriesAssumption, ContentAssumption
    DEF Checked, IInv, TypeOK, UndoEntry, Restore, DeleteCreated, DiscardBackup, LeaveAlone, disk, local,
        AllPublished, Neutral, Undoable, Preparing, Linking, Staged, Published, First, Existing
<1>1. TypeOK'
  BY TypeStep DEF Next, Publishing, Finishing, Recovering
<1>2. Whole'
  BY DEF Whole
<1>3. StrayBackups'
  <2>1. journal' = journal /\ todo \subseteq journal.plan
    BY DEF PublishState, RecoverState
  <2>2. PICK u \in todo :
          Restore(u) \/ DeleteCreated(u) \/ DiscardBackup(u) \/ LeaveAlone(u)
    OBVIOUS
  <2>3. \A e \in Entries \ {u} : target'[e] = target[e] /\ backup'[e] = backup[e]
    <3>1. CASE Restore(u)
      BY <3>1
    <3>2. CASE DeleteCreated(u)
      BY <3>2
    <3>3. CASE DiscardBackup(u)
      BY <3>3
    <3>4. CASE LeaveAlone(u)
      BY <3>4
    <3>5. QED
      BY <2>2, <3>1, <3>2, <3>3, <3>4
  <2>4. u \in journal.plan
    BY <2>1, <2>2
  <2>5. \A e \in Entries \ journal.plan : target'[e] = target[e] /\ backup'[e] = backup[e]
    BY <2>3, <2>4
  <2>6. QED
    BY <2>1, <2>5 DEF StrayBackups
<1>4. JournalShape'
  BY DEF JournalShape, PublishState, RecoverState
<1>5. SessionView'
  BY DEF SessionView
<1>6. PublishState'
  BY DEF PublishState
<1>7. RecoverState'
  BY DEF RecoverState
<1>8. QED
  BY <1>1, <1>2, <1>3, <1>4, <1>5, <1>6, <1>7

\* UndoTemp keeps the invariant.
LEMMA InvUndoTemp == Checked /\ IInv /\ UndoTemp => IInv'
<1> SUFFICES ASSUME Checked, IInv, UndoTemp PROVE IInv'
  OBVIOUS
<1> USE PlansAssumption, EntriesAssumption, ContentAssumption
    DEF Checked, IInv, TypeOK, UndoTemp, disk, local,
        AllPublished, Neutral, Undoable, Preparing, Linking, Staged, Published, First, Existing
<1>1. TypeOK'
  BY TypeStep DEF Next, Publishing, Finishing, Recovering
<1>2. Whole'
  BY DEF Whole
<1>3. StrayBackups'
  BY DEF StrayBackups
<1>4. JournalShape'
  BY DEF JournalShape, PublishState, RecoverState
<1>5. SessionView'
  BY DEF SessionView
<1>6. PublishState'
  BY DEF PublishState
<1>7. RecoverState'
  BY DEF JournalShape, RecoverState
<1>8. QED
  BY <1>1, <1>2, <1>3, <1>4, <1>5, <1>6, <1>7

\* Fault keeps the invariant.
LEMMA InvFault == Checked /\ IInv /\ Fault => IInv'
<1> SUFFICES ASSUME Checked, IInv, Fault PROVE IInv'
  OBVIOUS
<1> USE PlansAssumption, EntriesAssumption, ContentAssumption
    DEF Checked, IInv, TypeOK, Fault, Fail, Return, disk, local,
        AllPublished, Neutral, Undoable, Preparing, Linking, Staged, Published, First, Existing
<1>1. TypeOK'
  BY TypeStep DEF Next, Publishing, Finishing, Recovering
<1>2. Whole'
  BY DEF Whole
<1>3. StrayBackups'
  BY DEF StrayBackups
<1>4. JournalShape'
  BY DEF JournalShape
<1>5. SessionView'
  BY DEF SessionView
<1>6. PublishState'
  BY DEF PublishState
<1>7. RecoverState'
  BY DEF RecoverState
<1>8. QED
  BY <1>1, <1>2, <1>3, <1>4, <1>5, <1>6, <1>7

\* Impossible keeps the invariant.
LEMMA InvImpossible == Checked /\ IInv /\ Impossible => IInv'
<1> SUFFICES ASSUME Checked, IInv, Impossible PROVE IInv'
  OBVIOUS
<1> USE PlansAssumption, EntriesAssumption, ContentAssumption
    DEF Checked, IInv, TypeOK, Impossible, Fail, Return, disk, local,
        AllPublished, Neutral, Undoable, Preparing, Linking, Staged, Published, First, Existing
<1>1. TypeOK'
  BY TypeStep DEF Next, Publishing, Finishing, Recovering
<1>2. Whole'
  BY DEF Whole
<1>3. StrayBackups'
  BY DEF StrayBackups
<1>4. JournalShape'
  BY DEF JournalShape
<1>5. SessionView'
  BY DEF SessionView
<1>6. PublishState'
  BY DEF PublishState
<1>7. RecoverState'
  BY DEF RecoverState
<1>8. QED
  BY <1>1, <1>2, <1>3, <1>4, <1>5, <1>6, <1>7

\* Crash keeps the invariant.
LEMMA InvCrash == Checked /\ IInv /\ Crash => IInv'
<1> SUFFICES ASSUME Checked, IInv, Crash PROVE IInv'
  OBVIOUS
<1> USE PlansAssumption, EntriesAssumption, ContentAssumption
    DEF Checked, IInv, TypeOK, Crash, disk, local,
        AllPublished, Neutral, Undoable, Preparing, Linking, Staged, Published, First, Existing
<1>1. TypeOK'
  BY TypeStep DEF Next, Publishing, Finishing, Recovering
<1>2. Whole'
  BY DEF Whole
<1>3. StrayBackups'
  BY DEF StrayBackups
<1>4. JournalShape'
  BY DEF JournalShape
<1>5. SessionView'
  BY DEF SessionView
<1>6. PublishState'
  BY DEF PublishState
<1>7. RecoverState'
  BY DEF RecoverState
<1>8. QED
  BY <1>1, <1>2, <1>3, <1>4, <1>5, <1>6, <1>7

\* A stutter keeps the invariant.
LEMMA InvStutter == IInv /\ UNCHANGED vars => IInv'
BY DEF IInv, TypeOK, Whole, StrayBackups, JournalShape, SessionView,
       PublishState, RecoverState, AllPublished, Neutral, Undoable, Staged,
       Published, First, vars, disk, local

\* Every step keeps the invariant.
LEMMA InvStep == Checked /\ IInv /\ [Next]_vars => IInv'
BY InvStartPublish, InvOpenTemp, InvWriteTemp, InvStageJournal,
   InvWriteJournal, InvClearBackup, InvLinkBackup, InvStartRenames,
   InvRenameTemp, InvStartFinalize, InvDropBackup, InvDropJournal,
   InvRecover, InvCleanTemp, InvCleanDone, InvUndoEntry, InvUndoTemp,
   InvFault, InvImpossible, InvCrash,
   InvStutter
   DEF Next, Publishing, Finishing, Recovering

\* The journal's three conditions hold in every reachable state, for the
\* callers that reopen or compare with their baseline.
THEOREM InvCorrect == Checked => (Spec => []IInv)
<1> SUFFICES ASSUME Checked PROVE Spec => []IInv
  OBVIOUS
<1>1. Init => IInv
  BY InvInit
<1>2. IInv /\ [Next]_vars => IInv'
  BY InvStep
<1>3. QED
  BY <1>1, <1>2, PTL DEF Spec

-----------------------------------------------------------------------------
(* FileTxn implements AtomicStore: with the journal always in one of the  *)
(* three conditions of IInv, the content that recover() would leave is    *)
(* changed by one step only, the last rename of a publication.            *)

StoreOverlay == [e \in Entries |-> IF e \in plan THEN value ELSE baseline[e]]

\* With nothing to undo, or nothing that undoing would change, the targets
\* are what recover() leaves.
LEMMA RecoveredIsTarget ==
  IInv /\ (journal = NoJournal \/ Neutral \/ AllPublished) => Recovered = target
<1> SUFFICES ASSUME IInv, journal = NoJournal \/ Neutral \/ AllPublished
             PROVE  Recovered = target
  OBVIOUS
<1> USE DEF IInv, TypeOK, Whole
<1>1. CASE journal = NoJournal \/ AllPublished
  BY <1>1 DEF Recovered, AllPublished
<1>2. CASE Neutral
  <2>1. \A e \in journal.plan : Undone(e) = target[e]
    BY <1>2 DEF Neutral, Undone, Published, Staged
  <2>2. QED
    BY <2>1 DEF Recovered
<1>3. QED
  BY <1>1, <1>2

\* Until the last rename a publication can be undone to the pair its session
\* saw; from then on it is in the targets.
LEMMA RecoveredWhilePublishing ==
  Checked /\ IInv /\ job = "publish" =>
    /\ ~Renamed => Recovered = baseline
    /\ Renamed  => Recovered = target /\ target = StoreOverlay
<1> SUFFICES ASSUME Checked, IInv, job = "publish"
             PROVE  /\ ~Renamed => Recovered = baseline
                    /\ Renamed  => Recovered = target /\ target = StoreOverlay
  OBVIOUS
<1> USE DEF Checked, IInv, TypeOK, Renamed
<1>1. CASE pc \in Preparing
  BY <1>1, RecoveredIsTarget DEF PublishState, Preparing
<1>2. CASE pc \in Linking
  <2>1. Neutral
    BY <1>2 DEF PublishState, SessionView, Neutral, Linking, Preparing
  <2>2. QED
    BY <1>2, <2>1, RecoveredIsTarget DEF PublishState, Linking
<1>3. CASE pc = "rename" /\ todo # {}
  <2>1. journal = [plan |-> plan, had |-> had, val |-> value] /\ plan # {}
    BY <1>3 DEF PublishState, Preparing
  <2>2. ~AllPublished
    BY <1>3, <2>1, ContentAssumption
       DEF PublishState, AllPublished, Published, Staged
  <2>3. \A e \in plan : Undone(e) = baseline[e]
    <3> SUFFICES ASSUME NEW e \in plan PROVE Undone(e) = baseline[e]
      OBVIOUS
    <3>1. e \in had <=> baseline[e] # Absent
      BY DEF PublishState
    <3>2. CASE e \in todo
      <4>1. Staged(e) /\ target[e] = baseline[e]
        BY <1>3, <3>2, ContentAssumption DEF PublishState, Staged
      <4>2. QED
        BY <4>1, <3>1, <2>1 DEF Undone, Published
    <3>3. CASE e \notin todo
      <4>1. Published(e) /\ (e \in had => backup[e] = baseline[e])
        BY <1>3, <3>3 DEF PublishState
      <4>2. QED
        BY <4>1, <3>1, <2>1 DEF Undone, Published
    <3>4. QED
      BY <3>2, <3>3
  <2>4. \A e \in Entries \ plan : target[e] = baseline[e]
    BY <1>3 DEF PublishState
  <2>5. Recovered = [e \in Entries |-> IF e \in plan THEN Undone(e) ELSE target[e]]
    <3>1. journal.plan = plan /\ journal # NoJournal
      BY <2>1
    <3>2. ~(journal = NoJournal \/ \A e \in journal.plan : Published(e))
      BY <3>1, <2>2 DEF AllPublished
    <3>3. QED
      BY <3>1, <3>2 DEF Recovered
  <2>6. \A e \in Entries : Recovered[e] = baseline[e]
    BY <2>3, <2>4, <2>5
  <2>7. QED
    BY <1>3, <2>5, <2>6
<1>4. CASE Renamed
  <2>1. AllPublished
    BY <1>4 DEF PublishState, AllPublished, Preparing
  <2>2. \A e \in Entries : target[e] = IF e \in plan THEN value ELSE baseline[e]
    BY <1>4 DEF PublishState
  <2>3. target = StoreOverlay
    BY <2>2 DEF StoreOverlay
  <2>4. QED
    BY <1>4, <2>1, <2>3, RecoveredIsTarget
<1>5. QED
  BY <1>1, <1>2, <1>3, <1>4 DEF PublishState, Preparing, Linking

-----------------------------------------------------------------------------
(* Every step of FileTxn is a step of the atomic store or changes nothing   *)
(* a caller can rely on.                                                    *)

Refines == [Abs!AbsNext]_(Abs!absVars)

\* What a recovery would leave once nothing is half published, in the next state.
LEMMA RecoveredIsTargetNext ==
  (IInv /\ (journal = NoJournal \/ Neutral \/ AllPublished) =>
     Recovered = target)'
BY RecoveredIsTarget, PTL

\* What it would leave of a publication under way, in the next state.
LEMMA RecoveredWhilePublishingNext ==
  (Checked /\ IInv /\ job = "publish" =>
     /\ ~Renamed => Recovered = baseline
     /\ Renamed  => Recovered = target /\ target = StoreOverlay)'
BY RecoveredWhilePublishing, PTL

\* Starting a publication is the abstract Begin.
LEMMA StartPublishRefines == Checked /\ IInv /\ IInv' /\ StartPublish => Refines
<1> SUFFICES ASSUME Checked, IInv, IInv', StartPublish PROVE Abs!Begin
  BY DEF Refines, Abs!AbsNext
<1>1. PICK F \in Plans, v \in Values : plan' = F /\ value' = v
  BY DEF StartPublish
<1>2. F \in (SUBSET Entries) \ {{}}
  BY PlansAssumption
<1>3. Request = Abs!NoRequest
  BY DEF Request, Abs!NoRequest, StartPublish, IInv, TypeOK
<1>4. Request' = [files |-> F, value |-> v, done |-> FALSE]
  BY <1>1 DEF Request, Renamed, StartPublish
<1>5. Recovered' = Recovered
  BY DEF Recovered, Undone, StartPublish, disk, Published, Staged
<1>6. QED
  BY <1>1, <1>2, <1>3, <1>4, <1>5 DEF Abs!Begin

\* Before the last rename, and in the bookkeeping after it, nothing happens.
LEMMA PreparingRefines ==
  Checked /\ IInv /\ IInv' /\
    (OpenTemp \/ WriteTemp \/ StageJournal \/ WriteJournal \/ ClearBackup
       \/ LinkBackup \/ StartRenames) => Refines
<1> SUFFICES ASSUME Checked, IInv, IInv',
                    OpenTemp \/ WriteTemp \/ StageJournal \/ WriteJournal
                      \/ ClearBackup \/ LinkBackup \/ StartRenames
             PROVE  UNCHANGED Abs!absVars
  BY DEF Refines
<1>1. /\ job = "publish" /\ job' = "publish"
      /\ plan' = plan /\ value' = value /\ baseline' = baseline
  BY DEF IInv, PublishState, RecoverState, OpenTemp, WriteTemp, StageJournal,
         WriteJournal, ClearBackup, LinkBackup, StartRenames, TypeOK
<1>2. ~Renamed /\ ~Renamed'
  BY <1>1 DEF Renamed, OpenTemp, WriteTemp, StageJournal, WriteJournal,
         ClearBackup, LinkBackup, StartRenames, IInv, PublishState
<1>3. Recovered = baseline /\ Recovered' = baseline'
  BY <1>1, <1>2, RecoveredWhilePublishing, RecoveredWhilePublishingNext
<1>4. (Renamed = FALSE) /\ (Renamed' = FALSE)
  BY <1>2 DEF Renamed
<1>5. Request' = Request
  BY <1>1, <1>4 DEF Request
<1>6. QED
  BY <1>1, <1>3, <1>5 DEF Abs!absVars

\* The last rename puts the new files in place; the others are stutters.
LEMMA RenameTempRefines == Checked /\ IInv /\ IInv' /\ RenameTemp => Refines
<1> SUFFICES ASSUME Checked, IInv, IInv', RenameTemp PROVE Refines
  OBVIOUS
<1>1. /\ job = "publish" /\ job' = "publish" /\ pc = "rename" /\ pc' = "rename"
      /\ plan' = plan /\ value' = value /\ baseline' = baseline
      /\ plan # {} /\ todo # {}
  BY DEF IInv, PublishState, RecoverState, RenameTemp, TypeOK, First
<1>2. Recovered = baseline /\ ~Renamed
  BY <1>1, RecoveredWhilePublishing DEF Renamed
<1>3. CASE todo' # {}
  <2>1. ~Renamed' /\ Recovered' = baseline'
    BY <1>1, <1>3, RecoveredWhilePublishingNext DEF Renamed
  <2>2. (Renamed = FALSE) /\ (Renamed' = FALSE)
    BY <1>2, <2>1 DEF Renamed
  <2>3. Request' = Request
    BY <1>1, <2>2 DEF Request
  <2>4. QED
    BY <1>1, <1>2, <2>1, <2>3 DEF Abs!absVars, Refines
<1>4. CASE todo' = {}
  <2>1. Renamed' /\ Recovered' = StoreOverlay'
    BY <1>1, <1>4, RecoveredWhilePublishingNext DEF Renamed
  <2>2. Recovered' = Abs!Overlay(Recovered, Request.files, Request.value)
    BY <1>1, <1>2, <2>1 DEF Abs!Overlay, StoreOverlay, Request
  <2>3. /\ Request # Abs!NoRequest /\ ~Request.done
        /\ Request' = [files |-> Request.files, value |-> Request.value,
                       done |-> TRUE]
    <3>1. (Renamed = FALSE) /\ (Renamed' = TRUE)
      BY <1>2, <2>1 DEF Renamed
    <3>2. /\ Request = [files |-> plan, value |-> value, done |-> FALSE]
          /\ Request' = [files |-> plan, value |-> value, done |-> TRUE]
      BY <1>1, <3>1 DEF Request
    <3>3. Request.files # Abs!NoRequest.files
      BY <1>1 DEF Request, Abs!NoRequest
    <3>4. ~Request.done
      BY <3>2
    <3>5. Request' = [files |-> Request.files, value |-> Request.value,
                      done |-> TRUE]
      BY <3>2
    <3>6. QED
      BY <3>3, <3>4, <3>5
  <2>4. Abs!Commit
    BY <2>2, <2>3 DEF Abs!Commit
  <2>5. QED
    BY <2>4 DEF Refines, Abs!AbsNext
<1>5. QED
  BY <1>3, <1>4

\* Dropping backups and the journal after the renames shows nothing.
LEMMA FinishingRefines ==
  Checked /\ IInv /\ IInv' /\ (StartFinalize \/ DropBackup \/ DropJournal)
    => Refines
<1> SUFFICES ASSUME Checked, IInv, IInv',
                    StartFinalize \/ DropBackup \/ DropJournal
             PROVE  Refines
  OBVIOUS
<1>1. target' = target /\ temp' = temp
  BY DEF StartFinalize, DropBackup, DropJournal, disk
<1>2. Recovered = target
  <2>1. CASE job = "publish"
    BY <2>1, RecoveredWhilePublishing
       DEF Renamed, StartFinalize, DropBackup, DropJournal, IInv, PublishState,
           Preparing, Linking
  <2>2. CASE job = "recover"
    <3>1. Neutral \/ AllPublished
      BY <2>2 DEF StartFinalize, DropBackup, DropJournal, IInv, RecoverState,
                  AllPublished
    <3>2. QED
      BY <3>1, RecoveredIsTarget
  <2>3. QED
    BY <2>1, <2>2 DEF IInv, TypeOK, StartFinalize, DropBackup, DropJournal
<1>3. Recovered' = target'
  <2>1. CASE DropJournal
    BY <2>1, RecoveredIsTargetNext DEF DropJournal
  <2>2. CASE StartFinalize
    BY <1>2, <2>2 DEF StartFinalize, disk, Recovered, Undone, Published, Staged
  <2>3. CASE DropBackup
    <3>1. AllPublished'
      BY <2>3 DEF DropBackup, IInv, PublishState, RecoverState, AllPublished,
                  Published, Staged, TypeOK, Preparing
    <3>2. QED
      BY <3>1, RecoveredIsTargetNext
  <2>4. QED
    BY <2>1, <2>2, <2>3
<1>4. CASE StartFinalize \/ DropBackup
  <2>1. Request' = Request
    BY <1>4 DEF StartFinalize, DropBackup, Request, Renamed
  <2>2. QED
    BY <1>1, <1>2, <1>3, <2>1 DEF Refines, Abs!absVars
<1>5. CASE DropJournal /\ job = "publish"
  <2>1. /\ Request # Abs!NoRequest /\ Request.done
        /\ Request' = Abs!NoRequest
    BY <1>5 DEF DropJournal, Return, Request, Renamed, Abs!NoRequest, IInv,
                PublishState, Preparing, Linking
  <2>2. Abs!Succeed
    BY <1>1, <1>2, <1>3, <2>1 DEF Abs!Succeed
  <2>3. QED
    BY <2>2 DEF Refines, Abs!AbsNext
<1>6. CASE DropJournal /\ job # "publish"
  <2>1. Request' = Request
    BY <1>6 DEF DropJournal, Return, Request
  <2>2. QED
    BY <1>1, <1>2, <1>3, <2>1 DEF Refines, Abs!absVars
<1>7. QED
  BY <1>4, <1>5, <1>6

\* Recovery and the removal of temporaries keep what the store shows.
LEMMA CleaningRefines ==
  Checked /\ IInv /\ IInv' /\ (Recover \/ CleanTemp \/ CleanDone) => Refines
<1> SUFFICES ASSUME Checked, IInv, IInv', Recover \/ CleanTemp \/ CleanDone
             PROVE  Refines
  OBVIOUS
<1>1. Request' = Request
  BY DEF Request, Recover, CleanTemp, CleanDone, Return, IInv, TypeOK,
         PublishState, Preparing, Linking
<1>2. Recovered' = Recovered
  <2>1. CASE Recover \/ CleanDone
    BY <2>1 DEF Recover, CleanDone, disk, Recovered, Undone, Published, Staged
  <2>2. CASE CleanTemp
    <3>1. journal = NoJournal /\ journal' = NoJournal /\ target' = target
      BY <2>2 DEF CleanTemp, IInv, TypeOK, PublishState, RecoverState,
                  Preparing, Linking
    <3>2. QED
      BY <3>1 DEF Recovered
  <2>3. QED
    BY <2>1, <2>2
<1>3. QED
  BY <1>1, <1>2 DEF Refines, Abs!absVars

\* Undoing one entry replaces what recover() would do to it by what it did.
LEMMA UndoEntryRefines == Checked /\ IInv /\ IInv' /\ UndoEntry => Refines
<1> SUFFICES ASSUME Checked, IInv, IInv', UndoEntry PROVE Refines
  OBVIOUS
<1>1. /\ job = "recover" /\ job' = "recover"
      /\ journal # NoJournal /\ journal' = journal /\ temp' = temp
      /\ plan = journal.plan /\ had = journal.had
      /\ Neutral \/ (Undoable /\ ~AllPublished)
  BY DEF UndoEntry, IInv, TypeOK, PublishState, RecoverState, Preparing, Linking
<1>2. Request' = Request
  BY <1>1 DEF Request
<1>3. PICK u \in Entries :
        /\ First(u)
        /\ Restore(u) \/ DeleteCreated(u) \/ DiscardBackup(u) \/ LeaveAlone(u)
  BY DEF UndoEntry
<1>4. u \in journal.plan
  BY <1>1, <1>3 DEF IInv, RecoverState, First, UndoEntry
<1>5. \A e \in Entries \ {u} : target'[e] = target[e] /\ backup'[e] = backup[e]
  BY <1>3 DEF Restore, DeleteCreated, DiscardBackup, LeaveAlone, IInv, TypeOK
<1>6. CASE AllPublished
  <2>1. Neutral
    BY <1>1, <1>6
  <2>2. target'[u] = target[u]
    BY <1>3, <1>4, <1>1, <2>1 DEF Restore, DeleteCreated, DiscardBackup,
       LeaveAlone, Neutral, IInv, TypeOK, Published, Staged
  <2>3. target' = target
    BY <1>5, <2>2 DEF IInv, TypeOK
  <2>4. AllPublished'
    BY <1>1, <1>6 DEF AllPublished, Published, Staged
  <2>5. Recovered' = Recovered
    BY <1>6, <2>3, <2>4, RecoveredIsTarget, RecoveredIsTargetNext
  <2>6. QED
    BY <1>2, <2>5 DEF Refines, Abs!absVars
<1>7. CASE ~AllPublished
  <2>1. Undone(u)' = Undone(u)
    <3>1. CASE Restore(u)
      BY <1>1, <1>4, <3>1, ContentAssumption
         DEF Restore, Undone, Published, Staged, IInv, TypeOK, Whole
    <3>2. CASE DeleteCreated(u)
      BY <1>1, <1>4, <3>2 DEF DeleteCreated, Undone, Published, Staged, IInv, TypeOK
    <3>3. CASE DiscardBackup(u)
      BY <1>1, <1>4, <3>3 DEF DiscardBackup, Undone, Published, Staged, IInv, TypeOK
    <3>4. CASE LeaveAlone(u)
      BY <1>1, <1>4, <3>4 DEF LeaveAlone, Undone, Published, Staged, IInv, TypeOK
    <3>5. QED
      BY <1>3, <3>1, <3>2, <3>3, <3>4
  <2>2. \A e \in Entries \ {u} : Undone(e)' = Undone(e)
    BY <1>1, <1>5 DEF Undone, Published, Staged
  <2>3. Recovered' = Recovered
    BY <1>1, <1>4, <1>5, <1>7, <2>1, <2>2
       DEF Recovered, AllPublished, Published, Staged
  <2>4. QED
    BY <1>2, <2>3 DEF Refines, Abs!absVars
<1>8. QED
  BY <1>6, <1>7

\* Dropping the temp file of an entry that is undone may complete the
\* rollback: what recover() would do next is then nothing.
LEMMA UndoTempRefines == Checked /\ IInv /\ IInv' /\ UndoTemp => Refines
<1> SUFFICES ASSUME Checked, IInv, IInv', UndoTemp PROVE Refines
  OBVIOUS
<1>1. /\ job = "recover" /\ job' = "recover"
      /\ journal # NoJournal /\ journal' = journal
      /\ target' = target /\ backup' = backup
      /\ plan = journal.plan /\ had = journal.had
      /\ Neutral \/ (Undoable /\ ~AllPublished)
  BY DEF UndoTemp, IInv, TypeOK, PublishState, RecoverState, Preparing, Linking
<1>2. Request' = Request
  BY <1>1 DEF Request
<1>3. CASE Neutral
  <2>1. Neutral'
    BY <1>1, <1>3 DEF Neutral
  <2>2. Recovered' = Recovered
    BY <1>1, <1>3, <2>1, RecoveredIsTarget, RecoveredIsTargetNext
  <2>3. QED
    BY <1>2, <2>2 DEF Refines, Abs!absVars
<1>4. CASE Undoable /\ ~AllPublished
  <2>1. PICK u \in todo : /\ First(u)
                          /\ temp' = [temp EXCEPT ![u] = Absent]
    BY DEF UndoTemp, First
  <2>2. u \in journal.plan
    BY <1>1, <2>1 DEF IInv, RecoverState, UndoTemp
  <2>3. IF u \in had THEN backup[u] = Absent ELSE target[u] = Absent
    BY <1>1, <2>1 DEF IInv, RecoverState, UndoTemp, TypeOK
  <2>4. Undone(u) = target[u] /\ Undone(u)' = target[u]
    BY <1>1, <1>4, <2>1, <2>2, <2>3
       DEF Undone, Published, Staged, Undoable, IInv, TypeOK
  <2>5. \A e \in Entries \ {u} : Undone(e)' = Undone(e)
    BY <1>1, <2>1 DEF Undone, Published, Staged, IInv, TypeOK
  <2>6. CASE ~AllPublished'
    BY <1>1, <1>2, <1>4, <2>2, <2>4, <2>5, <2>6
       DEF Recovered, AllPublished, Refines, Abs!absVars
  <2>7. CASE AllPublished'
    <3>1. Staged(u)
      BY <1>1, <1>4, <2>1, <2>7 DEF AllPublished, Published, Staged, IInv, TypeOK
    <3>2. \A e \in todo \ {u} : Staged(e)
      <4> SUFFICES ASSUME NEW e \in todo \ {u}, Published(e) PROVE FALSE
        BY DEF Published
      <4>1. u < e /\ e \in journal.plan
        BY <1>1, <2>1, EntriesAssumption
           DEF First, IInv, RecoverState, UndoTemp, TypeOK
      <4>2. Published(u)
        BY <1>4, <2>2, <4>1 DEF Undoable
      <4>3. QED
        BY <3>1, <4>2 DEF Published
    <3>3. todo \ {u} = {}
      BY <1>1, <2>1, <2>7, <3>2
         DEF AllPublished, Published, Staged, IInv, RecoverState, UndoTemp, TypeOK
    <3>4. \A e \in journal.plan \ {u} :
            /\ Published(e)
            /\ IF e \in had THEN backup[e] = Absent ELSE target[e] = Absent
      BY <1>1, <3>3 DEF IInv, RecoverState, UndoTemp
    <3>5. \A e \in journal.plan \ {u} : Undone(e) = target[e]
      BY <1>1, <3>4 DEF Undone
    <3>6. Recovered = [e \in Entries |-> target[e]]
      BY <1>1, <1>4, <2>4, <3>5 DEF Recovered, AllPublished
    <3>7. Recovered' = target'
      BY <2>7, RecoveredIsTargetNext
    <3>8. QED
      BY <1>1, <1>2, <3>6, <3>7 DEF Refines, Abs!absVars, IInv, TypeOK
  <2>8. QED
    BY <2>6, <2>7
<1>5. QED
  BY <1>1, <1>3, <1>4

\* A fault or a crash keeps the contents and abandons the request.
LEMMA FailureRefines ==
  Checked /\ IInv /\ IInv' /\ (Fault \/ Impossible \/ Crash) => Refines
<1> SUFFICES ASSUME Checked, IInv, IInv', Fault \/ Impossible \/ Crash
             PROVE  Refines
  OBVIOUS
<1>1. UNCHANGED disk /\ job' = "none"
  BY DEF Fault, Impossible, Fail, Crash, Return
<1>2. Recovered' = Recovered
  BY <1>1 DEF disk, Recovered, Undone, Published, Staged
<1>3. Request' = Abs!NoRequest
  BY <1>1 DEF Request, Abs!NoRequest
<1>4. CASE job = "publish"
  <2>1. Request # Abs!NoRequest
    <3>1. Request.files # Abs!NoRequest.files
      BY <1>4 DEF Request, Abs!NoRequest, IInv, PublishState
    <3>2. QED
      BY <3>1
  <2>2. Abs!Abandon
    BY <1>2, <1>3, <2>1 DEF Abs!Abandon
  <2>3. QED
    BY <2>2 DEF Refines, Abs!AbsNext
<1>5. CASE job # "publish"
  BY <1>1, <1>2, <1>5 DEF Request, Refines, Abs!absVars
<1>6. QED
  BY <1>4, <1>5

\* A stutter of the transaction is one of the store.
LEMMA StutterRefines == UNCHANGED vars => Refines
BY DEF vars, disk, local, Refines, Abs!absVars, Recovered, Undone, Published,
       Staged, Request, Renamed

\* The transaction starts where the abstract store starts.
LEMMA InitRefines == Init => Abs!AbsInit
BY DEF Init, Abs!AbsInit, Abs!NoRequest, Recovered, Request, NoJournal

\* For every caller that reopens after a failure or compares with the pair its
\* session saw, and unless write(2) is cut short, publish() and recover() are
\* an atomic replacement of the pair, wherever crashes and faults strike.
THEOREM PublicationIsAtomic == Checked => (Spec => Atomicity)
<1> SUFFICES ASSUME Checked PROVE Spec => Atomicity
  OBVIOUS
<1>1. Init => Abs!AbsInit
  BY InitRefines
<1>2. IInv /\ IInv' /\ [Next]_vars => [Abs!AbsNext]_(Abs!absVars)
  BY StartPublishRefines, PreparingRefines, RenameTempRefines,
     FinishingRefines, CleaningRefines, UndoEntryRefines, UndoTempRefines,
     FailureRefines, StutterRefines
     DEF Next, Publishing, Finishing, Recovering, Refines
<1>3. Spec => []IInv
  BY InvCorrect
<1>4. QED
  BY <1>1, <1>2, <1>3, PTL DEF Spec, Atomicity, Abs!AbsSpec

\* publish() reports success only once every target holds what it was given.
THEOREM DeliveryCorrect == Checked => (Spec => []PublishDelivers)
<1> SUFFICES ASSUME Checked PROVE Spec => []PublishDelivers
  OBVIOUS
<1>1. IInv => PublishDelivers
  BY DEF IInv, PublishState, PublishDelivers, Renamed, Preparing, Linking
<1>2. Spec => []IInv
  BY InvCorrect
<1>3. QED
  BY <1>1, <1>2, PTL

=============================================================================
