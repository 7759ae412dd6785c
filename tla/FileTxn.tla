------------------------------ MODULE FileTxn ------------------------------
(***************************************************************************)
(* tree_engine.storage.file_txn: one caller's publications of a document's *)
(* source file and tree file, and the recovery of what an interrupted one  *)
(* left behind.                                                            *)
(*                                                                         *)
(* Every system call that changes the directory is an action, so a crash   *)
(* (the process dies) or a fault (the call raises StorageIOError) can      *)
(* strike between any two of them.  A loop of the code over its plan is a  *)
(* program counter that stays put while `todo' shrinks, lowest entry first.*)
(***************************************************************************)
EXTENDS Integers, FiniteSets

CONSTANTS
  Entries,      \* positions in the list of FileWrites: source, then tree file
  Values,       \* byte strings a caller may publish
  Absent,       \* no such file
  Torn,         \* a file that was created but not (completely) written
  Plans,        \* the sets of entries callers publish together
  Caller,       \* what a caller does before it publishes, see MayPublish
  CrashPhases,  \* the jobs a crash may interrupt
  FaultPhases,  \* the jobs an I/O error may interrupt
  ShortWrites   \* whether write(2) may accept fewer bytes than it was given

Jobs    == {"publish", "recover"}
Callers == {"reopen", "guarded", "unchecked"}

ASSUME EntriesAssumption == Entries \subseteq Int
ASSUME ContentAssumption == /\ Absent \notin Values
                            /\ Torn \notin Values
                            /\ Absent # Torn
ASSUME PlansAssumption   == Plans \subseteq (SUBSET Entries) \ {{}}
ASSUME CallerAssumption  == Caller \in Callers
ASSUME PhaseAssumption   == /\ CrashPhases \subseteq Jobs
                            /\ FaultPhases \subseteq Jobs
                            /\ ShortWrites \in BOOLEAN

VARIABLES
  target,      \* entry -> content of T
  temp,        \* entry -> content of T.tmp
  backup,      \* entry -> content of T.bak
  journal,     \* the manifest on disk, or NoJournal
  journalTmp,  \* whether the manifest's own .tmp exists
  job,         \* the call under way: "publish", "recover" or "none"
  pc,          \* where it stands; "down" when no process runs
  todo,        \* entries its current loop has still to visit
  plan, had,   \* its plan: the entries, and those whose target pre-existed
  value,       \* the bytes a publication writes
  baseline     \* the pair as the caller's EditSession last saw it, or NoSession

disk  == <<target, temp, backup, journal, journalTmp>>
local == <<job, pc, todo, plan, had, value>>
vars  == <<disk, local, baseline>>

Content   == Values \cup {Absent, Torn}
NoSession == [e \in Entries |-> Torn]

(* `val' is no field of the manifest: it remembers, for the properties, the *)
(* bytes whose publication the manifest announces.                         *)
NoJournal == [plan |-> {}, had |-> {}, val |-> Absent]
Manifests == [plan : SUBSET Entries, had : SUBSET Entries,
              val : Values \cup {Absent}]

Loops  == {"stage", "backup", "rename", "finalize", "clean", "undo"}
InLoop == {"write", "link", "undo_temp"}
PCs    == Loops \cup InLoop \cup {"journal", "idle", "down"}

TypeOK ==
  /\ target \in [Entries -> Content]
  /\ temp \in [Entries -> Content]
  /\ backup \in [Entries -> Content]
  /\ journal \in Manifests
  /\ journalTmp \in BOOLEAN
  /\ job \in Jobs \cup {"none"}
  /\ pc \in PCs
  /\ todo \in SUBSET Entries
  /\ plan \in SUBSET Entries
  /\ had \in SUBSET Entries
  /\ value \in Values \cup {Absent}
  /\ baseline \in [Entries -> Content]
  /\ had \subseteq plan /\ journal.had \subseteq journal.plan
  /\ (job = "none") <=> (pc \in {"idle", "down"})

Init ==
  /\ target \in [Entries -> Values \cup {Absent}]
  /\ temp = [e \in Entries |-> Absent]
  /\ backup = [e \in Entries |-> Absent]
  /\ journal = NoJournal
  /\ journalTmp = FALSE
  /\ job = "none" /\ pc = "down"
  /\ todo = {} /\ plan = {} /\ had = {} /\ value = Absent
  /\ baseline = NoSession

-----------------------------------------------------------------------------
(* Helpers.                                                                *)

Existing(F) == {e \in F : target[e] # Absent}

\* The loops visit the plan in list order.
First(e) == e \in todo /\ \A f \in todo : e <= f

\* "is T.tmp gone?" is how recovery tells that an entry was published.
Staged(e)    == temp[e] # Absent
Published(e) == ~Staged(e)

\* The call is over and the program runs on.
Return == /\ job' = "none" /\ pc' = "idle"
          /\ todo' = {} /\ plan' = {} /\ had' = {} /\ value' = Absent

\* Variant: no comparison with the session's baseline.
MayPublishUnchecked == TRUE

\* StorageLifecycle.save publishes only over the bytes its session saw last,
\* a caller that reopens after every failure publishes only after a recovery,
\* and StorageLifecycle.publish_pair publishes over whatever is there.
MayPublish ==
  CASE Caller = "unchecked" -> TRUE
    [] Caller = "guarded"   -> baseline # NoSession /\ target = baseline
    [] Caller = "reopen"    -> baseline # NoSession

-----------------------------------------------------------------------------
(* publish()                                                               *)

\* Variant: had_target recorded for files outside the plan too.
StartPublishHadAll ==
  /\ pc = "idle"
  /\ MayPublish
  /\ \E F \in Plans, v \in Values :
       /\ plan' = F /\ todo' = F /\ had' = Existing(Entries) /\ value' = v
  /\ job' = "publish" /\ pc' = "stage"
  /\ UNCHANGED <<disk, baseline>>

\* _build_plan: which targets exist is read once, before anything is staged.
StartPublish ==
  /\ pc = "idle"
  /\ MayPublish
  /\ \E F \in Plans, v \in Values :
       /\ plan' = F /\ todo' = F /\ had' = Existing(F) /\ value' = v
  /\ job' = "publish" /\ pc' = "stage"
  /\ UNCHANGED <<disk, baseline>>

\* _stage_temp: open(O_CREAT | O_TRUNC) ...
OpenTemp ==
  /\ pc = "stage"
  /\ \E e \in Entries : First(e) /\ temp' = [temp EXCEPT ![e] = Torn]
  /\ pc' = "write"
  /\ UNCHANGED <<target, backup, journal, journalTmp, job, todo, plan, had,
                 value, baseline>>

\* ... and one write() to the open file, which need not have its name any more;
\* the code ignores the count of bytes that write() accepted.
WriteTemp ==
  /\ pc = "write"
  /\ \E e \in Entries :
       /\ First(e)
       /\ \/ Staged(e) /\ temp' = [temp EXCEPT ![e] = value]
          \/ (ShortWrites \/ ~Staged(e)) /\ UNCHANGED temp
       /\ todo' = todo \ {e}
  /\ pc' = "stage"
  /\ UNCHANGED <<target, backup, journal, journalTmp, job, plan, had, value,
                 baseline>>

\* Variant: the journal is written before every file is staged.
StageJournalEarly ==
  /\ pc = "stage"
  /\ journalTmp' = TRUE
  /\ pc' = "journal"
  /\ UNCHANGED <<target, temp, backup, journal, job, todo, plan, had, value,
                 baseline>>

\* _write_journal stages the manifest beside its place ...
StageJournal ==
  /\ pc = "stage" /\ todo = {}
  /\ journalTmp' = TRUE
  /\ pc' = "journal"
  /\ UNCHANGED <<target, temp, backup, journal, job, todo, plan, had, value,
                 baseline>>

\* ... and renames it over whatever journal is there.
WriteJournal ==
  /\ pc = "journal"
  /\ journal' = [plan |-> plan, had |-> had, val |-> value]
  /\ journalTmp' = FALSE
  /\ pc' = "backup" /\ todo' = had
  /\ UNCHANGED <<target, temp, backup, job, plan, had, value, baseline>>

ClearBackup ==
  /\ pc = "backup"
  /\ \E e \in Entries : First(e) /\ backup' = [backup EXCEPT ![e] = Absent]
  /\ pc' = "link"
  /\ UNCHANGED <<target, temp, journal, journalTmp, job, todo, plan, had,
                 value, baseline>>

\* The hard link keeps the bytes T has now, whatever T names later.
LinkBackup ==
  /\ pc = "link"
  /\ \E e \in Entries :
       /\ First(e)
       /\ target[e] # Absent /\ backup[e] = Absent
       /\ backup' = [backup EXCEPT ![e] = target[e]]
       /\ todo' = todo \ {e}
  /\ pc' = "backup"
  /\ UNCHANGED <<target, temp, journal, journalTmp, job, plan, had, value,
                 baseline>>

\* Variant: renames begin before every backup is linked.
StartRenamesEarly ==
  /\ pc = "backup"
  /\ pc' = "rename" /\ todo' = plan
  /\ UNCHANGED <<disk, job, plan, had, value, baseline>>

\* Variant: only files that pre-existed are renamed into place.
StartRenamesOfHad ==
  /\ pc = "backup" /\ todo = {}
  /\ pc' = "rename" /\ todo' = had
  /\ UNCHANGED <<disk, job, plan, had, value, baseline>>

StartRenames ==
  /\ pc = "backup" /\ todo = {}
  /\ pc' = "rename" /\ todo' = plan
  /\ UNCHANGED <<disk, job, plan, had, value, baseline>>

RenameTemp ==
  /\ pc = "rename"
  /\ \E e \in Entries :
       /\ First(e)
       /\ Staged(e)
       /\ target' = [target EXCEPT ![e] = temp[e]]
       /\ temp' = [temp EXCEPT ![e] = Absent]
       /\ todo' = todo \ {e}
  /\ UNCHANGED <<backup, journal, journalTmp, job, pc, plan, had, value,
                 baseline>>

StartFinalize ==
  /\ pc = "rename" /\ todo = {}
  /\ pc' = "finalize" /\ todo' = had
  /\ UNCHANGED <<disk, job, plan, had, value, baseline>>

\* _finalize, which a roll-forward runs too.
DropBackup ==
  /\ pc = "finalize"
  /\ \E e \in Entries :
       /\ First(e)
       /\ backup' = [backup EXCEPT ![e] = Absent]
       /\ todo' = todo \ {e}
  /\ UNCHANGED <<target, temp, journal, journalTmp, job, pc, plan, had, value,
                 baseline>>

\* EditSession.accept_publication advances the baseline only when the files
\* read back as what was published; _open records whatever it finds.
Accepted == job = "recover" \/ \A e \in plan : target[e] = value

\* Variant: a recovery leaves the journal for the next one.
DropJournalOfPublish ==
  /\ pc \in {"finalize", "undo"} /\ todo = {}
  /\ journal' = IF job = "recover" THEN journal ELSE NoJournal
  /\ Return
  /\ baseline' = IF Accepted THEN target ELSE baseline
  /\ UNCHANGED <<target, temp, backup, journalTmp>>

\* The journal goes last, at the end of _finalize and of _rollback.
DropJournal ==
  /\ pc \in {"finalize", "undo"} /\ todo = {}
  /\ journal' = NoJournal
  /\ Return
  /\ baseline' = IF Accepted THEN target ELSE baseline
  /\ UNCHANGED <<target, temp, backup, journalTmp>>

-----------------------------------------------------------------------------
(* recover(), run by StorageLifecycle._open before it reads the pair.      *)

\* Variant: stray temp files are left where they are.
RecoverNothingAtAll ==
  /\ journal = NoJournal
  /\ pc' = "clean" /\ todo' = {}
  /\ UNCHANGED <<plan, had>>

\* No journal: the only leftovers are temp files of an attempt that died early.
RecoverNothing ==
  /\ journal = NoJournal
  /\ pc' = "clean" /\ todo' = Entries
  /\ UNCHANGED <<plan, had>>

\* Variant: one published entry is taken for all of them.
RecoverForwardIfAny ==
  /\ journal # NoJournal
  /\ \E e \in journal.plan : Published(e)
  /\ plan' = journal.plan /\ had' = journal.had
  /\ pc' = "finalize" /\ todo' = journal.had

RecoverForward ==
  /\ journal # NoJournal
  /\ \A e \in journal.plan : Published(e)
  /\ plan' = journal.plan /\ had' = journal.had
  /\ pc' = "finalize" /\ todo' = journal.had

RecoverBackward ==
  /\ journal # NoJournal
  /\ \E e \in journal.plan : ~Published(e)
  /\ plan' = journal.plan /\ had' = journal.had
  /\ pc' = "undo" /\ todo' = journal.plan

Recover ==
  /\ pc \in {"idle", "down"}
  /\ RecoverNothing \/ RecoverForward \/ RecoverBackward
  /\ job' = "recover"
  /\ baseline' = NoSession
  /\ UNCHANGED <<disk, value>>

CleanTemp ==
  /\ pc = "clean"
  /\ \E e \in Entries :
       /\ First(e)
       /\ temp' = [temp EXCEPT ![e] = Absent]
       /\ todo' = todo \ {e}
  /\ UNCHANGED <<target, backup, journal, journalTmp, job, pc, plan, had,
                 value, baseline>>

CleanDone ==
  /\ pc = "clean" /\ todo = {}
  /\ Return
  /\ baseline' = target
  /\ UNCHANGED disk

\* _rollback of one entry, first half: the four outcomes of its tests.
Restore(e) ==
  /\ e \in had /\ backup[e] # Absent
  /\ Published(e) \/ target[e] = Absent
  /\ target' = [target EXCEPT ![e] = backup[e]]
  /\ backup' = [backup EXCEPT ![e] = Absent]

DeleteCreated(e) ==
  /\ e \notin had /\ Published(e)
  /\ target' = [target EXCEPT ![e] = Absent]
  /\ UNCHANGED backup

DiscardBackup(e) ==
  /\ e \in had /\ ~Published(e)
  /\ backup[e] = Absent \/ target[e] # Absent
  /\ backup' = [backup EXCEPT ![e] = Absent]
  /\ UNCHANGED target

LeaveAlone(e) ==
  /\ e \notin had /\ ~Published(e)
  /\ UNCHANGED <<target, backup>>

UndoEntry ==
  /\ pc = "undo"
  /\ \E e \in Entries :
       /\ First(e)
       /\ Restore(e) \/ DeleteCreated(e) \/ DiscardBackup(e) \/ LeaveAlone(e)
  /\ pc' = "undo_temp"
  /\ UNCHANGED <<temp, journal, journalTmp, job, todo, plan, had, value,
                 baseline>>

\* Second half: drop the entry's temp file if there is one.
UndoTemp ==
  /\ pc = "undo_temp"
  /\ \E e \in Entries :
       /\ First(e)
       /\ temp' = [temp EXCEPT ![e] = Absent]
       /\ todo' = todo \ {e}
  /\ pc' = "undo"
  /\ UNCHANGED <<target, backup, journal, journalTmp, job, plan, had, value,
                 baseline>>

-----------------------------------------------------------------------------
(* Failures.                                                               *)

\* A StorageIOError leaves the disk as the failed call found it.  The caller
\* keeps its session after a failed publish, unless it reopens on failure.
Fail ==
  /\ Return
  /\ baseline' = IF job = "recover" \/ Caller = "reopen" THEN NoSession
                                                         ELSE baseline
  /\ UNCHANGED disk

Fault == job \in FaultPhases /\ Fail

\* The calls that cannot succeed in some states: rename of a backup that is
\* not there, link of a target that is gone, rename of a staged file that is.
RestoreImpossible(e) == pc = "undo" /\ e \in had /\ Published(e)
                        /\ backup[e] = Absent
LinkImpossible(e)    == pc = "link" /\ (target[e] = Absent \/ backup[e] # Absent)
RenameImpossible(e)  == pc = "rename" /\ ~Staged(e)

Impossible ==
  /\ \E e \in Entries :
       /\ First(e)
       /\ RestoreImpossible(e) \/ LinkImpossible(e) \/ RenameImpossible(e)
  /\ Fail

\* The process dies: what it held in memory is gone, the directory is not.
Crash ==
  /\ pc # "down"
  /\ job \in CrashPhases \cup {"none"}
  /\ job' = "none" /\ pc' = "down"
  /\ todo' = {} /\ plan' = {} /\ had' = {} /\ value' = Absent
  /\ baseline' = NoSession
  /\ UNCHANGED disk

-----------------------------------------------------------------------------
Publishing == StartPublish \/ OpenTemp \/ WriteTemp \/ StageJournal
              \/ WriteJournal \/ ClearBackup \/ LinkBackup \/ StartRenames
              \/ RenameTemp \/ StartFinalize

Finishing  == DropBackup \/ DropJournal

Recovering == Recover \/ CleanTemp \/ CleanDone \/ UndoEntry \/ UndoTemp

Next == Publishing \/ Finishing \/ Recovering \/ Fault \/ Impossible \/ Crash

Spec == Init /\ [][Next]_vars

-----------------------------------------------------------------------------
(* What the directory is worth: the content recover() would leave in the   *)
(* targets if it ran now.                                                  *)

Undone(e) ==
  CASE Published(e) /\ e \in journal.had ->
         IF backup[e] # Absent THEN backup[e] ELSE target[e]
    [] Published(e) /\ e \notin journal.had -> Absent
    [] ~Published(e) ->
         IF e \in journal.had /\ target[e] = Absent THEN backup[e] ELSE target[e]

Recovered ==
  IF journal = NoJournal \/ \A e \in journal.plan : Published(e)
  THEN target
  ELSE [e \in Entries |-> IF e \in journal.plan THEN Undone(e) ELSE target[e]]

Renamed == pc = "finalize" \/ (pc = "rename" /\ todo = {})

Request ==
  IF job = "publish" THEN [files |-> plan, value |-> value, done |-> Renamed]
                     ELSE [files |-> {}, value |-> Absent, done |-> FALSE]

Abs == INSTANCE AtomicStore WITH store <- Recovered, request <- Request

\* Every publication of a set of files takes effect at one instant, the last
\* rename, whatever crashes and faults interrupt it or the recoveries after
\* it: the directory, read through recover(), implements the atomic store.
Atomicity == Abs!AbsSpec

\* A rollback finds every backup it has to rename back (_rollback's
\* rollback_restore), so recover() does not raise StorageIOError over a
\* directory that publish() or an earlier recover() left.
RecoverySucceeds ==
  pc = "undo" => \A e \in Entries : First(e) => ~RestoreImpossible(e)

\* recover() takes the roll-forward branch, and reports "rolled_forward",
\* only over a transaction whose every target holds the published bytes.
RollForwardIsComplete ==
  job = "recover" /\ pc = "finalize" =>
    \A e \in journal.plan : target[e] = journal.val

\* When publish() returns, every entry's target holds the bytes it was given.
PublishDelivers ==
  job = "publish" /\ Renamed => \A e \in plan : target[e] = value
=============================================================================
