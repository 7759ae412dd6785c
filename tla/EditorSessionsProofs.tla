----------------------- MODULE EditorSessionsProofs -----------------------
(***************************************************************************)
(* Proofs about EditorSessions, for any sessions, paths, texts and faults; *)
(* where a theorem excludes the fault "timeout" it says so.                *)
(***************************************************************************)
EXTENDS EditorSessions, TLAPS

\* The steps of one command, of the editor and of the CA server's other users.
BeginsCommand ==
  \E s \in Sessions, p \in Paths :
    \/ \E as \in {"open", "create"} : OpenGuard(s, p, as)
    \/ Write(s, p)
    \/ \E writeFirst \in BOOLEAN : Close(s, p, writeFirst)
Edits      == \E s \in Sessions, p \in Paths, text \in Texts : Edit(s, p, text)
OpenCalls  == OpenLock \/ OpenFallback
Outsiders  ==
  \E p \in Paths : \/ OutsiderLocks(p) \/ OutsiderUnlocks(p)
                   \/ \E text \in Texts : OutsiderSaves(p, text)

\* The steps of Next, grouped.
LEMMA NextSplits ==
  Next <=> \/ BeginsCommand \/ Edits
           \/ OpenLookup \/ OpenCalls \/ OpenDownload \/ OpenRescue \/ OpenCreate
           \/ Affirm \/ Relock \/ Upload \/ Create \/ Confirm
           \/ CloseUnlock \/ EditorRestart
           \/ (\E s \in Sessions : MeetZombie(s))
           \/ (\E s \in Sessions : SessionDelete(s))
           \/ Outsiders
  BY Zenon DEF Next, BeginsCommand, Edits, OpenCalls, Outsiders

-----------------------------------------------------------------------------
(* Types.                                                                  *)

\* What is known of the command under way: an open has found its path free, a
\* commit or a close has an open draft, and a commit may write it.
Opening    == {"lock", "download", "fallback", "rescue", "build"}
Committing == {"affirm", "relock", "upload", "create", "confirm"}
CommandFits ==
  /\ cmd.at \in Opening => index[cmd.path] = Nobody
  /\ cmd.at \in Committing \cup {"unlock"} => IsOpen(cmd.session, cmd.path)
  /\ cmd.at \in Committing => ~drafts[cmd.session][cmd.path].readOnly
  /\ cmd.at \in {"affirm", "relock", "upload"} => drafts[cmd.session][cmd.path].persisted
  /\ cmd.at = "affirm" => drafts[cmd.session][cmd.path].text = drafts[cmd.session][cmd.path].origin
  /\ cmd.at = "unlock" => ~drafts[cmd.session][cmd.path].modified

\* Nobody edits a draft that was opened for reading.
ReadOnlyClean ==
  \A s \in Sessions, p \in Paths :
    IsOpen(s, p) /\ drafts[s][p].readOnly => ~drafts[s][p].modified

\* A command under way names a session and a path.
LEMMA CommandParts ==
  ASSUME TypeOK, cmd.at # "idle"
  PROVE  cmd \in Commands /\ cmd.session \in Sessions /\ cmd.path \in Paths
  BY DEF TypeOK, Idle, Commands

\* The next call of a command is a command.
LEMMA GoTyped ==
  ASSUME TypeOK, cmd.at # "idle",
         NEW call \in {"lookup", "lock", "download", "fallback", "rescue", "build",
                       "affirm", "relock", "upload", "create", "confirm", "unlock"},
         Go(call)
  PROVE  cmd' \in Commands
  BY CommandParts DEF Go, Commands

\* Releasing drafts leaves the registries of their types.
LEMMA ReleaseTyped ==
  ASSUME TypeOK, NEW closed, Release(closed)
  PROVE  /\ drafts' \in [Sessions -> [Paths -> Draft \cup {Closed}]]
         /\ index' \in [Paths -> Sessions \cup {Nobody}]
         /\ overtaken' \subseteq Sessions \X Paths
         /\ inDoubt' \subseteq Sessions \X Paths
  BY DEF TypeOK, Release

\* So does a new draft.
LEMMA CreateDraftTyped ==
  ASSUME TypeOK, NEW s \in Sessions, NEW p \in Paths, NEW text \in Texts,
         NEW persisted \in BOOLEAN, NEW readOnly \in BOOLEAN,
         CreateDraft(s, p, text, persisted, readOnly)
  PROVE  /\ drafts' \in [Sessions -> [Paths -> Draft \cup {Closed}]]
         /\ index' \in [Paths -> Sessions \cup {Nobody}]
         /\ gone' \subseteq Sessions \X Paths
  <1> DEFINE d == [text |-> text, origin |-> text, modified |-> FALSE,
                   persisted |-> persisted, readOnly |-> readOnly]
  <1>1. d \in Draft
    BY DEF Draft
  <1>2. drafts' = [drafts EXCEPT ![s][p] = d]
    BY DEF CreateDraft
  <1> HIDE DEF d
  <1>3. drafts' \in [Sessions -> [Paths -> Draft \cup {Closed}]]
    BY <1>1, <1>2 DEF TypeOK
  <1>4. QED
    BY <1>3 DEF TypeOK, CreateDraft

\* The changes the commands make to a draft.
Edited(d, text) == [d EXCEPT !.text = text, !.modified = TRUE]
Clean(d)        == [d EXCEPT !.modified = FALSE]
Recorded(d)     == [d EXCEPT !.origin = d.text, !.modified = FALSE, !.persisted = TRUE]
Persisted(d)    == [d EXCEPT !.persisted = TRUE]

\* An edit changes the text and sets modified, nothing else.
LEMMA EditedDraft ==
  ASSUME NEW d \in Draft, NEW text \in Texts
  PROVE  /\ Edited(d, text) \in Draft
         /\ Edited(d, text).readOnly = d.readOnly /\ Edited(d, text).persisted = d.persisted
         /\ Edited(d, text).modified /\ Edited(d, text).origin = d.origin
  BY DEF Draft, Edited

\* What the other changes do to a draft, field by field.
LEMMA DraftChanges ==
  ASSUME NEW d \in Draft
  PROVE  /\ Clean(d) \in Draft /\ Recorded(d) \in Draft /\ Persisted(d) \in Draft
         /\ Clean(d).readOnly = d.readOnly /\ Clean(d).persisted = d.persisted
         /\ ~Clean(d).modified /\ Clean(d).text = d.text /\ Clean(d).origin = d.origin
         /\ Recorded(d).readOnly = d.readOnly /\ Recorded(d).persisted
         /\ ~Recorded(d).modified /\ Recorded(d).text = d.text /\ Recorded(d).origin = d.text
         /\ Persisted(d).readOnly = d.readOnly /\ Persisted(d).persisted
         /\ Persisted(d).modified = d.modified
         /\ Persisted(d).text = d.text /\ Persisted(d).origin = d.origin
  BY DEF Draft, Clean, Recorded, Persisted

\* One draft is replaced.
Puts(s, p, d) == drafts' = [drafts EXCEPT ![s][p] = d]

\* Replacing a draft changes no other one.
LEMMA PutTyped ==
  ASSUME TypeOK, NEW s \in Sessions, NEW p \in Paths, NEW d \in Draft, Puts(s, p, d)
  PROVE  /\ drafts' \in [Sessions -> [Paths -> Draft \cup {Closed}]]
         /\ \A t \in Sessions, q \in Paths :
              drafts'[t][q] = IF t = s /\ q = p THEN d ELSE drafts[t][q]
         /\ d # Closed
  BY ClosedAssumption DEF TypeOK, Puts

\* A lock or an unlock call changes nothing but owner.
LEMMA CallsTyped ==
  ASSUME TypeOK, NEW s \in Sessions, NEW p \in Paths
  PROVE  /\ Locks(s, p) \/ LockFails(s, p) \/ UnlockAnswers(s, p) \/ UnlockRaises(s, p) \/ Fails
              => /\ content' = content /\ alive' = alive
                 /\ owner' \in [Paths -> Sessions \cup {Nobody, Outsider}]
  BY DEF TypeOK, Locks, LockFails, UnlockAnswers, UnlockRaises, Unlocks, Fails, ca

\* Only drafts of the registry are overtaken.
LEMMA OvertakesTyped ==
  ASSUME TypeOK, NEW who, NEW p \in Paths, Overtakes(who, p)
  PROVE  overtaken' \subseteq Sessions \X Paths
  BY DEF TypeOK, Overtakes

\* An open draft is a draft.
LEMMA OpenDraftTyped ==
  ASSUME TypeOK, NEW s \in Sessions, NEW p \in Paths, IsOpen(s, p)
  PROVE  drafts[s][p] \in Draft
  BY DEF TypeOK, IsOpen

\* What the steps that change a draft do to it.
LEMMA EditPuts ==
  ASSUME NEW s, NEW p, NEW text, Edit(s, p, text)
  PROVE  Puts(s, p, Edited(drafts[s][p], text))
  BY DEF Edit, Puts, Edited

\* A close leaves the drafts, or clears modified of an undone one.
LEMMA ClosePuts ==
  ASSUME NEW s, NEW p, NEW writeFirst, Close(s, p, writeFirst)
  PROVE  \/ UNCHANGED drafts
         \/ /\ Puts(s, p, Clean(drafts[s][p]))
            /\ drafts[s][p].text = drafts[s][p].origin
  BY DEF Close, Puts, Clean

\* A commit of an unchanged draft clears modified at most.
LEMMA AffirmPuts ==
  ASSUME Affirm
  PROVE  UNCHANGED drafts \/ Puts(cmd.session, cmd.path, Clean(drafts[cmd.session][cmd.path]))
  BY DEF Affirm, Puts, Clean

\* A recorded commit moves the origin, or only says persisted when it cannot.
LEMMA RecordPuts ==
  ASSUME RecordCommit
  PROVE  \/ Puts(cmd.session, cmd.path, Recorded(drafts[cmd.session][cmd.path])) /\ Proceed
            /\ inDoubt' = inDoubt \ {<<cmd.session, cmd.path>>}
         \/ Puts(cmd.session, cmd.path, Persisted(drafts[cmd.session][cmd.path])) /\ Finish
            /\ inDoubt' = inDoubt \cup {<<cmd.session, cmd.path>>}
  BY DEF RecordCommit, Puts, Recorded, Persisted

\* Nothing is open and no command under way at first.
LEMMA InitTyped == Init => TypeOK /\ CommandFits /\ ReadOnlyClean /\ IndexMatchesDrafts
  BY NamesAssumption
     DEF Init, TypeOK, CommandFits, ReadOnlyClean, IndexMatchesDrafts, IsOpen, Opening,
         Committing, Idle

\* No step leaves the types.
LEMMA StepTyped == TypeOK /\ CommandFits /\ [Next]_vars => TypeOK'
  <1> SUFFICES ASSUME TypeOK, CommandFits, [Next]_vars
               PROVE  TypeOK'
    OBVIOUS
  <1> DEFINE s == cmd.session
             p == cmd.path
             d == drafts[s][p]
  <1> USE DEF ca, editor, Finish
  <1>0. cmd.at \in Committing \cup {"unlock"}
          => s \in Sessions /\ p \in Paths /\ cmd \in Commands /\ d \in Draft
    BY CommandParts, OpenDraftTyped DEF CommandFits, Committing
  <1>1. CASE BeginsCommand
    <2>1. PICK t \in Sessions, q \in Paths :
            \/ \E as \in {"open", "create"} : OpenGuard(t, q, as)
            \/ Write(t, q)
            \/ \E writeFirst \in BOOLEAN : Close(t, q, writeFirst)
      BY <1>1 DEF BeginsCommand
    <2>2. CASE \E as \in {"open", "create"} : OpenGuard(t, q, as)
      <3>1. PICK as \in {"open", "create"} : OpenGuard(t, q, as)
        BY <2>2
      <3>2. cmd' \in Commands
        BY <3>1 DEF OpenGuard, Commands
      <3>3. QED
        BY <3>1, <3>2 DEF TypeOK, OpenGuard
    <2>3. CASE Write(t, q)
      BY <2>3 DEF TypeOK, Write, BeginCommit, FirstCall, Commands
    <2>4. CASE \E writeFirst \in BOOLEAN : Close(t, q, writeFirst)
      <3>1. PICK writeFirst \in BOOLEAN : Close(t, q, writeFirst)
        BY <2>4
      <3>2. drafts[t][q] \in Draft
        BY <3>1, OpenDraftTyped DEF Close
      <3>3. cmd' = Idle \/ cmd' \in Commands
        BY <3>1 DEF Close, BeginCommit, FirstCall, Commands
      <3>4. drafts' \in [Sessions -> [Paths -> Draft \cup {Closed}]]
        BY <3>1, <3>2, ClosePuts, DraftChanges, PutTyped DEF TypeOK
      <3>5. QED
        BY <3>1, <3>3, <3>4 DEF TypeOK, Close
    <2>5. QED
      BY <2>1, <2>2, <2>3, <2>4
  <1>2. CASE Edits
    <2>1. PICK t \in Sessions, q \in Paths, text \in Texts : Edit(t, q, text)
      BY <1>2 DEF Edits
    <2>2. Edited(drafts[t][q], text) \in Draft
      BY <2>1, OpenDraftTyped, EditedDraft DEF Edit
    <2>3. drafts' \in [Sessions -> [Paths -> Draft \cup {Closed}]]
      BY <2>1, <2>2, EditPuts, PutTyped
    <2>4. QED
      BY <2>1, <2>3 DEF TypeOK, Edit
  <1>3. CASE OpenLookup
    BY <1>3, GoTyped, ReleaseTyped DEF TypeOK, OpenLookup, FreesPath, PurgeStale, Idle
  <1>4. CASE OpenCalls
    BY <1>4, GoTyped, CallsTyped, CommandParts DEF TypeOK, OpenCalls, OpenLock, OpenFallback, Idle
  <1>5. CASE OpenDownload
    BY <1>5, GoTyped, CreateDraftTyped, CommandParts DEF TypeOK, OpenDownload, Idle
  <1>6. CASE OpenRescue
    BY <1>6, CreateDraftTyped, CommandParts DEF TypeOK, OpenRescue, Idle
  <1>7. CASE OpenCreate
    BY <1>7, CreateDraftTyped, CommandParts DEF TypeOK, OpenCreate, Idle
  <1>8. CASE Affirm
    <2>1. drafts' \in [Sessions -> [Paths -> Draft \cup {Closed}]]
      BY <1>0, <1>8, AffirmPuts, DraftChanges, PutTyped DEF TypeOK, Affirm, Committing
    <2>2. cmd' = Idle \/ cmd' \in Commands
      BY <1>8, GoTyped DEF Affirm, Proceed, Idle
    <2>3. content' = content /\ alive' = alive
          /\ owner' \in [Paths -> Sessions \cup {Nobody, Outsider}]
      BY <1>0, <1>8, CallsTyped DEF Affirm, Committing
    <2>4. QED
      BY <1>8, <2>1, <2>2, <2>3 DEF TypeOK, Affirm
  <1>9. CASE Relock
    BY <1>9, GoTyped, CallsTyped, CommandParts DEF TypeOK, Relock, Idle
  <1>10. CASE Upload
    <2>1. drafts' \in [Sessions -> [Paths -> Draft \cup {Closed}]]
      BY <1>0, <1>10, RecordPuts, DraftChanges, PutTyped DEF TypeOK, Upload, Committing
    <2>2. cmd' = Idle \/ cmd' \in Commands
      BY <1>10, GoTyped DEF Upload, RecordCommit, Proceed, Idle
    <2>3. content' \in [Paths -> Texts \cup {Absent}]
      BY <1>0, <1>10 DEF TypeOK, Upload, Committing, Draft
    <2>4. overtaken' \subseteq Sessions \X Paths
      BY <1>0, <1>10, OvertakesTyped DEF TypeOK, Upload, Committing
    <2>5. inDoubt' \subseteq Sessions \X Paths
      BY <1>0, <1>10 DEF TypeOK, Upload, RecordCommit, Committing
    <2>6. QED
      BY <1>10, <2>1, <2>2, <2>3, <2>4, <2>5 DEF TypeOK, Upload
  <1>11. CASE Create
    <2>1. cmd' = Idle \/ cmd' \in Commands
      BY <1>11, GoTyped DEF Create, Idle
    <2>2. content' \in [Paths -> Texts \cup {Absent}]
          /\ owner' \in [Paths -> Sessions \cup {Nobody, Outsider}]
      BY <1>0, <1>11 DEF TypeOK, Create, Committing, Draft
    <2>3. overtaken' \subseteq Sessions \X Paths
      BY <1>0, <1>11, OvertakesTyped DEF TypeOK, Create, Committing
    <2>4. inDoubt' \subseteq Sessions \X Paths
      BY <1>0, <1>11 DEF TypeOK, Create, Committing
    <2>5. QED
      BY <1>11, <2>1, <2>2, <2>3, <2>4 DEF TypeOK, Create
  <1>12. CASE Confirm
    <2>1. drafts' \in [Sessions -> [Paths -> Draft \cup {Closed}]]
      BY <1>0, <1>12, RecordPuts, DraftChanges, PutTyped DEF TypeOK, Confirm, Committing
    <2>2. cmd' = Idle \/ cmd' \in Commands
      BY <1>12, GoTyped DEF Confirm, RecordCommit, Proceed, Idle
    <2>3. content' = content /\ alive' = alive
          /\ owner' \in [Paths -> Sessions \cup {Nobody, Outsider}]
      BY <1>0, <1>12, CallsTyped DEF Confirm, Committing
    <2>4. inDoubt' \subseteq Sessions \X Paths
      BY <1>0, <1>12 DEF TypeOK, Confirm, RecordCommit, Committing
    <2>5. QED
      BY <1>12, <2>1, <2>2, <2>3, <2>4 DEF TypeOK, Confirm
  <1>13. CASE CloseUnlock
    <2>1. /\ drafts' \in [Sessions -> [Paths -> Draft \cup {Closed}]]
          /\ index' \in [Paths -> Sessions \cup {Nobody}]
          /\ overtaken' \subseteq Sessions \X Paths
          /\ inDoubt' \subseteq Sessions \X Paths
      BY <1>13, ReleaseTyped DEF TypeOK, CloseUnlock
    <2>2. content' = content /\ alive' = alive
          /\ owner' \in [Paths -> Sessions \cup {Nobody, Outsider}]
      BY <1>0, <1>13, CallsTyped DEF TypeOK, CloseUnlock
    <2>3. gone' \subseteq Sessions \X Paths
      BY <1>0, <1>13, BeneathAssumption DEF TypeOK, CloseUnlock, SharesDirectory
    <2>4. QED
      BY <1>13, <2>1, <2>2, <2>3 DEF TypeOK, CloseUnlock
  <1>14. CASE EditorRestart
    BY <1>14, ReleaseTyped DEF TypeOK, EditorRestart
  <1>15. CASE \E t \in Sessions : MeetZombie(t)
    BY <1>15, ReleaseTyped DEF TypeOK, MeetZombie, GuardTerminating, CleanupZombie
  <1>16. CASE \E t \in Sessions : SessionDelete(t)
    BY <1>16 DEF TypeOK, SessionDelete
  <1>17. CASE Outsiders
    BY <1>17, OvertakesTyped DEF TypeOK, Outsiders, OutsiderLocks, OutsiderUnlocks, OutsiderSaves
  <1>18. CASE UNCHANGED vars
    BY <1>18 DEF TypeOK, vars
  <1>19. QED
    BY <1>1, <1>2, <1>3, <1>4, <1>5, <1>6, <1>7, <1>8, <1>9, <1>10, <1>11, <1>12, <1>13,
       <1>14, <1>15, <1>16, <1>17, <1>18, NextSplits, Zenon

-----------------------------------------------------------------------------
(* The command under way and the registries.                               *)

\* No step of the editor or of another starts a call its file is not ready for.
LEMMA StepFits == TypeOK /\ CommandFits /\ ReadOnlyClean /\ [Next]_vars => CommandFits'
  <1> SUFFICES ASSUME TypeOK, CommandFits, ReadOnlyClean, [Next]_vars
               PROVE  CommandFits'
    OBVIOUS
  <1> DEFINE s == cmd.session
             p == cmd.path
             d == drafts[s][p]
  <1> USE DEF ca, editor, Finish
  <1>a. cmd' = Idle => CommandFits'
    BY DEF CommandFits, Idle, Opening, Committing
  <1>b. UNCHANGED <<cmd, drafts, index>> => CommandFits'
    BY DEF CommandFits, IsOpen
  <1>0. cmd.at \in Committing \cup {"unlock"}
          => s \in Sessions /\ p \in Paths /\ cmd \in Commands /\ d \in Draft /\ IsOpen(s, p)
    BY CommandParts, OpenDraftTyped DEF CommandFits, Committing
  <1>c. ASSUME NEW call, cmd.at # "idle", Go(call)
        PROVE  cmd'.at = call /\ cmd'.session = s /\ cmd'.path = p
    BY <1>c, CommandParts DEF Go, Commands
  <1>d. ASSUME cmd.at \in Committing, Proceed, NEW e \in Draft, Puts(s, p, e), ~e.modified
        PROVE  CommandFits'
    <2>1. CASE cmd' = Idle
      BY <2>1, <1>a
    <2>2. CASE Go("unlock")
      BY <2>2, <1>0, <1>c, <1>d, PutTyped DEF CommandFits, IsOpen, Opening, Committing
    <2>3. QED
      BY <1>d, <2>1, <2>2 DEF Proceed
  <1>1. CASE BeginsCommand
    <2>1. PICK t \in Sessions, q \in Paths :
            \/ \E as \in {"open", "create"} : OpenGuard(t, q, as)
            \/ Write(t, q)
            \/ \E writeFirst \in BOOLEAN : Close(t, q, writeFirst)
      BY <1>1 DEF BeginsCommand
    <2>2. CASE \E as \in {"open", "create"} : OpenGuard(t, q, as)
      BY <2>2 DEF OpenGuard, CommandFits, Opening, Committing
    <2>3. CASE Write(t, q)
      <3>1. CASE UNCHANGED cmd
        BY <2>3, <3>1, <1>b DEF Write
      <3>2. CASE cmd' = [at |-> FirstCall(drafts[t][q]), session |-> t, path |-> q, as |-> "write"]
        BY <2>3, <3>2 DEF Write, FirstCall, CommandFits, Opening, Committing, IsOpen
      <3>3. QED
        BY <2>3, <3>1, <3>2 DEF Write, BeginCommit
    <2>4. CASE \E writeFirst \in BOOLEAN : Close(t, q, writeFirst)
      <3>1. PICK writeFirst \in BOOLEAN : Close(t, q, writeFirst)
        BY <2>4
      <3>2. drafts[t][q] \in Draft
        BY <3>1, OpenDraftTyped DEF Close
      <3> DEFINE c == drafts[t][q]
                 unlock == [at |-> "unlock", session |-> t, path |-> q, as |-> "close"]
      <3>3. CASE ~c.modified /\ cmd' = unlock /\ UNCHANGED drafts
        BY <3>1, <3>3 DEF Close, CommandFits, Opening, Committing, IsOpen
      <3>4. CASE Puts(t, q, Clean(c)) /\ cmd' = unlock
        BY <3>2, <3>4, PutTyped, DraftChanges DEF CommandFits, Opening, Committing, IsOpen
      <3>5. CASE BeginCommit(t, q, "close") /\ UNCHANGED drafts /\ c.text # c.origin
                 /\ c.modified
        <4>1. CASE UNCHANGED cmd
          BY <3>1, <3>5, <4>1, <1>b DEF Close
        <4>2. CASE cmd' = [at |-> FirstCall(c), session |-> t, path |-> q, as |-> "close"]
          BY <3>1, <3>5, <4>2
             DEF Close, FirstCall, ReadOnlyClean, CommandFits, Opening, Committing, IsOpen
        <4>3. QED
          BY <3>5, <4>1, <4>2 DEF BeginCommit
      <3>6. QED
        BY <3>1, <3>3, <3>4, <3>5 DEF Close, Puts, Clean
    <2>5. QED
      BY <2>1, <2>2, <2>3, <2>4
  <1>2. CASE Edits
    BY <1>2, <1>a DEF Edits, Edit
  <1>3. CASE OpenLookup
    <2>1. CASE FreesPath(p) /\ Go(IF cmd.as = "create" THEN "build" ELSE "lock")
      <3>1. index'[p] = Nobody
        BY <1>3, <2>1, CommandParts DEF OpenLookup, FreesPath, PurgeStale, Release
      <3>2. QED
        BY <1>3, <2>1, <3>1, <1>c DEF OpenLookup, CommandFits, Opening, Committing
    <2>2. QED
      BY <1>3, <2>1, <1>a DEF OpenLookup
  <1>4. CASE OpenCalls
    <2>1. CASE Go("download") \/ Go("fallback") \/ Go("rescue")
      BY <1>4, <2>1, <1>c
         DEF OpenCalls, OpenLock, OpenFallback, CommandFits, Opening, Committing
    <2>2. QED
      BY <1>4, <2>1, <1>a DEF OpenCalls, OpenLock, OpenFallback
  <1>5. CASE OpenDownload
    <2>1. CASE Go("fallback") /\ UNCHANGED editor
      BY <1>5, <2>1, <1>c DEF OpenDownload, CommandFits, Opening, Committing
    <2>2. QED
      BY <1>5, <2>1, <1>a DEF OpenDownload
  <1>6. CASE OpenRescue
    BY <1>6, <1>a DEF OpenRescue
  <1>7. CASE OpenCreate
    BY <1>7, <1>a DEF OpenCreate
  <1>8. CASE Affirm
    <2>1. CASE drafts' = [drafts EXCEPT ![s][p] = [@ EXCEPT !.modified = FALSE]] /\ Proceed
      <3>1. Puts(s, p, Clean(d))
        BY <2>1 DEF Puts, Clean
      <3>2. cmd.at \in Committing /\ Clean(d) \in Draft /\ ~Clean(d).modified
        BY <1>8, <1>0, DraftChanges DEF Affirm, Committing
      <3>3. QED
        BY <2>1, <3>1, <3>2, <1>d
    <2>2. QED
      BY <1>8, <2>1, <1>a DEF Affirm
  <1>9. CASE Relock
    <2>1. CASE Go("upload")
      BY <1>9, <2>1, <1>c DEF Relock, CommandFits, Opening, Committing, IsOpen
    <2>2. QED
      BY <1>9, <2>1, <1>a DEF Relock
  <1>r. ASSUME RecordCommit, cmd.at \in Committing
        PROVE  CommandFits'
    BY <1>r, <1>0, <1>a, <1>d, RecordPuts, DraftChanges
  <1>10. CASE Upload
    BY <1>10, <1>a, <1>r DEF Upload, Committing
  <1>11. CASE Create
    <2>1. CASE Go("confirm")
      BY <1>11, <2>1, <1>c DEF Create, CommandFits, Opening, Committing, IsOpen
    <2>2. QED
      BY <1>11, <2>1, <1>a DEF Create
  <1>12. CASE Confirm
    BY <1>12, <1>a, <1>r DEF Confirm, Committing
  <1>13. CASE CloseUnlock
    BY <1>13, <1>a DEF CloseUnlock
  <1>14. CASE EditorRestart
    BY <1>14, <1>a DEF EditorRestart
  <1>15. CASE \E t \in Sessions : MeetZombie(t)
    BY <1>15, <1>a DEF MeetZombie
  <1>16. CASE \E t \in Sessions : SessionDelete(t)
    BY <1>16, <1>b DEF SessionDelete
  <1>17. CASE Outsiders
    BY <1>17, <1>b DEF Outsiders, OutsiderLocks, OutsiderUnlocks, OutsiderSaves
  <1>18. CASE UNCHANGED vars
    BY <1>18, <1>b DEF vars
  <1>19. QED
    BY <1>1, <1>2, <1>3, <1>4, <1>5, <1>6, <1>7, <1>8, <1>9, <1>10, <1>11, <1>12, <1>13,
       <1>14, <1>15, <1>16, <1>17, <1>18, NextSplits, Zenon

\* What a step may do to the registries: nothing, replace an open draft, open a
\* file that is in no session, or release some drafts.
Replaces ==
  \E s \in Sessions, p \in Paths, d \in Draft :
    /\ IsOpen(s, p) /\ Puts(s, p, d) /\ UNCHANGED index
    /\ d.readOnly = drafts[s][p].readOnly
    /\ d.modified => drafts[s][p].modified \/ ~d.readOnly
    /\ d.modified \/ d.text = d.origin
       \/ (~drafts[s][p].modified /\ d.text = drafts[s][p].text /\ d.origin = drafts[s][p].origin)
Opens ==
  \E s \in Sessions, p \in Paths, text \in Texts, persisted, readOnly \in BOOLEAN :
    index[p] = Nobody /\ CreateDraft(s, p, text, persisted, readOnly)
Releases == \E closed : Release(closed)

\* Every step is one of these.
LEMMA StepOnRegistries ==
  ASSUME TypeOK, CommandFits, [Next]_vars
  PROVE  UNCHANGED <<drafts, index>> \/ Replaces \/ Opens \/ Releases
  <1> DEFINE s == cmd.session
             p == cmd.path
             d == drafts[s][p]
  <1> USE DEF ca, editor
  <1>0. cmd.at \in Committing
          => s \in Sessions /\ p \in Paths /\ d \in Draft /\ IsOpen(s, p)
    BY CommandParts, OpenDraftTyped DEF CommandFits, Committing
  <1>c. cmd.at \in Opening => s \in Sessions /\ p \in Paths /\ index[p] = Nobody
    BY CommandParts DEF CommandFits, Opening
  <1>r. ASSUME RecordCommit, cmd.at \in Committing, UNCHANGED index
        PROVE  Replaces
    <2>1. Recorded(d) \in Draft /\ Persisted(d) \in Draft
          /\ Recorded(d).readOnly = d.readOnly /\ ~Recorded(d).modified
          /\ Recorded(d).text = Recorded(d).origin
          /\ Persisted(d).readOnly = d.readOnly /\ Persisted(d).modified = d.modified
          /\ Persisted(d).text = d.text /\ Persisted(d).origin = d.origin
      BY <1>0, <1>r, DraftChanges
    <2>2. Puts(s, p, Recorded(d)) \/ Puts(s, p, Persisted(d))
      BY <1>r, RecordPuts
    <2>3. QED
      BY <1>0, <1>r, <2>1, <2>2 DEF Replaces
  <1>1. CASE BeginsCommand
    <2>1. PICK t \in Sessions, q \in Paths :
            \/ UNCHANGED <<drafts, index>>
            \/ \E writeFirst \in BOOLEAN : Close(t, q, writeFirst)
      BY <1>1 DEF BeginsCommand, OpenGuard, Write
    <2>2. CASE \E writeFirst \in BOOLEAN : Close(t, q, writeFirst)
      <3>1. PICK writeFirst \in BOOLEAN : Close(t, q, writeFirst)
        BY <2>2
      <3>2. IsOpen(t, q) /\ drafts[t][q] \in Draft /\ UNCHANGED index
        BY <3>1, OpenDraftTyped DEF Close
      <3>3. \/ UNCHANGED drafts
            \/ /\ Puts(t, q, Clean(drafts[t][q]))
               /\ drafts[t][q].text = drafts[t][q].origin
        BY <3>1, ClosePuts
      <3>4. QED
        BY <3>2, <3>3, DraftChanges DEF Replaces
    <2>3. QED
      BY <2>1, <2>2
  <1>2. CASE Edits
    <2>1. PICK t \in Sessions, q \in Paths, text \in Texts : Edit(t, q, text)
      BY <1>2 DEF Edits
    <2>2. /\ IsOpen(t, q) /\ drafts[t][q] \in Draft /\ UNCHANGED index
          /\ ~drafts[t][q].readOnly /\ Puts(t, q, Edited(drafts[t][q], text))
      BY <2>1, OpenDraftTyped, EditPuts DEF Edit
    <2>3. QED
      BY <2>2, EditedDraft DEF Replaces
  <1>3. CASE OpenLookup
    BY <1>3 DEF OpenLookup, FreesPath, PurgeStale, Releases
  <1>4. CASE OpenCalls
    BY <1>4 DEF OpenCalls, OpenLock, OpenFallback
  <1>5. CASE OpenDownload
    BY <1>5, <1>c DEF TypeOK, OpenDownload, Opens, Opening
  <1>6. CASE OpenRescue
    BY <1>6, <1>c DEF TypeOK, OpenRescue, Opens, Opening
  <1>7. CASE OpenCreate
    BY <1>7, <1>c DEF OpenCreate, Opens, Opening
  <1>8. CASE Affirm
    <2>1. IsOpen(s, p) /\ d \in Draft /\ UNCHANGED index
      BY <1>8, <1>0 DEF Affirm, Committing
    <2>2. UNCHANGED drafts \/ Puts(s, p, Clean(d))
      BY <1>8, AffirmPuts
    <2>3. d.text = d.origin /\ d.readOnly = Clean(d).readOnly
      BY <1>8, <2>1, DraftChanges DEF CommandFits, Affirm
    <2>4. QED
      BY <1>8, <1>0, <2>1, <2>2, <2>3, DraftChanges DEF Replaces, Affirm, Committing
  <1>9. CASE Relock
    BY <1>9 DEF Relock
  <1>10. CASE Upload
    BY <1>10, <1>r DEF Upload, Committing
  <1>11. CASE Create
    BY <1>11 DEF Create
  <1>12. CASE Confirm
    BY <1>12, <1>r DEF Confirm, Committing
  <1>13. CASE CloseUnlock
    BY <1>13 DEF CloseUnlock, Releases
  <1>14. CASE EditorRestart
    BY <1>14 DEF EditorRestart, Releases
  <1>15. CASE \E t \in Sessions : MeetZombie(t)
    BY <1>15 DEF MeetZombie, GuardTerminating, CleanupZombie, Releases
  <1>16. CASE \E t \in Sessions : SessionDelete(t)
    BY <1>16 DEF SessionDelete
  <1>17. CASE Outsiders
    BY <1>17 DEF Outsiders, OutsiderLocks, OutsiderUnlocks, OutsiderSaves
  <1>18. CASE UNCHANGED vars
    BY <1>18 DEF vars
  <1>19. QED
    BY <1>1, <1>2, <1>3, <1>4, <1>5, <1>6, <1>7, <1>8, <1>9, <1>10, <1>11, <1>12, <1>13,
       <1>14, <1>15, <1>16, <1>17, <1>18, NextSplits, Zenon

\* None of these lets the registries disagree, or modifies a read-only draft.
LEMMA StepAgrees ==
  TypeOK /\ CommandFits /\ ReadOnlyClean /\ IndexMatchesDrafts /\ [Next]_vars
    => ReadOnlyClean' /\ IndexMatchesDrafts'
  <1> SUFFICES ASSUME TypeOK, CommandFits, ReadOnlyClean, IndexMatchesDrafts, [Next]_vars
               PROVE  ReadOnlyClean' /\ IndexMatchesDrafts'
    OBVIOUS
  <1>1. CASE UNCHANGED <<drafts, index>>
    BY <1>1 DEF ReadOnlyClean, IndexMatchesDrafts, IsOpen
  <1>2. CASE Replaces
    <2>1. PICK s \in Sessions, p \in Paths, d \in Draft :
            /\ IsOpen(s, p) /\ Puts(s, p, d) /\ UNCHANGED index
            /\ d.readOnly = drafts[s][p].readOnly
            /\ d.modified => drafts[s][p].modified \/ ~d.readOnly
      BY <1>2 DEF Replaces
    <2>2. QED
      BY <2>1, PutTyped DEF ReadOnlyClean, IndexMatchesDrafts, IsOpen
  <1>3. CASE Opens
    <2>1. PICK s \in Sessions, p \in Paths, text \in Texts, persisted, readOnly \in BOOLEAN :
            index[p] = Nobody /\ CreateDraft(s, p, text, persisted, readOnly)
      BY <1>3 DEF Opens
    <2> DEFINE d == [text |-> text, origin |-> text, modified |-> FALSE,
                     persisted |-> persisted, readOnly |-> readOnly]
    <2>2. d \in Draft /\ ~d.modified
      BY DEF Draft
    <2>3. Puts(s, p, d) /\ index' = [index EXCEPT ![p] = s]
      BY <2>1 DEF CreateDraft, Puts
    <2> HIDE DEF d
    <2>4. \A t \in Sessions : ~IsOpen(t, p)
      BY <2>1, NamesAssumption DEF IndexMatchesDrafts
    <2>5. QED
      BY <2>2, <2>3, <2>4, PutTyped DEF TypeOK, ReadOnlyClean, IndexMatchesDrafts, IsOpen
  <1>4. CASE Releases
    BY <1>4, NamesAssumption
       DEF Releases, Release, TypeOK, ReadOnlyClean, IndexMatchesDrafts, IsOpen
  <1>5. QED
    BY <1>1, <1>2, <1>3, <1>4, StepOnRegistries

\* TypeOK is inductive together with what is known of the command under way.
Consistent == TypeOK /\ CommandFits /\ ReadOnlyClean /\ IndexMatchesDrafts

\* The invariant the type theorem needs always holds.
LEMMA StaysConsistent == Spec => []Consistent
  <1>1. Init => Consistent
    BY InitTyped DEF Consistent
  <1>2. Consistent /\ [Next]_vars => Consistent'
    BY StepTyped, StepFits, StepAgrees DEF Consistent
  <1>3. QED
    BY <1>1, <1>2, PTL DEF Spec

\* The registries, the locks and the command under way keep their types.
THEOREM TypeCorrect == Spec => []TypeOK
  <1>1. Consistent => TypeOK
    BY DEF Consistent
  <1>2. QED
    BY <1>1, StaysConsistent, PTL

\* The open index and the registry of drafts never disagree, so no file is ever
\* open in two sessions: whatever calls fail, whoever deletes sessions.
THEOREM RegistriesAgree == Spec => []IndexMatchesDrafts
  <1>1. Consistent => IndexMatchesDrafts
    BY DEF Consistent
  <1>2. QED
    BY <1>1, StaysConsistent, PTL

-----------------------------------------------------------------------------
(* Locks, saved content and unsaved edits.                                 *)

\* A live session's draft of a file the CA server has, which it may commit.
Committable(s, p) ==
  s \in alive /\ IsOpen(s, p) /\ drafts[s][p].persisted /\ ~drafts[s][p].readOnly

\* Between two calls of an open or of a first commit, the lock that the first
\* of them took is still held, and what it saved is still there.
LockHeldInside ==
  /\ (cmd.at = "download" /\ cmd.session \in alive) => owner[cmd.path] = cmd.session
  /\ (cmd.at = "confirm" /\ cmd.session \in alive) =>
       /\ owner[cmd.path] = cmd.session
       /\ content[cmd.path] = drafts[cmd.session][cmd.path].text
       /\ <<cmd.session, cmd.path>> \notin overtaken

\* Only an open draft is overtaken, and only by content that exists; never one
\* that may be committed.
NeverOvertaken ==
  /\ \A s \in Sessions, p \in Paths :
       <<s, p>> \in overtaken => IsOpen(s, p) /\ content[p] # Absent
  /\ \A s \in Sessions, p \in Paths : Committable(s, p) => <<s, p>> \notin overtaken

\* An unmodified draft shows its origin.
UnmodifiedShowsOrigin ==
  \A s \in Sessions, p \in Paths :
    (IsOpen(s, p) /\ ~drafts[s][p].modified) => drafts[s][p].text = drafts[s][p].origin

\* The origin of a draft that may be committed is what the CA server holds.
OriginIsSaved ==
  \A s \in Sessions, p \in Paths :
    (Committable(s, p) /\ <<s, p>> \notin inDoubt) => content[p] = drafts[s][p].origin

\* modified is cleared only of a draft that is its origin.
LEMMA StepShowsOrigin ==
  Consistent /\ UnmodifiedShowsOrigin /\ [Next]_vars => UnmodifiedShowsOrigin'
  <1> SUFFICES ASSUME Consistent, UnmodifiedShowsOrigin, [Next]_vars
               PROVE  UnmodifiedShowsOrigin'
    OBVIOUS
  <1> USE DEF Consistent
  <1>1. CASE UNCHANGED <<drafts, index>>
    BY <1>1 DEF UnmodifiedShowsOrigin, IsOpen
  <1>2. CASE Replaces
    <2>1. PICK s \in Sessions, p \in Paths, d \in Draft :
            /\ IsOpen(s, p) /\ Puts(s, p, d)
            /\ d.modified \/ d.text = d.origin
               \/ (/\ ~drafts[s][p].modified
                   /\ d.text = drafts[s][p].text /\ d.origin = drafts[s][p].origin)
      BY <1>2 DEF Replaces
    <2>2. QED
      BY <2>1, PutTyped DEF UnmodifiedShowsOrigin, IsOpen
  <1>3. CASE Opens
    <2>1. PICK s \in Sessions, p \in Paths, text \in Texts, persisted, readOnly \in BOOLEAN :
            CreateDraft(s, p, text, persisted, readOnly)
      BY <1>3 DEF Opens
    <2> DEFINE d == [text |-> text, origin |-> text, modified |-> FALSE,
                     persisted |-> persisted, readOnly |-> readOnly]
    <2>2. d \in Draft /\ d.text = d.origin /\ Puts(s, p, d)
      BY <2>1 DEF Draft, CreateDraft, Puts
    <2> HIDE DEF d
    <2>3. QED
      BY <2>2, PutTyped DEF UnmodifiedShowsOrigin, IsOpen
  <1>4. CASE Releases
    BY <1>4 DEF Releases, Release, TypeOK, UnmodifiedShowsOrigin, IsOpen
  <1>5. QED
    BY <1>1, <1>2, <1>3, <1>4, StepOnRegistries

\* The files of every draft lie in a directory of their own.
OwnDirectories == \A p \in Paths : Beneath[p] = {p}

\* Only a step on the draft itself, unmodified or of a dead session, closes it.
LEMMA StepKeepsEdits ==
  ASSUME OwnDirectories
  PROVE  Consistent /\ UnmodifiedShowsOrigin /\ [Next]_vars
           => [\A s \in alive, p \in Paths :
                 Unsaved(s, p) => \/ IsOpen(s, p)' /\ <<s, p>> \notin gone'
                                  \/ EditorRestart]_vars
  <1> SUFFICES ASSUME Consistent, UnmodifiedShowsOrigin, [Next]_vars,
                      NEW s \in alive, NEW p \in Paths, Unsaved(s, p), ~EditorRestart
               PROVE  IsOpen(s, p)' /\ <<s, p>> \notin gone'
    OBVIOUS
  <1> USE DEF Consistent, ca, editor, Unsaved
  <1>0. s \in Sessions
    BY DEF TypeOK
  <1>a. UNCHANGED <<gone, index>> => IsOpen(s, p)' /\ <<s, p>> \notin gone'
    BY <1>0, StepAgrees DEF IndexMatchesDrafts
  <1>b. ASSUME NEW t \in Sessions, NEW q \in Paths, NEW text \in Texts,
               NEW persisted \in BOOLEAN, NEW readOnly \in BOOLEAN,
               CreateDraft(t, q, text, persisted, readOnly)
        PROVE  IsOpen(s, p)' /\ <<s, p>> \notin gone'
    <2> DEFINE d == [text |-> text, origin |-> text, modified |-> FALSE,
                     persisted |-> persisted, readOnly |-> readOnly]
    <2>1. d \in Draft /\ Puts(t, q, d)
      BY <1>b DEF Draft, CreateDraft, Puts
    <2> HIDE DEF d
    <2>2. drafts'[s][p] = IF s = t /\ p = q THEN d ELSE drafts[s][p]
      BY <1>0, <2>1, PutTyped
    <2>3. d # Closed
      BY <2>1, PutTyped
    <2>4. drafts'[s][p] # Closed
      BY <2>2, <2>3 DEF IsOpen
    <2>5. <<s, p>> \notin gone'
      BY <1>b DEF CreateDraft
    <2>6. QED
      BY <2>4, <2>5 DEF IsOpen
  <1>c. ASSUME NEW closed, Release(closed), <<s, p>> \notin closed, <<s, p>> \notin gone'
        PROVE  IsOpen(s, p)' /\ <<s, p>> \notin gone'
    BY <1>0, <1>c DEF Release, IsOpen
  <1>1. CASE OpenLookup
    <2>1. CASE FreesPath(cmd.path) /\ ~UNCHANGED <<editor, overtaken, inDoubt>>
      <3>1. PICK verdict \in Verdicts(index[cmd.path]) : PurgeStale(index[cmd.path], verdict, cmd.path)
        BY <2>1 DEF FreesPath
      <3>2. index[cmd.path] \notin alive
        BY <3>1 DEF PurgeStale, Verdicts
      <3>3. QED
        BY <3>1, <3>2, <1>c DEF PurgeStale
    <2>2. QED
      BY <1>1, <2>1, <1>a DEF OpenLookup, FreesPath
  <1>2. CASE OpenDownload
    BY <1>2, <1>a, <1>b, CommandParts DEF TypeOK, OpenDownload
  <1>3. CASE OpenRescue
    BY <1>3, <1>a, <1>b, CommandParts DEF TypeOK, OpenRescue
  <1>4. CASE OpenCreate
    BY <1>4, <1>a, <1>b, CommandParts DEF OpenCreate
  <1>5. CASE CloseUnlock
    <2>1. <<s, p>> # <<cmd.session, cmd.path>>
      BY <1>5 DEF CloseUnlock, CommandFits, UnmodifiedShowsOrigin, Unsaved, TypeOK
    <2>2. SharesDirectory(cmd.session, cmd.path) = {}
      BY <1>5, CommandParts DEF CloseUnlock, SharesDirectory, OwnDirectories
    <2>3. QED
      BY <1>5, <2>1, <2>2, <1>a, <1>c DEF CloseUnlock
  <1>6. CASE \E t \in Sessions : MeetZombie(t)
    <2>1. PICK t \in Sessions : MeetZombie(t)
      BY <1>6
    <2>2. t # s
      BY <2>1 DEF MeetZombie, GuardTerminating, Verdicts
    <2>3. QED
      BY <2>1, <2>2, <1>c DEF MeetZombie, GuardTerminating, CleanupZombie
  <1>7. CASE ~(\/ OpenLookup \/ OpenDownload \/ OpenRescue \/ OpenCreate \/ CloseUnlock
               \/ \E t \in Sessions : MeetZombie(t))
    <2>1. UNCHANGED <<gone, index>>
      BY <1>7, NextSplits
         DEF BeginsCommand, Edits, OpenCalls, Outsiders, OpenGuard, Write, Close, Edit,
             OpenLock, OpenFallback, Affirm, Relock, Upload, Create, Confirm, SessionDelete,
             OutsiderLocks, OutsiderUnlocks, OutsiderSaves, vars
    <2>2. QED
      BY <2>1, <1>a
  <1>8. QED
    BY <1>1, <1>2, <1>3, <1>4, <1>5, <1>6, <1>7

\* Where every file has a directory of its own, edits are never silently
\* discarded: not by a close, a failed call, another open or another's death.
THEOREM EditsAreKept ==
  ASSUME OwnDirectories
  PROVE  Spec => EditsKept
  <1>1. Init => UnmodifiedShowsOrigin
    BY DEF Init, UnmodifiedShowsOrigin, IsOpen
  <1>2. QED
    BY <1>1, StaysConsistent, StepShowsOrigin, StepKeepsEdits, PTL DEF Spec, EditsKept

\* Every exception of a remote call is a RuntimeError: an unlock that fails in
\* another way leaves a draft open whose lock may be gone.
NoTimeouts == "timeout" \notin Faults

Guarded == DraftHoldsLock /\ LockHeldInside /\ NeverOvertaken /\ OriginIsSaved

\* A lock call, answered or not, takes a lock from nobody.
LEMMA LockCalls ==
  ASSUME TypeOK, NEW s \in Sessions, NEW p \in Paths
  PROVE  Locks(s, p) \/ LockFails(s, p)
           => /\ UNCHANGED <<content, alive>>
              /\ \A t \in Sessions, q \in Paths : owner[q] = t => owner'[q] = t
  BY NamesAssumption DEF TypeOK, Locks, LockFails, MayLock, Fails, ca

\* An unlock call gives away the lock of one session and one file at most.
LEMMA UnlockCalls ==
  ASSUME TypeOK, NEW s \in Sessions, NEW p \in Paths, UnlockAnswers(s, p)
  PROVE  /\ UNCHANGED <<content, alive>>
         /\ \A q \in Paths : \/ owner'[q] = owner[q]
                             \/ q = p /\ owner[q] = s /\ owner'[q] = Nobody
  BY DEF TypeOK, UnlockAnswers, Unlocks, Fails, ca

\* A step that saves nothing, gives away no lock of a draft that may still be
\* committed and makes no other draft one of those.
Calm ==
  /\ UNCHANGED content /\ alive' \subseteq alive
  /\ \A s \in Sessions, p \in Paths :
       Committable(s, p)' =>
         /\ Committable(s, p) /\ drafts'[s][p].origin = drafts[s][p].origin
         /\ <<s, p>> \in inDoubt => <<s, p>> \in inDoubt'
         /\ owner[p] = s => owner'[p] = s
  /\ \A s \in Sessions, p \in Paths :
       <<s, p>> \in overtaken' => <<s, p>> \in overtaken /\ IsOpen(s, p)'

\* Such a step keeps the invariant of locks and saved content.
LEMMA CalmGuarded ==
  ASSUME Consistent, Guarded, Calm, LockHeldInside'
  PROVE  Guarded'
  <1> USE DEF Calm, Guarded, Consistent
  <1>1. DraftHoldsLock'
    <2> SUFFICES ASSUME NEW s \in alive', NEW p \in Paths, Committable(s, p)'
                 PROVE  owner'[p] = s
      BY DEF DraftHoldsLock, Committable
    <2>1. s \in Sessions /\ s \in alive
      BY DEF TypeOK
    <2>2. owner[p] = s
      BY <2>1 DEF DraftHoldsLock, Committable
    <2>3. QED
      BY <2>1, <2>2
  <1>2. NeverOvertaken'
    BY DEF NeverOvertaken, Committable
  <1>3. OriginIsSaved'
    BY DEF OriginIsSaved
  <1>4. QED
    BY <1>1, <1>2, <1>3

\* All steps but those that read or write content are of that kind.
LEMMA CalmSteps ==
  ASSUME NoTimeouts, Consistent, UnmodifiedShowsOrigin, Guarded,
         \/ BeginsCommand \/ Edits \/ OpenLookup \/ OpenCalls \/ OpenCreate
         \/ Affirm \/ Relock \/ CloseUnlock \/ EditorRestart
         \/ (\E s \in Sessions : MeetZombie(s)) \/ (\E s \in Sessions : SessionDelete(s))
         \/ (\E p \in Paths : OutsiderLocks(p) \/ OutsiderUnlocks(p))
         \/ UNCHANGED vars
  PROVE  Calm /\ LockHeldInside'
  <1> DEFINE s == cmd.session
             p == cmd.path
  <1> USE DEF Consistent, ca, editor, Finish
  <1>a. cmd' = Idle => LockHeldInside'
    BY DEF LockHeldInside, Idle
  <1>b. cmd'.at \notin {"download", "confirm"} => LockHeldInside'
    BY DEF LockHeldInside
  <1>c. ASSUME NEW call, cmd.at # "idle", Go(call)
        PROVE  cmd'.at = call /\ cmd'.session = s /\ cmd'.path = p
    BY <1>c, CommandParts DEF Go, Commands
  <1>d. UNCHANGED <<content, owner, alive, drafts, overtaken, inDoubt>> => Calm
    BY DEF Calm, Committable, IsOpen, NeverOvertaken, Guarded
  <1>e. ASSUME NEW t \in Sessions, NEW q \in Paths, NEW d \in Draft, IsOpen(t, q), Puts(t, q, d),
               d.readOnly = drafts[t][q].readOnly, d.persisted = drafts[t][q].persisted,
               d.origin = drafts[t][q].origin,
               UNCHANGED <<content, alive, overtaken, inDoubt>>,
               \A u \in Sessions, r \in Paths : owner[r] = u => owner'[r] = u
        PROVE  Calm
    BY <1>e, PutTyped DEF Calm, Committable, IsOpen, NeverOvertaken, Guarded
  <1>f. ASSUME NEW closed, Release(closed), UNCHANGED <<content, alive>>,
               \A t \in Sessions, q \in Paths :
                 (<<t, q>> \notin closed /\ IsOpen(t, q) /\ owner[q] = t) => owner'[q] = t
        PROVE  Calm
    BY <1>f DEF Calm, Release, Committable, IsOpen, NeverOvertaken, Guarded, TypeOK
  <1>1. CASE BeginsCommand
    <2>1. PICK t \in Sessions, q \in Paths :
            \/ \E as \in {"open", "create"} : OpenGuard(t, q, as)
            \/ Write(t, q)
            \/ \E writeFirst \in BOOLEAN : Close(t, q, writeFirst)
      BY <1>1 DEF BeginsCommand
    <2>2. CASE \E as \in {"open", "create"} : OpenGuard(t, q, as)
      BY <2>2, <1>b, <1>d DEF OpenGuard
    <2>3. CASE Write(t, q)
      BY <2>3, <1>a, <1>b, <1>d DEF Write, BeginCommit, FirstCall
    <2>4. CASE \E writeFirst \in BOOLEAN : Close(t, q, writeFirst)
      <3>1. PICK writeFirst \in BOOLEAN : Close(t, q, writeFirst)
        BY <2>4
      <3>2. LockHeldInside'
        BY <3>1, <1>a, <1>b DEF Close, BeginCommit, FirstCall
      <3>3. Calm
        BY <3>1, <1>d, <1>e, ClosePuts, OpenDraftTyped, DraftChanges DEF Close
      <3>4. QED
        BY <3>2, <3>3
    <2>5. QED
      BY <2>1, <2>2, <2>3, <2>4
  <1>2. CASE Edits
    <2>1. PICK t \in Sessions, q \in Paths, text \in Texts : Edit(t, q, text)
      BY <1>2 DEF Edits
    <2>2. Calm
      BY <2>1, <1>e, EditPuts, OpenDraftTyped, EditedDraft DEF Edit
    <2>3. QED
      BY <2>1, <2>2, <1>a DEF Edit
  <1>3. CASE OpenLookup
    <2>1. LockHeldInside'
      BY <1>3, <1>a, <1>b, <1>c DEF OpenLookup
    <2>2. Calm
      BY <1>3, <1>d, <1>f DEF OpenLookup, FreesPath, PurgeStale
    <2>3. QED
      BY <2>1, <2>2
  <1>4. CASE OpenLock
    <2>1. s \in Sessions /\ p \in Paths
      BY <1>4, CommandParts DEF OpenLock
    <2>2. LockHeldInside'
      <3>1. CASE Locks(s, p) /\ Go("download")
        BY <1>4, <2>1, <3>1, <1>c DEF OpenLock, Locks, TypeOK, LockHeldInside
      <3>2. QED
        BY <1>4, <3>1, <1>a, <1>b, <1>c DEF OpenLock
    <2>3. Calm
      BY <1>4, <2>1, LockCalls
         DEF OpenLock, Fails, Calm, Committable, IsOpen, NeverOvertaken, Guarded
    <2>4. QED
      BY <2>2, <2>3
  <1>5. CASE OpenFallback
    <2>1. s \in Sessions /\ p \in Paths /\ UnlockAnswers(s, p)
      BY <1>5, CommandParts DEF OpenFallback, UnlockRaises, NoTimeouts
    <2>2. ~IsOpen(s, p)
      BY <1>5, <2>1, NamesAssumption
         DEF OpenFallback, CommandFits, Opening, IndexMatchesDrafts
    <2>3. Calm
      BY <1>5, <2>1, <2>2, UnlockCalls, NamesAssumption
         DEF OpenFallback, Calm, Committable, IsOpen, NeverOvertaken, Guarded
    <2>4. QED
      BY <1>5, <2>3, <1>a, <1>b, <1>c DEF OpenFallback
  <1>6. CASE OpenCreate
    <2>1. s \in Sessions /\ p \in Paths /\ index[p] = Nobody
      BY <1>6, CommandParts DEF OpenCreate, CommandFits, Opening
    <2>2. ~IsOpen(s, p)
      BY <2>1, NamesAssumption DEF IndexMatchesDrafts
    <2>3. ASSUME NEW text \in Texts, CreateDraft(s, p, text, FALSE, FALSE)
          PROVE  Calm
      <3> DEFINE d == [text |-> text, origin |-> text, modified |-> FALSE,
                       persisted |-> FALSE, readOnly |-> FALSE]
      <3>1. d \in Draft /\ ~d.persisted /\ Puts(s, p, d)
        BY <2>3 DEF Draft, CreateDraft, Puts
      <3> HIDE DEF d
      <3>2. QED
        BY <1>6, <2>1, <2>2, <3>1, PutTyped
           DEF OpenCreate, Calm, Committable, IsOpen, NeverOvertaken, Guarded
    <2>4. QED
      BY <1>6, <2>3, <1>a, <1>d DEF OpenCreate
  <1>7. CASE Affirm
    <2>1. s \in Sessions /\ p \in Paths /\ IsOpen(s, p) /\ drafts[s][p] \in Draft
      BY <1>7, CommandParts, OpenDraftTyped DEF Affirm, CommandFits, Committing
    <2>2. LockHeldInside'
      BY <1>7, <1>a, <1>b, <1>c DEF Affirm, Proceed
    <2>3. /\ UNCHANGED <<content, alive, overtaken, inDoubt>>
          /\ \A t \in Sessions, q \in Paths : owner[q] = t => owner'[q] = t
      BY <1>7, <2>1, LockCalls DEF Affirm
    <2>4. CASE Puts(s, p, Clean(drafts[s][p]))
      BY <2>1, <2>2, <2>3, <2>4, <1>e, DraftChanges
    <2>5. CASE UNCHANGED drafts
      BY <2>2, <2>3, <2>5 DEF Calm, Committable, IsOpen, NeverOvertaken, Guarded
    <2>6. QED
      BY <1>7, <2>4, <2>5, AffirmPuts
  <1>8. CASE Relock
    <2>1. s \in Sessions /\ p \in Paths
      BY <1>8, CommandParts DEF Relock
    <2>2. LockHeldInside'
      BY <1>8, <1>a, <1>b, <1>c DEF Relock
    <2>3. Calm
      BY <1>8, <2>1, LockCalls
         DEF Relock, Calm, Committable, IsOpen, NeverOvertaken, Guarded
    <2>4. QED
      BY <2>2, <2>3
  <1>9. CASE CloseUnlock
    <2>1. s \in Sessions /\ p \in Paths /\ Release({<<s, p>>})
          /\ (UnlockAnswers(s, p) \/ UNCHANGED ca)
      BY <1>9, CommandParts DEF CloseUnlock, UnlockRaises, NoTimeouts
    <2>2. Calm
      BY <2>1, <1>f, UnlockCalls
    <2>3. QED
      BY <1>9, <2>2, <1>a DEF CloseUnlock
  <1>10. CASE EditorRestart
    BY <1>10, <1>a, <1>f DEF EditorRestart
  <1>11. CASE \E t \in Sessions : MeetZombie(t)
    BY <1>11, <1>a, <1>f DEF MeetZombie, GuardTerminating, CleanupZombie
  <1>12. CASE \E t \in Sessions : SessionDelete(t)
    <2>1. PICK t \in Sessions : SessionDelete(t)
      BY <1>12
    <2>2. LockHeldInside'
      BY <2>1, CommandParts DEF SessionDelete, Guarded, LockHeldInside, TypeOK
    <2>3. Calm
      BY <2>1 DEF SessionDelete, TypeOK, Calm, Committable, IsOpen, NeverOvertaken, Guarded
    <2>4. QED
      BY <2>2, <2>3
  <1>13. CASE \E q \in Paths : OutsiderLocks(q) \/ OutsiderUnlocks(q)
    <2>1. PICK q \in Paths : OutsiderLocks(q) \/ OutsiderUnlocks(q)
      BY <1>13
    <2>2. LockHeldInside'
      BY <2>1, CommandParts, NamesAssumption
         DEF OutsiderLocks, OutsiderUnlocks, Guarded, LockHeldInside, TypeOK
    <2>3. Calm
      BY <2>1, NamesAssumption
         DEF OutsiderLocks, OutsiderUnlocks, TypeOK, Calm, Committable, IsOpen,
             NeverOvertaken, Guarded
    <2>4. QED
      BY <2>2, <2>3
  <1>14. CASE UNCHANGED vars
    BY <1>14, <1>d DEF vars, Guarded, LockHeldInside
  <1>15. QED
    BY <1>1, <1>2, <1>3, <1>4, <1>5, <1>6, <1>7, <1>8, <1>9, <1>10, <1>11, <1>12, <1>13, <1>14
       DEF OpenCalls

\* The steps that read or write content, one lemma each.
LEMMA DownloadGuarded ==
  ASSUME Consistent, Guarded, OpenDownload
  PROVE  Guarded'
  <1> DEFINE s == cmd.session
             p == cmd.path
  <1> USE DEF Consistent, ca, editor, Finish
  <1>0. s \in Sessions /\ p \in Paths /\ index[p] = Nobody /\ \A t \in Sessions : ~IsOpen(t, p)
    BY CommandParts, NamesAssumption
       DEF OpenDownload, CommandFits, Opening, IndexMatchesDrafts
  <1>1. CASE UNCHANGED editor
    <2>1. LockHeldInside'
      <3>1. cmd' = Idle \/ Go("fallback")
        BY DEF OpenDownload
      <3>2. cmd \in Commands
        BY CommandParts DEF OpenDownload
      <3>3. QED
        BY <3>1, <3>2 DEF Go, Commands, LockHeldInside, Idle
    <2>2. Calm
      BY <1>1 DEF OpenDownload, Calm, Committable, IsOpen, NeverOvertaken, Guarded
    <2>3. QED
      BY <2>1, <2>2, CalmGuarded
  <1>2. CASE content[p] # Absent /\ CreateDraft(s, p, content[p], TRUE, FALSE) /\ cmd' = Idle
    <2> DEFINE d == [text |-> content[p], origin |-> content[p], modified |-> FALSE,
                     persisted |-> TRUE, readOnly |-> FALSE]
    <2>1. d \in Draft /\ d.origin = content[p] /\ Puts(s, p, d)
      BY <1>0, <1>2 DEF TypeOK, Draft, CreateDraft, Puts
    <2> HIDE DEF d
    <2>2. /\ UNCHANGED <<content, owner, alive, overtaken, inDoubt>>
          /\ s \in alive => owner[p] = s
          /\ <<s, p>> \notin overtaken
      BY <1>0 DEF OpenDownload, Guarded, LockHeldInside, NeverOvertaken
    <2>3. LockHeldInside'
      BY <1>2 DEF LockHeldInside, Idle
    <2>4. DraftHoldsLock'
      <3> SUFFICES ASSUME NEW t \in alive', NEW q \in Paths, IsOpen(t, q)', t # s \/ q # p,
                          drafts'[t][q].persisted, ~drafts'[t][q].readOnly
                   PROVE  owner'[q] = t
        BY <2>2 DEF DraftHoldsLock
      <3>1. t \in Sessions /\ drafts'[t][q] = drafts[t][q]
        BY <1>0, <2>1, <2>2, PutTyped DEF TypeOK
      <3>2. QED
        BY <2>2, <3>1 DEF Guarded, DraftHoldsLock, IsOpen
    <2>5. NeverOvertaken'
      BY <1>0, <2>1, <2>2, PutTyped DEF Guarded, NeverOvertaken, Committable, IsOpen
    <2>6. OriginIsSaved'
      BY <1>0, <2>1, <2>2, PutTyped DEF Guarded, OriginIsSaved, Committable, IsOpen
    <2>7. QED
      BY <2>3, <2>4, <2>5, <2>6 DEF Guarded
  <1>3. QED
    BY <1>1, <1>2 DEF OpenDownload

\* An open for reading makes nothing that may be committed.
LEMMA RescueGuarded ==
  ASSUME Consistent, Guarded, OpenRescue
  PROVE  Guarded'
  <1> DEFINE s == cmd.session
             p == cmd.path
  <1> USE DEF Consistent, ca, editor, Finish
  <1>0. s \in Sessions /\ p \in Paths /\ index[p] = Nobody /\ \A t \in Sessions : ~IsOpen(t, p)
    BY CommandParts, NamesAssumption
       DEF OpenRescue, CommandFits, Opening, IndexMatchesDrafts
  <1>1. LockHeldInside'
    BY DEF OpenRescue, LockHeldInside, Idle
  <1>2. CASE UNCHANGED editor
    BY <1>1, <1>2, CalmGuarded
       DEF OpenRescue, Calm, Committable, IsOpen, NeverOvertaken, Guarded
  <1>3. CASE content[p] # Absent /\ CreateDraft(s, p, content[p], TRUE, TRUE)
    <2> DEFINE d == [text |-> content[p], origin |-> content[p], modified |-> FALSE,
                     persisted |-> TRUE, readOnly |-> TRUE]
    <2>1. d \in Draft /\ d.readOnly /\ Puts(s, p, d)
      BY <1>0, <1>3 DEF TypeOK, Draft, CreateDraft, Puts
    <2> HIDE DEF d
    <2>2. Calm
      BY <1>0, <2>1, PutTyped
         DEF OpenRescue, Calm, Committable, IsOpen, NeverOvertaken, Guarded
    <2>3. QED
      BY <1>1, <2>2, CalmGuarded
  <1>4. QED
    BY <1>2, <1>3 DEF OpenRescue

\* Another saves only files it has locked, which no draft may be committed to.
LEMMA OutsiderGuarded ==
  ASSUME Consistent, Guarded, NEW q \in Paths, NEW text \in Texts, OutsiderSaves(q, text)
  PROVE  Guarded'
  <1> USE DEF Consistent, ca, editor
  <1>0. /\ owner[q] = Outsider /\ Outsider \notin Sessions /\ text # Absent
        /\ \A r \in Paths : content'[r] = IF r = q THEN text ELSE content[r]
        /\ UNCHANGED <<owner, alive, drafts, cmd, inDoubt>>
    BY NamesAssumption DEF OutsiderSaves, TypeOK
  <1>1. \A s \in Sessions : ~Committable(s, q)
    BY <1>0 DEF Guarded, DraftHoldsLock, Committable
  <1>2. \A s \in Sessions, p \in Paths :
          <<s, p>> \in overtaken' => <<s, p>> \in overtaken \/ (p = q /\ IsOpen(s, p))
    BY DEF OutsiderSaves, Overtakes
  <1>3. DraftHoldsLock'
    BY <1>0 DEF Guarded, DraftHoldsLock, IsOpen
  <1>4. LockHeldInside'
    BY <1>0, <1>2, CommandParts DEF Guarded, LockHeldInside
  <1>5. NeverOvertaken'
    BY <1>0, <1>1, <1>2 DEF Guarded, NeverOvertaken, Committable, IsOpen
  <1>6. OriginIsSaved'
    BY <1>0, <1>1 DEF Guarded, OriginIsSaved, Committable, IsOpen
  <1>7. QED
    BY <1>3, <1>4, <1>5, <1>6 DEF Guarded

\* A commit is of the only open draft of its file.
LEMMA OnlyDraft ==
  ASSUME Consistent, cmd.at \in Committing
  PROVE  /\ cmd.session \in Sessions /\ cmd.path \in Paths /\ cmd \in Commands
         /\ IsOpen(cmd.session, cmd.path)
         /\ drafts[cmd.session][cmd.path] \in Draft
         /\ ~drafts[cmd.session][cmd.path].readOnly
         /\ \A t \in Sessions : IsOpen(t, cmd.path) => t = cmd.session
  BY CommandParts, OpenDraftTyped
     DEF Consistent, CommandFits, Committing, IndexMatchesDrafts

\* An upload makes its text the origin, or is in doubt.
LEMMA UploadGuarded ==
  ASSUME Consistent, Guarded, Upload
  PROVE  Guarded'
  <1> DEFINE s == cmd.session
             p == cmd.path
             d == drafts[s][p]
  <1> USE DEF Finish, ca, editor
  <1>0. /\ s \in Sessions /\ p \in Paths /\ IsOpen(s, p) /\ d \in Draft /\ cmd \in Commands
        /\ ~d.readOnly /\ d.persisted /\ \A t \in Sessions : IsOpen(t, p) => t = s
    BY OnlyDraft DEF Upload, Committing, Consistent, CommandFits
  <1>1. UNCHANGED <<owner, alive, index>>
    BY DEF Upload
  <1>2. LockHeldInside'
    <2>1. cmd' = Idle \/ Go("unlock")
      BY DEF Upload, RecordCommit, Proceed
    <2>2. QED
      BY <1>0, <2>1 DEF Go, Commands, LockHeldInside, Idle
  <1>3. CASE UNCHANGED <<content, drafts, overtaken, inDoubt>>
    BY <1>1, <1>2, <1>3, CalmGuarded
       DEF Calm, Committable, IsOpen, NeverOvertaken, Guarded
  <1>4. CASE /\ s \in alive /\ owner[p] = s
             /\ content' = [content EXCEPT ![p] = d.text] /\ Overtakes(s, p)
             /\ RecordCommit \/ (inDoubt' = inDoubt \cup {<<s, p>>} /\ UNCHANGED drafts)
    <2>1. /\ d.text # Absent
          /\ \A q \in Paths : content'[q] = IF q = p THEN d.text ELSE content[q]
      BY <1>0, <1>4, NamesAssumption DEF Consistent, TypeOK, Draft
    <2>2. overtaken' = overtaken
      BY <1>0, <1>4 DEF Overtakes
    <2>3. \A t \in Sessions, q \in Paths :
            /\ IsOpen(t, q)' <=> IsOpen(t, q)
            /\ (t # s \/ q # p) => drafts'[t][q] = drafts[t][q]
                                   /\ (<<t, q>> \in inDoubt' <=> <<t, q>> \in inDoubt)
      BY <1>0, <1>4, RecordPuts, DraftChanges, PutTyped DEF Consistent, IsOpen
    <2>4. /\ drafts'[s][p].persisted /\ ~drafts'[s][p].readOnly
          /\ drafts'[s][p].origin = d.text \/ <<s, p>> \in inDoubt'
      BY <1>0, <1>4, RecordPuts, DraftChanges, PutTyped DEF Consistent
    <2>5. \A t \in Sessions, q \in Paths : Committable(t, q)' => Committable(t, q)
      BY <1>0, <1>1, <1>4, <2>3 DEF Committable
    <2>6. DraftHoldsLock'
      <3> SUFFICES ASSUME NEW t \in alive', NEW q \in Paths, Committable(t, q)'
                   PROVE  owner'[q] = t
        BY DEF DraftHoldsLock, Committable
      <3>1. t \in Sessions
        BY <1>1 DEF Consistent, TypeOK
      <3>2. QED
        BY <1>1, <2>5, <3>1 DEF Guarded, DraftHoldsLock, Committable
    <2>7. NeverOvertaken'
      BY <2>1, <2>2, <2>3, <2>5 DEF Guarded, NeverOvertaken
    <2>8. OriginIsSaved'
      BY <1>0, <2>1, <2>3, <2>4, <2>5 DEF Guarded, OriginIsSaved, Committable
    <2>9. QED
      BY <1>2, <2>6, <2>7, <2>8 DEF Guarded
  <1>5. QED
    BY <1>3, <1>4 DEF Upload

\* A first commit finds no such file, so nobody has overtaken its draft.
LEMMA CreateGuarded ==
  ASSUME Consistent, Guarded, Create
  PROVE  Guarded'
  <1> DEFINE s == cmd.session
             p == cmd.path
             d == drafts[s][p]
  <1> USE DEF Finish, ca, editor
  <1>0. /\ s \in Sessions /\ p \in Paths /\ IsOpen(s, p) /\ d \in Draft /\ cmd \in Commands
        /\ \A t \in Sessions : IsOpen(t, p) => t = s
    BY OnlyDraft DEF Create, Committing
  <1>1. UNCHANGED <<alive, drafts>>
    BY DEF Create
  <1>2. CASE UNCHANGED <<content, owner, overtaken, inDoubt>> /\ cmd' = Idle
    BY <1>1, <1>2, CalmGuarded
       DEF Calm, Committable, IsOpen, NeverOvertaken, Guarded, LockHeldInside, Idle
  <1>3. CASE /\ s \in alive /\ content[p] = Absent /\ owner[p] \in {Nobody, s}
             /\ content' = [content EXCEPT ![p] = d.text]
             /\ owner' = [owner EXCEPT ![p] = s] /\ Overtakes(s, p)
             /\ inDoubt' = inDoubt \cup {<<s, p>>}
             /\ Go("confirm") \/ cmd' = Idle
    <2>1. /\ d.text # Absent
          /\ \A q \in Paths : /\ content'[q] = IF q = p THEN d.text ELSE content[q]
                              /\ owner'[q] = IF q = p THEN s ELSE owner[q]
      BY <1>0, <1>3, NamesAssumption DEF Consistent, TypeOK, Draft
    <2>2. overtaken' = overtaken /\ <<s, p>> \notin overtaken
      BY <1>0, <1>3 DEF Overtakes, Guarded, NeverOvertaken
    <2>3. LockHeldInside'
      BY <1>0, <1>1, <1>3, <2>1, <2>2 DEF Go, Commands, LockHeldInside, Idle
    <2>4. DraftHoldsLock'
      BY <1>0, <1>1, <2>1 DEF Guarded, DraftHoldsLock, IsOpen, Consistent, TypeOK
    <2>5. NeverOvertaken'
      BY <1>1, <2>1, <2>2 DEF Guarded, NeverOvertaken, Committable, IsOpen
    <2>6. OriginIsSaved'
      BY <1>0, <1>1, <1>3, <2>1 DEF Guarded, OriginIsSaved, Committable, IsOpen
    <2>7. QED
      BY <2>3, <2>4, <2>5, <2>6 DEF Guarded
  <1>4. QED
    BY <1>2, <1>3 DEF Create

\* The lock of a first commit is still held when it is confirmed.
LEMMA ConfirmGuarded ==
  ASSUME Consistent, Guarded, Confirm
  PROVE  Guarded'
  <1> DEFINE s == cmd.session
             p == cmd.path
             d == drafts[s][p]
  <1> USE DEF Finish, ca, editor
  <1>0. /\ s \in Sessions /\ p \in Paths /\ IsOpen(s, p) /\ d \in Draft /\ cmd \in Commands
    BY OnlyDraft DEF Confirm, Committing
  <1>1. /\ UNCHANGED <<content, alive, index, overtaken>>
        /\ \A t \in Sessions, q \in Paths : owner[q] = t => owner'[q] = t
    BY <1>0, LockCalls DEF Confirm, Consistent
  <1>2. LockHeldInside'
    <2>1. cmd' = Idle \/ Go("unlock")
      BY DEF Confirm, RecordCommit, Proceed
    <2>2. QED
      BY <1>0, <2>1 DEF Go, Commands, LockHeldInside, Idle
  <1>3. CASE UNCHANGED <<drafts, inDoubt>>
    BY <1>1, <1>2, <1>3, CalmGuarded
       DEF Calm, Committable, IsOpen, NeverOvertaken, Guarded
  <1>4. CASE Locks(s, p) /\ RecordCommit
    <2>1. s \in alive /\ owner[p] = s /\ content[p] = d.text /\ <<s, p>> \notin overtaken
      BY <1>4 DEF Confirm, Locks, MayLock, Guarded, LockHeldInside
    <2>2. \A t \in Sessions, q \in Paths :
            /\ IsOpen(t, q)' <=> IsOpen(t, q)
            /\ (t # s \/ q # p) => drafts'[t][q] = drafts[t][q]
                                   /\ (<<t, q>> \in inDoubt' <=> <<t, q>> \in inDoubt)
      BY <1>0, <1>4, RecordPuts, DraftChanges, PutTyped DEF Consistent, IsOpen
    <2>3. drafts'[s][p].origin = d.text \/ <<s, p>> \in inDoubt'
      BY <1>0, <1>4, RecordPuts, DraftChanges, PutTyped DEF Consistent
    <2>4. DraftHoldsLock'
      <3> SUFFICES ASSUME NEW t \in alive', NEW q \in Paths, Committable(t, q)'
                   PROVE  owner'[q] = t
        BY DEF DraftHoldsLock, Committable
      <3>1. t \in Sessions
        BY <1>1 DEF Consistent, TypeOK
      <3>2. owner[q] = t
        BY <1>1, <2>1, <2>2, <3>1 DEF Guarded, DraftHoldsLock, Committable
      <3>3. QED
        BY <1>1, <3>1, <3>2
    <2>5. NeverOvertaken'
      BY <1>0, <1>1, <2>1, <2>2 DEF Guarded, NeverOvertaken, Committable
    <2>6. OriginIsSaved'
      BY <1>0, <1>1, <2>1, <2>2, <2>3 DEF Guarded, OriginIsSaved, Committable
    <2>7. QED
      BY <1>2, <2>4, <2>5, <2>6 DEF Guarded
  <1>5. QED
    BY <1>3, <1>4 DEF Confirm

\* Every step keeps the invariant of locks and saved content.
LEMMA StepGuarded ==
  ASSUME NoTimeouts
  PROVE  Consistent /\ UnmodifiedShowsOrigin /\ Guarded /\ [Next]_vars => Guarded'
  <1> SUFFICES ASSUME Consistent, UnmodifiedShowsOrigin, Guarded, [Next]_vars
               PROVE  Guarded'
    OBVIOUS
  <1>1. CASE OpenDownload
    BY <1>1, DownloadGuarded
  <1>2. CASE OpenRescue
    BY <1>2, RescueGuarded
  <1>3. CASE Upload
    BY <1>3, UploadGuarded
  <1>4. CASE Create
    BY <1>4, CreateGuarded
  <1>5. CASE Confirm
    BY <1>5, ConfirmGuarded
  <1>6. CASE \E q \in Paths, text \in Texts : OutsiderSaves(q, text)
    BY <1>6, OutsiderGuarded
  <1>7. CASE ~(\/ OpenDownload \/ OpenRescue \/ Upload \/ Create \/ Confirm
               \/ \E q \in Paths, text \in Texts : OutsiderSaves(q, text))
    <2>1. \/ BeginsCommand \/ Edits \/ OpenLookup \/ OpenCalls \/ OpenCreate
          \/ Affirm \/ Relock \/ CloseUnlock \/ EditorRestart
          \/ (\E s \in Sessions : MeetZombie(s)) \/ (\E s \in Sessions : SessionDelete(s))
          \/ (\E p \in Paths : OutsiderLocks(p) \/ OutsiderUnlocks(p))
          \/ UNCHANGED vars
      BY <1>7, NextSplits, Zenon DEF Outsiders
    <2>2. Calm /\ LockHeldInside'
      BY <2>1, CalmSteps
    <2>3. QED
      BY <2>2, CalmGuarded
  <1>8. QED
    BY <1>1, <1>2, <1>3, <1>4, <1>5, <1>6, <1>7

\* That invariant always holds.
LEMMA StaysGuarded ==
  ASSUME NoTimeouts
  PROVE  Spec => [](Consistent /\ UnmodifiedShowsOrigin /\ Guarded)
  <1>1. Init => UnmodifiedShowsOrigin /\ Guarded
    BY DEF Init, UnmodifiedShowsOrigin, Guarded, DraftHoldsLock, LockHeldInside, NeverOvertaken,
           OriginIsSaved, Committable, IsOpen, Idle
  <1>2. QED
    BY <1>1, StaysConsistent, StepShowsOrigin, StepGuarded, PTL DEF Spec

\* A live session holds the CA lock of every draft it may commit, from the open
\* to the close, whatever else fails or whoever else uses the CA server.
THEOREM DraftsHoldLocks ==
  ASSUME NoTimeouts
  PROVE  Spec => []DraftHoldsLock
  <1>1. Guarded => DraftHoldsLock
    BY DEF Guarded
  <1>2. QED
    BY <1>1, StaysGuarded, PTL

\* A draft that close lets go without a word is what the CA server holds, unless
\* its last upload took effect and was reported as failed.
THEOREM CleanIsSaved ==
  ASSUME NoTimeouts
  PROVE  Spec => []CleanMeansSaved
  <1>1. TypeOK /\ UnmodifiedShowsOrigin /\ Guarded => CleanMeansSaved
    BY DEF TypeOK, UnmodifiedShowsOrigin, Guarded, OriginIsSaved, Committable, CleanMeansSaved
  <1>2. Consistent => TypeOK
    BY DEF Consistent
  <1>3. QED
    BY <1>1, <1>2, StaysGuarded, PTL

\* A commit never replaces what another has saved since the draft was read.
THEOREM NoUpdateLost ==
  ASSUME NoTimeouts
  PROVE  Spec => NoLostUpdate
  <1>1. ASSUME Consistent, Guarded, [Next]_vars
        PROVE  [cmd.at \in {"upload", "create"} /\ cmd' # cmd /\ content' # content
                  => <<cmd.session, cmd.path>> \notin overtaken]_vars
    <2> SUFFICES ASSUME cmd.at \in {"upload", "create"}, cmd' # cmd, content' # content
                 PROVE  <<cmd.session, cmd.path>> \notin overtaken
      OBVIOUS
    <2>1. CASE Upload
      BY <1>1, <2>1, OnlyDraft
         DEF Upload, Consistent, CommandFits, Committing, Guarded, NeverOvertaken, Committable
    <2>2. CASE Create
      BY <1>1, <2>2, OnlyDraft DEF Create, Committing, Guarded, NeverOvertaken
    <2>3. CASE Outsiders
      BY <2>3 DEF Outsiders, OutsiderLocks, OutsiderUnlocks, OutsiderSaves
    <2>4. CASE ~(Upload \/ Create \/ Outsiders)
      <3>1. cmd.at \notin {"idle", "lookup", "lock", "download", "fallback", "rescue", "build",
                           "affirm", "relock", "confirm", "unlock"}
        OBVIOUS
      <3>2. UNCHANGED content
        BY <1>1, <2>4, <3>1, NextSplits
           DEF BeginsCommand, Edits, OpenCalls, OpenGuard, Write, Close, Edit, OpenLookup,
               OpenLock, OpenFallback, OpenDownload, OpenRescue, OpenCreate, Affirm, Relock,
               Confirm, CloseUnlock, EditorRestart, MeetZombie, SessionDelete, Idle, ca, vars
      <3>3. QED
        BY <3>2
    <2>5. QED
      BY <2>1, <2>2, <2>3, <2>4
  <1>2. QED
    BY <1>1, StaysGuarded, PTL DEF Spec, NoLostUpdate

\* A commit re-affirms only a lock that its session has kept.
THEOREM LostLocksFail ==
  ASSUME NoTimeouts
  PROVE  Spec => LostLockFails
  <1>1. ASSUME Consistent, Guarded, [Next]_vars
        PROVE  [cmd.at = "relock" /\ cmd'.at = "upload" => owner[cmd.path] = cmd.session]_vars
    <2> SUFFICES ASSUME cmd.at = "relock", cmd'.at = "upload"
                 PROVE  owner[cmd.path] = cmd.session
      OBVIOUS
    <2>1. CASE Relock
      <3>1. cmd.session \in alive
        BY <2>1 DEF Relock, Finish, Idle, Locks, MayLock
      <3>2. cmd.path \in Paths /\ IsOpen(cmd.session, cmd.path)
            /\ drafts[cmd.session][cmd.path].persisted /\ ~drafts[cmd.session][cmd.path].readOnly
        BY <1>1, OnlyDraft DEF Consistent, CommandFits, Committing
      <3>3. QED
        BY <1>1, <3>1, <3>2 DEF Guarded, DraftHoldsLock
    <2>2. CASE ~Relock
      <3>0. cmd # Idle
        BY DEF Idle
      <3>1. /\ ~BeginsCommand /\ ~Edits /\ ~(\E s \in Sessions : MeetZombie(s))
            /\ ~(\/ OpenLookup \/ OpenCalls \/ OpenDownload \/ OpenRescue \/ OpenCreate
                 \/ Affirm \/ Upload \/ Create \/ Confirm \/ CloseUnlock)
        <4>1. ~BeginsCommand /\ ~Edits /\ ~(\E s \in Sessions : MeetZombie(s))
          BY <3>0 DEF BeginsCommand, Edits, OpenGuard, Write, Close, Edit, MeetZombie
        <4>2. QED
          BY <4>1 DEF OpenCalls, OpenLookup, OpenLock, OpenFallback, OpenDownload, OpenRescue,
                      OpenCreate, Affirm, Upload, Create, Confirm, CloseUnlock
      <3>2. \/ EditorRestart \/ (\E s \in Sessions : SessionDelete(s)) \/ Outsiders
            \/ UNCHANGED vars
        BY <1>1, <2>2, <3>1, NextSplits, Zenon
      <3>3. UNCHANGED cmd \/ cmd' = Idle
        BY <3>2 DEF EditorRestart, SessionDelete, Outsiders, OutsiderLocks, OutsiderUnlocks,
                    OutsiderSaves, Finish, vars
      <3>4. QED
        BY <3>3 DEF Idle
    <2>3. QED
      BY <2>1, <2>2
  <1>2. QED
    BY <1>1, StaysGuarded, PTL DEF Spec, LostLockFails
=============================================================================
