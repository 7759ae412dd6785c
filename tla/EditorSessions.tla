-------------------------- MODULE EditorSessions --------------------------
(***************************************************************************)
(* The editor's file sessions: universal_file_open, _edit, _write, _close  *)
(* over the registries of commands/universal_file_edit/session.py and the  *)
(* locks and files of the Code Analysis (CA) server, which is external.    *)
(*                                                                         *)
(* A command blocks the event loop during its remote calls, so one command *)
(* is under way at a time; whoever else uses the CA server acts between    *)
(* any two of its calls.  A step of the editor is one remote call and the  *)
(* local work up to the next.  One project is edited; a draft is the text  *)
(* its canonical export gives.                                             *)
(***************************************************************************)
CONSTANTS
  Sessions,   \* CA session ids
  Paths,      \* project-relative paths
  Texts,      \* file contents
  Absent,     \* the CA server has no such file
  Nobody,     \* no session
  Outsider,   \* another user of the CA server
  Closed,     \* the session has no draft of the file
  Beneath,    \* the paths in the directory of a path, or in one below it
  Faults      \* what may go wrong in a remote call or a local step

FaultKinds ==
  {"refused",     \* a call raises RuntimeError and has no effect
   "lost",        \* a call raises RuntimeError after its effect
   "timeout",     \* a call raises another exception, after its effect or not
   "unparsable",  \* the CA server rejects the content on registration
   "draft",       \* the draft cannot be built, or does not validate
   "origin"}      \* the origin snapshot cannot be written

ASSUME BeneathAssumption == /\ Beneath \in [Paths -> SUBSET Paths]
                            /\ \A p \in Paths : p \in Beneath[p]
ASSUME FaultsAssumption  == Faults \subseteq FaultKinds
ASSUME NamesAssumption   == /\ Nobody \notin Sessions \cup {Outsider}
                            /\ Outsider \notin Sessions
                            /\ Absent \notin Texts

VARIABLES
  content,    \* the CA server: what a path holds
  owner,      \* the CA server: who holds the lock of a path
  alive,      \* the CA server: the sessions that exist
  drafts,     \* _session_bundles: a session's draft of a path
  index,      \* _file_open_index: the session a path is open in
  gone,       \* open drafts whose workspace files have been removed
  cmd,        \* the command under way and the call it makes next
  overtaken,  \* history: drafts whose file another has changed since they read it
  inDoubt     \* history: drafts whose upload took effect and was not recorded

ca     == <<content, owner, alive>>
editor == <<drafts, index, gone>>
vars   == <<content, owner, alive, drafts, index, gone, cmd, overtaken, inDoubt>>

Draft == [text : Texts, origin : Texts, modified : BOOLEAN,
          persisted : BOOLEAN, readOnly : BOOLEAN]

ASSUME ClosedAssumption == Closed \notin Draft

Idle == [at |-> "idle"]

\* A command: the call it makes next, for which file, and what was asked.
Commands ==
  [at : {"lookup", "lock", "download", "fallback", "rescue", "build",
         "affirm", "relock", "upload", "create", "confirm", "unlock"},
   session : Sessions, path : Paths, as : {"open", "create", "write", "close"}]

TypeOK ==
  /\ content \in [Paths -> Texts \cup {Absent}]
  /\ owner \in [Paths -> Sessions \cup {Nobody, Outsider}]
  /\ alive \subseteq Sessions
  /\ drafts \in [Sessions -> [Paths -> Draft \cup {Closed}]]
  /\ index \in [Paths -> Sessions \cup {Nobody}]
  /\ gone \subseteq Sessions \X Paths
  /\ cmd = Idle \/ cmd \in Commands
  /\ overtaken \subseteq Sessions \X Paths
  /\ inDoubt \subseteq Sessions \X Paths

IsOpen(s, p)  == drafts[s][p] # Closed
Go(call)      == cmd' = [cmd EXCEPT !.at = call]
Finish        == cmd' = Idle

-----------------------------------------------------------------------------
(* The CA server, as the calls of the client see it.                        *)

\* What validate_ca_session may answer of a session.
Verdicts(s) ==
  {IF s \in alive THEN "VALID" ELSE "NOT_FOUND"}
    \cup IF "refused" \in Faults THEN {"INVALID"} ELSE {}

\* session_open_file: idempotent for the holder, a conflict for another.
MayLock(s, p) == s \in alive /\ content[p] # Absent /\ owner[p] \in {Nobody, s}

\* A call that changes nothing fails.
Fails == UNCHANGED ca

\* session_open_file takes effect and its answer arrives.
Locks(s, p) ==
  /\ MayLock(s, p)
  /\ owner' = [owner EXCEPT ![p] = s]
  /\ UNCHANGED <<content, alive>>

\* session_open_file fails: refused, or its answer is lost.
LockFails(s, p) ==
  \/ ~MayLock(s, p) /\ Fails
  \/ {"refused", "timeout"} \cap Faults # {} /\ Fails
  \/ {"lost", "timeout"} \cap Faults # {} /\ Locks(s, p)

\* The effect of session_close_file.
Unlocks(s, p) ==
  /\ owner' = [owner EXCEPT ![p] = IF @ = s THEN Nobody ELSE @]
  /\ UNCHANGED <<content, alive>>

\* unlock_session_file answers True or False, whatever RuntimeError it met.
UnlockAnswers(s, p) ==
  \/ Unlocks(s, p)
  \/ "refused" \in Faults /\ Fails

\* unlock_session_file lets an exception that is no RuntimeError through.
UnlockRaises(s, p) == "timeout" \in Faults /\ (Unlocks(s, p) \/ Fails)

\* The open drafts of p, but who's, no longer show what the CA server holds.
Overtakes(who, p) ==
  overtaken' = overtaken \cup {<<s, p>> : s \in {t \in Sessions \ {who} : IsOpen(t, p)}}

-----------------------------------------------------------------------------
(* The registries and the workspace.                                       *)

\* The index keeps the key of a released draft, with nothing behind it.
ReleaseLeavingEntry(closed) ==
  /\ drafts' = [s \in Sessions |-> [p \in Paths |->
                 IF <<s, p>> \in closed THEN Closed ELSE drafts[s][p]]]
  /\ index' = [p \in Paths |-> IF <<index[p], p>> \in closed THEN Closed ELSE index[p]]
  /\ overtaken' = overtaken \ closed
  /\ inDoubt' = inDoubt \ closed

\* release_session, for a set of drafts.
Release(closed) ==
  /\ drafts' = [s \in Sessions |-> [p \in Paths |->
                 IF <<s, p>> \in closed THEN Closed ELSE drafts[s][p]]]
  /\ index' = [p \in Paths |-> IF <<index[p], p>> \in closed THEN Nobody ELSE index[p]]
  /\ overtaken' = overtaken \ closed
  /\ inDoubt' = inDoubt \ closed

\* cleanup_zombie_ca_session: every draft of a session the CA server has not.
CleanupZombie(s) ==
  LET all == {s} \X Paths IN
  Release(all) /\ gone' = gone \ all

\* Only the registry of drafts forgets the stale draft.
PurgeStaleDraftOnly(holder, verdict, p) ==
  /\ verdict = "NOT_FOUND"
  /\ drafts' = [drafts EXCEPT ![holder][p] = Closed]
  /\ gone' = gone \ {<<holder, p>>}
  /\ overtaken' = overtaken \ {<<holder, p>>}
  /\ inDoubt' = inDoubt \ {<<holder, p>>}
  /\ UNCHANGED index

\* purge_stale_open_index_entry: only the entry of a session known to be dead.
PurgeStale(holder, verdict, p) ==
  /\ verdict = "NOT_FOUND"
  /\ Release({<<holder, p>>})
  /\ gone' = gone \ {<<holder, p>>}

\* The registries let p be opened: it is in no session, or was in a dead one.
FreesPath(p) ==
  \/ index[p] = Nobody /\ UNCHANGED <<editor, overtaken, inDoubt>>
  \/ /\ index[p] # Nobody
     /\ \E verdict \in Verdicts(index[p]) : PurgeStale(index[p], verdict, p)

\* create_session and the draft and origin files it is given.
CreateDraft(s, p, text, persisted, readOnly) ==
  /\ drafts' = [drafts EXCEPT ![s][p] =
                 [text |-> text, origin |-> text, modified |-> FALSE,
                  persisted |-> persisted, readOnly |-> readOnly]]
  /\ index' = [index EXCEPT ![p] = s]
  /\ gone' = gone \ {<<s, p>>}

Init ==
  /\ content \in [Paths -> Texts \cup {Absent}]
  /\ owner = [p \in Paths |-> Nobody]
  /\ alive = Sessions
  /\ drafts = [s \in Sessions |-> [p \in Paths |-> Closed]]
  /\ index = [p \in Paths |-> Nobody]
  /\ gone = {}
  /\ cmd = Idle
  /\ overtaken = {}
  /\ inDoubt = {}

-----------------------------------------------------------------------------
(* universal_file_open.                                                    *)

\* The session guard lets the command through; a create does not ask it.
OpenGuard(s, p, as) ==
  /\ cmd = Idle
  /\ as = "create" \/ "VALID" \in Verdicts(s)
  /\ cmd' = [at |-> "lookup", session |-> s, path |-> p, as |-> as]
  /\ UNCHANGED <<ca, editor, overtaken, inDoubt>>

\* The session a path is open in is validated; its entry may be stale.
OpenLookup ==
  /\ cmd.at = "lookup"
  /\ UNCHANGED ca
  /\ \/ FreesPath(cmd.path) /\ Go(IF cmd.as = "create" THEN "build" ELSE "lock")
     \/ index[cmd.path] # Nobody /\ Finish /\ UNCHANGED <<editor, overtaken, inDoubt>>

\* The download begins whether or not the lock was granted.
OpenLockIgnoringConflict ==
  /\ cmd.at = "lock"
  /\ Locks(cmd.session, cmd.path) \/ Fails
  /\ Go("download")
  /\ UNCHANGED <<editor, overtaken, inDoubt>>

\* lock_file_and_download, first call.
OpenLock ==
  /\ cmd.at = "lock"
  /\ \/ Locks(cmd.session, cmd.path) /\ Go("download")
     \/ LockFails(cmd.session, cmd.path) /\ Finish
     \/ "unparsable" \in Faults /\ Fails /\ Go("fallback")
  /\ UNCHANGED <<editor, overtaken, inDoubt>>

\* lock_file_and_download, last call; then the draft is built from the bytes.
OpenDownload ==
  /\ cmd.at = "download"
  /\ \/ /\ content[cmd.path] # Absent
        /\ CreateDraft(cmd.session, cmd.path, content[cmd.path], TRUE, FALSE)
        /\ Finish
     \/ /\ content[cmd.path] = Absent \/ {"refused", "lost", "timeout", "draft"} \cap Faults # {}
        /\ Finish
        /\ UNCHANGED editor
     \/ "unparsable" \in Faults /\ Go("fallback") /\ UNCHANGED editor
  /\ UNCHANGED <<ca, overtaken, inDoubt>>

\* Unparsable content: the lock that may be held is given back.
OpenFallback ==
  /\ cmd.at = "fallback"
  /\ \/ UnlockAnswers(cmd.session, cmd.path) /\ Go("rescue")
     \/ UnlockRaises(cmd.session, cmd.path) /\ Finish
  /\ UNCHANGED <<editor, overtaken, inDoubt>>

\* It is opened for reading only, without a lock.
OpenRescue ==
  /\ cmd.at = "rescue"
  /\ \/ /\ content[cmd.path] # Absent
        /\ CreateDraft(cmd.session, cmd.path, content[cmd.path], TRUE, TRUE)
     \/ /\ content[cmd.path] = Absent \/ {"refused", "lost", "timeout", "draft"} \cap Faults # {}
        /\ UNCHANGED editor
  /\ Finish
  /\ UNCHANGED <<ca, overtaken, inDoubt>>

\* create=true: a local draft, of which the CA server hears nothing.
OpenCreate ==
  /\ cmd.at = "build"
  /\ \/ \E text \in Texts : CreateDraft(cmd.session, cmd.path, text, FALSE, FALSE)
     \/ "draft" \in Faults /\ UNCHANGED editor
  /\ Finish
  /\ UNCHANGED <<ca, overtaken, inDoubt>>

-----------------------------------------------------------------------------
(* universal_file_edit: one batch, applied to the draft.                   *)

Edit(s, p, text) ==
  /\ cmd = Idle
  /\ "VALID" \in Verdicts(s)
  /\ IsOpen(s, p)
  /\ ~drafts[s][p].readOnly
  /\ <<s, p>> \notin gone
  /\ text # drafts[s][p].text
  /\ drafts' = [drafts EXCEPT ![s][p] = [@ EXCEPT !.text = text, !.modified = TRUE]]
  /\ UNCHANGED <<ca, index, gone, cmd, overtaken, inDoubt>>

-----------------------------------------------------------------------------
(* universal_file_write, write_mode=commit; also the write before a close.  *)

\* What a commit calls first: an unchanged file only has its lock affirmed.
FirstCall(draft) ==
  IF ~draft.persisted THEN "create"
  ELSE IF draft.text = draft.origin THEN "affirm" ELSE "relock"

\* The comparison with the origin and the validation, up to the first call.
BeginCommit(s, p, as) ==
  \/ /\ <<s, p>> \notin gone
     /\ cmd' = [at |-> FirstCall(drafts[s][p]), session |-> s, path |-> p, as |-> as]
  \/ <<s, p>> \in gone /\ UNCHANGED cmd
  \/ "draft" \in Faults /\ UNCHANGED cmd

\* SessionGuard.check for write and close finds a zombie and drops it.
GuardTerminating(s) ==
  \E verdict \in Verdicts(s) : verdict = "NOT_FOUND" /\ CleanupZombie(s)

\* A write or a close of a session the CA server no longer has.
MeetZombie(s) ==
  /\ cmd = Idle
  /\ GuardTerminating(s)
  /\ UNCHANGED <<ca, cmd>>

Write(s, p) ==
  /\ cmd = Idle
  /\ IsOpen(s, p)
  /\ Verdicts(s) # {"NOT_FOUND"}
  /\ ~drafts[s][p].readOnly
  /\ BeginCommit(s, p, "write")
  /\ UNCHANGED <<ca, editor, overtaken, inDoubt>>

\* What follows a successful commit: the answer, or the unlock of the close.
Proceed == IF cmd.as = "close" THEN Go("unlock") ELSE Finish

\* ensure_session_file_lock for an unchanged draft.
Affirm ==
  /\ cmd.at = "affirm"
  /\ \/ /\ Locks(cmd.session, cmd.path)
        /\ drafts' = [drafts EXCEPT ![cmd.session][cmd.path] = [@ EXCEPT !.modified = FALSE]]
        /\ Proceed
     \/ LockFails(cmd.session, cmd.path) /\ Finish /\ UNCHANGED drafts
  /\ UNCHANGED <<index, gone, overtaken, inDoubt>>

\* upload_session_file_content re-affirms the lock before it uploads.
Relock ==
  /\ cmd.at = "relock"
  /\ \/ Locks(cmd.session, cmd.path) /\ Go("upload")
     \/ LockFails(cmd.session, cmd.path) /\ Finish
  /\ UNCHANGED <<editor, overtaken, inDoubt>>

\* The end of an upload: the origin becomes what was accepted.
RecordCommit ==
  LET s == cmd.session  p == cmd.path IN
  \/ /\ drafts' = [drafts EXCEPT ![s][p] = [@ EXCEPT !.origin = drafts[s][p].text,
                                              !.modified = FALSE, !.persisted = TRUE]]
     /\ inDoubt' = inDoubt \ {<<s, p>>}
     /\ Proceed
  \/ /\ "origin" \in Faults
     /\ drafts' = [drafts EXCEPT ![s][p] = [@ EXCEPT !.persisted = TRUE]]
     /\ inDoubt' = inDoubt \cup {<<s, p>>}
     /\ Finish

\* modified is cleared before the upload is known to have succeeded.
UploadClearingModifiedFirst ==
  LET s == cmd.session  p == cmd.path IN
  /\ cmd.at = "upload"
  /\ \/ /\ s \in alive /\ owner[p] = s
        /\ content' = [content EXCEPT ![p] = drafts[s][p].text]
        /\ Overtakes(s, p)
        /\ RecordCommit
     \/ /\ drafts' = [drafts EXCEPT ![s][p] = [@ EXCEPT !.modified = FALSE]]
        /\ Finish
        /\ UNCHANGED <<content, overtaken, inDoubt>>
  /\ UNCHANGED <<owner, alive, index, gone>>

\* The save is asked to give the lock back.
UploadUnlocking ==
  LET s == cmd.session  p == cmd.path IN
  /\ cmd.at = "upload"
  /\ s \in alive /\ owner[p] = s
  /\ content' = [content EXCEPT ![p] = drafts[s][p].text]
  /\ owner' = [owner EXCEPT ![p] = Nobody]
  /\ Overtakes(s, p)
  /\ RecordCommit
  /\ UNCHANGED <<alive, index, gone>>

\* project_file_transfer_upload_save of an existing file.
Upload ==
  LET s == cmd.session  p == cmd.path IN
  /\ cmd.at = "upload"
  /\ \/ /\ s \in alive /\ owner[p] = s
        /\ content' = [content EXCEPT ![p] = drafts[s][p].text]
        /\ Overtakes(s, p)
        /\ \/ RecordCommit
           \/ /\ {"lost", "timeout"} \cap Faults # {}
              /\ Finish
              /\ inDoubt' = inDoubt \cup {<<s, p>>}
              /\ UNCHANGED drafts
     \/ /\ s \notin alive \/ owner[p] # s \/ {"refused", "timeout"} \cap Faults # {}
        /\ Finish
        /\ UNCHANGED <<content, drafts, overtaken, inDoubt>>
  /\ UNCHANGED <<owner, alive, index, gone>>

\* The save registers the file and locks it, or finds the path taken.
Create ==
  LET s == cmd.session  p == cmd.path
      free == s \in alive /\ content[p] = Absent /\ owner[p] \in {Nobody, s}
  IN
  /\ cmd.at = "create"
  /\ \/ /\ free
        /\ content' = [content EXCEPT ![p] = drafts[s][p].text]
        /\ owner' = [owner EXCEPT ![p] = s]
        /\ Overtakes(s, p)
        /\ inDoubt' = inDoubt \cup {<<s, p>>}
        /\ \/ Go("confirm")
           \/ {"lost", "timeout"} \cap Faults # {} /\ Finish
     \/ /\ ~free \/ {"refused", "timeout"} \cap Faults # {}
        /\ Finish
        /\ UNCHANGED <<content, owner, overtaken, inDoubt>>
  /\ UNCHANGED <<alive, editor>>

\* session_open_file after the save; only then is the draft persisted.
Confirm ==
  /\ cmd.at = "confirm"
  /\ \/ Locks(cmd.session, cmd.path) /\ RecordCommit
     \/ LockFails(cmd.session, cmd.path) /\ Finish /\ UNCHANGED <<drafts, inDoubt>>
  /\ UNCHANGED <<index, gone, overtaken>>

-----------------------------------------------------------------------------
(* universal_file_close.                                                   *)

\* The check is made only of files the CA server has.
CloseIgnoringUnpersisted(s, p, writeFirst) ==
  LET draft == drafts[s][p]
      unlock == [at |-> "unlock", session |-> s, path |-> p, as |-> "close"]
  IN
  /\ cmd = Idle
  /\ IsOpen(s, p)
  /\ Verdicts(s) # {"NOT_FOUND"}
  /\ \/ (~draft.modified \/ ~draft.persisted) /\ cmd' = unlock
     \/ /\ draft.modified /\ draft.persisted /\ writeFirst /\ <<s, p>> \notin gone
        /\ BeginCommit(s, p, "close")
  /\ UNCHANGED <<ca, editor, overtaken, inDoubt>>

\* Unsaved edits are refused, or written first; an unmodified or an undone
\* draft goes on to its unlock.  Without its origin a modified draft stays.
Close(s, p, writeFirst) ==
  LET draft == drafts[s][p]
      unlock == [at |-> "unlock", session |-> s, path |-> p, as |-> "close"]
  IN
  /\ cmd = Idle
  /\ IsOpen(s, p)
  /\ Verdicts(s) # {"NOT_FOUND"}
  /\ \/ ~draft.modified /\ cmd' = unlock /\ UNCHANGED drafts
     \/ /\ draft.modified /\ draft.text = draft.origin /\ <<s, p>> \notin gone
        /\ drafts' = [drafts EXCEPT ![s][p] = [@ EXCEPT !.modified = FALSE]]
        /\ cmd' = unlock
     \/ /\ draft.modified /\ draft.text # draft.origin /\ writeFirst /\ <<s, p>> \notin gone
        /\ BeginCommit(s, p, "close")
        /\ UNCHANGED drafts
  /\ UNCHANGED <<ca, index, gone, overtaken, inDoubt>>

\* The drafts whose files lie in the directory that is removed with p's.
SharesDirectory(s, p) == {<<s, q>> : q \in {r \in Beneath[p] \ {p} : IsOpen(s, r)}}

\* session_close_file, for a file the CA server has, and the local cleanup.
CloseUnlock ==
  LET s == cmd.session  p == cmd.path IN
  /\ cmd.at = "unlock"
  /\ Finish
  /\ \/ /\ IF drafts[s][p].persisted THEN UnlockAnswers(s, p) ELSE UNCHANGED ca
        /\ Release({<<s, p>>})
        /\ gone' = (gone \cup SharesDirectory(s, p)) \ {<<s, p>>}
     \/ /\ drafts[s][p].persisted
        /\ UnlockRaises(s, p)
        /\ UNCHANGED <<editor, overtaken, inDoubt>>

-----------------------------------------------------------------------------
(* What happens beside the commands.                                       *)

\* The editor restarts; its registries are in memory only.
EditorRestart ==
  /\ Release(Sessions \X Paths)
  /\ gone' = {}
  /\ Finish
  /\ UNCHANGED ca

\* session_delete with force, by a client of the CA server.
SessionDelete(s) ==
  /\ s \in alive
  /\ alive' = alive \ {s}
  /\ owner' = [p \in Paths |-> IF owner[p] = s THEN Nobody ELSE owner[p]]
  /\ UNCHANGED <<content, editor, cmd, overtaken, inDoubt>>

OutsiderLocks(p) ==
  /\ owner[p] = Nobody
  /\ owner' = [owner EXCEPT ![p] = Outsider]
  /\ UNCHANGED <<content, alive, editor, cmd, overtaken, inDoubt>>

OutsiderSaves(p, text) ==
  /\ owner[p] = Outsider
  /\ text # content[p]
  /\ content' = [content EXCEPT ![p] = text]
  /\ Overtakes(Outsider, p)
  /\ UNCHANGED <<owner, alive, editor, cmd, inDoubt>>

OutsiderUnlocks(p) ==
  /\ owner[p] = Outsider
  /\ owner' = [owner EXCEPT ![p] = Nobody]
  /\ UNCHANGED <<content, alive, editor, cmd, overtaken, inDoubt>>

Next ==
  \/ \E s \in Sessions, p \in Paths :
       \/ \E as \in {"open", "create"} : OpenGuard(s, p, as)
       \/ \E text \in Texts : Edit(s, p, text)
       \/ Write(s, p)
       \/ \E writeFirst \in BOOLEAN : Close(s, p, writeFirst)
  \/ OpenLookup \/ OpenLock \/ OpenDownload \/ OpenFallback \/ OpenRescue \/ OpenCreate
  \/ Affirm \/ Relock \/ Upload \/ Create \/ Confirm
  \/ CloseUnlock
  \/ EditorRestart
  \/ \E s \in Sessions : MeetZombie(s) \/ SessionDelete(s)
  \/ \E p \in Paths :
       \/ OutsiderLocks(p) \/ OutsiderUnlocks(p)
       \/ \E text \in Texts : OutsiderSaves(p, text)

Spec == Init /\ [][Next]_vars

-----------------------------------------------------------------------------
(* Properties.                                                             *)

\* The two registries agree, and no file is open in two sessions: what
\* create_session, release_session and the purge keep up step by step.
IndexMatchesDrafts ==
  \A s \in Sessions, p \in Paths : index[p] = s <=> IsOpen(s, p)

\* A draft that may be written belongs to a session that holds the lock of its
\* file, from the open to the close, whatever fails in between: opens, failed
\* writes and refused closes never give the lock away.
DraftHoldsLock ==
  \A s \in alive, p \in Paths :
    (IsOpen(s, p) /\ drafts[s][p].persisted /\ ~drafts[s][p].readOnly) => owner[p] = s

\* A draft that close would let go without a word is what the CA server holds,
\* unless an upload of it took effect and was reported as failed: modified is
\* set by the first change and cleared by nothing but a commit or a comparison.
CleanMeansSaved ==
  \A s \in alive, p \in Paths :
    (/\ IsOpen(s, p) /\ drafts[s][p].persisted /\ ~drafts[s][p].readOnly
     /\ ~drafts[s][p].modified /\ <<s, p>> \notin inDoubt)
      => content[p] = drafts[s][p].text

\* A commit never replaces what another has saved since the draft was read:
\* the lock is taken before the download and held until the unlock of the close.
NoLostUpdate ==
  [][cmd.at \in {"upload", "create"} /\ cmd' # cmd /\ content' # content
       => <<cmd.session, cmd.path>> \notin overtaken]_vars

\* "A lost/stale lock fails as a write error" (ensure_session_file_lock): the
\* lock a commit re-affirms is one that its session has kept.
LostLockFails ==
  [][cmd.at = "relock" /\ cmd'.at = "upload" => owner[cmd.path] = cmd.session]_vars

\* Edits that were not committed.
Unsaved(s, p) ==
  IsOpen(s, p) /\ drafts[s][p].text # drafts[s][p].origin /\ <<s, p>> \notin gone

\* Edits are never silently discarded: they leave the workspace only with a
\* session the CA server no longer has, or when the editor restarts.
EditsKept ==
  [][\A s \in alive, p \in Paths :
       Unsaved(s, p) => \/ IsOpen(s, p)' /\ <<s, p>> \notin gone'
                        \/ EditorRestart]_vars
=============================================================================
