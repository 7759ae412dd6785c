------------------------- MODULE FileTxnConcurrent -------------------------
(***************************************************************************)
(* Two threads of control over one document's files: a writer that opens   *)
(* and publishes, and an opener whose StorageLifecycle.open runs recover() *)
(* meanwhile.  Nothing in the storage layer orders them: publish and       *)
(* recover take no lock.                                                   *)
(***************************************************************************)
CONSTANTS Entries, Values, Absent, Torn, Plans

VARIABLES target, temp, backup, journal, journalTmp,
          wjob, wpc, wtodo, wplan, whad, wvalue, wbaseline,
          ojob, opc, otodo, oplan, ohad, ovalue, obaseline

writer == <<wjob, wpc, wtodo, wplan, whad, wvalue, wbaseline>>
opener == <<ojob, opc, otodo, oplan, ohad, ovalue, obaseline>>
cvars  == <<target, temp, backup, journal, journalTmp, writer, opener>>

W == INSTANCE FileTxn WITH
       Caller <- "reopen", CrashPhases <- {}, FaultPhases <- {},
       ShortWrites <- FALSE,
       job <- wjob, pc <- wpc, todo <- wtodo, plan <- wplan, had <- whad,
       value <- wvalue, baseline <- wbaseline

O == INSTANCE FileTxn WITH
       Plans <- {}, Caller <- "reopen", CrashPhases <- {}, FaultPhases <- {},
       ShortWrites <- FALSE,
       job <- ojob, pc <- opc, todo <- otodo, plan <- oplan, had <- ohad,
       value <- ovalue, baseline <- obaseline

ConcurrentInit == W!Init /\ O!Init

WriterStep == W!Next /\ UNCHANGED opener
OpenerStep == O!Next /\ UNCHANGED writer

ConcurrentNext == WriterStep \/ OpenerStep

ConcurrentSpec == ConcurrentInit /\ [][ConcurrentNext]_cvars

-----------------------------------------------------------------------------
\* When publish() returns normally every target holds the bytes it was given,
\* an opener's recovery notwithstanding.
PublishDeliversToReaders == W!PublishDelivers
=============================================================================
