---------------------------- MODULE DatasetTables ----------------------------
(***************************************************************************)
(* One dataset: its row, its raw tables in ClickHouse, and the outbox      *)
(* handlers that fill it (a CSV import or the promotion of a work table)   *)
(* and replace its table (full refresh of a promoted dataset).  A table is *)
(* named by the job that makes it.                                         *)
(***************************************************************************)
EXTENDS OutboxHandlers

CONSTANTS Fill,     \* the event that fills the dataset
          SyncJob,  \* rows of dataset_sync_jobs
          Caller    \* requests for a sync

ASSUME DatasetAssumption == {Fill} \cup SyncJob \subseteq Job /\ Fill \notin SyncJob

VARIABLES
    ds,       \* the row: [live, status, raw, promoted]
    import,   \* status of the import job of a CSV dataset
    sync,     \* [SyncJob -> [status, old]]
    ask,      \* [Caller -> the raw table a sync request has read]
    mine,     \* the raw table the filling handler has read
    tables,   \* raw tables that exist
    full,     \* raw tables that hold all rows of their source
    dropping, \* the table a delete has still to drop
    blind,    \* history: an error was dropped, or told of an applied statement
    strayed   \* history: a table was replaced or deleted behind a handler's
              \* or a request's back

datasetVars == <<ds, import, sync, ask, mine, tables, full, dropping, blind, strayed>>

Table == {Fill} \cup SyncJob
JobStatus  == {"absent", "pending", "processing", "completed", "failed"}
SyncActive == {"pending", "processing"}
FillStep   == {"load", "mark", "table", "rows", "complete", "ready", "failjob", "failset"}
SyncStep   == {"check", "copy", "commit", "cleanup", "undo", "fail"}

DatasetTypeOK ==
    /\ HandlersTypeOK({Fill}, FillStep)
    /\ HandlersTypeOK(SyncJob, SyncStep)
    /\ ds \in [live : BOOLEAN, raw : Table, promoted : BOOLEAN,
               status : {"absent", "pending", "importing", "ready", "failed", "deleted"}]
    /\ import \in JobStatus
    /\ sync \in [SyncJob -> [status : JobStatus, old : Table]]
    /\ ask \in [Caller -> Table \cup {NoJob}]
    /\ mine \in Table
    /\ tables \subseteq Table
    /\ full \subseteq tables
    /\ dropping \in Table \cup {NoJob}
    /\ blind \in BOOLEAN /\ strayed \in BOOLEAN

DatasetInit ==
    /\ HandlersInit
    /\ ds = [live |-> FALSE, status |-> "absent", raw |-> Fill, promoted |-> FALSE]
    /\ import = "absent"
    /\ sync = [s \in SyncJob |-> [status |-> "absent", old |-> Fill]]
    /\ ask = [u \in Caller |-> NoJob]
    /\ mine = Fill
    /\ tables = {} /\ full = {}
    /\ dropping = NoJob
    /\ blind = FALSE /\ strayed = FALSE

-----------------------------------------------------------------------------
(* Requests.                                                               *)

(* CreateFromSourceFile or PromoteWorkTable: dataset, import job of a file *)
(* and event in one transaction.                                           *)
CreateDataset ==
    /\ ds.status = "absent"
    /\ \E p \in BOOLEAN :
          /\ ds' = [ds EXCEPT !.live = TRUE, !.status = "pending", !.promoted = p]
          /\ import' = IF p THEN import ELSE "pending"
    /\ Enqueue(Fill)
    /\ UNCHANGED <<sync, ask, mine, tables, full, dropping, blind, strayed, faults>>

(* RequestDatasetSync reads the dataset, of whatever status ...            *)
ReadForSync(u) ==
    /\ ask[u] = NoJob
    /\ ds.live /\ ds.promoted
    /\ ask' = [ask EXCEPT ![u] = ds.raw]
    /\ UNCHANGED <<handlerVars, ds, import, sync, mine, tables, full, dropping, blind, strayed>>

SyncUnderWay == \E s \in SyncJob : sync[s].status \in SyncActive

NextSync == CHOOSE s \in SyncJob : sync[s].status = "absent"

(* ... and creates the job that will replace the table it has read, unless *)
(* a job is active: the unique index.                                      *)
RequestDatasetSync(u) ==
    /\ ask[u] # NoJob
    /\ ask' = [ask EXCEPT ![u] = NoJob]
    /\ IF SyncUnderWay
       THEN UNCHANGED <<sync, strayed, handlerVars>>
       ELSE \E s \in SyncJob :
               /\ sync[s].status = "absent" /\ s = NextSync
               /\ sync' = [sync EXCEPT ![s] = [status |-> "pending", old |-> ask[u]]]
               /\ strayed' = (strayed \/ ask[u] # ds.raw)
               /\ Enqueue(s) /\ Unfailing
    /\ UNCHANGED <<ds, import, mine, tables, full, dropping, blind>>

(* Delete: the row first, then its table, best effort.                     *)
SoftDelete ==
    /\ ds.live
    /\ ds' = [ds EXCEPT !.live = FALSE, !.status = "deleted"]
    /\ dropping' = ds.raw
    /\ strayed' = (strayed \/ InHand(Fill))
    /\ UNCHANGED <<handlerVars, import, sync, ask, mine, tables, full, blind>>

DropDeleted ==
    /\ dropping # NoJob
    /\ dropping' = NoJob
    /\ \/ /\ tables' = tables \ {dropping} /\ full' = full \ {dropping}
          /\ Unfailing
       \/ Fault /\ UNCHANGED <<tables, full>>
    /\ UNCHANGED <<eventVars, at, ds, import, sync, ask, mine, blind, strayed>>

-----------------------------------------------------------------------------
(* The handlers.                                                           *)

Asking == <<ask, dropping, strayed>>  \* what only requests change

(* HandleImportRequested returns at once if the job is completed; nothing  *)
(* else looks at the job's status.  HandleWorkTablePromotionRequested has  *)
(* no job.                                                                 *)
BeginFill ==
    /\ \/ /\ ds.promoted \/ import # "completed"
          /\ Begin(Fill, "load")
          /\ import' = IF ds.promoted THEN import ELSE "processing"
       \/ /\ ~ds.promoted /\ import = "completed"
          /\ Answer(Fill, TRUE)
          /\ UNCHANGED import
    /\ UNCHANGED <<ds, sync, mine, tables, full, blind, Asking>> /\ Unfailing

BeginFillError ==
    /\ Answer(Fill, FALSE)
    /\ import' \in {import} \cup IF ds.promoted \/ import = "completed" THEN {}
                                 ELSE {"processing"}
    /\ Fault
    /\ UNCHANGED <<ds, sync, mine, tables, full, blind, Asking>>

(* The dataset is read.  A deleted one fails the import; a promotion        *)
(* returns the error, and fails the dataset if its source table is lost.   *)
ReadDataset ==
    /\ at[Fill] = "load"
    /\ \/ /\ ds.live
          /\ mine' = ds.raw
          /\ Goto(Fill, "mark") /\ Unfailing
       \/ /\ ds.live /\ ds.promoted
          /\ Goto(Fill, "failset") /\ Unfailing
          /\ UNCHANGED mine
       \/ /\ IF ds.live THEN Fault ELSE Unfailing
          /\ IF ds.promoted THEN Return(Fill, FALSE) ELSE Goto(Fill, "failjob")
          /\ UNCHANGED mine
    /\ UNCHANGED <<ds, import, sync, tables, full, blind, Asking>>

(* MarkDatasetImporting does not look at deleted_at; its error is dropped. *)
MarkImporting ==
    /\ at[Fill] = "mark"
    /\ Goto(Fill, "table")
    /\ \/ ds' = [ds EXCEPT !.status = "importing"] /\ Unfailing /\ UNCHANGED blind
       \/ ds' \in {ds, [ds EXCEPT !.status = "importing"]} /\ Fault /\ blind' = TRUE
    /\ UNCHANGED <<import, sync, mine, tables, full, Asking>>

(* DROP TABLE IF EXISTS and CREATE TABLE; for a promotion the rows come    *)
(* with the table.                                                         *)
MakeTable_KeepsOld ==
    /\ at[Fill] = "table"
    /\ tables' = tables \cup {mine}
    /\ Goto(Fill, IF ds.promoted THEN "ready" ELSE "rows")
    /\ UNCHANGED <<ds, import, sync, mine, full, blind, Asking>> /\ Unfailing

MakeTable ==
    /\ at[Fill] = "table"
    /\ \/ /\ tables' = tables \cup {mine}
          /\ full' = IF ds.promoted THEN full \cup {mine} ELSE full \ {mine}
          /\ Goto(Fill, IF ds.promoted THEN "ready" ELSE "rows")
       \/ /\ tables' \in {tables, tables \ {mine}}
          /\ full' = full \cap tables'
          /\ Goto(Fill, IF ds.promoted THEN "failset" ELSE "failjob")
    /\ UNCHANGED <<ds, import, sync, mine, blind, Asking>> /\ Unfailing

(* The batches of rows.                                                    *)
InsertRows ==
    /\ at[Fill] = "rows"
    /\ \/ mine \in tables /\ full' = full \cup {mine} /\ Goto(Fill, "complete")
       \/ UNCHANGED full /\ Goto(Fill, "failjob")
    /\ UNCHANGED <<ds, import, sync, mine, tables, blind, Asking>> /\ Unfailing

CompleteImport ==
    /\ at[Fill] = "complete"
    /\ \/ import' = "completed" /\ Goto(Fill, "ready") /\ Unfailing
       \/ import' \in {import, "completed"} /\ Return(Fill, FALSE) /\ Fault
    /\ UNCHANGED <<ds, sync, mine, tables, full, blind, Asking>>

(* MarkDatasetReady does not look at deleted_at.                           *)
MarkReady ==
    /\ at[Fill] = "ready"
    /\ \/ ds' = [ds EXCEPT !.status = "ready"] /\ Return(Fill, TRUE) /\ Unfailing /\ UNCHANGED blind
       \/ ds' = [ds EXCEPT !.status = "ready"] /\ Return(Fill, FALSE) /\ Fault /\ blind' = TRUE
       \/ Return(Fill, FALSE) /\ Fault /\ UNCHANGED <<ds, blind>>
    /\ UNCHANGED <<import, sync, mine, tables, full, Asking>>

(* failImport: two marks whose errors are dropped; the cause is returned.  *)
FailImportJob ==
    /\ at[Fill] = "failjob"
    /\ Goto(Fill, "failset")
    /\ \/ import' = "failed" /\ Unfailing
       \/ UNCHANGED import /\ Fault
    /\ UNCHANGED <<ds, sync, mine, tables, full, blind, Asking>>

MarkDatasetFailed_Acknowledged ==
    /\ at[Fill] = "failset"
    /\ Return(Fill, TRUE)
    /\ UNCHANGED <<datasetVars, faults>>

MarkDatasetFailed ==
    /\ at[Fill] = "failset"
    /\ Return(Fill, FALSE)
    /\ \/ ds' = [ds EXCEPT !.status = "failed"] /\ Unfailing
       \/ UNCHANGED ds /\ Fault
    /\ UNCHANGED <<import, sync, mine, tables, full, blind, Asking>>

-----------------------------------------------------------------------------
(* HandleDatasetSyncRequested.                                             *)

SetSync(s, st) == sync' = [sync EXCEPT ![s].status = st]

BeginSync(s) ==
    /\ \/ /\ sync[s].status \in SyncActive
          /\ Begin(s, "check")
          /\ SetSync(s, "processing")
       \/ /\ sync[s].status \notin SyncActive
          /\ Answer(s, TRUE)
          /\ UNCHANGED sync
    /\ UNCHANGED <<ds, import, mine, tables, full, blind, Asking>> /\ Unfailing

BeginSyncError(s) ==
    /\ Answer(s, FALSE)
    /\ \/ sync[s].status \in SyncActive /\ SetSync(s, "processing")
       \/ UNCHANGED sync
    /\ Fault
    /\ UNCHANGED <<ds, import, mine, tables, full, blind, Asking>>

(* The dataset is read, and the work table, which may be gone.             *)
CheckSync(s) ==
    /\ at[s] = "check"
    /\ \/ ds.live /\ Goto(s, "copy")
       \/ Goto(s, "fail")
    /\ UNCHANGED <<datasetVars, faults>>

CopyTable(s) ==
    /\ at[s] = "copy"
    /\ \/ /\ tables' = tables \cup {s} /\ full' = full \cup {s}
          /\ Goto(s, "commit")
       \/ /\ tables' = tables \ {s} /\ full' = full \ {s}
          /\ Goto(s, "undo")
    /\ UNCHANGED <<ds, import, sync, mine, blind, Asking>> /\ Unfailing

(* commitDatasetFullRefresh, one transaction: it needs the dataset not     *)
(* deleted.                                                                *)
SwapTable(s) ==
    /\ ds.live
    /\ strayed' = (strayed \/ InHand(Fill))
    /\ ds' = [ds EXCEPT !.raw = s, !.status = "ready"]
    /\ SetSync(s, "completed")

CommitRefresh_Unguarded(s) ==
    /\ at[s] = "commit"
    /\ ds' = [ds EXCEPT !.raw = s, !.status = "ready"]
    /\ UNCHANGED <<sync, strayed>>
    /\ Goto(s, "undo") /\ Unfailing
    /\ UNCHANGED <<import, mine, tables, full, ask, dropping, blind>>

CommitRefresh(s) ==
    /\ at[s] = "commit"
    /\ \/ /\ SwapTable(s) /\ Goto(s, "cleanup") /\ Unfailing /\ UNCHANGED blind
       \/ /\ SwapTable(s) /\ Goto(s, "undo") /\ Fault /\ blind' = TRUE
       \/ /\ Goto(s, "undo") /\ UNCHANGED <<ds, sync, blind, strayed>>
          /\ \/ ~ds.live /\ Unfailing
             \/ Fault
    /\ UNCHANGED <<import, mine, tables, full, ask, dropping>>

(* The table the job was asked to replace is dropped, best effort.         *)
DropOldTable(s) ==
    LET t == sync[s].old IN
    /\ at[s] = "cleanup"
    /\ Return(s, TRUE)
    /\ \/ tables' = tables \ {t} /\ full' = full \ {t} /\ Unfailing
       \/ UNCHANGED <<tables, full>> /\ Fault
    /\ UNCHANGED <<ds, import, sync, mine, blind, Asking>>

(* The new table is dropped, best effort, and the job failed.              *)
UndoCopy_Skipped(s) ==
    /\ at[s] = "undo"
    /\ Goto(s, "fail")
    /\ UNCHANGED <<datasetVars, faults>>

UndoCopy(s) ==
    /\ at[s] = "undo"
    /\ Goto(s, "fail")
    /\ \/ tables' = tables \ {s} /\ full' = full \ {s} /\ Unfailing
       \/ UNCHANGED <<tables, full>> /\ Fault
    /\ UNCHANGED <<ds, import, sync, mine, blind, Asking>>

FailSync(s) ==
    /\ at[s] = "fail"
    /\ Return(s, TRUE)
    /\ \/ /\ IF sync[s].status \in SyncActive THEN SetSync(s, "failed") ELSE UNCHANGED sync
          /\ Unfailing
       \/ UNCHANGED sync /\ Fault
    /\ UNCHANGED <<ds, import, mine, tables, full, blind, Asking>>

(* The context is done: the statement in progress fails, and so do the     *)
(* marks of the failure.  A sync returns nil all the same.                 *)
ExpireHandler(j) ==
    /\ at[j] \in (FillStep \cup SyncStep) \ {"cleanup"}
    /\ Return(j, j # Fill)
    /\ Fault
    /\ UNCHANGED datasetVars

-----------------------------------------------------------------------------
FillStepTaken == \/ BeginFill
                 \/ ReadDataset
                 \/ MarkImporting
                 \/ MakeTable
                 \/ InsertRows
                 \/ CompleteImport
                 \/ MarkReady
                 \/ FailImportJob
                 \/ MarkDatasetFailed

SyncStepTaken(s) == \/ BeginSync(s)
                    \/ CheckSync(s)
                    \/ CopyTable(s)
                    \/ CommitRefresh(s)
                    \/ DropOldTable(s)
                    \/ UndoCopy(s)
                    \/ FailSync(s)

DatasetNext ==
    \/ CreateDataset \/ SoftDelete \/ DropDeleted
    \/ \E u \in Caller : ReadForSync(u) \/ RequestDatasetSync(u)
    \/ FillStepTaken \/ BeginFillError
    \/ \E s \in SyncJob : SyncStepTaken(s) \/ BeginSyncError(s)
    \/ \E j \in Table : \/ ExpireHandler(j)
                        \/ OutboxStep(j) /\ UNCHANGED datasetVars

(* The workers poll and their handlers go on to the next statement.        *)
DatasetFairness ==
    /\ WF_<<handlerVars, datasetVars>>(FillStepTaken)
    /\ \A s \in SyncJob : WF_<<handlerVars, datasetVars>>(SyncStepTaken(s))

DatasetSpec == /\ DatasetInit
               /\ [][DatasetNext]_<<handlerVars, datasetVars>>
               /\ DatasetFairness

-----------------------------------------------------------------------------
(* Properties.                                                             *)

(* A dataset that readers see as ready has its table, with all rows,       *)
(* however imports, promotions, refreshes and their retries interleave, as *)
(* long as no statement's error was dropped or wrong.                      *)
ReadyIsFull == ds.live /\ ds.status = "ready" /\ ~blind => ds.raw \in full

(* The table a sync was asked to replace is never dropped while the        *)
(* dataset is served from it: a sync that does not commit leaves the       *)
(* dataset as it was, and the dataset is never served from the table of a  *)
(* sync that did not complete.                                             *)
ServedTableCommitted ==
    /\ ds.raw \in SyncJob => sync[ds.raw].status = "completed"
    /\ \A s \in SyncJob : at[s] = "cleanup" => sync[s].old # ds.raw

(* No raw table is left behind: each is the dataset's, or is being made,   *)
(* replaced or dropped, unless something failed, or a dataset was synced   *)
(* or deleted while its handler filled the table it had read, or a sync    *)
(* was requested for a table that had been replaced since it was read.     *)
NoStrayTable ==
    \A t \in tables :
        \/ ds.raw = t /\ ds.live
        \/ t = dropping
        \/ \E s \in SyncJob : \/ s = t /\ at[s] \in {"commit", "undo"}
                              \/ at[s] = "cleanup" /\ sync[s].old = t
        \/ strayed \/ faults > 0

(* The tables of the work database are those the rows account for: the one *)
(* the dataset is served from is there, full and committed, and no other   *)
(* is left.                                                                *)
TablesAccounted == ReadyIsFull /\ ServedTableCommitted /\ NoStrayTable

(* Something has failed, and no call of the handler is left to make it     *)
(* good: its worker is lost, the import's job was completed before the     *)
(* dataset was ready, or the attempts are used up.  The handler of a sync  *)
(* acknowledges its event whatever became of its marks.                    *)
FillForsaken ==
    faults > 0 /\ (\/ at[Fill] = "lost"
                   \/ import = "completed"
                   \/ tries[Fill] = MaxAttempts /\ ~ok[Fill])

SyncForsaken(s) == faults > 0 /\ (at[s] = "lost" \/ ok[s] \/ tries[s] = MaxAttempts)

(* A dataset that is being filled is eventually ready, failed or deleted,  *)
(* and a sync eventually completed or failed: a statement that fails is    *)
(* made good by the next attempt, unless no attempt can.                   *)
JobsSettle ==
    /\ (ds.live /\ ds.status \in {"pending", "importing"}) ~>
          (~ds.live \/ ds.status \in {"ready", "failed"} \/ FillForsaken)
    /\ \A s \in SyncJob :
          (sync[s].status \in SyncActive) ~>
             (sync[s].status \in {"completed", "failed"} \/ SyncForsaken(s))
=============================================================================
