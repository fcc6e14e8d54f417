---------------------------- MODULE DatasetProofs ----------------------------
(***************************************************************************)
(* Proofs about the tables of a dataset, for any number of syncs, requests,*)
(* attempts and faults.                                                    *)
(***************************************************************************)
EXTENDS DatasetTables, HandlerProofs

DatasetRow == [live : BOOLEAN, raw : Table, promoted : BOOLEAN,
               status : {"absent", "pending", "importing", "ready", "failed", "deleted"}]

DatasetRowsOK ==
    /\ ds \in DatasetRow
    /\ import \in JobStatus
    /\ sync \in [SyncJob -> [status : JobStatus, old : Table]]
    /\ ask \in [Caller -> Table \cup {NoJob}]
    /\ mine \in Table
    /\ tables \subseteq Table
    /\ full \subseteq tables
    /\ dropping \in Table \cup {NoJob}
    /\ at[Fill] \in FillStep \cup {"idle", "lost"}
    /\ \A s \in SyncJob : at[s] \in SyncStep \cup {"idle", "lost"}

HistoryOK == blind \in BOOLEAN /\ strayed \in BOOLEAN

(* A table that is the dataset's or once was: no sync is about to make it. *)
Served(t) == t \in SyncJob => sync[t].status = "completed"

ServedOK ==
    /\ Served(ds.raw) /\ Served(mine) /\ Served(dropping)
    /\ \A u \in Caller : Served(ask[u])
    /\ \A s \in SyncJob : Served(sync[s].old)
    /\ dropping # NoJob => ~ds.live /\ ds.status # "absent"

OneSync ==
    \A s, t \in SyncJob : sync[s].status \in SyncActive /\ sync[t].status \in SyncActive => s = t

(* A handler of a sync is at work on a row of its own, and has copied what *)
(* it is about to commit; what it then drops is not served.                *)
SyncOK(s) ==
    /\ at[s] \in {"check", "copy", "commit"} => sync[s].status = "processing"
    /\ at[s] = "undo" => sync[s].status = "processing" \/ blind
    /\ at[s] = "cleanup" => sync[s].status = "completed" /\ sync[s].old # ds.raw
    /\ at[s] = "commit" => s \in full

(* The dataset's table is full, or being filled and the dataset not ready. *)
FullOK ==
    ds.live /\ ~blind =>
        /\ at[Fill] = "table" /\ mine = ds.raw => ds.status # "ready"
        /\ \/ ds.raw \in full
           \/ /\ ds.status # "ready"
              /\ at[Fill] \notin {"complete", "ready"}
              /\ at[Fill] \in {"mark", "table", "rows"} => mine = ds.raw

(* Why a table is there.                                                   *)
Kept(t) ==
    \/ ds.raw = t /\ ds.live
    \/ t = dropping
    \/ \E s \in SyncJob : \/ s = t /\ at[s] \in {"commit", "undo"}
                          \/ at[s] = "cleanup" /\ sync[s].old = t

StrayOK ==
    strayed \/ faults > 0 \/
        /\ at[Fill] \in {"mark", "table"} => mine = ds.raw /\ ds.live
        /\ \A s \in SyncJob : sync[s].status \in SyncActive => sync[s].old = ds.raw
        /\ \A t \in tables : Kept(t)

DatasetInv ==
    /\ HandlersOK /\ DatasetRowsOK /\ HistoryOK /\ ServedOK /\ OneSync
    /\ \A s \in SyncJob : SyncOK(s)
    /\ FullOK /\ StrayOK

LEMMA DatasetInvInit == DatasetInit => DatasetInv
<1> SUFFICES ASSUME DatasetInit PROVE DatasetInv
  OBVIOUS
<1> USE DatasetAssumption, HandlerAssumption
<1>1. HandlersOK
  BY HandlersOKInit DEF DatasetInit
<1>2. at = [j \in Job |-> "idle"]
  BY DEF DatasetInit, HandlersInit
<1>3. DatasetRowsOK
  BY <1>2 DEF DatasetInit, DatasetRowsOK, DatasetRow, Table, JobStatus
<1>4. HistoryOK
  BY DEF DatasetInit, HistoryOK
<1>5. ServedOK /\ OneSync /\ FullOK /\ StrayOK /\ \A s \in SyncJob : SyncOK(s)
  BY <1>2 DEF DatasetInit, ServedOK, Served, OneSync, FullOK, StrayOK, SyncOK, SyncActive
<1> QED
  BY <1>1, <1>3, <1>4, <1>5 DEF DatasetInv

LEMMA DatasetInvShows == DatasetInv => TablesAccounted /\ DatasetTypeOK
<1> SUFFICES ASSUME DatasetInv PROVE TablesAccounted /\ DatasetTypeOK
  OBVIOUS
<1>1. ReadyIsFull
  BY DEF DatasetInv, FullOK, ReadyIsFull
<1>2. ServedTableCommitted
  BY DEF DatasetInv, ServedOK, Served, SyncOK, ServedTableCommitted
<1>3. NoStrayTable
  <2>1. faults \in Nat
    BY DEF DatasetInv, HandlersOK, FaultsTypeOK
  <2> QED
    BY <2>1 DEF DatasetInv, StrayOK, Kept, NoStrayTable
<1>4. DatasetTypeOK
  BY DEF DatasetInv, DatasetRowsOK, HistoryOK, DatasetRow, HandlersOK, DatasetTypeOK, HandlersTypeOK
<1> QED
  BY <1>1, <1>2, <1>3, <1>4 DEF TablesAccounted

-----------------------------------------------------------------------------
(* Requests.                                                               *)

LEMMA DatasetFaults ==
  ASSUME DatasetInv, AnyFault
  PROVE  /\ faults \in Nat /\ faults' \in Nat /\ (faults' > 0 \/ faults = 0)
         /\ Fault => faults' > 0
BY FaultsGrow DEF DatasetInv, HandlersOK

LEMMA CreateDatasetInv == ASSUME DatasetInv, CreateDataset PROVE DatasetInv'
<1> USE DatasetAssumption
<1>1. PICK p \in BOOLEAN :
        /\ ds' = [ds EXCEPT !.live = TRUE, !.status = "pending", !.promoted = p]
        /\ import' = IF p THEN import ELSE "pending"
  BY DEF CreateDataset
<1>2. /\ Enqueue(Fill) /\ AnyFault /\ ds.status = "absent"
      /\ UNCHANGED <<sync, ask, mine, tables, full, dropping, blind, strayed, faults>>
  BY DEF CreateDataset, AnyFault, Unfailing
<1>3. HandlersOK' /\ fate[Fill] = "absent"
  BY <1>2, EnqueueKeeps DEF DatasetInv
<1>4. at[Fill] = "idle" /\ at' = at
  BY <1>2, <1>3 DEF DatasetInv, HandlersOK, EventOK, Enqueue
<1>5. /\ ds \in DatasetRow /\ ds' \in DatasetRow
      /\ ds'.live /\ ds'.raw = ds.raw /\ ds'.status = "pending"
  BY <1>1 DEF DatasetInv, DatasetRowsOK, DatasetRow
<1>6. DatasetRowsOK' /\ HistoryOK'
  BY <1>1, <1>2, <1>4, <1>5 DEF DatasetInv, DatasetRowsOK, HistoryOK, JobStatus
<1>7. ServedOK' /\ OneSync' /\ \A s \in SyncJob : SyncOK(s)'
  BY <1>2, <1>4, <1>5 DEF DatasetInv, ServedOK, Served, OneSync, SyncOK
<1>8. FullOK'
  BY <1>2, <1>4, <1>5 DEF FullOK
<1>9. StrayOK'
  BY <1>2, <1>4, <1>5 DEF DatasetInv, StrayOK, Kept
<1> QED
  BY <1>3, <1>6, <1>7, <1>8, <1>9 DEF DatasetInv

LEMMA ReadForSyncInv == ASSUME DatasetInv, NEW u \in Caller, ReadForSync(u) PROVE DatasetInv'
<1>1. /\ UNCHANGED <<fate, tries, ok, at, faults>>
      /\ UNCHANGED <<ds, import, sync, mine, tables, full, dropping, blind, strayed>>
      /\ ask' = [ask EXCEPT ![u] = ds.raw]
  BY DEF ReadForSync, handlerVars
<1>2. HandlersOK'
  BY <1>1 DEF DatasetInv, HandlersOK, EventOK, InHand, FaultsTypeOK
<1>3. DatasetRowsOK' /\ HistoryOK'
  BY <1>1 DEF DatasetInv, DatasetRowsOK, HistoryOK, DatasetRow
<1>4. ServedOK'
  BY <1>1 DEF DatasetInv, DatasetRowsOK, ServedOK, Served
<1>5. OneSync' /\ (\A s \in SyncJob : SyncOK(s)') /\ FullOK' /\ StrayOK'
  BY <1>1 DEF DatasetInv, OneSync, SyncOK, FullOK, StrayOK, Kept
<1> QED
  BY <1>2, <1>3, <1>4, <1>5 DEF DatasetInv

LEMMA RequestDatasetSyncInv ==
  ASSUME DatasetInv, NEW u \in Caller, RequestDatasetSync(u) PROVE DatasetInv'
<1> USE DatasetAssumption
<1>1. /\ ask[u] # NoJob /\ ask' = [ask EXCEPT ![u] = NoJob]
      /\ UNCHANGED <<ds, import, mine, tables, full, dropping, blind>>
  BY DEF RequestDatasetSync
<1>2. NoJob \notin SyncJob
  BY HandlerAssumption
<1>3. ask[u] \in Table /\ Served(ask[u]) /\ ask' \in [Caller -> Table \cup {NoJob}]
  BY <1>1 DEF DatasetInv, DatasetRowsOK, ServedOK
<1>4. CASE UNCHANGED <<sync, strayed, handlerVars>>
  <2>1. UNCHANGED <<fate, tries, ok, at, faults, sync, strayed>>
    BY <1>4 DEF handlerVars
  <2>2. HandlersOK'
    BY <2>1 DEF DatasetInv, HandlersOK, EventOK, InHand, FaultsTypeOK
  <2>3. DatasetRowsOK' /\ HistoryOK'
    BY <1>1, <1>3, <2>1 DEF DatasetInv, DatasetRowsOK, HistoryOK, DatasetRow
  <2>4. ServedOK'
    BY <1>1, <1>2, <1>3, <2>1 DEF DatasetInv, DatasetRowsOK, ServedOK, Served
  <2>5. OneSync' /\ (\A s \in SyncJob : SyncOK(s)') /\ FullOK' /\ StrayOK'
    BY <1>1, <2>1 DEF DatasetInv, OneSync, SyncOK, FullOK, StrayOK, Kept
  <2> QED
    BY <2>2, <2>3, <2>4, <2>5 DEF DatasetInv
<1>5. ASSUME NEW s \in SyncJob, ~SyncUnderWay, sync[s].status = "absent",
             sync' = [sync EXCEPT ![s] = [status |-> "pending", old |-> ask[u]]],
             strayed' = (strayed \/ ask[u] # ds.raw),
             Enqueue(s), Unfailing
      PROVE  DatasetInv'
  <2>1. AnyFault /\ faults' = faults
    BY <1>5 DEF AnyFault, Unfailing
  <2>2. HandlersOK' /\ fate[s] = "absent" /\ at' = at
    BY <1>5, <2>1, EnqueueKeeps DEF DatasetInv, Enqueue
  <2>3. at[s] = "idle"
    BY <2>2 DEF DatasetInv, HandlersOK, EventOK
  <2>4. HistoryOK' /\ (~strayed' => ~strayed /\ ask[u] = ds.raw)
    BY <1>1, <1>5 DEF DatasetInv, HistoryOK
  <2>5. /\ sync' \in [SyncJob -> [status : JobStatus, old : Table]]
        /\ sync'[s].status = "pending" /\ sync'[s].old = ask[u]
        /\ \A t \in SyncJob \ {s} : sync'[t] = sync[t]
    BY <1>3, <1>5 DEF DatasetInv, DatasetRowsOK, JobStatus
  <2>6. DatasetRowsOK'
    BY <1>1, <1>3, <2>2, <2>5 DEF DatasetInv, DatasetRowsOK, DatasetRow
  <2>7. \A t : Served(t) => Served(t)'
    BY <1>5, <2>5 DEF Served
  <2>8. ServedOK'
    <3>1. /\ Served(ds.raw)' /\ Served(mine)' /\ Served(dropping)'
          /\ (dropping # NoJob => ~ds.live /\ ds.status # "absent")'
      BY <1>1, <2>7 DEF DatasetInv, ServedOK
    <3>2. ASSUME NEW v \in Caller PROVE Served(ask[v])'
      BY <1>1, <1>2, <2>7 DEF DatasetInv, ServedOK, DatasetRowsOK, Served
    <3>3. ASSUME NEW t \in SyncJob PROVE Served(sync[t].old)'
      BY <1>3, <2>5, <2>7 DEF DatasetInv, ServedOK
    <3> QED
      BY <3>1, <3>2, <3>3 DEF ServedOK
  <2>9. \A t \in SyncJob : sync[t].status \notin SyncActive
    BY <1>5 DEF SyncUnderWay
  <2>10. OneSync'
    BY <2>5, <2>9 DEF OneSync
  <2>11. \A t \in SyncJob : SyncOK(t)'
    BY <1>1, <2>2, <2>3, <2>5 DEF DatasetInv, SyncOK
  <2>12. FullOK'
    BY <1>1, <2>2 DEF DatasetInv, FullOK
  <2>13. ASSUME ~strayed', ~(faults' > 0) PROVE StrayOK'
    <3>1. ~strayed /\ ~(faults > 0) /\ ask[u] = ds.raw
      BY <2>1, <2>4, <2>13
    <3>2. /\ at[Fill] \in {"mark", "table"} => mine = ds.raw /\ ds.live
          /\ \A t \in tables : Kept(t)
      BY <3>1 DEF DatasetInv, StrayOK
    <3>3. \A t \in tables : Kept(t)'
      BY <1>1, <2>2, <2>3, <2>5, <3>2 DEF Kept
    <3>4. \A t \in SyncJob : sync'[t].status \in SyncActive => sync'[t].old = ds.raw
      BY <2>5, <2>9, <3>1
    <3> QED
      BY <1>1, <2>2, <3>2, <3>3, <3>4 DEF StrayOK
  <2>14. StrayOK'
    BY <2>13 DEF StrayOK
  <2> QED
    BY <2>2, <2>4, <2>6, <2>8, <2>10, <2>11, <2>12, <2>14 DEF DatasetInv
<1> QED
  BY <1>4, <1>5 DEF RequestDatasetSync

LEMMA SoftDeleteInv == ASSUME DatasetInv, SoftDelete PROVE DatasetInv'
<1> USE DatasetAssumption
<1>1. /\ UNCHANGED <<fate, tries, ok, at, faults>>
      /\ UNCHANGED <<import, sync, ask, mine, tables, full, blind>>
      /\ ds.live /\ ds' = [ds EXCEPT !.live = FALSE, !.status = "deleted"]
      /\ dropping' = ds.raw
  BY DEF SoftDelete, handlerVars
<1>2. HistoryOK' /\ (~strayed' => ~strayed /\ ~InHand(Fill))
  BY <1>1 DEF DatasetInv, HistoryOK, SoftDelete
<1>3. ds \in DatasetRow /\ ds' \in DatasetRow /\ ~ds'.live /\ ds'.raw = ds.raw /\ ds'.status = "deleted"
  BY <1>1 DEF DatasetInv, DatasetRowsOK, DatasetRow
<1>4. HandlersOK'
  BY <1>1 DEF DatasetInv, HandlersOK, EventOK, InHand, FaultsTypeOK
<1>5. DatasetRowsOK'
  BY <1>1, <1>3 DEF DatasetInv, DatasetRowsOK, DatasetRow
<1>6. ServedOK' /\ OneSync' /\ (\A s \in SyncJob : SyncOK(s)') /\ FullOK'
  BY <1>1, <1>3 DEF DatasetInv, ServedOK, Served, OneSync, SyncOK, FullOK
<1>7. dropping = NoJob
  BY <1>1 DEF DatasetInv, ServedOK
<1>8. ASSUME ~strayed', ~(faults' > 0) PROVE StrayOK'
  <2>1. ~strayed /\ ~(faults > 0) /\ at[Fill] \notin {"mark", "table"}
    BY <1>1, <1>2, <1>8 DEF InHand
  <2>2. /\ \A s \in SyncJob : sync[s].status \in SyncActive => sync[s].old = ds.raw
        /\ \A t \in tables : Kept(t)
    BY <2>1 DEF DatasetInv, StrayOK
  <2>3. ASSUME NEW t \in tables PROVE Kept(t)'
    <3>1. t # NoJob
      BY HandlerAssumption DEF DatasetInv, DatasetRowsOK, Table
    <3> QED
      BY <1>1, <1>3, <1>7, <2>2, <3>1 DEF Kept
  <2> QED
    BY <1>1, <1>3, <2>1, <2>2, <2>3 DEF StrayOK
<1>9. StrayOK'
  BY <1>8 DEF StrayOK
<1> QED
  BY <1>2, <1>4, <1>5, <1>6, <1>9 DEF DatasetInv

LEMMA DropDeletedInv == ASSUME DatasetInv, DropDeleted PROVE DatasetInv'
<1> USE DatasetAssumption
<1>1. /\ UNCHANGED <<eventVars, at>> /\ AnyFault
      /\ UNCHANGED <<ds, import, sync, ask, mine, blind, strayed>>
      /\ dropping # NoJob /\ dropping' = NoJob
      /\ \/ tables' = tables \ {dropping} /\ full' = full \ {dropping} /\ faults' = faults
         \/ Fault /\ UNCHANGED <<tables, full>>
  BY DEF DropDeleted, AnyFault, Unfailing
<1>2. HandlersOK' /\ at' = at
  BY <1>1, NoEventKeeps DEF DatasetInv
<1>3. DatasetRowsOK' /\ HistoryOK'
  BY <1>1, <1>2 DEF DatasetInv, DatasetRowsOK, HistoryOK, DatasetRow
<1>4. NoJob \notin SyncJob
  BY HandlerAssumption
<1>5. ServedOK' /\ OneSync'
  BY <1>1, <1>4 DEF DatasetInv, ServedOK, Served, OneSync
<1>6. ~ds.live /\ Served(dropping)
  BY <1>1 DEF DatasetInv, ServedOK
<1>7. \A s \in SyncJob : SyncOK(s)'
  BY <1>1, <1>2, <1>6 DEF DatasetInv, SyncOK, Served
<1>8. FullOK'
  BY <1>1, <1>6 DEF FullOK
<1>9. StrayOK'
  <2>1. CASE Fault
    BY <1>1, <2>1, DatasetFaults DEF StrayOK
  <2>2. CASE tables' = tables \ {dropping} /\ faults' = faults
    BY <1>1, <1>2, <2>2 DEF DatasetInv, StrayOK, Kept
  <2> QED
    BY <1>1, <2>1, <2>2
<1> QED
  BY <1>2, <1>3, <1>5, <1>7, <1>8, <1>9 DEF DatasetInv

-----------------------------------------------------------------------------
(* The handler that fills the dataset.                                     *)

(* It writes no row of a sync, and no table but the one it has read.       *)
LEMMA FillKeeps ==
  ASSUME DatasetInv, HandlersOK', OnlyEvent(Fill), AnyFault,
         at'[Fill] \in FillStep \cup {"idle", "lost"},
         UNCHANGED <<sync, ask, dropping, strayed>>,
         ds' \in DatasetRow, ds'.raw = ds.raw, ds'.live = ds.live,
         ds'.status = "absent" => ds.status = "absent",
         import' \in JobStatus, mine' \in {mine, ds.raw},
         tables' \subseteq tables \/ (at[Fill] = "table" /\ tables' \subseteq tables \cup {mine}),
         full' \subseteq tables', full \ {mine} \subseteq full',
         blind' \in BOOLEAN, blind => blind',
         at'[Fill] \in {"mark", "table"} => (strayed \/ faults' > 0 \/ (mine' = ds.raw /\ ds.live)),
         FullOK'
  PROVE  DatasetInv'
<1> USE DatasetAssumption
<1>1. \A s \in SyncJob : at'[s] = at[s]
  BY DEF OnlyEvent
<1>2. DatasetRowsOK'
  BY <1>1 DEF DatasetInv, DatasetRowsOK, DatasetRow, Table
<1>3. HistoryOK'
  BY DEF DatasetInv, HistoryOK
<1>4. ServedOK' /\ OneSync'
  BY DEF DatasetInv, ServedOK, Served, OneSync
<1>5. ASSUME NEW s \in SyncJob PROVE SyncOK(s)'
  <2>1. at[s] = "commit" => s # mine
    BY DEF DatasetInv, SyncOK, ServedOK, Served
  <2> QED
    BY <1>1, <2>1 DEF DatasetInv, SyncOK
<1>6. StrayOK'
  <2>1. CASE strayed \/ faults > 0
    BY <2>1, DatasetFaults DEF StrayOK
  <2>2. CASE ~(strayed \/ faults > 0)
    <3>1. /\ at[Fill] \in {"mark", "table"} => mine = ds.raw /\ ds.live
          /\ \A s \in SyncJob : sync[s].status \in SyncActive => sync[s].old = ds.raw
          /\ \A t \in tables : Kept(t)
      BY <2>2 DEF DatasetInv, StrayOK
    <3>2. \A t \in tables' : Kept(t)
      BY <3>1 DEF Kept
    <3>3. \A t \in tables' : Kept(t)'
      BY <1>1, <3>2 DEF Kept
    <3> QED
      BY <2>2, <3>1, <3>3 DEF StrayOK
  <2> QED
    BY <2>1, <2>2
<1> QED
  BY <1>2, <1>3, <1>4, <1>5, <1>6 DEF DatasetInv

LEMMA BeginFillInv == ASSUME DatasetInv, BeginFill \/ BeginFillError PROVE DatasetInv'
<1>1. /\ \/ Begin(Fill, "load")
         \/ \E nil \in BOOLEAN : Answer(Fill, nil)
      /\ UNCHANGED <<ds, sync, mine, tables, full, blind, ask, dropping, strayed>> /\ AnyFault
      /\ import' \in {import, "processing"}
  BY DEF BeginFill, BeginFillError, Asking, AnyFault
<1>2. Fill \in Job
  BY DatasetAssumption
<1>3. HandlersOK' /\ OnlyEvent(Fill) /\ at'[Fill] \in {"load", "idle"}
  BY <1>1, <1>2, MoveKeeps, ReturnKeeps DEF DatasetInv
<1>4. FullOK'
  BY <1>1, <1>3 DEF DatasetInv, FullOK
<1>5. /\ ds \in DatasetRow /\ import' \in JobStatus /\ blind \in BOOLEAN /\ full \subseteq tables
  BY <1>1 DEF DatasetInv, DatasetRowsOK, HistoryOK, JobStatus
<1> QED
  BY <1>1, <1>3, <1>4, <1>5, FillKeeps DEF FillStep

LEMMA ReadDatasetInv == ASSUME DatasetInv, ReadDataset PROVE DatasetInv'
<1>1. at[Fill] = "load" /\ InHand(Fill) /\ Fill \in Job
  BY DatasetAssumption DEF ReadDataset, InHand
<1>2. UNCHANGED <<ds, import, sync, tables, full, blind, ask, dropping, strayed>> /\ AnyFault
  BY DEF ReadDataset, Asking, AnyFault
<1>3. /\ ds \in DatasetRow /\ import \in JobStatus /\ blind \in BOOLEAN /\ full \subseteq tables
  BY DEF DatasetInv, DatasetRowsOK, HistoryOK
<1>4. CASE ds.live /\ mine' = ds.raw /\ Goto(Fill, "mark")
  <2>1. HandlersOK' /\ OnlyEvent(Fill) /\ at'[Fill] = "mark"
    BY <1>1, <1>2, <1>4, MoveKeeps DEF DatasetInv
  <2>2. FullOK'
    BY <1>1, <1>2, <1>4, <2>1 DEF DatasetInv, FullOK
  <2> QED
    BY <1>2, <1>3, <1>4, <2>1, <2>2, FillKeeps DEF FillStep
<1>5. CASE /\ UNCHANGED mine
           /\ Return(Fill, FALSE) \/ Goto(Fill, "failset") \/ Goto(Fill, "failjob")
  <2>1. HandlersOK' /\ OnlyEvent(Fill) /\ at'[Fill] \in {"idle", "failset", "failjob"}
    BY <1>1, <1>2, <1>5, MoveKeeps, ReturnKeeps DEF DatasetInv
  <2>2. FullOK'
    BY <1>2, <1>5, <1>1, <2>1 DEF DatasetInv, FullOK
  <2> QED
    BY <1>2, <1>3, <1>5, <2>1, <2>2, FillKeeps DEF FillStep
<1> QED
  BY <1>4, <1>5 DEF ReadDataset

LEMMA MarkImportingInv == ASSUME DatasetInv, MarkImporting PROVE DatasetInv'
<1>1. at[Fill] = "mark" /\ InHand(Fill) /\ Fill \in Job
  BY DatasetAssumption DEF MarkImporting, InHand
<1>2. UNCHANGED <<import, sync, mine, tables, full, ask, dropping, strayed>> /\ AnyFault
  BY DEF MarkImporting, Asking, AnyFault
<1>3. /\ ds \in DatasetRow /\ import \in JobStatus /\ blind \in BOOLEAN /\ full \subseteq tables
  BY DEF DatasetInv, DatasetRowsOK, HistoryOK
<1>4. blind' = blind \/ blind' = TRUE
  BY DEF MarkImporting
<1>5. blind' \in BOOLEAN /\ (blind => blind')
  BY <1>3, <1>4
<1>6. /\ ds' \in DatasetRow /\ ds'.raw = ds.raw /\ ds'.live = ds.live
      /\ ds'.status = "importing" \/ (ds' = ds /\ blind')
  BY <1>3 DEF MarkImporting, DatasetRow
<1>7. HandlersOK' /\ OnlyEvent(Fill) /\ at'[Fill] = "table"
  BY <1>1, <1>2, MoveKeeps DEF MarkImporting, DatasetInv
<1>8. FullOK'
  BY <1>1, <1>2, <1>5, <1>6, <1>7 DEF DatasetInv, FullOK
<1>9. strayed \/ faults' > 0 \/ (mine = ds.raw /\ ds.live)
  BY <1>1, <1>2, DatasetFaults DEF DatasetInv, StrayOK
<1> QED
  BY <1>2, <1>3, <1>5, <1>6, <1>7, <1>8, <1>9, FillKeeps DEF FillStep

LEMMA MakeTableInv == ASSUME DatasetInv, MakeTable PROVE DatasetInv'
<1>1. at[Fill] = "table" /\ InHand(Fill) /\ Fill \in Job
  BY DatasetAssumption DEF MakeTable, InHand
<1>2. UNCHANGED <<ds, import, sync, mine, blind, ask, dropping, strayed>> /\ AnyFault
  BY DEF MakeTable, Asking, AnyFault
<1>3. /\ ds \in DatasetRow /\ import \in JobStatus /\ blind \in BOOLEAN /\ full \subseteq tables
  BY DEF DatasetInv, DatasetRowsOK, HistoryOK
<1>4. \/ Goto(Fill, "ready") /\ tables' = tables \cup {mine} /\ full' = full \cup {mine}
      \/ Goto(Fill, "rows") /\ tables' = tables \cup {mine} /\ full' = full \ {mine}
      \/ /\ Goto(Fill, "failset") \/ Goto(Fill, "failjob")
         /\ tables' \in {tables, tables \ {mine}} /\ full' = full \cap tables'
  BY DEF MakeTable
<1>5. HandlersOK' /\ OnlyEvent(Fill)
  BY <1>1, <1>2, <1>4, MoveKeeps DEF DatasetInv
<1>6. \/ at'[Fill] = "ready" /\ full' = full \cup {mine}
      \/ at'[Fill] = "rows" /\ full' = full \ {mine}
      \/ at'[Fill] \in {"failset", "failjob"} /\ full \ {mine} \subseteq full'
  BY <1>1, <1>2, <1>3, <1>4, MoveKeeps DEF DatasetInv
<1>7. FullOK'
  BY <1>1, <1>2, <1>6 DEF DatasetInv, FullOK
<1>8. /\ tables' \subseteq tables \cup {mine} /\ full' \subseteq tables' /\ full \ {mine} \subseteq full'
  BY <1>3, <1>4
<1>9. at'[Fill] \in FillStep /\ at'[Fill] \notin {"mark", "table"}
  BY <1>6 DEF FillStep
<1> QED
  BY <1>1, <1>2, <1>3, <1>5, <1>7, <1>8, <1>9, FillKeeps

(* The steps that write no table, or add rows to one.                      *)
LEMMA FillStepInv ==
  ASSUME DatasetInv, InsertRows \/ CompleteImport \/ MarkReady \/ FailImportJob \/ MarkDatasetFailed
  PROVE  DatasetInv'
<1>1. InHand(Fill) /\ Fill \in Job
  BY DatasetAssumption DEF InsertRows, CompleteImport, MarkReady, FailImportJob, MarkDatasetFailed, InHand
<1>2. UNCHANGED <<sync, mine, tables, ask, dropping, strayed>> /\ AnyFault
  BY DEF InsertRows, CompleteImport, MarkReady, FailImportJob, MarkDatasetFailed, Asking, AnyFault
<1>3. /\ ds \in DatasetRow /\ import \in JobStatus /\ blind \in BOOLEAN /\ full \subseteq tables
  BY DEF DatasetInv, DatasetRowsOK, HistoryOK
<1>4. /\ import' \in JobStatus /\ full' \subseteq tables' /\ full \subseteq full'
  BY <1>3 DEF InsertRows, CompleteImport, MarkReady, FailImportJob, MarkDatasetFailed, JobStatus
<1>5. blind' \in BOOLEAN /\ (blind => blind')
  BY <1>3 DEF InsertRows, CompleteImport, MarkReady, FailImportJob, MarkDatasetFailed
<1>6. /\ ds' \in DatasetRow /\ ds'.raw = ds.raw /\ ds'.live = ds.live
      /\ \/ ds'.status = ds.status
         \/ ds'.status = "ready" /\ at[Fill] = "ready"
         \/ ds'.status = "failed"
  BY <1>3 DEF InsertRows, CompleteImport, MarkReady, FailImportJob, MarkDatasetFailed, DatasetRow
<1>7. \/ Goto(Fill, "complete") \/ Goto(Fill, "failjob") \/ Goto(Fill, "ready") \/ Goto(Fill, "failset")
      \/ \E nil \in BOOLEAN : Return(Fill, nil)
  BY DEF InsertRows, CompleteImport, MarkReady, FailImportJob, MarkDatasetFailed
<1>8. HandlersOK' /\ OnlyEvent(Fill) /\ at'[Fill] \in {"complete", "failjob", "ready", "failset", "idle"}
  BY <1>1, <1>2, <1>7, MoveKeeps, ReturnKeeps DEF DatasetInv
<1>9. /\ at'[Fill] = "complete" => at[Fill] = "rows" /\ mine \in full'
      /\ at'[Fill] = "ready" => at[Fill] = "complete"
  <2>1. DOMAIN at = Job
    BY DEF DatasetInv, HandlersOK
  <2>2. CASE InsertRows
    BY <1>1, <2>1, <2>2 DEF InsertRows, Goto
  <2>3. CASE CompleteImport
    BY <1>1, <2>1, <2>3 DEF CompleteImport, Goto, Return
  <2>4. CASE MarkReady \/ FailImportJob \/ MarkDatasetFailed
    BY <1>1, <2>1, <2>4 DEF MarkReady, FailImportJob, MarkDatasetFailed, Goto, Return
  <2> QED
    BY <2>2, <2>3, <2>4
<1>10. FullOK'
  BY <1>2, <1>4, <1>5, <1>6, <1>8, <1>9 DEF DatasetInv, FullOK
<1> QED
  BY <1>2, <1>3, <1>4, <1>5, <1>6, <1>8, <1>10, FillKeeps DEF FillStep

-----------------------------------------------------------------------------
(* The handlers of syncs.                                                  *)

(* A step that writes at most the status of an active sync.                *)
LEMMA SyncMoveKeeps ==
  ASSUME DatasetInv, NEW s \in SyncJob, HandlersOK', OnlyEvent(s), AnyFault,
         UNCHANGED <<ds, import, ask, mine, tables, full, dropping, blind, strayed>>,
         sync' \in [SyncJob -> [status : JobStatus, old : Table]],
         \A t \in SyncJob \ {s} : sync'[t] = sync[t],
         sync'[s].old = sync[s].old,
         \/ sync'[s].status = sync[s].status
         \/ sync[s].status \in SyncActive /\ sync'[s].status \in {"processing", "failed"},
         at'[s] \in {"check", "copy", "fail", "idle", "lost"},
         at'[s] \in {"check", "copy"} => sync'[s].status = "processing",
         at[s] \notin {"commit", "undo", "cleanup"} \/ faults' > 0
  PROVE  DatasetInv'
<1> USE DatasetAssumption
<1>1. /\ at'[Fill] = at[Fill]
      /\ \A t \in SyncJob \ {s} : at'[t] = at[t]
  BY DEF OnlyEvent
<1>2. \A t \in SyncJob : at'[t] \in SyncStep \cup {"idle", "lost"}
  BY <1>1 DEF DatasetInv, DatasetRowsOK, SyncStep
<1>3. DatasetRowsOK' /\ HistoryOK'
  BY <1>1, <1>2 DEF DatasetInv, DatasetRowsOK, HistoryOK, DatasetRow
<1>4. \A t : Served(t) => Served(t)'
  BY DEF Served, SyncActive
<1>5. ServedOK'
  <2>1. \A t \in SyncJob : sync'[t].old = sync[t].old
    OBVIOUS
  <2> QED
    BY <1>4, <2>1 DEF DatasetInv, ServedOK
<1>6. \A t \in SyncJob : sync'[t].status \in SyncActive => sync[t].status \in SyncActive
  BY DEF SyncActive
<1>7. OneSync'
  BY <1>6 DEF DatasetInv, OneSync
<1>8. \A t \in SyncJob : SyncOK(t)'
  BY <1>1 DEF DatasetInv, SyncOK
<1>9. FullOK'
  BY <1>1 DEF DatasetInv, FullOK
<1>10. StrayOK'
  <2>1. CASE strayed \/ faults' > 0
    BY <2>1 DEF StrayOK
  <2>2. CASE ~(strayed \/ faults' > 0)
    <3>1. ~(strayed \/ faults > 0) /\ at[s] \notin {"commit", "undo", "cleanup"}
      BY <2>2, DatasetFaults
    <3>2. /\ at[Fill] \in {"mark", "table"} => mine = ds.raw /\ ds.live
          /\ \A t \in SyncJob : sync[t].status \in SyncActive => sync[t].old = ds.raw
          /\ \A t \in tables : Kept(t)
      BY <3>1 DEF DatasetInv, StrayOK
    <3>3. \A t \in tables : Kept(t)'
      BY <1>1, <3>1, <3>2 DEF Kept
    <3>4. \A t \in SyncJob : sync'[t].status \in SyncActive => sync'[t].old = ds.raw
      BY <1>6, <3>2
    <3> QED
      BY <1>1, <3>2, <3>3, <3>4 DEF StrayOK
  <2> QED
    BY <2>1, <2>2
<1> QED
  BY <1>3, <1>5, <1>7, <1>8, <1>9, <1>10 DEF DatasetInv

LEMMA SetSyncEffect ==
  ASSUME DatasetInv, NEW s \in SyncJob, NEW st \in JobStatus, SetSync(s, st)
  PROVE  /\ sync' \in [SyncJob -> [status : JobStatus, old : Table]]
         /\ \A t \in SyncJob \ {s} : sync'[t] = sync[t]
         /\ sync'[s].old = sync[s].old /\ sync'[s].status = st
BY DEF DatasetInv, DatasetRowsOK, SetSync

LEMMA SyncTypes ==
  ASSUME DatasetInv
  PROVE  /\ HandlersOK /\ ds \in DatasetRow /\ full \subseteq tables
         /\ sync \in [SyncJob -> [status : JobStatus, old : Table]]
         /\ \A s \in SyncJob : s \in Job /\ s # Fill /\ s \in Table
         /\ {"processing", "failed", "completed"} \subseteq JobStatus
BY DatasetAssumption DEF DatasetInv, DatasetRowsOK, JobStatus, Table

LEMMA BeginSyncInv ==
  ASSUME DatasetInv, NEW s \in SyncJob, BeginSync(s) \/ BeginSyncError(s) PROVE DatasetInv'
<1>1. /\ AnyFault /\ s \in Job
      /\ UNCHANGED <<ds, import, ask, mine, tables, full, dropping, blind, strayed>>
  BY SyncTypes DEF BeginSync, BeginSyncError, Asking, AnyFault
<1>2. at[s] = "idle"
  BY DEF BeginSync, BeginSyncError, Begin, Answer, Deliverable
<1>3. \/ sync[s].status \in SyncActive /\ SetSync(s, "processing") /\ Begin(s, "check")
      \/ sync[s].status \in SyncActive /\ SetSync(s, "processing") /\ Answer(s, FALSE)
      \/ UNCHANGED sync /\ \E nil \in BOOLEAN : Answer(s, nil)
  BY DEF BeginSync, BeginSyncError
<1>4. HandlersOK' /\ OnlyEvent(s)
  <2>1. Begin(s, "check") \/ \E nil \in BOOLEAN : Answer(s, nil)
    BY <1>3
  <2> QED
    BY <1>1, <2>1, MoveKeeps, ReturnKeeps DEF DatasetInv
<1>5. at'[s] = "idle" \/ (at'[s] = "check" /\ SetSync(s, "processing"))
  BY <1>1, <1>3, MoveKeeps, ReturnKeeps DEF DatasetInv
<1>6. \/ sync[s].status \in SyncActive /\ SetSync(s, "processing")
      \/ UNCHANGED sync
  BY <1>3
<1>7. /\ sync' \in [SyncJob -> [status : JobStatus, old : Table]]
      /\ \A t \in SyncJob \ {s} : sync'[t] = sync[t]
      /\ sync'[s].old = sync[s].old
      /\ \/ sync'[s].status = sync[s].status
         \/ sync[s].status \in SyncActive /\ sync'[s].status = "processing"
      /\ SetSync(s, "processing") => sync'[s].status = "processing"
  BY <1>6, SyncTypes, SetSyncEffect
<1> QED
  BY <1>1, <1>2, <1>4, <1>5, <1>7, SyncMoveKeeps

LEMMA SyncStepInv ==
  ASSUME DatasetInv, NEW s \in SyncJob, CheckSync(s) \/ FailSync(s) PROVE DatasetInv'
<1>1. /\ AnyFault /\ s \in Job
      /\ UNCHANGED <<ds, import, ask, mine, tables, full, dropping, blind, strayed>>
  BY SyncTypes DEF CheckSync, FailSync, datasetVars, Asking, AnyFault, Unfailing
<1>2. InHand(s) /\ at[s] \in {"check", "fail"}
  BY DEF CheckSync, FailSync, InHand
<1>3. \/ UNCHANGED sync /\ at[s] = "check" /\ Goto(s, "copy")
      \/ UNCHANGED sync /\ Goto(s, "fail")
      \/ /\ Return(s, TRUE)
         /\ (sync[s].status \in SyncActive /\ SetSync(s, "failed")) \/ UNCHANGED sync
  BY DEF CheckSync, FailSync, datasetVars
<1>4. HandlersOK' /\ OnlyEvent(s)
  <2>1. Goto(s, "copy") \/ Goto(s, "fail") \/ Return(s, TRUE)
    BY <1>3
  <2>2. CASE Goto(s, "copy") \/ Goto(s, "fail")
    BY <1>1, <1>2, <2>2, MoveKeeps DEF DatasetInv
  <2>3. CASE Return(s, TRUE)
    BY <1>1, <2>3, ReturnKeeps DEF DatasetInv
  <2> QED
    BY <2>1, <2>2, <2>3
<1>5. \/ at'[s] = "copy" /\ UNCHANGED sync /\ at[s] = "check"
      \/ at'[s] \in {"fail", "idle"}
  BY <1>1, <1>2, <1>3, MoveKeeps, ReturnKeeps DEF DatasetInv
<1>6. at[s] = "check" => sync[s].status = "processing"
  BY DEF DatasetInv, SyncOK
<1>7. (sync[s].status \in SyncActive /\ SetSync(s, "failed")) \/ UNCHANGED sync
  BY <1>3
<1>8. /\ sync' \in [SyncJob -> [status : JobStatus, old : Table]]
      /\ \A t \in SyncJob \ {s} : sync'[t] = sync[t]
      /\ sync'[s].old = sync[s].old
      /\ \/ sync'[s].status = sync[s].status
         \/ sync[s].status \in SyncActive /\ sync'[s].status = "failed"
  BY <1>7, SyncTypes, SetSyncEffect
<1> QED
  BY <1>1, <1>2, <1>4, <1>5, <1>6, <1>8, SyncMoveKeeps

(* What happens to a sync whatever its handler does.                       *)
LEMMA SyncOutboxInv ==
  ASSUME DatasetInv, NEW s \in SyncJob,
         ExpireHandler(s) \/ (OutboxStep(s) /\ UNCHANGED datasetVars)
  PROVE  DatasetInv'
<1>1. UNCHANGED <<ds, import, sync, ask, mine, tables, full, dropping, blind, strayed>> /\ s \in Job
  BY SyncTypes DEF ExpireHandler, datasetVars
<1>2. /\ HandlersOK' /\ OnlyEvent(s) /\ AnyFault
      /\ at'[s] \in {"idle", "lost"}
      /\ at[s] = "idle" \/ faults' > 0
  <2>1. CASE ExpireHandler(s)
    <3>1. Return(s, TRUE) /\ Fault /\ AnyFault
      BY <2>1, SyncTypes DEF ExpireHandler, AnyFault
    <3>2. faults' > 0
      BY <3>1, DatasetFaults
    <3> QED
      BY <1>1, <3>1, <3>2, ReturnKeeps DEF DatasetInv
  <2>2. CASE Crash(s) \/ LoseEvent(s)
    BY <1>1, <2>2, LostKeeps DEF DatasetInv
  <2>3. CASE SettleEvent(s)
    <3>1. AnyFault
      BY <2>3 DEF SettleEvent, AnyFault, Unfailing
    <3> QED
      BY <1>1, <2>3, <3>1, SettleKeeps DEF DatasetInv
  <2> QED
    BY <2>1, <2>2, <2>3 DEF OutboxStep
<1>3. sync \in [SyncJob -> [status : JobStatus, old : Table]]
  BY SyncTypes
<1> QED
  BY <1>1, <1>2, <1>3, SyncMoveKeeps

(* A table that is dropped is the sync's own copy, which nobody reads, or  *)
(* the one it has replaced.                                                *)
LEMMA CopyTableInv == ASSUME DatasetInv, NEW s \in SyncJob, CopyTable(s) PROVE DatasetInv'
<1> USE DatasetAssumption
<1>1. /\ at[s] = "copy" /\ InHand(s) /\ AnyFault /\ faults' = faults /\ s \in Job /\ s \in Table /\ s # Fill
      /\ UNCHANGED <<ds, import, sync, ask, mine, dropping, blind, strayed>>
  BY SyncTypes DEF CopyTable, InHand, Asking, AnyFault, Unfailing
<1>2. \/ tables' = tables \cup {s} /\ full' = full \cup {s} /\ Goto(s, "commit")
      \/ tables' = tables \ {s} /\ full' = full \ {s} /\ Goto(s, "undo")
  BY DEF CopyTable
<1>3. HandlersOK' /\ OnlyEvent(s)
  BY <1>1, <1>2, MoveKeeps DEF DatasetInv
<1>4. \/ tables' = tables \cup {s} /\ full' = full \cup {s} /\ at'[s] = "commit"
      \/ tables' = tables \ {s} /\ full' = full \ {s} /\ at'[s] = "undo"
  BY <1>1, <1>2, MoveKeeps DEF DatasetInv
<1>5. /\ at'[Fill] = at[Fill]
      /\ \A t \in SyncJob \ {s} : at'[t] = at[t]
  BY <1>1, <1>3 DEF OnlyEvent
<1>6. sync[s].status = "processing"
  BY <1>1 DEF DatasetInv, SyncOK
<1>7. ds.raw # s
  BY <1>6 DEF DatasetInv, ServedOK, Served
<1>8. DatasetRowsOK' /\ HistoryOK'
  BY <1>1, <1>4, <1>5 DEF DatasetInv, DatasetRowsOK, DatasetRow, HistoryOK, SyncStep
<1>9. ServedOK' /\ OneSync'
  BY <1>1 DEF DatasetInv, ServedOK, Served, OneSync
<1>10. \A t \in SyncJob : SyncOK(t)'
  BY <1>1, <1>4, <1>5, <1>6 DEF DatasetInv, SyncOK
<1>11. FullOK'
  BY <1>1, <1>4, <1>5, <1>7 DEF DatasetInv, FullOK
<1>12. StrayOK'
  BY <1>1, <1>4, <1>5 DEF DatasetInv, StrayOK, Kept
<1> QED
  BY <1>3, <1>8, <1>9, <1>10, <1>11, <1>12 DEF DatasetInv

LEMMA UndoCopyInv == ASSUME DatasetInv, NEW s \in SyncJob, UndoCopy(s) PROVE DatasetInv'
<1> USE DatasetAssumption
<1>1. /\ at[s] = "undo" /\ InHand(s) /\ Goto(s, "fail") /\ AnyFault /\ s \in Job /\ s # Fill
      /\ UNCHANGED <<ds, import, sync, ask, mine, dropping, blind, strayed>>
  BY SyncTypes DEF UndoCopy, InHand, Asking, AnyFault
<1>2. \/ tables' = tables \ {s} /\ full' = full \ {s} /\ faults' = faults
      \/ UNCHANGED <<tables, full>> /\ Fault
  BY DEF UndoCopy, Unfailing
<1>3. HandlersOK' /\ OnlyEvent(s) /\ at'[s] = "fail"
  BY <1>1, MoveKeeps DEF DatasetInv
<1>4. /\ at'[Fill] = at[Fill]
      /\ \A t \in SyncJob \ {s} : at'[t] = at[t]
  BY <1>1, <1>3 DEF OnlyEvent
<1>5. DatasetRowsOK' /\ HistoryOK'
  BY <1>1, <1>2, <1>3, <1>4 DEF DatasetInv, DatasetRowsOK, DatasetRow, HistoryOK, SyncStep
<1>6. ServedOK' /\ OneSync'
  BY <1>1 DEF DatasetInv, ServedOK, Served, OneSync
<1>7. \A t \in SyncJob : SyncOK(t)'
  BY <1>1, <1>2, <1>3, <1>4 DEF DatasetInv, SyncOK
<1>8. ds.raw # s \/ blind
  BY <1>1 DEF DatasetInv, SyncOK, ServedOK, Served
<1>9. FullOK'
  BY <1>1, <1>2, <1>4, <1>8 DEF DatasetInv, FullOK
<1>10. StrayOK'
  <2>1. CASE Fault
    BY <1>1, <2>1, DatasetFaults DEF StrayOK
  <2>2. CASE tables' = tables \ {s} /\ faults' = faults
    BY <1>1, <1>3, <1>4, <2>2 DEF DatasetInv, StrayOK, Kept
  <2> QED
    BY <1>2, <2>1, <2>2
<1> QED
  BY <1>3, <1>5, <1>6, <1>7, <1>9, <1>10 DEF DatasetInv

LEMMA DropOldTableInv == ASSUME DatasetInv, NEW s \in SyncJob, DropOldTable(s) PROVE DatasetInv'
<1> USE DatasetAssumption
<1>1. /\ at[s] = "cleanup" /\ Return(s, TRUE) /\ AnyFault /\ s \in Job /\ s # Fill
      /\ UNCHANGED <<ds, import, sync, ask, mine, dropping, blind, strayed>>
  BY SyncTypes DEF DropOldTable, Asking, AnyFault
<1>2. PICK old : old = sync[s].old
  OBVIOUS
<1>3. \/ tables' = tables \ {old} /\ full' = full \ {old} /\ faults' = faults
      \/ UNCHANGED <<tables, full>> /\ Fault
  BY <1>2 DEF DropOldTable, Unfailing
<1>4. HandlersOK' /\ OnlyEvent(s) /\ at'[s] = "idle"
  BY <1>1, ReturnKeeps DEF DatasetInv
<1>5. /\ at'[Fill] = at[Fill]
      /\ \A t \in SyncJob \ {s} : at'[t] = at[t]
  BY <1>1, <1>4 DEF OnlyEvent
<1>6. DatasetRowsOK' /\ HistoryOK'
  BY <1>1, <1>3, <1>4, <1>5 DEF DatasetInv, DatasetRowsOK, DatasetRow, HistoryOK, SyncStep
<1>7. ServedOK' /\ OneSync'
  BY <1>1 DEF DatasetInv, ServedOK, Served, OneSync
<1>8. old # ds.raw /\ Served(old)
  BY <1>1, <1>2 DEF DatasetInv, SyncOK, ServedOK
<1>9. \A t \in SyncJob : SyncOK(t)'
  BY <1>1, <1>3, <1>4, <1>5, <1>8 DEF DatasetInv, SyncOK, Served
<1>10. FullOK'
  BY <1>1, <1>3, <1>5, <1>8 DEF DatasetInv, FullOK
<1>11. StrayOK'
  <2>1. CASE Fault
    BY <1>1, <2>1, DatasetFaults DEF StrayOK
  <2>2. CASE tables' = tables \ {old} /\ faults' = faults
    BY <1>1, <1>2, <1>4, <1>5, <2>2 DEF DatasetInv, StrayOK, Kept
  <2> QED
    BY <1>3, <2>1, <2>2
<1> QED
  BY <1>4, <1>6, <1>7, <1>9, <1>10, <1>11 DEF DatasetInv

LEMMA CommitRefreshInv == ASSUME DatasetInv, NEW s \in SyncJob, CommitRefresh(s) PROVE DatasetInv'
<1> USE DatasetAssumption
<1>1. /\ at[s] = "commit" /\ InHand(s) /\ s \in Job /\ s # Fill /\ s \in Table
      /\ UNCHANGED <<import, mine, tables, full, ask, dropping>>
  BY SyncTypes DEF CommitRefresh, InHand
<1>2. sync[s].status = "processing" /\ s \in full
  BY <1>1 DEF DatasetInv, SyncOK
<1>3. /\ AnyFault
      /\ Goto(s, "cleanup") \/ Goto(s, "undo")
  BY DEF CommitRefresh, AnyFault
<1>4. HandlersOK' /\ OnlyEvent(s)
  BY <1>1, <1>3, MoveKeeps DEF DatasetInv
<1>5. /\ at'[Fill] = at[Fill]
      /\ \A t \in SyncJob \ {s} : at'[t] = at[t]
  BY <1>1, <1>4 DEF OnlyEvent
<1>6. CASE Goto(s, "undo") /\ UNCHANGED <<ds, sync, blind, strayed>>
  <2>1. at'[s] = "undo"
    BY <1>1, <1>3, <1>6, MoveKeeps DEF DatasetInv
  <2>2. DatasetRowsOK' /\ HistoryOK'
    BY <1>1, <1>5, <1>6, <2>1 DEF DatasetInv, DatasetRowsOK, DatasetRow, HistoryOK, SyncStep
  <2>3. ServedOK' /\ OneSync'
    BY <1>1, <1>6 DEF DatasetInv, ServedOK, Served, OneSync
  <2>4. \A t \in SyncJob : SyncOK(t)'
    BY <1>1, <1>2, <1>5, <1>6, <2>1 DEF DatasetInv, SyncOK
  <2>5. FullOK'
    BY <1>1, <1>5, <1>6 DEF DatasetInv, FullOK
  <2>6. StrayOK'
    BY <1>1, <1>3, <1>5, <1>6, <2>1, DatasetFaults DEF DatasetInv, StrayOK, Kept
  <2> QED
    BY <1>4, <2>2, <2>3, <2>4, <2>5, <2>6 DEF DatasetInv
<1>7. CASE /\ SwapTable(s)
           /\ \/ Goto(s, "cleanup") /\ Unfailing /\ UNCHANGED blind
              \/ Goto(s, "undo") /\ Fault /\ blind' = TRUE
  <2>1. /\ ds.live /\ ds' = [ds EXCEPT !.raw = s, !.status = "ready"]
        /\ SetSync(s, "completed")
    BY <1>7 DEF SwapTable
  <2>2. /\ ds \in DatasetRow /\ ds' \in DatasetRow
        /\ ds'.live /\ ds'.raw = s /\ ds'.status = "ready"
    BY <1>1, <2>1, SyncTypes DEF DatasetRow
  <2>3. /\ sync' \in [SyncJob -> [status : JobStatus, old : Table]]
        /\ \A t \in SyncJob \ {s} : sync'[t] = sync[t]
        /\ sync'[s].old = sync[s].old /\ sync'[s].status = "completed"
    BY <2>1, SyncTypes, SetSyncEffect
  <2>4. blind' = blind \/ blind' = TRUE
    BY <1>7
  <2>5. \/ at'[s] = "cleanup" /\ faults' = faults
        \/ at'[s] = "undo" /\ blind' /\ faults' > 0
    <3>1. CASE Goto(s, "cleanup") /\ Unfailing
      BY <1>1, <1>3, <3>1, MoveKeeps DEF DatasetInv, Unfailing
    <3>2. CASE Goto(s, "undo") /\ Fault /\ blind' = TRUE
      BY <1>1, <1>3, <3>2, MoveKeeps, DatasetFaults DEF DatasetInv
    <3> QED
      BY <1>7, <3>1, <3>2
  <2>6. HistoryOK' /\ (~strayed' => ~strayed /\ ~InHand(Fill))
    <3>1. blind' \in BOOLEAN
      BY <2>4 DEF DatasetInv, HistoryOK
    <3>2. strayed' \in BOOLEAN /\ (~strayed' => ~strayed /\ ~InHand(Fill))
      BY <1>7 DEF SwapTable, DatasetInv, HistoryOK
    <3> QED
      BY <3>1, <3>2 DEF HistoryOK
  <2>7. at'[s] \in SyncStep
    BY <2>5 DEF SyncStep
  <2>8. DatasetRowsOK'
    BY <1>1, <1>5, <2>2, <2>3, <2>7 DEF DatasetInv, DatasetRowsOK
  <2>9. \A t : Served(t) => t # s /\ Served(t)'
    BY <1>2, <2>3 DEF Served
  <2>10. ServedOK'
    <3>1. \A t \in SyncJob : sync'[t].old = sync[t].old
      BY <2>3
    <3>2. dropping = NoJob
      BY <2>1 DEF DatasetInv, ServedOK
    <3>3. Served(ds.raw)'
      BY <2>2, <2>3 DEF Served
    <3> QED
      BY <1>1, <2>9, <3>1, <3>2, <3>3 DEF DatasetInv, ServedOK
  <2>11. \A t \in SyncJob : sync'[t].status \notin SyncActive
    BY <1>2, <2>3 DEF DatasetInv, OneSync, SyncActive
  <2>12. OneSync'
    BY <2>11 DEF OneSync
  <2>13. \A t \in SyncJob : Served(sync[t].old)
    BY DEF DatasetInv, ServedOK
  <2>14. \A t \in SyncJob : SyncOK(t)'
    <3>1. SyncOK(s)'
      BY <2>2, <2>3, <2>5, <2>9, <2>13 DEF SyncOK
    <3>2. ASSUME NEW t \in SyncJob \ {s} PROVE SyncOK(t)'
      BY <1>1, <1>5, <2>2, <2>3, <2>4, <2>9, <2>13 DEF DatasetInv, SyncOK
    <3> QED
      BY <3>1, <3>2
  <2>15. FullOK'
    <3>1. mine # s
      BY <2>9 DEF DatasetInv, ServedOK
    <3> QED
      BY <1>1, <1>2, <2>2, <3>1 DEF FullOK
  <2>16. ASSUME ~strayed', ~(faults' > 0) PROVE StrayOK'
    <3>1. ~strayed /\ ~(faults > 0) /\ at[Fill] \notin {"mark", "table"} /\ at'[s] = "cleanup"
      BY <2>5, <2>6, <2>16 DEF InHand
    <3>2. /\ sync[s].old = ds.raw
          /\ \A t \in tables : Kept(t)
      BY <1>2, <3>1 DEF DatasetInv, StrayOK, SyncActive
    <3>3. ASSUME NEW t \in tables PROVE Kept(t)'
      BY <1>1, <1>5, <2>2, <2>3, <3>1, <3>2 DEF Kept
    <3> QED
      BY <1>1, <1>5, <2>11, <3>1, <3>3 DEF StrayOK
  <2>17. StrayOK'
    BY <2>16 DEF StrayOK
  <2> QED
    BY <1>4, <2>6, <2>8, <2>10, <2>12, <2>14, <2>15, <2>17 DEF DatasetInv
<1> QED
  BY <1>6, <1>7 DEF CommitRefresh

-----------------------------------------------------------------------------
(* What happens to the filling event whatever its handler does.            *)
LEMMA FillOutboxInv ==
  ASSUME DatasetInv, ExpireHandler(Fill) \/ (OutboxStep(Fill) /\ UNCHANGED datasetVars)
  PROVE  DatasetInv'
<1>1. UNCHANGED <<ds, import, sync, ask, mine, tables, full, dropping, blind, strayed>> /\ Fill \in Job
  BY DatasetAssumption DEF ExpireHandler, datasetVars
<1>2. HandlersOK' /\ OnlyEvent(Fill) /\ AnyFault /\ at'[Fill] \in {"idle", "lost"}
  <2>1. CASE ExpireHandler(Fill)
    <3>1. Return(Fill, FALSE) /\ AnyFault
      BY <2>1 DEF ExpireHandler, AnyFault
    <3> QED
      BY <1>1, <3>1, ReturnKeeps DEF DatasetInv
  <2>2. CASE Crash(Fill) \/ LoseEvent(Fill)
    BY <1>1, <2>2, LostKeeps DEF DatasetInv
  <2>3. CASE SettleEvent(Fill)
    <3>1. AnyFault
      BY <2>3 DEF SettleEvent, AnyFault, Unfailing
    <3> QED
      BY <1>1, <2>3, <3>1, SettleKeeps DEF DatasetInv
  <2> QED
    BY <2>1, <2>2, <2>3 DEF OutboxStep
<1>3. FullOK'
  BY <1>1, <1>2 DEF DatasetInv, FullOK
<1>4. ds \in DatasetRow /\ import \in JobStatus /\ blind \in BOOLEAN /\ full \subseteq tables
  BY DEF DatasetInv, DatasetRowsOK, HistoryOK
<1> QED
  BY <1>1, <1>2, <1>3, <1>4, FillKeeps

LEMMA DatasetStepInv == DatasetInv /\ DatasetNext => DatasetInv'
<1> SUFFICES ASSUME DatasetInv, DatasetNext PROVE DatasetInv'
  OBVIOUS
<1>1. CASE CreateDataset \/ SoftDelete \/ DropDeleted
  BY <1>1, CreateDatasetInv, SoftDeleteInv, DropDeletedInv
<1>2. CASE \E u \in Caller : ReadForSync(u) \/ RequestDatasetSync(u)
  BY <1>2, ReadForSyncInv, RequestDatasetSyncInv
<1>3. CASE FillStepTaken \/ BeginFillError
  BY <1>3, BeginFillInv, ReadDatasetInv, MarkImportingInv, MakeTableInv, FillStepInv DEF FillStepTaken
<1>4. CASE \E s \in SyncJob : SyncStepTaken(s) \/ BeginSyncError(s)
  BY <1>4, BeginSyncInv, SyncStepInv, CopyTableInv, CommitRefreshInv, DropOldTableInv, UndoCopyInv
  DEF SyncStepTaken
<1>5. CASE \E j \in Table : ExpireHandler(j) \/ (OutboxStep(j) /\ UNCHANGED datasetVars)
  BY <1>5, SyncOutboxInv, FillOutboxInv DEF Table
<1> QED
  BY <1>1, <1>2, <1>3, <1>4, <1>5 DEF DatasetNext

LEMMA DatasetInvHolds == DatasetSpec => []DatasetInv
<1>1. DatasetInv /\ [DatasetNext]_<<handlerVars, datasetVars>> => DatasetInv'
  <2> SUFFICES ASSUME DatasetInv, UNCHANGED <<handlerVars, datasetVars>> PROVE DatasetInv'
    BY DatasetStepInv
  <2>1. UNCHANGED <<fate, tries, ok, at, faults>>
    BY DEF handlerVars
  <2>2. HandlersOK'
    BY <2>1 DEF DatasetInv, HandlersOK, EventOK, InHand, FaultsTypeOK
  <2> QED
    BY <2>1, <2>2 DEF datasetVars, DatasetInv, DatasetRowsOK, DatasetRow, HistoryOK, ServedOK, Served,
      OneSync, SyncOK, FullOK, StrayOK, Kept
<1> QED
  BY <1>1, DatasetInvInit, PTL DEF DatasetSpec

(* The row, the jobs, the tables and the handlers stay in their types, and *)
(* a table holds rows only while it exists.                                *)
THEOREM DatasetTypesHold == DatasetSpec => []DatasetTypeOK
<1>1. DatasetInv => DatasetTypeOK
  BY DatasetInvShows
<1> QED
  BY <1>1, DatasetInvHolds, PTL

(* The tables of the work database are those the rows account for, for any *)
(* number of syncs, requests, attempts and faults.                         *)
THEOREM TablesMatchRows == DatasetSpec => []TablesAccounted
<1>1. DatasetInv => TablesAccounted
  BY DatasetInvShows
<1> QED
  BY <1>1, DatasetInvHolds, PTL
==============================================================================
