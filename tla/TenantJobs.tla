------------------------------ MODULE TenantJobs ------------------------------
(***************************************************************************)
(* Jobs on a tenant's customer signals, made by the handlers of outbox     *)
(* events: imports of signals from a CSV file, and exports of the tenant's *)
(* data into a generated file.                                             *)
(***************************************************************************)
EXTENDS OutboxHandlers

CONSTANTS SignalImport, \* rows of customer_signal_import_jobs
          TenantExport, \* rows of tenant_data_exports
          Rows          \* rows of an import's file

ASSUME TenantJobsAssumption ==
    /\ SignalImport \cup TenantExport \subseteq Job
    /\ SignalImport \cap TenantExport = {}
    /\ Rows \in Nat

VARIABLES
    imp,     \* [SignalImport -> [status, only: validate_only, valid, inserted]]
    signals, \* [SignalImport -> customer signals inserted by it]
    done,    \* [SignalImport -> rows its present call has inserted]
    texp,    \* [TenantExport -> [status, gone, file]]
    tfiles   \* [TenantExport -> generated files stored for it]

tenantVars == <<imp, signals, done, texp, tfiles>>

ImportStep == {"read", "errors", "insert", "complete", "failimport"}
TenantStep == {"list", "store", "ready", "failexport"}
Open == {"pending", "processing"}

TenantTypeOK ==
    /\ HandlersTypeOK(SignalImport, ImportStep)
    /\ HandlersTypeOK(TenantExport, TenantStep)
    /\ imp \in [SignalImport -> [status : {"absent", "processing", "completed", "failed"},
                                 only : BOOLEAN, valid : BOOLEAN, inserted : 0..Rows]]
    /\ signals \in [SignalImport -> 0..(Rows * MaxAttempts)]
    /\ done \in [SignalImport -> 0..Rows]
    /\ texp \in [TenantExport -> [status : {"absent", "processing", "ready", "failed", "deleted"},
                                  gone : BOOLEAN, file : 0..MaxAttempts]]
    /\ tfiles \in [TenantExport -> 0..MaxAttempts]
    /\ \A i \in SignalImport : imp[i].status = "absent" <=> fate[i] = "absent"
    /\ \A e \in TenantExport : /\ texp[e].status = "absent" <=> fate[e] = "absent"
                               /\ texp[e].file <= tfiles[e]

TenantInit ==
    /\ imp = [i \in SignalImport |-> [status |-> "absent", only |-> FALSE, valid |-> FALSE,
                                      inserted |-> 0]]
    /\ signals = [i \in SignalImport |-> 0]
    /\ done = [i \in SignalImport |-> 0]
    /\ texp = [e \in TenantExport |-> [status |-> "absent", gone |-> FALSE, file |-> 0]]
    /\ tfiles = [e \in TenantExport |-> 0]

-----------------------------------------------------------------------------
(* Requests: the row, its event and the mark 'processing' are committed    *)
(* together.                                                               *)

CreateImport(i) ==
    /\ imp[i].status = "absent"
    /\ \E only, valid \in BOOLEAN :
          imp' = [imp EXCEPT ![i] = [status |-> "processing", only |-> only, valid |-> valid,
                                     inserted |-> 0]]
    /\ Enqueue(i)
    /\ UNCHANGED <<signals, done, texp, tfiles, faults>>

CreateTenantExport(e) ==
    /\ texp[e].status = "absent"
    /\ texp' = [texp EXCEPT ![e].status = "processing"]
    /\ Enqueue(e)
    /\ UNCHANGED <<imp, signals, done, tfiles, faults>>

(* SoftDeleteExpiredTenantDataExports: an export of any status.            *)
ExpireTenantExport(e) ==
    /\ texp[e].status # "absent" /\ ~texp[e].gone
    /\ texp' = [texp EXCEPT ![e].status = "deleted", ![e].gone = TRUE]
    /\ UNCHANGED <<handlerVars, imp, signals, done, tfiles>>

-----------------------------------------------------------------------------
(* HandleRequested of imports.                                             *)

SetImport(i, s) == imp' = [imp EXCEPT ![i].status = s]

(* Nothing looks at the job's status: a retry begins from the first row.   *)
BeginImport(i) ==
    /\ Begin(i, "read")
    /\ UNCHANGED tenantVars /\ Unfailing

(* The error returned before any step: the row was not read.               *)
BeginTenantError(j) == Answer(j, FALSE) /\ Fault /\ UNCHANGED tenantVars

(* The file is read and validated as a whole.                              *)
ReadFile(i) ==
    /\ at[i] = "read"
    /\ \/ ~imp[i].valid /\ Goto(i, "errors")
       \/ imp[i].valid /\ ~imp[i].only /\ Goto(i, "insert")
       \/ imp[i].valid /\ imp[i].only /\ Goto(i, "complete")
       \/ Goto(i, "failimport")
    /\ done' = [done EXCEPT ![i] = 0]
    /\ UNCHANGED <<imp, signals, texp, tfiles>> /\ Unfailing

StoreErrors(i) ==
    /\ at[i] = "errors"
    /\ Goto(i, "complete") \/ Goto(i, "failimport")
    /\ UNCHANGED tenantVars /\ Unfailing

(* Each row is inserted on its own, outside a transaction.                 *)
InsertSignal(i) ==
    /\ at[i] = "insert" /\ done[i] < Rows
    /\ \/ /\ signals' = [signals EXCEPT ![i] = @ + 1]
          /\ \/ done' = [done EXCEPT ![i] = @ + 1] /\ UNCHANGED <<at, eventVars>> /\ Unfailing
             \/ UNCHANGED done /\ Goto(i, "failimport") /\ Fault
       \/ UNCHANGED <<signals, done>> /\ Goto(i, "failimport") /\ Fault
    /\ UNCHANGED <<imp, texp, tfiles>>

InsertedAll(i) ==
    /\ at[i] = "insert" /\ done[i] = Rows
    /\ Goto(i, "complete") /\ Unfailing
    /\ UNCHANGED tenantVars

CompleteSignalImport_Early(i) ==
    /\ at[i] = "insert"
    /\ imp' = [imp EXCEPT ![i].status = "completed", ![i].inserted = Rows]
    /\ Return(i, TRUE) /\ Unfailing
    /\ UNCHANGED <<signals, done, texp, tfiles>>

(* Its error is returned, and the job stays as it is.                      *)
CompleteSignalImport(i) ==
    /\ at[i] = "complete"
    /\ \/ /\ imp' = [imp EXCEPT ![i].status = "completed", ![i].inserted = done[i]]
          /\ \/ Return(i, TRUE) /\ Unfailing
             \/ Return(i, FALSE) /\ Fault
       \/ UNCHANGED imp /\ Return(i, FALSE) /\ Fault
    /\ UNCHANGED <<signals, done, texp, tfiles>>

(* failCustomerSignalImportJob: its error is dropped, the cause returned.  *)
FailImport(i) ==
    /\ at[i] = "failimport"
    /\ Return(i, FALSE)
    /\ \/ SetImport(i, "failed") /\ Unfailing
       \/ UNCHANGED imp /\ Fault
    /\ UNCHANGED <<signals, done, texp, tfiles>>

-----------------------------------------------------------------------------
(* HandleRequested of tenant exports.                                      *)

BeginTenantExport(e) ==
    /\ IF texp[e].gone THEN Answer(e, FALSE) ELSE Begin(e, "list")
    /\ UNCHANGED tenantVars /\ Unfailing

(* The tenant's signals, and in JSON its files, are read.                  *)
ListTenantData(e) ==
    /\ at[e] = "list"
    /\ \/ Goto(e, "store") /\ Unfailing
       \/ Goto(e, "failexport") /\ Fault
    /\ UNCHANGED tenantVars

(* CreateGeneratedFile, which fails for one over the tenant's quota.       *)
StoreExport(e) ==
    /\ at[e] = "store"
    /\ \/ tfiles' = [tfiles EXCEPT ![e] = @ + 1] /\ Goto(e, "ready")
       \/ UNCHANGED tfiles /\ Goto(e, "failexport")
    /\ UNCHANGED <<imp, signals, done, texp>> /\ Unfailing

(* The row is marked ready even if it has been deleted meanwhile.          *)
MarkTenantExportReady(e) ==
    /\ at[e] = "ready"
    /\ \/ /\ texp' = [texp EXCEPT ![e].status = "ready", ![e].file = tfiles[e]]
          /\ \/ Return(e, TRUE) /\ Unfailing
             \/ Return(e, FALSE) /\ Fault
       \/ UNCHANGED texp /\ Return(e, FALSE) /\ Fault
    /\ UNCHANGED <<imp, signals, done, tfiles>>

FailTenantExport(e) ==
    /\ at[e] = "failexport"
    /\ Return(e, FALSE)
    /\ \/ texp' = [texp EXCEPT ![e].status = "failed"] /\ Unfailing
       \/ UNCHANGED texp /\ Fault
    /\ UNCHANGED <<imp, signals, done, tfiles>>

(* The context is done, as in the other handlers.                          *)
ExpireTenantHandler(j) ==
    /\ InHand(j)
    /\ Return(j, FALSE)
    /\ Fault
    /\ UNCHANGED tenantVars

-----------------------------------------------------------------------------
ImportHandlerStep(i) == \/ BeginImport(i)
                        \/ ReadFile(i) \/ StoreErrors(i)
                        \/ InsertSignal(i) \/ InsertedAll(i)
                        \/ CompleteSignalImport(i)
                        \/ FailImport(i)

TenantExportStep(e) == \/ BeginTenantExport(e)
                       \/ ListTenantData(e) \/ StoreExport(e)
                       \/ MarkTenantExportReady(e)
                       \/ FailTenantExport(e)

TenantNext ==
    \/ \E i \in SignalImport : CreateImport(i) \/ ImportHandlerStep(i)
    \/ \E e \in TenantExport : CreateTenantExport(e) \/ ExpireTenantExport(e) \/ TenantExportStep(e)
    \/ \E j \in SignalImport \cup TenantExport :
          \/ BeginTenantError(j) \/ ExpireTenantHandler(j)
          \/ OutboxStep(j) /\ UNCHANGED tenantVars

-----------------------------------------------------------------------------
(* Properties.                                                             *)

(* An import that is said to be completed has inserted what it says, every *)
(* row of a valid file once, whatever was retried before, unless something *)
(* failed, and then at least once; one that only validates, or whose file  *)
(* is not valid, never inserts anything.                                   *)
ImportAccounted ==
    \A i \in SignalImport :
        /\ imp[i].only \/ ~imp[i].valid => signals[i] = 0
        /\ imp[i].status = "completed" => signals[i] >= imp[i].inserted
        /\ imp[i].status = "completed" /\ imp[i].valid /\ ~imp[i].only => imp[i].inserted = Rows
        /\ faults = 0 => signals[i] <= Rows

(* A tenant export makes one file, which a ready export has recorded,      *)
(* unless something failed: a file that no export records is never found   *)
(* again.                                                                  *)
TenantFileRecorded ==
    \A e \in TenantExport :
        /\ texp[e].status = "ready" => texp[e].file > 0
        /\ faults = 0 /\ at[e] # "ready" => tfiles[e] = texp[e].file

(* A job still pending or processing has a handler or will be given one,   *)
(* unless something failed.                                                *)
TenantJobsAttended ==
    \/ faults > 0
    \/ /\ \A i \in SignalImport : imp[i].status \in Open => Attended(i)
       /\ \A e \in TenantExport : texp[e].status \in Open => Attended(e)
=============================================================================
