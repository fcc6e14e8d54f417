------------------------------- MODULE Exports -------------------------------
(***************************************************************************)
(* Exports of a work table into generated files, on request or by its      *)
(* schedule.  An export is made by the handler of an outbox event.  There  *)
(* is one work table, with one schedule.                                   *)
(***************************************************************************)
EXTENDS OutboxHandlers

CONSTANTS Export,  \* rows of dataset_work_table_exports
          Owner    \* requests that update the schedule

ASSUME ExportAssumption == Export \subseteq Job

VARIABLES
    table,    \* the work table is active
    schedule, \* [enabled, last: last_status, export: last_export_id]; it may
              \* become due at any moment
    update,   \* [Owner -> the enabled flag an update will write, or "none"]
    exp,      \* [Export -> [status, scheduled, file, gone]]
    files,    \* [Export -> generated files its handler has stored]
    off       \* history: the last owner to decide switched the schedule off

exportVars == <<table, schedule, update, exp, files, off>>

ExportStep == {"write", "file", "ready", "tell", "fail", "tellfail", "reject", "tellreject"}
Undone     == {"pending", "processing"}

ExportTypeOK ==
    /\ HandlersTypeOK(Export, ExportStep)
    /\ table \in BOOLEAN
    /\ schedule \in [enabled : BOOLEAN, export : Export \cup {NoJob},
                     last : {"none", "created", "skipped", "disabled", "ready", "failed"}]
    /\ update \in [Owner -> {"none", "on", "off"}]
    /\ exp \in [Export -> [status : {"absent", "processing", "ready", "failed", "deleted"},
                           scheduled : BOOLEAN, file : 0..MaxAttempts, gone : BOOLEAN]]
    /\ files \in [Export -> 0..MaxAttempts]
    /\ off \in BOOLEAN
    /\ \A e \in Export : /\ exp[e].status = "absent" <=> fate[e] = "absent"
                         /\ exp[e].file <= files[e]
                         /\ exp[e].status = "ready" => exp[e].file > 0

ExportInit ==
    /\ table = TRUE
    /\ schedule = [enabled |-> TRUE, last |-> "none", export |-> NoJob]
    /\ update = [o \in Owner |-> "none"]
    /\ exp = [e \in Export |-> [status |-> "absent", scheduled |-> FALSE, file |-> 0,
                                gone |-> FALSE]]
    /\ files = [e \in Export |-> 0]
    /\ off = FALSE

-----------------------------------------------------------------------------
(* Requests.                                                               *)

(* createWorkTableExportWithQueries: within one transaction the row is     *)
(* created, its event written, the row marked processing.                  *)
CreateExport(e, scheduled) ==
    /\ exp[e].status = "absent"
    /\ exp' = [exp EXCEPT ![e].status = "processing", ![e].scheduled = scheduled]
    /\ Enqueue(e)

CreateWorkTableExport ==
    /\ table
    /\ \E e \in Export : CreateExport(e, FALSE)
    /\ UNCHANGED <<table, schedule, update, files, off, faults>>

(* DropWorkTable: from when its row is dropped; that the table goes first  *)
(* adds nothing to what a handler may find.                                *)
DropWorkTable ==
    /\ table
    /\ table' = FALSE
    /\ UNCHANGED <<handlerVars, schedule, update, exp, files, off>>

(* UpdateWorkTableExportSchedule reads the schedule; the flag it will      *)
(* write is the one asked for, or else the one it has read.                *)
Flag(enabled) == IF enabled THEN "on" ELSE "off"

ReadSchedule_DefaultsOn(o) ==
    /\ update[o] = "none" /\ table
    /\ update' = [update EXCEPT ![o] = "on"]
    /\ UNCHANGED <<handlerVars, table, schedule, exp, files, off>>

ReadSchedule(o) ==
    /\ update[o] = "none"
    /\ \E asks \in {"on", "off", "same"} :
        LET flag == IF asks = "same" THEN Flag(schedule.enabled) ELSE asks IN
        /\ flag = "on" => table
        /\ update' = [update EXCEPT ![o] = flag]
        /\ off' = (off /\ asks # "on")
    /\ UNCHANGED <<handlerVars, table, schedule, exp, files>>

WriteSchedule(o) ==
    /\ update[o] # "none"
    /\ schedule' = [schedule EXCEPT !.enabled = (update[o] = "on")]
    /\ update' = [update EXCEPT ![o] = "none"]
    /\ UNCHANGED <<handlerVars, table, exp, files, off>>

(* DisableWorkTableExportSchedule.                                         *)
DisableSchedule ==
    /\ schedule' = [schedule EXCEPT !.enabled = FALSE, !.last = "disabled"]
    /\ off' = \A o \in Owner : update[o] # "on"
    /\ UNCHANGED <<handlerVars, table, update, exp, files>>

-----------------------------------------------------------------------------
(* The scheduler job: one transaction claims a due schedule, and decides.  *)

(* The work table is gone, or the next run cannot be computed.             *)
DisableDue ==
    /\ schedule.enabled
    /\ schedule' = [schedule EXCEPT !.enabled = FALSE, !.last = "disabled"]
    /\ UNCHANGED <<handlerVars, table, update, exp, files, off>>

Unfinished == \E e \in Export : exp[e].scheduled /\ exp[e].status \in Undone /\ ~exp[e].gone

SkipDue ==
    /\ schedule.enabled /\ table /\ Unfinished
    /\ schedule' = [schedule EXCEPT !.last = "skipped"]
    /\ UNCHANGED <<handlerVars, table, update, exp, files, off>>

RunDue ==
    /\ schedule.enabled /\ table /\ ~Unfinished
    /\ \E e \in Export :
          /\ CreateExport(e, TRUE)
          /\ schedule' = [schedule EXCEPT !.last = "created", !.export = e]
    /\ UNCHANGED <<table, update, files, off, faults>>

(* SoftDeleteExpired: a failed export may have an attempt left.            *)
ExpireExport(e) ==
    /\ exp[e].status \in {"ready", "failed"} /\ ~exp[e].gone
    /\ exp' = [exp EXCEPT ![e].status = "deleted", ![e].gone = TRUE]
    /\ UNCHANGED <<handlerVars, table, schedule, update, files, off>>

-----------------------------------------------------------------------------
(* HandleWorkTableExportRequested.                                         *)

Asked == <<table, update, off>>  \* what no handler changes

(* The export's status is not looked at: every call makes the file again.  *)
BeginExport(e) ==
    /\ IF exp[e].gone THEN Answer(e, FALSE) ELSE Begin(e, "write")
    /\ UNCHANGED exportVars /\ Unfailing

BeginExportError(e) == Answer(e, FALSE) /\ Fault /\ UNCHANGED exportVars

(* The rows of the work table, with its columns; some column types cannot  *)
(* be written in some formats.                                             *)
WriteTable(e) ==
    /\ at[e] = "write"
    /\ \/ table /\ Goto(e, "file")
       \/ table /\ Goto(e, "reject")
       \/ Goto(e, "fail")
    /\ UNCHANGED exportVars /\ Unfailing

(* CreateGeneratedFile, which fails for one over the tenant's quota.       *)
CreateFile(e) ==
    /\ at[e] = "file"
    /\ \/ files' = [files EXCEPT ![e] = @ + 1] /\ Goto(e, "ready")
       \/ UNCHANGED files /\ Goto(e, "fail")
    /\ UNCHANGED <<Asked, schedule, exp>> /\ Unfailing

(* The row is marked ready even if it has been deleted meanwhile.          *)
MarkExportReady(e) ==
    /\ at[e] = "ready"
    /\ \/ /\ exp' = [exp EXCEPT ![e].status = "ready", ![e].file = files[e]]
          /\ \/ Goto(e, "tell") /\ Unfailing
             \/ Return(e, FALSE) /\ Fault
       \/ UNCHANGED exp /\ Return(e, FALSE) /\ Fault
    /\ UNCHANGED <<Asked, schedule, files>>

(* Its error is dropped.                                                   *)
MarkExportFailed(e) ==
    /\ at[e] \in {"fail", "reject"}
    /\ Goto(e, IF at[e] = "fail" THEN "tellfail" ELSE "tellreject")
    /\ \/ exp' = [exp EXCEPT ![e].status = "failed"] /\ Unfailing
       \/ UNCHANGED exp /\ Fault
    /\ UNCHANGED <<Asked, schedule, files>>

Outcome(e) == IF at[e] = "tell" THEN "ready" ELSE "failed"

TellSchedule_AnyExport(e) ==
    /\ at[e] \in {"tell", "tellfail", "tellreject"}
    /\ Return(e, at[e] # "tellfail") /\ Unfailing
    /\ schedule' = IF exp[e].scheduled THEN [schedule EXCEPT !.last = Outcome(e)] ELSE schedule
    /\ UNCHANGED <<Asked, exp, files>>

TellSchedule_Checked(e) ==
    /\ at[e] \in {"tell", "tellfail", "tellreject"}
    /\ Return(e, at[e] # "tellfail" /\ (exp[e].scheduled => schedule.export = e)) /\ Unfailing
    /\ schedule' = IF schedule.export = e THEN [schedule EXCEPT !.last = Outcome(e)] ELSE schedule
    /\ UNCHANGED <<Asked, exp, files>>

(* markWorkTableExportScheduleStatus: only for the schedule's last export; *)
(* its error is dropped, and so is finding no row.                         *)
TellSchedule(e) ==
    /\ at[e] \in {"tell", "tellfail", "tellreject"}
    /\ Return(e, at[e] # "tellfail")
    /\ \/ /\ schedule' = IF schedule.export = e THEN [schedule EXCEPT !.last = Outcome(e)]
                         ELSE schedule
          /\ Unfailing
       \/ UNCHANGED schedule /\ Fault
    /\ UNCHANGED <<Asked, exp, files>>

(* The context is done, as in the other handlers.                          *)
ExpireExportHandler(e) ==
    /\ at[e] \in {"write", "file", "ready"}
    /\ Return(e, FALSE)
    /\ Fault
    /\ UNCHANGED exportVars

-----------------------------------------------------------------------------
ExportHandlerStep(e) == \/ BeginExport(e)
                        \/ WriteTable(e)
                        \/ CreateFile(e)
                        \/ MarkExportReady(e)
                        \/ MarkExportFailed(e)
                        \/ TellSchedule(e)

ExportNext ==
    \/ CreateWorkTableExport
    \/ DropWorkTable
    \/ \E o \in Owner : ReadSchedule(o) \/ WriteSchedule(o)
    \/ DisableSchedule \/ DisableDue \/ SkipDue \/ RunDue
    \/ \E e \in Export : \/ ExportHandlerStep(e)
                         \/ BeginExportError(e)
                         \/ ExpireExportHandler(e)
                         \/ ExpireExport(e)
                         \/ OutboxStep(e) /\ UNCHANGED exportVars

-----------------------------------------------------------------------------
(* Properties.                                                             *)

(* What a schedule says of its last export is so: it has been made, has    *)
(* failed, or is still to be done, although older exports of the schedule  *)
(* may be retried at the same time; unless something failed.               *)
LastStatusTruthful ==
    LET e == schedule.export IN
    e # NoJob /\ faults = 0 /\ ~exp[e].gone =>
        /\ schedule.last = "ready" => exp[e].status = "ready" \/ at[e] = "tellfail"
        /\ schedule.last = "failed" => exp[e].status = "failed" \/ at[e] = "tell"
        /\ schedule.last = "created" => exp[e].status \in Undone \/ InHand(e)

(* One export makes one file: a call that has stored it is not followed by *)
(* another, unless something failed.                                       *)
OneFilePerExport ==
    \A e \in Export : files[e] <= 1 \/ faults > 0

(* A schedule that was switched off does not run, unless an update that    *)
(* had read it before it was switched off, or that asks for it, switches   *)
(* it on again.                                                            *)
ScheduleStaysOff == off => ~schedule.enabled

(* An export that has not been made or failed has a handler or will be     *)
(* given one, unless something failed: the schedule waits for it.          *)
ExportsAttended ==
    \A e \in Export : exp[e].status \in Undone => Attended(e) \/ faults > 0
=============================================================================
