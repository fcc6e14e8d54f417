----------------------------- MODULE MCEventJobs -----------------------------
(* Five components whose handlers the outbox calls, and a job that an      *)
(* administrator stops.  They share the workers of the outbox and no row,  *)
(* so one of them is at work in each behaviour; a Job is a row of that one. *)
EXTENDS GoldPublication, Exports, TenantJobs, DriveOCR, LocalSearch, SystemJobs, TLC

VARIABLE part

allVars == <<handlerVars, goldVars, exportVars, tenantVars, ocrVars, searchVars, sysVars, part>>

(* Who works on the OCR run beside the handlers: either the extraction of  *)
(* product items, or a pipeline and a manual request.                      *)
Others(s) == step = [p \in PipelineStep |-> s] /\ asks = [m \in Manual |-> s]

Init == /\ HandlersInit
        /\ GoldInit /\ ExportInit /\ TenantInit /\ OcrInit /\ LocalSearchInit /\ SystemJobsInit
        /\ part \in {"gold", "export", "tenant", "ocr", "search", "stop"}
        /\ part = "stop" \/ kind = [j \in SysJob |-> "checked"]
        /\ IF extracts THEN part = "ocr" /\ Others("done") ELSE Others("new")

Next ==
    \/ /\ part = "gold" /\ GoldNext
       /\ UNCHANGED <<exportVars, tenantVars, ocrVars, searchVars, sysVars, part>>
    \/ /\ part = "export" /\ ExportNext
       /\ UNCHANGED <<goldVars, tenantVars, ocrVars, searchVars, sysVars, part>>
    \/ /\ part = "tenant" /\ TenantNext
       /\ UNCHANGED <<goldVars, exportVars, ocrVars, searchVars, sysVars, part>>
    \/ /\ part = "ocr" /\ OcrNext
       /\ UNCHANGED <<goldVars, exportVars, tenantVars, searchVars, sysVars, part>>
    \/ /\ part = "search" /\ LocalSearchNext
       /\ UNCHANGED <<goldVars, exportVars, tenantVars, ocrVars, sysVars, part>>
    \/ /\ part = "stop" /\ SystemJobsNext
       /\ UNCHANGED <<goldVars, exportVars, tenantVars, ocrVars, searchVars, part>>
       /\ UNCHANGED <<eventVars, at>>

Spec == Init /\ [][Next]_allVars

-----------------------------------------------------------------------------
(* The rows, views, files, schedule and handlers stay in their types: a    *)
(* run is never created without its event, an export is ready only with    *)
(* its file, an import never inserts past its rows, and an OCR run is      *)
(* completed only by an execution.                                         *)
EventJobsTypeOK ==
    /\ part = "gold" => GoldTypeOK
    /\ part = "export" => ExportTypeOK
    /\ part = "tenant" => TenantTypeOK
    /\ part = "ocr" => OcrTypeOK
    /\ part = "search" => LocalSearchTypeOK
    /\ part = "stop" => SystemJobsTypeOK

(* What the handlers have done outside their rows is what the rows say,    *)
(* whatever was retried: an export makes one file, a tenant export does    *)
(* not lose its file, an import inserts what it says, once, an OCR run has *)
(* the pages of one execution and the items of one extraction, and the     *)
(* search index follows the rows.                                          *)
EffectsAccounted ==
    /\ OneFilePerExport /\ TenantFileRecorded /\ ImportAccounted
    /\ PagesOfOneExecution /\ ItemsOfOneExtraction /\ SearchFollowsRow

(* No job is left pending or processing without a handler, or an event     *)
(* that will give it one.                                                  *)
EventJobsAttended == GoldRunAttended /\ ExportsAttended /\ TenantJobsAttended /\ OcrAttended
                     /\ SearchAttended /\ SystemJobsAttended

(* What was switched off stays off: a schedule that its owner disabled is  *)
(* not enabled again by a write of what was read before, and a job that an *)
(* administrator stopped is not completed by the worker that had it.       *)
OffStaysOff == ScheduleStaysOff /\ StopHolds

Symmetry ==
    UNION {Permutations(S) : S \in {GoldRun, Publication, ExtractEvent}}
=============================================================================
