------------------------------- MODULE DriveOCR -------------------------------
(***************************************************************************)
(* The OCR run of one revision of a Drive file: one row, whoever asks for  *)
(* it.  Handlers of drive.ocr.requested events and steps of data pipelines *)
(* execute it one at a time under an advisory lock, but decide to do so    *)
(* before they have the lock; a manual request resets a completed run.     *)
(* The pages are written one statement at a time.  A completed run leads   *)
(* to events that extract product items from its pages.  The texts put     *)
(* into the search indexes are left out, and the file is not deleted.      *)
(***************************************************************************)
EXTENDS OutboxHandlers

CONSTANTS OcrEvent,     \* drive.ocr.requested events
          ExtractEvent, \* drive.product_extraction.requested events
          PipelineStep, \* extract_text steps of pipelines
          Manual,       \* manual requests
          Pages,        \* pages of the file
          NoOne

ASSUME DriveOCRAssumption ==
    /\ OcrEvent \cup ExtractEvent \subseteq Job
    /\ OcrEvent \cap (ExtractEvent \cup PipelineStep) = {} /\ ExtractEvent \cap PipelineStep = {}
    /\ NoOne \notin OcrEvent \cup PipelineStep
    /\ Pages \in Nat \ {0}

VARIABLES
    ocr,   \* the drive_ocr_runs row: status, reason, and by: whose text it has
    page,  \* [1..Pages -> who wrote drive_ocr_pages, or NoOne]
    item,  \* [ExtractEvent -> product items it has inserted, as one]
    lock,  \* the holder of the advisory lock
    next,  \* the holder's next page
    step,  \* [PipelineStep -> where it is]
    asks,  \* [Manual -> where it is]
    extracts, \* whether the tenant's policy wants product items
    ocrPast \* history: a reset in the middle of an execution, a run left
            \* pending by a pipeline, extractions that overlapped

ocrVars == <<ocr, page, item, lock, next, step, asks, extracts, ocrPast>>

Runner == OcrEvent \cup PipelineStep

ExecutionStep == {"lock", "mark", "extract", "replace", "write", "fail"}
OcrStep       == ExecutionStep \cup {"skip", "reindex", "index", "schedule", "leave"}
ExtractStep   == {"products", "items"}

NoPages == [n \in 1..Pages |-> NoOne]
NoItems == [x \in ExtractEvent |-> 0]

OcrTypeOK ==
    /\ HandlersTypeOK(OcrEvent, OcrStep)
    /\ HandlersTypeOK(ExtractEvent, ExtractStep)
    /\ ocr \in [status : {"absent", "pending", "running", "completed", "failed", "skipped"},
                reason : {"user", "data_pipeline"}, by : Runner \cup {NoOne}]
    /\ page \in [1..Pages -> Runner \cup {NoOne}]
    /\ item \in [ExtractEvent -> 0..MaxAttempts]
    /\ lock \in Runner \cup {NoOne}
    /\ next \in 1..(Pages + 1)
    /\ step \in [PipelineStep -> ExecutionStep \cup {"new", "list", "done"}]
    /\ asks \in [Manual -> {"new", "reset", "enqueue", "done"}]
    /\ extracts \in BOOLEAN
    /\ ocrPast \in [reset : BOOLEAN, left : BOOLEAN, overlap : BOOLEAN]
    /\ ocr.status = "completed" => ocr.by # NoOne

OcrInit ==
    /\ ocr = [status |-> "absent", reason |-> "user", by |-> NoOne]
    /\ page = NoPages /\ item = NoItems
    /\ lock = NoOne /\ next = 1
    /\ step \in [PipelineStep -> {"new", "done"}]
    /\ asks \in [Manual -> {"new", "done"}]
    /\ extracts \in BOOLEAN
    /\ ocrPast = [reset |-> FALSE, left |-> FALSE, overlap |-> FALSE]

-----------------------------------------------------------------------------
(* CreateDriveOCRRun: the row of the revision, and a new chance for a run  *)
(* that failed or was skipped.                                             *)
Created(reason) ==
    [ocr EXCEPT !.status = IF @ \in {"absent", "failed", "skipped"} THEN "pending" ELSE @,
                !.reason = reason]

SetOcr(status) == ocr' = [ocr EXCEPT !.status = status]

(* Where a handler or a pipeline step is.                                  *)
IsAt(r, s) == IF r \in OcrEvent THEN at[r] = s ELSE step[r] = s

GoOn(r, s) ==
    IF r \in OcrEvent
    THEN Goto(r, s) /\ UNCHANGED step
    ELSE step' = [step EXCEPT ![r] = s] /\ UNCHANGED <<at, eventVars>>

Unlocked(r) == lock' = IF lock = r THEN NoOne ELSE lock

(* Returning releases the lock, wherever it happens.                       *)
GiveUp(r) ==
    /\ IF r \in OcrEvent
       THEN Return(r, FALSE) /\ UNCHANGED step
       ELSE step' = [step EXCEPT ![r] = "done"] /\ UNCHANGED <<at, eventVars>>
    /\ Unlocked(r)

Leave(e, nil) == Return(e, nil) /\ Unlocked(e)

-----------------------------------------------------------------------------
(* Requests.                                                               *)

(* An upload or an overwrite: the event alone.                             *)
RequestOnUpload(e) ==
    /\ fate[e] = "absent"
    /\ Enqueue(e)
    /\ UNCHANGED ocrVars /\ Unfailing

(* RequestJob: a run that was completed is reset in a transaction of its   *)
(* own, and the event is written after it.                                 *)
RequestJob(m) ==
    /\ asks[m] = "new"
    /\ ocr' = Created("user")
    /\ asks' = [asks EXCEPT ![m] = IF ocr.status = "completed" THEN "reset" ELSE "enqueue"]
    /\ UNCHANGED <<at, eventVars, page, item, lock, next, step, extracts, ocrPast>> /\ Unfailing

ResetOcr ==
    IF ocr.status = "completed"
    THEN ocr' = [ocr EXCEPT !.status = "pending", !.by = NoOne]
    ELSE UNCHANGED ocr

(* The pages and items go whatever has become of the run.                  *)
ResetCompleted(m) ==
    /\ asks[m] = "reset"
    /\ \/ /\ ResetOcr
          /\ page' = NoPages /\ item' = NoItems
          /\ ocrPast' = [ocrPast EXCEPT !.reset = @ \/ lock # NoOne]
          /\ asks' = [asks EXCEPT ![m] = "enqueue"] /\ Unfailing
       \/ UNCHANGED <<ocr, page, item, ocrPast>>
          /\ asks' = [asks EXCEPT ![m] = "done"] /\ Fault
    /\ UNCHANGED <<at, eventVars, lock, next, step, extracts>>

EnqueueManual(m) ==
    /\ asks[m] = "enqueue"
    /\ asks' = [asks EXCEPT ![m] = "done"]
    /\ \/ \E e \in OcrEvent : fate[e] = "absent" /\ Enqueue(e) /\ Unfailing
       \/ UNCHANGED <<at, eventVars>> /\ Fault
    /\ UNCHANGED <<ocr, page, item, lock, next, step, extracts, ocrPast>>

(* RequestProductExtraction.                                               *)
RequestExtraction(x) ==
    /\ extracts /\ ocr.status = "completed" /\ fate[x] = "absent"
    /\ Enqueue(x)
    /\ UNCHANGED ocrVars /\ Unfailing

-----------------------------------------------------------------------------
(* HandleRequested: the run is looked at before the lock is taken; what    *)
(* the policy allows may have changed since the request.                   *)
BeginOcr(e) ==
    /\ \/ /\ ocr' = Created("user")
          /\ \/ Begin(e, "reindex") /\ ocr.status = "completed" /\ Unfailing
             \/ Begin(e, "lock") /\ ocr.status # "completed" /\ Unfailing
             \/ Begin(e, "skip") /\ ocr.status # "completed" /\ Unfailing
             \/ Answer(e, FALSE) /\ Fault
       \/ UNCHANGED ocr /\ Answer(e, FALSE) /\ Fault
    /\ UNCHANGED <<page, item, lock, next, step, asks, extracts, ocrPast>>

(* MarkDriveOCRRunSkipped names the run by its id alone, as all marks do.  *)
SkipRun(e) ==
    /\ at[e] = "skip"
    /\ \/ SetOcr("skipped") /\ Leave(e, TRUE) /\ Unfailing
       \/ UNCHANGED ocr /\ Leave(e, FALSE) /\ Fault
    /\ UNCHANGED <<page, item, next, step, asks, extracts, ocrPast>>

(* The text of a run that was completed is indexed again.                  *)
Reindex(e) ==
    /\ at[e] = "reindex"
    /\ \/ Leave(e, TRUE) /\ Unfailing
       \/ Leave(e, FALSE) /\ Fault
    /\ UNCHANGED <<ocr, page, item, next, step, asks, extracts, ocrPast>>

(* EnsureCompletedForPipeline: a completed run is used, anyone else's by   *)
(* its text and one of a pipeline by the row's conflict.  A file that the  *)
(* policy skips is an error, and the run stays pending.                    *)
Reusable == ocr.status = "completed" /\ ocr.by # NoOne /\ ocr.reason = "user"

BeginPipeline(p) ==
    /\ step[p] = "new"
    /\ ocr' = IF Reusable THEN ocr ELSE Created("data_pipeline")
    /\ \/ ocr.status = "completed" /\ GoOn(p, "list") /\ UNCHANGED ocrPast
       \/ ocr.status # "completed" /\ GoOn(p, "lock") /\ UNCHANGED ocrPast
       \/ /\ ocr.status # "completed" /\ GoOn(p, "done")
          /\ ocrPast' = [ocrPast EXCEPT !.left = TRUE]
    /\ UNCHANGED <<page, item, lock, next, asks, extracts>> /\ Unfailing

ListPages(p) ==
    /\ step[p] = "list"
    /\ GoOn(p, "done") /\ Unlocked(p)
    /\ UNCHANGED <<ocr, page, item, next, asks, extracts, ocrPast>> /\ Unfailing

-----------------------------------------------------------------------------
(* An execution, by a handler or a pipeline step.                          *)

AcquireLock_Taken(r) ==
    /\ IsAt(r, "lock")
    /\ lock' = r /\ GoOn(r, "mark") /\ Unfailing
    /\ UNCHANGED <<ocr, page, item, next, asks, extracts, ocrPast>>

AcquireLock(r) ==
    /\ IsAt(r, "lock")
    /\ \/ lock = NoOne /\ lock' = r /\ GoOn(r, "mark") /\ Unfailing
       \/ GiveUp(r) /\ Fault
    /\ UNCHANGED <<ocr, page, item, next, asks, extracts, ocrPast>>

MarkRunning(r) ==
    /\ IsAt(r, "mark")
    /\ \/ SetOcr("running") /\ GoOn(r, "extract") /\ UNCHANGED lock /\ Unfailing
       \/ SetOcr("running") /\ GiveUp(r) /\ Fault
    /\ UNCHANGED <<page, item, next, asks, extracts, ocrPast>>

(* The body is opened and given to the engine.                             *)
Extract(r) ==
    /\ IsAt(r, "extract")
    /\ \/ GoOn(r, "replace") \/ GoOn(r, "fail")
       \/ r \in OcrEvent /\ GoOn(r, "skip")
    /\ UNCHANGED <<ocr, page, item, lock, next, asks, extracts, ocrPast>> /\ Unfailing

(* replacePages: a DELETE, and an INSERT for each page.                    *)
DropPages(r) ==
    /\ IsAt(r, "replace")
    /\ \/ page' = NoPages /\ GoOn(r, "write") /\ Unfailing
       \/ UNCHANGED page /\ GoOn(r, "fail") /\ Fault
    /\ next' = 1
    /\ UNCHANGED <<ocr, item, lock, asks, extracts, ocrPast>>

WritePage(r) ==
    /\ IsAt(r, "write") /\ next <= Pages
    /\ \/ /\ page' = [page EXCEPT ![next] = r]
          /\ \/ UNCHANGED <<step, at, eventVars>> /\ Unfailing
             \/ GoOn(r, "fail") /\ Fault
       \/ UNCHANGED page /\ GoOn(r, "fail") /\ Fault
    /\ next' = next + 1
    /\ UNCHANGED <<ocr, item, lock, asks, extracts, ocrPast>>

MarkCompleted(r) ==
    /\ IsAt(r, "write") /\ next > Pages
    /\ \/ /\ ocr' = [ocr EXCEPT !.status = "completed", !.by = r]
          /\ \/ /\ GoOn(r, IF r \in OcrEvent THEN "index" ELSE "list")
                /\ UNCHANGED lock /\ Unfailing
             \/ GiveUp(r) /\ Fault
       \/ UNCHANGED ocr /\ GiveUp(r) /\ Fault
    /\ UNCHANGED <<page, item, next, asks, extracts, ocrPast>>

MarkRunFailed_Dropped(r) ==
    /\ IsAt(r, "fail")
    /\ GiveUp(r) /\ Unfailing
    /\ UNCHANGED <<ocr, page, item, next, asks, extracts, ocrPast>>

MarkRunFailed(r) ==
    /\ IsAt(r, "fail")
    /\ \/ SetOcr("failed") /\ Unfailing
       \/ UNCHANGED ocr /\ Fault
    /\ GiveUp(r)
    /\ UNCHANGED <<page, item, next, asks, extracts, ocrPast>>

IndexText(e) ==
    /\ at[e] = "index"
    /\ \/ Goto(e, "schedule") /\ UNCHANGED lock /\ Unfailing
       \/ Leave(e, FALSE) /\ Fault
    /\ UNCHANGED <<ocr, page, item, next, step, asks, extracts, ocrPast>>

(* The error of writing the event of the extraction is dropped.            *)
ScheduleProductExtraction(e) ==
    /\ at[e] = "schedule"
    /\ at' = [at EXCEPT ![e] = "leave"]
    /\ \/ UNCHANGED eventVars
       \/ extracts /\ \E x \in ExtractEvent : fate[x] = "absent" /\ Queue!Publish(x)
    /\ UNCHANGED ocrVars /\ Unfailing

ReturnDone(e) ==
    /\ at[e] = "leave"
    /\ Leave(e, TRUE) /\ Unfailing
    /\ UNCHANGED <<ocr, page, item, next, step, asks, extracts, ocrPast>>

-----------------------------------------------------------------------------
(* HandleProductExtractionRequested.                                       *)

BeginExtraction(x) ==
    /\ \/ Begin(x, "products") /\ ocr.status = "completed" /\ Unfailing
       \/ Answer(x, TRUE) /\ Unfailing
       \/ Answer(x, FALSE) /\ Fault
    /\ UNCHANGED ocrVars

DropItems_Kept(x) ==
    /\ at[x] = "products"
    /\ Goto(x, "items") /\ Unfailing
    /\ UNCHANGED ocrVars

(* The extractor may fail; the items of the run are deleted after it.      *)
DropItems(x) ==
    /\ at[x] = "products"
    /\ \/ /\ item' = NoItems /\ Goto(x, "items")
          /\ ocrPast' = [ocrPast EXCEPT !.overlap = @ \/ \E y \in ExtractEvent : at[y] = "items"]
       \/ Return(x, FALSE) /\ UNCHANGED <<item, ocrPast>>
    /\ UNCHANGED <<ocr, page, lock, next, step, asks, extracts>> /\ Unfailing

AddItems(x) ==
    /\ at[x] = "items"
    /\ \/ /\ item' = [item EXCEPT ![x] = @ + 1]
          /\ \/ Return(x, TRUE) /\ Unfailing
             \/ Return(x, FALSE) /\ Fault
       \/ UNCHANGED item /\ Return(x, FALSE) /\ Fault
    /\ UNCHANGED <<ocr, page, lock, next, step, asks, extracts, ocrPast>>

-----------------------------------------------------------------------------
(* A process that dies, or a context that is done, releases the lock.      *)
CrashOcr(j) ==
    /\ Crash(j) /\ Unlocked(j)
    /\ UNCHANGED <<ocr, page, item, next, step, asks, extracts, ocrPast>>

ExpireOcr(j) ==
    /\ InHand(j)
    /\ Return(j, FALSE) /\ Fault /\ Unlocked(j)
    /\ UNCHANGED <<ocr, page, item, next, step, asks, extracts, ocrPast>>

StopPipeline(p) ==
    /\ step[p] \notin {"new", "done"}
    /\ GiveUp(p) /\ Fault
    /\ UNCHANGED <<ocr, page, item, next, asks, extracts, ocrPast>>

Execute(r) ==
    \/ AcquireLock(r) \/ MarkRunning(r) \/ Extract(r)
    \/ DropPages(r) \/ WritePage(r) \/ MarkCompleted(r) \/ MarkRunFailed(r)

OcrNext ==
    \/ \E e \in OcrEvent :
          \/ RequestOnUpload(e) \/ BeginOcr(e) \/ SkipRun(e) \/ Reindex(e)
          \/ Execute(e) \/ IndexText(e) \/ ScheduleProductExtraction(e) \/ ReturnDone(e)
    \/ \E p \in PipelineStep : BeginPipeline(p) \/ Execute(p) \/ ListPages(p) \/ StopPipeline(p)
    \/ \E m \in Manual : RequestJob(m) \/ ResetCompleted(m) \/ EnqueueManual(m)
    \/ \E x \in ExtractEvent :
          RequestExtraction(x) \/ BeginExtraction(x) \/ DropItems(x) \/ AddItems(x)
    \/ \E j \in OcrEvent \cup ExtractEvent :
          \/ CrashOcr(j) \/ ExpireOcr(j)
          \/ (LoseEvent(j) \/ SettleEvent(j)) /\ UNCHANGED ocrVars

-----------------------------------------------------------------------------
(* Properties.                                                             *)

(* A completed run has its pages, all of the execution whose text it has,  *)
(* however many handlers and pipelines decided to execute it and wherever  *)
(* they failed; and a pipeline that executed it reads its own.  A reset in  *)
(* the middle of an execution may take pages away, as it deletes the pages *)
(* of whatever the run has become, but never mixes two executions.         *)
PagesOfOneExecution ==
    LET Whole(r) == \A n \in 1..Pages : page[n] = r \/ (ocrPast.reset /\ page[n] = NoOne)
    IN /\ ocr.status = "completed" => Whole(ocr.by)
       /\ \A p \in PipelineStep : step[p] = "list" /\ lock = p => Whole(p)

(* The items of a run are those of one extraction, once, though the event  *)
(* is delivered again, unless two extractions of it overlapped.            *)
ItemsOfOneExtraction ==
    /\ \A x \in ExtractEvent : item[x] <= 1
    /\ \A x, y \in ExtractEvent : item[x] > 0 /\ item[y] > 0 => x = y \/ ocrPast.overlap

(* A run that is pending or running is being executed or will be, unless   *)
(* something failed or a pipeline created a run that its policy skips.     *)
OcrAttended ==
    \/ faults > 0 \/ ocrPast.left
    \/ ocr.status \in {"pending", "running"} =>
          \/ \E e \in OcrEvent : Attended(e)
          \/ \E p \in PipelineStep : step[p] \in ExecutionStep
          \/ \E m \in Manual : asks[m] \in {"reset", "enqueue"}
=============================================================================
