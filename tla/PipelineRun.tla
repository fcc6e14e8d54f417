----------------------------- MODULE PipelineRun -----------------------------
(***************************************************************************)
(* The runs of one data pipeline: manual requests, the schedules and the   *)
(* scheduler processes that turn a due schedule into a run, and the outbox *)
(* workers that execute runs.  A run is created in one transaction with    *)
(* its outbox event; what the outbox does with the event is the promise of *)
(* DeliveryQueue, which Outbox implements.  All outputs are one table, the *)
(* name configured at the output node, and a run has one output.           *)
(*                                                                         *)
(* A fault is a worker that dies or a statement that fails, applied or not *)
(* (MaxFaults); an expiry is a handler whose context is done, after which  *)
(* all of its statements fail (MaxExpiries).                               *)
(***************************************************************************)
EXTENDS PipelineVersions, Naturals, Functions

CONSTANTS Run,          \* rows of data_pipeline_runs; also names the run's event
          Schedule,     \* rows of data_pipeline_schedules
          Requester,    \* users that ask for a manual run
          Scheduler,    \* processes running DataPipelineScheduleJob
          Worker,       \* outbox workers
          MaxAttempts,  \* attempts of an outbox event
          MaxFaults, MaxExpiries,
          NoRun, NoSchedule

ASSUME RunAssumption ==
    /\ NoRun \notin Run /\ NoSchedule \notin Schedule
    /\ MaxAttempts \in Nat \ {0} /\ MaxFaults \in Nat /\ MaxExpiries \in Nat

VARIABLES
    run,       \* [Run -> [status, version, schedule]]
    ask,       \* [Requester -> the version a request has checked]
    sched,     \* [Schedule -> [state, version, enabled, due]]
    job,       \* [Scheduler -> [Schedule -> Verdict]], the open transaction
    fate, tries, ok, \* DeliveryQueue's state of the runs' events
    lost,      \* events left 'processing' with nobody to handle them
    wrk,       \* [Worker -> [pc, r, out]], the handler call of the worker
    table,     \* the run whose rows the output table holds
    gap,       \* history: a handler stopped between DROP and RENAME
    faults, expiries

queueVars == <<fate, tries, ok>>
execVars  == <<lost, wrk, table, gap, faults, expiries>>
runVars   == <<run, ask, sched, job, fate, tries, ok, lost, wrk, table, gap,
               faults, expiries>>
vars      == <<vstatus, current, run, ask, sched, job, fate, tries, ok,
               lost, wrk, table, gap, faults, expiries>>

Queue == INSTANCE DeliveryQueue WITH Event <- Run, Unknown <- {}, runs <- tries

RunStatus == {"absent", "pending", "processing", "completed", "failed"}
Active    == {"pending", "processing"}
Terminal  == {"completed", "failed"}
Verdict   == {"none", "todo", "mistimed", "disable", "skip", "create"}

RunRow == [status   : RunStatus,
           version  : Version \cup {NoVersion},
           schedule : Schedule \cup {NoSchedule}]

ScheduleRow == [state   : {"absent", "asked", "saved"},
                version : Version \cup {NoVersion},
                enabled : BOOLEAN,
                due     : BOOLEAN]

(* pc is the handler's next step, out the status it is about to finish     *)
(* with.                                                                   *)
HandlerCall == [pc : {"idle", "stage", "drop", "rename", "finish"},
                r  : Run \cup {NoRun},
                out : Terminal]

NoCall == [pc |-> "idle", r |-> NoRun, out |-> "failed"]

TypeOK ==
    /\ VersionTypeOK
    /\ run \in [Run -> RunRow]
    /\ ask \in [Requester -> Version \cup {NoVersion}]
    /\ sched \in [Schedule -> ScheduleRow]
    /\ \A s \in Schedule : sched[s].state = "saved" => sched[s].version \in Version
    /\ job \in [Scheduler -> [Schedule -> Verdict]]
    /\ fate \in [Run -> Queue!Fate]
    /\ tries \in [Run -> 0..MaxAttempts]
    /\ ok \in [Run -> BOOLEAN]
    /\ lost \subseteq Run
    /\ wrk \in [Worker -> HandlerCall]
    /\ table \in Run \cup {NoRun}
    /\ gap \in BOOLEAN
    /\ faults \in 0..MaxFaults
    /\ expiries \in 0..MaxExpiries

NoTx == [s \in Schedule |-> "none"]

Init ==
    /\ VersionInit
    /\ run = [r \in Run |-> [status |-> "absent", version |-> NoVersion,
                             schedule |-> NoSchedule]]
    /\ ask = [u \in Requester |-> NoVersion]
    /\ sched = [s \in Schedule |-> [state |-> "absent", version |-> NoVersion,
                                    enabled |-> FALSE, due |-> FALSE]]
    /\ job = [j \in Scheduler |-> NoTx]
    /\ Queue!Init
    /\ lost = {}
    /\ wrk = [w \in Worker |-> NoCall]
    /\ table = NoRun
    /\ gap = FALSE
    /\ faults = 0
    /\ expiries = 0

-----------------------------------------------------------------------------
(* Creating runs.  f gives each new run its schedule, v its version.       *)
CreateRuns(f, v) ==
    /\ run' = [r \in Run |-> IF r \in DOMAIN f
                             THEN [status |-> "pending", version |-> v[r], schedule |-> f[r]]
                             ELSE run[r]]
    /\ fate' = [r \in Run |-> IF r \in DOMAIN f THEN "open" ELSE fate[r]]
    /\ UNCHANGED <<tries, ok>>

NewRuns == {r \in Run : run[r].status = "absent"}

(* RequestRun: the checks, and then the transaction that creates the run.  *)
CheckRequest(u, v) ==
    /\ ask[u] = NoVersion
    /\ vstatus[v] = "published" /\ current = v
    /\ ask' = [ask EXCEPT ![u] = v]
    /\ UNCHANGED <<versionVars, run, sched, job, queueVars, execVars>>

CreateRequested(u) ==
    /\ ask[u] # NoVersion
    /\ \E r \in NewRuns : CreateRuns([x \in {r} |-> NoSchedule], [x \in {r} |-> ask[u]])
    /\ ask' = [ask EXCEPT ![u] = NoVersion]
    /\ UNCHANGED <<versionVars, sched, job, execVars>>

-----------------------------------------------------------------------------
(* Schedules.                                                              *)

(* CreateSchedule reads the pipeline, and then inserts a row pinned to the *)
(* version it was at.                                                      *)
ReadForSchedule_NoCheck(s) ==
    /\ sched[s].state = "absent"
    /\ sched' = [sched EXCEPT ![s].state = "asked", ![s].version = current]
    /\ UNCHANGED <<versionVars, run, ask, job, queueVars, execVars>>

ReadForSchedule(s) ==
    /\ sched[s].state = "absent"
    /\ current # NoVersion
    /\ sched' = [sched EXCEPT ![s].state = "asked", ![s].version = current]
    /\ UNCHANGED <<versionVars, run, ask, job, queueVars, execVars>>

InsertSchedule(s) ==
    /\ sched[s].state = "asked"
    /\ \E en \in BOOLEAN :
          sched' = [sched EXCEPT ![s].state = "saved", ![s].enabled = en]
    /\ UNCHANGED <<versionVars, run, ask, job, queueVars, execVars>>

(* The rows the schedulers' open transactions have locked.                 *)
LockedSchedules_None == {}

LockedSchedules == {s \in Schedule : \E j \in Scheduler : job[j][s] # "none"}

(* UpdateSchedule waits for the row's lock.  The value of enabled is the   *)
(* caller's or one read earlier, so it may be either; next_run_at moves to *)
(* the future.                                                             *)
UpdateSchedule(s) ==
    /\ sched[s].state = "saved"
    /\ s \notin LockedSchedules
    /\ \E en \in BOOLEAN :
          sched' = [sched EXCEPT ![s].enabled = en, ![s].due = FALSE]
    /\ UNCHANGED <<versionVars, run, ask, job, queueVars, execVars>>

DisableSchedule(s) ==
    /\ sched[s].state = "saved"
    /\ s \notin LockedSchedules
    /\ sched' = [sched EXCEPT ![s].enabled = FALSE]
    /\ UNCHANGED <<versionVars, run, ask, job, queueVars, execVars>>

(* Time passes next_run_at.                                                *)
ComesDue(s) ==
    /\ sched[s].state = "saved" /\ ~sched[s].due
    /\ sched' = [sched EXCEPT ![s].due = TRUE]
    /\ UNCHANGED <<versionVars, run, ask, job, queueVars, execVars>>

-----------------------------------------------------------------------------
(* RunDueSchedules, one transaction.  A scheduler has one at a time (the   *)
(* running flag).                                                          *)
ClaimSchedules(j) ==
    LET claimed == {s \in Schedule \ LockedSchedules :
                       sched[s].state = "saved" /\ sched[s].enabled /\ sched[s].due}
    IN  /\ job[j] = NoTx
        /\ claimed # {}
        /\ job' = [job EXCEPT ![j] = [s \in Schedule |-> IF s \in claimed THEN "todo"
                                                         ELSE "none"]]
        /\ UNCHANGED <<versionVars, run, ask, sched, queueVars, execVars>>

(* Whether CountActiveDataPipelineRunsForSchedule is above zero.           *)
HasActiveRun(s) == \E r \in Run : run[r].schedule = s /\ run[r].status \in Active

(* A schedule whose next time cannot be computed (its time zone, say, is   *)
(* none this process knows) is disabled, and stays due.                    *)
DecideSchedule(j, s) ==
    /\ job[j][s] = "todo"
    /\ \E verdict \in {"mistimed", IF current # sched[s].version THEN "disable"
                                    ELSE IF HasActiveRun(s) THEN "skip" ELSE "create"} :
          job' = [job EXCEPT ![j][s] = verdict]
    /\ UNCHANGED <<versionVars, run, ask, sched, queueVars, execVars>>

Decided(j, verdict) == {s \in Schedule : job[j][s] = verdict}

CommitSchedules(j) ==
    /\ job[j] # NoTx /\ Decided(j, "todo") = {}
    /\ \E new \in Injection(Decided(j, "create"), NewRuns) :
          LET s(r) == CHOOSE x \in DOMAIN new : new[x] = r
              rs   == {new[x] : x \in DOMAIN new}
          IN  CreateRuns([r \in rs |-> s(r)], [r \in rs |-> sched[s(r)].version])
    /\ sched' = [s \in Schedule |->
                    IF job[j][s] = "none" THEN sched[s]
                    ELSE [sched[s] EXCEPT !.due = job[j][s] = "mistimed",
                                          !.enabled = @ /\ job[j][s] \in {"skip", "create"}]]
    /\ job' = [job EXCEPT ![j] = NoTx]
    /\ UNCHANGED <<versionVars, ask, execVars>>

(* An error or the job's timeout: the rows are as they were, and unlocked. *)
RollbackSchedules(j) ==
    /\ job[j] # NoTx
    /\ job' = [job EXCEPT ![j] = NoTx]
    /\ UNCHANGED <<versionVars, run, ask, sched, queueVars, execVars>>

-----------------------------------------------------------------------------
(* HandleRunRequested, called by an outbox worker with the run's event.    *)

InHand(r) == \E w \in Worker : wrk[w].r = r

Deliverable(r) == fate[r] = "open" /\ ~ok[r] /\ tries[r] < MaxAttempts
                  /\ ~InHand(r) /\ r \notin lost

(* The call returns: nil, or an error the outbox counts against the event. *)
Returns(r, nil) == Queue!Attempt(r) /\ ok' = [ok EXCEPT ![r] = nil]

EndCall(w, nil) == /\ Returns(wrk[w].r, nil)
                   /\ wrk' = [wrk EXCEPT ![w] = NoCall]

SetStatus(r, s) == run' = [run EXCEPT ![r].status = s]

Go(w, pc) == wrk' = [wrk EXCEPT ![w].pc = pc]

Fault == faults < MaxFaults /\ faults' = faults + 1

Unfailing == UNCHANGED <<faults, expiries>>

Others == <<versionVars, ask, sched, job>>  \* what no handler changes

(* The statuses MarkDataPipelineRunProcessing takes a run from.            *)
Markable_Any == RunStatus \ {"absent"}

Markable_PendingOnly == {"pending"}

Markable == {"pending", "processing"}

(* It marks the run; the rows of its steps and outputs are made with it.   *)
BeginRun(w, r) ==
    /\ wrk[w] = NoCall
    /\ Deliverable(r)
    /\ run[r].status \in Markable
    /\ SetStatus(r, "processing")
    /\ wrk' = [wrk EXCEPT ![w] = [pc |-> "stage", r |-> r, out |-> "failed"]]
    /\ UNCHANGED <<Others, queueVars, lost, table, gap>> /\ Unfailing

(* A retry of a finished run: ErrDataPipelineRunNotFound.                  *)
RefuseRun(w, r) ==
    /\ wrk[w] = NoCall
    /\ Deliverable(r)
    /\ run[r].status \notin Markable
    /\ Returns(r, FALSE)
    /\ UNCHANGED <<Others, run, lost, wrk, table, gap>> /\ Unfailing

(* An error before the outputs are built (steps, sandbox, connection,      *)
(* node results): the run is failed, best effort, and the error returned.  *)
ExecuteError(w) ==
    /\ wrk[w].pc = "stage"
    /\ EndCall(w, FALSE)
    /\ \/ SetStatus(wrk[w].r, "failed") /\ Unfailing
       \/ UNCHANGED <<run, expiries>> /\ Fault
    /\ UNCHANGED <<Others, lost, table, gap>>

(* CREATE TABLE stage AS SELECT: the query of the output fails, or not.    *)
StageOutput(w) ==
    /\ wrk[w].pc = "stage"
    /\ Go(w, "drop") \/ Go(w, "finish")
    /\ UNCHANGED <<Others, run, queueVars, lost, table, gap>> /\ Unfailing

(* DROP TABLE IF EXISTS target, whose error is ignored.                    *)
DropTarget(w) ==
    /\ wrk[w].pc = "drop"
    /\ Go(w, "rename")
    /\ \/ table' = NoRun /\ Unfailing
       \/ UNCHANGED <<table, expiries>> /\ Fault
    /\ UNCHANGED <<Others, run, queueVars, lost, gap>>

Renamed(w) == wrk' = [wrk EXCEPT ![w].pc = "finish", ![w].out = "completed"]

(* RENAME TABLE stage TO target fails if another run's stage is already    *)
(* there; then the work table is registered, or its registration fails.    *)
RenameStage_DropsTarget(w) ==
    /\ wrk[w].pc = "rename"
    /\ \/ table = NoRun /\ table' = wrk[w].r /\ Renamed(w) /\ Unfailing
       \/ table # NoRun /\ table' = NoRun /\ Go(w, "finish") /\ Unfailing
    /\ UNCHANGED <<Others, run, queueVars, lost, gap>>

RenameStage(w) ==
    /\ wrk[w].pc = "rename"
    /\ \/ table = NoRun /\ table' = wrk[w].r /\ Renamed(w) /\ UNCHANGED gap /\ Unfailing
       \/ table # NoRun /\ Go(w, "finish") /\ UNCHANGED <<table, gap>> /\ Unfailing
       \/ /\ table = NoRun /\ table' \in {NoRun, wrk[w].r}
          /\ gap' = (gap \/ table' = NoRun)
          /\ Go(w, "finish") /\ Fault /\ UNCHANGED expiries
    /\ UNCHANGED <<Others, run, queueVars, lost>>

(* FinishDataPipelineRun; the handler returns nil also for a failed run.   *)
FinishRun(w) ==
    /\ wrk[w].pc = "finish"
    /\ SetStatus(wrk[w].r, wrk[w].out)
    /\ EndCall(w, TRUE)
    /\ UNCHANGED <<Others, lost, table, gap>> /\ Unfailing

(* The statement fails, applied or not, or the review items of a run that  *)
(* succeeded cannot be stored, which fails the run.                        *)
FinishError(w) ==
    /\ wrk[w].pc = "finish"
    /\ \/ SetStatus(wrk[w].r, wrk[w].out)
       \/ wrk[w].out = "completed" /\ SetStatus(wrk[w].r, "failed")
       \/ UNCHANGED run
    /\ EndCall(w, FALSE)
    /\ Fault
    /\ UNCHANGED <<Others, lost, table, gap, expiries>>

(* The context of the batch is done: the statement in progress fails,      *)
(* applied (which counts as a fault besides) or not, and so does           *)
(* failRunBestEffort, which uses the same context.                         *)
CutShort(w) ==
    \/ wrk[w].pc = "drop" /\ table' = NoRun /\ gap' = TRUE /\ UNCHANGED run
    \/ wrk[w].pc = "rename" /\ table = NoRun /\ table' = wrk[w].r /\ UNCHANGED <<run, gap>>
    \/ wrk[w].pc = "finish" /\ SetStatus(wrk[w].r, wrk[w].out) /\ UNCHANGED <<table, gap>>

ExpireRun(w) ==
    /\ wrk[w].pc # "idle"
    /\ expiries < MaxExpiries
    /\ EndCall(w, FALSE)
    /\ \/ gap' = (gap \/ wrk[w].pc = "rename") /\ UNCHANGED <<run, table, faults>>
       \/ CutShort(w) /\ Fault
    /\ expiries' = expiries + 1
    /\ UNCHANGED <<Others, lost>>

(* MarkDataPipelineRunProcessing fails: for an event of the batch whose    *)
(* turn comes after the context is done, or applied or not for another.    *)
BeginError(r) ==
    /\ Deliverable(r)
    /\ Returns(r, FALSE)
    /\ \/ /\ expiries < MaxExpiries
          /\ expiries' = expiries + 1
          /\ UNCHANGED <<run, faults>>
       \/ /\ Fault /\ UNCHANGED expiries
          /\ \/ UNCHANGED run
             \/ run[r].status \in Markable /\ SetStatus(r, "processing")
    /\ UNCHANGED <<Others, lost, wrk, table, gap>>

CrashWorker(w) ==
    /\ wrk[w].pc # "idle"
    /\ wrk' = [wrk EXCEPT ![w] = NoCall]
    /\ lost' = lost \cup {wrk[w].r}
    /\ gap' = (gap \/ wrk[w].pc = "rename")
    /\ Fault
    /\ UNCHANGED <<Others, run, queueVars, table, expiries>>

(* A claim or a mark of the outbox goes wrong: Outbox!ClaimLost, MarkError.*)
LoseEvent(r) ==
    /\ fate[r] = "open" /\ ~InHand(r) /\ r \notin lost
    /\ lost' = lost \cup {r}
    /\ Fault
    /\ UNCHANGED <<Others, run, queueVars, wrk, table, gap, expiries>>

SettleEvent(r) ==
    /\ r \notin lost /\ ~InHand(r)
    /\ Queue!SettleSent(r) \/ Queue!SettleDead(r)
    /\ UNCHANGED <<Others, run, execVars>>

-----------------------------------------------------------------------------
RequesterStep(u) == (\E v \in Version : CheckRequest(u, v)) \/ CreateRequested(u)

ScheduleStep(s) == \/ ReadForSchedule(s)
                   \/ InsertSchedule(s)
                   \/ UpdateSchedule(s)
                   \/ DisableSchedule(s)
                   \/ ComesDue(s)

SchedulerStep(j) == \/ ClaimSchedules(j)
                    \/ \E s \in Schedule : DecideSchedule(j, s)
                    \/ CommitSchedules(j)
                    \/ RollbackSchedules(j)

WorkerStep(w) == \/ \E r \in Run : BeginRun(w, r) \/ RefuseRun(w, r)
                 \/ ExecuteError(w)
                 \/ StageOutput(w)
                 \/ DropTarget(w)
                 \/ RenameStage(w)
                 \/ FinishRun(w)

WorkerFault(w) == FinishError(w) \/ ExpireRun(w) \/ CrashWorker(w)

EventStep(r) == BeginError(r) \/ LoseEvent(r) \/ SettleEvent(r)

Next == \/ VersionNext /\ UNCHANGED runVars
        \/ \E u \in Requester : RequesterStep(u)
        \/ \E s \in Schedule : ScheduleStep(s)
        \/ \E j \in Scheduler : SchedulerStep(j)
        \/ \E w \in Worker : WorkerStep(w) \/ WorkerFault(w)
        \/ \E r \in Run : EventStep(r)

Spec == Init /\ [][Next]_vars

-----------------------------------------------------------------------------
(* Properties.                                                             *)

(* However many scheduler processes run, whatever is retried and whatever  *)
(* users do, a schedule has at most one run pending or processing, and a   *)
(* transaction about to add one finds none.                                *)
OneActiveRunPerSchedule ==
    \A s \in Schedule :
        /\ \A q, r \in Run : /\ run[q].schedule = s /\ run[q].status \in Active
                             /\ run[r].schedule = s /\ run[r].status \in Active
                             => q = r
        /\ (\E j \in Scheduler : job[j][s] = "create") => ~HasActiveRun(s)

(* No run is made for a schedule that is off: a disable that has returned  *)
(* is not overtaken by a transaction that had read the schedule before.    *)
NoRunWhileDisabled ==
    [][\A r \in Run : /\ run[r].status = "absent"
                      /\ run'[r].status # "absent"
                      /\ run'[r].schedule # NoSchedule
                      => sched[run'[r].schedule].enabled]_vars

(* A finished run stays as it finished, and is not executed again, though  *)
(* its event may be delivered again and no later statement checks status.  *)
FinishedIsFinal ==
    [][\A r \in Run : run[r].status \in Terminal =>
          /\ run'[r].status = run[r].status
          /\ \A w \in Worker : wrk[w].r # r => wrk'[w].r # r]_vars

(* Once a run has completed the output table is there, whichever runs are  *)
(* replacing it at the same time, except while a run is between its DROP   *)
(* and its RENAME or stopped there.                                        *)
OutputStays ==
    (\E r \in Run : run[r].status = "completed") =>
        table # NoRun \/ gap \/ \E w \in Worker : wrk[w].pc = "rename"

(* A run that is pending or processing has a handler, or will be given     *)
(* one: an attempt that expired leaves it where its retry takes it up.     *)
(* Otherwise its schedule, which waits for it, would never run again.  And *)
(* the outbox's verdict is the run's: an event is sent only for a run that *)
(* has finished, and given up only for one that has failed, unless         *)
(* something was lost or every attempt ran out of time.                    *)
NoOrphanRun ==
    \A r \in Run :
        /\ fate[r] = "sent" => run[r].status \in Terminal
        /\ \/ run[r].status \in Active => InHand(r) \/ Deliverable(r)
           \/ faults > 0
           \/ expiries >= MaxAttempts
        /\ fate[r] = "dead" => run[r].status = "failed" \/ faults > 0 \/ expiries >= MaxAttempts

(* The manual's table of statuses (data-pipeline-manual.md:1133): a run is *)
(* 'processing' while the outbox handler processes it; so not any more     *)
(* once the outbox has given its event up for good.                        *)
ProcessingIsHandled == \A r \in Run : fate[r] = "dead" => run[r].status # "processing"
=============================================================================
