----------------------------- MODULE SystemJobs -----------------------------
(***************************************************************************)
(* The stop button of the administrator's job list.  A stop sets the row   *)
(* of a job to failed and its outbox event to dead in one transaction,     *)
(* wherever the worker is: with the event in its batch, in the handler, or *)
(* about to mark the event, by its id alone.  Handlers differ in what they *)
(* check before they begin a row and before they finish it.  The other     *)
(* modules describe jobs that nobody stops.                                *)
(***************************************************************************)
EXTENDS Faults

CONSTANTS SysJob,     \* rows of the job tables, each with its outbox event
          MaxClaims   \* max_attempts of an event

ASSUME SystemJobsAssumption == MaxClaims \in Nat \ {0}

VARIABLES
    kind,     \* [SysJob -> Kind], which table it is in
    jobRow,   \* [SysJob -> status of the row]
    jobEvent, \* [SysJob -> status of the outbox event]
    claims,   \* [SysJob -> its attempts]
    hand,     \* [SysJob -> where the worker is that has the event]
    stop      \* history: [SysJob -> where the worker was at the last stop]

sysVars == <<kind, jobRow, jobEvent, claims, hand, stop>>

(* checked: gold publish runs and dataset syncs begin and finish only an   *)
(* open row; begun: pipeline runs are only begun so; unchecked: imports,   *)
(* exports, OCR runs and index jobs are begun unless done.                 *)
Kind == {"checked", "begun", "unchecked"}

OpenRow   == {"pending", "processing"}
OpenEvent == {"pending", "processing", "failed"}
Hand      == {"none", "claimed", "working", "ok", "err"}

SystemJobsTypeOK ==
    /\ kind \in [SysJob -> Kind]
    /\ jobRow \in [SysJob -> OpenRow \cup {"absent", "failed", "done"}]
    /\ jobEvent \in [SysJob -> OpenEvent \cup {"absent", "sent", "dead"}]
    /\ claims \in [SysJob -> 0..MaxClaims]
    /\ hand \in [SysJob -> Hand]
    /\ stop \in [SysJob -> {"never", "event", "none", "claimed", "working", "ok", "err"}]
    /\ FaultsTypeOK

SystemJobsInit ==
    /\ kind \in [SysJob -> Kind]
    /\ jobRow = [j \in SysJob |-> "absent"]
    /\ jobEvent = [j \in SysJob |-> "absent"]
    /\ claims = [j \in SysJob |-> 0]
    /\ hand = [j \in SysJob |-> "none"]
    /\ stop = [j \in SysJob |-> "never"]

-----------------------------------------------------------------------------
(* The row and its event are written in one transaction.                   *)
CreateJob(j) ==
    /\ jobRow[j] = "absent"
    /\ jobRow' = [jobRow EXCEPT ![j] = "pending"]
    /\ jobEvent' = [jobEvent EXCEPT ![j] = "pending"]
    /\ UNCHANGED <<kind, claims, hand, stop>> /\ Unfailing

ClaimJob(j) ==
    /\ jobEvent[j] \in {"pending", "failed"} /\ claims[j] < MaxClaims
    /\ jobEvent' = [jobEvent EXCEPT ![j] = "processing"]
    /\ claims' = [claims EXCEPT ![j] = @ + 1]
    /\ hand' = [hand EXCEPT ![j] = "claimed"]
    /\ UNCHANGED <<kind, jobRow, stop>> /\ Unfailing

MayBegin(j) == jobRow[j] \in OpenRow \/ (kind[j] = "unchecked" /\ jobRow[j] = "failed")

(* A handler that may not begin finds nothing to do; that of a pipeline    *)
(* finds no row and fails.                                                 *)
BeginJob(j) ==
    /\ hand[j] = "claimed"
    /\ \/ /\ MayBegin(j)
          /\ jobRow' = [jobRow EXCEPT ![j] = "processing"]
          /\ hand' = [hand EXCEPT ![j] = "working"]
       \/ /\ ~MayBegin(j)
          /\ hand' = [hand EXCEPT ![j] = IF kind[j] = "begun" THEN "err" ELSE "ok"]
          /\ UNCHANGED jobRow
    /\ UNCHANGED <<kind, jobEvent, claims, stop>> /\ Unfailing

MayFinish_Always(j) == TRUE

MayFinish(j) == kind[j] = "checked" => jobRow[j] \in OpenRow

(* A handler that fails, as it does when it cannot complete its row, marks *)
(* the row if it may; some then return an error and some nil.              *)
FinishJob(j) ==
    /\ hand[j] = "working"
    /\ \/ /\ MayFinish(j)
          /\ jobRow' = [jobRow EXCEPT ![j] = "done"]
          /\ hand' = [hand EXCEPT ![j] = "ok"]
       \/ /\ jobRow' = IF MayFinish(j) THEN [jobRow EXCEPT ![j] = "failed"] ELSE jobRow
          /\ \E r \in {"ok", "err"} : hand' = [hand EXCEPT ![j] = r]
    /\ UNCHANGED <<kind, jobEvent, claims, stop>> /\ Unfailing

(* MarkSent and MarkFailed name the event by its id, whatever its status.  *)
MarkJob(j) ==
    /\ hand[j] \in {"ok", "err"}
    /\ jobEvent' = [jobEvent EXCEPT ![j] =
                       IF hand[j] = "ok" THEN "sent"
                       ELSE IF claims[j] < MaxClaims THEN "failed" ELSE "dead"]
    /\ hand' = [hand EXCEPT ![j] = "none"]
    /\ UNCHANGED <<kind, jobRow, claims, stop>> /\ Unfailing

(* The worker dies, its mark fails or its context is done.                 *)
LoseJob(j) ==
    /\ hand[j] # "none"
    /\ \/ hand' = [hand EXCEPT ![j] = "none"]
       \/ hand[j] = "working" /\ hand' = [hand EXCEPT ![j] = "err"]
    /\ Fault
    /\ UNCHANGED <<kind, jobRow, jobEvent, claims, stop>>

-----------------------------------------------------------------------------
(* Stop.                                                                   *)
KillEvent(j) == jobEvent' = [jobEvent EXCEPT ![j] = IF @ \in OpenEvent THEN "dead" ELSE @]

StopJob_LeavesEvent(j) ==
    /\ jobRow[j] \in OpenRow
    /\ jobRow' = [jobRow EXCEPT ![j] = "failed"]
    /\ stop' = [stop EXCEPT ![j] = hand[j]]
    /\ UNCHANGED <<kind, jobEvent, claims, hand>> /\ Unfailing

StopJob(j) ==
    /\ jobRow[j] \in OpenRow
    /\ jobRow' = [jobRow EXCEPT ![j] = "failed"]
    /\ KillEvent(j)
    /\ stop' = [stop EXCEPT ![j] = hand[j]]
    /\ UNCHANGED <<kind, claims, hand>> /\ Unfailing

(* The list also shows the events; stopping one leaves the row as it is.   *)
StopEvent(j) ==
    /\ jobEvent[j] \in OpenEvent
    /\ KillEvent(j)
    /\ stop' = [stop EXCEPT ![j] = IF @ = "never" THEN "event" ELSE @]
    /\ UNCHANGED <<kind, jobRow, claims, hand>> /\ Unfailing

SystemJobsNext ==
    \E j \in SysJob :
        \/ CreateJob(j) \/ ClaimJob(j) \/ BeginJob(j) \/ FinishJob(j) \/ MarkJob(j)
        \/ LoseJob(j) \/ StopJob(j) \/ StopEvent(j)

SystemJobsSpec == SystemJobsInit /\ FaultsInit /\ [][SystemJobsNext]_<<sysVars, faults>>

-----------------------------------------------------------------------------
(* Properties.                                                             *)

Stopped(j) == stop[j] \notin {"never", "event"}

(* A stopped job stays stopped: for good when no worker had its event, and *)
(* when its handler checks the row before it finishes; a run of a pipeline *)
(* that was stopped is not begun again, so only a handler that was already *)
(* at work can still finish it.  A job of the other kinds that a worker    *)
(* had in hand may be run, and even retried, after it was stopped.         *)
StopHolds ==
    \A j \in SysJob :
        /\ stop[j] = "none" => jobRow[j] = "failed" /\ jobEvent[j] = "dead" /\ hand[j] = "none"
        /\ Stopped(j) /\ kind[j] = "checked" => jobRow[j] = "failed"
        /\ Stopped(j) /\ kind[j] = "begun" =>
              /\ jobRow[j] # "processing"
              /\ jobRow[j] # "failed" => stop[j] = "working"

(* An open row has a worker, or an event that will give it one, unless     *)
(* something was lost or its event alone was stopped.                      *)
SystemJobsAttended ==
    \A j \in SysJob :
        \/ faults > 0 \/ stop[j] = "event"
        \/ jobRow[j] \in OpenRow =>
              hand[j] # "none" \/ (jobEvent[j] \in {"pending", "failed"} /\ claims[j] < MaxClaims)
=============================================================================
