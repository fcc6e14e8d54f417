------------------------------- MODULE Outbox -------------------------------
(***************************************************************************)
(* The transactional outbox: the outbox_events table, the OutboxService    *)
(* that writes its rows, the OutboxWorker processes that claim batches of  *)
(* rows and run their handlers, and the retention job that deletes settled *)
(* rows.  One worker runs one batch at a time (the running flag of         *)
(* runOnce), sequentially; several workers exist while a deployment rolls. *)
(*                                                                         *)
(* An administrator who stops a job sets its event to dead: SystemJobs.    *)
(*                                                                         *)
(* A fault is a process that dies, or a statement whose error reaches the  *)
(* worker whether or not the database applied it.  MaxFaults bounds them.  *)
(***************************************************************************)
EXTENDS Naturals, FiniteSets

CONSTANTS Event,        \* rows of outbox_events, named by the order of their ids
          Worker,       \* OutboxWorker processes
          Unknown,      \* events whose type the handler's switch does not list
          MaxAttempts,  \* max_attempts of every row
          BatchSize,    \* rows one claim takes
          MaxFaults,    \* bound on the faults of a behaviour
          NoEvent       \* the worker has no row to mark

ASSUME OutboxAssumption ==
    /\ IsFiniteSet(Event)
    /\ Unknown \subseteq Event
    /\ MaxAttempts \in Nat \ {0}
    /\ BatchSize \in Nat \ {0}
    /\ MaxFaults \in Nat
    /\ NoEvent \notin Event

VARIABLES
    status,    \* [Event -> Status], the status column
    attempts,  \* [Event -> 0..MaxAttempts], the attempts column
    wait,      \* [Event -> 0..60], seconds until available_at
    held,      \* [Worker -> SUBSET Event], claimed rows of the batch not yet handled
    cur,       \* [Worker -> Event \cup {NoEvent}], the handled row still to be marked
    result,    \* [Worker -> Result], what the handler returned for cur
    expired,   \* [Worker -> BOOLEAN], the context of the run is done
    runs,      \* [Event -> Nat], history: handler runs
    ok,        \* [Event -> BOOLEAN], history: some run returned nil
    faults     \* faults so far

table  == <<status, attempts, wait>>
worker == <<held, cur, result, expired>>
vars   == <<status, attempts, wait, held, cur, result, expired, runs, ok, faults>>

Status == {"absent", "pending", "processing", "failed", "sent", "dead", "gone"}
Result == {"ok", "err", "unknown"}

TypeOK ==
    /\ status \in [Event -> Status]
    /\ attempts \in [Event -> 0..MaxAttempts]
    /\ wait \in [Event -> 0..60]
    /\ held \in [Worker -> SUBSET Event]
    /\ cur \in [Worker -> Event \cup {NoEvent}]
    /\ result \in [Worker -> Result]
    /\ expired \in [Worker -> BOOLEAN]
    /\ runs \in [Event -> 0..MaxAttempts]
    /\ ok \in [Event -> BOOLEAN]
    /\ faults \in 0..MaxFaults

Init ==
    /\ status = [e \in Event |-> "absent"]
    /\ attempts = [e \in Event |-> 0]
    /\ wait = [e \in Event |-> 0]
    /\ held = [w \in Worker |-> {}]
    /\ cur = [w \in Worker |-> NoEvent]
    /\ result = [w \in Worker |-> "ok"]
    /\ expired = [w \in Worker |-> FALSE]
    /\ runs = [e \in Event |-> 0]
    /\ ok = [e \in Event |-> FALSE]
    /\ faults = 0

-----------------------------------------------------------------------------
(* Producers.  The row is inserted in the transaction of the business      *)
(* change, so it appears whole, pending and available at once.             *)
Enqueue(e) ==
    /\ status[e] = "absent"
    /\ status' = [status EXCEPT ![e] = "pending"]
    /\ UNCHANGED <<attempts, wait, worker, runs, ok, faults>>

-----------------------------------------------------------------------------
(* The worker.                                                             *)

(* The rows a claim selects.                                               *)
Due_AlsoProcessing == {e \in Event : status[e] \in {"pending", "failed", "processing"}}

Due == {e \in Event : /\ status[e] \in {"pending", "failed"}
                      /\ wait[e] = 0
                      /\ attempts[e] < MaxAttempts}

(* A claim takes BatchSize due rows, or all of them if there are fewer.    *)
(* Which ones (ORDER BY available_at) is left open.                        *)
IsClaim(S) ==
    /\ S \subseteq Due
    /\ S = Due \/ Cardinality(S) = BatchSize
    /\ Cardinality(S) <= BatchSize

TakeRows(S) ==
    /\ status' = [e \in Event |-> IF e \in S THEN "processing" ELSE status[e]]
    /\ attempts' = [e \in Event |-> IF e \in S THEN attempts[e] + 1 ELSE attempts[e]]

Idle(w) == held[w] = {} /\ cur[w] = NoEvent

Claim(w) ==
    /\ Idle(w)
    /\ \E S \in SUBSET Due :
          /\ IsClaim(S)
          /\ TakeRows(S)
          /\ held' = [held EXCEPT ![w] = S]
    /\ expired' = [expired EXCEPT ![w] = FALSE]
    /\ UNCHANGED <<wait, cur, result, runs, ok, faults>>

(* The claim commits but its reply is lost: runBatch returns with no rows. *)
ClaimLost(w) ==
    /\ faults < MaxFaults
    /\ Idle(w)
    /\ \E S \in SUBSET Due : IsClaim(S) /\ S # {} /\ TakeRows(S)
    /\ faults' = faults + 1
    /\ UNCHANGED <<wait, worker, runs, ok>>

(* The timeout of the run, or a shutdown, ends the context of the batch.   *)
Expire(w) ==
    /\ ~Idle(w)
    /\ ~expired[w]
    /\ expired' = [expired EXCEPT ![w] = TRUE]
    /\ UNCHANGED <<table, held, cur, result, runs, ok, faults>>

(* What HandleOutboxEvent may return for e.  The worker does not stop a    *)
(* handler whose context is done: one that is past its statements, or has  *)
(* none left to make, may still return nil.                                *)
Outcomes(e) == IF e \in Unknown THEN {"unknown"} ELSE {"ok", "err"}

Handle(w) ==
    /\ cur[w] = NoEvent
    /\ \E e \in held[w] : \E r \in Outcomes(e) :
          /\ held' = [held EXCEPT ![w] = @ \ {e}]
          /\ cur' = [cur EXCEPT ![w] = e]
          /\ result' = [result EXCEPT ![w] = r]
          /\ runs' = [runs EXCEPT ![e] = @ + 1]
          /\ ok' = [ok EXCEPT ![e] = @ \/ r = "ok"]
    /\ UNCHANGED <<table, expired, faults>>

(* MarkFailed's wait before the next attempt, in seconds.                  *)
Backoff(n) == IF n < 1 THEN 1 ELSE IF n > 60 THEN 60 ELSE n

(* MarkSent and MarkFailed for row e after result r.                       *)
Exhausted_OneShort(e, r) == r = "unknown" \/ attempts[e] >= MaxAttempts - 1

Exhausted(e, r) == r = "unknown" \/ attempts[e] >= MaxAttempts

MarkRow(e, r) ==
    \/ /\ r = "ok"
       /\ status' = [status EXCEPT ![e] = "sent"]
       /\ UNCHANGED wait
    \/ /\ r # "ok" /\ Exhausted(e, r)
       /\ status' = [status EXCEPT ![e] = "dead"]
       /\ UNCHANGED wait
    \/ /\ r # "ok" /\ ~Exhausted(e, r)
       /\ status' = [status EXCEPT ![e] = "failed"]
       /\ wait' = [wait EXCEPT ![e] = Backoff(attempts[e])]

Mark_InRunContext(w) ==
    /\ cur[w] # NoEvent
    /\ ~expired[w]
    /\ MarkRow(cur[w], result[w])
    /\ cur' = [cur EXCEPT ![w] = NoEvent]
    /\ UNCHANGED <<attempts, held, result, expired, runs, ok, faults>>

(* The mark runs in a context of its own, so an expired run still marks.   *)
Mark(w) ==
    /\ cur[w] # NoEvent
    /\ MarkRow(cur[w], result[w])
    /\ cur' = [cur EXCEPT ![w] = NoEvent]
    /\ UNCHANGED <<attempts, held, result, expired, runs, ok, faults>>

(* An error from the mark, applied or not, ends runBatch: the rest of the  *)
(* batch stays claimed and nobody holds it.                                *)
MarkError(w) ==
    /\ faults < MaxFaults
    /\ cur[w] # NoEvent
    /\ MarkRow(cur[w], result[w]) \/ UNCHANGED <<status, wait>>
    /\ cur' = [cur EXCEPT ![w] = NoEvent]
    /\ held' = [held EXCEPT ![w] = {}]
    /\ faults' = faults + 1
    /\ UNCHANGED <<attempts, result, expired, runs, ok>>

(* The process dies, or exits without waiting for its job goroutines, and  *)
(* its successor starts with no batch.                                     *)
Crash(w) ==
    /\ faults < MaxFaults
    /\ ~Idle(w)
    /\ held' = [held EXCEPT ![w] = {}]
    /\ cur' = [cur EXCEPT ![w] = NoEvent]
    /\ faults' = faults + 1
    /\ UNCHANGED <<table, result, expired, runs, ok>>

-----------------------------------------------------------------------------
(* One second passes.                                                      *)
Tick ==
    /\ \E e \in Event : wait[e] > 0
    /\ wait' = [e \in Event |-> IF wait[e] > 0 THEN wait[e] - 1 ELSE 0]
    /\ UNCHANGED <<status, attempts, worker, runs, ok, faults>>

DeleteProcessed_Failed(e) ==
    /\ status[e] \in {"sent", "dead", "failed"}
    /\ status' = [status EXCEPT ![e] = "gone"]
    /\ UNCHANGED <<attempts, wait, worker, runs, ok, faults>>

(* The data lifecycle job deletes a settled row past its retention.        *)
DeleteProcessed(e) ==
    /\ status[e] \in {"sent", "dead"}
    /\ status' = [status EXCEPT ![e] = "gone"]
    /\ UNCHANGED <<attempts, wait, worker, runs, ok, faults>>

-----------------------------------------------------------------------------
WorkerStep(w) == Claim(w) \/ Handle(w) \/ Mark(w)

WorkerFault(w) == ClaimLost(w) \/ MarkError(w) \/ Crash(w)

Next == \/ \E e \in Event : Enqueue(e) \/ DeleteProcessed(e)
        \/ \E w \in Worker : WorkerStep(w) \/ Expire(w) \/ WorkerFault(w)
        \/ Tick

Spec == Init /\ [][Next]_vars

(* The ticker starts a run, a handler returns within its context's timeout *)
(* and the loop goes on to mark and handle the next row; time passes.      *)
Fairness == (\A w \in Worker : WF_vars(WorkerStep(w))) /\ WF_vars(Tick)

FairSpec == Spec /\ Fairness

-----------------------------------------------------------------------------
(* Properties.                                                             *)

InHand(w) == held[w] \cup ({cur[w]} \ {NoEvent})

(* Two workers never have the same row in hand, a worker does not have a   *)
(* row twice, and a row in hand is still 'processing': the marks, which    *)
(* name the row by id alone and check neither locked_by nor the status     *)
(* (outbox.sql:34-67), therefore never overwrite another worker's outcome. *)
ExclusiveClaim ==
    /\ \A w \in Worker : cur[w] \notin held[w]
    /\ \A w \in Worker : \A e \in InHand(w) : status[e] = "processing"
    /\ \A v, w \in Worker : v # w => InHand(v) \cap InHand(w) = {}

(* A row is 'sent' only if a run of its handler returned nil, and 'dead'   *)
(* only if none did and either its type is unknown or every one of its     *)
(* attempts was spent on a run, none on a claim that was abandoned.        *)
SettledAsHandled ==
    \A e \in Event :
        /\ status[e] = "sent" => ok[e]
        /\ status[e] = "dead" =>
              /\ ~ok[e]
              /\ (e \in Unknown /\ runs[e] = 1) \/ runs[e] = MaxAttempts

(* Once a run of the handler has returned nil the handler is never run     *)
(* again for that row, whatever fails afterwards: no duplicate after       *)
(* success, also when the mark or the process is lost in between.          *)
NoRunAfterSuccess ==
    [][\A e \in Event : ok[e] => runs'[e] = runs[e]]_vars

(* Every committed event ends sent or dead, unless a process or statement  *)
(* is lost: also an event whose run expired is marked and retried.         *)
EventsSettle ==
    \A e \in Event : status[e] = "pending" ~> status[e] \in {"sent", "dead"} \/ faults > 0

(* The worker implements the promise of DeliveryQueue; the statuses that   *)
(* only say where an open row is in its cycle are one fate.                *)
Fates == [e \in Event |-> IF status[e] \in {"pending", "processing", "failed"}
                          THEN "open" ELSE status[e]]

Promise == INSTANCE DeliveryQueue WITH fate <- Fates

ImplementsQueue == Promise!Spec

(* The tutorial's rule for the worker (TUTORIAL_P7:2130-2133): it may fall *)
(* at any time, and a row it had not yet marked is then sent again.        *)
RecoversFromCrash ==
    \A e \in Event : status[e] = "processing" ~> status[e] # "processing"
=============================================================================
