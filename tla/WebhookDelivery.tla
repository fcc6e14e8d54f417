--------------------------- MODULE WebhookDelivery ---------------------------
(***************************************************************************)
(* One webhook delivery: its row, its endpoint, the receiver, and the      *)
(* outbox events whose handler (Deliver) posts it.  The outbox is used by  *)
(* its promise, DeliveryQueue, which Outbox is proved to implement; a run  *)
(* of the handler is split where the code awaits the database and the      *)
(* receiver.  The manual retry of the admin API adds events.               *)
(***************************************************************************)
EXTENDS Naturals, FiniteSets

CONSTANTS Event,          \* outbox events that may ask for the delivery
          First,          \* the event enqueued with the business change
          Workers,        \* bound on outbox workers
          QueueAttempts,  \* max_attempts of the outbox events
          MaxAttempts,    \* max_attempts of the delivery
          MaxRetries,     \* bound on manual retries
          MaxFaults       \* bound on faults

ASSUME WebhookAssumption ==
    /\ IsFiniteSet(Event) /\ First \in Event
    /\ {Workers, QueueAttempts, MaxAttempts} \subseteq Nat \ {0}
    /\ {MaxRetries, MaxFaults} \subseteq Nat

VARIABLES
    fate, runs, ok,  \* the outbox events, see DeliveryQueue
    workers,         \* outbox workers of the deployment, never changed
    status,          \* status of the delivery row, "none" before it exists
    count,           \* its attempt_count
    endpoint,        \* the endpoint: "on", "off" or "deleted"
    api,             \* manual retries that have reset the row and are to enqueue
    retries,         \* manual retries so far
    fly,             \* [Event -> Stage], how far the event's run has come
    posts,           \* [Event -> Nat], history: requests its runs sent
    accepted,        \* history: some request was answered with a 2xx
    faults

queue == <<fate, runs, ok>>
row   == <<status, count>>
vars  == <<fate, runs, ok, workers, status, count, endpoint, api, retries, fly, posts, accepted, faults>>

Queue == INSTANCE DeliveryQueue WITH Unknown <- {}, MaxAttempts <- QueueAttempts,
                                     fate <- fate, runs <- runs, ok <- ok

(* "lost": the worker died in the run; the event stays claimed for ever.   *)
Stage == {"none", "posting", "accepted", "refused", "lost"}

TypeOK ==
    /\ fate \in [Event -> Queue!Fate]
    /\ runs \in [Event -> 0..QueueAttempts]
    /\ ok \in [Event -> BOOLEAN]
    /\ workers \in 1..Workers
    /\ status \in {"none", "pending", "failed", "delivered", "dead"}
    /\ count \in 0..(QueueAttempts * Cardinality(Event))
    /\ endpoint \in {"on", "off", "deleted"}
    /\ retries \in 0..MaxRetries
    /\ api \in 0..retries
    /\ fly \in [Event -> Stage]
    /\ posts \in [Event -> 0..QueueAttempts]
    /\ accepted \in BOOLEAN
    /\ faults \in 0..MaxFaults

Init ==
    /\ Queue!Init
    /\ workers \in 1..Workers
    /\ status = "none" /\ count = 0
    /\ endpoint = "on"
    /\ api = 0 /\ retries = 0
    /\ fly = [e \in Event |-> "none"]
    /\ posts = [e \in Event |-> 0]
    /\ accepted = FALSE
    /\ faults = 0

-----------------------------------------------------------------------------
(* The tenant's side.                                                      *)

(* A business change on an active endpoint creates the delivery and its    *)
(* event in one transaction.                                               *)
EnqueueTenantEvent ==
    /\ status = "none" /\ endpoint = "on"
    /\ status' = "pending"
    /\ Queue!Publish(First)
    /\ UNCHANGED <<count, endpoint, api, retries, fly, posts, accepted, faults>>

UpdateEndpoint ==
    /\ endpoint # "deleted"
    /\ endpoint' \in {"on", "off", "deleted"} \ {endpoint}
    /\ UNCHANGED <<queue, row, api, retries, fly, posts, accepted, faults>>

(* RetryDelivery, first statement: the row is reset whatever its status;   *)
(* attempt_count stays.  Retries of the same delivery may overlap.         *)
ResetForRetry ==
    /\ status # "none" /\ endpoint # "deleted"
    /\ retries < MaxRetries
    /\ status' = "pending"
    /\ api' = api + 1 /\ retries' = retries + 1
    /\ UNCHANGED <<queue, count, endpoint, fly, posts, accepted, faults>>

(* ... then the new event, in a transaction of its own.                    *)
EnqueueRetry ==
    /\ api > 0
    /\ \E e \in Event \ {First} : Queue!Publish(e)
    /\ api' = api - 1
    /\ UNCHANGED <<row, endpoint, retries, fly, posts, accepted, faults>>

(* The retry stops between its statements: an error, a crash.              *)
AbandonRetry ==
    /\ api > 0 /\ faults < MaxFaults
    /\ api' = api - 1 /\ faults' = faults + 1
    /\ UNCHANGED <<queue, row, endpoint, retries, fly, posts, accepted>>

(* A retry that names another endpoint resets the row before it finds out  *)
(* and answers not found.                                                  *)
RetryOfAnotherEndpoint ==
    /\ status # "none" /\ retries < MaxRetries /\ faults < MaxFaults
    /\ status' = "pending"
    /\ retries' = retries + 1 /\ faults' = faults + 1
    /\ UNCHANGED <<queue, count, endpoint, api, fly, posts, accepted>>

-----------------------------------------------------------------------------
(* The handler, Deliver(e).                                                *)

InRun == {e \in Event : fly[e] \in {"posting", "accepted", "refused"}}

Runnable(e) ==
    /\ fate[e] = "open" /\ ~ok[e] /\ runs[e] < QueueAttempts
    /\ fly[e] = "none"
    /\ Cardinality(InRun) < workers

Settled == status \in {"delivered", "dead"}

(* The run returns r to the outbox.                                        *)
Return(e, r) == /\ Queue!Attempt(e)
                /\ ok'[e] = r
                /\ fly' = [fly EXCEPT ![e] = "none"]

ReadRow_IgnoreStatus(e) ==
    /\ Runnable(e)
    /\ fly' = [fly EXCEPT ![e] = IF endpoint = "on" THEN "posting" ELSE "refused"]
    /\ UNCHANGED <<queue, row, endpoint, api, retries, posts, accepted, faults>>

(* The row and its endpoint are read; a settled row needs no request.      *)
ReadRow(e) ==
    /\ Runnable(e)
    /\ \/ Settled /\ Return(e, TRUE)
       \/ /\ ~Settled
          /\ fly' = [fly EXCEPT ![e] = IF endpoint = "on" THEN "posting" ELSE "refused"]
          /\ UNCHANGED queue
    /\ UNCHANGED <<row, endpoint, api, retries, posts, accepted, faults>>

(* The read, or opening the secret, fails: nothing is marked.              *)
ReadError(e) ==
    /\ Runnable(e) /\ faults < MaxFaults
    /\ Return(e, FALSE)
    /\ faults' = faults + 1
    /\ UNCHANGED <<row, endpoint, api, retries, posts, accepted>>

(* The request: answered 2xx; or refused, or received with no answer; or   *)
(* never received.                                                         *)
Post(e) ==
    /\ fly[e] = "posting"
    /\ \/ /\ fly' = [fly EXCEPT ![e] = "accepted"]
          /\ posts' = [posts EXCEPT ![e] = @ + 1]
          /\ accepted' = TRUE
       \/ /\ fly' = [fly EXCEPT ![e] = "refused"]
          /\ posts' \in {posts, [posts EXCEPT ![e] = @ + 1]}
          /\ UNCHANGED accepted
    /\ UNCHANGED <<queue, row, endpoint, api, retries, faults>>

DeliveredRow == status' = "delivered" /\ count' = count + 1

FailedRow_CountKept == /\ status' = IF count + 1 >= MaxAttempts THEN "dead" ELSE "failed"
                       /\ UNCHANGED count

FailedRow == /\ status' = IF count + 1 >= MaxAttempts THEN "dead" ELSE "failed"
             /\ count' = count + 1

MarkDelivered_OnFailure(e) ==
    /\ fly[e] \in {"accepted", "refused"}
    /\ DeliveredRow
    /\ Return(e, TRUE)
    /\ UNCHANGED <<endpoint, api, retries, posts, accepted, faults>>

MarkDelivered(e) ==
    /\ fly[e] = "accepted"
    /\ DeliveredRow
    /\ Return(e, TRUE)
    /\ UNCHANGED <<endpoint, api, retries, posts, accepted, faults>>

MarkFailed_Acknowledged(e) ==
    /\ fly[e] = "refused"
    /\ FailedRow
    /\ Return(e, TRUE)
    /\ UNCHANGED <<endpoint, api, retries, posts, accepted, faults>>

(* A dead delivery ends the event too; a failed one asks the outbox for    *)
(* another run.                                                            *)
MarkFailed(e) ==
    /\ fly[e] = "refused"
    /\ FailedRow
    /\ Return(e, status' = "dead")
    /\ UNCHANGED <<endpoint, api, retries, posts, accepted, faults>>

(* The mark's statement fails, applied or not; the run's context, which    *)
(* the mark shares, may have expired during the request.                   *)
MarkError(e) ==
    /\ faults < MaxFaults
    /\ \/ fly[e] = "accepted" /\ DeliveredRow
       \/ fly[e] = "refused" /\ FailedRow
       \/ fly[e] \in {"accepted", "refused"} /\ UNCHANGED row
    /\ Return(e, FALSE)
    /\ faults' = faults + 1
    /\ UNCHANGED <<endpoint, api, retries, posts, accepted>>

Crash(e) ==
    /\ e \in InRun /\ faults < MaxFaults
    /\ fly' = [fly EXCEPT ![e] = "lost"]
    /\ faults' = faults + 1
    /\ UNCHANGED <<queue, row, endpoint, api, retries, posts, accepted>>

(* The worker's mark of the event itself.                                  *)
Settle(e) ==
    /\ fly[e] = "none"
    /\ Queue!SettleSent(e) \/ Queue!SettleDead(e)
    /\ UNCHANGED <<row, endpoint, api, retries, fly, posts, accepted, faults>>

-----------------------------------------------------------------------------
Deliver(e) == ReadRow(e) \/ Post(e) \/ MarkDelivered(e) \/ MarkFailed(e) \/ Settle(e)

Step ==
    \/ EnqueueTenantEvent \/ UpdateEndpoint
    \/ ResetForRetry \/ EnqueueRetry \/ AbandonRetry \/ RetryOfAnotherEndpoint
    \/ \E e \in Event : Deliver(e) \/ ReadError(e) \/ MarkError(e) \/ Crash(e)

Next == Step /\ UNCHANGED workers

Spec == Init /\ [][Next]_vars

(* The workers poll and their runs end (Outbox); a request goes on to its  *)
(* next statement.                                                         *)
FairSpec == /\ Spec
            /\ WF_vars(EnqueueRetry /\ UNCHANGED workers)
            /\ \A e \in Event : WF_vars(Deliver(e) /\ UNCHANGED workers)

-----------------------------------------------------------------------------
(* Properties.                                                             *)

(* The runs that have ended, each as its event and its number.             *)
RunsSoFar == {x \in Event \X (1..QueueAttempts) : x[2] <= runs[x[1]]}

(* A delivery is 'delivered' only if the receiver answered 2xx, and 'dead' *)
(* only after MaxAttempts counted attempts; every counted attempt is a run *)
(* of some event, so concurrent runs and retries never count one twice,    *)
(* and a run posts at most one request.                                    *)
StatusTruthful ==
    /\ status = "delivered" => accepted
    /\ status = "dead" => count >= MaxAttempts
    /\ count <= Cardinality(RunsSoFar)
    /\ \A e \in Event :
          posts[e] <= IF fly[e] \in {"accepted", "refused", "lost"} THEN runs[e] + 1 ELSE runs[e]

(* An open delivery always has an event that will run, or a retry about to *)
(* enqueue one: it is never left open with nobody to post it.  (Without    *)
(* faults: an abandoned retry, or one of another endpoint, breaks it.)     *)
OpenIsQueued ==
    status \in {"pending", "failed"} /\ faults = 0 =>
        api > 0 \/ \E e \in Event : fate[e] = "open" /\ ~ok[e] /\ runs[e] < QueueAttempts

(* With the single worker the runbook prescribes (RUNBOOK_DEPLOYMENT:11)   *)
(* and no fault so far, although no mark looks at the status it            *)
(* overwrites: a delivered or dead delivery is reopened by a manual retry  *)
(* only, and never posted again before that.                               *)
SettledIsFinal ==
    [][Settled /\ workers = 1 /\ faults' = 0 =>
                  /\ status' # status => status' = "pending" /\ api' = api + 1
                  /\ posts' = posts]_vars

(* An open delivery is eventually delivered or dead: the outbox gives its  *)
(* event as many runs as the delivery counts attempts.  Only a fault stops *)
(* it.                                                                     *)
DeliverySettles == (status = "pending") ~> (Settled \/ faults > 0)
=============================================================================
