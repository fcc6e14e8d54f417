--------------------------- MODULE OutboxHandlers ---------------------------
(***************************************************************************)
(* Outbox workers in the middle of handlers, for the components whose      *)
(* events the outbox delivers.  What becomes of an event is the promise of *)
(* DeliveryQueue, which Outbox implements; this module adds how far the    *)
(* handler of each event has come.  A job is the row an event asks to be   *)
(* done; it also names the event.  Any number of workers may be at         *)
(* different jobs at once, one at a job (Outbox!ExclusiveClaim).           *)
(*                                                                         *)
(* A fault is a statement that fails, applied or not, where the code       *)
(* supposes it does not; a context that is done; a worker that dies; or a  *)
(* claim or a mark of the outbox that goes wrong.                          *)
(***************************************************************************)
EXTENDS Faults

CONSTANTS Job,          \* rows whose events are delivered
          MaxAttempts,  \* attempts of an event
          NoJob

ASSUME HandlerAssumption ==
    /\ NoJob \notin Job
    /\ MaxAttempts \in Nat \ {0}

VARIABLES
    fate, tries, ok, \* DeliveryQueue's state of the events
    at               \* [Job -> the step its handler is at, or "idle"], or
                     \* "lost": left 'processing' with nobody to handle it

eventVars   == <<fate, tries, ok>>
handlerVars == <<fate, tries, ok, at, faults>>

Queue == INSTANCE DeliveryQueue WITH Event <- Job, Unknown <- {}, runs <- tries

(* Step is the set of steps of the handlers of the jobs in J.              *)
HandlersTypeOK(J, Step) ==
    /\ fate \in [Job -> Queue!Fate]
    /\ tries \in [Job -> 0..MaxAttempts]
    /\ ok \in [Job -> BOOLEAN]
    /\ DOMAIN at = Job /\ \A j \in J : at[j] \in Step \cup {"idle", "lost"}
    /\ FaultsTypeOK

HandlersInit ==
    /\ Queue!Init
    /\ at = [j \in Job |-> "idle"]
    /\ FaultsInit

-----------------------------------------------------------------------------
InHand(j) == at[j] \notin {"idle", "lost"}

Deliverable(j) == fate[j] = "open" /\ ~ok[j] /\ tries[j] < MaxAttempts /\ at[j] = "idle"

(* Somebody is at the job, or will be.                                     *)
Attended(j) == InHand(j) \/ Deliverable(j)

(* The event is written in the transaction that creates the job.           *)
Enqueue(j) == Queue!Publish(j) /\ UNCHANGED at

(* A handler is called, goes on, and returns nil or an error, which the    *)
(* outbox counts against the event.                                        *)
Begin(j, step) ==
    /\ Deliverable(j)
    /\ at' = [at EXCEPT ![j] = step]
    /\ UNCHANGED eventVars

Goto(j, step) == at' = [at EXCEPT ![j] = step] /\ UNCHANGED eventVars

Returns(j, nil) == Queue!Attempt(j) /\ ok' = [ok EXCEPT ![j] = nil]

Return(j, nil) == Returns(j, nil) /\ at' = [at EXCEPT ![j] = "idle"]

(* A call that returns at its first statement.                             *)
Answer(j, nil) == Deliverable(j) /\ Returns(j, nil) /\ UNCHANGED at

-----------------------------------------------------------------------------
(* The worker's process dies in the handler: the claim is never undone.    *)
Crash(j) ==
    /\ InHand(j)
    /\ at' = [at EXCEPT ![j] = "lost"]
    /\ Fault
    /\ UNCHANGED eventVars

(* A claim or a mark of the outbox goes wrong: Outbox!ClaimLost, MarkError.*)
LoseEvent(j) ==
    /\ fate[j] = "open" /\ at[j] = "idle"
    /\ at' = [at EXCEPT ![j] = "lost"]
    /\ Fault
    /\ UNCHANGED eventVars

SettleEvent(j) ==
    /\ at[j] = "idle"
    /\ Queue!SettleSent(j) \/ Queue!SettleDead(j)
    /\ UNCHANGED <<at, faults>>

(* What happens to a job whatever its handler does.                        *)
OutboxStep(j) == Crash(j) \/ LoseEvent(j) \/ SettleEvent(j)
=============================================================================
