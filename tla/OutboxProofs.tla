---------------------------- MODULE OutboxProofs ----------------------------
(***************************************************************************)
(* Proofs about Outbox for any number of events, workers, attempts and     *)
(* faults.  ExclusiveClaim and SettledAsHandled are not inductive alone:   *)
(* Accounted adds what the attempts column and the handler runs owe each   *)
(* other at every status and in the hands of a worker.                     *)
(***************************************************************************)
EXTENDS Outbox, TLAPS

Accounted ==
    /\ \A e \in Event : status[e] \in {"absent", "pending"} => attempts[e] = 0
    /\ \A e \in Event : status[e] \in {"absent", "pending", "failed"}
                           => runs[e] = attempts[e] /\ ~ok[e]
    /\ \A e \in Event : status[e] = "failed" => e \notin Unknown
    /\ \A w \in Worker : \A e \in held[w] :
          attempts[e] = runs[e] + 1 /\ ~ok[e] /\ (e \in Unknown => runs[e] = 0)
    /\ \A w \in Worker : cur[w] # NoEvent =>
          /\ attempts[cur[w]] = runs[cur[w]]
          /\ ok[cur[w]] <=> result[w] = "ok"
          /\ result[w] = "unknown" <=> cur[w] \in Unknown
          /\ cur[w] \in Unknown => runs[cur[w]] = 1

IInv == TypeOK /\ ExclusiveClaim /\ Accounted /\ SettledAsHandled

-----------------------------------------------------------------------------
(* The initial table is empty and every worker idle.                       *)
LEMMA InitIInv == Init => IInv
<1> SUFFICES ASSUME Init PROVE IInv
    OBVIOUS
<1>1. TypeOK
    BY OutboxAssumption DEF Init, TypeOK, Status, Result
<1>2. ExclusiveClaim /\ Accounted /\ SettledAsHandled
    BY DEF Init, ExclusiveClaim, InHand, Accounted, SettledAsHandled
<1> QED
    BY <1>1, <1>2 DEF IInv

-----------------------------------------------------------------------------
(* Every action preserves the invariant; one lemma per action that moves a *)
(* row or a batch.                                                         *)

LEMMA EnqueueIInv == ASSUME IInv, NEW e \in Event, Enqueue(e) PROVE IInv'
<1> USE OutboxAssumption DEF IInv, table, worker, Enqueue
<1>1. TypeOK'
    BY DEF TypeOK, Status, Result, Accounted
<1>2. ExclusiveClaim'
    BY DEF TypeOK, ExclusiveClaim, InHand
<1>3. Accounted'
    BY DEF TypeOK, ExclusiveClaim, InHand, Accounted, Status, Result
<1>4. SettledAsHandled'
    BY DEF TypeOK, Accounted, ExclusiveClaim, InHand, SettledAsHandled, Status, Result
<1> QED
    BY <1>1, <1>2, <1>3, <1>4

LEMMA ClaimIInv == ASSUME IInv, NEW w \in Worker, Claim(w) PROVE IInv'
<1> USE OutboxAssumption DEF IInv, table, worker, Claim, Due, IsClaim, TakeRows, Idle
<1>1. TypeOK'
    BY DEF TypeOK, Status, Result, Accounted
<1>2. ExclusiveClaim'
    BY DEF TypeOK, ExclusiveClaim, InHand
<1>3. Accounted'
    BY DEF TypeOK, ExclusiveClaim, InHand, Accounted, Status, Result
<1>4. SettledAsHandled'
    BY DEF TypeOK, Accounted, ExclusiveClaim, InHand, SettledAsHandled, Status, Result
<1> QED
    BY <1>1, <1>2, <1>3, <1>4

LEMMA ClaimLostIInv == ASSUME IInv, NEW w \in Worker, ClaimLost(w) PROVE IInv'
<1> USE OutboxAssumption DEF IInv, table, worker, ClaimLost, Due, IsClaim, TakeRows, Idle
<1>1. TypeOK'
    BY DEF TypeOK, Status, Result, Accounted
<1>2. ExclusiveClaim'
    BY DEF TypeOK, ExclusiveClaim, InHand
<1>3. Accounted'
    BY DEF TypeOK, ExclusiveClaim, InHand, Accounted, Status, Result
<1>4. SettledAsHandled'
    BY DEF TypeOK, Accounted, ExclusiveClaim, InHand, SettledAsHandled, Status, Result
<1> QED
    BY <1>1, <1>2, <1>3, <1>4

LEMMA ExpireIInv == ASSUME IInv, NEW w \in Worker, Expire(w) PROVE IInv'
<1> USE OutboxAssumption DEF IInv, table, worker, Expire
<1>1. TypeOK'
    BY DEF TypeOK, Status, Result, Accounted
<1>2. ExclusiveClaim'
    BY DEF TypeOK, ExclusiveClaim, InHand
<1>3. Accounted'
    BY DEF TypeOK, ExclusiveClaim, InHand, Accounted, Status, Result
<1>4. SettledAsHandled'
    BY DEF TypeOK, Accounted, ExclusiveClaim, InHand, SettledAsHandled, Status, Result
<1> QED
    BY <1>1, <1>2, <1>3, <1>4

LEMMA HandleIInv == ASSUME IInv, NEW w \in Worker, Handle(w) PROVE IInv'
<1> USE OutboxAssumption DEF IInv
<1>0. PICK e \in held[w] : \E r \in Outcomes(e) :
          /\ held' = [held EXCEPT ![w] = @ \ {e}]
          /\ cur' = [cur EXCEPT ![w] = e]
          /\ result' = [result EXCEPT ![w] = r]
          /\ runs' = [runs EXCEPT ![e] = @ + 1]
          /\ ok' = [ok EXCEPT ![e] = @ \/ r = "ok"]
    BY DEF Handle
<1>1. PICK r \in Outcomes(e) :
          /\ held' = [held EXCEPT ![w] = @ \ {e}]
          /\ cur' = [cur EXCEPT ![w] = e]
          /\ result' = [result EXCEPT ![w] = r]
          /\ runs' = [runs EXCEPT ![e] = @ + 1]
          /\ ok' = [ok EXCEPT ![e] = @ \/ r = "ok"]
          /\ cur[w] = NoEvent
          /\ UNCHANGED <<table, expired, faults>>
    BY <1>0 DEF Handle
<1>2. e \in Event /\ e # NoEvent /\ status[e] = "processing"
    BY DEF TypeOK, ExclusiveClaim, InHand
<1>3. /\ attempts[e] = runs[e] + 1 /\ ~ok[e] /\ (e \in Unknown => runs[e] = 0)
      /\ r \in Result /\ (r = "unknown" <=> e \in Unknown)
    BY DEF Accounted, Outcomes, Result
<1>4. /\ runs'[e] = attempts[e] /\ (ok'[e] <=> r = "ok") /\ cur'[w] = e /\ result'[w] = r
      /\ held'[w] = held[w] \ {e}
      /\ \A d \in Event \ {e} : runs'[d] = runs[d] /\ ok'[d] = ok[d]
      /\ \A v \in Worker \ {w} : held'[v] = held[v] /\ cur'[v] = cur[v] /\ result'[v] = result[v]
    BY <1>1, <1>2, <1>3 DEF TypeOK
<1>5. \A v \in Worker \ {w} : e \notin held[v] /\ e # cur[v]
    BY <1>2 DEF TypeOK, ExclusiveClaim, InHand
<1>6. TypeOK'
    BY <1>1, <1>2, <1>3 DEF TypeOK, table
<1>7. ExclusiveClaim'
    BY <1>1, <1>2, <1>4, <1>5 DEF TypeOK, ExclusiveClaim, InHand, table
<1>8. Accounted'
  <2>1. \A d \in Event : /\ status'[d] \in {"absent", "pending"} => attempts'[d] = 0
                         /\ status'[d] = "failed" => d \notin Unknown
      BY <1>1 DEF Accounted, table
  <2>2. \A d \in Event : status'[d] \in {"absent", "pending", "failed"}
                               => runs'[d] = attempts'[d] /\ ~ok'[d]
      BY <1>1, <1>2, <1>4 DEF Accounted, table
  <2>3. \A v \in Worker : \A d \in held'[v] :
            attempts'[d] = runs'[d] + 1 /\ ~ok'[d] /\ (d \in Unknown => runs'[d] = 0)
      BY <1>1, <1>4, <1>5 DEF Accounted, TypeOK, table
  <2>4. \A v \in Worker : cur'[v] # NoEvent =>
            /\ attempts'[cur'[v]] = runs'[cur'[v]]
            /\ ok'[cur'[v]] <=> result'[v] = "ok"
            /\ result'[v] = "unknown" <=> cur'[v] \in Unknown
            /\ cur'[v] \in Unknown => runs'[cur'[v]] = 1
    <3>1. ASSUME NEW v \in Worker \ {w}, cur'[v] # NoEvent
          PROVE  /\ attempts'[cur'[v]] = runs'[cur'[v]]
                 /\ ok'[cur'[v]] <=> result'[v] = "ok"
                 /\ result'[v] = "unknown" <=> cur'[v] \in Unknown
                 /\ cur'[v] \in Unknown => runs'[cur'[v]] = 1
        BY <1>1, <1>4, <1>5, <3>1 DEF Accounted, TypeOK, table
    <3>2. /\ attempts'[e] = runs'[e]
          /\ e \in Unknown => runs'[e] = 1
        BY <1>1, <1>3, <1>4, <1>2 DEF table, TypeOK
    <3> QED
        BY <1>3, <1>4, <3>1, <3>2
  <2> QED
      BY <2>1, <2>2, <2>3, <2>4 DEF Accounted
<1>9. SettledAsHandled'
    BY <1>1, <1>2, <1>4 DEF SettledAsHandled, table
<1> QED
    BY <1>6, <1>7, <1>8, <1>9

(* The wait before a retry is between a second and a minute.               *)
LEMMA BackoffRange == ASSUME NEW n \in Nat PROVE Backoff(n) \in 1..60
<1> QED
    BY DEF Backoff

LEMMA MarkIInv == ASSUME IInv, NEW w \in Worker, Mark(w) PROVE IInv'
<1> USE OutboxAssumption DEF IInv, table, worker, Mark, MarkRow, Exhausted
<1>1. TypeOK'
    BY BackoffRange DEF TypeOK, Status
<1>2. ExclusiveClaim'
    BY DEF TypeOK, ExclusiveClaim, InHand
<1>3. Accounted'
    BY DEF TypeOK, ExclusiveClaim, InHand, Accounted, Status, Result
<1>4. SettledAsHandled'
  <2>1. cur[w] \in Event /\ status[cur[w]] = "processing" /\ attempts[cur[w]] = runs[cur[w]]
      BY DEF TypeOK, Accounted, ExclusiveClaim, InHand
  <2>2. attempts[cur[w]] \in 0..MaxAttempts /\ result[w] \in Result
      BY <2>1 DEF TypeOK
  <2>3. \A e \in Event \ {cur[w]} : status'[e] = status[e]
      BY <2>1 DEF TypeOK
  <2>4. /\ status'[cur[w]] = "sent" => ok[cur[w]]
        /\ status'[cur[w]] = "dead" =>
              /\ ~ok[cur[w]]
              /\ (cur[w] \in Unknown /\ runs[cur[w]] = 1) \/ runs[cur[w]] = MaxAttempts
      BY <2>1, <2>2 DEF TypeOK, Accounted
  <2> QED
      BY <2>3, <2>4 DEF SettledAsHandled
<1> QED
    BY <1>1, <1>2, <1>3, <1>4

LEMMA MarkErrorIInv == ASSUME IInv, NEW w \in Worker, MarkError(w) PROVE IInv'
<1> USE OutboxAssumption DEF IInv, table, worker, MarkError, MarkRow, Exhausted
<1>1. TypeOK'
    BY BackoffRange DEF TypeOK, Status
<1>2. ExclusiveClaim'
    BY DEF TypeOK, ExclusiveClaim, InHand
<1>3. Accounted'
    BY DEF TypeOK, ExclusiveClaim, InHand, Accounted, Status, Result
<1>4. SettledAsHandled'
  <2>1. cur[w] \in Event /\ status[cur[w]] = "processing" /\ attempts[cur[w]] = runs[cur[w]]
      BY DEF TypeOK, Accounted, ExclusiveClaim, InHand
  <2>2. attempts[cur[w]] \in 0..MaxAttempts /\ result[w] \in Result
      BY <2>1 DEF TypeOK
  <2>3. \A e \in Event \ {cur[w]} : status'[e] = status[e]
      BY <2>1 DEF TypeOK
  <2>4. /\ status'[cur[w]] = "sent" => ok[cur[w]]
        /\ status'[cur[w]] = "dead" =>
              /\ ~ok[cur[w]]
              /\ (cur[w] \in Unknown /\ runs[cur[w]] = 1) \/ runs[cur[w]] = MaxAttempts
      BY <2>1, <2>2 DEF TypeOK, Accounted
  <2> QED
      BY <2>3, <2>4 DEF SettledAsHandled
<1> QED
    BY <1>1, <1>2, <1>3, <1>4

LEMMA CrashIInv == ASSUME IInv, NEW w \in Worker, Crash(w) PROVE IInv'
<1> USE OutboxAssumption DEF IInv, table, worker, Crash
<1>1. TypeOK'
    BY DEF TypeOK, Status, Result, Accounted
<1>2. ExclusiveClaim'
    BY DEF TypeOK, ExclusiveClaim, InHand
<1>3. Accounted'
    BY DEF TypeOK, ExclusiveClaim, InHand, Accounted, Status, Result
<1>4. SettledAsHandled'
    BY DEF TypeOK, Accounted, ExclusiveClaim, InHand, SettledAsHandled, Status, Result
<1> QED
    BY <1>1, <1>2, <1>3, <1>4

LEMMA TickIInv == ASSUME IInv, Tick PROVE IInv'
<1> USE OutboxAssumption DEF IInv, table, worker, Tick
<1>1. TypeOK'
    BY DEF TypeOK, Status, Result, Accounted
<1>2. ExclusiveClaim'
    BY DEF TypeOK, ExclusiveClaim, InHand
<1>3. Accounted'
    BY DEF TypeOK, ExclusiveClaim, InHand, Accounted, Status, Result
<1>4. SettledAsHandled'
    BY DEF TypeOK, Accounted, ExclusiveClaim, InHand, SettledAsHandled, Status, Result
<1> QED
    BY <1>1, <1>2, <1>3, <1>4

LEMMA DeleteProcessedIInv == ASSUME IInv, NEW e \in Event, DeleteProcessed(e) PROVE IInv'
<1> USE OutboxAssumption DEF IInv, table, worker, DeleteProcessed
<1>1. TypeOK'
    BY DEF TypeOK, Status, Result, Accounted
<1>2. ExclusiveClaim'
    BY DEF TypeOK, ExclusiveClaim, InHand
<1>3. Accounted'
    BY DEF TypeOK, ExclusiveClaim, InHand, Accounted, Status, Result
<1>4. SettledAsHandled'
    BY DEF TypeOK, Accounted, ExclusiveClaim, InHand, SettledAsHandled, Status, Result
<1> QED
    BY <1>1, <1>2, <1>3, <1>4

LEMMA NextIInv == IInv /\ [Next]_vars => IInv'
<1> SUFFICES ASSUME IInv, [Next]_vars PROVE IInv'
    OBVIOUS
<1>1. ASSUME NEW e \in Event, Enqueue(e) \/ DeleteProcessed(e) PROVE IInv'
    BY <1>1, EnqueueIInv, DeleteProcessedIInv
<1>2. ASSUME NEW w \in Worker, WorkerStep(w) PROVE IInv'
    BY <1>2, ClaimIInv, HandleIInv, MarkIInv DEF WorkerStep
<1>3. ASSUME NEW w \in Worker, Expire(w) PROVE IInv'
    BY <1>3, ExpireIInv
<1>4. ASSUME NEW w \in Worker, WorkerFault(w) PROVE IInv'
    BY <1>4, ClaimLostIInv, MarkErrorIInv, CrashIInv DEF WorkerFault
<1>5. CASE Tick
    BY <1>5, TickIInv
<1>6. CASE UNCHANGED vars
    BY <1>6 DEF vars, IInv, TypeOK, ExclusiveClaim, InHand, Accounted, SettledAsHandled
<1> QED
    BY <1>1, <1>2, <1>3, <1>4, <1>5, <1>6 DEF Next

(* The invariant holds in every state of every behaviour.                  *)
LEMMA Invariance == Spec => []IInv
<1> QED
    BY InitIInv, NextIInv, PTL DEF Spec

-----------------------------------------------------------------------------
(* Every variable keeps its type: attempts and handler runs never pass     *)
(* max_attempts, however many workers claim and fail.                      *)
THEOREM TypeCorrect == Spec => []TypeOK
<1>1. IInv => TypeOK
    BY DEF IInv
<1> QED
    BY <1>1, Invariance, PTL

(* No two workers ever have the same row in hand, and a row in hand is     *)
(* 'processing'.                                                           *)
THEOREM ClaimsExclusive == Spec => []ExclusiveClaim
<1>1. IInv => ExclusiveClaim
    BY DEF IInv
<1> QED
    BY <1>1, Invariance, PTL

(* A settled row tells what its handler's runs returned, and a known event *)
(* is dead only when every attempt was spent on a run.                     *)
THEOREM SettledTruthfully == Spec => []SettledAsHandled
<1>1. IInv => SettledAsHandled
    BY DEF IInv
<1> QED
    BY <1>1, Invariance, PTL
-----------------------------------------------------------------------------
(* Whatever fails after it, a run that returned nil is the row's last: the *)
(* crash, lost-mark and timeout steps change no handler count, and a row   *)
(* in a batch has never succeeded (Accounted).                             *)
THEOREM SuccessIsLast == Spec => NoRunAfterSuccess
<1>1. ASSUME IInv, [Next]_vars
      PROVE  [\A e \in Event : ok[e] => runs'[e] = runs[e]]_vars
  <2> USE <1>1 DEF table, worker
  <2>1. ASSUME NEW w \in Worker, Handle(w)
        PROVE  \A e \in Event : ok[e] => runs'[e] = runs[e]
      BY <2>1 DEF Handle, IInv, Accounted, TypeOK
  <2>2. ASSUME NEW w \in Worker, WorkerStep(w) \/ Expire(w) \/ WorkerFault(w)
        PROVE  \A e \in Event : ok[e] => runs'[e] = runs[e]
      BY <2>1, <2>2 DEF WorkerStep, WorkerFault, Claim, Mark, Expire, ClaimLost, MarkError, Crash
  <2>3. ASSUME NEW d \in Event, Enqueue(d) \/ DeleteProcessed(d)
        PROVE  \A e \in Event : ok[e] => runs'[e] = runs[e]
      BY <2>3 DEF Enqueue, DeleteProcessed
  <2>4. CASE Tick
      BY <2>4 DEF Tick
  <2> QED
      BY <2>2, <2>3, <2>4 DEF Next
<1> QED
    BY <1>1, Invariance, PTL DEF Spec, NoRunAfterSuccess

-----------------------------------------------------------------------------
(* The refinement: each action of the worker, seen through Fates, is an    *)
(* action of DeliveryQueue on the same event or changes nothing of it.     *)
LEMMA HandleRuns == ASSUME IInv, NEW w \in Worker, Handle(w)
                    PROVE  \E e \in Event : Promise!Attempt(e)
<1>1. PICK e \in held[w] : \E r \in Outcomes(e) :
          /\ runs' = [runs EXCEPT ![e] = @ + 1]
          /\ ok' = [ok EXCEPT ![e] = @ \/ r = "ok"]
    BY DEF Handle
<1>2. PICK r \in Outcomes(e) : /\ runs' = [runs EXCEPT ![e] = @ + 1]
                                  /\ ok' = [ok EXCEPT ![e] = @ \/ r = "ok"]
    BY <1>1
<1>3. e \in Event /\ status[e] = "processing" /\ ~ok[e] /\ runs[e] < MaxAttempts
    BY OutboxAssumption DEF IInv, TypeOK, ExclusiveClaim, InHand, Accounted
<1>4. Fates[e] = "open" /\ UNCHANGED Fates
    BY <1>3 DEF Fates, Handle, table
<1>5. \/ e \notin Unknown /\ ok' = [ok EXCEPT ![e] = TRUE]
      \/ UNCHANGED ok
  <2>1. CASE r = "ok"
      BY <1>2, <1>3, <2>1 DEF Outcomes, IInv, TypeOK
  <2>2. CASE r # "ok"
      BY <1>2, <1>3, <2>2 DEF IInv, TypeOK
  <2> QED
      BY <2>1, <2>2
<1>6. Promise!Attempt(e)
    BY <1>2, <1>3, <1>4, <1>5 DEF Promise!Attempt
<1> QED
    BY <1>3, <1>6

LEMMA MarkRowSettles ==
    ASSUME IInv, NEW w \in Worker, cur[w] # NoEvent, MarkRow(cur[w], result[w]),
           UNCHANGED <<runs, ok>>
    PROVE  \/ Promise!SettleSent(cur[w])
           \/ Promise!SettleDead(cur[w])
           \/ UNCHANGED <<Fates, runs, ok>>
<1>1. /\ cur[w] \in Event /\ status[cur[w]] = "processing"
      /\ attempts[cur[w]] = runs[cur[w]] /\ runs[cur[w]] \in 0..MaxAttempts
    BY DEF IInv, TypeOK, ExclusiveClaim, InHand, Accounted
<1>2. Fates[cur[w]] = "open" /\ status \in [Event -> Status]
    BY <1>1 DEF Fates, IInv, TypeOK
<1>3. CASE result[w] = "ok"
  <2>1. Fates' = [Fates EXCEPT ![cur[w]] = "sent"]
      BY <1>1, <1>2, <1>3 DEF MarkRow, Fates
  <2> QED
      BY <1>1, <1>2, <1>3, <2>1 DEF Promise!SettleSent, IInv, Accounted
<1>4. CASE result[w] # "ok" /\ Exhausted(cur[w], result[w])
  <2>1. Fates' = [Fates EXCEPT ![cur[w]] = "dead"]
      BY <1>1, <1>2, <1>4 DEF MarkRow, Fates
  <2>2. runs[cur[w]] = MaxAttempts \/ (cur[w] \in Unknown /\ runs[cur[w]] > 0)
      BY <1>1, <1>4, OutboxAssumption DEF Exhausted, IInv, Accounted
  <2>3. ~ok[cur[w]]
      BY <1>4 DEF IInv, Accounted
  <2> QED
      BY <1>2, <2>1, <2>2, <2>3 DEF Promise!SettleDead
<1>5. CASE result[w] # "ok" /\ ~Exhausted(cur[w], result[w])
  <2>1. Fates' = Fates
      BY <1>1, <1>2, <1>5 DEF MarkRow, Fates
  <2> QED
      BY <2>1
<1> QED
    BY <1>3, <1>4, <1>5

LEMMA ClaimKeepsFates == ASSUME IInv, NEW S \in SUBSET Due, TakeRows(S)
                         PROVE  UNCHANGED Fates
<1>1. \A e \in Event : Fates'[e] = Fates[e]
    BY DEF TakeRows, Due, Fates
<1> QED
    BY <1>1 DEF Fates

LEMMA StepImplements ==
    ASSUME IInv, [Next]_vars PROVE [Promise!Next]_(Promise!vars)
<1> USE DEF table, worker, Promise!vars
<1>1. ASSUME NEW e \in Event, Enqueue(e) PROVE Promise!Publish(e)
    BY <1>1 DEF Enqueue, Promise!Publish, Fates, IInv, TypeOK
<1>2. ASSUME NEW e \in Event, DeleteProcessed(e) PROVE Promise!Forget(e)
    BY <1>2 DEF DeleteProcessed, Promise!Forget, Fates, IInv, TypeOK
<1>3. ASSUME NEW w \in Worker, Claim(w) \/ ClaimLost(w) PROVE UNCHANGED Promise!vars
    BY <1>3, ClaimKeepsFates DEF Claim, ClaimLost
<1>4. ASSUME NEW w \in Worker, Mark(w) \/ MarkError(w)
      PROVE  [\E e \in Event : Promise!SettleSent(e) \/ Promise!SettleDead(e)]_(Promise!vars)
  <2>1. cur[w] \in Event /\ cur[w] # NoEvent
      BY <1>4 DEF Mark, MarkError, IInv, TypeOK
  <2>2. CASE MarkRow(cur[w], result[w])
      BY <1>4, <2>1, <2>2, MarkRowSettles DEF Mark, MarkError
  <2>3. CASE UNCHANGED <<status, wait>>
      BY <1>4, <2>3 DEF Mark, MarkError, Fates
  <2> QED
      BY <1>4, <2>2, <2>3 DEF Mark, MarkError
<1>5. ASSUME NEW w \in Worker, Expire(w) \/ Crash(w) PROVE UNCHANGED Promise!vars
    BY <1>5 DEF Expire, Crash, Fates
<1>6. CASE Tick
    BY <1>6 DEF Tick, Fates
<1>7. CASE UNCHANGED vars
    BY <1>7 DEF vars, Fates
<1>8. \A w \in Worker : Handle(w) => Promise!Next
    BY HandleRuns DEF Promise!Next
<1> QED
    BY <1>1, <1>2, <1>3, <1>4, <1>5, <1>6, <1>7, <1>8
       DEF Next, WorkerStep, WorkerFault, Promise!Next

(* The outbox with its workers, batches, lost marks and crashes implements *)
(* the queue it promises to producers.                                     *)
THEOREM Refinement == Spec => ImplementsQueue
<1>1. Init => Promise!Init
    BY DEF Init, Promise!Init, Fates
<1> QED
    BY <1>1, StepImplements, Invariance, PTL DEF Spec, ImplementsQueue, Promise!Spec
=============================================================================
