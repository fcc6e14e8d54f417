---------------------------- MODULE WebhookProofs ----------------------------
(***************************************************************************)
(* Proofs about WebhookDelivery, for any number of events, workers, manual *)
(* retries and faults: the row says the truth, a settled delivery is not   *)
(* posted again by a single worker, and an open one has an event to run.   *)
(***************************************************************************)
EXTENDS WebhookDelivery, FiniteSetTheorems, TLAPS

(* Where an event's run is, against what the outbox knows of the event.    *)
EventOK(e) ==
    /\ fate[e] = "absent" => runs[e] = 0 /\ ~ok[e]
    /\ fly[e] # "none" => fate[e] = "open" /\ ~ok[e] /\ runs[e] < QueueAttempts
    /\ fly[e] = "accepted" => accepted
    /\ posts[e] <= IF fly[e] \in {"accepted", "refused", "lost"} THEN runs[e] + 1 ELSE runs[e]

RowTruthful ==
    /\ status = "delivered" => accepted
    /\ status = "dead" => count >= MaxAttempts
    /\ count <= Cardinality(RunsSoFar)

(* One worker is in one run at most, and in none once the row is settled.  *)
OneRun ==
    workers = 1 /\ faults = 0 =>
        /\ \A d, e \in InRun : d = e
        /\ Settled => InRun = {}

WebhookInv == TypeOK /\ (\A e \in Event : EventOK(e)) /\ RowTruthful /\ OneRun

(* An event that will give the delivery another run.                       *)
Willing(e) == fate[e] = "open" /\ ~ok[e] /\ runs[e] < QueueAttempts

(* Without faults every failed run was counted, and an open row has an     *)
(* event, or a retry that will enqueue one.                                *)
QueuedInv ==
    faults = 0 =>
        /\ \A e \in Event : ~ok[e] => runs[e] <= count
        /\ status \in {"pending", "failed"} => api > 0 \/ \E e \in Event : Willing(e)

-----------------------------------------------------------------------------
(* Counting runs.                                                          *)

(* A set of runs is no larger than the outbox allows.                      *)
LEMMA RunSetFinite ==
  ASSUME WebhookAssumption, NEW S \in SUBSET (Event \X (1..QueueAttempts))
  PROVE  /\ IsFiniteSet(S)
         /\ Cardinality(S) \in Nat
         /\ Cardinality(S) <= QueueAttempts * Cardinality(Event)
<1>1. QueueAttempts \in Nat \ {0} /\ IsFiniteSet(Event)
  BY DEF WebhookAssumption
<1>2. IsFiniteSet(1..QueueAttempts) /\ Cardinality(1..QueueAttempts) = QueueAttempts
  <2>1. 1 \in Int /\ QueueAttempts \in Int /\ ~(1 > QueueAttempts) /\ QueueAttempts - 1 + 1 = QueueAttempts
    BY <1>1
  <2> QED
    BY <2>1, FS_Interval
<1>3. /\ IsFiniteSet(Event \X (1..QueueAttempts))
      /\ Cardinality(Event \X (1..QueueAttempts)) = Cardinality(Event) * QueueAttempts
  BY <1>1, <1>2, FS_Product
<1>4. /\ IsFiniteSet(S)
      /\ Cardinality(S) <= Cardinality(Event \X (1..QueueAttempts))
  BY <1>3, FS_Subset
<1>5. Cardinality(S) \in Nat /\ Cardinality(Event) \in Nat
  BY <1>1, <1>4, FS_CardinalityType
<1>6. Cardinality(Event) * QueueAttempts = QueueAttempts * Cardinality(Event)
  BY <1>1, <1>5
<1> QED
  BY <1>3, <1>4, <1>5, <1>6

LEMMA RunsSoFarFinite ==
  ASSUME WebhookAssumption
  PROVE  IsFiniteSet(RunsSoFar) /\ Cardinality(RunsSoFar) \in Nat
<1>1. RunsSoFar \in SUBSET (Event \X (1..QueueAttempts))
  BY DEF RunsSoFar
<1> QED
  BY <1>1, RunSetFinite

(* A run that ends is one run more.                                        *)
LEMMA RunIsCounted ==
  ASSUME WebhookAssumption, runs \in [Event -> 0..QueueAttempts], NEW e \in Event,
         runs[e] < QueueAttempts, runs' = [runs EXCEPT ![e] = @ + 1]
  PROVE  Cardinality(RunsSoFar') = Cardinality(RunsSoFar) + 1
<1> DEFINE new == <<e, runs[e] + 1>>
<1>1. QueueAttempts \in Nat \ {0}
  BY DEF WebhookAssumption
<1>2. new \in Event \X (1..QueueAttempts)
  BY <1>1
<1>3. \A x \in Event \X (1..QueueAttempts) :
          x[2] <= runs'[x[1]] <=> x[2] <= runs[x[1]] \/ x = new
  <2> SUFFICES ASSUME NEW f \in Event, NEW n \in 1..QueueAttempts
               PROVE  n <= runs'[f] <=> n <= runs[f] \/ <<f, n>> = new
    OBVIOUS
  <2> QED
    BY <1>1
<1>4. RunsSoFar' = RunsSoFar \cup {new}
  BY <1>2, <1>3 DEF RunsSoFar
<1>5. new \notin RunsSoFar
  BY <1>1 DEF RunsSoFar
<1> QED
  BY <1>4, <1>5, RunsSoFarFinite, FS_AddElement

(* What a run leaves when it returns r to the outbox.                      *)
LEMMA ReturnEffect ==
  ASSUME TypeOK, NEW e \in Event, NEW r \in BOOLEAN, Return(e, r)
  PROVE  /\ fate[e] = "open" /\ ~ok[e] /\ runs[e] < QueueAttempts
         /\ fate' = fate
         /\ runs' = [runs EXCEPT ![e] = @ + 1]
         /\ ok' \in [Event -> BOOLEAN] /\ ok'[e] = r
         /\ \A f \in Event \ {e} : ok'[f] = ok[f]
         /\ fly' = [fly EXCEPT ![e] = "none"]
  BY DEF TypeOK, Return, Queue!Attempt

-----------------------------------------------------------------------------
(* The invariant.                                                          *)

LEMMA WebhookInvStart == Init => WebhookInv /\ QueuedInv
<1> SUFFICES ASSUME Init PROVE WebhookInv /\ QueuedInv
  OBVIOUS
<1> USE WebhookAssumption DEF WebhookAssumption
<1>1. QueueAttempts * Cardinality(Event) \in Nat /\ Cardinality(RunsSoFar) \in Nat
  BY RunsSoFarFinite, FS_CardinalityType
<1>2. 0 \in 0..QueueAttempts /\ 0 \in 0..(QueueAttempts * Cardinality(Event))
      /\ 0 \in 0..MaxRetries /\ 0 \in 0..0 /\ 0 \in 0..MaxFaults
  BY <1>1
<1>3. TypeOK
  BY <1>2 DEF Init, Queue!Init, TypeOK, Queue!Fate, Stage
<1>4. ASSUME NEW e \in Event PROVE EventOK(e)
  BY DEF Init, Queue!Init, EventOK
<1>5. RowTruthful /\ OneRun /\ QueuedInv
  BY <1>1 DEF Init, Queue!Init, RowTruthful, OneRun, InRun, Settled, QueuedInv
<1> QED
  BY <1>3, <1>4, <1>5 DEF WebhookInv

(* The types and the events of a step that returns no run to the outbox.   *)
LEMMA QuietStep ==
  ASSUME WebhookInv, NEW e \in Event, UNCHANGED workers,
         \/ EnqueueTenantEvent \/ UpdateEndpoint
         \/ ResetForRetry \/ EnqueueRetry \/ AbandonRetry \/ RetryOfAnotherEndpoint
         \/ (ReadRow(e) /\ ~Settled) \/ Post(e) \/ Settle(e) \/ Crash(e)
  PROVE  TypeOK' /\ (\A f \in Event : EventOK(f)') /\ UNCHANGED <<runs, count>>
<1>a. /\ QueueAttempts \in Nat \ {0} /\ MaxAttempts \in Nat \ {0} /\ Workers \in Nat
      /\ MaxRetries \in Nat /\ MaxFaults \in Nat
  BY WebhookAssumption DEF WebhookAssumption
<1>b. TypeOK /\ \A f \in Event : EventOK(f)
  BY DEF WebhookInv
<1>1. CASE EnqueueTenantEvent
  <2>1. TypeOK'
    BY <1>a, <1>b, <1>1 DEF EnqueueTenantEvent, Queue!Publish, queue, row, TypeOK, Queue!Fate, Stage
  <2>2. ASSUME NEW f \in Event PROVE EventOK(f)'
    <3>1. EventOK(f) /\ EventOK(e)
      BY <1>b
    <3> QED
      BY <1>a, <1>b, <1>1, <2>1, <3>1 DEF EventOK, EnqueueTenantEvent, Queue!Publish, queue, row, TypeOK, Queue!Fate, Stage
  <2>3. UNCHANGED <<runs, count>>
    BY <1>1 DEF EnqueueTenantEvent, Queue!Publish, queue, row
  <2> QED
    BY <2>1, <2>2, <2>3
<1>2. CASE UpdateEndpoint
  <2>1. TypeOK'
    BY <1>a, <1>b, <1>2 DEF UpdateEndpoint, queue, row, TypeOK, Queue!Fate, Stage
  <2>2. ASSUME NEW f \in Event PROVE EventOK(f)'
    <3>1. EventOK(f) /\ EventOK(e)
      BY <1>b
    <3> QED
      BY <1>a, <1>b, <1>2, <2>1, <3>1 DEF EventOK, UpdateEndpoint, queue, row, TypeOK, Queue!Fate, Stage
  <2>3. UNCHANGED <<runs, count>>
    BY <1>2 DEF UpdateEndpoint, queue, row
  <2> QED
    BY <2>1, <2>2, <2>3
<1>3. CASE ResetForRetry
  <2>1. TypeOK'
    BY <1>a, <1>b, <1>3 DEF ResetForRetry, queue, row, TypeOK, Queue!Fate, Stage
  <2>2. ASSUME NEW f \in Event PROVE EventOK(f)'
    <3>1. EventOK(f) /\ EventOK(e)
      BY <1>b
    <3> QED
      BY <1>a, <1>b, <1>3, <2>1, <3>1 DEF EventOK, ResetForRetry, queue, row, TypeOK, Queue!Fate, Stage
  <2>3. UNCHANGED <<runs, count>>
    BY <1>3 DEF ResetForRetry, queue, row
  <2> QED
    BY <2>1, <2>2, <2>3
<1>4. CASE EnqueueRetry
  <2>1. TypeOK'
    BY <1>a, <1>b, <1>4 DEF EnqueueRetry, Queue!Publish, queue, row, TypeOK, Queue!Fate, Stage
  <2>2. ASSUME NEW f \in Event PROVE EventOK(f)'
    <3>1. EventOK(f) /\ EventOK(e)
      BY <1>b
    <3> QED
      BY <1>a, <1>b, <1>4, <2>1, <3>1 DEF EventOK, EnqueueRetry, Queue!Publish, queue, row, TypeOK, Queue!Fate, Stage
  <2>3. UNCHANGED <<runs, count>>
    BY <1>4 DEF EnqueueRetry, Queue!Publish, queue, row
  <2> QED
    BY <2>1, <2>2, <2>3
<1>5. CASE AbandonRetry
  <2>0. api' \in 0..retries' /\ faults' \in 0..MaxFaults
    BY <1>a, <1>b, <1>5 DEF AbandonRetry, TypeOK
  <2>1. TypeOK'
    BY <1>b, <1>5, <2>0 DEF AbandonRetry, queue, row, TypeOK
  <2>2. ASSUME NEW f \in Event PROVE EventOK(f)'
    BY <1>b, <1>5 DEF EventOK, AbandonRetry, queue, row
  <2>3. UNCHANGED <<runs, count>>
    BY <1>5 DEF AbandonRetry, queue, row
  <2> QED
    BY <2>1, <2>2, <2>3
<1>6. CASE RetryOfAnotherEndpoint
  <2>1. TypeOK'
    BY <1>a, <1>b, <1>6 DEF RetryOfAnotherEndpoint, queue, row, TypeOK, Queue!Fate, Stage
  <2>2. ASSUME NEW f \in Event PROVE EventOK(f)'
    <3>1. EventOK(f) /\ EventOK(e)
      BY <1>b
    <3> QED
      BY <1>a, <1>b, <1>6, <2>1, <3>1 DEF EventOK, RetryOfAnotherEndpoint, queue, row, TypeOK, Queue!Fate, Stage
  <2>3. UNCHANGED <<runs, count>>
    BY <1>6 DEF RetryOfAnotherEndpoint, queue, row
  <2> QED
    BY <2>1, <2>2, <2>3
<1>7. CASE ReadRow(e) /\ ~Settled
  <2>0. /\ fate[e] = "open" /\ ~ok[e] /\ runs[e] < QueueAttempts /\ fly[e] = "none"
    BY <1>7 DEF ReadRow, Runnable
  <2>4. /\ fly'[e] \in {"posting", "refused"} /\ fly' \in [Event -> Stage]
        /\ \A f \in Event \ {e} : fly'[f] = fly[f]
    BY <1>b, <1>7 DEF ReadRow, Settled, TypeOK, Stage
  <2>5. UNCHANGED <<queue, row, endpoint, api, retries, posts, accepted, faults>>
    BY <1>7 DEF ReadRow
  <2>1. TypeOK'
    BY <1>b, <2>4, <2>5 DEF queue, row, TypeOK
  <2>2. ASSUME NEW f \in Event PROVE EventOK(f)'
    <3>1. EventOK(f)
      BY <1>b
    <3> QED
      BY <1>a, <1>b, <2>0, <2>4, <2>5, <3>1 DEF EventOK, queue, row, TypeOK
  <2>3. UNCHANGED <<runs, count>>
    BY <1>7 DEF ReadRow, Runnable, Settled, queue, row
  <2> QED
    BY <2>1, <2>2, <2>3
<1>8. CASE Post(e)
  <2>0. /\ fly[e] = "posting" /\ posts[e] <= runs[e] /\ runs[e] < QueueAttempts
        /\ fate[e] = "open" /\ ~ok[e]
    BY <1>b, <1>8 DEF Post, EventOK
  <2>4. /\ fly'[e] \in {"accepted", "refused"} /\ fly' \in [Event -> Stage]
        /\ posts'[e] \in {posts[e], posts[e] + 1} /\ posts' \in [Event -> 0..QueueAttempts]
        /\ \A f \in Event \ {e} : fly'[f] = fly[f] /\ posts'[f] = posts[f]
        /\ fly'[e] = "accepted" \/ accepted => accepted'
        /\ accepted' \in BOOLEAN
    <3>1. fly'[e] \in {"accepted", "refused"} /\ fly' \in [Event -> Stage]
          /\ \A f \in Event \ {e} : fly'[f] = fly[f]
      BY <1>b, <1>8 DEF Post, TypeOK, Stage
    <3>2. posts' = posts \/ posts' = [posts EXCEPT ![e] = @ + 1]
      BY <1>8 DEF Post
    <3>3. /\ posts'[e] \in {posts[e], posts[e] + 1} /\ posts' \in [Event -> 0..QueueAttempts]
          /\ \A f \in Event \ {e} : posts'[f] = posts[f]
      <4>1. posts[e] + 1 \in 0..QueueAttempts
        BY <1>a, <1>b, <2>0 DEF TypeOK
      <4> QED
        BY <1>b, <3>2, <4>1 DEF TypeOK
    <3>4. (fly'[e] = "accepted" => accepted') /\ (accepted => accepted') /\ accepted' \in BOOLEAN
      <4>1. CASE fly' = [fly EXCEPT ![e] = "accepted"] /\ accepted' = TRUE
        <5>1. accepted'
          BY <4>1
        <5>2. accepted' \in BOOLEAN
          BY <4>1
        <5> QED
          BY <5>1, <5>2
      <4>2. CASE fly' = [fly EXCEPT ![e] = "refused"] /\ accepted' = accepted
        <5>1. fly'[e] # "accepted"
          BY <1>b, <4>2 DEF TypeOK
        <5>2. accepted' \in BOOLEAN
          BY <1>b, <4>2 DEF TypeOK
        <5> QED
          BY <4>2, <5>1, <5>2
      <4> QED
        BY <1>8, <4>1, <4>2 DEF Post
    <3>5. /\ fly'[e] \in {"accepted", "refused"} /\ fly' \in [Event -> Stage]
          /\ posts'[e] \in {posts[e], posts[e] + 1} /\ posts' \in [Event -> 0..QueueAttempts]
          /\ \A f \in Event \ {e} : fly'[f] = fly[f] /\ posts'[f] = posts[f]
      BY <3>1, <3>3
    <3> QED
      BY <3>4, <3>5
  <2>5. UNCHANGED <<queue, row, endpoint, api, retries, faults>>
    BY <1>8 DEF Post
  <2>1. TypeOK'
    BY <1>b, <2>4, <2>5 DEF queue, row, TypeOK
  <2>2. ASSUME NEW f \in Event PROVE EventOK(f)'
    <3>1. EventOK(f)
      BY <1>b
    <3> QED
      BY <1>b, <2>0, <2>4, <2>5, <3>1 DEF EventOK, queue, row, TypeOK
  <2>3. UNCHANGED <<runs, count>>
    BY <1>8 DEF Post, queue, row
  <2> QED
    BY <2>1, <2>2, <2>3
<1>9. CASE Settle(e)
  <2>1. TypeOK'
    BY <1>a, <1>b, <1>9 DEF Settle, Queue!SettleSent, Queue!SettleDead, queue, row, TypeOK, Queue!Fate, Stage
  <2>2. ASSUME NEW f \in Event PROVE EventOK(f)'
    <3>1. EventOK(f) /\ EventOK(e)
      BY <1>b
    <3> QED
      BY <1>a, <1>b, <1>9, <2>1, <3>1 DEF EventOK, Settle, Queue!SettleSent, Queue!SettleDead, queue, row, TypeOK, Queue!Fate, Stage
  <2>3. UNCHANGED <<runs, count>>
    BY <1>9 DEF Settle, Queue!SettleSent, Queue!SettleDead, queue, row
  <2> QED
    BY <2>1, <2>2, <2>3
<1>10. CASE Crash(e)
  <2>1. TypeOK'
    BY <1>a, <1>b, <1>10 DEF Crash, InRun, queue, row, TypeOK, Queue!Fate, Stage
  <2>2. ASSUME NEW f \in Event PROVE EventOK(f)'
    <3>1. EventOK(f) /\ EventOK(e)
      BY <1>b
    <3> QED
      BY <1>a, <1>b, <1>10, <2>1, <3>1 DEF EventOK, Crash, InRun, queue, row, TypeOK, Queue!Fate, Stage
  <2>3. UNCHANGED <<runs, count>>
    BY <1>10 DEF Crash, InRun, queue, row
  <2> QED
    BY <2>1, <2>2, <2>3
<1> QED
  BY <1>1, <1>2, <1>3, <1>4, <1>5, <1>6, <1>7, <1>8, <1>9, <1>10

(* The types and the events of a step that returns a run to the outbox.    *)
LEMMA RunEnds ==
  ASSUME WebhookInv, NEW e \in Event, NEW r \in BOOLEAN, Return(e, r),
         UNCHANGED <<workers, endpoint, api, retries, posts, accepted>>,
         status' \in {"none", "pending", "failed", "delivered", "dead"},
         count' \in {count, count + 1}, faults' \in 0..MaxFaults
  PROVE  /\ TypeOK' /\ \A f \in Event : EventOK(f)'
         /\ count' <= Cardinality(RunsSoFar')
<1>a. /\ QueueAttempts \in Nat \ {0} /\ MaxAttempts \in Nat \ {0} /\ Workers \in Nat
      /\ MaxRetries \in Nat /\ MaxFaults \in Nat
  BY WebhookAssumption DEF WebhookAssumption
<1>b. TypeOK /\ count <= Cardinality(RunsSoFar) /\ \A f \in Event : EventOK(f)
  BY DEF WebhookInv, RowTruthful
<1>1. /\ fate[e] = "open" /\ ~ok[e] /\ runs[e] < QueueAttempts
      /\ fate' = fate
      /\ runs' = [runs EXCEPT ![e] = @ + 1]
      /\ ok' \in [Event -> BOOLEAN] /\ ok'[e] = r
      /\ \A f \in Event \ {e} : ok'[f] = ok[f]
      /\ fly' = [fly EXCEPT ![e] = "none"]
  BY <1>b, ReturnEffect
<1>2. count' <= Cardinality(RunsSoFar')
  <2>1. Cardinality(RunsSoFar') = Cardinality(RunsSoFar) + 1
    BY <1>1, <1>b, RunIsCounted, WebhookAssumption DEF TypeOK
  <2>2. Cardinality(RunsSoFar) \in Nat /\ count \in Nat
    BY <1>b, RunsSoFarFinite, WebhookAssumption DEF TypeOK
  <2> QED
    BY <1>b, <2>1, <2>2
<1>3. runs' \in [Event -> 0..QueueAttempts] /\ fly' \in [Event -> Stage]
  <2>1. runs[e] + 1 \in 0..QueueAttempts
    BY <1>a, <1>b, <1>1 DEF TypeOK
  <2> QED
    BY <1>b, <1>1, <2>1 DEF TypeOK, Stage
<1>4. count' \in 0..(QueueAttempts * Cardinality(Event))
  <2>1. /\ Cardinality(RunsSoFar)' \in Nat
        /\ Cardinality(RunsSoFar)' <= QueueAttempts * Cardinality(Event)
    BY WebhookAssumption, RunSetFinite DEF RunsSoFar
  <2>2. count' \in Nat /\ QueueAttempts * Cardinality(Event) \in Nat
    BY <1>a, <1>b, FS_CardinalityType, WebhookAssumption DEF TypeOK, WebhookAssumption
  <2> QED
    BY <1>2, <2>1, <2>2
<1>5. TypeOK'
  BY <1>b, <1>1, <1>3, <1>4 DEF TypeOK
<1>6. ASSUME NEW f \in Event PROVE EventOK(f)'
  <2>1. EventOK(f)
    BY <1>b
  <2> QED
    BY <1>a, <1>b, <1>1, <2>1 DEF EventOK, TypeOK
<1> QED
  BY <1>2, <1>5, <1>6

-----------------------------------------------------------------------------
(* What the steps do to the row and to the runs under way: some leave both *)
(* alone, but that a retry sets the row to pending ...                     *)
LEMMA TenantKeepsRow ==
  ASSUME WebhookInv, UNCHANGED <<workers, count, runs, fly, accepted>>,
         status' \in {status, "pending"}, faults' >= faults, faults \in Nat, faults' \in Nat
  PROVE  RowTruthful' /\ OneRun'
<1>1. RowTruthful /\ OneRun
  BY DEF WebhookInv
<1>2. RunsSoFar' = RunsSoFar /\ InRun' = InRun
  BY DEF RunsSoFar, InRun
<1>3. faults' = 0 => faults = 0
  OBVIOUS
<1>4. RowTruthful'
  BY <1>1, <1>2 DEF RowTruthful
<1>5. OneRun'
  BY <1>1, <1>2, <1>3 DEF OneRun, Settled
<1> QED
  BY <1>4, <1>5

(* ... one run at a time begins, of an open delivery ...                   *)
LEMMA ReadKeepsRow ==
  ASSUME WebhookInv, NEW e \in Event, ReadRow(e), ~Settled, UNCHANGED workers
  PROVE  RowTruthful' /\ OneRun'
<1>1. RowTruthful /\ OneRun /\ TypeOK
  BY DEF WebhookInv
<1>2. UNCHANGED <<status, count, runs, accepted, faults>> /\ ~Settled'
  BY DEF ReadRow, row, queue, Settled
<1>3. RowTruthful'
  BY <1>1, <1>2 DEF RowTruthful, RunsSoFar
<1>4. InRun' \subseteq InRun \cup {e}
  BY <1>1 DEF ReadRow, InRun, TypeOK
<1>5. ASSUME workers = 1 PROVE InRun = {}
  <2>1. Cardinality(InRun) < 1 /\ IsFiniteSet(InRun)
    <3>1. Cardinality(InRun) < 1
      BY <1>5 DEF ReadRow, Runnable
    <3>2. InRun \in SUBSET Event /\ IsFiniteSet(Event)
      BY WebhookAssumption DEF WebhookAssumption, InRun
    <3> QED
      BY <3>1, <3>2, FS_Subset
  <2>2. Cardinality(InRun) \in Nat
    BY <2>1, FS_CardinalityType
  <2>3. Cardinality(InRun) = 0
    BY <2>1, <2>2
  <2> QED
    BY <2>1, <2>3, FS_EmptySet
<1>6. OneRun'
  BY <1>1, <1>2, <1>4, <1>5 DEF OneRun
<1> QED
  BY <1>3, <1>6

(* ... and one that ends leaves none under way, if there is one worker.    *)
LEMMA EndKeepsOneRun ==
  ASSUME WebhookInv, NEW e \in Event, NEW r \in BOOLEAN, Return(e, r), UNCHANGED workers,
         faults \in Nat, faults' \in Nat, faults' >= faults,
         e \in InRun \/ status' = status
  PROVE  OneRun'
<1>1. OneRun /\ TypeOK
  BY DEF WebhookInv
<1>2. fly' = [fly EXCEPT ![e] = "none"]
  BY DEF Return
<1>3. InRun' = InRun \ {e}
  BY <1>1, <1>2 DEF InRun, TypeOK
<1>4. faults' = 0 => faults = 0
  OBVIOUS
<1> QED
  BY <1>1, <1>3, <1>4 DEF OneRun, Settled

LEMMA StepKeepsWebhookInv ==
  ASSUME WebhookInv, Step, UNCHANGED workers PROVE WebhookInv'
<1>a. /\ QueueAttempts \in Nat \ {0} /\ MaxAttempts \in Nat \ {0} /\ Workers \in Nat
      /\ MaxRetries \in Nat /\ MaxFaults \in Nat
  BY WebhookAssumption DEF WebhookAssumption
<1>b. TypeOK /\ RowTruthful /\ \A f \in Event : EventOK(f)
  BY DEF WebhookInv
<1>c. faults \in Nat /\ count \in Nat /\ faults \in 0..MaxFaults
      /\ status \in {"none", "pending", "failed", "delivered", "dead"}
  BY <1>a, <1>b DEF TypeOK
<1>1. CASE \/ EnqueueTenantEvent \/ UpdateEndpoint
           \/ ResetForRetry \/ EnqueueRetry \/ AbandonRetry \/ RetryOfAnotherEndpoint
  <2>1. /\ UNCHANGED <<workers, count, runs, fly, accepted>>
        /\ status' \in {status, "pending"} /\ faults' \in {faults, faults + 1}
    BY <1>1 DEF EnqueueTenantEvent, UpdateEndpoint, ResetForRetry, EnqueueRetry, AbandonRetry,
      RetryOfAnotherEndpoint, queue, row, Queue!Publish
  <2>2. RowTruthful' /\ OneRun'
    BY <1>c, <2>1, TenantKeepsRow
  <2>3. First \in Event
    BY WebhookAssumption DEF WebhookAssumption
  <2> QED
    BY <1>1, <2>2, <2>3, QuietStep DEF WebhookInv
<1>2. ASSUME NEW e \in Event, Deliver(e) \/ ReadError(e) \/ MarkError(e) \/ Crash(e)
      PROVE  WebhookInv'
  <2>1. CASE ReadRow(e) /\ ~Settled
    BY <2>1, QuietStep, ReadKeepsRow DEF WebhookInv
  <2>2. CASE Settle(e)
    <3>1. UNCHANGED <<workers, count, runs, fly, accepted, status, faults>>
      BY <2>2 DEF Settle, row, Queue!SettleSent, Queue!SettleDead
    <3>2. RowTruthful' /\ OneRun'
      BY <1>c, <3>1, TenantKeepsRow
    <3> QED
      BY <2>2, <3>2, QuietStep DEF WebhookInv
  <2>3. CASE Post(e)
    <3>1. UNCHANGED <<workers, count, runs, status, faults>> /\ (accepted => accepted')
      BY <2>3 DEF Post, row, queue
    <3>2. RowTruthful'
      BY <1>b, <3>1 DEF RowTruthful, RunsSoFar
    <3>3. InRun' = InRun
      <4>1. fly[e] = "posting" /\ fly'[e] \in {"accepted", "refused"}
            /\ \A f \in Event \ {e} : fly'[f] = fly[f]
        BY <1>b, <2>3 DEF Post, TypeOK
      <4> QED
        BY <4>1 DEF InRun
    <3>4. OneRun'
      BY <3>1, <3>3 DEF OneRun, Settled, WebhookInv
    <3> QED
      BY <2>3, <3>2, <3>4, QuietStep DEF WebhookInv
  <2>4. CASE Crash(e)
    <3>1. UNCHANGED <<workers, count, runs, status, accepted>> /\ faults' = faults + 1
      BY <2>4 DEF Crash, row, queue
    <3>2. RowTruthful'
      BY <1>b, <3>1 DEF RowTruthful, RunsSoFar
    <3>3. OneRun'
      BY <1>c, <3>1 DEF OneRun
    <3> QED
      BY <2>4, <3>2, <3>3, QuietStep DEF WebhookInv
  <2>5. ASSUME NEW r \in BOOLEAN, Return(e, r),
               UNCHANGED <<workers, endpoint, api, retries, posts, accepted>>,
               \/ UNCHANGED <<status, count>>
               \/ DeliveredRow /\ fly[e] = "accepted"
               \/ FailedRow /\ fly[e] = "refused",
               \/ faults' = faults
               \/ faults < MaxFaults /\ faults' = faults + 1
        PROVE  WebhookInv'
    <3>1. /\ status' \in {"none", "pending", "failed", "delivered", "dead"}
          /\ count' \in {count, count + 1}
      BY <1>c, <2>5 DEF DeliveredRow, FailedRow
    <3>2. faults' \in 0..MaxFaults /\ faults' \in Nat /\ faults' >= faults
      BY <1>a, <1>c, <2>5
    <3>3. e \in InRun \/ status' = status
      BY <2>5 DEF InRun
    <3>4. /\ TypeOK' /\ \A f \in Event : EventOK(f)'
          /\ count' <= Cardinality(RunsSoFar')
      BY <2>5, <3>1, <3>2, RunEnds
    <3>5. OneRun'
      BY <1>c, <2>5, <3>2, <3>3, EndKeepsOneRun
    <3>6. RowTruthful'
      <4>1. fly[e] = "accepted" => accepted
        BY <1>b DEF EventOK
      <4>2. status' = "delivered" => accepted'
        <5>1. CASE UNCHANGED <<status, count>>
          BY <1>b, <2>5, <5>1 DEF RowTruthful
        <5>2. CASE DeliveredRow /\ fly[e] = "accepted"
          BY <4>1, <2>5, <5>2
        <5>3. CASE FailedRow /\ fly[e] = "refused"
          BY <5>3 DEF FailedRow
        <5> QED
          BY <2>5, <5>1, <5>2, <5>3
      <4>3. status' = "dead" => count' >= MaxAttempts
        BY <1>b, <2>5 DEF RowTruthful, DeliveredRow, FailedRow
      <4> QED
        BY <3>4, <4>2, <4>3 DEF RowTruthful
    <3> QED
      BY <3>4, <3>5, <3>6 DEF WebhookInv
  <2>6. CASE ReadRow(e) /\ Settled
    <3>1. Return(e, TRUE) /\ UNCHANGED <<status, count, endpoint, api, retries, posts, accepted, faults>>
      BY <2>6 DEF ReadRow, row
    <3> QED
      BY <2>5, <3>1
  <2>7. CASE MarkDelivered(e)
    <3>1. Return(e, TRUE)
      BY <2>7 DEF MarkDelivered
    <3> QED
      BY <2>5, <2>7, <3>1 DEF MarkDelivered
  <2>8. CASE MarkFailed(e)
    <3>1. (status' = "dead") \in BOOLEAN /\ Return(e, status' = "dead")
      BY <2>8 DEF MarkFailed
    <3> QED
      BY <2>5, <2>8, <3>1 DEF MarkFailed
  <2>9. CASE ReadError(e) \/ MarkError(e)
    <3>1. Return(e, FALSE)
      BY <2>9 DEF ReadError, MarkError
    <3> QED
      BY <2>5, <2>9, <3>1 DEF ReadError, MarkError, row
  <2> QED
    BY <1>2, <2>1, <2>2, <2>3, <2>4, <2>6, <2>7, <2>8, <2>9 DEF Deliver
<1> QED
  BY <1>1, <1>2 DEF Step

-----------------------------------------------------------------------------
LEMMA FaultsGrow ==
  ASSUME Step, faults \in Nat PROVE faults' \in Nat /\ faults' >= faults
<1>1. CASE \/ EnqueueTenantEvent \/ UpdateEndpoint
           \/ ResetForRetry \/ EnqueueRetry \/ AbandonRetry \/ RetryOfAnotherEndpoint
  <2>1. faults' \in {faults, faults + 1}
    BY <1>1 DEF EnqueueTenantEvent, UpdateEndpoint, ResetForRetry, EnqueueRetry, AbandonRetry, RetryOfAnotherEndpoint
  <2> QED
    BY <2>1
<1>2. ASSUME NEW e \in Event, Deliver(e) \/ ReadError(e) \/ MarkError(e) \/ Crash(e)
      PROVE  faults' \in Nat /\ faults' >= faults
  <2>1. faults' \in {faults, faults + 1}
    BY <1>2 DEF Deliver, ReadRow, Post, MarkDelivered, MarkFailed, Settle, ReadError, MarkError, Crash
  <2> QED
    BY <2>1
<1> QED
  BY <1>1, <1>2 DEF Step

(* An open delivery keeps its event, when the outbox gives an event as     *)
(* many runs as the delivery counts attempts, or more.                     *)
LEMMA StepKeepsQueuedInv ==
  ASSUME WebhookInv, QueuedInv, Step, UNCHANGED workers, MaxAttempts <= QueueAttempts
  PROVE  QueuedInv'
<1> SUFFICES ASSUME faults' = 0
    PROVE /\ \A e \in Event : ~ok'[e] => runs'[e] <= count'
          /\ status' \in {"pending", "failed"} => api' > 0 \/ \E e \in Event : Willing(e)'
  BY DEF QueuedInv
<1>a. QueueAttempts \in Nat \ {0} /\ MaxAttempts \in Nat \ {0}
  BY WebhookAssumption DEF WebhookAssumption
<1>b. TypeOK /\ \A f \in Event : EventOK(f)
  BY DEF WebhookInv
<1>c. faults \in Nat /\ count \in Nat /\ \A e \in Event : runs[e] \in Nat
  BY <1>b DEF TypeOK
<1>d. faults = 0 /\ UNCHANGED faults
  BY <1>c, FaultsGrow
<1>e. /\ \A e \in Event : ~ok[e] => runs[e] <= count
      /\ status \in {"pending", "failed"} => api > 0 \/ \E e \in Event : Willing(e)
  BY <1>d DEF QueuedInv
<1>1. CASE \/ UpdateEndpoint \/ ResetForRetry \/ \E e \in Event : Post(e) \/ (ReadRow(e) /\ ~Settled)
  <2>1. UNCHANGED <<count, runs, ok, fate>>
    BY <1>1 DEF UpdateEndpoint, ResetForRetry, Post, ReadRow, row, queue, Settled
  <2>2. api' > 0 \/ UNCHANGED <<api, status>>
    <3>1. CASE ResetForRetry
      <4>1. api' = api + 1 /\ api \in Nat
        BY <1>b, <3>1 DEF ResetForRetry, TypeOK
      <4> QED
        BY <4>1
    <3> QED
      BY <1>1, <3>1 DEF UpdateEndpoint, Post, ReadRow, row, queue
  <2> QED
    BY <1>e, <2>1, <2>2 DEF Willing
<1>2. CASE EnqueueTenantEvent \/ EnqueueRetry
  <2>1. PICK e \in Event : Queue!Publish(e)
    BY <1>2, WebhookAssumption DEF EnqueueTenantEvent, EnqueueRetry, WebhookAssumption
  <2>2. fate[e] = "absent" /\ fate'[e] = "open" /\ UNCHANGED <<runs, ok>>
    BY <1>b, <2>1 DEF Queue!Publish, TypeOK
  <2>3. Willing(e)'
    BY <1>a, <1>b, <2>2 DEF Willing, EventOK
  <2>4. count' = count
    BY <1>2 DEF EnqueueTenantEvent, EnqueueRetry, row
  <2> QED
    BY <1>e, <2>2, <2>3, <2>4
<1>3. CASE \E e \in Event : Settle(e)
  <2>1. PICK e \in Event : Settle(e)
    BY <1>3
  <2>2. UNCHANGED <<status, count, api, runs, ok>>
    BY <2>1 DEF Settle, row, Queue!SettleSent, Queue!SettleDead
  <2>3. ~Willing(e) /\ \A f \in Event \ {e} : fate'[f] = fate[f]
    BY <1>a, <1>b, <2>1 DEF Settle, Willing, TypeOK, Queue!SettleSent, Queue!SettleDead
  <2>4. \A f \in Event : Willing(f) => Willing(f)'
    BY <2>2, <2>3 DEF Willing
  <2> QED
    BY <1>e, <2>2, <2>4
<1>4. ASSUME NEW e \in Event, NEW r \in BOOLEAN, Return(e, r),
             \/ UNCHANGED <<status, count>> /\ Settled /\ r
             \/ DeliveredRow /\ r
             \/ FailedRow /\ r = (status' = "dead")
      PROVE  /\ \A f \in Event : ~ok'[f] => runs'[f] <= count'
             /\ status' \in {"pending", "failed"} => api' > 0 \/ \E f \in Event : Willing(f)'
  <2>1. /\ fate[e] = "open" /\ ~ok[e] /\ runs[e] < QueueAttempts /\ fate' = fate
        /\ runs'[e] = runs[e] + 1 /\ ok'[e] = r
        /\ \A f \in Event \ {e} : ok'[f] = ok[f] /\ runs'[f] = runs[f]
    BY <1>b, <1>4, ReturnEffect DEF TypeOK
  <2>2. (~r => count' = count + 1) /\ count' >= count
    <3>1. CASE count' = count + 1
      BY <1>c, <3>1
    <3>2. CASE count' = count /\ r
      BY <1>c, <3>2
    <3> QED
      BY <1>4, <3>1, <3>2 DEF DeliveredRow, FailedRow
  <2>3. \A f \in Event : ~ok'[f] => runs'[f] <= count'
    <3>1. ASSUME ~ok'[e] PROVE runs'[e] <= count'
      BY <1>c, <1>e, <2>1, <2>2, <3>1
    <3>2. ASSUME NEW f \in Event \ {e}, ~ok'[f] PROVE runs'[f] <= count'
      <4>1. runs[f] <= count /\ runs'[f] = runs[f]
        BY <1>e, <2>1, <3>2
      <4>2. count' \in {count, count + 1} /\ runs[f] \in Nat
        BY <1>4, <1>c DEF DeliveredRow, FailedRow
      <4> QED
        BY <1>c, <4>1, <4>2
    <3> QED
      BY <3>1, <3>2
  <2>4. status' \in {"pending", "failed"} => Willing(e)'
    <3>1. CASE UNCHANGED <<status, count>> /\ Settled
      BY <3>1 DEF Settled
    <3>2. CASE DeliveredRow
      BY <3>2 DEF DeliveredRow
    <3>3. CASE FailedRow /\ r = (status' = "dead")
      <4>1. ASSUME status' = "failed" PROVE Willing(e)'
        <5>1. count' < MaxAttempts
          BY <1>a, <1>c, <3>3, <4>1 DEF FailedRow
        <5>2. ~ok'[e]
          BY <2>1, <3>3, <4>1
        <5>3. runs'[e] < QueueAttempts
          BY <1>a, <1>c, <2>1, <2>2, <2>3, <5>1, <5>2, <3>3 DEF FailedRow
        <5> QED
          BY <2>1, <5>2, <5>3 DEF Willing
      <4> QED
        BY <3>3, <4>1 DEF FailedRow
    <3> QED
      BY <1>4, <3>1, <3>2, <3>3
  <2> QED
    BY <2>3, <2>4
<1>5. ASSUME NEW e \in Event, (ReadRow(e) /\ Settled) \/ MarkDelivered(e) \/ MarkFailed(e)
      PROVE  /\ \A f \in Event : ~ok'[f] => runs'[f] <= count'
             /\ status' \in {"pending", "failed"} => api' > 0 \/ \E f \in Event : Willing(f)'
  <2>1. CASE ReadRow(e) /\ Settled
    <3>1. Return(e, TRUE) /\ UNCHANGED <<status, count>>
      BY <2>1 DEF ReadRow, row
    <3> QED
      BY <1>4, <2>1, <3>1
  <2>2. CASE MarkDelivered(e)
    <3>1. Return(e, TRUE)
      BY <2>2 DEF MarkDelivered
    <3> QED
      BY <1>4, <2>2, <3>1 DEF MarkDelivered
  <2>3. CASE MarkFailed(e)
    <3>1. (status' = "dead") \in BOOLEAN /\ Return(e, status' = "dead")
      BY <2>3 DEF MarkFailed
    <3> QED
      BY <1>4, <2>3, <3>1 DEF MarkFailed
  <2> QED
    BY <1>5, <2>1, <2>2, <2>3
<1>6. ~AbandonRetry /\ ~RetryOfAnotherEndpoint
      /\ \A e \in Event : ~ReadError(e) /\ ~MarkError(e) /\ ~Crash(e)
  BY <1>c, <1>d DEF AbandonRetry, RetryOfAnotherEndpoint, ReadError, MarkError, Crash
<1>7. CASE \E e \in Event : Deliver(e)
  <2>1. PICK e \in Event : Deliver(e)
    BY <1>7
  <2>2. CASE Post(e) \/ (ReadRow(e) /\ ~Settled)
    BY <1>1, <2>2
  <2>3. CASE Settle(e)
    BY <1>3, <2>3
  <2>4. CASE (ReadRow(e) /\ Settled) \/ MarkDelivered(e) \/ MarkFailed(e)
    BY <1>5, <2>4
  <2>5. \/ Post(e) \/ (ReadRow(e) /\ ~Settled)
        \/ Settle(e)
        \/ (ReadRow(e) /\ Settled) \/ MarkDelivered(e) \/ MarkFailed(e)
    BY <2>1 DEF Deliver
  <2> QED
    BY <2>2, <2>3, <2>4, <2>5
<1> QED
  BY <1>1, <1>2, <1>6, <1>7 DEF Step

-----------------------------------------------------------------------------
(* The invariant holds in every reachable state.                           *)
LEMMA WebhookInvHolds == Spec => []WebhookInv
<1>1. Init => WebhookInv
  BY WebhookInvStart
<1>2. WebhookInv /\ [Next]_vars => WebhookInv'
  <2>1. WebhookInv /\ UNCHANGED vars => WebhookInv'
    BY DEF vars, WebhookInv, TypeOK, EventOK, RowTruthful, RunsSoFar, OneRun, InRun, Settled
  <2> QED
    BY <2>1, StepKeepsWebhookInv DEF Next
<1> QED
  BY <1>1, <1>2, PTL DEF Spec

(* The types hold: no event is run more often than the outbox allows, and  *)
(* the row never counts more attempts than that.                           *)
THEOREM WebhookTypesHold == Spec => []TypeOK
<1>1. WebhookInv => TypeOK
  BY DEF WebhookInv
<1> QED
  BY <1>1, WebhookInvHolds, PTL

(* The row says the truth of the receiver and of the runs, whatever the    *)
(* number of workers, manual retries and faults.                           *)
THEOREM RowsTruthful == Spec => []StatusTruthful
<1>1. WebhookInv => StatusTruthful
  BY DEF WebhookInv, StatusTruthful, RowTruthful, EventOK
<1> QED
  BY <1>1, WebhookInvHolds, PTL

(* A single worker that meets no fault never posts a settled delivery.     *)
THEOREM SettledStays == Spec => SettledIsFinal
<1>1. WebhookInv /\ [Next]_vars =>
        [Settled /\ workers = 1 /\ faults' = 0 =>
              /\ status' # status => status' = "pending" /\ api' = api + 1
              /\ posts' = posts]_vars
  <2> SUFFICES ASSUME WebhookInv, Step, UNCHANGED workers, Settled, workers = 1, faults' = 0
               PROVE  /\ status' # status => status' = "pending" /\ api' = api + 1
                      /\ posts' = posts
    BY DEF Next
  <2>1. faults \in Nat
    BY DEF WebhookInv, TypeOK
  <2>2. faults = 0
    BY <2>1, FaultsGrow
  <2>3. \A e \in Event : fly[e] \notin {"posting", "accepted", "refused"}
    BY <2>2 DEF WebhookInv, OneRun, InRun
  <2>4. CASE \/ EnqueueTenantEvent \/ UpdateEndpoint
             \/ ResetForRetry \/ EnqueueRetry \/ AbandonRetry \/ RetryOfAnotherEndpoint
    BY <2>1, <2>2, <2>4 DEF EnqueueTenantEvent, UpdateEndpoint, ResetForRetry, EnqueueRetry, AbandonRetry,
      RetryOfAnotherEndpoint, row, Settled
  <2>5. ASSUME NEW e \in Event, Deliver(e) \/ ReadError(e) \/ MarkError(e) \/ Crash(e)
        PROVE  status' = status /\ posts' = posts
    BY <2>1, <2>2, <2>3, <2>5 DEF Deliver, ReadRow, Post, MarkDelivered, MarkFailed, Settle, ReadError,
      MarkError, Crash, row
  <2> QED
    BY <2>4, <2>5 DEF Step
<1> QED
  BY <1>1, WebhookInvHolds, PTL DEF Spec, SettledIsFinal

(* No open delivery is left with nobody to post it, unless a fault struck; *)
(* the outbox must give an event as many runs as a delivery has attempts,  *)
(* as it does in the default configuration.                                *)
THEOREM OpenDeliveriesQueued ==
  ASSUME MaxAttempts <= QueueAttempts
  PROVE  Spec => []OpenIsQueued
<1>1. Init => QueuedInv
  BY WebhookInvStart
<1>2. WebhookInv /\ QueuedInv /\ [Next]_vars => QueuedInv'
  <2>1. QueuedInv /\ UNCHANGED vars => QueuedInv'
    BY DEF vars, QueuedInv, Willing
  <2> QED
    BY <2>1, StepKeepsQueuedInv DEF Next
<1>3. QueuedInv => OpenIsQueued
  BY DEF QueuedInv, Willing, OpenIsQueued
<1> QED
  BY <1>1, <1>2, <1>3, WebhookInvHolds, PTL DEF Spec
=============================================================================
