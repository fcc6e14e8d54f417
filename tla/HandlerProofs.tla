---------------------------- MODULE HandlerProofs ----------------------------
(***************************************************************************)
(* What the steps of OutboxHandlers keep, for the proofs about every       *)
(* component whose handlers the outbox calls.                              *)
(***************************************************************************)
EXTENDS OutboxHandlers, TLAPS

(* An event's handler, against what the outbox knows of it.                *)
EventOK(j) ==
    /\ fate[j] = "absent" => tries[j] = 0 /\ ~ok[j] /\ at[j] = "idle"
    /\ fate[j] # "gone"
    /\ fate[j] = "sent" => ok[j]
    /\ fate[j] = "dead" => ~ok[j] /\ tries[j] = MaxAttempts
    /\ InHand(j) => fate[j] = "open" /\ ~ok[j] /\ tries[j] < MaxAttempts
    /\ faults = 0 => at[j] # "lost"

HandlersOK ==
    /\ fate \in [Job -> Queue!Fate]
    /\ tries \in [Job -> 0..MaxAttempts]
    /\ ok \in [Job -> BOOLEAN]
    /\ DOMAIN at = Job
    /\ FaultsTypeOK
    /\ \A j \in Job : EventOK(j)

(* The events of other jobs stay as they are.                              *)
OnlyEvent(j) ==
    \A i \in Job \ {j} : /\ fate'[i] = fate[i] /\ tries'[i] = tries[i]
                         /\ ok'[i] = ok[i] /\ at'[i] = at[i]

AnyFault == Fault \/ Unfailing

LEMMA HandlersOKInit == HandlersInit => HandlersOK
  BY HandlerAssumption, FaultsAssumption
  DEF HandlersInit, HandlersOK, EventOK, InHand, Queue!Init, Queue!Fate, FaultsInit, FaultsTypeOK

LEMMA FaultsGrow ==
  ASSUME FaultsTypeOK, AnyFault
  PROVE  /\ FaultsTypeOK' /\ faults \in Nat /\ faults' \in Nat /\ faults' >= faults
         /\ faults' = 0 => faults = 0 /\ ~Fault
         /\ Fault => faults' > 0
  BY FaultsAssumption DEF FaultsTypeOK, AnyFault, Fault, Unfailing

(* A step that changes one event keeps the others' invariants.             *)
LEMMA OneEventKeeps ==
  ASSUME HandlersOK, NEW j \in Job, AnyFault, OnlyEvent(j), EventOK(j)',
         fate' \in [Job -> Queue!Fate], tries' \in [Job -> 0..MaxAttempts], ok' \in [Job -> BOOLEAN],
         DOMAIN at' = Job
  PROVE  HandlersOK'
<1>1. FaultsTypeOK' /\ (faults' = 0 => faults = 0)
  BY FaultsGrow DEF HandlersOK
<1>2. ASSUME NEW i \in Job \ {j} PROVE EventOK(i)'
  BY <1>1 DEF HandlersOK, OnlyEvent, EventOK, InHand
<1> QED
  BY <1>1, <1>2 DEF HandlersOK

(* A step that changes no event.                                           *)
LEMMA NoEventKeeps ==
  ASSUME HandlersOK, UNCHANGED <<eventVars, at>>, AnyFault
  PROVE  HandlersOK' /\ UNCHANGED <<fate, tries, ok, at>> /\ \A j \in Job : OnlyEvent(j)
<1>1. UNCHANGED <<fate, tries, ok, at>>
  BY DEF eventVars
<1>2. FaultsTypeOK' /\ (faults' = 0 => faults = 0)
  BY FaultsGrow DEF HandlersOK
<1>3. HandlersOK'
  BY <1>1, <1>2 DEF HandlersOK, EventOK, InHand
<1> QED
  BY <1>1, <1>3 DEF OnlyEvent

LEMMA EnqueueKeeps ==
  ASSUME HandlersOK, NEW j \in Job, Enqueue(j), AnyFault
  PROVE  /\ HandlersOK' /\ OnlyEvent(j)
         /\ fate[j] = "absent" /\ fate'[j] = "open" /\ ~ok'[j] /\ tries'[j] = 0 /\ at'[j] = "idle"
         /\ tries[j] = 0 /\ Deliverable(j)'
<1>1. /\ fate[j] = "absent" /\ fate' = [fate EXCEPT ![j] = "open"] /\ UNCHANGED <<tries, ok, at>>
  BY DEF Enqueue, Queue!Publish
<1>2. EventOK(j)
  BY DEF HandlersOK
<1>3. /\ fate' \in [Job -> Queue!Fate] /\ OnlyEvent(j)
      /\ fate'[j] = "open" /\ ~ok'[j] /\ tries'[j] = 0 /\ at'[j] = "idle" /\ tries[j] = 0
  BY <1>1, <1>2 DEF HandlersOK, OnlyEvent, EventOK, Queue!Fate
<1>4. EventOK(j)' /\ Deliverable(j)'
  BY <1>3, HandlerAssumption DEF EventOK, InHand, Deliverable
<1>5. HandlersOK'
  BY <1>1, <1>3, <1>4, OneEventKeeps DEF HandlersOK
<1> QED
  BY <1>1, <1>3, <1>4, <1>5

LEMMA MoveKeeps ==
  ASSUME HandlersOK, NEW j \in Job, NEW s, s \notin {"idle", "lost"},
         Begin(j, s) \/ (InHand(j) /\ Goto(j, s)), AnyFault
  PROVE  /\ HandlersOK' /\ OnlyEvent(j)
         /\ at'[j] = s /\ fate[j] = "open" /\ ~ok[j] /\ tries[j] < MaxAttempts
         /\ fate'[j] = fate[j] /\ ok'[j] = ok[j] /\ tries'[j] = tries[j]
         /\ UNCHANGED eventVars
<1>1. /\ UNCHANGED <<fate, tries, ok>> /\ at' = [at EXCEPT ![j] = s]
      /\ fate[j] = "open" /\ ~ok[j] /\ tries[j] < MaxAttempts
  BY DEF Begin, Goto, Deliverable, HandlersOK, EventOK, eventVars
<1>2. at'[j] = s /\ OnlyEvent(j) /\ DOMAIN at' = Job
  BY <1>1 DEF HandlersOK, OnlyEvent
<1>3. EventOK(j)'
  BY <1>1, <1>2 DEF EventOK, InHand
<1>4. HandlersOK'
  BY <1>1, <1>2, <1>3, OneEventKeeps DEF HandlersOK
<1> QED
  BY <1>1, <1>2, <1>4 DEF eventVars

(* A call that returns, after some steps or at once.                       *)
LEMMA ReturnKeeps ==
  ASSUME HandlersOK, NEW j \in Job, NEW nil \in BOOLEAN,
         Return(j, nil) \/ Answer(j, nil), AnyFault
  PROVE  /\ HandlersOK' /\ OnlyEvent(j)
         /\ at'[j] = "idle" /\ fate[j] = "open" /\ ~ok[j] /\ tries[j] < MaxAttempts
         /\ fate'[j] = "open" /\ ok'[j] = nil /\ tries'[j] = tries[j] + 1
<1>1. /\ fate[j] = "open" /\ ~ok[j] /\ tries[j] < MaxAttempts /\ UNCHANGED fate
      /\ tries' = [tries EXCEPT ![j] = tries[j] + 1] /\ ok' = [ok EXCEPT ![j] = nil]
      /\ at' = [at EXCEPT ![j] = "idle"] \/ (at' = at /\ at[j] = "idle")
  BY DEF Return, Answer, Returns, Queue!Attempt, Deliverable
<1>2. tries[j] + 1 \in 0..MaxAttempts
  BY <1>1, HandlerAssumption DEF HandlersOK
<1>3. /\ tries' \in [Job -> 0..MaxAttempts] /\ ok' \in [Job -> BOOLEAN] /\ DOMAIN at' = Job
      /\ tries'[j] = tries[j] + 1 /\ ok'[j] = nil /\ at'[j] = "idle" /\ OnlyEvent(j)
  <2>1. /\ tries' \in [Job -> 0..MaxAttempts] /\ tries'[j] = tries[j] + 1
        /\ \A i \in Job \ {j} : tries'[i] = tries[i]
    BY <1>1, <1>2 DEF HandlersOK
  <2>2. ok' \in [Job -> BOOLEAN] /\ ok'[j] = nil /\ \A i \in Job \ {j} : ok'[i] = ok[i]
    BY <1>1 DEF HandlersOK
  <2>3. DOMAIN at' = Job /\ at'[j] = "idle" /\ \A i \in Job \ {j} : at'[i] = at[i]
    BY <1>1 DEF HandlersOK
  <2> QED
    BY <1>1, <2>1, <2>2, <2>3 DEF OnlyEvent
<1>4. EventOK(j)'
  BY <1>1, <1>3 DEF EventOK, InHand
<1>5. HandlersOK'
  BY <1>1, <1>3, <1>4, OneEventKeeps DEF HandlersOK
<1> QED
  BY <1>1, <1>3, <1>5

(* What happens to an event whatever its handler does.                     *)
LEMMA LostKeeps ==
  ASSUME HandlersOK, NEW j \in Job, Crash(j) \/ LoseEvent(j)
  PROVE  /\ HandlersOK' /\ OnlyEvent(j) /\ AnyFault /\ faults' > 0
         /\ at'[j] = "lost" /\ fate'[j] = fate[j] /\ ok'[j] = ok[j] /\ tries'[j] = tries[j]
         /\ fate[j] = "open" /\ fate' = fate
<1>1. /\ UNCHANGED <<fate, tries, ok>> /\ at' = [at EXCEPT ![j] = "lost"] /\ Fault
      /\ fate[j] = "open"
  BY DEF Crash, LoseEvent, HandlersOK, EventOK, eventVars
<1>2. AnyFault /\ faults' > 0
  BY <1>1, FaultsGrow DEF AnyFault, HandlersOK
<1>3. at'[j] = "lost" /\ OnlyEvent(j) /\ DOMAIN at' = Job
  BY <1>1 DEF HandlersOK, OnlyEvent
<1>4. EventOK(j)'
  BY <1>1, <1>2, <1>3, FaultsAssumption DEF EventOK, InHand, HandlersOK
<1>5. HandlersOK'
  BY <1>1, <1>2, <1>3, <1>4, OneEventKeeps DEF HandlersOK
<1> QED
  BY <1>1, <1>2, <1>3, <1>5

LEMMA SettleKeeps ==
  ASSUME HandlersOK, NEW j \in Job, SettleEvent(j)
  PROVE  /\ HandlersOK' /\ OnlyEvent(j) /\ UNCHANGED <<tries, ok, at, faults>>
         /\ fate[j] = "open" /\ fate'[j] \in {"sent", "dead"} /\ at[j] = "idle"
         /\ ok[j] \/ tries[j] = MaxAttempts
<1>1. /\ UNCHANGED <<tries, ok, at, faults>> /\ fate[j] = "open" /\ at[j] = "idle"
      /\ \/ fate' = [fate EXCEPT ![j] = "sent"] /\ ok[j]
         \/ fate' = [fate EXCEPT ![j] = "dead"] /\ ~ok[j] /\ tries[j] = MaxAttempts
  BY DEF SettleEvent, Queue!SettleSent, Queue!SettleDead
<1>2. /\ fate' \in [Job -> Queue!Fate] /\ OnlyEvent(j)
      /\ (fate'[j] = "sent" /\ ok[j]) \/ (fate'[j] = "dead" /\ ~ok[j] /\ tries[j] = MaxAttempts)
  BY <1>1 DEF HandlersOK, OnlyEvent, Queue!Fate
<1>3. EventOK(j)'
  <2>1. EventOK(j)
    BY DEF HandlersOK
  <2> QED
    BY <1>1, <1>2, <2>1 DEF EventOK, InHand
<1>4. AnyFault
  BY <1>1 DEF AnyFault, Unfailing
<1>5. HandlersOK'
  BY <1>1, <1>2, <1>3, <1>4, OneEventKeeps DEF HandlersOK
<1> QED
  BY <1>1, <1>2, <1>5

(* A handler that puts another event in the queue as it goes on.           *)
LEMMA PublishKeeps ==
  ASSUME HandlersOK, NEW j \in Job, NEW x \in Job, NEW s, s \notin {"idle", "lost"},
         InHand(j), at' = [at EXCEPT ![j] = s], Queue!Publish(x), AnyFault
  PROVE  /\ HandlersOK' /\ j # x
         /\ \A i \in Job \ {j, x} : /\ fate'[i] = fate[i] /\ tries'[i] = tries[i]
                                    /\ ok'[i] = ok[i] /\ at'[i] = at[i]
         /\ UNCHANGED <<tries, ok>>
         /\ at'[j] = s /\ fate'[j] = fate[j] /\ fate[j] = "open" /\ ~ok[j] /\ tries[j] < MaxAttempts
         /\ fate[x] = "absent" /\ fate'[x] = "open" /\ ~ok[x] /\ tries[x] = 0 /\ at'[x] = "idle"
         /\ Deliverable(x)'
<1>1. /\ fate[x] = "absent" /\ fate' = [fate EXCEPT ![x] = "open"] /\ UNCHANGED <<tries, ok>>
  BY DEF Queue!Publish
<1>2. EventOK(j) /\ EventOK(x) /\ FaultsTypeOK
  BY DEF HandlersOK
<1>3. j # x
  BY <1>1, <1>2 DEF EventOK
<1>4. /\ fate' \in [Job -> Queue!Fate] /\ DOMAIN at' = Job
      /\ \A i \in Job \ {j, x} : /\ fate'[i] = fate[i] /\ tries'[i] = tries[i]
                                 /\ ok'[i] = ok[i] /\ at'[i] = at[i]
      /\ at'[j] = s /\ fate'[j] = fate[j] /\ fate'[x] = "open" /\ at'[x] = at[x]
  BY <1>1, <1>3 DEF HandlersOK, Queue!Fate
<1>5. ~ok[x] /\ tries[x] = 0 /\ at[x] = "idle" /\ fate[j] = "open" /\ ~ok[j] /\ tries[j] < MaxAttempts
  BY <1>1, <1>2 DEF EventOK
<1>6. EventOK(j)' /\ EventOK(x)' /\ Deliverable(x)'
  BY <1>1, <1>4, <1>5, HandlerAssumption DEF EventOK, InHand, Deliverable
<1>7. ASSUME NEW i \in Job \ {j, x} PROVE EventOK(i)'
  <2>1. faults' = 0 => faults = 0
    BY <1>2, FaultsGrow
  <2> QED
    BY <1>4, <2>1 DEF HandlersOK, EventOK, InHand
<1>8. HandlersOK'
  BY <1>1, <1>2, <1>4, <1>6, <1>7, FaultsGrow DEF HandlersOK
<1> QED
  BY <1>1, <1>3, <1>4, <1>5, <1>6, <1>8
==============================================================================
