--------------------------- MODULE PipelineProofs ---------------------------
(***************************************************************************)
(* Proofs about PipelineRun, for any number of versions, runs, schedules,  *)
(* requesters, schedulers, workers, attempts, faults and expiries, and     *)
(* about PipelineGraph, for any graphs and any number of failures.         *)
(***************************************************************************)
EXTENDS MCPipeline, FiniteSetTheorems, WellFoundedInduction, TLAPS

(* What the outbox knows of a run's event, against the run's row.          *)
RunOK(r) ==
    /\ run[r].status = "absent" <=> fate[r] = "absent"
    /\ fate[r] = "absent" => ~ok[r] /\ tries[r] = 0 /\ r \notin lost
    /\ fate[r] # "gone"
    /\ ok[r] => run[r].status \in Terminal
    /\ fate[r] = "sent" => ok[r]
    /\ fate[r] = "dead" => ~ok[r] /\ tries[r] = MaxAttempts

(* Without faults, an attempt that leaves a run unfinished has expired.    *)
UnlostOK(r) ==
    faults = 0 =>
        /\ run[r].status \in Active => tries[r] <= expiries
        /\ run[r].status = "completed" => ok[r]
        /\ r \notin lost

(* A handler's run is processing, and its event open.                      *)
HandledOK(r) ==
    /\ r \in Run /\ run[r].status = "processing"
    /\ fate[r] = "open" /\ ~ok[r] /\ tries[r] < MaxAttempts /\ r \notin lost

CallOK(w) ==
    /\ wrk[w].pc = "idle" <=> wrk[w].r = NoRun
    /\ wrk[w].pc # "idle" => HandledOK(wrk[w].r)
    /\ wrk[w].out = "completed" => wrk[w].pc = "finish"

OneHandler == \A v, w \in Worker : wrk[v].r = wrk[w].r /\ wrk[w].r # NoRun => v = w

(* The table of a run that has completed, or is about to be marked so.     *)
TableOK ==
    (\E r \in Run : run[r].status = "completed") \/ (\E w \in Worker : wrk[w].out = "completed") =>
        table # NoRun \/ gap \/ \E w \in Worker : wrk[w].pc = "rename"

(* A schedule is in one transaction at a time, which has locked it while   *)
(* it is on, and that transaction makes a run only if there is none.       *)
ScheduleOK(s) ==
    /\ sched[s].state # "absent" => sched[s].version \in Version
    /\ \A j, k \in Scheduler : job[j][s] # "none" /\ job[k][s] # "none" => j = k
    /\ \A j \in Scheduler : job[j][s] # "none" => sched[s].state = "saved" /\ sched[s].enabled
    /\ \A q, r \in Run : /\ run[q].schedule = s /\ run[q].status \in Active
                         /\ run[r].schedule = s /\ run[r].status \in Active
                         => q = r
    /\ \A j \in Scheduler : job[j][s] = "create" => ~HasActiveRun(s)

RunInv ==
    /\ TypeOK
    /\ \A r \in Run : RunOK(r) /\ UnlostOK(r)
    /\ \A w \in Worker : CallOK(w)
    /\ OneHandler /\ TableOK
    /\ \A s \in Schedule : ScheduleOK(s)

-----------------------------------------------------------------------------
LEMMA RunInvInit == Init => RunInv
<1> SUFFICES ASSUME Init PROVE RunInv
  OBVIOUS
<1> USE RunAssumption, VersionAssumption DEF Init, Queue!Init
<1>1. TypeOK
  <2>1. VersionTypeOK
    BY DEF VersionInit, VersionTypeOK, VersionStatus
  <2>2. run \in [Run -> RunRow] /\ sched \in [Schedule -> ScheduleRow]
    BY DEF RunRow, ScheduleRow, RunStatus
  <2>3. wrk \in [Worker -> HandlerCall] /\ job \in [Scheduler -> [Schedule -> Verdict]]
    BY DEF HandlerCall, NoCall, Terminal, NoTx, Verdict
  <2>4. /\ \A s \in Schedule : sched[s].state = "saved" => sched[s].version \in Version
        /\ fate \in [Run -> Queue!Fate] /\ tries \in [Run -> 0..MaxAttempts]
        /\ faults \in 0..MaxFaults /\ expiries \in 0..MaxExpiries
    BY DEF Queue!Fate
  <2> QED
    BY <2>1, <2>2, <2>3, <2>4 DEF TypeOK
<1>2. ASSUME NEW r \in Run PROVE RunOK(r) /\ UnlostOK(r)
  BY DEF RunOK, UnlostOK, Active
<1>3. (\A w \in Worker : CallOK(w)) /\ OneHandler /\ TableOK
  BY DEF CallOK, NoCall, OneHandler, TableOK
<1>4. ASSUME NEW s \in Schedule PROVE ScheduleOK(s)
  BY DEF ScheduleOK, NoTx, HasActiveRun, Active
<1> QED
  BY <1>1, <1>2, <1>3, <1>4 DEF RunInv

-----------------------------------------------------------------------------
(* Steps that leave the runs and their handlers alone.                     *)

LEMMA RunsRest ==
  ASSUME RunInv, UNCHANGED <<run, fate, tries, ok, execVars>>
  PROVE  /\ \A r \in Run : RunOK(r)' /\ UnlostOK(r)'
         /\ \A w \in Worker : CallOK(w)'
         /\ OneHandler' /\ TableOK'
<1>1. UNCHANGED <<run, fate, tries, ok, lost, wrk, table, gap, faults, expiries>>
  BY DEF execVars
<1> QED
  BY <1>1 DEF RunInv, RunOK, UnlostOK, CallOK, HandledOK, OneHandler, TableOK

(* Types of what changed, in a step of versions and requests.              *)
LEMMA RequestStepInv ==
  ASSUME RunInv,
         \/ VersionNext /\ UNCHANGED runVars
         \/ \E u \in Requester, v \in Version : CheckRequest(u, v)
  PROVE  RunInv'
<1>1. UNCHANGED <<run, sched, job, fate, tries, ok, lost, wrk, table, gap, faults, expiries>>
  BY DEF runVars, CheckRequest, queueVars, execVars
<1>2. TypeOK'
  <2>1. VersionTypeOK'
    BY DEF RunInv, TypeOK, VersionTypeOK, VersionStatus, VersionNext, SaveDraft, Publish, CheckRequest, versionVars
  <2>2. ask' \in [Requester -> Version \cup {NoVersion}]
    BY DEF RunInv, TypeOK, CheckRequest, runVars
  <2> QED
    BY <1>1, <2>1, <2>2 DEF RunInv, TypeOK
<1>3. \A s \in Schedule : ScheduleOK(s)'
  BY <1>1 DEF RunInv, ScheduleOK, HasActiveRun
<1>4. UNCHANGED execVars
  BY <1>1 DEF execVars
<1> QED
  BY <1>1, <1>2, <1>3, <1>4, RunsRest DEF RunInv

(* An owner changes a schedule only while no transaction has locked it.    *)
LEMMA ScheduleStepInv ==
  ASSUME RunInv, NEW s \in Schedule, ScheduleStep(s) PROVE RunInv'
<1>a. /\ sched \in [Schedule -> ScheduleRow] /\ current \in Version \cup {NoVersion}
      /\ sched[s].state # "absent" => sched[s].version \in Version
  BY DEF RunInv, TypeOK, VersionTypeOK, ScheduleOK
<1>1. UNCHANGED <<vstatus, current, run, ask, job, fate, tries, ok, lost, wrk, table, gap, faults, expiries>>
  BY DEF ScheduleStep, ReadForSchedule, InsertSchedule, UpdateSchedule, DisableSchedule, ComesDue,
    versionVars, queueVars, execVars
<1>2. /\ \A x \in Schedule \ {s} : sched'[x] = sched[x]
      /\ sched' \in [Schedule -> ScheduleRow]
      /\ sched'[s].state # "absent" => sched'[s].version \in Version
      /\ \/ s \notin LockedSchedules
         \/ sched[s].state # "saved"
         \/ sched'[s].enabled = sched[s].enabled /\ sched'[s].state = sched[s].state
  <2>1. CASE ReadForSchedule(s)
    <3> DEFINE new == [sched[s] EXCEPT !.state = "asked", !.version = current]
    <3>1. sched[s].state = "absent" /\ current \in Version
      BY <1>a, <2>1 DEF ReadForSchedule
    <3>2. new \in ScheduleRow /\ new.version = current
      BY <1>a, <3>1 DEF ScheduleRow
    <3>3. sched' = [sched EXCEPT ![s] = new]
      BY <1>a, <2>1 DEF ReadForSchedule, ScheduleRow
    <3> HIDE DEF new
    <3> QED
      BY <1>a, <3>1, <3>2, <3>3
  <2>2. CASE InsertSchedule(s)
    <3>1. PICK en \in BOOLEAN : sched' = [sched EXCEPT ![s].state = "saved", ![s].enabled = en]
      BY <2>2 DEF InsertSchedule
    <3> DEFINE new == [sched[s] EXCEPT !.state = "saved", !.enabled = en]
    <3>2. new \in ScheduleRow /\ new.version = sched[s].version
      BY <1>a DEF ScheduleRow
    <3>3. sched' = [sched EXCEPT ![s] = new]
      BY <1>a, <3>1 DEF ScheduleRow
    <3>4. sched[s].state = "asked"
      BY <2>2 DEF InsertSchedule
    <3>5. new.version \in Version /\ sched[s].state # "saved"
      BY <1>a, <3>2, <3>4
    <3> HIDE DEF new
    <3> QED
      BY <1>a, <3>2, <3>3, <3>5
  <2>3. CASE UpdateSchedule(s) \/ DisableSchedule(s)
    <3>1. PICK en, due \in BOOLEAN :
              \/ sched' = [sched EXCEPT ![s].enabled = en, ![s].due = due] /\ ~due
              \/ sched' = [sched EXCEPT ![s].enabled = en] /\ due = sched[s].due
      BY <1>a, <2>3 DEF UpdateSchedule, DisableSchedule, ScheduleRow
    <3> DEFINE new == [sched[s] EXCEPT !.enabled = en, !.due = due]
    <3>2. new \in ScheduleRow /\ new.version = sched[s].version /\ new.state = sched[s].state
      BY <1>a DEF ScheduleRow
    <3>3. sched' = [sched EXCEPT ![s] = new]
      BY <1>a, <3>1 DEF ScheduleRow
    <3>4. s \notin LockedSchedules
      BY <2>3 DEF UpdateSchedule, DisableSchedule
    <3> HIDE DEF new
    <3> QED
      BY <1>a, <3>2, <3>3, <3>4
  <2>4. CASE ComesDue(s)
    BY <1>a, <2>4 DEF ComesDue, ScheduleRow
  <2> QED
    BY <2>1, <2>2, <2>3, <2>4 DEF ScheduleStep
<1>3. ASSUME NEW x \in Schedule PROVE ScheduleOK(x)'
  <2>1. ScheduleOK(x)
    BY DEF RunInv
  <2>2. CASE x # s
    BY <1>1, <1>2, <2>1, <2>2 DEF ScheduleOK, HasActiveRun
  <2>3. CASE x = s
    <3>1. \A j \in Scheduler : job[j][s] # "none" => sched'[s].state = "saved" /\ sched'[s].enabled
      BY <1>2, <2>1, <2>3 DEF ScheduleOK, LockedSchedules
    <3> QED
      BY <1>1, <1>2, <2>1, <2>3, <3>1 DEF ScheduleOK, HasActiveRun
  <2> QED
    BY <2>2, <2>3
<1>4. TypeOK'
  <2>1. \A x \in Schedule : sched'[x].state = "saved" => sched'[x].version \in Version
    BY <1>3 DEF ScheduleOK
  <2> QED
    BY <1>1, <1>2, <2>1 DEF RunInv, TypeOK, VersionTypeOK
<1>5. UNCHANGED execVars
  BY <1>1 DEF execVars
<1> QED
  BY <1>1, <1>3, <1>4, <1>5, RunsRest DEF RunInv

-----------------------------------------------------------------------------
(* The schedulers.                                                         *)

(* A transaction claims, decides, and is rolled back, without a change to  *)
(* the rows.                                                               *)
LEMMA TransactionInv ==
  ASSUME RunInv, NEW j \in Scheduler,
         \/ ClaimSchedules(j) \/ RollbackSchedules(j)
         \/ \E s \in Schedule : DecideSchedule(j, s)
  PROVE  RunInv'
<1>a. job \in [Scheduler -> [Schedule -> Verdict]]
  BY DEF RunInv, TypeOK
<1>1. UNCHANGED <<vstatus, current, run, ask, sched, fate, tries, ok, lost, wrk, table, gap, faults, expiries>>
  BY DEF ClaimSchedules, RollbackSchedules, DecideSchedule, versionVars, queueVars, execVars
<1>2. /\ \A k \in Scheduler \ {j} : job'[k] = job[k]
      /\ job' \in [Scheduler -> [Schedule -> Verdict]]
      /\ \A s \in Schedule : \/ job'[j][s] = "none"
                             \/ job[j][s] # "none" /\ (job'[j][s] = "create" => job[j][s] = "create" \/ ~HasActiveRun(s))
                             \/ /\ s \notin LockedSchedules /\ sched[s].state = "saved" /\ sched[s].enabled
                                /\ job'[j][s] = "todo"
  <2>1. CASE ClaimSchedules(j)
    <3> DEFINE claimed == {s \in Schedule \ LockedSchedules :
                               sched[s].state = "saved" /\ sched[s].enabled /\ sched[s].due}
    <3>1. job' = [job EXCEPT ![j] = [s \in Schedule |-> IF s \in claimed THEN "todo" ELSE "none"]]
      BY <2>1 DEF ClaimSchedules
    <3> QED
      BY <1>a, <3>1 DEF Verdict
  <2>2. CASE RollbackSchedules(j)
    BY <1>a, <2>2 DEF RollbackSchedules, NoTx, Verdict
  <2>3. ASSUME NEW s \in Schedule, DecideSchedule(j, s)
        PROVE  /\ \A k \in Scheduler \ {j} : job'[k] = job[k]
               /\ job' \in [Scheduler -> [Schedule -> Verdict]]
               /\ \A x \in Schedule : \/ job'[j][x] = "none"
                                      \/ job[j][x] # "none" /\ (job'[j][x] = "create" => job[j][x] = "create" \/ ~HasActiveRun(x))
    BY <1>a, <2>3 DEF DecideSchedule, Verdict
  <2> QED
    BY <2>1, <2>2, <2>3
<1>3. ASSUME NEW s \in Schedule PROVE ScheduleOK(s)'
  <2>1. ScheduleOK(s)
    BY DEF RunInv
  <2>2. \A k \in Scheduler : job'[k][s] # "none" =>
            job[k][s] # "none" \/ (k = j /\ s \notin LockedSchedules /\ sched[s].state = "saved" /\ sched[s].enabled)
    BY <1>2
  <2>3. s \notin LockedSchedules => \A k \in Scheduler : job[k][s] = "none"
    BY DEF LockedSchedules
  <2>4. \A k \in Scheduler : job'[k][s] = "create" => ~HasActiveRun(s)
    BY <1>2, <2>1 DEF ScheduleOK
  <2>5. HasActiveRun(s)' <=> HasActiveRun(s)
    BY <1>1 DEF HasActiveRun
  <2>6. \A k, l \in Scheduler : job'[k][s] # "none" /\ job'[l][s] # "none" => k = l
    BY <2>1, <2>2, <2>3 DEF ScheduleOK
  <2>7. \A k \in Scheduler : job'[k][s] # "none" => sched'[s].state = "saved" /\ sched'[s].enabled
    BY <1>1, <2>1, <2>2 DEF ScheduleOK
  <2> QED
    BY <1>1, <2>1, <2>4, <2>5, <2>6, <2>7 DEF ScheduleOK
<1>4. TypeOK'
  BY <1>1, <1>2 DEF RunInv, TypeOK, VersionTypeOK
<1>5. UNCHANGED execVars
  BY <1>1 DEF execVars
<1> QED
  BY <1>1, <1>3, <1>4, <1>5, RunsRest DEF RunInv

(* A commit makes one run for each schedule it has decided so.             *)
LEMMA CommitCreates ==
  ASSUME NEW j \in Scheduler, CommitSchedules(j)
  PROVE  \E rs \in SUBSET NewRuns : \E f \in [rs -> Decided(j, "create")] :
            /\ \A q, r \in rs : f[q] = f[r] => q = r
            /\ CreateRuns(f, [r \in rs |-> sched[f[r]].version])
<1>1. PICK new \in Injection(Decided(j, "create"), NewRuns) :
          LET s(r) == CHOOSE x \in DOMAIN new : new[x] = r
              rs   == {new[x] : x \in DOMAIN new}
          IN  CreateRuns([r \in rs |-> s(r)], [r \in rs |-> sched[s(r)].version])
  BY DEF CommitSchedules
<1>2. new \in [Decided(j, "create") -> NewRuns]
  BY <1>1 DEF Injection, IsInjective
<1> DEFINE s(r) == CHOOSE x \in DOMAIN new : new[x] = r
           rs   == {new[x] : x \in DOMAIN new}
           f    == [r \in rs |-> s(r)]
<1>3. rs \in SUBSET NewRuns
  BY <1>2
<1>4. ASSUME NEW r \in rs PROVE s(r) \in Decided(j, "create") /\ new[s(r)] = r
  BY <1>2
<1>5. f \in [rs -> Decided(j, "create")] /\ \A r \in rs : f[r] = s(r)
  BY <1>4
<1>6. \A q, r \in rs : f[q] = f[r] => q = r
  BY <1>4, <1>5
<1>7. [r \in rs |-> sched[s(r)].version] = [r \in rs |-> sched[f[r]].version]
  BY <1>5
<1>8. CreateRuns(f, [r \in rs |-> sched[f[r]].version])
  BY <1>1, <1>7
<1> HIDE DEF f, rs
<1> QED
  BY <1>3, <1>5, <1>6, <1>8

(* New runs, with their events, are as a run should be; the others keep    *)
(* what they had.                                                          *)
LEMMA CreateEffect ==
  ASSUME RunInv, NEW rs \in SUBSET NewRuns, NEW f \in [rs -> Schedule \cup {NoSchedule}],
         NEW v \in [rs -> Version], CreateRuns(f, v), UNCHANGED execVars
  PROVE  /\ run' \in [Run -> RunRow] /\ fate' \in [Run -> Queue!Fate] /\ UNCHANGED <<tries, ok>>
         /\ \A r \in rs : run'[r].status = "pending" /\ run'[r].schedule = f[r]
         /\ \A r \in Run \ rs : run'[r] = run[r]
         /\ \A r \in Run : RunOK(r)' /\ UnlostOK(r)'
         /\ \A w \in Worker : CallOK(w)'
         /\ OneHandler' /\ TableOK'
<1>a. /\ run \in [Run -> RunRow] /\ fate \in [Run -> Queue!Fate] /\ rs \subseteq Run /\ DOMAIN f = rs
      /\ \A r \in rs : run[r].status = "absent"
      /\ tries \in [Run -> 0..MaxAttempts] /\ expiries \in Nat
  BY DEF RunInv, TypeOK, NewRuns
<1>1. UNCHANGED <<lost, wrk, table, gap, faults, expiries, tries, ok>>
  BY DEF execVars, CreateRuns
<1>2. run' = [r \in Run |-> IF r \in rs THEN [status |-> "pending", version |-> v[r], schedule |-> f[r]]
                            ELSE run[r]]
  BY <1>a DEF CreateRuns
<1>3. fate' = [r \in Run |-> IF r \in rs THEN "open" ELSE fate[r]]
  BY <1>a DEF CreateRuns
<1>4. /\ \A r \in rs : run'[r].status = "pending" /\ run'[r].schedule = f[r] /\ run'[r] \in RunRow
      /\ \A r \in Run \ rs : run'[r] = run[r] /\ fate'[r] = fate[r]
      /\ \A r \in rs : fate'[r] = "open" /\ fate[r] = "absent"
  BY <1>a, <1>2, <1>3 DEF RunRow, RunStatus, RunInv, RunOK
<1>5. run' \in [Run -> RunRow] /\ fate' \in [Run -> Queue!Fate]
  BY <1>a, <1>2, <1>3, <1>4 DEF Queue!Fate
<1>6. ASSUME NEW r \in Run PROVE RunOK(r)' /\ UnlostOK(r)'
  <2>1. RunOK(r) /\ UnlostOK(r)
    BY DEF RunInv
  <2>2. CASE r \notin rs
    BY <1>1, <1>4, <2>1, <2>2 DEF RunOK, UnlostOK
  <2>3. CASE r \in rs
    <3>1. tries[r] = 0 /\ ~ok[r] /\ r \notin lost
      BY <1>4, <2>1, <2>3 DEF RunOK
    <3> QED
      BY <1>a, <1>1, <1>4, <2>3, <3>1 DEF RunOK, UnlostOK, Active
  <2> QED
    BY <2>2, <2>3
<1>7. ASSUME NEW w \in Worker PROVE CallOK(w)'
  <2>1. CallOK(w)
    BY DEF RunInv
  <2>2. wrk[w].pc # "idle" => wrk[w].r \notin rs
    BY <1>a, <2>1 DEF CallOK, HandledOK
  <2> QED
    BY <1>1, <1>4, <2>1, <2>2 DEF CallOK, HandledOK
<1>8. OneHandler'
  BY <1>1 DEF RunInv, OneHandler
<1>9. TableOK'
  <2>1. \A r \in Run : run'[r].status = "completed" => run[r].status = "completed"
    BY <1>4
  <2> QED
    BY <1>1, <2>1 DEF RunInv, TableOK
<1> QED
  BY <1>1, <1>4, <1>5, <1>6, <1>7, <1>8, <1>9

LEMMA CommitInv ==
  ASSUME RunInv, NEW j \in Scheduler, CommitSchedules(j) PROVE RunInv'
<1>a. /\ job \in [Scheduler -> [Schedule -> Verdict]] /\ run \in [Run -> RunRow]
      /\ sched \in [Schedule -> ScheduleRow]
  BY DEF RunInv, TypeOK
<1>1. PICK rs \in SUBSET NewRuns : \E f \in [rs -> Decided(j, "create")] :
            /\ \A q, r \in rs : f[q] = f[r] => q = r
            /\ CreateRuns(f, [r \in rs |-> sched[f[r]].version])
  BY CommitCreates
<1>2. PICK f \in [rs -> Decided(j, "create")] :
            /\ \A q, r \in rs : f[q] = f[r] => q = r
            /\ CreateRuns(f, [r \in rs |-> sched[f[r]].version])
  BY <1>1
<1>3. \A s \in Decided(j, "create") : s \in Schedule /\ job[j][s] = "create"
  BY DEF Decided
<1>4. f \in [rs -> Schedule \cup {NoSchedule}]
  BY <1>3
<1>5. [r \in rs |-> sched[f[r]].version] \in [rs -> Version]
  BY <1>3 DEF RunInv, ScheduleOK
<1>6. /\ run' \in [Run -> RunRow] /\ fate' \in [Run -> Queue!Fate] /\ UNCHANGED <<tries, ok>>
      /\ \A r \in rs : run'[r].status = "pending" /\ run'[r].schedule = f[r]
      /\ \A r \in Run \ rs : run'[r] = run[r]
      /\ \A r \in Run : RunOK(r)' /\ UnlostOK(r)'
      /\ \A w \in Worker : CallOK(w)'
      /\ OneHandler' /\ TableOK'
  <2>1. UNCHANGED execVars
    BY DEF CommitSchedules
  <2> QED
    BY <1>2, <1>4, <1>5, <2>1, CreateEffect
<1>7. /\ sched' = [s \in Schedule |->
                    IF job[j][s] = "none" THEN sched[s]
                    ELSE [sched[s] EXCEPT !.due = job[j][s] = "mistimed",
                                          !.enabled = sched[s].enabled /\ job[j][s] \in {"skip", "create"}]]
      /\ job' = [job EXCEPT ![j] = NoTx]
  BY DEF CommitSchedules
<1>8. /\ \A s \in Schedule : job'[j][s] = "none"
      /\ \A k \in Scheduler \ {j} : job'[k] = job[k]
      /\ job' \in [Scheduler -> [Schedule -> Verdict]]
  BY <1>a, <1>7 DEF NoTx, Verdict
<1>9. ASSUME NEW s \in Schedule
      PROVE  /\ sched'[s] \in ScheduleRow /\ sched'[s].state = sched[s].state
             /\ sched'[s].version = sched[s].version
             /\ job[j][s] = "none" => sched'[s] = sched[s]
  <2>1. CASE job[j][s] = "none"
    BY <1>a, <1>7, <2>1
  <2>2. CASE job[j][s] # "none"
    <3> DEFINE on  == sched[s].enabled /\ job[j][s] \in {"skip", "create"}
               due == job[j][s] = "mistimed"
    <3>1. on \in BOOLEAN /\ due \in BOOLEAN
      BY Zenon
    <3>2. sched'[s] = [sched[s] EXCEPT !.due = due, !.enabled = on]
      BY <1>7, <2>2
    <3> HIDE DEF on, due
    <3> QED
      BY <1>a, <2>2, <3>1, <3>2 DEF ScheduleRow
  <2> QED
    BY <2>1, <2>2
<1>10. sched' \in [Schedule -> ScheduleRow]
  BY <1>7, <1>9
<1>11. ASSUME NEW s \in Schedule PROVE ScheduleOK(s)'
  <2>1. ScheduleOK(s)
    BY DEF RunInv
  <2>2. /\ \A k, l \in Scheduler : job'[k][s] # "none" /\ job'[l][s] # "none" => k = l
        /\ \A k \in Scheduler : job'[k][s] # "none" => sched'[s].state = "saved" /\ sched'[s].enabled
    <3>1. \A k \in Scheduler : job'[k][s] # "none" => k # j /\ job[k][s] # "none" /\ job[j][s] = "none"
      BY <1>8, <2>1 DEF ScheduleOK
    <3> QED
      BY <1>9, <2>1, <3>1 DEF ScheduleOK
  <2>3. \A r \in rs : f[r] = s => job[j][s] = "create" /\ ~HasActiveRun(s)
    BY <1>3, <2>1 DEF ScheduleOK
  <2>4. \A q, r \in Run : /\ run'[q].schedule = s /\ run'[q].status \in Active
                          /\ run'[r].schedule = s /\ run'[r].status \in Active
                          => q = r
    <3> SUFFICES ASSUME NEW q \in Run, NEW r \in Run,
                        run'[q].schedule = s, run'[q].status \in Active,
                        run'[r].schedule = s, run'[r].status \in Active
                 PROVE  q = r
      OBVIOUS
    <3>1. CASE q \in rs /\ r \in rs
      BY <1>2, <1>6, <3>1
    <3>2. CASE q \notin rs /\ r \notin rs
      BY <1>6, <2>1, <3>2 DEF ScheduleOK
    <3>3. CASE q \in rs /\ r \notin rs
      BY <1>6, <2>3, <3>3 DEF HasActiveRun
    <3>4. CASE q \notin rs /\ r \in rs
      BY <1>6, <2>3, <3>4 DEF HasActiveRun
    <3> QED
      BY <3>1, <3>2, <3>3, <3>4
  <2>5. ASSUME NEW k \in Scheduler, job'[k][s] = "create" PROVE ~HasActiveRun(s)'
    <3>1. k # j /\ job[k][s] = "create" /\ job[j][s] = "none" /\ ~HasActiveRun(s)
      BY <1>8, <2>1, <2>5 DEF ScheduleOK
    <3>2. \A r \in rs : f[r] # s
      BY <1>3, <3>1
    <3> QED
      BY <1>6, <3>1, <3>2 DEF HasActiveRun
  <2> QED
    BY <1>9, <2>1, <2>2, <2>4, <2>5 DEF ScheduleOK
<1>12. TypeOK'
  <2>1. UNCHANGED <<vstatus, current, ask, lost, wrk, table, gap, faults, expiries>>
    BY DEF CommitSchedules, versionVars, execVars
  <2>2. \A s \in Schedule : sched'[s].state = "saved" => sched'[s].version \in Version
    BY <1>9 DEF RunInv, TypeOK
  <2> QED
    BY <1>6, <1>8, <1>10, <2>1, <2>2 DEF RunInv, TypeOK, VersionTypeOK
<1> QED
  BY <1>6, <1>11, <1>12 DEF RunInv

LEMMA CreateRequestedInv ==
  ASSUME RunInv, NEW u \in Requester, CreateRequested(u) PROVE RunInv'
<1>a. ask \in [Requester -> Version \cup {NoVersion}] /\ ask[u] \in Version
  BY DEF RunInv, TypeOK, CreateRequested
<1>1. PICK r \in NewRuns : CreateRuns([x \in {r} |-> NoSchedule], [x \in {r} |-> ask[u]])
  BY DEF CreateRequested
<1> DEFINE rs == {r}
           f  == [x \in rs |-> NoSchedule]
           v  == [x \in rs |-> ask[u]]
<1>2. /\ run' \in [Run -> RunRow] /\ fate' \in [Run -> Queue!Fate] /\ UNCHANGED <<tries, ok>>
      /\ \A x \in rs : run'[x].status = "pending" /\ run'[x].schedule = f[x]
      /\ \A x \in Run \ rs : run'[x] = run[x]
      /\ \A x \in Run : RunOK(x)' /\ UnlostOK(x)'
      /\ \A w \in Worker : CallOK(w)'
      /\ OneHandler' /\ TableOK'
  <2>1. rs \in SUBSET NewRuns /\ f \in [rs -> Schedule \cup {NoSchedule}] /\ v \in [rs -> Version]
    BY <1>a, <1>1
  <2>2. CreateRuns(f, v) /\ UNCHANGED execVars
    BY <1>1 DEF CreateRequested
  <2> HIDE DEF rs, f, v
  <2> QED
    BY <2>1, <2>2, CreateEffect
<1>3. run'[r].schedule = NoSchedule /\ \A x \in Run \ {r} : run'[x] = run[x]
  BY <1>2
<1>4. UNCHANGED <<vstatus, current, sched, job, lost, wrk, table, gap, faults, expiries>>
  BY DEF CreateRequested, versionVars, execVars
<1>5. ASSUME NEW s \in Schedule PROVE ScheduleOK(s)'
  <2>1. ScheduleOK(s) /\ s # NoSchedule
    BY RunAssumption DEF RunInv
  <2>2. \A x \in Run : run'[x].schedule = s => x # r /\ run'[x] = run[x]
    BY <1>3, <2>1
  <2>3. HasActiveRun(s)' => HasActiveRun(s)
    BY <2>2 DEF HasActiveRun
  <2> QED
    BY <1>4, <2>1, <2>2, <2>3 DEF ScheduleOK
<1>6. ask' \in [Requester -> Version \cup {NoVersion}]
  BY <1>a DEF CreateRequested
<1> QED
  BY <1>2, <1>4, <1>5, <1>6 DEF RunInv, TypeOK, VersionTypeOK

-----------------------------------------------------------------------------
(* The handlers.                                                           *)

(* A step that moves one run, and the handler that has it, if any.         *)
LEMMA OneRunMoves ==
  ASSUME RunInv, NEW q \in Run, UNCHANGED <<sched, job>>,
         \A r \in Run \ {q} : /\ run'[r] = run[r] /\ fate'[r] = fate[r] /\ tries'[r] = tries[r]
                              /\ ok'[r] = ok[r] /\ (r \in lost' <=> r \in lost),
         run'[q].schedule = run[q].schedule,
         run'[q].status \in Active => run[q].status \in Active,
         RunOK(q)', UnlostOK(q)',
         \A v \in Worker : (wrk'[v] = wrk[v] /\ wrk[v].r # q) \/ CallOK(v)',
         faults' \in Nat, expiries' \in Nat, faults' >= faults, expiries' >= expiries
  PROVE  /\ \A r \in Run : RunOK(r)' /\ UnlostOK(r)'
         /\ \A v \in Worker : CallOK(v)'
         /\ \A s \in Schedule : ScheduleOK(s)'
<1>a. faults \in Nat /\ expiries \in Nat /\ \A r \in Run : tries[r] \in Nat
  BY RunAssumption DEF RunInv, TypeOK
<1>b. faults' = 0 => faults = 0
  BY <1>a
<1>1. ASSUME NEW r \in Run \ {q} PROVE RunOK(r)' /\ UnlostOK(r)'
  <2>1. RunOK(r) /\ UnlostOK(r)
    BY DEF RunInv
  <2>2. RunOK(r)'
    BY <1>1, <2>1 DEF RunOK
  <2>3. UnlostOK(r)'
    BY <1>a, <1>b, <1>1, <2>1 DEF UnlostOK
  <2> QED
    BY <2>2, <2>3
<1>2. ASSUME NEW v \in Worker, wrk'[v] = wrk[v], wrk[v].r # q PROVE CallOK(v)'
  BY <1>2 DEF RunInv, CallOK, HandledOK
<1>3. ASSUME NEW s \in Schedule PROVE ScheduleOK(s)'
  <2>1. ScheduleOK(s)
    BY DEF RunInv
  <2>2. \A r \in Run : /\ run'[r].schedule = run[r].schedule
                       /\ run'[r].status \in Active => run[r].status \in Active
    OBVIOUS
  <2>3. HasActiveRun(s)' => HasActiveRun(s)
    BY <2>2 DEF HasActiveRun
  <2> QED
    BY <2>1, <2>2, <2>3 DEF ScheduleOK
<1> QED
  BY <1>1, <1>2, <1>3

(* The handler at a step has a run that is processing, which nobody else   *)
(* has.                                                                    *)
LEMMA HandlerHas ==
  ASSUME RunInv, NEW w \in Worker, wrk[w].pc # "idle"
  PROVE  /\ HandledOK(wrk[w].r) /\ wrk[w].r # NoRun
         /\ \A v \in Worker \ {w} : wrk[v].r # wrk[w].r
         /\ wrk[w].out = "completed" => wrk[w].pc = "finish"
<1>1. CallOK(w) /\ OneHandler
  BY DEF RunInv
<1> QED
  BY <1>1 DEF CallOK, OneHandler

(* A call that returns, a handler's other steps, and an event in nobody's  *)
(* hand, each with the statuses its run may take.                          *)
LEMMA EndEffect ==
  ASSUME RunInv, NEW w \in Worker, wrk[w].pc # "idle", NEW nil \in BOOLEAN, EndCall(w, nil)
  PROVE  /\ fate' = fate /\ tries' = [tries EXCEPT ![wrk[w].r] = @ + 1]
         /\ ok' = [ok EXCEPT ![wrk[w].r] = nil]
         /\ tries' \in [Run -> 0..MaxAttempts] /\ ok' \in [Run -> BOOLEAN]
         /\ wrk' = [wrk EXCEPT ![w] = NoCall] /\ wrk' \in [Worker -> HandlerCall]
<1>1. /\ fate' = fate /\ tries' = [tries EXCEPT ![wrk[w].r] = @ + 1]
      /\ ok' = [ok EXCEPT ![wrk[w].r] = nil] /\ wrk' = [wrk EXCEPT ![w] = NoCall]
  BY DEF EndCall, Returns, Queue!Attempt
<1>2. wrk[w].r \in Run /\ tries[wrk[w].r] < MaxAttempts
  BY HandlerHas DEF HandledOK
<1>3. tries[wrk[w].r] + 1 \in 0..MaxAttempts
  BY <1>2, RunAssumption DEF RunInv, TypeOK
<1>4. NoCall \in HandlerCall
  BY DEF NoCall, HandlerCall, Terminal
<1> QED
  BY <1>1, <1>2, <1>3, <1>4 DEF RunInv, TypeOK

(* The call of w returns, and its run is as it was or has finished.        *)
LEMMA EndedCallInv ==
  ASSUME RunInv, NEW w \in Worker, wrk[w].pc # "idle", NEW nil \in BOOLEAN, EndCall(w, nil),
         run' \in [Run -> RunRow], \A r \in Run \ {wrk[w].r} : run'[r] = run[r],
         run'[wrk[w].r].schedule = run[wrk[w].r].schedule,
         \/ run'[wrk[w].r].status = "processing" /\ ~nil /\ (faults' = 0 => expiries' = expiries + 1)
         \/ run'[wrk[w].r].status = "failed"
         \/ run'[wrk[w].r].status = "completed" /\ wrk[w].out = "completed" /\ (faults' = 0 => nil),
         UNCHANGED <<vstatus, current, ask, sched, job, lost>>,
         table' \in Run \cup {NoRun}, gap' \in BOOLEAN,
         table # NoRun \/ gap \/ wrk[w].pc = "rename" => table' # NoRun \/ gap',
         faults' \in 0..MaxFaults, expiries' \in 0..MaxExpiries, faults' >= faults, expiries' >= expiries
  PROVE  RunInv'
<1>q. PICK q \in Run : q = wrk[w].r
  BY HandlerHas DEF HandledOK
<1>a. /\ q \in Run /\ run[q].status = "processing" /\ fate[q] = "open" /\ ~ok[q]
      /\ tries[q] < MaxAttempts /\ q \notin lost /\ q # NoRun
      /\ \A v \in Worker \ {w} : wrk[v].r # q
  BY <1>q, HandlerHas DEF HandledOK
<1>b. /\ fate' = fate /\ tries' = [tries EXCEPT ![q] = @ + 1]
      /\ ok' = [ok EXCEPT ![q] = nil]
      /\ tries' \in [Run -> 0..MaxAttempts] /\ ok' \in [Run -> BOOLEAN]
      /\ wrk' = [wrk EXCEPT ![w] = NoCall] /\ wrk' \in [Worker -> HandlerCall]
  BY <1>q, EndEffect
<1>c. /\ tries \in [Run -> 0..MaxAttempts] /\ ok \in [Run -> BOOLEAN] /\ wrk \in [Worker -> HandlerCall]
      /\ faults \in Nat /\ expiries \in Nat /\ faults' \in Nat /\ expiries' \in Nat /\ MaxAttempts \in Nat
      /\ run \in [Run -> RunRow]
  BY RunAssumption DEF RunInv, TypeOK
<1>d. faults' = 0 => faults = 0
  BY <1>c
<1>1. /\ tries'[q] = tries[q] + 1 /\ ok'[q] = nil
      /\ \A r \in Run \ {q} : tries'[r] = tries[r] /\ ok'[r] = ok[r]
      /\ wrk'[w] = NoCall /\ \A v \in Worker \ {w} : wrk'[v] = wrk[v]
      /\ run'[q].schedule = run[q].schedule /\ \A r \in Run \ {q} : run'[r] = run[r]
  <2>1. run'[q].schedule = run[q].schedule /\ \A r \in Run \ {q} : run'[r] = run[r]
    BY <1>q
  <2>2. tries'[q] = tries[q] + 1 /\ \A r \in Run \ {q} : tries'[r] = tries[r]
    BY <1>a, <1>b, <1>c
  <2>3. ok'[q] = nil /\ \A r \in Run \ {q} : ok'[r] = ok[r]
    BY <1>a, <1>b, <1>c
  <2>4. wrk'[w] = NoCall /\ \A v \in Worker \ {w} : wrk'[v] = wrk[v]
    BY <1>b, <1>c
  <2> QED
    BY <2>1, <2>2, <2>3, <2>4
<1>2. \/ run'[q].status = "processing" /\ ~nil /\ (faults' = 0 => expiries' = expiries + 1)
      \/ run'[q].status = "failed"
      \/ run'[q].status = "completed" /\ wrk[w].out = "completed" /\ (faults' = 0 => nil)
  BY <1>q
<1>3. RunOK(q)'
  <2>1. run'[q].status # "absent" /\ fate'[q] = "open"
    BY <1>a, <1>b, <1>2
  <2>2. ok'[q] => run'[q].status \in Terminal
    <3>1. ok'[q] = nil
      BY <1>1
    <3> QED
      BY <1>2, <3>1 DEF Terminal
  <2> QED
    BY <2>1, <2>2 DEF RunOK
<1>4. UnlostOK(q)'
  <2> SUFFICES ASSUME faults' = 0
               PROVE  /\ run'[q].status \in Active => tries'[q] <= expiries'
                      /\ run'[q].status = "completed" => ok'[q]
                      /\ q \notin lost'
    BY DEF UnlostOK
  <2>1. tries[q] <= expiries
    BY <1>a, <1>d DEF RunInv, UnlostOK, Active
  <2>2. run'[q].status \in Active => tries'[q] <= expiries'
    BY <1>c, <1>1, <1>2, <2>1, <1>a DEF Active
  <2>3. run'[q].status = "completed" => ok'[q]
    BY <1>1, <1>2
  <2> QED
    BY <1>a, <2>2, <2>3
<1>5. CallOK(w)' /\ \A v \in Worker \ {w} : wrk'[v] = wrk[v] /\ wrk[v].r # q
  BY <1>a, <1>1 DEF CallOK, NoCall
<1>6. /\ \A r \in Run : RunOK(r)' /\ UnlostOK(r)'
      /\ \A v \in Worker : CallOK(v)'
      /\ \A s \in Schedule : ScheduleOK(s)'
  <2>1. \A v \in Worker : (wrk'[v] = wrk[v] /\ wrk[v].r # q) \/ CallOK(v)'
    BY <1>5
  <2>2. run'[q].status \in Active => run[q].status \in Active
    BY <1>a DEF Active
  <2>3. \A r \in Run \ {q} : /\ run'[r] = run[r] /\ fate'[r] = fate[r] /\ tries'[r] = tries[r]
                             /\ ok'[r] = ok[r] /\ (r \in lost' <=> r \in lost)
    BY <1>b, <1>1
  <2>4. faults' \in Nat /\ expiries' \in Nat /\ faults' >= faults /\ expiries' >= expiries
    BY <1>c
  <2>5. run'[q].schedule = run[q].schedule /\ q \in Run
    BY <1>a, <1>1
  <2>6. UNCHANGED <<sched, job>>
    OBVIOUS
  <2> QED
    BY <1>3, <1>4, <2>1, <2>2, <2>3, <2>4, <2>5, <2>6, OneRunMoves
<1>7. OneHandler'
  <2>1. \A v \in Worker : wrk'[v].r = NoRun \/ wrk'[v].r = wrk[v].r
    BY <1>1 DEF NoCall
  <2> QED
    BY <2>1 DEF RunInv, OneHandler
<1>8. TableOK'
  <2>1. TableOK
    BY DEF RunInv
  <2>2. NoCall.out = "failed" /\ NoCall.pc = "idle"
    BY DEF NoCall
  <2>3. (\E r \in Run : run'[r].status = "completed") \/ (\E v \in Worker : wrk'[v].out = "completed") =>
            (\E r \in Run : run[r].status = "completed") \/ (\E v \in Worker : wrk[v].out = "completed")
    BY <1>1, <1>2, <2>2
  <2>4. (table # NoRun \/ gap \/ \E v \in Worker : wrk[v].pc = "rename") =>
            (table' # NoRun \/ gap' \/ \E v \in Worker : wrk'[v].pc = "rename")
    BY <1>1
  <2> QED
    BY <2>1, <2>3, <2>4 DEF TableOK
<1>9. TypeOK'
  BY <1>b DEF RunInv, TypeOK, VersionTypeOK
<1> QED
  BY <1>6, <1>7, <1>8, <1>9 DEF RunInv

-----------------------------------------------------------------------------
LEMMA CallReturnsInv ==
  ASSUME RunInv, NEW w \in Worker,
         ExecuteError(w) \/ FinishRun(w) \/ FinishError(w) \/ ExpireRun(w)
  PROVE  RunInv'
<1>q. PICK q \in Run : q = wrk[w].r
  <2>1. wrk[w].pc # "idle"
    BY DEF ExecuteError, FinishRun, FinishError, ExpireRun
  <2> QED
    BY <2>1, HandlerHas DEF HandledOK
<1>a. /\ wrk[w].pc # "idle" /\ run[q].status = "processing"
      /\ wrk[w].out = "completed" => wrk[w].pc = "finish"
  <2>1. wrk[w].pc # "idle"
    BY DEF ExecuteError, FinishRun, FinishError, ExpireRun
  <2> QED
    BY <1>q, <2>1, HandlerHas DEF HandledOK
<1>b. /\ run \in [Run -> RunRow] /\ wrk[w].out \in Terminal
      /\ gap \in BOOLEAN /\ table \in Run \cup {NoRun}
      /\ faults \in 0..MaxFaults /\ expiries \in 0..MaxExpiries /\ MaxFaults \in Nat /\ MaxExpiries \in Nat
  BY RunAssumption DEF RunInv, TypeOK, HandlerCall
<1>d. Terminal = {"completed", "failed"}
  BY DEF Terminal
<1>s. ASSUME NEW x \in Terminal, run' = [run EXCEPT ![q].status = x]
      PROVE  /\ run' \in [Run -> RunRow] /\ \A r \in Run \ {q} : run'[r] = run[r]
             /\ run'[q].schedule = run[q].schedule /\ run'[q].status = x
  BY <1>b, <1>s DEF RunRow, RunStatus, Terminal
<1>f. /\ faults' \in 0..MaxFaults /\ expiries' \in 0..MaxExpiries
      /\ faults' >= faults /\ expiries' >= expiries
  <2>1. \/ faults' = faults \/ (faults < MaxFaults /\ faults' = faults + 1)
    BY DEF ExecuteError, FinishRun, FinishError, ExpireRun, Unfailing, Fault
  <2>2. \/ expiries' = expiries \/ (expiries < MaxExpiries /\ expiries' = expiries + 1)
    BY DEF ExecuteError, FinishRun, FinishError, ExpireRun, Unfailing
  <2> QED
    BY <1>b, <2>1, <2>2
<1>g. /\ table' \in Run \cup {NoRun} /\ gap' \in BOOLEAN
      /\ table # NoRun \/ gap \/ wrk[w].pc = "rename" => table' # NoRun \/ gap'
  <2>1. CASE gap' = (gap \/ wrk[w].pc = "rename") /\ table' = table
    BY <1>b, <2>1
  <2>2. CASE gap' = gap /\ wrk[w].pc # "rename" /\ table' = table
    BY <1>b, <2>2
  <2>3. CASE CutShort(w)
    BY <1>b, <1>q, <2>3, RunAssumption DEF CutShort
  <2> QED
    BY <2>1, <2>2, <2>3 DEF ExecuteError, FinishRun, FinishError, ExpireRun
<1>u. UNCHANGED <<vstatus, current, ask, sched, job, lost>>
  BY DEF ExecuteError, FinishRun, FinishError, ExpireRun, Others, versionVars
<1>1. \E nil \in BOOLEAN, x \in Terminal :
          /\ EndCall(w, nil)
          /\ \/ run' = run /\ ~nil /\ (faults' = 0 => expiries' = expiries + 1)
             \/ run' = [run EXCEPT ![q].status = x] /\ x = "failed"
             \/ run' = [run EXCEPT ![q].status = x] /\ x = wrk[w].out /\ (faults' = 0 => nil)
  <2>1. CASE ExecuteError(w)
    <3>1. \/ run' = [run EXCEPT ![q].status = "failed"]
          \/ run' = run /\ faults' = faults + 1
      BY <1>q, <2>1 DEF ExecuteError, SetStatus, Fault
    <3>2. faults' = faults + 1 => faults' # 0
      BY <1>b
    <3>3. EndCall(w, FALSE)
      BY <2>1 DEF ExecuteError
    <3> QED
      BY <1>d, <3>1, <3>2, <3>3
  <2>2. CASE FinishRun(w)
    <3>1. run' = [run EXCEPT ![q].status = wrk[w].out] /\ EndCall(w, TRUE)
      BY <1>q, <2>2 DEF FinishRun, SetStatus
    <3> QED
      BY <1>b, <3>1
  <2>3. CASE FinishError(w)
    <3>1. EndCall(w, FALSE) /\ faults' = faults + 1
      BY <2>3 DEF FinishError, Fault
    <3>2. faults' # 0
      BY <1>b, <3>1
    <3>3. \/ run' = [run EXCEPT ![q].status = wrk[w].out]
          \/ run' = [run EXCEPT ![q].status = "failed"]
          \/ run' = run
      BY <1>q, <2>3 DEF FinishError, SetStatus
    <3>4. CASE run' = [run EXCEPT ![q].status = wrk[w].out]
      BY <1>b, <3>1, <3>2, <3>4
    <3>5. CASE run' = [run EXCEPT ![q].status = "failed"]
      BY <1>d, <3>1, <3>5
    <3>6. CASE run' = run
      BY <1>d, <3>1, <3>2, <3>6
    <3> QED
      BY <3>3, <3>4, <3>5, <3>6
  <2>4. CASE ExpireRun(w)
    <3>1. EndCall(w, FALSE) /\ expiries' = expiries + 1
      BY <2>4 DEF ExpireRun
    <3>2. \/ run' = run
          \/ run' = [run EXCEPT ![q].status = wrk[w].out] /\ faults' = faults + 1
      BY <1>q, <2>4 DEF ExpireRun, CutShort, SetStatus, Fault
    <3>3. faults' = faults + 1 => faults' # 0
      BY <1>b
    <3>4. CASE run' = run
      BY <1>d, <3>1, <3>4
    <3>5. CASE run' = [run EXCEPT ![q].status = wrk[w].out] /\ faults' = faults + 1
      BY <1>b, <3>1, <3>3, <3>5
    <3> QED
      BY <3>2, <3>4, <3>5
  <2> QED
    BY <2>1, <2>2, <2>3, <2>4
<1>2. PICK nil \in BOOLEAN, x \in Terminal :
          /\ EndCall(w, nil)
          /\ \/ run' = run /\ ~nil /\ (faults' = 0 => expiries' = expiries + 1)
             \/ run' = [run EXCEPT ![q].status = x] /\ x = "failed"
             \/ run' = [run EXCEPT ![q].status = x] /\ x = wrk[w].out /\ (faults' = 0 => nil)
  BY <1>1
<1>3. /\ run' \in [Run -> RunRow] /\ \A r \in Run \ {q} : run'[r] = run[r]
      /\ run'[q].schedule = run[q].schedule
  <2>1. CASE run' = run
    BY <1>b, <2>1
  <2>2. CASE run' = [run EXCEPT ![q].status = x]
    BY <1>s, <2>2
  <2> QED
    BY <1>2, <2>1, <2>2
<1>4. \/ run'[q].status = "processing" /\ ~nil /\ (faults' = 0 => expiries' = expiries + 1)
      \/ run'[q].status = "failed"
      \/ run'[q].status = "completed" /\ wrk[w].out = "completed" /\ (faults' = 0 => nil)
  <2>1. CASE run' = run /\ ~nil /\ (faults' = 0 => expiries' = expiries + 1)
    BY <1>a, <2>1
  <2>2. CASE run' = [run EXCEPT ![q].status = x] /\ x = "failed"
    BY <1>s, <2>2
  <2>3. CASE run' = [run EXCEPT ![q].status = x] /\ x = wrk[w].out /\ (faults' = 0 => nil)
    <3>1. run'[q].status = x /\ (x = "completed" \/ x = "failed")
      BY <1>d, <1>s, <2>3
    <3> QED
      BY <2>3, <3>1
  <2> QED
    BY <1>2, <2>1, <2>2, <2>3
<1> QED
  BY <1>q, <1>a, <1>f, <1>g, <1>u, <1>2, <1>3, <1>4, EndedCallInv

(* The steps of a call up to its output, which leave its run alone.        *)
LEMMA HandlerStepInv ==
  ASSUME RunInv, NEW w \in Worker, StageOutput(w) \/ DropTarget(w) \/ RenameStage(w)
  PROVE  RunInv'
<1>q. wrk[w].pc # "idle"
  BY DEF StageOutput, DropTarget, RenameStage
<1>a. /\ HandledOK(wrk[w].r) /\ wrk[w].r # NoRun
      /\ wrk[w].out = "completed" => wrk[w].pc = "finish"
  BY <1>q, HandlerHas
<1>b. /\ wrk \in [Worker -> HandlerCall] /\ table \in Run \cup {NoRun} /\ gap \in BOOLEAN
      /\ faults \in 0..MaxFaults /\ MaxFaults \in Nat /\ wrk[w].r \in Run /\ NoRun \notin Run
  BY <1>a, RunAssumption DEF RunInv, TypeOK, HandledOK
<1>1. UNCHANGED <<vstatus, current, run, ask, sched, job, fate, tries, ok, lost, expiries>>
  BY DEF StageOutput, DropTarget, RenameStage, Others, versionVars, queueVars, Unfailing
<1>2. /\ wrk' \in [Worker -> HandlerCall] /\ \A v \in Worker \ {w} : wrk'[v] = wrk[v]
      /\ wrk'[w].r = wrk[w].r /\ wrk'[w].pc # "idle"
      /\ wrk'[w].out = "completed" => wrk'[w].pc = "finish"
      /\ \/ wrk'[w].out = wrk[w].out /\ (wrk[w].pc # "rename" \/ table' # NoRun \/ gap')
         \/ table' # NoRun
  <2>1. CASE StageOutput(w)
    <3>1. Go(w, "drop") \/ Go(w, "finish")
      BY <2>1 DEF StageOutput
    <3>2. wrk[w].pc = "stage" /\ wrk[w].out # "completed"
      BY <1>a, <2>1 DEF StageOutput
    <3> QED
      BY <1>b, <3>1, <3>2 DEF Go, HandlerCall
  <2>2. CASE DropTarget(w)
    <3>1. wrk[w].pc = "drop" /\ wrk[w].out # "completed" /\ Go(w, "rename")
      BY <1>a, <2>2 DEF DropTarget
    <3> QED
      BY <1>b, <3>1 DEF Go, HandlerCall
  <2>3. CASE RenameStage(w)
    <3>0. wrk[w].pc = "rename" /\ wrk[w].out # "completed"
      BY <1>a, <2>3 DEF RenameStage
    <3>1. \/ table' = wrk[w].r /\ Renamed(w)
          \/ table # NoRun /\ table' = table /\ Go(w, "finish")
          \/ Go(w, "finish") /\ (table' # NoRun \/ gap')
      BY <1>b, <2>3 DEF RenameStage
    <3>2. CASE table' = wrk[w].r /\ Renamed(w)
      <4> DEFINE new == [wrk[w] EXCEPT !.pc = "finish", !.out = "completed"]
      <4>1. new \in HandlerCall /\ new.r = wrk[w].r /\ new.pc = "finish"
        BY <1>b DEF HandlerCall, Terminal
      <4>2. wrk' = [wrk EXCEPT ![w] = new]
        BY <1>b, <3>2 DEF Renamed, HandlerCall
      <4> HIDE DEF new
      <4> QED
        BY <1>a, <1>b, <3>2, <4>1, <4>2
    <3>3. CASE Go(w, "finish") /\ (table' # NoRun \/ gap')
      BY <1>b, <3>0, <3>3 DEF Go, HandlerCall
    <3>4. CASE table # NoRun /\ table' = table /\ Go(w, "finish")
      BY <1>b, <3>0, <3>4 DEF Go, HandlerCall
    <3> QED
      BY <3>1, <3>2, <3>3, <3>4
  <2> QED
    BY <2>1, <2>2, <2>3
<1>3. /\ table' \in Run \cup {NoRun} /\ gap' \in BOOLEAN
      /\ faults' \in 0..MaxFaults /\ faults' >= faults
      /\ \/ table' # NoRun \/ gap' \/ wrk'[w].pc = "rename"
         \/ table' = table /\ gap' = gap
  <2>1. CASE StageOutput(w)
    BY <1>b, <2>1 DEF StageOutput, Unfailing
  <2>2. CASE DropTarget(w)
    <3>1. UNCHANGED gap /\ Go(w, "rename")
      BY <2>2 DEF DropTarget
    <3>2. wrk'[w].pc = "rename"
      BY <1>b, <3>1 DEF Go, HandlerCall
    <3>3. table' \in Run \cup {NoRun} /\ faults' \in 0..MaxFaults /\ faults' >= faults
      BY <1>b, <2>2 DEF DropTarget, Unfailing, Fault
    <3> QED
      BY <1>b, <3>1, <3>2, <3>3
  <2>3. CASE RenameStage(w)
    <3>1. table' \in Run \cup {NoRun} /\ (table' # NoRun \/ gap')
      BY <1>b, <2>3 DEF RenameStage
    <3>2. gap' \in BOOLEAN
      BY <1>b, <2>3 DEF RenameStage
    <3>3. faults' \in 0..MaxFaults /\ faults' >= faults
      BY <1>b, <2>3 DEF RenameStage, Unfailing, Fault
    <3> QED
      BY <3>1, <3>2, <3>3
  <2> QED
    BY <2>1, <2>2, <2>3
<1>4. ASSUME NEW r \in Run PROVE RunOK(r)' /\ UnlostOK(r)'
  <2>1. RunOK(r) /\ UnlostOK(r)
    BY DEF RunInv
  <2>2. faults' = 0 => faults = 0
    BY <1>b, <1>3
  <2> QED
    BY <1>1, <2>1, <2>2 DEF RunOK, UnlostOK
<1>5. ASSUME NEW v \in Worker PROVE CallOK(v)'
  <2>1. CallOK(v)
    BY DEF RunInv
  <2>2. CASE v = w
    BY <1>a, <1>1, <1>2, <2>2 DEF CallOK, HandledOK
  <2>3. CASE v # w
    BY <1>1, <1>2, <2>1, <2>3 DEF CallOK, HandledOK
  <2> QED
    BY <2>2, <2>3
<1>6. OneHandler'
  <2>1. \A v \in Worker : wrk'[v].r = wrk[v].r
    BY <1>2
  <2> QED
    BY <2>1 DEF RunInv, OneHandler
<1>7. TableOK'
  <2>1. CASE table' # NoRun \/ gap' \/ wrk'[w].pc = "rename"
    BY <2>1 DEF TableOK
  <2>2. CASE table' = table /\ gap' = gap /\ table' = NoRun /\ ~gap'
    <3>1. wrk'[w].out = wrk[w].out /\ wrk[w].pc # "rename"
      BY <1>2, <2>2
    <3>2. \A v \in Worker : wrk'[v].out = wrk[v].out /\ (wrk[v].pc = "rename" => wrk'[v].pc = "rename")
      BY <1>2, <3>1
    <3> QED
      BY <1>1, <2>2, <3>2 DEF RunInv, TableOK
  <2> QED
    BY <1>3, <2>1, <2>2
<1>8. TypeOK'
  BY <1>1, <1>2, <1>3 DEF RunInv, TypeOK, VersionTypeOK
<1>9. \A s \in Schedule : ScheduleOK(s)'
  BY <1>1 DEF RunInv, ScheduleOK, HasActiveRun
<1> QED
  BY <1>4, <1>5, <1>6, <1>7, <1>8, <1>9 DEF RunInv

-----------------------------------------------------------------------------
(* Steps of an event that no handler has.                                  *)
LEMMA EventMoves ==
  ASSUME RunInv, NEW q \in Run, ~InHand(q),
         UNCHANGED <<vstatus, current, ask, sched, job, wrk, table, gap>>,
         run' \in [Run -> RunRow], fate' \in [Run -> Queue!Fate],
         tries' \in [Run -> 0..MaxAttempts], ok' \in [Run -> BOOLEAN], lost' \subseteq Run,
         \A r \in Run \ {q} : /\ run'[r] = run[r] /\ fate'[r] = fate[r] /\ tries'[r] = tries[r]
                              /\ ok'[r] = ok[r] /\ (r \in lost' <=> r \in lost),
         run'[q].schedule = run[q].schedule,
         run'[q].status = run[q].status \/ (run[q].status \in Active /\ run'[q].status = "processing"),
         RunOK(q)', UnlostOK(q)',
         faults' \in 0..MaxFaults, expiries' \in 0..MaxExpiries, faults' >= faults, expiries' >= expiries
  PROVE  RunInv'
<1>1. /\ \A r \in Run : RunOK(r)' /\ UnlostOK(r)'
      /\ \A v \in Worker : CallOK(v)'
      /\ \A s \in Schedule : ScheduleOK(s)'
  <2>1. \A v \in Worker : (wrk'[v] = wrk[v] /\ wrk[v].r # q) \/ CallOK(v)'
    BY DEF InHand
  <2>2. run'[q].status \in Active => run[q].status \in Active
    BY DEF Active
  <2>3. UNCHANGED <<sched, job>>
    OBVIOUS
  <2>4. faults' \in Nat /\ expiries' \in Nat
    BY RunAssumption
  <2> QED
    BY <2>1, <2>2, <2>3, <2>4, OneRunMoves
<1>2. OneHandler'
  BY DEF RunInv, OneHandler
<1>3. TableOK'
  <2>1. \A r \in Run : run'[r].status = "completed" => run[r].status = "completed"
    OBVIOUS
  <2> QED
    BY <2>1 DEF RunInv, TableOK
<1>4. TypeOK'
  BY DEF RunInv, TypeOK, VersionTypeOK
<1> QED
  BY <1>1, <1>2, <1>3, <1>4 DEF RunInv

(* An event that can be delivered is open, and its run not completed       *)
(* unless something was lost.                                              *)
LEMMA DeliverableHas ==
  ASSUME RunInv, NEW q \in Run, Deliverable(q)
  PROVE  /\ run[q].status # "absent" /\ fate[q] = "open" /\ ~ok[q] /\ ~InHand(q) /\ q \notin lost
         /\ tries[q] + 1 \in 0..MaxAttempts /\ tries[q] < MaxAttempts
         /\ faults = 0 => run[q].status # "completed"
<1>1. RunOK(q) /\ UnlostOK(q) /\ tries[q] \in 0..MaxAttempts
  BY DEF RunInv, TypeOK
<1>2. fate[q] = "open" /\ ~ok[q] /\ tries[q] < MaxAttempts /\ ~InHand(q) /\ q \notin lost
  BY DEF Deliverable
<1>3. tries[q] + 1 \in 0..MaxAttempts
  BY <1>1, <1>2, RunAssumption
<1> QED
  BY <1>1, <1>2, <1>3 DEF RunOK, UnlostOK

LEMMA RefusedInv ==
  ASSUME RunInv, NEW q \in Run, (\E w \in Worker : RefuseRun(w, q)) \/ BeginError(q)
  PROVE  RunInv'
<1>a. /\ Deliverable(q) /\ Returns(q, FALSE)
      /\ UNCHANGED <<vstatus, current, ask, sched, job, wrk, table, gap, lost>>
  BY DEF RefuseRun, BeginError, Others, versionVars
<1>b. /\ run[q].status # "absent" /\ fate[q] = "open" /\ ~ok[q] /\ ~InHand(q) /\ q \notin lost
      /\ tries[q] + 1 \in 0..MaxAttempts /\ tries[q] < MaxAttempts
      /\ faults = 0 => run[q].status # "completed"
  BY <1>a, DeliverableHas
<1>c. /\ tries \in [Run -> 0..MaxAttempts] /\ ok \in [Run -> BOOLEAN] /\ fate \in [Run -> Queue!Fate]
      /\ faults \in 0..MaxFaults /\ expiries \in 0..MaxExpiries /\ MaxFaults \in Nat /\ MaxExpiries \in Nat
      /\ run \in [Run -> RunRow] /\ lost \subseteq Run /\ MaxAttempts \in Nat
  BY RunAssumption DEF RunInv, TypeOK
<1>1. /\ fate' = fate /\ tries' = [tries EXCEPT ![q] = tries[q] + 1]
      /\ ok' = [ok EXCEPT ![q] = FALSE]
  BY <1>a DEF Returns, Queue!Attempt
<1>2. tries' \in [Run -> 0..MaxAttempts] /\ tries'[q] = tries[q] + 1 /\ \A r \in Run \ {q} : tries'[r] = tries[r]
  BY <1>b, <1>c, <1>1
<1>3. ok' \in [Run -> BOOLEAN] /\ ~ok'[q] /\ \A r \in Run \ {q} : ok'[r] = ok[r]
  BY <1>c, <1>1
<1>4. /\ \/ run' = run /\ faults' = faults /\ expiries' = expiries /\ run[q].status \notin Markable
         \/ run' = run /\ faults' = faults /\ expiries' = expiries + 1 /\ expiries < MaxExpiries
         \/ faults < MaxFaults /\ faults' = faults + 1 /\ expiries' = expiries
      /\ \/ run' = run
         \/ run[q].status \in Markable /\ run' = [run EXCEPT ![q].status = "processing"]
  <2>1. CASE \E w \in Worker : RefuseRun(w, q)
    BY <2>1 DEF RefuseRun, Unfailing
  <2>2. CASE BeginError(q)
    BY <2>2 DEF BeginError, Fault, SetStatus
  <2> QED
    BY <2>1, <2>2
<1>5. /\ run' \in [Run -> RunRow] /\ \A r \in Run \ {q} : run'[r] = run[r]
      /\ run'[q].schedule = run[q].schedule
      /\ run'[q].status = run[q].status \/ (run[q].status \in Active /\ run'[q].status = "processing")
  BY <1>c, <1>4 DEF RunRow, RunStatus, Markable, Active
<1>6. faults' \in 0..MaxFaults /\ expiries' \in 0..MaxExpiries /\ faults' >= faults /\ expiries' >= expiries
  BY <1>c, <1>4
<1>7. RunOK(q)'
  <2>1. run'[q].status # "absent" /\ fate'[q] = "open" /\ ~ok'[q]
    BY <1>b, <1>1, <1>3, <1>5
  <2> QED
    BY <2>1 DEF RunOK
<1>8. UnlostOK(q)'
  <2> SUFFICES ASSUME faults' = 0
               PROVE  /\ run'[q].status \in Active => tries'[q] <= expiries'
                      /\ run'[q].status # "completed" /\ q \notin lost'
    BY DEF UnlostOK
  <2>1. /\ run' = run /\ faults = 0
        /\ expiries' = expiries + 1 \/ run[q].status \notin Markable
    BY <1>c, <1>4
  <2>2. run[q].status \in Active => tries[q] <= expiries
    BY <2>1 DEF RunInv, UnlostOK
  <2>3. run'[q].status \in Active => tries'[q] <= expiries'
    BY <1>c, <1>2, <2>1, <2>2 DEF Active, Markable
  <2> QED
    BY <1>a, <1>b, <2>1, <2>3
<1> QED
  BY <1>a, <1>b, <1>c, <1>1, <1>2, <1>3, <1>5, <1>6, <1>7, <1>8, EventMoves

LEMMA EventSettledInv ==
  ASSUME RunInv, NEW q \in Run, LoseEvent(q) \/ SettleEvent(q) PROVE RunInv'
<1>c. /\ tries \in [Run -> 0..MaxAttempts] /\ ok \in [Run -> BOOLEAN] /\ fate \in [Run -> Queue!Fate]
      /\ faults \in 0..MaxFaults /\ expiries \in 0..MaxExpiries /\ MaxFaults \in Nat /\ MaxExpiries \in Nat
      /\ run \in [Run -> RunRow] /\ lost \subseteq Run /\ RunOK(q) /\ UnlostOK(q)
  BY RunAssumption DEF RunInv, TypeOK
<1>1. CASE LoseEvent(q)
  <2>1. /\ UNCHANGED <<vstatus, current, ask, sched, job, wrk, table, gap, run, fate, tries, ok, expiries>>
        /\ lost' = lost \cup {q} /\ faults < MaxFaults /\ faults' = faults + 1
        /\ fate[q] = "open" /\ ~InHand(q)
    BY <1>1 DEF LoseEvent, Others, versionVars, queueVars, Fault
  <2>2. faults' \in 0..MaxFaults /\ faults' >= faults /\ faults' # 0 /\ expiries' >= expiries
    BY <1>c, <2>1
  <2>3. RunOK(q)' /\ UnlostOK(q)'
    BY <1>c, <2>1, <2>2 DEF RunOK, UnlostOK
  <2> QED
    BY <1>c, <2>1, <2>2, <2>3, EventMoves
<1>2. CASE SettleEvent(q)
  <2>1. /\ UNCHANGED <<vstatus, current, ask, sched, job, wrk, table, gap, run, tries, ok, lost, faults, expiries>>
        /\ ~InHand(q) /\ fate[q] = "open"
        /\ \/ fate' = [fate EXCEPT ![q] = "sent"] /\ ok[q]
           \/ fate' = [fate EXCEPT ![q] = "dead"] /\ ~ok[q] /\ tries[q] = MaxAttempts
    BY <1>2 DEF SettleEvent, Others, versionVars, execVars, Queue!SettleSent, Queue!SettleDead
  <2>2. /\ fate' \in [Run -> Queue!Fate] /\ \A r \in Run \ {q} : fate'[r] = fate[r]
        /\ (fate'[q] = "sent" /\ ok[q]) \/ (fate'[q] = "dead" /\ ~ok[q] /\ tries[q] = MaxAttempts)
    BY <1>c, <2>1 DEF Queue!Fate
  <2>3. RunOK(q)' /\ UnlostOK(q)'
    BY <1>c, <2>1, <2>2 DEF RunOK, UnlostOK
  <2>4. faults' \in 0..MaxFaults /\ expiries' \in 0..MaxExpiries /\ faults' >= faults /\ expiries' >= expiries
    BY <1>c, <2>1
  <2> QED
    BY <1>c, <2>1, <2>2, <2>3, <2>4, EventMoves
<1> QED
  BY <1>1, <1>2

LEMMA BeginRunInv ==
  ASSUME RunInv, NEW w \in Worker, NEW q \in Run, BeginRun(w, q) PROVE RunInv'
<1>a. /\ run[q].status # "absent" /\ fate[q] = "open" /\ ~ok[q] /\ ~InHand(q) /\ q \notin lost
      /\ tries[q] < MaxAttempts
  BY DeliverableHas DEF BeginRun
<1>b. /\ run \in [Run -> RunRow] /\ wrk \in [Worker -> HandlerCall] /\ q # NoRun
      /\ faults \in Nat /\ expiries \in Nat
  BY RunAssumption DEF RunInv, TypeOK
<1>1. /\ wrk[w] = NoCall /\ run[q].status \in {"pending", "processing"}
      /\ run' = [run EXCEPT ![q].status = "processing"]
      /\ wrk' = [wrk EXCEPT ![w] = [pc |-> "stage", r |-> q, out |-> "failed"]]
      /\ UNCHANGED <<vstatus, current, ask, sched, job, fate, tries, ok, lost, table, gap, faults, expiries>>
  BY DEF BeginRun, Markable, SetStatus, Others, versionVars, queueVars, Unfailing
<1>2. /\ run' \in [Run -> RunRow] /\ \A r \in Run \ {q} : run'[r] = run[r]
      /\ run'[q].schedule = run[q].schedule /\ run'[q].status = "processing"
  BY <1>b, <1>1 DEF RunRow, RunStatus
<1>3. /\ wrk' \in [Worker -> HandlerCall] /\ \A v \in Worker \ {w} : wrk'[v] = wrk[v]
      /\ wrk'[w].pc = "stage" /\ wrk'[w].r = q /\ wrk'[w].out = "failed"
  BY <1>b, <1>1 DEF HandlerCall, Terminal
<1>4. RunOK(q)' /\ UnlostOK(q)'
  <2>1. RunOK(q) /\ UnlostOK(q)
    BY DEF RunInv
  <2> QED
    BY <1>a, <1>1, <1>2, <2>1 DEF RunOK, UnlostOK, Active
<1>5. CallOK(w)' /\ \A v \in Worker \ {w} : wrk[v].r # q
  <2>1. CallOK(w)'
    BY <1>a, <1>b, <1>1, <1>2, <1>3 DEF CallOK, HandledOK
  <2> QED
    BY <1>a, <2>1 DEF InHand
<1>6. /\ \A r \in Run : RunOK(r)' /\ UnlostOK(r)'
      /\ \A v \in Worker : CallOK(v)'
      /\ \A s \in Schedule : ScheduleOK(s)'
  <2>1. \A v \in Worker : (wrk'[v] = wrk[v] /\ wrk[v].r # q) \/ CallOK(v)'
    BY <1>3, <1>5
  <2>2. run'[q].status \in Active => run[q].status \in Active
    BY <1>1 DEF Active
  <2>3. UNCHANGED <<sched, job>>
    BY <1>1
  <2>4. \A r \in Run \ {q} : /\ run'[r] = run[r] /\ fate'[r] = fate[r] /\ tries'[r] = tries[r]
                             /\ ok'[r] = ok[r] /\ (r \in lost' <=> r \in lost)
    BY <1>1, <1>2
  <2>5. faults' \in Nat /\ expiries' \in Nat /\ faults' >= faults /\ expiries' >= expiries
    BY <1>b, <1>1
  <2> QED
    BY <1>2, <1>4, <2>1, <2>2, <2>3, <2>4, <2>5, OneRunMoves
<1>7. OneHandler'
  BY <1>3, <1>5 DEF RunInv, OneHandler
<1>8. TableOK'
  <2>1. \A r \in Run : run'[r].status = "completed" => run[r].status = "completed"
    BY <1>2
  <2>2. \A v \in Worker : /\ wrk'[v].out = "completed" => wrk[v].out = "completed"
                          /\ wrk[v].pc = "rename" => wrk'[v].pc = "rename"
    BY <1>1, <1>3 DEF NoCall
  <2> QED
    BY <1>1, <2>1, <2>2 DEF RunInv, TableOK
<1>9. TypeOK'
  BY <1>1, <1>2, <1>3 DEF RunInv, TypeOK, VersionTypeOK
<1> QED
  BY <1>6, <1>7, <1>8, <1>9 DEF RunInv

LEMMA CrashWorkerInv ==
  ASSUME RunInv, NEW w \in Worker, CrashWorker(w) PROVE RunInv'
<1>q. PICK q \in Run : q = wrk[w].r
  BY HandlerHas DEF CrashWorker, HandledOK
<1>a. /\ run[q].status = "processing" /\ fate[q] = "open" /\ ~ok[q]
      /\ \A v \in Worker \ {w} : wrk[v].r # q
  BY <1>q, HandlerHas DEF CrashWorker, HandledOK
<1>b. /\ wrk \in [Worker -> HandlerCall] /\ gap \in BOOLEAN /\ lost \subseteq Run /\ NoCall \in HandlerCall
      /\ faults \in 0..MaxFaults /\ expiries \in Nat /\ MaxFaults \in Nat
  BY RunAssumption DEF RunInv, TypeOK, NoCall, HandlerCall, Terminal
<1>1. /\ wrk' = [wrk EXCEPT ![w] = NoCall] /\ lost' = lost \cup {q}
      /\ gap' = (gap \/ wrk[w].pc = "rename")
      /\ faults < MaxFaults /\ faults' = faults + 1
      /\ UNCHANGED <<vstatus, current, run, ask, sched, job, fate, tries, ok, table, expiries>>
  BY <1>q DEF CrashWorker, Others, versionVars, queueVars, Fault
<1>2. /\ wrk' \in [Worker -> HandlerCall] /\ wrk'[w] = NoCall /\ \A v \in Worker \ {w} : wrk'[v] = wrk[v]
  BY <1>b, <1>1
<1>3. faults' \in 0..MaxFaults /\ faults' # 0 /\ faults' >= faults /\ faults' \in Nat
  BY <1>b, <1>1
<1>4. gap' \in BOOLEAN /\ (gap => gap') /\ (wrk[w].pc = "rename" => gap')
  BY <1>1
<1>5. RunOK(q)' /\ UnlostOK(q)'
  <2>1. RunOK(q)
    BY DEF RunInv
  <2> QED
    BY <1>a, <1>1, <1>3, <2>1 DEF RunOK, UnlostOK
<1>6. /\ \A r \in Run : RunOK(r)' /\ UnlostOK(r)'
      /\ \A v \in Worker : CallOK(v)'
      /\ \A s \in Schedule : ScheduleOK(s)'
  <2>1. CallOK(w)'
    BY <1>2 DEF CallOK, NoCall
  <2>2. \A v \in Worker : (wrk'[v] = wrk[v] /\ wrk[v].r # q) \/ CallOK(v)'
    BY <1>a, <1>2, <2>1
  <2>3. \A r \in Run \ {q} : /\ run'[r] = run[r] /\ fate'[r] = fate[r] /\ tries'[r] = tries[r]
                             /\ ok'[r] = ok[r] /\ (r \in lost' <=> r \in lost)
    BY <1>1
  <2>4. UNCHANGED <<sched, job>> /\ run'[q] = run[q] /\ expiries' \in Nat /\ expiries' >= expiries
    BY <1>b, <1>1
  <2> QED
    BY <1>3, <1>5, <2>2, <2>3, <2>4, OneRunMoves
<1>7. OneHandler'
  <2>1. \A v \in Worker : wrk'[v].r = NoRun \/ wrk'[v].r = wrk[v].r
    BY <1>2 DEF NoCall
  <2> QED
    BY <2>1 DEF RunInv, OneHandler
<1>8. TableOK'
  <2>1. \A v \in Worker : /\ wrk'[v].out = "completed" => wrk[v].out = "completed"
                          /\ wrk[v].pc = "rename" => wrk'[v].pc = "rename" \/ gap'
    BY <1>2, <1>4 DEF NoCall
  <2> QED
    BY <1>1, <1>4, <2>1 DEF RunInv, TableOK
<1>9. TypeOK'
  BY <1>1, <1>2, <1>3, <1>4 DEF RunInv, TypeOK, VersionTypeOK
<1> QED
  BY <1>6, <1>7, <1>8, <1>9 DEF RunInv

-----------------------------------------------------------------------------
LEMMA StepInv == RunInv /\ [Next]_vars => RunInv'
<1> SUFFICES ASSUME RunInv, [Next]_vars PROVE RunInv'
  OBVIOUS
<1>1. CASE VersionNext /\ UNCHANGED runVars
  BY <1>1, RequestStepInv
<1>2. ASSUME NEW u \in Requester, RequesterStep(u) PROVE RunInv'
  BY <1>2, RequestStepInv, CreateRequestedInv DEF RequesterStep
<1>3. ASSUME NEW s \in Schedule, ScheduleStep(s) PROVE RunInv'
  BY <1>3, ScheduleStepInv
<1>4. ASSUME NEW j \in Scheduler, SchedulerStep(j) PROVE RunInv'
  BY <1>4, TransactionInv, CommitInv DEF SchedulerStep
<1>5. ASSUME NEW w \in Worker, WorkerStep(w) PROVE RunInv'
  BY <1>5, BeginRunInv, RefusedInv, CallReturnsInv, HandlerStepInv DEF WorkerStep
<1>6. ASSUME NEW w \in Worker, WorkerFault(w) PROVE RunInv'
  BY <1>6, CallReturnsInv, CrashWorkerInv DEF WorkerFault
<1>7. ASSUME NEW r \in Run, EventStep(r) PROVE RunInv'
  BY <1>7, RefusedInv, EventSettledInv DEF EventStep
<1>8. CASE UNCHANGED vars
  BY <1>8 DEF vars, RunInv, TypeOK, VersionTypeOK, RunOK, UnlostOK, CallOK, HandledOK, OneHandler,
    TableOK, ScheduleOK, HasActiveRun
<1> QED
  BY <1>1, <1>2, <1>3, <1>4, <1>5, <1>6, <1>7, <1>8 DEF Next

LEMMA RunInvHolds == Spec => []RunInv
<1> QED
  BY RunInvInit, StepInv, PTL DEF Spec

(* Every variable of the runs keeps its type.                              *)
THEOREM RunTypesHold == Spec => []TypeOK
<1>1. RunInv => TypeOK
  BY DEF RunInv
<1> QED
  BY <1>1, RunInvHolds, PTL

(* However many schedulers race over a due schedule, and whatever users do *)
(* to it meanwhile, it has at most one run pending or processing, and no   *)
(* open transaction has decided to add one to it (RunDueSchedules).        *)
THEOREM OneRunForEachSchedule == Spec => []OneActiveRunPerSchedule
<1>1. RunInv => OneActiveRunPerSchedule
  BY DEF RunInv, ScheduleOK, OneActiveRunPerSchedule
<1> QED
  BY <1>1, RunInvHolds, PTL

(* Once a run has completed the output table is there, except while a run  *)
(* is between its DROP and its RENAME, or stopped there.                   *)
THEOREM OutputIsThere == Spec => []OutputStays
<1>1. RunInv => OutputStays
  BY DEF RunInv, TableOK, OutputStays
<1> QED
  BY <1>1, RunInvHolds, PTL

(* An unfinished run has a handler or will be given one, and the outbox's  *)
(* verdict on the event is the run's, unless something was lost or every   *)
(* attempt of an event ran out of time.                                    *)
THEOREM NoRunIsOrphaned == Spec => []NoOrphanRun
<1>1. ASSUME RunInv PROVE NoOrphanRun
  <2> SUFFICES ASSUME NEW r \in Run
               PROVE  /\ fate[r] = "sent" => run[r].status \in Terminal
                      /\ \/ run[r].status \in Active => InHand(r) \/ Deliverable(r)
                         \/ faults > 0
                         \/ expiries >= MaxAttempts
                      /\ fate[r] = "dead" => run[r].status = "failed" \/ faults > 0 \/ expiries >= MaxAttempts
    BY DEF NoOrphanRun
  <2>1. RunOK(r) /\ UnlostOK(r)
    BY <1>1 DEF RunInv
  <2>2. /\ fate[r] \in Queue!Fate /\ tries[r] \in Nat /\ faults \in Nat /\ expiries \in Nat /\ MaxAttempts \in Nat
        /\ run[r].status \in RunStatus
    BY <1>1, RunAssumption DEF RunInv, TypeOK, RunRow
  <2>3. fate[r] = "sent" => run[r].status \in Terminal
    BY <2>1 DEF RunOK
  <2>4. ASSUME run[r].status \in Active, faults = 0, expiries < MaxAttempts
        PROVE  tries[r] < MaxAttempts /\ fate[r] = "open" /\ ~ok[r] /\ r \notin lost
    <3>1. tries[r] <= expiries /\ r \notin lost
      BY <2>1, <2>4 DEF UnlostOK
    <3>2. tries[r] < MaxAttempts
      BY <2>2, <2>4, <3>1
    <3>3. run[r].status # "absent" /\ run[r].status \notin Terminal
      BY <2>4 DEF Active, Terminal
    <3>4. ~ok[r] /\ fate[r] # "absent" /\ fate[r] # "sent" /\ fate[r] # "gone"
      BY <2>1, <3>3 DEF RunOK
    <3>5. fate[r] = "dead" => tries[r] = MaxAttempts
      BY <2>1 DEF RunOK
    <3>6. fate[r] # "dead"
      BY <2>2, <3>2, <3>5
    <3> QED
      BY <2>2, <3>1, <3>2, <3>4, <3>6 DEF Queue!Fate
  <2>5. ASSUME fate[r] = "dead", faults = 0, expiries < MaxAttempts PROVE run[r].status = "failed"
    <3>1. ~ok[r] /\ run[r].status # "absent"
      BY <2>1, <2>5 DEF RunOK
    <3>2. run[r].status # "completed" /\ run[r].status \notin Active
      BY <2>1, <2>4, <2>5, <3>1 DEF UnlostOK
    <3> QED
      BY <2>2, <3>1, <3>2 DEF RunStatus, Active
  <2>6. faults > 0 \/ faults = 0
    BY <2>2
  <2>7. expiries >= MaxAttempts \/ expiries < MaxAttempts
    BY <2>2
  <2> QED
    BY <2>3, <2>4, <2>5, <2>6, <2>7 DEF Deliverable
<1> QED
  BY <1>1, RunInvHolds, PTL

-----------------------------------------------------------------------------
(* The runs a step makes, and the one run that is not finished it moves or *)
(* takes in hand.                                                          *)
Makes(rs) ==
    /\ UNCHANGED wrk
    /\ \A r \in Run \ rs : run'[r] = run[r]
    /\ \A r \in rs : run'[r].schedule # NoSchedule => sched[run'[r].schedule].enabled

Moves(q) ==
    /\ run[q].status \in Active
    /\ \A r \in Run \ {q} : run'[r] = run[r]
    /\ \A w \in Worker : wrk'[w].r \in {wrk[w].r, NoRun, q}

LEMMA CommitMakes ==
  ASSUME RunInv, NEW j \in Scheduler, CommitSchedules(j)
  PROVE  \E rs \in SUBSET NewRuns : Makes(rs)
<1>1. PICK rs \in SUBSET NewRuns : \E f \in [rs -> Decided(j, "create")] :
            CreateRuns(f, [r \in rs |-> sched[f[r]].version])
  BY CommitCreates
<1>2. PICK f \in [rs -> Decided(j, "create")] : CreateRuns(f, [r \in rs |-> sched[f[r]].version])
  BY <1>1
<1>3. rs \subseteq Run /\ DOMAIN f = rs
  BY DEF NewRuns
<1>4. run' = [r \in Run |-> IF r \in rs THEN [status |-> "pending", version |-> sched[f[r]].version,
                                              schedule |-> f[r]]
                            ELSE run[r]]
  BY <1>2, <1>3 DEF CreateRuns
<1>5. \A r \in rs : run'[r].schedule = f[r]
  BY <1>3, <1>4
<1>6. \A s \in Decided(j, "create") : sched[s].enabled
  BY DEF Decided, RunInv, ScheduleOK
<1>7. UNCHANGED wrk
  BY DEF CommitSchedules, execVars
<1> QED
  BY <1>3, <1>4, <1>5, <1>6, <1>7 DEF Makes

LEMMA RequestMakes ==
  ASSUME NEW u \in Requester, CreateRequested(u)
  PROVE  \E rs \in SUBSET NewRuns : Makes(rs)
<1>1. PICK q \in NewRuns : CreateRuns([x \in {q} |-> NoSchedule], [x \in {q} |-> ask[u]])
  BY DEF CreateRequested
<1>2. run'[q].schedule = NoSchedule /\ \A r \in Run \ {q} : run'[r] = run[r]
  BY <1>1 DEF CreateRuns, NewRuns
<1>3. UNCHANGED wrk
  BY DEF CreateRequested, execVars
<1>4. Makes({q})
  BY <1>2, <1>3 DEF Makes
<1> QED
  BY <1>4

LEMMA WorkerMoves ==
  ASSUME RunInv, NEW w \in Worker, WorkerStep(w) \/ WorkerFault(w)
  PROVE  UNCHANGED <<run, wrk>> \/ \E q \in Run : Moves(q)
<1>a. run \in [Run -> RunRow] /\ wrk \in [Worker -> HandlerCall]
  BY DEF RunInv, TypeOK
<1>1. ASSUME NEW q \in Run, BeginRun(w, q) PROVE Moves(q)
  <2>1. run[q].status \in Active /\ SetStatus(q, "processing")
    BY <1>1 DEF BeginRun, Markable, Active
  <2>2. wrk' = [wrk EXCEPT ![w] = [pc |-> "stage", r |-> q, out |-> "failed"]]
    BY <1>1 DEF BeginRun
  <2> QED
    BY <1>a, <2>1, <2>2 DEF Moves, SetStatus
<1>2. ASSUME NEW q \in Run, RefuseRun(w, q) PROVE UNCHANGED <<run, wrk>>
  BY <1>2 DEF RefuseRun
<1>3. ASSUME wrk[w].pc # "idle", NEW q \in Run, q = wrk[w].r,
             \/ UNCHANGED run
             \/ \E x \in RunStatus : SetStatus(q, x),
             \A v \in Worker : wrk'[v].r \in {wrk[v].r, NoRun}
      PROVE  Moves(q)
  <2>1. run[q].status \in Active
    BY <1>3, HandlerHas DEF HandledOK, Active
  <2>2. \A r \in Run \ {q} : run'[r] = run[r]
    BY <1>a, <1>3 DEF SetStatus
  <2> QED
    BY <1>3, <2>1, <2>2 DEF Moves
<1>4. ASSUME wrk[w].pc # "idle" PROVE wrk[w].r \in Run
  BY <1>4, HandlerHas DEF HandledOK
<1>5. CASE ExecuteError(w) \/ FinishRun(w) \/ FinishError(w) \/ ExpireRun(w) \/ CrashWorker(w)
  <2>1. wrk[w].pc # "idle" /\ wrk' = [wrk EXCEPT ![w] = NoCall]
    BY <1>5 DEF ExecuteError, FinishRun, FinishError, ExpireRun, CrashWorker, EndCall
  <2>2. \A v \in Worker : wrk'[v].r \in {wrk[v].r, NoRun}
    BY <1>a, <2>1 DEF NoCall
  <2>3. wrk[w].out \in RunStatus /\ "failed" \in RunStatus
    BY <1>a DEF HandlerCall, Terminal, RunStatus
  <2>4. UNCHANGED run \/ SetStatus(wrk[w].r, "failed") \/ SetStatus(wrk[w].r, wrk[w].out)
    BY <1>5 DEF ExecuteError, FinishRun, FinishError, ExpireRun, CutShort, CrashWorker
  <2> QED
    BY <1>3, <1>4, <2>1, <2>2, <2>3, <2>4
<1>6. CASE StageOutput(w) \/ DropTarget(w) \/ RenameStage(w)
  <2>1. wrk[w].pc # "idle" /\ UNCHANGED run
    BY <1>6 DEF StageOutput, DropTarget, RenameStage
  <2>2. \A v \in Worker : wrk'[v].r \in {wrk[v].r, NoRun}
    <3>1. Renamed(w) \/ \E pc \in {"drop", "rename", "finish"} : Go(w, pc)
      BY <1>6 DEF StageOutput, DropTarget, RenameStage
    <3>2. ASSUME NEW pc \in {"drop", "rename", "finish"}, Go(w, pc) PROVE \A v \in Worker : wrk'[v].r = wrk[v].r
      BY <1>a, <3>2 DEF Go, HandlerCall
    <3>3. CASE Renamed(w)
      BY <1>a, <3>3 DEF Renamed, HandlerCall
    <3> QED
      BY <3>1, <3>2, <3>3
  <2> QED
    BY <1>3, <1>4, <2>1, <2>2
<1> QED
  BY <1>1, <1>2, <1>5, <1>6 DEF WorkerStep, WorkerFault

LEMMA EventMovesRun ==
  ASSUME RunInv, NEW q \in Run, EventStep(q)
  PROVE  UNCHANGED <<run, wrk>> \/ Moves(q)
<1>a. run \in [Run -> RunRow]
  BY DEF RunInv, TypeOK
<1>1. UNCHANGED wrk
  BY DEF EventStep, BeginError, LoseEvent, SettleEvent, execVars
<1>2. \/ UNCHANGED run
      \/ run[q].status \in Markable /\ SetStatus(q, "processing")
  BY DEF EventStep, BeginError, LoseEvent, SettleEvent
<1>3. CASE run[q].status \in Markable /\ SetStatus(q, "processing")
  BY <1>a, <1>1, <1>3 DEF Moves, Markable, Active, SetStatus
<1> QED
  BY <1>1, <1>2, <1>3

LEMMA RunsMove ==
  ASSUME RunInv, [Next]_vars
  PROVE  \/ UNCHANGED <<run, wrk>>
         \/ \E rs \in SUBSET NewRuns : Makes(rs)
         \/ \E q \in Run : Moves(q)
<1>1. CASE VersionNext /\ UNCHANGED runVars
  BY <1>1 DEF runVars
<1>2. ASSUME NEW u \in Requester, RequesterStep(u)
      PROVE  UNCHANGED <<run, wrk>> \/ \E rs \in SUBSET NewRuns : Makes(rs)
  <2>1. CASE CreateRequested(u)
    BY <2>1, RequestMakes
  <2>2. ASSUME NEW v \in Version, CheckRequest(u, v) PROVE UNCHANGED <<run, wrk>>
    BY <2>2 DEF CheckRequest, execVars
  <2> QED
    BY <1>2, <2>1, <2>2 DEF RequesterStep
<1>3. ASSUME NEW s \in Schedule, ScheduleStep(s) PROVE UNCHANGED <<run, wrk>>
  BY <1>3 DEF ScheduleStep, ReadForSchedule, InsertSchedule, UpdateSchedule, DisableSchedule, ComesDue, execVars
<1>4. ASSUME NEW j \in Scheduler, SchedulerStep(j)
      PROVE  UNCHANGED <<run, wrk>> \/ \E rs \in SUBSET NewRuns : Makes(rs)
  <2>1. CASE CommitSchedules(j)
    BY <2>1, CommitMakes
  <2>2. ASSUME ClaimSchedules(j) \/ RollbackSchedules(j) \/ \E s \in Schedule : DecideSchedule(j, s)
        PROVE  UNCHANGED <<run, wrk>>
    BY <2>2 DEF ClaimSchedules, RollbackSchedules, DecideSchedule, execVars
  <2> QED
    BY <1>4, <2>1, <2>2 DEF SchedulerStep
<1>5. ASSUME NEW w \in Worker, WorkerStep(w) \/ WorkerFault(w)
      PROVE  UNCHANGED <<run, wrk>> \/ \E q \in Run : Moves(q)
  BY <1>5, WorkerMoves
<1>6. ASSUME NEW r \in Run, EventStep(r)
      PROVE  UNCHANGED <<run, wrk>> \/ Moves(r)
  BY <1>6, EventMovesRun
<1>7. CASE UNCHANGED vars
  BY <1>7 DEF vars
<1> QED
  BY <1>1, <1>2, <1>3, <1>4, <1>5, <1>6, <1>7 DEF Next

(* A run is made for a schedule only in a step that finds it on: a disable *)
(* that has returned is not overtaken by a transaction that had read the   *)
(* schedule before, for it waits for the row's lock.                       *)
THEOREM NoRunForDisabledSchedule == Spec => NoRunWhileDisabled
<1>1. ASSUME RunInv, [Next]_vars,
             NEW r \in Run, run[r].status = "absent", run'[r].status # "absent",
             run'[r].schedule # NoSchedule
      PROVE  sched[run'[r].schedule].enabled
  <2>1. ASSUME NEW q \in Run, Moves(q) PROVE FALSE
    BY <1>1, <2>1 DEF Moves, Active
  <2>2. PICK rs \in SUBSET NewRuns : Makes(rs)
    BY <1>1, <2>1, RunsMove
  <2> QED
    BY <1>1, <2>2 DEF Makes
<1>2. RunInv /\ [Next]_vars =>
          [\A r \in Run : /\ run[r].status = "absent"
                          /\ run'[r].status # "absent"
                          /\ run'[r].schedule # NoSchedule
                          => sched[run'[r].schedule].enabled]_vars
  BY <1>1
<1> QED
  BY <1>2, RunInvHolds, PTL DEF Spec, NoRunWhileDisabled

(* A run that has finished stays as it finished and no handler takes it up *)
(* again, however often its event is delivered                             *)
(* (MarkDataPipelineRunProcessing).                                        *)
THEOREM FinishedRunsStay == Spec => FinishedIsFinal
<1>1. ASSUME RunInv, [Next]_vars, NEW r \in Run, run[r].status \in Terminal
      PROVE  /\ run'[r].status = run[r].status
             /\ \A w \in Worker : wrk[w].r # r => wrk'[w].r # r
  <2>0. r # NoRun
    BY RunAssumption
  <2>1. ASSUME NEW q \in Run, Moves(q) PROVE r # q
    BY <1>1, <2>1 DEF Moves, Active, Terminal
  <2>2. ASSUME NEW rs \in SUBSET NewRuns PROVE r \notin rs
    BY <1>1 DEF NewRuns, Terminal
  <2>3. CASE UNCHANGED <<run, wrk>>
    BY <2>3
  <2>4. ASSUME NEW rs \in SUBSET NewRuns, Makes(rs)
        PROVE  run'[r] = run[r] /\ UNCHANGED wrk
    BY <2>2, <2>4 DEF Makes
  <2>5. ASSUME NEW q \in Run, Moves(q)
        PROVE  /\ run'[r] = run[r]
               /\ \A w \in Worker : wrk[w].r # r => wrk'[w].r # r
    BY <2>0, <2>1, <2>5 DEF Moves
  <2> QED
    BY <1>1, <2>3, <2>4, <2>5, RunsMove
<1>2. RunInv /\ [Next]_vars =>
          [\A r \in Run : run[r].status \in Terminal =>
              /\ run'[r].status = run[r].status
              /\ \A w \in Worker : wrk[w].r # r => wrk'[w].r # r]_vars
  BY <1>1
<1> QED
  BY <1>2, RunInvHolds, PTL DEF Spec, FinishedIsFinal

-----------------------------------------------------------------------------
(* The graphs.  The order of the nodes and the nodes on paths are recursive*)
(* functions; what they compute is proved by induction on numbers, in the  *)
(* form that every set of them has a least element.                        *)
LEMMA HasLeast ==
  ASSUME NEW S \in SUBSET Nat, S # {}
  PROVE  \E m \in S : \A n \in S : m <= n
<1> DEFINE R == OpToRel(<, Nat)
<1>1. IsWellFoundedOn(R, Nat)
  BY NatLessThanWellFounded, Zenon
<1>2. \A x, y \in Nat : <<x, y>> \in R <=> x < y
  BY DEF OpToRel
<1> HIDE DEF R
<1>3. PICK m \in S : \A n \in S : ~ (<<n, m>> \in R)
  BY <1>1, WFMin
<1>4. m \in Nat /\ \A n \in S : n \in Nat
  OBVIOUS
<1>5. \A n \in S : ~ (n < m)
  BY <1>2, <1>3, <1>4
<1> QED
  BY <1>4, <1>5

LEMMA MinIsLeast ==
  ASSUME NEW S \in SUBSET Nat, S # {}
  PROVE  Min(S) \in S
BY HasLeast DEF Min

-----------------------------------------------------------------------------
(* The order of the nodes.                                                 *)

(* A sequence of different nodes, each after the nodes its edges come from.*)
Sound(g, s) ==
    /\ s \in Seq(Nodes(g))
    /\ \A i, j \in 1..Len(s) : s[i] = s[j] => i = j
    /\ \A i \in 1..Len(s) : Sources(g, s[i]) \cap Nodes(g) \subseteq {s[j] : j \in 1..(i - 1)}

LEMMA ExtendSound ==
  ASSUME NEW g, Nodes(g) \subseteq Nat, NEW s, Sound(g, s)
  PROVE  Sound(g, Extend(g, s))
<1>1. CASE Ready(g, Range(s)) = {}
  BY <1>1 DEF Extend
<1>2. CASE Ready(g, Range(s)) # {}
  <2>1. PICK n : n = Min(Ready(g, Range(s)))
    OBVIOUS
  <2>2. n \in Ready(g, Range(s))
    <3>1. Ready(g, Range(s)) \in SUBSET Nat
      BY DEF Ready
    <3> QED
      BY <1>2, <2>1, <3>1, MinIsLeast
  <2>3. s \in Seq(Nodes(g)) /\ Len(s) \in Nat /\ Range(s) = {s[j] : j \in 1..Len(s)}
    BY DEF Sound, Range
  <2>4. n \in Nodes(g) /\ n \notin Range(s) /\ Sources(g, n) \cap Nodes(g) \subseteq Range(s)
    BY <2>2 DEF Ready
  <2>5. PICK t : t = Append(s, n)
    OBVIOUS
  <2>6. /\ t \in Seq(Nodes(g)) /\ Len(t) = Len(s) + 1 /\ t[Len(s) + 1] = n
        /\ \A i \in 1..Len(s) : t[i] = s[i]
    BY <2>3, <2>4, <2>5
  <2>7. ASSUME NEW i \in 1..Len(t), NEW j \in 1..Len(t), t[i] = t[j]
        PROVE  i = j
    <3>1. \A k \in 1..Len(s) : t[k] \in Range(s)
      BY <2>3, <2>6
    <3>2. \A k \in 1..Len(t) : k \in 1..Len(s) \/ k = Len(s) + 1
      BY <2>3, <2>6
    <3>3. \A k \in 1..Len(s) : t[k] # n
      BY <2>4, <3>1
    <3>4. CASE i \in 1..Len(s) /\ j \in 1..Len(s)
      <4>1. s[i] = s[j]
        BY <2>6, <2>7, <3>4
      <4> QED
        BY <3>4, <4>1 DEF Sound
    <3>5. CASE i = Len(s) + 1 \/ j = Len(s) + 1
      BY <2>6, <2>7, <3>2, <3>3, <3>5
    <3> QED
      BY <3>2, <3>4, <3>5
  <2>8. ASSUME NEW i \in 1..Len(t)
        PROVE  Sources(g, t[i]) \cap Nodes(g) \subseteq {t[j] : j \in 1..(i - 1)}
    <3>1. {t[j] : j \in 1..(i - 1)} = {s[j] : j \in 1..(i - 1)}
      <4>1. \A j \in 1..(i - 1) : j \in 1..Len(s) /\ t[j] = s[j]
        BY <2>3, <2>6
      <4> QED
        BY <4>1
    <3>2. CASE i = Len(t)
      BY <2>3, <2>4, <2>6, <3>1, <3>2
    <3>3. CASE i # Len(t)
      <4>1. i \in 1..Len(s)
        BY <2>3, <2>6, <3>3
      <4> QED
        BY <2>6, <3>1, <4>1 DEF Sound
    <3> QED
      BY <3>2, <3>3
  <2>9. Extend(g, s) = t
    BY <1>2, <2>1, <2>5 DEF Extend
  <2>10. Sound(g, t)
    BY <2>6, <2>7, <2>8, Zenon DEF Sound
  <2> QED
    BY <2>9, <2>10
<1> QED
  BY <1>1, <1>2

(* The recursive function of Order exists, and all its values are sound.   *)
LEMMA OrderSound ==
  ASSUME NEW g, IsFiniteSet(Nodes(g)), Nodes(g) \subseteq Nat
  PROVE  Sound(g, Order(g))
<1>0. PICK N \in Nat : N = Cardinality(Nodes(g))
  BY FS_CardinalityType
<1> DEFINE Is(f, n) == f = [k \in 0..n |-> IF k = 0 THEN <<>> ELSE Extend(g, f[k - 1])]
           Good(n)  == \E f : Is(f, n) /\ Sound(g, f[n])
<1>1. \A n \in 0..N : Good(n)
  <2> DEFINE S == {n \in 0..N : ~Good(n)}
  <2> SUFFICES ASSUME S # {} PROVE FALSE
    OBVIOUS
  <2>1. S \subseteq Nat
    BY <1>0
  <2>2. PICK m \in S : \A n \in S : m <= n
    <3> HIDE DEF S
    <3> QED
      BY <2>1, HasLeast
  <2>3. CASE m = 0
    <3>1. PICK f : f = [k \in 0..0 |-> <<>>]
      OBVIOUS
    <3>2. Is(f, 0) /\ f[0] = <<>>
      BY <3>1
    <3>3. Sound(g, <<>>)
      BY DEF Sound
    <3> QED
      BY <2>2, <2>3, <3>2, <3>3
  <2>4. CASE m # 0
    <3>1. m - 1 \in 0..N /\ m - 1 \notin S
      BY <1>0, <2>2, <2>4
    <3>2. PICK f : Is(f, m - 1) /\ Sound(g, f[m - 1])
      BY <3>1
    <3>3. PICK h : h = [k \in 0..m |-> IF k < m THEN f[k] ELSE Extend(g, f[m - 1])]
      OBVIOUS
    <3>4. \A k \in 0..m : h[k] = IF k = 0 THEN <<>> ELSE Extend(g, h[k - 1])
      <4> SUFFICES ASSUME NEW k \in 0..m
                   PROVE  h[k] = IF k = 0 THEN <<>> ELSE Extend(g, h[k - 1])
        OBVIOUS
      <4>1. CASE k = m
        <5>1. m - 1 \in 0..m /\ m - 1 < m
          BY <1>0, <2>4
        <5> QED
          BY <2>4, <3>3, <4>1, <5>1
      <4>2. CASE k < m
        <5>1. f[k] = IF k = 0 THEN <<>> ELSE Extend(g, f[k - 1])
          BY <1>0, <3>2, <4>2
        <5>2. k # 0 => k - 1 \in 0..m /\ k - 1 < m
          BY <1>0, <4>2
        <5> QED
          BY <3>3, <4>2, <5>1, <5>2
      <4> QED
        BY <1>0, <4>1, <4>2
    <3>5. Is(h, m)
      BY <3>3, <3>4
    <3>6. h[m] = Extend(g, f[m - 1])
      BY <1>0, <3>3
    <3> QED
      BY <2>2, <3>2, <3>5, <3>6, ExtendSound
  <2> QED
    BY <2>3, <2>4
<1>2. Order(g) = (CHOOSE f : Is(f, N))[N]
  BY <1>0 DEF Order
<1>3. PICK f : Is(f, N) /\ Sound(g, f[N])
  BY <1>0, <1>1
<1>4. PICK c : c = CHOOSE h : Is(h, N)
  OBVIOUS
<1>5. Is(c, N)
  BY <1>3, <1>4
<1>6. f = c
  <2> DEFINE S == {n \in 0..N : f[n] # c[n]}
  <2>1. S \subseteq Nat
    BY <1>0
  <2>2. S = {}
    <3> SUFFICES ASSUME S # {} PROVE FALSE
      OBVIOUS
    <3>1. PICK m \in S : \A n \in S : m <= n
      <4> HIDE DEF S
      <4> QED
        BY <2>1, HasLeast
    <3>2. f[m] = IF m = 0 THEN <<>> ELSE Extend(g, f[m - 1])
      BY <1>3, <3>1
    <3>3. c[m] = IF m = 0 THEN <<>> ELSE Extend(g, c[m - 1])
      BY <1>5, <3>1
    <3>4. m # 0 => m - 1 \in 0..N /\ m - 1 \notin S
      BY <1>0, <3>1
    <3> QED
      BY <3>1, <3>2, <3>3, <3>4
  <2>3. \A n \in 0..N : f[n] = c[n]
    BY <2>2
  <2>4. f = [k \in 0..N |-> f[k]] /\ c = [k \in 0..N |-> c[k]]
    BY <1>3, <1>5
  <2> QED
    BY <2>3, <2>4
<1> QED
  BY <1>2, <1>3, <1>4, <1>6

LEMMA OrderComplete ==
  ASSUME NEW g, IsFiniteSet(Nodes(g)), Nodes(g) \subseteq Nat, Acyclic(g)
  PROVE  \A n \in Nodes(g) : \E i \in 1..Len(Order(g)) : Order(g)[i] = n
<1>1. PICK s : s = Order(g)
  OBVIOUS
<1>2. Sound(g, s) /\ Len(s) = Cardinality(Nodes(g))
  BY <1>1, OrderSound DEF Acyclic
<1>3. s \in [1..Len(s) -> Nodes(g)] /\ Len(s) \in Nat
  BY <1>2 DEF Sound
<1>4. s \in Injection(1..Len(s), Nodes(g))
  BY <1>2, <1>3 DEF Sound, Injection, IsInjective
<1>5. Cardinality(1..Len(s)) = Len(s)
  <2>1. 1 \in Int /\ Len(s) \in Int /\ (1 > Len(s) => Len(s) = 0) /\ Len(s) - 1 + 1 = Len(s)
    BY <1>3
  <2> QED
    BY <2>1, FS_Interval
<1>6. s \in Surjection(1..Len(s), Nodes(g))
  BY <1>2, <1>4, <1>5, FS_Injection
<1> QED
  BY <1>1, <1>6 DEF Surjection

-----------------------------------------------------------------------------
(* Paths.                                                                  *)

Reaches(f, S, R, size) ==
    f = [k \in 0..size |-> IF k = 0 THEN S
                           ELSE f[k - 1] \cup {e[2] : e \in {d \in R : d[1] \in f[k - 1]}}]

LEMMA ReachExists ==
  ASSUME NEW S, NEW R, NEW size \in Nat
  PROVE  \E f : Reaches(f, S, R, size) /\ Reachable(S, R, size) = f[size]
<1>1. \A n \in 0..size : \E f : Reaches(f, S, R, n)
  <2> DEFINE X == {n \in 0..size : ~\E f : Reaches(f, S, R, n)}
  <2> SUFFICES ASSUME X # {} PROVE FALSE
    OBVIOUS
  <2>1. X \subseteq Nat
    OBVIOUS
  <2>2. PICK m \in X : \A n \in X : m <= n
    <3> HIDE DEF X
    <3> QED
      BY <2>1, HasLeast
  <2>3. CASE m = 0
    <3>1. Reaches([k \in 0..0 |-> S], S, R, 0)
      BY DEF Reaches
    <3> QED
      BY <2>2, <2>3, <3>1
  <2>4. CASE m # 0
    <3>1. m - 1 \in 0..size /\ m - 1 \notin X
      BY <2>2, <2>4
    <3>2. PICK f : Reaches(f, S, R, m - 1)
      BY <3>1
    <3> DEFINE Next1(B) == B \cup {e[2] : e \in {d \in R : d[1] \in B}}
    <3>3. PICK h : h = [k \in 0..m |-> IF k < m THEN f[k] ELSE Next1(f[m - 1])]
      OBVIOUS
    <3>4. \A k \in 0..m : h[k] = IF k = 0 THEN S ELSE Next1(h[k - 1])
      <4> SUFFICES ASSUME NEW k \in 0..m
                   PROVE  h[k] = IF k = 0 THEN S ELSE Next1(h[k - 1])
        OBVIOUS
      <4>0. \A j \in 0..(m - 1) : f[j] = IF j = 0 THEN S ELSE Next1(f[j - 1])
        BY <3>2 DEF Reaches
      <4> HIDE DEF Next1
      <4>1. CASE k = m
        <5>1. m - 1 \in 0..m /\ m - 1 < m
          BY <2>4
        <5> QED
          BY <2>4, <3>3, <4>1, <5>1
      <4>2. CASE k < m
        <5>1. f[k] = IF k = 0 THEN S ELSE Next1(f[k - 1])
          BY <4>0, <4>2
        <5>2. k # 0 => k - 1 \in 0..m /\ k - 1 < m
          BY <4>2
        <5> QED
          BY <3>3, <4>2, <5>1, <5>2
      <4> QED
        BY <4>1, <4>2
    <3>5. h = [k \in 0..m |-> IF k = 0 THEN S ELSE Next1(h[k - 1])]
      <4> HIDE DEF Next1
      <4> QED
        BY <3>3, <3>4
    <3>6. Reaches(h, S, R, m)
      BY <3>5 DEF Reaches
    <3> QED
      BY <2>2, <3>6
  <2> QED
    BY <2>3, <2>4
<1>2. PICK c : c = CHOOSE f : Reaches(f, S, R, size)
  OBVIOUS
<1>3. Reaches(c, S, R, size)
  BY <1>1, <1>2
<1>4. Reachable(S, R, size) = c[size]
  BY <1>2 DEF Reachable, Reaches
<1> QED
  BY <1>3, <1>4

(* What is reached lies in every set that the edges do not leave.          *)
LEMMA ReachClosed ==
  ASSUME NEW S, NEW R, NEW size \in Nat, NEW T, S \subseteq T,
         \A e \in R : e[1] \in T => e[2] \in T
  PROVE  Reachable(S, R, size) \subseteq T
<1>1. PICK f : Reaches(f, S, R, size) /\ Reachable(S, R, size) = f[size]
  BY ReachExists
<1>2. \A n \in 0..size : f[n] \subseteq T
  <2> DEFINE X == {n \in 0..size : ~(f[n] \subseteq T)}
  <2> SUFFICES ASSUME X # {} PROVE FALSE
    OBVIOUS
  <2>1. X \subseteq Nat
    OBVIOUS
  <2>2. PICK m \in X : \A n \in X : m <= n
    <3> HIDE DEF X
    <3> QED
      BY <2>1, HasLeast
  <2>3. f[m] = IF m = 0 THEN S ELSE f[m - 1] \cup {e[2] : e \in {d \in R : d[1] \in f[m - 1]}}
    BY <1>1, <2>2 DEF Reaches
  <2>4. m # 0 => f[m - 1] \subseteq T
    <3> SUFFICES ASSUME m # 0 PROVE f[m - 1] \subseteq T
      OBVIOUS
    <3>1. m - 1 \in 0..size /\ m - 1 \notin X
      BY <2>2
    <3> QED
      BY <3>1
  <2>5. f[m] \subseteq T
    BY <2>3, <2>4
  <2> QED
    BY <2>2, <2>5
<1> QED
  BY <1>1, <1>2

LEMMA ReachStart ==
  ASSUME NEW S, NEW R, NEW size \in Nat
  PROVE  S \subseteq Reachable(S, R, size)
<1>1. PICK f : Reaches(f, S, R, size) /\ Reachable(S, R, size) = f[size]
  BY ReachExists
<1>2. \A n \in 0..size : S \subseteq f[n]
  <2> DEFINE X == {n \in 0..size : ~(S \subseteq f[n])}
  <2> SUFFICES ASSUME X # {} PROVE FALSE
    OBVIOUS
  <2>1. X \subseteq Nat
    OBVIOUS
  <2>2. PICK m \in X : \A n \in X : m <= n
    <3> HIDE DEF X
    <3> QED
      BY <2>1, HasLeast
  <2>3. f[m] = IF m = 0 THEN S ELSE f[m - 1] \cup {e[2] : e \in {d \in R : d[1] \in f[m - 1]}}
    BY <1>1, <2>2 DEF Reaches
  <2>4. m # 0 => m - 1 \in 0..size /\ m - 1 \notin X
    BY <2>2
  <2>5. m # 0 => S \subseteq f[m - 1]
    BY <2>4
  <2>6. S \subseteq f[m]
    BY <2>3, <2>5
  <2> QED
    BY <2>2, <2>6
<1> QED
  BY <1>1, <1>2

-----------------------------------------------------------------------------
(* Graphs that are let through.                                            *)

(* What an execution needs of its graph.                                   *)
Runnable(g) ==
    /\ Acyclic(g)
    /\ \A n \in Nodes(g) : Upstreams(g, n) = Arity(g.kind[n]) /\ Sources(g, n) \subseteq Nodes(g)

(* No node comes after all the outputs.                                    *)
LeadsOn(g) ==
    \A i \in 1..Len(Order(g)) : \E k \in i..Len(Order(g)) : Order(g)[k] \in Outputs(g)

LEMMA ValidRuns ==
  ASSUME NEW g, NEW b \in BOOLEAN, Valid(g, b)
  PROVE  Runnable(g)
<1>1. ASSUME NEW n \in Nodes(g) PROVE Sources(g, n) \subseteq Nodes(g)
  BY DEF Valid, Drawn, Sources
<1> QED
  BY <1>1 DEF Valid, Runnable

LEMMA ValidLeadsOn ==
  ASSUME NEW g, IsFiniteSet(Nodes(g)), Nodes(g) \subseteq Nat, Valid(g, TRUE)
  PROVE  LeadsOn(g)
<1>1. PICK s : s = Order(g)
  OBVIOUS
<1>2. Sound(g, s) /\ s \in Seq(Nodes(g)) /\ Len(s) \in Nat
  BY <1>1, OrderSound DEF Sound
<1>3. \A n \in Nodes(g) : \E i \in 1..Len(s) : s[i] = n
  BY <1>1, OrderComplete DEF Valid
<1> DEFINE T == {n \in Nodes(g) : \E i \in 1..Len(s) : s[i] = n /\ \E k \in i..Len(s) : s[k] \in Outputs(g)}
           R == {<<e[2], e[1]>> : e \in Drawn(g)}
<1>4. Outputs(g) \subseteq T
  <2>1. ASSUME NEW o \in Outputs(g) PROVE o \in T
    <3>1. o \in Nodes(g)
      BY DEF Outputs, OfKind
    <3>2. PICK i \in 1..Len(s) : s[i] = o
      BY <1>3, <3>1
    <3>3. i \in i..Len(s)
      BY <1>2, <3>2
    <3> QED
      BY <3>1, <3>2, <3>3
  <2> QED
    BY <2>1
<1>5. \A e \in R : e[1] \in T => e[2] \in T
  <2> SUFFICES ASSUME NEW e \in Drawn(g), e[2] \in T PROVE e[1] \in T
    OBVIOUS
  <2>1. e[1] \in Nodes(g) /\ e[1] \in Sources(g, e[2])
    BY DEF Drawn, Sources
  <2>2. PICK i \in 1..Len(s) : s[i] = e[2] /\ \E k \in i..Len(s) : s[k] \in Outputs(g)
    OBVIOUS
  <2>3. PICK j \in 1..(i - 1) : s[j] = e[1]
    <3>1. Sources(g, s[i]) \cap Nodes(g) \subseteq {s[j] : j \in 1..(i - 1)}
      BY <1>2, <2>2 DEF Sound
    <3>2. e[1] \in {s[j] : j \in 1..(i - 1)}
      BY <2>1, <2>2, <3>1
    <3> QED
      BY <3>2
  <2>4. j \in 1..Len(s) /\ \A k \in i..Len(s) : k \in j..Len(s)
    BY <1>2, <2>2, <2>3
  <2> QED
    BY <2>1, <2>2, <2>3, <2>4
<1>6. Cardinality(Nodes(g)) \in Nat
  BY FS_CardinalityType
<1>7. Backward(g, Outputs(g)) \subseteq T
  <2> HIDE DEF T, R
  <2>1. Reachable(Outputs(g), R, Cardinality(Nodes(g))) \subseteq T
    BY <1>4, <1>5, <1>6, ReachClosed
  <2> QED
    BY <2>1 DEF Backward, R
<1>8. ASSUME NEW i \in 1..Len(s) PROVE \E k \in i..Len(s) : s[k] \in Outputs(g)
  <2>1. s[i] \in Nodes(g)
    BY <1>2
  <2>2. s[i] \in T
    BY <1>7, <2>1 DEF Valid
  <2>3. PICK j \in 1..Len(s) : s[j] = s[i] /\ \E k \in j..Len(s) : s[k] \in Outputs(g)
    BY <2>2
  <2>4. j = i
    BY <1>2, <2>3 DEF Sound
  <2> QED
    BY <2>3, <2>4
<1> QED
  BY <1>1, <1>8 DEF LeadsOn

(* What leads to a node is part of the graph, with the node.               *)
LEMMA SubgraphNodes ==
  ASSUME NEW g, IsFiniteSet(Nodes(g)), NEW n \in Nodes(g)
  PROVE  Nodes(Subgraph(g, n)) \subseteq Nodes(g) /\ n \in Nodes(Subgraph(g, n))
<1>1. Nodes(Subgraph(g, n)) = Backward(g, {n})
  BY DEF Nodes, Subgraph, Restrict
<1>2. Cardinality(Nodes(g)) \in Nat
  BY FS_CardinalityType
<1>3. PICK R : R = {<<e[2], e[1]>> : e \in Drawn(g)}
  OBVIOUS
<1>4. \A e \in R : e[2] \in Nodes(g)
  BY <1>3 DEF Drawn
<1>5. Reachable({n}, R, Cardinality(Nodes(g))) \subseteq Nodes(g)
  BY <1>2, <1>4, ReachClosed
<1>6. n \in Reachable({n}, R, Cardinality(Nodes(g)))
  BY <1>2, ReachStart
<1> QED
  BY <1>1, <1>3, <1>5, <1>6 DEF Backward

LEMMA GraphsFinite ==
  ASSUME NEW g \in Graphs
  PROVE  IsFiniteSet(Nodes(g)) /\ Nodes(g) \subseteq Nat
BY GraphsAssumption DEF Nodes

(* A union is no larger than its parts together.                           *)
LEMMA UnionBound ==
  ASSUME NEW S, NEW T, IsFiniteSet(S), IsFiniteSet(T)
  PROVE  /\ IsFiniteSet(S \cup T)
         /\ Cardinality(S) \in Nat /\ Cardinality(T) \in Nat /\ Cardinality(S \cup T) \in Nat
         /\ Cardinality(S \cup T) <= Cardinality(S) + Cardinality(T)
<1>1. IsFiniteSet(S \cup T) /\ Cardinality(S \cup T) = Cardinality(S) + Cardinality(T) - Cardinality(S \cap T)
  BY FS_Union
<1>2. IsFiniteSet(S \cap T)
  BY FS_Intersection
<1>3. Cardinality(S) \in Nat /\ Cardinality(T) \in Nat /\ Cardinality(S \cup T) \in Nat /\ Cardinality(S \cap T) \in Nat
  BY <1>1, <1>2, FS_CardinalityType
<1> QED
  BY <1>1, <1>3

-----------------------------------------------------------------------------
(* The inductive invariant of the executions of a graph.                   *)

Prefix(g, k) == {Order(g)[i] : i \in 1..k}

Walking == phase \in {"count", "compute", "write"}

Going == phase \in {"next", "compute", "write", "settle", "review", "finish"}

(* Nothing has been executed yet.                                          *)
StartOK ==
    /\ phase \in {"draft", "saved", "published"} =>
          /\ sub = graph /\ rel = {} /\ made = {} /\ runRow = "none"
          /\ \A o \in Outputs(graph) : res[o] = "none"
    /\ phase = "published" => Valid(graph, TRUE)
    /\ phase = "open" => /\ hybrid /\ rel = {} /\ made = {}
                         /\ \A o \in Outputs(graph) : res[o] = "none"

(* An execution has computed the first nodes in the order, and its goal is *)
(* the last of them or still to come.                                      *)
WalkOK ==
    /\ Walking => Runnable(sub) /\ rel = Prefix(sub, Cardinality(rel))
    /\ phase = "count" => rel # Nodes(sub) /\ rel \subseteq result /\ ~hybrid
    /\ phase = "compute" => goal \in Nodes(sub) \ rel
    /\ phase = "write" => rel # {} /\ Order(sub)[Cardinality(rel)] = goal
    /\ phase \in {"compute", "write"} /\ runRow # "none" =>
          goal \in Outputs(graph) /\ res[goal] = "none"

(* A run takes the whole graph, which leads to outputs only.               *)
WholeOK ==
    /\ phase \in {"open", "count", "next", "settle", "review", "finish"} => runRow # "none"
    /\ runRow # "none" => sub = graph /\ Runnable(graph) /\ LeadsOn(graph)
    /\ phase # "done" => /\ runRow \in {"none", "processing"}
                         /\ \A n \in Nodes(graph) : stepRow[n] \in {"none", "processing"}

(* What the results of outputs say.                                        *)
ResultOK ==
    /\ \A o \in Outputs(graph) : res[o] = "error" => failures > 0
    /\ \A o \in Outputs(graph) : res[o] = "ok" => target[o] = "new"
    /\ Going /\ runRow # "none" =>
          \/ Nodes(graph) \subseteq result
          \/ /\ hybrid
             /\ \A i, k \in 1..Len(Order(graph)) :
                   /\ i <= k /\ Order(graph)[k] \in Outputs(graph)
                   /\ res[Order(graph)[k]] = "ok"
                   => Order(graph)[i] \in result
    /\ phase \in {"settle", "review", "finish"} => \A o \in Outputs(graph) : res[o] # "none"
    /\ phase = "review" => Refused = {}
    /\ phase = "finish" /\ Refused = {} => review = TRUE

(* Every table that is not of a node just computed has a failure.          *)
MadeOK == Cardinality(IF phase \in {"compute", "write"} THEN made \ rel ELSE made) <= failures

GraphInv ==
    /\ GraphTypeOK /\ graph \in Graphs /\ Nodes(sub) \subseteq Nodes(graph)
    /\ StartOK /\ WalkOK /\ WholeOK /\ ResultOK /\ MadeOK /\ GraphRuns

LEMMA GraphInvStart == GraphInit => GraphInv
<1> SUFFICES ASSUME GraphInit PROVE GraphInv
  OBVIOUS
<1> USE DEF GraphInit
<1>1. GraphTypeOK
  <2>1. failures \in 0..MaxFailures
    BY GraphsAssumption
  <2>2. /\ res \in [Outputs(graph) -> {"none", "ok", "error"}]
        /\ target \in [Outputs(graph) -> {"old", "gone", "new"}]
        /\ outRow \in [Outputs(graph) -> {"none", "pending", "completed", "failed"}]
        /\ stepRow \in [Nodes(graph) -> {"none", "processing", "completed", "guessed", "failed"}]
    OBVIOUS
  <2> QED
    BY <2>1, <2>2 DEF GraphTypeOK
<1>2. StartOK /\ WalkOK /\ WholeOK /\ ResultOK
  BY DEF StartOK, WalkOK, Walking, WholeOK, ResultOK, Going
<1>3. MadeOK /\ GraphRuns
  BY FS_EmptySet DEF MadeOK, GraphRuns
<1> QED
  BY <1>1, <1>2, <1>3 DEF GraphInv

(* The node whose turn it is has its upstreams.                            *)
LEMMA TurnOK ==
  ASSUME GraphInv, phase \in {"count", "compute"}
  PROVE  /\ Turn \in Nodes(sub) \ rel /\ Fits(Turn)
         /\ Cardinality(rel) \in Nat /\ Cardinality(rel \cup {Turn}) = Cardinality(rel) + 1
         /\ rel \cup {Turn} = Prefix(sub, Cardinality(rel \cup {Turn}))
         /\ Order(sub)[Cardinality(rel \cup {Turn})] = Turn
<1>1. PICK g : g = sub
  OBVIOUS
<1>2. PICK s : s = Order(g)
  OBVIOUS
<1>3. PICK k : k = Cardinality(rel)
  OBVIOUS
<1>4. graph \in Graphs /\ rel \subseteq Nodes(g) /\ Nodes(g) \subseteq Nodes(graph)
  BY <1>1 DEF GraphInv, GraphTypeOK
<1>5. IsFiniteSet(Nodes(g)) /\ Nodes(g) \subseteq Nat /\ IsFiniteSet(rel) /\ k \in Nat
  BY <1>3, <1>4, GraphsFinite, FS_Subset, FS_CardinalityType
<1>6. Runnable(g) /\ rel = Prefix(g, k) /\ rel # Nodes(g)
  BY <1>1, <1>3 DEF GraphInv, WalkOK, Walking
<1>7. Sound(g, s) /\ Len(s) = Cardinality(Nodes(g)) /\ s \in Seq(Nodes(g)) /\ Len(s) \in Nat
  BY <1>2, <1>5, <1>6, OrderSound DEF Runnable, Acyclic, Sound
<1>8. k < Len(s)
  <2>1. k <= Len(s) /\ k # Len(s)
    BY <1>3, <1>4, <1>5, <1>6, <1>7, FS_Subset
  <2> QED
    BY <1>5, <1>7, <2>1
<1>9. k + 1 \in 1..Len(s) /\ Turn = s[k + 1] /\ Turn \in Nodes(g)
  BY <1>1, <1>2, <1>3, <1>5, <1>7, <1>8 DEF Turn
<1>10. rel = {s[j] : j \in 1..k}
  BY <1>2, <1>6 DEF Prefix
<1>11. Turn \notin rel
  <2>1. \A j \in 1..k : j \in 1..Len(s) /\ j # k + 1
    BY <1>5, <1>7, <1>8
  <2>2. \A j \in 1..k : s[j] # s[k + 1]
    BY <1>7, <1>9, <2>1 DEF Sound
  <2> QED
    BY <1>9, <1>10, <2>2
<1>12. Sources(g, Turn) \subseteq rel
  <2>1. Sources(g, s[k + 1]) \cap Nodes(g) \subseteq {s[j] : j \in 1..((k + 1) - 1)}
    BY <1>7, <1>9 DEF Sound
  <2>2. (k + 1) - 1 = k
    BY <1>5
  <2>3. Sources(g, Turn) \subseteq Nodes(g)
    BY <1>6, <1>9 DEF Runnable
  <2> QED
    BY <1>9, <1>10, <2>1, <2>2, <2>3
<1>13. Fits(Turn)
  BY <1>1, <1>6, <1>9, <1>12 DEF Fits, Runnable
<1>14. Cardinality(rel \cup {Turn}) = k + 1
  BY <1>3, <1>5, <1>11, FS_AddElement
<1>15. rel \cup {Turn} = {s[j] : j \in 1..(k + 1)}
  <2>1. \A j : j \in 1..(k + 1) <=> j \in 1..k \/ j = k + 1
    BY <1>5
  <2> QED
    BY <1>9, <1>10, <2>1
<1> QED
  BY <1>1, <1>2, <1>3, <1>5, <1>9, <1>11, <1>13, <1>14, <1>15 DEF Prefix

LEMMA GraphFinite ==
  ASSUME GraphInv
  PROVE  /\ IsFiniteSet(Nodes(graph)) /\ Nodes(graph) \subseteq Nat /\ Outputs(graph) \subseteq Nodes(graph)
         /\ \A S : S \subseteq Nodes(graph) => IsFiniteSet(S) /\ Cardinality(S) \in Nat
         /\ IsFiniteSet(made) /\ IsFiniteSet(rel)
         /\ \A S \in SUBSET rel : IsFiniteSet(S) /\ Cardinality(S) \in Nat
         /\ failures \in Nat /\ MaxFailures \in Nat
<1>1. graph \in Graphs /\ made \subseteq Nodes(graph) /\ rel \subseteq Nodes(graph)
  BY DEF GraphInv, GraphTypeOK
<1>2. IsFiniteSet(Nodes(graph)) /\ Nodes(graph) \subseteq Nat
  BY <1>1, GraphsFinite
<1>3. \A S : S \subseteq Nodes(graph) => IsFiniteSet(S) /\ Cardinality(S) \in Nat
  BY <1>2, FS_Subset, FS_CardinalityType
<1>4. failures \in Nat /\ MaxFailures \in Nat
  BY GraphsAssumption DEF GraphInv, GraphTypeOK
<1>5. Outputs(graph) \subseteq Nodes(graph)
  BY DEF Outputs, OfKind
<1> QED
  BY <1>1, <1>2, <1>3, <1>4, <1>5

LEMMA UsersInv ==
  ASSUME GraphInv, SaveDraftGraph \/ PublishGraph
  PROVE  GraphInv'
<1> USE DEF SaveDraftGraph, PublishGraph, execVarsG, rowVars, Unfailing_G
<1>1. GraphTypeOK' /\ (graph \in Graphs /\ Nodes(sub) \subseteq Nodes(graph))'
  BY DEF GraphInv, GraphTypeOK
<1>2. StartOK'
  BY DEF GraphInv, StartOK
<1>3. WalkOK' /\ WholeOK'
  BY DEF GraphInv, WalkOK, Walking, WholeOK
<1>4. ResultOK'
  BY DEF GraphInv, ResultOK, Going
<1>5. MadeOK'
  BY DEF GraphInv, MadeOK
<1>6. GraphRuns'
  <2>1. phase \in {"draft", "saved"} /\ phase' # "done" /\ UNCHANGED <<runRow, misfit>>
    OBVIOUS
  <2>2. runRow = "none" /\ ~misfit
    BY <2>1 DEF GraphInv, StartOK, GraphRuns
  <2> QED
    BY <2>1, <2>2 DEF GraphRuns
<1> QED
  BY <1>1, <1>2, <1>3, <1>4, <1>5, <1>6 DEF GraphInv

LEMMA PreviewInv ==
  ASSUME GraphInv, NEW n \in Nodes(graph), Preview(n)
  PROVE  GraphInv'
<1> USE DEF Preview, rowVars, Unfailing_G
<1>1. PICK h : h = Subgraph(graph, n)
  OBVIOUS
<1>2. sub' = h /\ Nodes(h) \subseteq Nodes(graph) /\ n \in Nodes(h)
  BY <1>1, GraphFinite, SubgraphNodes
<1>3. Runnable(h)
  BY <1>1, ValidRuns
<1>4. rel = {} /\ made = {} /\ runRow = "none"
  BY DEF GraphInv, StartOK
<1>5. GraphTypeOK' /\ (graph \in Graphs /\ Nodes(sub) \subseteq Nodes(graph))'
  BY <1>2, <1>4 DEF GraphInv, GraphTypeOK
<1>6. WalkOK'
  <2>1. Prefix(h, Cardinality(rel)) = {}
    BY <1>4, FS_EmptySet DEF Prefix
  <2> QED
    BY <1>2, <1>3, <1>4, <2>1 DEF WalkOK, Walking
<1>7. StartOK' /\ WholeOK'
  BY <1>4 DEF GraphInv, StartOK, WholeOK
<1>8. ResultOK'
  BY <1>4 DEF GraphInv, ResultOK, Going
<1>9. MadeOK' /\ GraphRuns'
  BY <1>4 DEF GraphInv, MadeOK, GraphRuns
<1> QED
  BY <1>5, <1>6, <1>7, <1>8, <1>9 DEF GraphInv

LEMMA StartRunInv ==
  ASSUME GraphInv, StartRun
  PROVE  GraphInv'
<1> USE DEF StartRun, execVarsG, Unfailing_G
<1>1. Valid(graph, TRUE) /\ sub = graph /\ rel = {} /\ made = {}
      /\ \A o \in Outputs(graph) : res[o] = "none"
  BY DEF GraphInv, StartOK
<1>2. Runnable(graph) /\ LeadsOn(graph)
  BY <1>1, GraphFinite, ValidRuns, ValidLeadsOn
<1>3. Nodes(graph) # {}
  BY <1>1 DEF Valid, OfKind
<1>4. GraphTypeOK' /\ (graph \in Graphs /\ Nodes(sub) \subseteq Nodes(graph))'
  BY DEF GraphInv, GraphTypeOK
<1>5. WalkOK'
  <2>1. Prefix(graph, Cardinality(rel)) = {}
    BY <1>1, FS_EmptySet DEF Prefix
  <2> QED
    BY <1>1, <1>2, <1>3, <2>1 DEF GraphInv, GraphTypeOK, WalkOK, Walking
<1>6. StartOK' /\ WholeOK'
  BY <1>1, <1>2 DEF GraphInv, StartOK, WholeOK
<1>7. ResultOK'
  <2>1. ~Going'
    BY DEF Going
  <2> QED
    BY <1>1, <2>1 DEF GraphInv, ResultOK
<1>8. MadeOK' /\ GraphRuns'
  BY <1>1 DEF GraphInv, MadeOK, GraphRuns
<1> QED
  BY <1>4, <1>5, <1>6, <1>7, <1>8 DEF GraphInv

LEMMA StartFailsInv ==
  ASSUME GraphInv, StartFails
  PROVE  GraphInv'
<1> USE DEF StartFails, Fails
<1>1. sub = graph /\ rel = {} /\ made = {} /\ Valid(graph, TRUE)
  BY DEF GraphInv, StartOK
<1>2. Runnable(graph) /\ LeadsOn(graph)
  BY <1>1, GraphFinite, ValidRuns, ValidLeadsOn
<1>3. failures \in Nat /\ failures' \in Nat /\ failures' > 0 /\ failures' \in 0..MaxFailures
  BY GraphFinite
<1>4. /\ stepRow' \in [Nodes(graph) -> {"none", "processing", "completed", "guessed", "failed"}]
      /\ outRow' \in [Outputs(graph) -> {"none", "pending", "completed", "failed"}]
  OBVIOUS
<1>5. GraphTypeOK' /\ (graph \in Graphs /\ Nodes(sub) \subseteq Nodes(graph))'
  BY <1>3, <1>4 DEF GraphInv, GraphTypeOK, execVarsG
<1>6. StartOK' /\ WalkOK' /\ WholeOK'
  BY <1>1, <1>2 DEF GraphInv, StartOK, WalkOK, Walking, WholeOK, execVarsG
<1>7. ResultOK'
  BY <1>3 DEF GraphInv, ResultOK, Going, execVarsG
<1>8. MadeOK' /\ GraphRuns'
  BY <1>1, <1>3, FS_EmptySet DEF GraphInv, MadeOK, GraphRuns
<1> QED
  BY <1>5, <1>6, <1>7, <1>8 DEF GraphInv

(* A run that fails as a whole.                                            *)
LEMMA FailRunInv ==
  ASSUME GraphInv, FailRun, phase \in {"open", "count"},
         Fails(1) \/ (~asked /\ UNCHANGED failures),
         UNCHANGED <<graph, hybrid, asked, sub, goal, rel, made, result, res, target, misfit>>
  PROVE  GraphInv'
<1> USE DEF FailRun, Fails
<1>1. failures \in Nat /\ failures' \in Nat /\ failures' >= failures /\ failures' \in 0..MaxFailures
      /\ (asked => failures' > 0)
  BY GraphFinite DEF GraphInv, GraphTypeOK
<1>2. sub = graph /\ Runnable(graph) /\ LeadsOn(graph)
  BY DEF GraphInv, WholeOK
<1>3. GraphTypeOK' /\ (graph \in Graphs /\ Nodes(sub) \subseteq Nodes(graph))'
  BY <1>1 DEF GraphInv, GraphTypeOK
<1>4. StartOK' /\ WalkOK' /\ WholeOK'
  BY <1>2 DEF GraphInv, StartOK, WalkOK, Walking, WholeOK
<1>5. ResultOK'
  BY <1>1 DEF GraphInv, ResultOK, Going
<1>6. MadeOK'
  <2>1. Cardinality(made) <= failures /\ Cardinality(made) \in Nat
    BY GraphFinite DEF GraphInv, GraphTypeOK, MadeOK
  <2> QED
    BY <1>1, <2>1 DEF MadeOK
<1>7. GraphRuns'
  BY <1>1, <1>6 DEF GraphInv, GraphRuns, MadeOK
<1> QED
  BY <1>3, <1>4, <1>5, <1>6, <1>7 DEF GraphInv

LEMMA OpenInv ==
  ASSUME GraphInv, OpenHybrid
  PROVE  GraphInv'
<1>1. CASE FailRun
  <2>1. phase = "open" /\ phase' = "done"
    BY <1>1 DEF OpenHybrid, FailRun
  <2>2. Fails(1) \/ (~asked /\ UNCHANGED failures)
    BY <2>1 DEF OpenHybrid, Unfailing_G
  <2>3. UNCHANGED <<graph, hybrid, asked, sub, goal, rel, made, result, res, target, misfit>>
    BY <2>1 DEF OpenHybrid, execVarsG, Unfailing_G
  <2> QED
    BY <1>1, <2>1, <2>2, <2>3, FailRunInv
<1>2. CASE asked /\ phase' = "next" /\ UNCHANGED rowVars /\ Unfailing_G
  <2> USE <1>2 DEF OpenHybrid, execVarsG, rowVars, Unfailing_G
  <2>1. hybrid /\ made = {} /\ \A o \in Outputs(graph) : res[o] = "none"
    BY DEF GraphInv, StartOK
  <2>2. GraphTypeOK' /\ (graph \in Graphs /\ Nodes(sub) \subseteq Nodes(graph))'
    BY DEF GraphInv, GraphTypeOK
  <2>3. StartOK' /\ WalkOK' /\ WholeOK'
    BY DEF GraphInv, StartOK, WalkOK, Walking, WholeOK
  <2>4. ResultOK'
    BY <2>1 DEF GraphInv, ResultOK, Going
  <2>5. MadeOK' /\ GraphRuns'
    BY <2>1 DEF GraphInv, MadeOK, GraphRuns, WholeOK
  <2> QED
    BY <2>2, <2>3, <2>4, <2>5 DEF GraphInv
<1> QED
  BY <1>1, <1>2 DEF OpenHybrid

LEMMA CountInv ==
  ASSUME GraphInv, CountNode
  PROVE  GraphInv'
<1>1. phase = "count"
  BY DEF CountNode
<1>2. /\ Turn \in Nodes(sub) \ rel /\ Fits(Turn)
      /\ rel \cup {Turn} = Prefix(sub, Cardinality(rel \cup {Turn}))
  BY <1>1, TurnOK
<1>3. CASE FailRun /\ Fails(1) /\ UNCHANGED <<rel, result, misfit>>
  BY <1>1, <1>3, FailRunInv DEF CountNode
<1>4. CASE /\ rel' = rel \cup {Turn} /\ result' = result \cup {Turn}
           /\ phase' = IF rel' = Nodes(sub) THEN "next" ELSE "count"
           /\ UNCHANGED rowVars /\ Unfailing_G
           /\ UNCHANGED <<graph, hybrid, asked, sub, goal, res, target, made>>
  <2> USE <1>4 DEF rowVars, Unfailing_G
  <2>1. sub = graph
    BY <1>1 DEF GraphInv, WholeOK
  <2>2. GraphTypeOK' /\ (graph \in Graphs /\ Nodes(sub) \subseteq Nodes(graph))'
    BY <1>2, <2>1 DEF GraphInv, GraphTypeOK
  <2>3. StartOK' /\ WholeOK'
    BY <1>1 DEF GraphInv, StartOK, WholeOK
  <2>4. rel' \subseteq result'
    BY <1>1 DEF GraphInv, WalkOK
  <2>5. WalkOK'
    <3>1. (rel = Prefix(sub, Cardinality(rel)))'
      BY <1>2
    <3> QED
      BY <1>1, <2>4, <3>1 DEF GraphInv, WalkOK, Walking
  <2>6. ResultOK'
    BY <1>1, <2>1, <2>4 DEF GraphInv, ResultOK, Going
  <2>7. MadeOK' /\ GraphRuns'
    BY <1>1 DEF GraphInv, MadeOK, GraphRuns
  <2> QED
    BY <2>2, <2>3, <2>5, <2>6, <2>7 DEF GraphInv
<1> QED
  BY <1>1, <1>2, <1>3, <1>4 DEF CountNode

LEMMA FirstOfIn ==
  ASSUME NEW g, IsFiniteSet(Nodes(g)), Nodes(g) \subseteq Nat, Acyclic(g),
         NEW S, S \subseteq Nodes(g), S # {}
  PROVE  FirstOf(g, S) \in S
<1>1. PICK I : I = {i \in DOMAIN Order(g) : Order(g)[i] \in S}
  OBVIOUS
<1>2. Order(g) \in Seq(Nodes(g))
  BY OrderSound DEF Sound
<1>3. DOMAIN Order(g) = 1..Len(Order(g)) /\ Len(Order(g)) \in Nat
  BY <1>2
<1>4. I \in SUBSET Nat
  BY <1>1, <1>3
<1>5. I # {}
  BY <1>1, <1>3, OrderComplete
<1>6. Min(I) \in I
  BY <1>4, <1>5, MinIsLeast
<1> QED
  BY <1>1, <1>6 DEF FirstOf

LEMMA NextOutputInv ==
  ASSUME GraphInv, NextOutput
  PROVE  GraphInv'
<1> USE DEF NextOutput, rowVars, Unfailing_G
<1>1. phase = "next" /\ runRow # "none" /\ sub = graph /\ Runnable(graph) /\ LeadsOn(graph)
  BY DEF GraphInv, WholeOK
<1> DEFINE left == {o \in Outputs(graph) : res[o] = "none"}
<1>2. CASE left = {}
  <2>1. phase' = "settle" /\ UNCHANGED <<goal, rel>>
    BY <1>2
  <2>2. GraphTypeOK' /\ (graph \in Graphs /\ Nodes(sub) \subseteq Nodes(graph))'
    BY <2>1 DEF GraphInv, GraphTypeOK
  <2>3. StartOK' /\ WalkOK' /\ WholeOK'
    BY <1>1, <2>1 DEF GraphInv, StartOK, WalkOK, Walking, WholeOK
  <2>4. ResultOK'
    BY <1>1, <1>2, <2>1 DEF GraphInv, ResultOK, Going
  <2>5. MadeOK'
    BY <1>1, <2>1 DEF GraphInv, MadeOK
  <2>6. GraphRuns'
    BY <1>1, <2>1 DEF GraphInv, GraphRuns
  <2> QED
    BY <2>2, <2>3, <2>4, <2>5, <2>6 DEF GraphInv
<1>3. CASE left # {}
  <2>1. goal' = FirstOf(graph, left) /\ rel' = {} /\ phase' = "compute"
    BY <1>3
  <2>2. goal' \in left
    <3>1. left \subseteq Nodes(graph)
      BY GraphFinite
    <3> HIDE DEF left
    <3> QED
      BY <1>1, <1>3, <2>1, <3>1, GraphFinite, FirstOfIn DEF Runnable
  <2>3. goal' \in Outputs(graph) /\ res[goal'] = "none" /\ goal' \in Nodes(graph)
    BY <2>2, GraphFinite
  <2>4. GraphTypeOK' /\ (graph \in Graphs /\ Nodes(sub) \subseteq Nodes(graph))'
    BY <1>1, <2>1, <2>3 DEF GraphInv, GraphTypeOK
  <2>5. StartOK' /\ WholeOK'
    BY <1>1, <2>1 DEF GraphInv, StartOK, WholeOK
  <2>6. WalkOK'
    <3>1. Prefix(graph, Cardinality({})) = {}
      BY FS_EmptySet DEF Prefix
    <3> QED
      BY <1>1, <2>1, <2>3, <3>1 DEF WalkOK, Walking
  <2>7. ResultOK'
    BY <1>1, <2>1 DEF GraphInv, ResultOK, Going
  <2>8. MadeOK'
    <3>1. made \ {} = made
      OBVIOUS
    <3> QED
      BY <1>1, <2>1, <3>1 DEF GraphInv, MadeOK
  <2>9. GraphRuns'
    BY <1>1, <2>1 DEF GraphInv, GraphRuns
  <2> QED
    BY <2>4, <2>5, <2>6, <2>7, <2>8, <2>9 DEF GraphInv
<1> QED
  BY <1>2, <1>3

LEMMA ComputeInv ==
  ASSUME GraphInv, ComputeNode
  PROVE  GraphInv'
<1> USE DEF ComputeNode, rowVars, Unfailing_G
<1>1. /\ Turn \in Nodes(sub) \ rel
      /\ rel' = Prefix(sub, Cardinality(rel'))
      /\ Order(sub)[Cardinality(rel')] = Turn
  BY TurnOK
<1>2. GraphTypeOK' /\ (graph \in Graphs /\ Nodes(sub) \subseteq Nodes(graph))'
  BY <1>1 DEF GraphInv, GraphTypeOK
<1>3. StartOK' /\ WholeOK'
  BY DEF GraphInv, StartOK, WholeOK
<1>4. WalkOK'
  <2>1. Runnable(sub) /\ goal \in Nodes(sub) \ rel
        /\ (runRow # "none" => goal \in Outputs(graph) /\ res[goal] = "none")
    BY DEF GraphInv, WalkOK, Walking
  <2>2. rel' # {} /\ (Turn # goal => goal \in Nodes(sub) \ rel')
    BY <2>1
  <2> QED
    BY <1>1, <2>1, <2>2 DEF WalkOK, Walking
<1>5. ResultOK'
  BY DEF GraphInv, ResultOK, Going
<1>6. MadeOK'
  <2>1. made' \ rel' \subseteq made \ rel
    OBVIOUS
  <2>2. Cardinality(made' \ rel') <= Cardinality(made \ rel)
    BY <2>1, GraphFinite, FS_Subset, FS_Difference
  <2>3. Cardinality(made \ rel) <= failures /\ failures \in Nat
    BY GraphFinite DEF GraphInv, MadeOK
  <2>4. Cardinality(made \ rel) \in Nat /\ Cardinality(made' \ rel') \in Nat
    BY <2>1, GraphFinite, FS_Subset, FS_Difference, FS_CardinalityType
  <2> QED
    BY <2>2, <2>3, <2>4 DEF MadeOK
<1>7. GraphRuns'
  BY DEF GraphInv, GraphRuns
<1> QED
  BY <1>2, <1>3, <1>4, <1>5, <1>6, <1>7 DEF GraphInv

(* The execution for one goal is over, with an error or with the goal's    *)
(* output in place; what is left of its tables are failures.               *)
LEMMA EndGoalInv ==
  ASSUME GraphInv, phase \in {"compute", "write"},
         NEW verdict \in {"ok", "error"}, EndGoal(verdict),
         failures' \in Nat, failures' <= MaxFailures, failures' >= failures,
         made' \subseteq Nodes(graph), Cardinality(made') <= failures',
         verdict = "error" => failures' > failures,
         runRow # "none" => /\ target' \in [Outputs(graph) -> {"old", "gone", "new"}]
                            /\ \A o \in Outputs(graph) \ {goal} : target'[o] = target[o]
                            /\ verdict = "ok" => target'[goal] = "new" /\ phase = "write",
         runRow = "none" => UNCHANGED target,
         result' \in {result, result \cup rel},
         hybrid /\ verdict = "ok" /\ runRow # "none" => result' = result \cup rel,
         UNCHANGED <<graph, hybrid, asked, sub, goal, rel, misfit, rowVars>>
  PROVE  GraphInv'
<1> USE DEF rowVars
<1>0. failures \in Nat /\ MaxFailures \in Nat
  BY GraphFinite
<1>1. CASE runRow = "none"
  <2>1. phase' = "done" /\ UNCHANGED <<res, target>>
    BY <1>1 DEF EndGoal
  <2>2. GraphTypeOK' /\ (graph \in Graphs /\ Nodes(sub) \subseteq Nodes(graph))'
    BY <1>0, <1>1, <2>1 DEF GraphInv, GraphTypeOK
  <2>3. StartOK' /\ WalkOK' /\ WholeOK'
    BY <1>1, <2>1 DEF StartOK, WalkOK, Walking, WholeOK
  <2>4. ResultOK'
    BY <1>0, <1>1, <2>1 DEF GraphInv, ResultOK, Going
  <2>5. MadeOK'
    BY <2>1 DEF MadeOK
  <2>6. GraphRuns'
    BY <1>1, <2>1 DEF GraphInv, GraphRuns
  <2> QED
    BY <2>2, <2>3, <2>4, <2>5, <2>6 DEF GraphInv
<1>2. CASE runRow # "none"
  <2>1. phase' = "next" /\ res' = [res EXCEPT ![goal] = verdict]
    BY <1>2 DEF EndGoal
  <2>2. /\ res \in [Outputs(graph) -> {"none", "ok", "error"}]
        /\ goal \in Outputs(graph) /\ res[goal] = "none"
    BY <1>2 DEF GraphInv, GraphTypeOK, WalkOK
  <2>3. /\ res' \in [Outputs(graph) -> {"none", "ok", "error"}]
        /\ res'[goal] = verdict
        /\ \A o \in Outputs(graph) : o # goal => res'[o] = res[o]
    BY <2>1, <2>2
  <2>4. sub = graph /\ Runnable(graph) /\ LeadsOn(graph) /\ runRow = "processing"
    BY <1>2 DEF GraphInv, WholeOK
  <2>5. GraphTypeOK' /\ (graph \in Graphs /\ Nodes(sub) \subseteq Nodes(graph))'
    BY <1>0, <1>2, <2>1, <2>3 DEF GraphInv, GraphTypeOK
  <2>6. StartOK' /\ WalkOK' /\ WholeOK'
    BY <2>1, <2>4 DEF GraphInv, StartOK, WalkOK, Walking, WholeOK
  <2>7. ResultOK'
    <3>1. \A o \in Outputs(graph) : res'[o] = "error" => failures' > 0
      BY <1>0, <2>3 DEF GraphInv, ResultOK
    <3>2. \A o \in Outputs(graph) : res'[o] = "ok" => target'[o] = "new"
      BY <1>2, <2>3 DEF GraphInv, ResultOK
    <3>3. \/ Nodes(graph) \subseteq result'
          \/ /\ hybrid'
             /\ \A i, k \in 1..Len(Order(graph)) :
                   /\ i <= k /\ Order(graph)[k] \in Outputs(graph)
                   /\ res'[Order(graph)[k]] = "ok"
                   => Order(graph)[i] \in result'
      <4>1. CASE Nodes(graph) \subseteq result
        BY <4>1
      <4>2. CASE ~(Nodes(graph) \subseteq result)
        <5>1. /\ hybrid
              /\ \A i, k \in 1..Len(Order(graph)) :
                    /\ i <= k /\ Order(graph)[k] \in Outputs(graph)
                    /\ res[Order(graph)[k]] = "ok"
                    => Order(graph)[i] \in result
          BY <1>2, <4>2 DEF GraphInv, ResultOK, Going
        <5>2. ASSUME NEW i \in 1..Len(Order(graph)), NEW k \in 1..Len(Order(graph)),
                     i <= k, Order(graph)[k] \in Outputs(graph), res'[Order(graph)[k]] = "ok"
              PROVE  Order(graph)[i] \in result'
          <6>1. CASE Order(graph)[k] # goal
            BY <2>3, <5>1, <5>2, <6>1
          <6>2. CASE Order(graph)[k] = goal
            <7>1. verdict = "ok" /\ phase = "write" /\ result' = result \cup rel
              BY <1>2, <2>3, <5>1, <5>2, <6>2
            <7>2. Order(graph)[Cardinality(rel)] = goal /\ rel = Prefix(graph, Cardinality(rel)) /\ rel # {}
              BY <2>4, <7>1 DEF GraphInv, WalkOK, Walking
            <7>3. Cardinality(rel) \in 1..Len(Order(graph))
              <8>1. Cardinality(rel) \in Nat /\ Cardinality(rel) # 0
                BY <7>2, GraphFinite, FS_EmptySet, FS_CardinalityType
              <8>2. Cardinality(rel) <= Cardinality(Nodes(graph)) /\ Cardinality(Nodes(graph)) \in Nat
                BY GraphFinite, FS_Subset, FS_CardinalityType DEF GraphInv, GraphTypeOK
              <8> QED
                BY <2>4, <8>1, <8>2 DEF Runnable, Acyclic
            <7>4. Cardinality(rel) = k
              BY <5>2, <6>2, <7>2, <7>3, GraphFinite, OrderSound DEF Sound
            <7>5. i \in 1..k
              BY <5>2
            <7> QED
              BY <7>1, <7>2, <7>4, <7>5 DEF Prefix
          <6> QED
            BY <6>1, <6>2
        <5> QED
          BY <5>1, <5>2
      <4> QED
        BY <4>1, <4>2
    <3> QED
      BY <2>1, <3>1, <3>2, <3>3 DEF ResultOK, Going
  <2>8. MadeOK'
    BY <2>1 DEF MadeOK
  <2>9. GraphRuns'
    BY <2>1, <2>4 DEF GraphInv, GraphRuns
  <2> QED
    BY <2>5, <2>6, <2>7, <2>8, <2>9 DEF GraphInv
<1> QED
  BY <1>1, <1>2

(* What is left when the tables of an execution are dropped.               *)
LEMMA DropBound ==
  ASSUME GraphInv, phase \in {"compute", "write"}, NEW left \in Leftovers
  PROVE  /\ Drop(rel, left) \subseteq Nodes(graph)
         /\ Cardinality(left) \in Nat /\ Cardinality(Drop(rel, left)) \in Nat
         /\ IsFiniteSet(Drop(rel, left))
         /\ Cardinality(Drop(rel, left)) <= failures + Cardinality(left)
<1>1. left \in SUBSET rel
  BY DEF Leftovers
<1>2. made \subseteq Nodes(graph) /\ rel \subseteq Nodes(graph) /\ made \ rel \subseteq Nodes(graph)
  BY DEF GraphInv, GraphTypeOK
<1>3. IsFiniteSet(made \ rel) /\ IsFiniteSet(left)
  BY <1>1, <1>2, GraphFinite
<1>4. Cardinality(made \ rel) <= failures /\ failures \in Nat
  BY GraphFinite DEF GraphInv, MadeOK
<1>5. /\ IsFiniteSet((made \ rel) \cup left)
      /\ Cardinality(made \ rel) \in Nat /\ Cardinality(left) \in Nat /\ Cardinality((made \ rel) \cup left) \in Nat
      /\ Cardinality((made \ rel) \cup left) <= Cardinality(made \ rel) + Cardinality(left)
  BY <1>3, UnionBound
<1>6. Drop(rel, left) = (made \ rel) \cup left
  BY DEF Drop
<1> QED
  BY <1>1, <1>2, <1>4, <1>5, <1>6

LEMMA ComputeErrorInv ==
  ASSUME GraphInv, ComputeError
  PROVE  GraphInv'
<1>1. Turn \in Nodes(sub) \ rel /\ Fits(Turn) /\ phase = "compute"
  BY TurnOK DEF ComputeError
<1>2. PICK left \in Leftovers, own \in SUBSET {Turn} :
         /\ Fails(1 + Cardinality(left))
         /\ made' = (Drop(rel, left) \ {Turn}) \cup own
  <2>1. PICK left \in Leftovers :
           /\ Fails(1 + Cardinality(left))
           /\ \E own \in IF hybrid THEN SUBSET {Turn} ELSE {{}} :
                 made' = (Drop(rel, left) \ {Turn}) \cup own
    BY <1>1 DEF ComputeError
  <2>2. \A own \in IF hybrid THEN SUBSET {Turn} ELSE {{}} : own \in SUBSET {Turn}
    OBVIOUS
  <2> QED
    BY <2>1, <2>2
<1>3. /\ Drop(rel, left) \subseteq Nodes(graph)
      /\ Cardinality(left) \in Nat /\ IsFiniteSet(Drop(rel, left))
      /\ Cardinality(Drop(rel, left)) \in Nat
      /\ Cardinality(Drop(rel, left)) <= failures + Cardinality(left)
  BY <1>1, DropBound
<1>4. failures \in Nat /\ MaxFailures \in Nat
      /\ failures' = failures + (1 + Cardinality(left)) /\ failures' <= MaxFailures
  BY <1>2, GraphFinite DEF Fails
<1>5. made' \subseteq Nodes(graph)
  BY <1>1, <1>2, <1>3 DEF GraphInv
<1>6. Cardinality(made') <= failures'
  <2>1. IsFiniteSet(Drop(rel, left) \ {Turn})
        /\ Cardinality(Drop(rel, left) \ {Turn}) <= Cardinality(Drop(rel, left))
    BY <1>3, FS_Subset
  <2>2. IsFiniteSet(own) /\ Cardinality(own) <= 1
    <3>1. IsFiniteSet({Turn}) /\ Cardinality({Turn}) = 1
      BY FS_Singleton
    <3> QED
      BY <1>2, <3>1, FS_Subset
  <2>3. /\ Cardinality(Drop(rel, left) \ {Turn}) \in Nat /\ Cardinality(own) \in Nat
        /\ Cardinality((Drop(rel, left) \ {Turn}) \cup own) \in Nat
        /\ Cardinality((Drop(rel, left) \ {Turn}) \cup own) <= Cardinality(Drop(rel, left) \ {Turn}) + Cardinality(own)
    BY <2>1, <2>2, UnionBound
  <2> QED
    BY <1>2, <1>3, <1>4, <2>1, <2>2, <2>3
<1>7. EndGoal("error") /\ UNCHANGED <<graph, hybrid, asked, sub, goal, rel, result, target, misfit, rowVars>>
  BY <1>1 DEF ComputeError
<1>8. target \in [Outputs(graph) -> {"old", "gone", "new"}]
  BY DEF GraphInv, GraphTypeOK
<1> QED
  BY <1>1, <1>3, <1>4, <1>5, <1>6, <1>7, <1>8, EndGoalInv

LEMMA WriteInv ==
  ASSUME GraphInv, WriteOutput
  PROVE  GraphInv'
<1>1. PICK left \in Leftovers :
         /\ made' = Drop(rel, left)
         /\ \/ /\ EndGoal("ok") /\ Fails(Cardinality(left))
               /\ target' = [target EXCEPT ![goal] = "new"]
            \/ /\ EndGoal("error") /\ Fails(1 + Cardinality(left))
               /\ \E t \in {target[goal], "gone", "new"} :
                     target' = [target EXCEPT ![goal] = t]
  BY DEF WriteOutput
<1>2. phase = "write" /\ runRow # "none" /\ result' \in {result, result \cup rel}
      /\ (hybrid => result' = result \cup rel)
      /\ UNCHANGED <<graph, hybrid, asked, sub, goal, rel, misfit, rowVars>>
  BY DEF WriteOutput
<1>3. /\ Drop(rel, left) \subseteq Nodes(graph)
      /\ Cardinality(left) \in Nat /\ Cardinality(Drop(rel, left)) \in Nat
      /\ Cardinality(Drop(rel, left)) <= failures + Cardinality(left)
  BY <1>2, DropBound
<1>4. failures \in Nat /\ MaxFailures \in Nat /\ goal \in Outputs(graph)
      /\ target \in [Outputs(graph) -> {"old", "gone", "new"}]
  BY <1>2, GraphFinite DEF GraphInv, GraphTypeOK, WalkOK
<1>5. CASE EndGoal("ok") /\ Fails(Cardinality(left)) /\ target' = [target EXCEPT ![goal] = "new"]
  <2>1. failures' = failures + Cardinality(left) /\ failures' <= MaxFailures
    BY <1>5, <1>4 DEF Fails
  <2>2. /\ failures' \in Nat /\ failures' >= failures /\ Cardinality(made') <= failures'
        /\ made' \subseteq Nodes(graph)
    BY <1>1, <1>3, <1>4, <2>1
  <2>3. /\ target' \in [Outputs(graph) -> {"old", "gone", "new"}] /\ target'[goal] = "new"
        /\ \A o \in Outputs(graph) \ {goal} : target'[o] = target[o]
    BY <1>4, <1>5
  <2> QED
    BY <1>2, <1>5, <2>1, <2>2, <2>3, EndGoalInv
<1>6. ASSUME NEW t \in {target[goal], "gone", "new"},
             EndGoal("error"), Fails(1 + Cardinality(left)), target' = [target EXCEPT ![goal] = t]
      PROVE  GraphInv'
  <2>1. failures' = failures + (1 + Cardinality(left)) /\ failures' <= MaxFailures
    BY <1>6, <1>4 DEF Fails
  <2>2. /\ failures' \in Nat /\ failures' > failures /\ Cardinality(made') <= failures'
        /\ made' \subseteq Nodes(graph) /\ failures' >= failures
    BY <1>1, <1>3, <1>4, <2>1
  <2>3. /\ target' \in [Outputs(graph) -> {"old", "gone", "new"}]
        /\ \A o \in Outputs(graph) \ {goal} : target'[o] = target[o]
    BY <1>4, <1>6
  <2> QED
    BY <1>2, <1>6, <2>1, <2>2, <2>3, EndGoalInv
<1> QED
  BY <1>1, <1>5, <1>6

LEMMA ShowPreviewInv ==
  ASSUME GraphInv, ShowPreview
  PROVE  GraphInv'
<1>1. PICK left \in Leftovers : Fails(Cardinality(left)) /\ made' = Drop(rel, left)
  BY DEF ShowPreview
<1>2. phase = "write" /\ runRow = "none" /\ EndGoal("ok")
      /\ UNCHANGED <<graph, hybrid, asked, sub, goal, rel, result, target, misfit, rowVars>>
  BY DEF ShowPreview
<1>3. /\ Drop(rel, left) \subseteq Nodes(graph)
      /\ Cardinality(left) \in Nat /\ Cardinality(Drop(rel, left)) \in Nat
      /\ Cardinality(Drop(rel, left)) <= failures + Cardinality(left)
  BY <1>2, DropBound
<1>4. failures \in Nat /\ MaxFailures \in Nat
      /\ failures' = failures + Cardinality(left) /\ failures' <= MaxFailures
  BY <1>1, GraphFinite DEF Fails
<1>5. /\ failures' \in Nat /\ failures' >= failures /\ Cardinality(made') <= failures'
      /\ made' \subseteq Nodes(graph)
  BY <1>1, <1>3, <1>4
<1> QED
  BY <1>2, <1>4, <1>5, EndGoalInv

LEMMA RecordInv ==
  ASSUME GraphInv, RecordOutputs
  PROVE  GraphInv'
<1> USE DEF RecordOutputs, execVarsG
<1>1. PICK left \in SUBSET Outputs(graph) :
         /\ Fails(Cardinality(left))
         /\ outRow' = [o \in Outputs(graph) |-> IF o \in left THEN outRow[o]
                                                ELSE IF o \in Refused THEN "failed" ELSE "completed"]
  OBVIOUS
<1>2. failures \in Nat /\ failures' \in Nat /\ failures' >= failures /\ failures' <= MaxFailures
  <2>1. left \subseteq Nodes(graph)
    BY GraphFinite
  <2> QED
    BY <1>1, <2>1, GraphFinite DEF Fails
<1>3. outRow' \in [Outputs(graph) -> {"none", "pending", "completed", "failed"}]
  BY <1>1 DEF GraphInv, GraphTypeOK
<1>4. GraphTypeOK' /\ (graph \in Graphs /\ Nodes(sub) \subseteq Nodes(graph))'
  BY <1>2, <1>3, GraphFinite DEF GraphInv, GraphTypeOK
<1>5. StartOK' /\ WalkOK' /\ WholeOK'
  BY DEF GraphInv, StartOK, WalkOK, Walking, WholeOK
<1>6. ResultOK'
  <2>1. (Refused = {})' <=> Refused = {}
    BY DEF Refused
  <2> QED
    BY <1>2, <2>1 DEF GraphInv, ResultOK, Going
<1>7. MadeOK'
  <2>1. Cardinality(made) <= failures /\ Cardinality(made) \in Nat
    BY GraphFinite DEF GraphInv, GraphTypeOK, MadeOK
  <2> QED
    BY <1>2, <2>1 DEF MadeOK
<1>8. GraphRuns'
  BY DEF GraphInv, GraphRuns, WholeOK
<1> QED
  BY <1>4, <1>5, <1>6, <1>7, <1>8 DEF GraphInv

LEMMA ReviewInv ==
  ASSUME GraphInv, StoreReviewItems
  PROVE  GraphInv'
<1> USE DEF StoreReviewItems, execVarsG
<1>1. /\ failures \in Nat /\ failures' \in Nat /\ failures' >= failures /\ failures' <= MaxFailures
      /\ \/ runRow' = runRow /\ phase' = "finish" /\ review' = TRUE
         \/ runRow' = "failed" /\ phase' = "done" /\ review' = review /\ failures' > failures
      /\ misfit' = misfit
  <2>1. failures \in Nat /\ failures <= MaxFailures
    BY GraphFinite DEF GraphInv, GraphTypeOK
  <2> QED
    BY <2>1 DEF Fails, Unfailing_G
<1>2. GraphTypeOK' /\ (graph \in Graphs /\ Nodes(sub) \subseteq Nodes(graph))'
  <2>1. /\ review' \in BOOLEAN /\ failures' \in 0..MaxFailures
        /\ runRow' \in {"none", "processing", "completed", "failed"} /\ phase' \in {"finish", "done"}
    <3>1. review' \in BOOLEAN
      BY <1>1, Zenon DEF GraphInv, GraphTypeOK
    <3>2. failures' \in 0..MaxFailures
      BY <1>1, GraphFinite
    <3> QED
      BY <1>1, <3>1, <3>2 DEF GraphInv, GraphTypeOK
  <2> QED
    BY <1>1, <2>1 DEF GraphInv, GraphTypeOK
<1>3. runRow = "processing" /\ sub = graph /\ Runnable(graph) /\ LeadsOn(graph)
  BY DEF GraphInv, WholeOK
<1>4. StartOK' /\ WalkOK' /\ WholeOK'
  BY <1>1, <1>3 DEF GraphInv, StartOK, WalkOK, Walking, WholeOK
<1>5. ResultOK'
  <2>1. (Refused = {})' <=> Refused = {}
    BY DEF Refused
  <2> QED
    BY <1>1, <1>3, <2>1 DEF GraphInv, ResultOK, Going
<1>6. MadeOK'
  <2>1. Cardinality(made) <= failures /\ Cardinality(made) \in Nat
    BY GraphFinite DEF GraphInv, GraphTypeOK, MadeOK
  <2> QED
    BY <1>1, <2>1 DEF MadeOK
<1>7. GraphRuns'
  BY <1>1, <1>3, <1>6 DEF GraphInv, GraphRuns, MadeOK
<1> QED
  BY <1>2, <1>4, <1>5, <1>6, <1>7 DEF GraphInv

(* When no output was refused, every node has a result of its own: if the  *)
(* run was hybrid, each node comes before an output that was written.      *)
LEMMA AllHaveResults ==
  ASSUME GraphInv, phase = "finish", Refused = {}
  PROVE  /\ Nodes(graph) \subseteq result
         /\ \A o \in Outputs(graph) : target[o] = "new"
<1>1. \A o \in Outputs(graph) : res[o] = "ok"
  BY DEF GraphInv, GraphTypeOK, ResultOK, Refused
<1>2. Runnable(graph) /\ LeadsOn(graph) /\ runRow # "none"
  BY DEF GraphInv, WholeOK
<1>3. ASSUME NEW n \in Nodes(graph), ~(Nodes(graph) \subseteq result) PROVE n \in result
  <2>1. PICK i \in 1..Len(Order(graph)) : Order(graph)[i] = n
    BY <1>2, GraphFinite, OrderComplete DEF Runnable
  <2>2. PICK k \in i..Len(Order(graph)) : Order(graph)[k] \in Outputs(graph)
    BY <1>2, <2>1 DEF LeadsOn
  <2>3. k \in 1..Len(Order(graph)) /\ i <= k
    BY <2>1, <2>2
  <2> QED
    BY <1>1, <1>2, <1>3, <2>1, <2>2, <2>3 DEF GraphInv, ResultOK, Going
<1>4. Nodes(graph) \subseteq result
  BY <1>3
<1> QED
  BY <1>1, <1>4 DEF GraphInv, ResultOK

LEMMA FinishInv ==
  ASSUME GraphInv, FinishGraph
  PROVE  GraphInv'
<1> USE DEF FinishGraph, execVarsG
<1>1. PICK left \in SUBSET Nodes(graph) :
          /\ stepRow' = [n \in Nodes(graph) |-> IF n \in left THEN stepRow[n] ELSE StepStatus(n)]
          /\ \/ /\ Fails(Cardinality(left))
                /\ runRow' = IF Refused = {} THEN "completed" ELSE "failed"
             \/ Fails(1 + Cardinality(left)) /\ UNCHANGED runRow
  OBVIOUS
<1>2. /\ failures \in Nat /\ failures' \in Nat /\ failures' >= failures /\ failures' <= MaxFailures
      /\ \/ runRow' \in {"completed", "failed"}
         \/ failures' > failures /\ runRow' = runRow
      /\ runRow' = "completed" => Refused = {} \/ runRow = "completed"
      /\ runRow' = "failed" => Refused # {} \/ runRow = "failed"
  BY <1>1, GraphFinite DEF Fails
<1>3. runRow = "processing" /\ sub = graph /\ Runnable(graph) /\ LeadsOn(graph)
  BY DEF GraphInv, WholeOK
<1>4. Refused # {} => failures > 0
  BY DEF GraphInv, ResultOK, Refused
<1>5. stepRow' \in [Nodes(graph) -> {"none", "processing", "completed", "guessed", "failed"}]
  BY <1>1 DEF GraphInv, GraphTypeOK, StepStatus
<1>6. GraphTypeOK' /\ (graph \in Graphs /\ Nodes(sub) \subseteq Nodes(graph))'
  BY <1>2, <1>3, <1>5, GraphFinite DEF GraphInv, GraphTypeOK
<1>7. StartOK' /\ WalkOK' /\ WholeOK'
  BY <1>3 DEF GraphInv, StartOK, WalkOK, Walking, WholeOK
<1>8. ResultOK'
  BY <1>2 DEF GraphInv, ResultOK, Going
<1>9. MadeOK' /\ (Cardinality(made) <= failures)'
  <2>1. Cardinality(made) <= failures /\ Cardinality(made) \in Nat
    BY GraphFinite DEF GraphInv, GraphTypeOK, MadeOK
  <2> QED
    BY <1>2, <2>1 DEF MadeOK
<1>10. GraphRuns'
  <2>1. CASE Refused # {}
    <3>1. runRow' # "completed" /\ failures' # 0
      BY <1>2, <1>3, <1>4, <2>1
    <3> QED
      BY <1>9, <3>1 DEF GraphInv, GraphRuns
  <2>2. CASE Refused = {}
    <3>1. /\ Nodes(graph) \subseteq result /\ review = TRUE
          /\ \A o \in Outputs(graph) : target[o] = "new"
      BY <2>2, AllHaveResults DEF GraphInv, ResultOK
    <3>2. \A n \in Nodes(graph) : stepRow'[n] # "guessed"
      BY <1>1, <2>2, <3>1 DEF GraphInv, WholeOK, StepStatus
    <3>3. failures' = 0 => runRow' = "completed"
      BY <1>2, <2>2, <1>3
    <3> QED
      BY <1>9, <3>1, <3>2, <3>3 DEF GraphInv, GraphRuns
  <2> QED
    BY <2>1, <2>2
<1> QED
  BY <1>6, <1>7, <1>8, <1>9, <1>10 DEF GraphInv

LEMMA GraphInvStep == GraphInv /\ GraphNext => GraphInv'
BY UsersInv, PreviewInv, StartRunInv, StartFailsInv, OpenInv, CountInv, NextOutputInv, ComputeInv, ComputeErrorInv,
   WriteInv, ShowPreviewInv, RecordInv, ReviewInv, FinishInv DEF GraphNext

LEMMA GraphInvStays == GraphInv /\ UNCHANGED graphVars => GraphInv'
<1> SUFFICES ASSUME GraphInv, UNCHANGED graphVars PROVE GraphInv'
  OBVIOUS
<1> USE DEF graphVars
<1>1. GraphTypeOK' /\ (graph \in Graphs /\ Nodes(sub) \subseteq Nodes(graph))'
  BY DEF GraphInv, GraphTypeOK
<1>2. StartOK' /\ WalkOK' /\ WholeOK'
  BY DEF GraphInv, StartOK, WalkOK, Walking, WholeOK
<1>3. ResultOK'
  BY DEF GraphInv, ResultOK, Going, Refused
<1>4. MadeOK' /\ GraphRuns'
  BY DEF GraphInv, MadeOK, GraphRuns
<1> QED
  BY <1>1, <1>2, <1>3, <1>4 DEF GraphInv

-----------------------------------------------------------------------------
(* Runs and graphs in the specification the run of TLC checks.             *)

LEMMA GraphInvHolds == PipelineSpec => []GraphInv
<1>1. PipelineInit => GraphInv
  BY GraphInvStart DEF PipelineInit
<1>2. GraphInv /\ [PipelineNext]_pipelineVars => GraphInv'
  BY GraphInvStep, GraphInvStays DEF PipelineNext, pipelineVars
<1> QED
  BY <1>1, <1>2, PTL DEF PipelineSpec

LEMMA RunsAreAtWork == PipelineSpec => Spec
<1>1. PipelineInit => Init
  BY DEF PipelineInit
<1>2. [PipelineNext]_pipelineVars => [Next]_vars
  BY DEF PipelineNext, pipelineVars
<1> QED
  BY <1>1, <1>2, PTL DEF PipelineSpec, Spec

(* A graph that was let through can be executed, whatever its shape and    *)
(* whichever statements fail, and the statuses of its run tell what was    *)
(* done.                                                                   *)
THEOREM GraphsRun == PipelineSpec => []GraphRuns
<1>1. GraphInv => GraphRuns
  BY DEF GraphInv
<1> QED
  BY <1>1, GraphInvHolds, PTL

(* Runs, schedules and graphs stay in their types.                         *)
THEOREM PipelineTypesHold == PipelineSpec => []PipelineTypeOK
<1>1. GraphInv /\ TypeOK => PipelineTypeOK
  BY DEF GraphInv, PipelineTypeOK
<1> QED
  BY <1>1, GraphInvHolds, RunsAreAtWork, RunTypesHold, PTL

(* What PipelineRun promises holds beside the graphs.                      *)
THEOREM PipelineHolds ==
    PipelineSpec => /\ [](OneActiveRunPerSchedule /\ OutputStays /\ NoOrphanRun)
                    /\ NoRunWhileDisabled /\ FinishedIsFinal
BY RunsAreAtWork, OneRunForEachSchedule, OutputIsThere, NoRunIsOrphaned,
   NoRunForDisabledSchedule, FinishedRunsStay, PTL
=============================================================================
