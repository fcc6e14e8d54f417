--------------------------- MODULE EventJobsProofs ---------------------------
(***************************************************************************)
(* Proofs about the jobs whose handlers the outbox calls, and the job that *)
(* an administrator stops, for any number of jobs, attempts and faults.    *)
(***************************************************************************)
EXTENDS MCEventJobs, HandlerProofs

-----------------------------------------------------------------------------
(* Imports of customer signals and tenant exports.                         *)

(* The signals that n attempts may insert.                                 *)
Share(n) == Rows * n

LEMMA ShareGrows ==
  /\ Share(0) = 0 /\ Share(MaxAttempts) \in Nat /\ Rows \in Nat
  /\ \A n \in Nat : n < MaxAttempts =>
        /\ Share(n) \in Nat /\ Share(n + 1) = Share(n) + Rows /\ Share(n + 1) <= Share(MaxAttempts)
<1>1. MaxAttempts \in Nat /\ Rows \in Nat
  BY HandlerAssumption, TenantJobsAssumption
<1>2. Share(0) = 0 /\ Share(MaxAttempts) \in Nat
  BY <1>1 DEF Share
<1>3. ASSUME NEW n \in Nat, n < MaxAttempts
      PROVE  Share(n) \in Nat /\ Share(n + 1) = Share(n) + Rows /\ Share(n + 1) <= Share(MaxAttempts)
  <2>1. Rows * n \in Nat /\ Rows * (n + 1) = Rows * n + Rows
    BY <1>1
  <2>2. Rows * (n + 1) <= Rows * MaxAttempts
    <3>1. PICK k \in Nat : MaxAttempts = (n + 1) + k
      <4>1. MaxAttempts - (n + 1) \in Nat /\ MaxAttempts = (n + 1) + (MaxAttempts - (n + 1))
        BY <1>1, <1>3
      <4> QED
        BY <4>1
    <3>2. Rows * ((n + 1) + k) = Rows * (n + 1) + Rows * k /\ Rows * k \in Nat /\ Rows * (n + 1) \in Nat
      BY <1>1
    <3> QED
      BY <3>1, <3>2
  <2> QED
    BY <2>1, <2>2 DEF Share
<1> QED
  BY <1>1, <1>2, <1>3

(* An import: what its call has inserted, what all calls have, and what    *)
(* its row says.  Without faults the first call that inserts is the last.  *)
ImportOK(i) ==
    /\ at[i] \in ImportStep \cup {"idle", "lost"}
    /\ imp[i].status = "absent" <=> fate[i] = "absent"
    /\ done[i] <= signals[i]
    /\ imp[i].only \/ ~imp[i].valid => signals[i] = 0
    /\ at[i] = "insert" => imp[i].valid /\ ~imp[i].only
    /\ at[i] = "errors" => ~imp[i].valid
    /\ at[i] = "complete" /\ imp[i].valid /\ ~imp[i].only => done[i] = Rows
    /\ imp[i].status = "completed" =>
          /\ signals[i] >= imp[i].inserted
          /\ imp[i].valid /\ ~imp[i].only => imp[i].inserted = Rows

ImportUnfailing(i) ==
    faults = 0 => /\ signals[i] = done[i]
                  /\ done[i] > 0 => at[i] \in {"insert", "complete"} \/ ok[i]
                  /\ imp[i].status = "processing" => Attended(i)

ImportShare(i) ==
    /\ at[i] \in {"idle", "read", "errors"} => signals[i] <= Share(tries[i])
    /\ at[i] = "insert" => signals[i] <= Share(tries[i]) + done[i]
    /\ at[i] \in {"complete", "failimport"} => signals[i] <= Share(tries[i]) + Rows

ImportInv(i) == ImportOK(i) /\ ImportUnfailing(i) /\ ImportShare(i)

(* A tenant export has at most one file for each call.                     *)
TenantExportInv(e) ==
    /\ at[e] \in TenantStep \cup {"idle", "lost"}
    /\ texp[e].status = "absent" <=> fate[e] = "absent"
    /\ texp[e].file <= tfiles[e]
    /\ texp[e].status = "ready" => texp[e].file > 0
    /\ at[e] = "ready" => tfiles[e] > 0 /\ tfiles[e] <= tries[e] + 1
    /\ at[e] \in {"idle", "list", "store", "failexport"} => tfiles[e] <= tries[e]
    /\ texp[e].gone => texp[e].status \notin {"absent", "processing"}
    /\ faults = 0 => /\ at[e] # "ready" => tfiles[e] = texp[e].file
                     /\ texp[e].status = "processing" => Attended(e)

ImportRow == [status : {"absent", "processing", "completed", "failed"},
              only : BOOLEAN, valid : BOOLEAN, inserted : 0..Rows]

TenantExportRow == [status : {"absent", "processing", "ready", "failed", "deleted"},
                    gone : BOOLEAN, file : 0..MaxAttempts]

TenantRowsOK ==
    /\ imp \in [SignalImport -> ImportRow]
    /\ signals \in [SignalImport -> 0..(Rows * MaxAttempts)]
    /\ done \in [SignalImport -> 0..Rows]
    /\ texp \in [TenantExport -> TenantExportRow]
    /\ tfiles \in [TenantExport -> 0..MaxAttempts]

TenantInv ==
    /\ HandlersOK /\ TenantRowsOK
    /\ \A i \in SignalImport : ImportInv(i)
    /\ \A e \in TenantExport : TenantExportInv(e)

LEMMA TenantInvInit == HandlersInit /\ TenantInit => TenantInv
<1> SUFFICES ASSUME HandlersInit, TenantInit PROVE TenantInv
  OBVIOUS
<1> USE HandlerAssumption, TenantJobsAssumption, FaultsAssumption
<1>1. HandlersOK
  BY HandlersOKInit
<1>2. /\ fate = [j \in Job |-> "absent"] /\ tries = [j \in Job |-> 0] /\ ok = [j \in Job |-> FALSE]
      /\ at = [j \in Job |-> "idle"]
  BY DEF HandlersInit, Queue!Init
<1>3. TenantRowsOK
  BY ShareGrows DEF TenantInit, TenantRowsOK, ImportRow, TenantExportRow, Share
<1>4. ASSUME NEW i \in SignalImport PROVE ImportInv(i)
  BY <1>2, ShareGrows DEF TenantInit, ImportInv, ImportOK, ImportUnfailing, ImportShare
<1>5. ASSUME NEW e \in TenantExport PROVE TenantExportInv(e)
  BY <1>2 DEF TenantInit, TenantExportInv
<1> QED
  BY <1>1, <1>3, <1>4, <1>5 DEF TenantInv

(* A step of one import, or of one export, leaves the others alone.        *)
LEMMA OneImportKeeps ==
  ASSUME TenantInv, NEW i \in SignalImport, HandlersOK', OnlyEvent(i), AnyFault,
         UNCHANGED <<texp, tfiles>>,
         imp' \in [SignalImport -> ImportRow], signals' \in [SignalImport -> 0..(Rows * MaxAttempts)],
         done' \in [SignalImport -> 0..Rows],
         \A k \in SignalImport \ {i} : imp'[k] = imp[k] /\ signals'[k] = signals[k] /\ done'[k] = done[k],
         ImportInv(i)'
  PROVE  TenantInv'
<1> USE TenantJobsAssumption
<1>1. faults' = 0 => faults = 0
  BY FaultsGrow DEF TenantInv, HandlersOK
<1>2. ASSUME NEW k \in SignalImport \ {i} PROVE ImportInv(k)'
  <2>1. ImportInv(k)
    BY DEF TenantInv
  <2>2. /\ fate'[k] = fate[k] /\ tries'[k] = tries[k] /\ ok'[k] = ok[k] /\ at'[k] = at[k]
        /\ imp'[k] = imp[k] /\ signals'[k] = signals[k] /\ done'[k] = done[k]
    BY DEF OnlyEvent
  <2> QED
    BY <1>1, <2>1, <2>2 DEF ImportInv, ImportOK, ImportUnfailing, ImportShare, Attended, InHand, Deliverable
<1>3. ASSUME NEW e \in TenantExport PROVE TenantExportInv(e)'
  <2>1. TenantExportInv(e)
    BY DEF TenantInv
  <2>2. /\ fate'[e] = fate[e] /\ tries'[e] = tries[e] /\ ok'[e] = ok[e] /\ at'[e] = at[e]
        /\ texp'[e] = texp[e] /\ tfiles'[e] = tfiles[e]
    BY DEF OnlyEvent
  <2> QED
    BY <1>1, <2>1, <2>2 DEF TenantExportInv, Attended, InHand, Deliverable
<1> QED
  BY <1>2, <1>3 DEF TenantInv, TenantRowsOK

LEMMA OneTenantExportKeeps ==
  ASSUME TenantInv, NEW e \in TenantExport, HandlersOK', OnlyEvent(e) \/ UNCHANGED <<eventVars, at>>, AnyFault,
         UNCHANGED <<imp, signals, done>>,
         texp' \in [TenantExport -> TenantExportRow], tfiles' \in [TenantExport -> 0..MaxAttempts],
         \A k \in TenantExport \ {e} : texp'[k] = texp[k] /\ tfiles'[k] = tfiles[k],
         TenantExportInv(e)'
  PROVE  TenantInv'
<1> USE TenantJobsAssumption
<1>0. OnlyEvent(e)
  BY DEF OnlyEvent, eventVars
<1>1. faults' = 0 => faults = 0
  BY FaultsGrow DEF TenantInv, HandlersOK
<1>2. ASSUME NEW k \in SignalImport PROVE ImportInv(k)'
  <2>1. ImportInv(k)
    BY DEF TenantInv
  <2>2. /\ fate'[k] = fate[k] /\ tries'[k] = tries[k] /\ ok'[k] = ok[k] /\ at'[k] = at[k]
        /\ imp'[k] = imp[k] /\ signals'[k] = signals[k] /\ done'[k] = done[k]
    BY <1>0 DEF OnlyEvent
  <2> QED
    BY <1>1, <2>1, <2>2 DEF ImportInv, ImportOK, ImportUnfailing, ImportShare, Attended, InHand, Deliverable
<1>3. ASSUME NEW k \in TenantExport \ {e} PROVE TenantExportInv(k)'
  <2>1. TenantExportInv(k)
    BY DEF TenantInv
  <2>2. /\ fate'[k] = fate[k] /\ tries'[k] = tries[k] /\ ok'[k] = ok[k] /\ at'[k] = at[k]
        /\ texp'[k] = texp[k] /\ tfiles'[k] = tfiles[k]
    BY <1>0 DEF OnlyEvent
  <2> QED
    BY <1>1, <2>1, <2>2 DEF TenantExportInv, Attended, InHand, Deliverable
<1> QED
  BY <1>2, <1>3 DEF TenantInv, TenantRowsOK

-----------------------------------------------------------------------------
(* The steps of an import.                                                 *)
LEMMA ImportTypes ==
  ASSUME TenantInv, NEW i \in SignalImport
  PROVE  /\ i \in Job /\ HandlersOK /\ EventOK(i) /\ ImportOK(i) /\ ImportUnfailing(i) /\ ImportShare(i)
         /\ imp \in [SignalImport -> ImportRow] /\ imp[i] \in ImportRow
         /\ signals \in [SignalImport -> 0..(Rows * MaxAttempts)] /\ signals[i] \in Nat
         /\ done \in [SignalImport -> 0..Rows] /\ done[i] \in 0..Rows /\ Rows \in Nat
         /\ tries[i] \in Nat /\ faults \in Nat /\ Share(MaxAttempts) = Rows * MaxAttempts
  BY TenantJobsAssumption, HandlerAssumption, FaultsAssumption, ShareGrows
  DEF TenantInv, TenantRowsOK, HandlersOK, ImportInv, FaultsTypeOK, Share

LEMMA CreateImportInv ==
  ASSUME TenantInv, NEW i \in SignalImport, CreateImport(i) PROVE TenantInv'
<1>1. /\ imp[i].status = "absent" /\ Enqueue(i) /\ AnyFault
      /\ UNCHANGED <<signals, done, texp, tfiles>> /\ faults' = faults
  BY DEF CreateImport, AnyFault, Unfailing
<1>2. PICK only, valid \in BOOLEAN :
          imp' = [imp EXCEPT ![i] = [status |-> "processing", only |-> only, valid |-> valid, inserted |-> 0]]
  BY DEF CreateImport
<1>3. /\ HandlersOK' /\ OnlyEvent(i) /\ fate[i] = "absent" /\ fate'[i] = "open" /\ ~ok'[i] /\ tries'[i] = 0
      /\ at'[i] = "idle" /\ tries[i] = 0 /\ Deliverable(i)'
  BY <1>1, EnqueueKeeps, ImportTypes
<1>4. /\ imp' \in [SignalImport -> ImportRow] /\ imp'[i].status = "processing" /\ imp'[i].inserted = 0
      /\ \A k \in SignalImport \ {i} : imp'[k] = imp[k]
  BY <1>2, ImportTypes DEF ImportRow
<1>5. signals[i] = 0 /\ done[i] = 0
  <2>1. at[i] = "idle"
    BY <1>3, ImportTypes DEF EventOK
  <2> QED
    BY <1>3, <2>1, ImportTypes, ShareGrows DEF ImportShare, ImportOK
<1>6. ImportInv(i)'
  <2>1. ImportOK(i)'
    BY <1>1, <1>3, <1>4, <1>5, ImportTypes DEF ImportOK
  <2>2. ImportUnfailing(i)'
    BY <1>1, <1>3, <1>4, <1>5 DEF ImportUnfailing, Attended
  <2>3. ImportShare(i)'
    BY <1>1, <1>3, <1>5, ShareGrows DEF ImportShare
  <2> QED
    BY <2>1, <2>2, <2>3 DEF ImportInv
<1> QED
  BY <1>1, <1>3, <1>4, <1>6, ImportTypes, OneImportKeeps

(* The event of an import moves, and its rows do not.                      *)
LEMMA ImportEventInv ==
  ASSUME TenantInv, NEW i \in SignalImport, UNCHANGED tenantVars,
         \/ BeginImport(i)
         \/ BeginTenantError(i)
         \/ ExpireTenantHandler(i)
         \/ OutboxStep(i)
         \/ StoreErrors(i)
         \/ InsertedAll(i)
  PROVE  TenantInv'
<1>a. UNCHANGED <<imp, signals, done, texp, tfiles>>
  BY DEF tenantVars
<1>1. CASE BeginImport(i)
  <2>1. Begin(i, "read") /\ AnyFault /\ faults' = faults
    BY <1>1 DEF BeginImport, Unfailing, AnyFault
  <2>2. /\ HandlersOK' /\ OnlyEvent(i) /\ at'[i] = "read" /\ fate[i] = "open" /\ ~ok[i]
        /\ fate'[i] = fate[i] /\ ok'[i] = ok[i] /\ tries'[i] = tries[i] /\ at[i] = "idle"
    <3>1. at[i] = "idle"
      BY <2>1 DEF Begin, Deliverable
    <3> QED
      BY <2>1, <3>1, MoveKeeps, ImportTypes
  <2>3. ImportOK(i)' /\ ImportShare(i)'
    BY <1>a, <2>2, ImportTypes DEF ImportOK, ImportShare, ImportStep
  <2>4. ImportUnfailing(i)'
    BY <1>a, <2>1, <2>2, ImportTypes DEF ImportUnfailing, Attended, InHand
  <2> QED
    BY <1>a, <2>1, <2>2, <2>3, <2>4, ImportTypes, OneImportKeeps DEF ImportInv
<1>2. CASE BeginTenantError(i) \/ ExpireTenantHandler(i)
  <2>1. /\ Answer(i, FALSE) \/ (Return(i, FALSE) /\ InHand(i))
        /\ Fault /\ AnyFault
    BY <1>2 DEF BeginTenantError, ExpireTenantHandler, AnyFault
  <2>2. /\ HandlersOK' /\ OnlyEvent(i) /\ at'[i] = "idle" /\ fate[i] = "open" /\ ~ok[i]
        /\ fate'[i] = "open" /\ tries'[i] = tries[i] + 1 /\ tries[i] < MaxAttempts
    BY <2>1, ReturnKeeps, ImportTypes
  <2>3. faults' > 0 /\ faults' \in Nat
    BY <2>1, FaultsGrow, ImportTypes DEF HandlersOK
  <2>4. ImportOK(i)' /\ ImportUnfailing(i)'
    BY <1>a, <2>2, <2>3, ImportTypes DEF ImportOK, ImportUnfailing
  <2>5. ImportShare(i)'
    <3>1. at[i] \in ImportStep \cup {"idle"}
      BY <2>1, ImportTypes DEF ImportOK, InHand, Answer, Deliverable
    <3>2. signals[i] <= Share(tries[i]) + Rows
      BY <2>2, <3>1, ImportTypes, ShareGrows DEF ImportShare, ImportStep
    <3> QED
      BY <1>a, <2>2, <3>2, ImportTypes, ShareGrows DEF ImportShare
  <2> QED
    BY <1>a, <2>1, <2>2, <2>4, <2>5, ImportTypes, OneImportKeeps DEF ImportInv
<1>3. CASE Crash(i) \/ LoseEvent(i)
  <2>1. /\ HandlersOK' /\ OnlyEvent(i) /\ AnyFault /\ faults' > 0
        /\ at'[i] = "lost" /\ fate'[i] = fate[i] /\ faults' \in Nat
    BY <1>3, LostKeeps, ImportTypes, FaultsGrow DEF HandlersOK
  <2>2. ImportInv(i)'
    BY <1>a, <2>1, ImportTypes DEF ImportInv, ImportOK, ImportUnfailing, ImportShare
  <2> QED
    BY <1>a, <2>1, <2>2, ImportTypes, OneImportKeeps
<1>4. CASE SettleEvent(i)
  <2>1. /\ HandlersOK' /\ OnlyEvent(i) /\ UNCHANGED <<tries, ok, at, faults>>
        /\ fate[i] = "open" /\ fate'[i] \in {"sent", "dead"} /\ at[i] = "idle"
        /\ ok[i] \/ tries[i] = MaxAttempts
    BY <1>4, SettleKeeps, ImportTypes
  <2>2. AnyFault
    BY <2>1 DEF AnyFault, Unfailing
  <2>3. ImportOK(i)' /\ ImportShare(i)'
    BY <1>a, <2>1, ImportTypes DEF ImportOK, ImportShare
  <2>4. ImportUnfailing(i)'
    <3>1. ~Attended(i)
      BY <2>1, ImportTypes, HandlerAssumption DEF Attended, InHand, Deliverable
    <3> QED
      BY <1>a, <2>1, <3>1, ImportTypes DEF ImportUnfailing
  <2> QED
    BY <1>a, <2>1, <2>2, <2>3, <2>4, ImportTypes, OneImportKeeps DEF ImportInv
<1>5. CASE StoreErrors(i) \/ InsertedAll(i)
  <2>1. PICK s \in {"complete", "failimport"} :
            Goto(i, s) /\ (at[i] = "errors" \/ (at[i] = "insert" /\ done[i] = Rows))
    BY <1>5 DEF StoreErrors, InsertedAll
  <2>2. InHand(i) /\ AnyFault /\ faults' = faults /\ s \notin {"idle", "lost"}
    BY <1>5, <2>1 DEF StoreErrors, InsertedAll, InHand, AnyFault, Unfailing
  <2>3. /\ HandlersOK' /\ OnlyEvent(i) /\ at'[i] = s
        /\ fate'[i] = fate[i] /\ ok'[i] = ok[i] /\ tries'[i] = tries[i] /\ tries[i] < MaxAttempts
        /\ ~ok[i]
    BY <2>1, <2>2, MoveKeeps, ImportTypes
  <2>4. ImportOK(i)'
    BY <1>a, <2>1, <2>3, ImportTypes DEF ImportOK, ImportStep
  <2>5. ImportUnfailing(i)'
    <3>1. s = "complete" \/ (s = "failimport" /\ at[i] = "errors")
      BY <1>5, <2>3, ImportTypes DEF StoreErrors, InsertedAll, Goto, HandlersOK
    <3> QED
      BY <1>a, <2>1, <2>2, <2>3, <3>1, ImportTypes DEF ImportUnfailing, Attended, InHand
  <2>6. ImportShare(i)'
    BY <1>a, <2>1, <2>3, ImportTypes, ShareGrows DEF ImportShare
  <2> QED
    BY <1>a, <2>2, <2>3, <2>4, <2>5, <2>6, ImportTypes, OneImportKeeps DEF ImportInv
<1> QED
  BY <1>1, <1>2, <1>3, <1>4, <1>5 DEF OutboxStep

(* The rest of the import's steps.                                         *)
LEMMA ReadFileInv ==
  ASSUME TenantInv, NEW i \in SignalImport, ReadFile(i) PROVE TenantInv'
<1>1. PICK s \in {"errors", "insert", "complete", "failimport"} :
          /\ Goto(i, s)
          /\ s = "errors" => ~imp[i].valid
          /\ s = "insert" => imp[i].valid /\ ~imp[i].only
          /\ s = "complete" => imp[i].only
  BY DEF ReadFile
<1>2. /\ at[i] = "read" /\ InHand(i) /\ AnyFault /\ faults' = faults /\ s \notin {"idle", "lost"}
      /\ done' = [done EXCEPT ![i] = 0] /\ UNCHANGED <<imp, signals, texp, tfiles>>
  BY <1>1 DEF ReadFile, InHand, AnyFault, Unfailing
<1>3. /\ HandlersOK' /\ OnlyEvent(i) /\ at'[i] = s
      /\ fate'[i] = fate[i] /\ ok'[i] = ok[i] /\ tries'[i] = tries[i] /\ tries[i] < MaxAttempts
      /\ ~ok[i]
  BY <1>1, <1>2, MoveKeeps, ImportTypes
<1>4. done' \in [SignalImport -> 0..Rows] /\ done'[i] = 0 /\ \A k \in SignalImport \ {i} : done'[k] = done[k]
  BY <1>2, ImportTypes
<1>5. ImportOK(i)'
  BY <1>1, <1>2, <1>3, <1>4, ImportTypes DEF ImportOK, ImportStep
<1>6. ImportUnfailing(i)'
  BY <1>1, <1>2, <1>3, <1>4, ImportTypes DEF ImportUnfailing, Attended, InHand
<1>7. ImportShare(i)'
  BY <1>2, <1>3, <1>4, ImportTypes, ShareGrows DEF ImportShare
<1> QED
  BY <1>2, <1>3, <1>4, <1>5, <1>6, <1>7, ImportTypes, OneImportKeeps DEF ImportInv

LEMMA InsertSignalInv ==
  ASSUME TenantInv, NEW i \in SignalImport, InsertSignal(i) PROVE TenantInv'
<1>1. /\ at[i] = "insert" /\ done[i] < Rows /\ InHand(i) /\ AnyFault /\ UNCHANGED <<imp, texp, tfiles>>
  BY DEF InsertSignal, InHand, AnyFault
<1>2. fate[i] = "open" /\ ~ok[i] /\ tries[i] < MaxAttempts
  BY <1>1, ImportTypes DEF EventOK
<1>3. signals[i] + 1 <= Share(tries[i]) + done[i] + 1 /\ done[i] + 1 <= Rows
  BY <1>1, <1>2, ImportTypes, ShareGrows DEF ImportShare
<1>4. signals[i] + 1 \in 0..(Rows * MaxAttempts) /\ done[i] + 1 \in 0..Rows
  BY <1>2, <1>3, ImportTypes, ShareGrows
<1>5. /\ imp[i].valid /\ ~imp[i].only /\ done[i] <= signals[i]
      /\ imp[i].status = "completed" => signals[i] >= imp[i].inserted
  BY <1>1, ImportTypes DEF ImportOK
<1>6. imp[i].inserted \in 0..Rows
  BY ImportTypes DEF ImportRow
<1>7. CASE /\ signals' = [signals EXCEPT ![i] = signals[i] + 1]
           /\ done' = [done EXCEPT ![i] = done[i] + 1] /\ UNCHANGED <<at, eventVars>> /\ Unfailing
  <2>1. /\ signals' \in [SignalImport -> 0..(Rows * MaxAttempts)] /\ signals'[i] = signals[i] + 1
        /\ \A k \in SignalImport \ {i} : signals'[k] = signals[k]
    BY <1>4, <1>7, ImportTypes
  <2>2. /\ done' \in [SignalImport -> 0..Rows] /\ done'[i] = done[i] + 1
        /\ \A k \in SignalImport \ {i} : done'[k] = done[k]
    BY <1>4, <1>7, ImportTypes
  <2>3. /\ HandlersOK' /\ OnlyEvent(i) /\ UNCHANGED <<fate, tries, ok, at, faults>>
    <3>1. HandlersOK /\ i \in Job /\ faults' = faults
      BY <1>7, ImportTypes DEF Unfailing
    <3>2. UNCHANGED <<eventVars, at>>
      BY <1>7
    <3> QED
      BY <1>1, <3>1, <3>2, NoEventKeeps DEF eventVars
  <2>4. ImportOK(i)'
    BY <1>1, <1>5, <1>6, <2>1, <2>2, <2>3, ImportTypes DEF ImportOK
  <2>5. ImportUnfailing(i)'
    BY <1>1, <2>1, <2>2, <2>3, ImportTypes DEF ImportUnfailing, Attended, InHand
  <2>6. ImportShare(i)'
    BY <1>1, <1>2, <1>3, <2>1, <2>2, <2>3, ImportTypes, ShareGrows DEF ImportShare
  <2> QED
    BY <1>1, <2>1, <2>2, <2>3, <2>4, <2>5, <2>6, ImportTypes, OneImportKeeps DEF ImportInv
<1>8. CASE /\ signals' = [signals EXCEPT ![i] = signals[i] + 1] \/ signals' = signals
           /\ UNCHANGED done /\ Goto(i, "failimport") /\ Fault
  <2>1. /\ signals' \in [SignalImport -> 0..(Rows * MaxAttempts)]
        /\ signals'[i] = signals[i] + 1 \/ signals'[i] = signals[i]
        /\ \A k \in SignalImport \ {i} : signals'[k] = signals[k]
    BY <1>4, <1>8, ImportTypes
  <2>2. /\ HandlersOK' /\ OnlyEvent(i) /\ at'[i] = "failimport"
        /\ fate'[i] = fate[i] /\ ok'[i] = ok[i] /\ tries'[i] = tries[i]
    BY <1>1, <1>8, MoveKeeps, ImportTypes
  <2>3. faults' > 0 /\ faults' \in Nat
    BY <1>1, <1>8, FaultsGrow, ImportTypes DEF HandlersOK
  <2>4. ImportOK(i)'
    BY <1>1, <1>5, <1>6, <1>8, <2>1, <2>2, ImportTypes DEF ImportOK, ImportStep
  <2>5. ImportUnfailing(i)'
    BY <2>3 DEF ImportUnfailing
  <2>6. ImportShare(i)'
    BY <1>2, <1>3, <2>1, <2>2, ImportTypes, ShareGrows DEF ImportShare
  <2> QED
    BY <1>1, <1>8, <2>1, <2>2, <2>4, <2>5, <2>6, ImportTypes, OneImportKeeps DEF ImportInv
<1> QED
  BY <1>7, <1>8 DEF InsertSignal

LEMMA ImportReturnsInv ==
  ASSUME TenantInv, NEW i \in SignalImport, CompleteSignalImport(i) \/ FailImport(i) PROVE TenantInv'
<1>1. /\ at[i] \in {"complete", "failimport"} /\ InHand(i) /\ AnyFault
      /\ UNCHANGED <<signals, done, texp, tfiles>>
  BY DEF CompleteSignalImport, FailImport, InHand, AnyFault
<1>2. PICK nil \in BOOLEAN :
          /\ Return(i, nil)
          /\ \/ /\ at[i] = "complete" /\ (nil \/ Fault)
                /\ imp' = [imp EXCEPT ![i].status = "completed", ![i].inserted = done[i]]
             \/ imp' = imp /\ Fault
             \/ imp' = [imp EXCEPT ![i].status = "failed"] /\ at[i] = "failimport"
  <2>1. CASE FailImport(i)
    BY <2>1 DEF FailImport, SetImport
  <2>2. CASE CompleteSignalImport(i)
    BY <2>2 DEF CompleteSignalImport
  <2> QED
    BY <2>1, <2>2
<1>3. /\ HandlersOK' /\ OnlyEvent(i) /\ at'[i] = "idle" /\ fate[i] = "open" /\ ~ok[i]
      /\ fate'[i] = "open" /\ ok'[i] = nil /\ tries'[i] = tries[i] + 1 /\ tries[i] < MaxAttempts
  BY <1>1, <1>2, ReturnKeeps, ImportTypes
<1>4. /\ imp' \in [SignalImport -> ImportRow] /\ \A k \in SignalImport \ {i} : imp'[k] = imp[k]
      /\ imp'[i].only = imp[i].only /\ imp'[i].valid = imp[i].valid
      /\ \/ /\ imp'[i].status = "completed" /\ imp'[i].inserted = done[i] /\ at[i] = "complete"
            /\ nil \/ Fault
         \/ imp'[i] = imp[i] /\ Fault
         \/ imp'[i].status = "failed" /\ at[i] = "failimport"
  <2>1. CASE /\ at[i] = "complete" /\ (nil \/ Fault)
             /\ imp' = [imp EXCEPT ![i].status = "completed", ![i].inserted = done[i]]
    <3> DEFINE new == [imp[i] EXCEPT !.status = "completed", !.inserted = done[i]]
    <3>1. /\ new \in ImportRow /\ new.only = imp[i].only /\ new.valid = imp[i].valid
          /\ new.status = "completed" /\ new.inserted = done[i]
      BY ImportTypes DEF ImportRow
    <3>2. imp' = [imp EXCEPT ![i] = new]
      BY <2>1, ImportTypes DEF ImportRow
    <3> HIDE DEF new
    <3> QED
      BY <2>1, <3>1, <3>2, ImportTypes
  <2>2. CASE imp' = imp /\ Fault
    BY <2>2, ImportTypes
  <2>3. CASE imp' = [imp EXCEPT ![i].status = "failed"] /\ at[i] = "failimport"
    BY <2>3, ImportTypes DEF ImportRow
  <2> QED
    BY <1>2, <2>1, <2>2, <2>3
<1>5. faults' \in Nat /\ faults \in Nat /\ (faults' = 0 => faults = 0 /\ ~Fault)
  BY <1>1, FaultsGrow, ImportTypes DEF HandlersOK
<1>6. ImportOK(i)'
  <2>1. /\ imp'[i].status # "absent" /\ fate'[i] # "absent"
    BY <1>3, <1>4, ImportTypes DEF ImportOK
  <2>2. imp'[i].status = "completed" =>
            /\ signals[i] >= imp'[i].inserted
            /\ imp'[i].valid /\ ~imp'[i].only => imp'[i].inserted = Rows
    BY <1>4, ImportTypes DEF ImportOK
  <2> QED
    BY <1>1, <1>3, <1>4, <2>1, <2>2, ImportTypes DEF ImportOK
<1>7. ImportUnfailing(i)'
  <2> SUFFICES ASSUME faults' = 0
               PROVE  /\ signals[i] = done[i] /\ (done[i] > 0 => ok'[i]) /\ imp'[i].status # "processing"
    BY <1>1 DEF ImportUnfailing
  <2>1. faults = 0 /\ ~Fault
    BY <1>5
  <2>2. signals[i] = done[i] /\ (done[i] > 0 => at[i] = "complete")
    BY <1>1, <1>3, <2>1, ImportTypes DEF ImportUnfailing
  <2>3. at[i] = "complete" => nil
    BY <1>4, <2>1
  <2> QED
    BY <1>3, <1>4, <2>1, <2>2, <2>3
<1>8. ImportShare(i)'
  BY <1>1, <1>3, ImportTypes, ShareGrows DEF ImportShare
<1> QED
  BY <1>1, <1>3, <1>4, <1>6, <1>7, <1>8, ImportTypes, OneImportKeeps DEF ImportInv

-----------------------------------------------------------------------------
(* The steps of a tenant export.                                           *)
LEMMA TenantExportTypes ==
  ASSUME TenantInv, NEW e \in TenantExport
  PROVE  /\ e \in Job /\ HandlersOK /\ EventOK(e) /\ TenantExportInv(e)
         /\ texp \in [TenantExport -> TenantExportRow] /\ texp[e] \in TenantExportRow
         /\ tfiles \in [TenantExport -> 0..MaxAttempts] /\ tfiles[e] \in 0..MaxAttempts
         /\ tries[e] \in Nat /\ faults \in Nat /\ MaxAttempts \in Nat
  BY TenantJobsAssumption, HandlerAssumption, FaultsAssumption
  DEF TenantInv, TenantRowsOK, HandlersOK, FaultsTypeOK

LEMMA TenantExportRequestInv ==
  ASSUME TenantInv, NEW e \in TenantExport, CreateTenantExport(e) \/ ExpireTenantExport(e)
  PROVE  TenantInv'
<1>1. CASE CreateTenantExport(e)
  <2>1. /\ texp[e].status = "absent" /\ texp' = [texp EXCEPT ![e].status = "processing"]
        /\ Enqueue(e) /\ UNCHANGED <<imp, signals, done, tfiles>> /\ faults' = faults /\ AnyFault
    BY <1>1 DEF CreateTenantExport, AnyFault, Unfailing
  <2>2. /\ HandlersOK' /\ OnlyEvent(e) /\ fate[e] = "absent" /\ fate'[e] = "open" /\ ~ok'[e] /\ tries'[e] = 0
        /\ at'[e] = "idle" /\ tries[e] = 0 /\ Deliverable(e)' /\ at[e] = "idle"
    BY <2>1, EnqueueKeeps, TenantExportTypes DEF EventOK
  <2>3. /\ texp' \in [TenantExport -> TenantExportRow] /\ \A k \in TenantExport \ {e} : texp'[k] = texp[k]
        /\ texp'[e].status = "processing" /\ texp'[e].gone = texp[e].gone /\ texp'[e].file = texp[e].file
    BY <2>1, TenantExportTypes DEF TenantExportRow
  <2>4. ~texp[e].gone
    BY <2>1, TenantExportTypes DEF TenantExportInv
  <2>5. TenantExportInv(e)'
    BY <2>1, <2>2, <2>3, <2>4, TenantExportTypes DEF TenantExportInv, Attended
  <2> QED
    BY <2>1, <2>2, <2>3, <2>5, TenantExportTypes, OneTenantExportKeeps
<1>2. CASE ExpireTenantExport(e)
  <2>1. /\ texp[e].status # "absent" /\ texp' = [texp EXCEPT ![e].status = "deleted", ![e].gone = TRUE]
        /\ UNCHANGED <<handlerVars, imp, signals, done, tfiles>> /\ faults' = faults /\ AnyFault
    BY <1>2 DEF ExpireTenantExport, handlerVars, AnyFault, Unfailing
  <2>2. UNCHANGED <<fate, tries, ok, at>> /\ UNCHANGED <<eventVars, at>>
    BY <2>1 DEF handlerVars, eventVars
  <2>3. HandlersOK'
    BY <2>1, <2>2, NoEventKeeps, TenantExportTypes
  <2>4. /\ texp' \in [TenantExport -> TenantExportRow] /\ \A k \in TenantExport \ {e} : texp'[k] = texp[k]
        /\ texp'[e].status = "deleted" /\ texp'[e].file = texp[e].file
    <3> DEFINE new == [texp[e] EXCEPT !.status = "deleted", !.gone = TRUE]
    <3>1. new \in TenantExportRow /\ new.status = "deleted" /\ new.file = texp[e].file
      BY TenantExportTypes DEF TenantExportRow
    <3>2. texp' = [texp EXCEPT ![e] = new]
      BY <2>1, TenantExportTypes DEF TenantExportRow
    <3> HIDE DEF new
    <3> QED
      BY <3>1, <3>2, TenantExportTypes
  <2>5. TenantExportInv(e)'
    BY <2>1, <2>2, <2>4, TenantExportTypes DEF TenantExportInv
  <2> QED
    BY <2>1, <2>2, <2>3, <2>4, <2>5, TenantExportTypes, OneTenantExportKeeps
<1> QED
  BY <1>1, <1>2

LEMMA TenantExportEventInv ==
  ASSUME TenantInv, NEW e \in TenantExport, UNCHANGED tenantVars,
         \/ BeginTenantExport(e)
         \/ BeginTenantError(e)
         \/ ExpireTenantHandler(e)
         \/ OutboxStep(e)
         \/ ListTenantData(e)
  PROVE  TenantInv'
<1>a. UNCHANGED <<imp, signals, done, texp, tfiles>>
  BY DEF tenantVars
<1>k. \A k \in TenantExport \ {e} : texp'[k] = texp[k] /\ tfiles'[k] = tfiles[k]
  BY <1>a
<1>1. ASSUME Begin(e, "list"), Unfailing PROVE TenantInv'
  <2>1. at[e] = "idle" /\ AnyFault /\ faults' = faults
    BY <1>1 DEF Begin, Deliverable, Unfailing, AnyFault
  <2>2. /\ HandlersOK' /\ OnlyEvent(e) /\ at'[e] = "list" /\ fate'[e] = fate[e] /\ tries'[e] = tries[e]
    BY <1>1, <2>1, MoveKeeps, TenantExportTypes
  <2>3. TenantExportInv(e)'
    BY <1>a, <2>1, <2>2, TenantExportTypes DEF TenantExportInv, TenantStep, Attended, InHand
  <2> QED
    BY <1>a, <1>k, <2>1, <2>2, <2>3, TenantExportTypes, OneTenantExportKeeps
<1>2. ASSUME Answer(e, FALSE) \/ (Return(e, FALSE) /\ InHand(e)), AnyFault, Fault \/ texp[e].gone,
             at[e] = "ready" => Fault
      PROVE  TenantInv'
  <2>1. /\ HandlersOK' /\ OnlyEvent(e) /\ at'[e] = "idle" /\ fate[e] = "open"
        /\ fate'[e] = "open" /\ tries'[e] = tries[e] + 1 /\ tries[e] < MaxAttempts
    BY <1>2, ReturnKeeps, TenantExportTypes
  <2>2. faults' \in Nat /\ (faults' = 0 => faults = 0 /\ ~Fault)
    BY <1>2, FaultsGrow, TenantExportTypes DEF HandlersOK
  <2>3. tfiles[e] <= tries[e] + 1
    <3>1. at[e] \in TenantStep \cup {"idle"}
      BY <1>2, TenantExportTypes DEF TenantExportInv, InHand, Answer, Deliverable
    <3> QED
      BY <3>1, TenantExportTypes DEF TenantExportInv, TenantStep
  <2>4. TenantExportInv(e)'
    BY <1>2, <1>a, <2>1, <2>2, <2>3, TenantExportTypes DEF TenantExportInv
  <2> QED
    BY <1>2, <1>a, <1>k, <2>1, <2>4, TenantExportTypes, OneTenantExportKeeps
<1>3. CASE BeginTenantExport(e)
  <2>1. (texp[e].gone /\ Answer(e, FALSE) /\ Unfailing) \/ (Begin(e, "list") /\ Unfailing)
    BY <1>3 DEF BeginTenantExport
  <2>2. ASSUME texp[e].gone, Answer(e, FALSE), Unfailing PROVE TenantInv'
    BY <1>2, <2>2 DEF AnyFault, Answer, Deliverable
  <2> QED
    BY <1>1, <2>1, <2>2
<1>4. CASE BeginTenantError(e) \/ ExpireTenantHandler(e)
  <2>1. Answer(e, FALSE) \/ (Return(e, FALSE) /\ InHand(e))
    BY <1>4 DEF BeginTenantError, ExpireTenantHandler
  <2>2. Fault /\ AnyFault
    BY <1>4 DEF BeginTenantError, ExpireTenantHandler, AnyFault
  <2> QED
    BY <1>2, <2>1, <2>2
<1>5. CASE Crash(e) \/ LoseEvent(e)
  <2>1. /\ HandlersOK' /\ OnlyEvent(e) /\ AnyFault /\ faults' > 0
        /\ at'[e] = "lost" /\ fate'[e] = fate[e] /\ faults' \in Nat
    BY <1>5, LostKeeps, TenantExportTypes, FaultsGrow DEF HandlersOK
  <2>2. TenantExportInv(e)'
    BY <1>a, <2>1, TenantExportTypes DEF TenantExportInv
  <2> QED
    BY <1>a, <1>k, <2>1, <2>2, TenantExportTypes, OneTenantExportKeeps
<1>6. CASE SettleEvent(e)
  <2>1. /\ HandlersOK' /\ OnlyEvent(e) /\ UNCHANGED <<tries, ok, at, faults>>
        /\ fate[e] = "open" /\ fate'[e] \in {"sent", "dead"} /\ at[e] = "idle"
        /\ ok[e] \/ tries[e] = MaxAttempts
    BY <1>6, SettleKeeps, TenantExportTypes
  <2>2. AnyFault
    BY <2>1 DEF AnyFault, Unfailing
  <2>3. ~Attended(e)
    BY <2>1, TenantExportTypes DEF Attended, InHand, Deliverable
  <2>4. TenantExportInv(e)'
    BY <1>a, <2>1, <2>3, TenantExportTypes DEF TenantExportInv
  <2> QED
    BY <1>a, <1>k, <2>1, <2>2, <2>4, TenantExportTypes, OneTenantExportKeeps
<1>7. CASE ListTenantData(e)
  <2>1. PICK s \in {"store", "failexport"} : Goto(e, s)
    BY <1>7 DEF ListTenantData
  <2>2. at[e] = "list" /\ InHand(e) /\ AnyFault
    BY <1>7 DEF ListTenantData, InHand, AnyFault
  <2>3. /\ HandlersOK' /\ OnlyEvent(e) /\ at'[e] = s /\ fate'[e] = fate[e] /\ tries'[e] = tries[e]
    BY <2>1, <2>2, MoveKeeps, TenantExportTypes
  <2>4. faults' \in Nat /\ (faults' = 0 => faults = 0)
    BY <2>2, FaultsGrow, TenantExportTypes DEF HandlersOK
  <2>5. TenantExportInv(e)'
    BY <1>a, <2>2, <2>3, <2>4, TenantExportTypes DEF TenantExportInv, TenantStep, Attended, InHand
  <2> QED
    BY <1>a, <1>k, <2>2, <2>3, <2>5, TenantExportTypes, OneTenantExportKeeps
<1> QED
  BY <1>3, <1>4, <1>5, <1>6, <1>7 DEF OutboxStep

LEMMA StoreExportInv ==
  ASSUME TenantInv, NEW e \in TenantExport, StoreExport(e) PROVE TenantInv'
<1>1. /\ at[e] = "store" /\ InHand(e) /\ AnyFault /\ faults' = faults
      /\ UNCHANGED <<imp, signals, done, texp>>
  BY DEF StoreExport, InHand, AnyFault, Unfailing
<1>2. PICK s \in {"ready", "failexport"} :
          /\ Goto(e, s)
          /\ \/ s = "ready" /\ tfiles' = [tfiles EXCEPT ![e] = tfiles[e] + 1]
             \/ s = "failexport" /\ tfiles' = tfiles
  BY DEF StoreExport
<1>3. /\ HandlersOK' /\ OnlyEvent(e) /\ at'[e] = s /\ fate'[e] = fate[e] /\ tries'[e] = tries[e]
      /\ tries[e] < MaxAttempts
  BY <1>1, <1>2, MoveKeeps, TenantExportTypes
<1>4. tfiles[e] <= tries[e] /\ tfiles[e] + 1 \in 0..MaxAttempts
  <2>1. tfiles[e] <= tries[e]
    BY <1>1, TenantExportTypes DEF TenantExportInv
  <2> QED
    BY <1>3, <2>1, TenantExportTypes
<1>5. /\ tfiles' \in [TenantExport -> 0..MaxAttempts] /\ \A k \in TenantExport \ {e} : tfiles'[k] = tfiles[k]
      /\ (s = "ready" /\ tfiles'[e] = tfiles[e] + 1) \/ (s = "failexport" /\ tfiles'[e] = tfiles[e])
  BY <1>2, <1>4, TenantExportTypes
<1>6. TenantExportInv(e)'
  <2>1. texp[e].file \in Nat
    BY TenantExportTypes DEF TenantExportRow
  <2> QED
    BY <1>1, <1>3, <1>4, <1>5, <2>1, TenantExportTypes DEF TenantExportInv, TenantStep, Attended, InHand
<1> QED
  BY <1>1, <1>3, <1>5, <1>6, TenantExportTypes, OneTenantExportKeeps

LEMMA TenantExportReturnsInv ==
  ASSUME TenantInv, NEW e \in TenantExport, MarkTenantExportReady(e) \/ FailTenantExport(e)
  PROVE  TenantInv'
<1>1. /\ at[e] \in {"ready", "failexport"} /\ InHand(e) /\ AnyFault
      /\ UNCHANGED <<imp, signals, done, tfiles>>
  BY DEF MarkTenantExportReady, FailTenantExport, InHand, AnyFault
<1>2. PICK nil \in BOOLEAN :
          /\ Return(e, nil)
          /\ \/ /\ at[e] = "ready"
                /\ texp' = [texp EXCEPT ![e].status = "ready", ![e].file = tfiles[e]]
             \/ texp' = texp /\ Fault
             \/ texp' = [texp EXCEPT ![e].status = "failed"] /\ at[e] = "failexport"
  <2>1. CASE MarkTenantExportReady(e)
    BY <2>1 DEF MarkTenantExportReady
  <2>2. CASE FailTenantExport(e)
    BY <2>2 DEF FailTenantExport
  <2> QED
    BY <2>1, <2>2
<1>3. /\ HandlersOK' /\ OnlyEvent(e) /\ at'[e] = "idle" /\ fate[e] = "open"
      /\ fate'[e] = "open" /\ tries'[e] = tries[e] + 1 /\ tries[e] < MaxAttempts
  BY <1>1, <1>2, ReturnKeeps, TenantExportTypes
<1>4. /\ texp' \in [TenantExport -> TenantExportRow] /\ \A k \in TenantExport \ {e} : texp'[k] = texp[k]
      /\ \/ at[e] = "ready" /\ texp'[e].status = "ready" /\ texp'[e].file = tfiles[e]
         \/ texp'[e] = texp[e] /\ Fault
         \/ at[e] = "failexport" /\ texp'[e].status = "failed" /\ texp'[e].file = texp[e].file
  <2>1. CASE at[e] = "ready" /\ texp' = [texp EXCEPT ![e].status = "ready", ![e].file = tfiles[e]]
    <3> DEFINE new == [texp[e] EXCEPT !.status = "ready", !.file = tfiles[e]]
    <3>1. new \in TenantExportRow /\ new.status = "ready" /\ new.file = tfiles[e]
      BY TenantExportTypes DEF TenantExportRow
    <3>2. texp' = [texp EXCEPT ![e] = new]
      BY <2>1, TenantExportTypes DEF TenantExportRow
    <3> HIDE DEF new
    <3> QED
      BY <2>1, <3>1, <3>2, TenantExportTypes
  <2>2. CASE texp' = texp /\ Fault
    BY <2>2, TenantExportTypes
  <2>3. CASE texp' = [texp EXCEPT ![e].status = "failed"] /\ at[e] = "failexport"
    BY <2>3, TenantExportTypes DEF TenantExportRow
  <2> QED
    BY <1>2, <2>1, <2>2, <2>3
<1>5. faults' \in Nat /\ (faults' = 0 => faults = 0 /\ ~Fault)
  BY <1>1, FaultsGrow, TenantExportTypes DEF HandlersOK
<1>6. TenantExportInv(e)'
  <2>1. CASE at[e] = "ready" /\ texp'[e].status = "ready" /\ texp'[e].file = tfiles[e]
    BY <1>1, <1>3, <1>5, <2>1, TenantExportTypes DEF TenantExportInv
  <2>2. CASE texp'[e] = texp[e] /\ Fault
    BY <1>1, <1>3, <1>5, <2>2, TenantExportTypes DEF TenantExportInv
  <2>3. CASE at[e] = "failexport" /\ texp'[e].status = "failed" /\ texp'[e].file = texp[e].file
    BY <1>1, <1>3, <1>5, <2>3, TenantExportTypes DEF TenantExportInv
  <2> QED
    BY <1>4, <2>1, <2>2, <2>3
<1>7. \A k \in TenantExport \ {e} : texp'[k] = texp[k] /\ tfiles'[k] = tfiles[k]
  BY <1>1, <1>4
<1> QED
  BY <1>1, <1>3, <1>4, <1>6, <1>7, TenantExportTypes, OneTenantExportKeeps

LEMMA TenantStepInv ==
  ASSUME TenantInv, TenantNext PROVE TenantInv'
<1>1. ASSUME NEW i \in SignalImport, CreateImport(i) \/ ImportHandlerStep(i) PROVE TenantInv'
  <2>1. BeginImport(i) \/ StoreErrors(i) \/ InsertedAll(i) => UNCHANGED tenantVars
    BY DEF BeginImport, StoreErrors, InsertedAll
  <2> QED
    BY <1>1, <2>1, CreateImportInv, ImportEventInv, ReadFileInv, InsertSignalInv, ImportReturnsInv
    DEF ImportHandlerStep
<1>2. ASSUME NEW e \in TenantExport,
             CreateTenantExport(e) \/ ExpireTenantExport(e) \/ TenantExportStep(e)
      PROVE  TenantInv'
  <2>1. BeginTenantExport(e) \/ ListTenantData(e) => UNCHANGED tenantVars
    BY DEF BeginTenantExport, ListTenantData
  <2> QED
    BY <1>2, <2>1, TenantExportRequestInv, TenantExportEventInv, StoreExportInv, TenantExportReturnsInv
    DEF TenantExportStep
<1>3. ASSUME NEW j \in SignalImport \cup TenantExport,
             \/ BeginTenantError(j) \/ ExpireTenantHandler(j)
             \/ OutboxStep(j) /\ UNCHANGED tenantVars
      PROVE  TenantInv'
  <2>1. UNCHANGED tenantVars
    BY <1>3 DEF BeginTenantError, ExpireTenantHandler
  <2> QED
    BY <1>3, <2>1, ImportEventInv, TenantExportEventInv
<1> QED
  BY <1>1, <1>2, <1>3 DEF TenantNext

LEMMA TenantInvShows ==
  TenantInv => TenantTypeOK /\ ImportAccounted /\ TenantFileRecorded /\ TenantJobsAttended
<1> SUFFICES ASSUME TenantInv PROVE TenantTypeOK /\ ImportAccounted /\ TenantFileRecorded /\ TenantJobsAttended
  OBVIOUS
<1>1. HandlersTypeOK(SignalImport, ImportStep) /\ HandlersTypeOK(TenantExport, TenantStep)
  BY DEF HandlersTypeOK, TenantInv, HandlersOK, ImportInv, ImportOK, TenantExportInv
<1>2. TenantTypeOK
  BY <1>1 DEF TenantTypeOK, TenantInv, TenantRowsOK, ImportInv, ImportOK, TenantExportInv,
    ImportRow, TenantExportRow
<1>3. ImportAccounted
  <2> SUFFICES ASSUME NEW i \in SignalImport
               PROVE  /\ imp[i].only \/ ~imp[i].valid => signals[i] = 0
                      /\ imp[i].status = "completed" => signals[i] >= imp[i].inserted
                      /\ imp[i].status = "completed" /\ imp[i].valid /\ ~imp[i].only => imp[i].inserted = Rows
                      /\ faults = 0 => signals[i] <= Rows
    BY DEF ImportAccounted
  <2> QED
    BY ImportTypes DEF ImportOK, ImportUnfailing
<1>4. TenantFileRecorded
  BY DEF TenantFileRecorded, TenantInv, TenantExportInv
<1>5. TenantJobsAttended
  <2>1. faults \in Nat
    BY FaultsAssumption DEF TenantInv, HandlersOK, FaultsTypeOK
  <2>2. ASSUME NEW i \in SignalImport, faults = 0, imp[i].status \in Open PROVE Attended(i)
    BY <2>2, ImportTypes DEF ImportUnfailing, ImportRow, Open
  <2>3. ASSUME NEW e \in TenantExport, faults = 0, texp[e].status \in Open PROVE Attended(e)
    BY <2>3, TenantExportTypes DEF TenantExportInv, TenantExportRow, Open
  <2> QED
    BY <2>1, <2>2, <2>3 DEF TenantJobsAttended
<1> QED
  BY <1>2, <1>3, <1>4, <1>5

-----------------------------------------------------------------------------
(* Exports of a work table, on request or by its schedule.                 *)

Tells == {"tell", "tellfail", "tellreject"}

(* What the schedule says of an export is what its row said when it was    *)
(* told; without faults an export that says it is ready is not handled     *)
(* again, and a handler that marks the row tells the schedule next.        *)
LastOK(e) ==
    faults = 0 /\ schedule.export = e =>
        /\ schedule.last = "ready" => ok[e] /\ (exp[e].gone \/ exp[e].status = "ready")
        /\ schedule.last = "failed" => exp[e].gone \/ exp[e].status = "failed" \/ at[e] = "tell"
        /\ schedule.last = "created" => exp[e].gone \/ exp[e].status = "processing" \/ InHand(e)

(* Without faults the first call that stores a file is the last.           *)
ExportUnfailing(e) ==
    faults = 0 =>
        /\ files[e] <= 1
        /\ files[e] > 0 => at[e] \in {"ready", "tell"} \/ ok[e]
        /\ at[e] \in Tells => exp[e].gone \/ exp[e].status = Outcome(e)
        /\ exp[e].status = "processing" => Attended(e)

ExportOK(e) ==
    /\ at[e] \in ExportStep \cup {"idle", "lost"}
    /\ exp[e].status = "absent" <=> fate[e] = "absent"
    /\ exp[e].gone => exp[e].status \notin {"absent", "processing"}
    /\ exp[e].file <= files[e]
    /\ exp[e].status = "ready" => exp[e].file > 0
    /\ at[e] \in {"idle", "write", "file"} => files[e] <= tries[e]
    /\ InHand(e) => files[e] <= tries[e] + 1
    /\ at[e] = "ready" => files[e] > 0

ExportInv(e) == ExportOK(e) /\ ExportUnfailing(e) /\ LastOK(e)

ExportRow == [status : {"absent", "processing", "ready", "failed", "deleted"},
              scheduled : BOOLEAN, file : 0..MaxAttempts, gone : BOOLEAN]

ScheduleRow == [enabled : BOOLEAN, export : Export \cup {NoJob},
                last : {"none", "created", "skipped", "disabled", "ready", "failed"}]

(* A schedule that was switched off has no write pending that would switch *)
(* it on.                                                                  *)
ScheduleInv ==
    /\ table \in BOOLEAN /\ off \in BOOLEAN
    /\ schedule \in ScheduleRow
    /\ update \in [Owner -> {"none", "on", "off"}]
    /\ off => ~schedule.enabled /\ \A o \in Owner : update[o] # "on"

ExportRowsOK == exp \in [Export -> ExportRow] /\ files \in [Export -> 0..MaxAttempts]

ExportsInv ==
    /\ HandlersOK /\ ExportRowsOK /\ ScheduleInv
    /\ \A e \in Export : ExportInv(e)

LEMMA ExportsInvInit == HandlersInit /\ ExportInit => ExportsInv
<1> SUFFICES ASSUME HandlersInit, ExportInit PROVE ExportsInv
  OBVIOUS
<1> USE HandlerAssumption, ExportAssumption, FaultsAssumption
<1>1. HandlersOK
  BY HandlersOKInit
<1>2. /\ fate = [j \in Job |-> "absent"] /\ tries = [j \in Job |-> 0] /\ ok = [j \in Job |-> FALSE]
      /\ at = [j \in Job |-> "idle"]
  BY DEF HandlersInit, Queue!Init
<1>3. ExportRowsOK
  BY DEF ExportInit, ExportRowsOK, ExportRow
<1>4. ScheduleInv
  <2>1. schedule \in ScheduleRow /\ table \in BOOLEAN /\ off \in BOOLEAN /\ ~off
    BY DEF ExportInit, ScheduleRow
  <2> QED
    BY <2>1 DEF ExportInit, ScheduleInv
<1>5. ASSUME NEW e \in Export PROVE ExportInv(e)
  BY <1>2 DEF ExportInit, ExportInv, ExportOK, ExportUnfailing, LastOK, InHand, Tells
<1> QED
  BY <1>1, <1>3, <1>4, <1>5 DEF ExportsInv

LEMMA ExportTypes ==
  ASSUME ExportsInv, NEW e \in Export
  PROVE  /\ e \in Job /\ HandlersOK /\ EventOK(e) /\ ExportOK(e) /\ ExportUnfailing(e) /\ LastOK(e)
         /\ exp \in [Export -> ExportRow] /\ exp[e] \in ExportRow
         /\ files \in [Export -> 0..MaxAttempts] /\ files[e] \in 0..MaxAttempts
         /\ tries[e] \in Nat /\ faults \in Nat /\ MaxAttempts \in Nat /\ ScheduleInv
         /\ schedule \in ScheduleRow
  BY ExportAssumption, HandlerAssumption, FaultsAssumption
  DEF ExportsInv, ExportRowsOK, ExportInv, ScheduleInv, HandlersOK, FaultsTypeOK

(* A step of one export leaves the others alone, and what the schedule     *)
(* says of them.                                                           *)
LEMMA OneExportKeeps ==
  ASSUME ExportsInv, NEW e \in Export, HandlersOK', OnlyEvent(e), AnyFault, ScheduleInv',
         exp' \in [Export -> ExportRow], files' \in [Export -> 0..MaxAttempts],
         \A k \in Export \ {e} : exp'[k] = exp[k] /\ files'[k] = files[k],
         schedule' = schedule \/ schedule'.export = e,
         ExportInv(e)'
  PROVE  ExportsInv'
<1> USE ExportAssumption
<1>1. faults' = 0 => faults = 0
  BY FaultsGrow DEF ExportsInv, HandlersOK
<1>2. ASSUME NEW k \in Export \ {e} PROVE ExportInv(k)'
  <2>1. ExportOK(k) /\ ExportUnfailing(k) /\ LastOK(k)
    BY DEF ExportsInv, ExportInv
  <2>2. /\ fate'[k] = fate[k] /\ tries'[k] = tries[k] /\ ok'[k] = ok[k] /\ at'[k] = at[k]
        /\ exp'[k] = exp[k] /\ files'[k] = files[k]
    BY DEF OnlyEvent
  <2>3. ExportOK(k)'
    BY <2>1, <2>2 DEF ExportOK, InHand
  <2>4. ExportUnfailing(k)'
    BY <1>1, <2>1, <2>2 DEF ExportUnfailing, Outcome, Attended, InHand, Deliverable
  <2>5. LastOK(k)'
    BY <1>1, <2>1, <2>2 DEF LastOK, InHand
  <2> QED
    BY <2>3, <2>4, <2>5 DEF ExportInv
<1> QED
  BY <1>2 DEF ExportsInv, ExportRowsOK

(* A step of the schedule alone.                                           *)
LEMMA ScheduleKeeps ==
  ASSUME ExportsInv, UNCHANGED <<handlerVars, exp, files>>, ScheduleInv',
         \/ schedule'.last \in {"skipped", "disabled"}
         \/ schedule'.last = schedule.last /\ schedule'.export = schedule.export
  PROVE  ExportsInv'
<1>1. UNCHANGED <<eventVars, at, fate, tries, ok, faults>> /\ AnyFault
  BY DEF handlerVars, eventVars, AnyFault, Unfailing
<1>2. HandlersOK'
  BY <1>1, NoEventKeeps DEF ExportsInv
<1>3. ASSUME NEW k \in Export PROVE ExportInv(k)'
  <2>1. ExportOK(k) /\ ExportUnfailing(k) /\ LastOK(k)
    BY DEF ExportsInv, ExportInv
  <2>2. ExportOK(k)' /\ ExportUnfailing(k)'
    BY <1>1, <2>1 DEF ExportOK, ExportUnfailing, Outcome, Attended, InHand, Deliverable
  <2>3. LastOK(k)'
    BY <1>1, <2>1 DEF LastOK, InHand
  <2> QED
    BY <2>2, <2>3 DEF ExportInv
<1> QED
  BY <1>2, <1>3 DEF ExportsInv, ExportRowsOK

LEMMA ScheduleStepInv ==
  ASSUME ExportsInv,
         \/ DropWorkTable \/ DisableSchedule \/ DisableDue \/ SkipDue
         \/ \E o \in Owner : ReadSchedule(o) \/ WriteSchedule(o)
  PROVE  ExportsInv'
<1>a. /\ schedule \in ScheduleRow /\ table \in BOOLEAN /\ off \in BOOLEAN
      /\ update \in [Owner -> {"none", "on", "off"}]
      /\ off => ~schedule.enabled /\ \A o \in Owner : update[o] # "on"
  BY DEF ExportsInv, ScheduleInv
<1>1. CASE DropWorkTable
  <2>1. table' \in BOOLEAN /\ UNCHANGED <<handlerVars, schedule, update, exp, files, off>>
    BY <1>1 DEF DropWorkTable
  <2>2. ScheduleInv'
    BY <1>a, <2>1 DEF ScheduleInv
  <2> QED
    BY <2>1, <2>2, ScheduleKeeps
<1>2. ASSUME schedule' = [schedule EXCEPT !.enabled = FALSE, !.last = "disabled"],
             off' \in BOOLEAN, off' => \A o \in Owner : update[o] # "on",
             UNCHANGED <<handlerVars, table, update, exp, files>>
      PROVE  ExportsInv'
  <2>1. schedule' \in ScheduleRow /\ ~schedule'.enabled /\ schedule'.last = "disabled"
    BY <1>2, <1>a DEF ScheduleRow
  <2>2. ScheduleInv'
    BY <1>2, <1>a, <2>1 DEF ScheduleInv
  <2> QED
    BY <1>2, <2>1, <2>2, ScheduleKeeps
<1>3. CASE DisableSchedule
  BY <1>2, <1>3 DEF DisableSchedule
<1>4. CASE DisableDue
  BY <1>2, <1>4, <1>a DEF DisableDue
<1>5. CASE SkipDue
  <2>1. /\ UNCHANGED <<handlerVars, table, update, exp, files, off>>
        /\ schedule' \in ScheduleRow /\ schedule'.enabled = schedule.enabled /\ schedule'.last = "skipped"
    BY <1>5, <1>a DEF SkipDue, ScheduleRow
  <2>2. ScheduleInv'
    BY <1>a, <2>1 DEF ScheduleInv
  <2> QED
    BY <2>1, <2>2, ScheduleKeeps
<1>6. ASSUME NEW o \in Owner, ReadSchedule(o) PROVE ExportsInv'
  <2>1. PICK want \in {"on", "off", "same"} :
           LET flag == IF want = "same" THEN Flag(schedule.enabled) ELSE want IN
           /\ update' = [update EXCEPT ![o] = flag]
           /\ off' = (off /\ want # "on")
    BY <1>6 DEF ReadSchedule
  <2>2. UNCHANGED <<handlerVars, table, schedule, exp, files>>
    BY <1>6 DEF ReadSchedule
  <2>3. PICK flag \in {"on", "off"} : /\ update' = [update EXCEPT ![o] = flag]
                                     /\ (flag = "on" => ~off')
    <3>1. CASE want = "same"
      BY <1>a, <2>1, <3>1 DEF Flag
    <3>2. CASE want # "same"
      BY <2>1, <3>2
    <3> QED
      BY <3>1, <3>2
  <2>a. update' = [update EXCEPT ![o] = flag]
    BY <2>3
  <2>b. update' \in [Owner -> {"none", "on", "off"}] /\ update'[o] = flag
        /\ \A q \in Owner \ {o} : update'[q] = update[q]
    BY <1>a, <2>a
  <2>4. off' => \A q \in Owner : update'[q] # "on"
    <3>1. off' => off
      BY <2>1
    <3>2. off' => flag # "on"
      BY <2>3
    <3> QED
      BY <1>a, <2>b, <3>1, <3>2
  <2>5. off' \in BOOLEAN /\ (off' => off)
    BY <2>1
  <2>6. ScheduleInv'
    BY <1>a, <2>2, <2>b, <2>4, <2>5 DEF ScheduleInv
  <2> QED
    BY <2>2, <2>6, ScheduleKeeps
<1>7. ASSUME NEW o \in Owner, WriteSchedule(o) PROVE ExportsInv'
  <2>1. /\ schedule' = [schedule EXCEPT !.enabled = (update[o] = "on")]
        /\ update' = [update EXCEPT ![o] = "none"]
        /\ UNCHANGED <<handlerVars, table, exp, files, off>>
    BY <1>7 DEF WriteSchedule
  <2>2. /\ schedule' \in ScheduleRow /\ schedule'.last = schedule.last
        /\ schedule'.export = schedule.export /\ (schedule'.enabled <=> update[o] = "on")
    BY <1>a, <2>1 DEF ScheduleRow
  <2>3. update' \in [Owner -> {"none", "on", "off"}] /\ \A q \in Owner : update'[q] = "on" => update[q] = "on"
    BY <1>a, <2>1
  <2>4. ScheduleInv'
    BY <1>a, <2>1, <2>2, <2>3 DEF ScheduleInv
  <2> QED
    BY <2>1, <2>2, <2>4, ScheduleKeeps
<1> QED
  BY <1>1, <1>3, <1>4, <1>5, <1>6, <1>7

(* Writing the row of a new export.                                        *)
LEMMA CreateExportInv ==
  ASSUME ExportsInv, NEW e \in Export, NEW scheduled \in BOOLEAN, CreateExport(e, scheduled), Unfailing,
         UNCHANGED <<table, update, files, off>>,
         \/ schedule' = schedule
         \/ schedule' = [schedule EXCEPT !.last = "created", !.export = e]
  PROVE  ExportsInv'
<1>1. /\ exp[e].status = "absent" /\ Enqueue(e) /\ AnyFault /\ faults' = faults
      /\ exp' = [exp EXCEPT ![e].status = "processing", ![e].scheduled = scheduled]
  BY DEF CreateExport, AnyFault, Unfailing
<1>2. /\ HandlersOK' /\ OnlyEvent(e) /\ fate[e] = "absent" /\ fate'[e] = "open" /\ ~ok'[e] /\ tries'[e] = 0
      /\ at'[e] = "idle" /\ tries[e] = 0 /\ Deliverable(e)' /\ at[e] = "idle" /\ ~ok[e]
  BY <1>1, EnqueueKeeps, ExportTypes DEF EventOK
<1>3. /\ exp' \in [Export -> ExportRow] /\ \A k \in Export \ {e} : exp'[k] = exp[k]
      /\ exp'[e].status = "processing" /\ exp'[e].gone = exp[e].gone /\ exp'[e].file = exp[e].file
  <2> DEFINE new == [exp[e] EXCEPT !.status = "processing", !.scheduled = scheduled]
  <2>1. new \in ExportRow /\ new.status = "processing" /\ new.gone = exp[e].gone /\ new.file = exp[e].file
    BY ExportTypes DEF ExportRow
  <2>2. exp' = [exp EXCEPT ![e] = new]
    BY <1>1, ExportTypes DEF ExportRow
  <2> HIDE DEF new
  <2> QED
    BY <2>1, <2>2, ExportTypes
<1>4. /\ schedule' \in ScheduleRow /\ schedule'.enabled = schedule.enabled
      /\ schedule' = schedule \/ (schedule'.export = e /\ schedule'.last = "created")
  <2>1. CASE schedule' = schedule
    BY <2>1, ExportTypes
  <2>2. CASE schedule' = [schedule EXCEPT !.last = "created", !.export = e]
    BY <2>2, ExportTypes DEF ScheduleRow
  <2> QED
    BY <2>1, <2>2
<1>5. ScheduleInv'
  BY <1>4 DEF ExportsInv, ScheduleInv
<1>6. ~exp[e].gone /\ files[e] = 0 /\ files'[e] = 0
  BY <1>1, <1>2, ExportTypes DEF ExportOK
<1>7. ExportOK(e)'
  BY <1>1, <1>2, <1>3, <1>6, ExportTypes DEF ExportOK, InHand
<1>8. ExportUnfailing(e)'
  BY <1>2, <1>3, <1>6, ExportTypes DEF ExportUnfailing, Attended, Tells
<1>9. LastOK(e)'
  <2>1. CASE schedule' = schedule
    BY <1>1, <1>2, <1>3, <1>6, <2>1, ExportTypes DEF LastOK
  <2>2. CASE schedule'.export = e /\ schedule'.last = "created"
    BY <1>3, <2>2, ExportTypes DEF LastOK
  <2> QED
    BY <1>4, <2>1, <2>2
<1> QED
  BY <1>1, <1>2, <1>3, <1>4, <1>5, <1>7, <1>8, <1>9, OneExportKeeps, ExportTypes DEF ExportInv

LEMMA ExpireExportInv ==
  ASSUME ExportsInv, NEW e \in Export, ExpireExport(e) PROVE ExportsInv'
<1>1. /\ exp[e].status \in {"ready", "failed"}
      /\ exp' = [exp EXCEPT ![e].status = "deleted", ![e].gone = TRUE]
      /\ UNCHANGED <<handlerVars, table, schedule, update, files, off>>
  BY DEF ExpireExport
<1>2. /\ UNCHANGED <<eventVars, at>> /\ UNCHANGED <<fate, tries, ok, at>> /\ faults' = faults /\ AnyFault
  BY <1>1 DEF handlerVars, eventVars, AnyFault, Unfailing
<1>3. HandlersOK' /\ OnlyEvent(e)
  BY <1>2, NoEventKeeps, ExportTypes
<1>4. /\ exp' \in [Export -> ExportRow] /\ \A k \in Export \ {e} : exp'[k] = exp[k]
      /\ exp'[e].status = "deleted" /\ exp'[e].gone /\ exp'[e].file = exp[e].file
  <2> DEFINE new == [exp[e] EXCEPT !.status = "deleted", !.gone = TRUE]
  <2>1. new \in ExportRow /\ new.status = "deleted" /\ new.gone /\ new.file = exp[e].file
    BY ExportTypes DEF ExportRow
  <2>2. exp' = [exp EXCEPT ![e] = new]
    BY <1>1, ExportTypes DEF ExportRow
  <2> HIDE DEF new
  <2> QED
    BY <2>1, <2>2, ExportTypes
<1>5. ScheduleInv'
  BY <1>1, ExportTypes DEF ScheduleInv
<1>6. ExportOK(e)'
  BY <1>1, <1>2, <1>4, ExportTypes DEF ExportOK, InHand
<1>7. ExportUnfailing(e)'
  BY <1>1, <1>2, <1>4, ExportTypes DEF ExportUnfailing
<1>8. LastOK(e)'
  BY <1>1, <1>2, <1>4, ExportTypes DEF LastOK
<1> QED
  BY <1>1, <1>2, <1>3, <1>4, <1>5, <1>6, <1>7, <1>8, OneExportKeeps, ExportTypes DEF ExportInv

-----------------------------------------------------------------------------
(* The steps of an export's handler.                                       *)

(* Steps that touch neither rows nor files.                                *)
LEMMA ExportEventInv ==
  ASSUME ExportsInv, NEW e \in Export, UNCHANGED exportVars,
         \/ BeginExport(e)
         \/ BeginExportError(e)
         \/ WriteTable(e)
         \/ ExpireExportHandler(e)
         \/ OutboxStep(e)
  PROVE  ExportsInv'
<1>a. UNCHANGED <<table, schedule, update, exp, files, off>>
  BY DEF exportVars
<1>k. \A k \in Export \ {e} : exp'[k] = exp[k] /\ files'[k] = files[k]
  BY <1>a
<1>s. ScheduleInv'
  BY <1>a, ExportTypes DEF ScheduleInv
<1>1. ASSUME NEW s \in {"write", "file", "reject", "fail"}, AnyFault, faults' = faults,
             \/ Begin(e, s) /\ s = "write" /\ ~exp[e].gone
             \/ Goto(e, s) /\ at[e] = "write"
      PROVE  ExportsInv'
  <2>1. /\ at[e] \in {"idle", "write"} /\ (at[e] = "idle" => Deliverable(e))
        /\ Begin(e, s) \/ (InHand(e) /\ Goto(e, s))
    BY <1>1 DEF Begin, Deliverable, InHand
  <2>2. /\ HandlersOK' /\ OnlyEvent(e) /\ at'[e] = s /\ fate'[e] = fate[e] /\ tries'[e] = tries[e]
        /\ ok'[e] = ok[e] /\ ~ok[e]
    BY <1>1, <2>1, MoveKeeps, ExportTypes
  <2>3. ExportOK(e)'
    BY <1>a, <1>1, <2>1, <2>2, ExportTypes DEF ExportOK, ExportStep, InHand
  <2>4. ExportUnfailing(e)'
    BY <1>a, <1>1, <2>1, <2>2, ExportTypes DEF ExportUnfailing, Attended, InHand, Tells
  <2>5. LastOK(e)'
    BY <1>a, <1>1, <2>1, <2>2, ExportTypes DEF LastOK, InHand
  <2> QED
    BY <1>a, <1>k, <1>s, <1>1, <2>2, <2>3, <2>4, <2>5, ExportTypes, OneExportKeeps DEF ExportInv
<1>2. ASSUME Answer(e, FALSE) \/ (Return(e, FALSE) /\ InHand(e)), AnyFault,
             Fault \/ (Answer(e, FALSE) /\ exp[e].gone)
      PROVE  ExportsInv'
  <2>1. /\ HandlersOK' /\ OnlyEvent(e) /\ at'[e] = "idle" /\ fate[e] = "open"
        /\ fate'[e] = "open" /\ tries'[e] = tries[e] + 1 /\ tries[e] < MaxAttempts /\ ~ok[e]
        /\ ok'[e] = FALSE
    BY <1>2, ReturnKeeps, ExportTypes
  <2>2. faults' \in Nat /\ (faults' = 0 => faults = 0 /\ ~Fault)
    BY <1>2, FaultsGrow, ExportTypes DEF HandlersOK
  <2>3. files[e] <= tries[e] + 1
    <3>1. at[e] = "idle" \/ InHand(e)
      BY <1>2 DEF Answer, Deliverable
    <3> QED
      BY <3>1, ExportTypes DEF ExportOK
  <2>4. ExportOK(e)'
    BY <1>a, <2>1, <2>3, ExportTypes DEF ExportOK, InHand
  <2>5. faults' = 0 => exp[e].gone /\ at[e] = "idle" /\ faults = 0
    BY <1>2, <2>2 DEF Answer, Deliverable
  <2>6. ExportUnfailing(e)'
    BY <1>a, <2>1, <2>2, <2>5, ExportTypes DEF ExportUnfailing, ExportOK, Tells
  <2>7. LastOK(e)'
    BY <1>a, <2>1, <2>2, <2>5, ExportTypes DEF LastOK
  <2> QED
    BY <1>2, <1>a, <1>k, <1>s, <2>1, <2>4, <2>6, <2>7, ExportTypes, OneExportKeeps DEF ExportInv
<1>3. CASE BeginExport(e)
  <2>1. AnyFault /\ faults' = faults
    BY <1>3 DEF BeginExport, AnyFault, Unfailing
  <2>2. (exp[e].gone /\ Answer(e, FALSE)) \/ (~exp[e].gone /\ Begin(e, "write"))
    BY <1>3 DEF BeginExport
  <2> QED
    BY <1>1, <1>2, <2>1, <2>2
<1>4. CASE BeginExportError(e) \/ ExpireExportHandler(e)
  <2>1. Answer(e, FALSE) \/ (Return(e, FALSE) /\ InHand(e))
    BY <1>4 DEF BeginExportError, ExpireExportHandler, InHand
  <2>2. Fault /\ AnyFault
    BY <1>4 DEF BeginExportError, ExpireExportHandler, AnyFault
  <2> QED
    BY <1>2, <2>1, <2>2
<1>5. CASE Crash(e) \/ LoseEvent(e)
  <2>1. /\ HandlersOK' /\ OnlyEvent(e) /\ AnyFault /\ faults' > 0
        /\ at'[e] = "lost" /\ fate'[e] = fate[e]
    BY <1>5, LostKeeps, ExportTypes
  <2>2. faults' \in Nat /\ faults' # 0
    BY <2>1, FaultsGrow, ExportTypes DEF HandlersOK
  <2>3. ExportOK(e)'
    BY <1>a, <2>1, ExportTypes DEF ExportOK, InHand
  <2>4. ExportUnfailing(e)' /\ LastOK(e)'
    BY <2>2 DEF ExportUnfailing, LastOK
  <2> QED
    BY <1>a, <1>k, <1>s, <2>1, <2>3, <2>4, ExportTypes, OneExportKeeps DEF ExportInv
<1>6. CASE SettleEvent(e)
  <2>1. /\ HandlersOK' /\ OnlyEvent(e) /\ UNCHANGED <<tries, ok, at, faults>>
        /\ fate[e] = "open" /\ fate'[e] \in {"sent", "dead"} /\ at[e] = "idle"
        /\ ok[e] \/ tries[e] = MaxAttempts
    BY <1>6, SettleKeeps, ExportTypes
  <2>2. AnyFault
    BY <2>1 DEF AnyFault, Unfailing
  <2>3. ~Attended(e)
    BY <2>1, ExportTypes DEF Attended, InHand, Deliverable
  <2>4. ExportOK(e)'
    BY <1>a, <2>1, ExportTypes DEF ExportOK, InHand
  <2>5. ExportUnfailing(e)'
    BY <1>a, <2>1, <2>3, ExportTypes DEF ExportUnfailing, Tells
  <2>6. LastOK(e)'
    BY <1>a, <2>1, ExportTypes DEF LastOK, InHand
  <2> QED
    BY <1>a, <1>k, <1>s, <2>1, <2>2, <2>4, <2>5, <2>6, ExportTypes, OneExportKeeps DEF ExportInv
<1>7. CASE WriteTable(e)
  <2>1. PICK s \in {"file", "reject", "fail"} : Goto(e, s)
    BY <1>7 DEF WriteTable
  <2>2. at[e] = "write" /\ AnyFault /\ faults' = faults
    BY <1>7 DEF WriteTable, AnyFault, Unfailing
  <2> QED
    BY <1>1, <2>1, <2>2
<1> QED
  BY <1>3, <1>4, <1>5, <1>6, <1>7 DEF OutboxStep

LEMMA CreateFileInv ==
  ASSUME ExportsInv, NEW e \in Export, CreateFile(e) PROVE ExportsInv'
<1>1. /\ at[e] = "file" /\ InHand(e) /\ AnyFault /\ faults' = faults
      /\ UNCHANGED <<table, update, off, schedule, exp>>
  BY DEF CreateFile, InHand, AnyFault, Unfailing, Asked
<1>2. PICK s \in {"ready", "fail"} :
          /\ Goto(e, s)
          /\ \/ s = "ready" /\ files' = [files EXCEPT ![e] = files[e] + 1]
             \/ s = "fail" /\ files' = files
  BY DEF CreateFile
<1>3. /\ HandlersOK' /\ OnlyEvent(e) /\ at'[e] = s /\ fate'[e] = fate[e] /\ tries'[e] = tries[e]
      /\ tries[e] < MaxAttempts /\ ~ok[e] /\ ok'[e] = ok[e]
  BY <1>1, <1>2, MoveKeeps, ExportTypes
<1>4. files[e] <= tries[e] /\ files[e] + 1 \in 0..MaxAttempts /\ (faults = 0 => files[e] = 0)
  <2>1. files[e] <= tries[e]
    BY <1>1, ExportTypes DEF ExportOK
  <2>2. faults = 0 => files[e] = 0
    BY <1>1, <1>3, ExportTypes DEF ExportUnfailing
  <2> QED
    BY <1>3, <2>1, <2>2, ExportTypes
<1>5. /\ files' \in [Export -> 0..MaxAttempts] /\ \A k \in Export \ {e} : files'[k] = files[k]
      /\ (s = "ready" /\ files'[e] = files[e] + 1) \/ (s = "fail" /\ files'[e] = files[e])
  BY <1>2, <1>4, ExportTypes
<1>6. ScheduleInv'
  BY <1>1, ExportTypes DEF ScheduleInv
<1>7. ExportOK(e)'
  <2>1. exp[e].file \in Nat
    BY ExportTypes DEF ExportRow
  <2> QED
    BY <1>1, <1>3, <1>4, <1>5, <2>1, ExportTypes DEF ExportOK, ExportStep, InHand
<1>8. ExportUnfailing(e)'
  BY <1>1, <1>3, <1>4, <1>5, ExportTypes DEF ExportUnfailing, Attended, InHand, Tells
<1>9. LastOK(e)'
  BY <1>1, <1>3, ExportTypes DEF LastOK, InHand
<1> QED
  BY <1>1, <1>3, <1>5, <1>6, <1>7, <1>8, <1>9, ExportTypes, OneExportKeeps DEF ExportInv

(* Marking the row: ready with the file, or failed.                        *)
LEMMA MarkExportInv ==
  ASSUME ExportsInv, NEW e \in Export, MarkExportReady(e) \/ MarkExportFailed(e) PROVE ExportsInv'
<1>1. /\ at[e] \in {"ready", "fail", "reject"} /\ InHand(e) /\ AnyFault
      /\ UNCHANGED <<table, update, off, schedule, files>>
  BY DEF MarkExportReady, MarkExportFailed, InHand, AnyFault, Asked
<1>f. /\ faults' \in Nat /\ (faults' = 0 => faults = 0 /\ ~Fault)
  BY <1>1, FaultsGrow, ExportTypes DEF HandlersOK
<1>2. \/ /\ at[e] = "ready"
         /\ exp' = [exp EXCEPT ![e].status = "ready", ![e].file = files[e]]
         /\ Goto(e, "tell") \/ (Return(e, FALSE) /\ Fault)
      \/ exp' = exp /\ Fault /\ (Return(e, FALSE) \/ \E s \in {"tellfail", "tellreject"} : Goto(e, s))
      \/ /\ exp' = [exp EXCEPT ![e].status = "failed"] /\ at[e] # "ready"
         /\ \E s \in {"tellfail", "tellreject"} : Goto(e, s)
  <2>1. CASE MarkExportReady(e)
    BY <2>1 DEF MarkExportReady
  <2>2. CASE MarkExportFailed(e)
    <3>1. PICK s \in {"tellfail", "tellreject"} : Goto(e, s)
      BY <2>2 DEF MarkExportFailed
    <3> QED
      BY <2>2, <3>1 DEF MarkExportFailed
  <2> QED
    BY <2>1, <2>2
<1>s. ScheduleInv'
  BY <1>1, ExportTypes DEF ScheduleInv
<1>3. /\ exp' \in [Export -> ExportRow] /\ \A k \in Export \ {e} : exp'[k] = exp[k]
      /\ exp'[e].gone = exp[e].gone
      /\ \/ at[e] = "ready" /\ exp'[e].status = "ready" /\ exp'[e].file = files[e]
         \/ exp'[e] = exp[e] /\ Fault
         \/ exp'[e].status = "failed" /\ exp'[e].file = exp[e].file
  <2>1. CASE at[e] = "ready" /\ exp' = [exp EXCEPT ![e].status = "ready", ![e].file = files[e]]
    <3> DEFINE new == [exp[e] EXCEPT !.status = "ready", !.file = files[e]]
    <3>1. new \in ExportRow /\ new.status = "ready" /\ new.file = files[e] /\ new.gone = exp[e].gone
      BY ExportTypes DEF ExportRow
    <3>2. exp' = [exp EXCEPT ![e] = new]
      BY <2>1, ExportTypes DEF ExportRow
    <3> HIDE DEF new
    <3> QED
      BY <2>1, <3>1, <3>2, ExportTypes
  <2>2. CASE exp' = exp /\ Fault
    BY <2>2, ExportTypes
  <2>3. CASE exp' = [exp EXCEPT ![e].status = "failed"]
    BY <2>3, ExportTypes DEF ExportRow
  <2> QED
    BY <1>2, <2>1, <2>2, <2>3
<1>4. /\ files[e] <= tries[e] + 1 /\ (at[e] = "ready" => files[e] > 0)
      /\ exp[e].file <= files[e] /\ (exp[e].status = "ready" => exp[e].file > 0)
      /\ exp[e].status # "absent" /\ exp[e].file \in Nat
  <2>1. fate[e] = "open"
    BY <1>1, ExportTypes DEF EventOK
  <2> QED
    BY <1>1, <2>1, ExportTypes DEF ExportOK, ExportRow
<1>5. ASSUME NEW s \in Tells, Goto(e, s), Fault \/ exp'[e].status = (IF s = "tell" THEN "ready" ELSE "failed"),
             s = "tell" => at[e] = "ready", Fault \/ (at[e] = "ready" => s = "tell")
      PROVE  ExportsInv'
  <2>1. /\ HandlersOK' /\ OnlyEvent(e) /\ at'[e] = s /\ fate'[e] = fate[e] /\ tries'[e] = tries[e]
        /\ ~ok[e] /\ ok'[e] = ok[e] /\ fate[e] = "open"
    BY <1>1, <1>5, MoveKeeps, ExportTypes DEF Tells
  <2>2. s \in ExportStep /\ s \notin {"idle", "lost", "write", "file", "ready"}
    BY DEF Tells, ExportStep
  <2>3. ExportOK(e)'
    BY <1>1, <1>3, <1>4, <2>1, <2>2, ExportTypes DEF ExportOK, InHand
  <2>4. ExportUnfailing(e)'
    <3>1. SUFFICES ASSUME faults' = 0 PROVE ExportUnfailing(e)'
      BY DEF ExportUnfailing
    <3>2. faults = 0 /\ exp'[e].status = Outcome(e)'
      BY <1>5, <1>f, <2>1, <3>1 DEF Outcome
    <3>3. Attended(e)'
      BY <2>1, <2>2 DEF Attended, InHand
    <3>4. files[e] <= 1 /\ (files[e] > 0 => s = "tell")
      <4>1. files[e] > 0 => at[e] = "ready"
        BY <1>1, <2>1, <3>2, ExportTypes DEF ExportUnfailing
      <4>2. at[e] = "ready" => s = "tell"
        BY <1>f, <1>5, <3>1
      <4> QED
        BY <4>1, <4>2, <3>2, ExportTypes DEF ExportUnfailing
    <3> QED
      BY <1>1, <2>1, <3>2, <3>3, <3>4 DEF ExportUnfailing
  <2>5. LastOK(e)'
    BY <1>1, <1>3, <1>5, <1>f, <2>1, <2>2, ExportTypes DEF LastOK, InHand, Tells
  <2> QED
    BY <1>1, <1>3, <1>s, <2>1, <2>3, <2>4, <2>5, ExportTypes, OneExportKeeps DEF ExportInv
<1>6. ASSUME Return(e, FALSE), Fault PROVE ExportsInv'
  <2>1. /\ HandlersOK' /\ OnlyEvent(e) /\ at'[e] = "idle" /\ fate[e] = "open"
        /\ fate'[e] = "open" /\ tries'[e] = tries[e] + 1 /\ tries[e] < MaxAttempts
    BY <1>1, <1>6, ReturnKeeps, ExportTypes
  <2>2. faults' # 0
    BY <1>f, <1>6
  <2>3. ExportOK(e)'
    BY <1>1, <1>3, <1>4, <2>1, ExportTypes DEF ExportOK, InHand
  <2>4. ExportUnfailing(e)' /\ LastOK(e)'
    BY <2>2 DEF ExportUnfailing, LastOK
  <2> QED
    BY <1>1, <1>3, <1>s, <2>1, <2>3, <2>4, ExportTypes, OneExportKeeps DEF ExportInv
<1>7. CASE /\ at[e] = "ready"
           /\ exp' = [exp EXCEPT ![e].status = "ready", ![e].file = files[e]]
           /\ Goto(e, "tell") \/ (Return(e, FALSE) /\ Fault)
  <2>1. exp'[e].status = "ready"
    BY <1>7, ExportTypes DEF ExportRow
  <2> QED
    BY <1>5, <1>6, <1>7, <2>1 DEF Tells
<1>8. CASE exp' = exp /\ Fault /\ (Return(e, FALSE) \/ \E s \in {"tellfail", "tellreject"} : Goto(e, s))
  BY <1>5, <1>6, <1>8 DEF Tells
<1>9. CASE /\ exp' = [exp EXCEPT ![e].status = "failed"] /\ at[e] # "ready"
           /\ \E s \in {"tellfail", "tellreject"} : Goto(e, s)
  <2>1. exp'[e].status = "failed"
    BY <1>9, ExportTypes DEF ExportRow
  <2> QED
    BY <1>5, <1>9, <2>1 DEF Tells
<1> QED
  BY <1>2, <1>7, <1>8, <1>9

LEMMA TellScheduleInv ==
  ASSUME ExportsInv, NEW e \in Export, TellSchedule(e) PROVE ExportsInv'
<1>1. /\ at[e] \in Tells /\ InHand(e) /\ AnyFault
      /\ UNCHANGED <<table, update, off, exp, files>>
      /\ Return(e, at[e] # "tellfail")
  BY DEF TellSchedule, Tells, InHand, AnyFault, Asked
<1>2. \/ schedule' = schedule /\ (Fault \/ schedule.export # e)
      \/ schedule' = [schedule EXCEPT !.last = Outcome(e)] /\ schedule.export = e
  BY DEF TellSchedule
<1>3. /\ HandlersOK' /\ OnlyEvent(e) /\ at'[e] = "idle" /\ fate[e] = "open"
      /\ fate'[e] = "open" /\ tries'[e] = tries[e] + 1 /\ tries[e] < MaxAttempts
      /\ ok'[e] = (at[e] # "tellfail") /\ ~ok[e]
  BY <1>1, ReturnKeeps, ExportTypes
<1>4. faults' \in Nat /\ (faults' = 0 => faults = 0 /\ ~Fault)
  BY <1>1, FaultsGrow, ExportTypes DEF HandlersOK
<1>5. /\ schedule' \in ScheduleRow /\ schedule'.enabled = schedule.enabled /\ schedule'.export = schedule.export
      /\ schedule' = schedule \/ schedule'.export = e
      /\ (~Fault /\ schedule'.export = e => schedule'.last = Outcome(e))
  <2>1. CASE schedule' = schedule /\ (Fault \/ schedule.export # e)
    BY <2>1, ExportTypes
  <2>2. CASE schedule' = [schedule EXCEPT !.last = Outcome(e)] /\ schedule.export = e
    BY <2>2, ExportTypes DEF ScheduleRow, Outcome
  <2> QED
    BY <1>2, <2>1, <2>2
<1>6. ScheduleInv'
  BY <1>1, <1>5, ExportTypes DEF ScheduleInv
<1>7. ExportOK(e)'
  BY <1>1, <1>3, ExportTypes DEF ExportOK, InHand
<1>8. ExportUnfailing(e)'
  <2>1. SUFFICES ASSUME faults' = 0 PROVE ExportUnfailing(e)'
    BY DEF ExportUnfailing
  <2>2. faults = 0 /\ (exp[e].gone \/ exp[e].status = Outcome(e)) /\ files[e] <= 1
        /\ (files[e] > 0 => at[e] = "tell")
    BY <1>1, <1>3, <1>4, <2>1, ExportTypes DEF ExportUnfailing, Tells
  <2>3. exp[e].status # "processing"
    BY <2>2, ExportTypes DEF ExportOK, Outcome
  <2> QED
    BY <1>1, <1>3, <2>2, <2>3 DEF ExportUnfailing, Tells
<1>9. LastOK(e)'
  <2>1. SUFFICES ASSUME faults' = 0, schedule'.export = e PROVE LastOK(e)'
    BY DEF LastOK
  <2>2. faults = 0 /\ (exp[e].gone \/ exp[e].status = Outcome(e)) /\ schedule'.last = Outcome(e)
    BY <1>1, <1>4, <1>5, <2>1, ExportTypes DEF ExportUnfailing
  <2> QED
    BY <1>1, <1>3, <2>2 DEF LastOK, Outcome
<1> QED
  BY <1>1, <1>3, <1>5, <1>6, <1>7, <1>8, <1>9, ExportTypes, OneExportKeeps DEF ExportInv

LEMMA ExportsStepInv ==
  ASSUME ExportsInv, ExportNext PROVE ExportsInv'
<1>1. CASE CreateWorkTableExport
  <2>1. PICK e \in Export : CreateExport(e, FALSE)
    BY <1>1 DEF CreateWorkTableExport
  <2> QED
    BY <1>1, <2>1, CreateExportInv DEF CreateWorkTableExport, Unfailing
<1>2. CASE RunDue
  <2>1. PICK e \in Export : /\ CreateExport(e, TRUE)
                            /\ schedule' = [schedule EXCEPT !.last = "created", !.export = e]
    BY <1>2 DEF RunDue
  <2> QED
    BY <1>2, <2>1, CreateExportInv DEF RunDue, Unfailing
<1>3. ASSUME NEW e \in Export,
             \/ ExportHandlerStep(e) \/ BeginExportError(e) \/ ExpireExportHandler(e) \/ ExpireExport(e)
             \/ OutboxStep(e) /\ UNCHANGED exportVars
      PROVE  ExportsInv'
  <2>1. BeginExport(e) \/ WriteTable(e) \/ BeginExportError(e) \/ ExpireExportHandler(e) => UNCHANGED exportVars
    BY DEF BeginExport, WriteTable, BeginExportError, ExpireExportHandler
  <2> QED
    BY <1>3, <2>1, ExportEventInv, CreateFileInv, MarkExportInv, TellScheduleInv, ExpireExportInv
    DEF ExportHandlerStep
<1> QED
  BY <1>1, <1>2, <1>3, ScheduleStepInv DEF ExportNext

LEMMA ExportsInvShows ==
  ExportsInv => ExportTypeOK /\ LastStatusTruthful /\ OneFilePerExport /\ ScheduleStaysOff /\ ExportsAttended
<1> SUFFICES ASSUME ExportsInv
             PROVE  ExportTypeOK /\ LastStatusTruthful /\ OneFilePerExport /\ ScheduleStaysOff /\ ExportsAttended
  OBVIOUS
<1>1. HandlersTypeOK(Export, ExportStep)
  BY DEF HandlersTypeOK, ExportsInv, HandlersOK, ExportInv, ExportOK
<1>2. ExportTypeOK
  BY <1>1 DEF ExportTypeOK, ExportsInv, ExportRowsOK, ScheduleInv, ScheduleRow, ExportRow, ExportInv, ExportOK
<1>3. LastStatusTruthful
  <2> SUFFICES ASSUME schedule.export # NoJob, faults = 0, ~exp[schedule.export].gone
               PROVE  LET e == schedule.export IN
                      /\ schedule.last = "ready" => exp[e].status = "ready" \/ at[e] = "tellfail"
                      /\ schedule.last = "failed" => exp[e].status = "failed" \/ at[e] = "tell"
                      /\ schedule.last = "created" => exp[e].status \in Undone \/ InHand(e)
    BY DEF LastStatusTruthful
  <2>1. PICK e \in Export : schedule.export = e
    BY DEF ExportsInv, ScheduleInv, ScheduleRow
  <2>2. LastOK(e)
    BY ExportTypes
  <2> QED
    BY <2>1, <2>2 DEF LastOK, Undone
<1>4. OneFilePerExport
  <2> SUFFICES ASSUME NEW e \in Export PROVE files[e] <= 1 \/ faults > 0
    BY DEF OneFilePerExport
  <2> QED
    BY ExportTypes DEF ExportUnfailing
<1>5. ScheduleStaysOff
  BY DEF ExportsInv, ScheduleInv, ScheduleStaysOff
<1>6. ExportsAttended
  <2> SUFFICES ASSUME NEW e \in Export, exp[e].status \in Undone, faults = 0 PROVE Attended(e)
    <3>1. faults \in Nat
      BY FaultsAssumption DEF ExportsInv, HandlersOK, FaultsTypeOK
    <3> QED
      BY <3>1 DEF ExportsAttended
  <2> QED
    BY ExportTypes DEF ExportUnfailing, ExportRow, Undone
<1> QED
  BY <1>2, <1>3, <1>4, <1>5, <1>6

-----------------------------------------------------------------------------
(* Gold publications.                                                      *)

GoldRunRow == [status : {"absent", "pending", "processing", "completed", "failed"},
               pub : Publication \cup {NoPublication}]

EditRow == [at : {"idle", "drop", "update"}, pub : Publication \cup {NoPublication}, to : Withdrawn]

HalfStep == {"complete", "activate"}

GoldRowsOK ==
    /\ pub \in [Publication -> PubStatus]
    /\ grun \in [GoldRun -> GoldRunRow]
    /\ edit \in [Editor -> EditRow]
    /\ asked \subseteq Publication /\ \A p \in asked : pub[p] # "absent"
    /\ internal \subseteq GoldRun
    /\ view \in GoldRun \cup {NoJob}
    /\ crossed \subseteq Publication

(* How far the handler of a run has come, against its row and its table.   *)
GoldRunInv(r) ==
    /\ at[r] \in GoldStep \cup {"idle", "lost"}
    /\ grun[r].status = "absent" <=> fate[r] = "absent"
    /\ grun[r].status # "absent" => grun[r].pub \in Publication /\ pub[grun[r].pub] # "absent"
    /\ grun[r].status = "completed" \/ at[r] \in {"view"} \cup HalfStep => r \in internal
    /\ at[r] \in {"check", "drop", "create", "view", "complete", "fail"} => grun[r].status = "processing"
    /\ at[r] = "activate" => grun[r].status = "completed"
    /\ at[r] = "failpub" => grun[r].status \in {"processing", "failed"}
    /\ faults = 0 => /\ at[r] = "failpub" => grun[r].status = "failed"
                     /\ grun[r].status \in GoldActive => Attended(r)

Completed(r, p) == grun[r].pub = p /\ grun[r].status = "completed"

ActiveOK == \A p \in Publication : pub[p] = "active" => \E r \in GoldRun : Completed(r, p)

(* The view selects from a run of the publication.                         *)
Shows(p) == view # NoJob /\ grun[view].pub = p

Half(p) == \E r \in GoldRun : at[r] \in HalfStep /\ grun[r].pub = p

(* A publication that no edit and run crossed on: while a run of it has    *)
(* replaced the view and not said so, nobody edits it; the view is its own *)
(* only then or while it is active; and an edit that is about to update    *)
(* the row has dropped the view.                                           *)
ServedOK(p) ==
    /\ Half(p) => pub[p] \notin Withdrawn /\ Shows(p) /\ \A e \in Editor : edit[e].pub # p
    /\ Shows(p) => pub[p] = "active" \/ Half(p)
    /\ pub[p] = "active" => Shows(p) \/ \E e \in Editor : edit[e].at = "update" /\ edit[e].pub = p
    /\ \A e \in Editor : edit[e].at = "update" /\ edit[e].pub = p => ~Shows(p)

ViewInv ==
    /\ view # NoJob => grun[view].status = "completed" \/ at[view] = "complete"
    /\ \A p \in Publication \ crossed : ServedOK(p)

GoldInv ==
    /\ HandlersOK /\ GoldRowsOK /\ ActiveOK
    /\ \A r \in GoldRun : GoldRunInv(r)
    /\ faults = 0 => ViewInv

LEMMA GoldInvInit == HandlersInit /\ GoldInit => GoldInv
<1> SUFFICES ASSUME HandlersInit, GoldInit PROVE GoldInv
  OBVIOUS
<1> USE HandlerAssumption, GoldAssumption
<1>1. HandlersOK
  BY HandlersOKInit
<1>2. /\ fate = [j \in Job |-> "absent"] /\ at = [j \in Job |-> "idle"]
  BY DEF HandlersInit, Queue!Init
<1>3. GoldRowsOK
  BY DEF GoldInit, GoldRowsOK, PubStatus, GoldRunRow, EditRow, NoEdit, Withdrawn
<1>4. ActiveOK
  BY DEF GoldInit, ActiveOK
<1>5. ASSUME NEW r \in GoldRun PROVE GoldRunInv(r)
  BY <1>2 DEF GoldInit, GoldRunInv, GoldActive, HalfStep
<1>6. ViewInv
  <2>1. ASSUME NEW p \in Publication PROVE ServedOK(p)
    BY <1>2 DEF GoldInit, ServedOK, Half, Shows, HalfStep, NoEdit
  <2> QED
    BY <2>1 DEF GoldInit, ViewInv
<1> QED
  BY <1>1, <1>3, <1>4, <1>5, <1>6 DEF GoldInv

LEMMA GoldTypes ==
  ASSUME GoldInv
  PROVE  /\ HandlersOK /\ GoldRowsOK /\ ActiveOK
         /\ pub \in [Publication -> PubStatus] /\ grun \in [GoldRun -> GoldRunRow]
         /\ edit \in [Editor -> EditRow] /\ view \in GoldRun \cup {NoJob}
         /\ faults \in Nat /\ MaxAttempts \in Nat /\ NoJob \notin GoldRun /\ NoPublication \notin Publication
         /\ \A r \in GoldRun : /\ r \in Job /\ GoldRunInv(r) /\ EventOK(r)
                               /\ grun[r] \in GoldRunRow /\ tries[r] \in Nat
  BY GoldAssumption, HandlerAssumption, FaultsAssumption
  DEF GoldInv, GoldRowsOK, HandlersOK, FaultsTypeOK

(* The view and its publications, when no edit and no view changes: runs   *)
(* only come, complete or fail.                                            *)
LEMMA ViewFrame ==
  ASSUME GoldInv, ViewInv, UNCHANGED <<view, edit, crossed>>,
         \A p \in Publication : \/ pub'[p] = pub[p]
                                \/ pub[p] # "active" /\ pub'[p] \in {"pending", "failed"},
         \A x \in GoldRun : /\ at[x] \in HalfStep <=> at'[x] \in HalfStep
                            /\ grun[x].status # "absent" => grun'[x].pub = grun[x].pub
                            /\ grun[x].status = "completed" => grun'[x].status = "completed"
                            /\ at[x] = "complete" => at'[x] = "complete" \/ grun'[x].status = "completed"
  PROVE  ViewInv'
<1>1. ASSUME view # NoJob
      PROVE  /\ view \in GoldRun /\ grun'[view].pub = grun[view].pub
             /\ grun'[view].status = "completed" \/ at'[view] = "complete"
  <2>1. view \in GoldRun /\ (grun[view].status = "completed" \/ at[view] = "complete")
    BY <1>1, GoldTypes DEF ViewInv
  <2>2. grun[view].status # "absent"
    BY <2>1, GoldTypes DEF GoldRunInv
  <2> QED
    BY <2>1, <2>2
<1>2. ASSUME NEW p \in Publication PROVE (Shows(p)' <=> Shows(p)) /\ (Half(p)' <=> Half(p))
  <2>1. Shows(p)' <=> Shows(p)
    BY <1>1 DEF Shows
  <2>2. ASSUME NEW x \in GoldRun PROVE (at'[x] \in HalfStep /\ grun'[x].pub = p) <=> (at[x] \in HalfStep /\ grun[x].pub = p)
    <3>1. at[x] \in HalfStep => grun[x].status # "absent"
      BY GoldTypes DEF GoldRunInv, HalfStep
    <3> QED
      BY <3>1
  <2> QED
    BY <2>1, <2>2 DEF Half
<1>3. ASSUME NEW p \in Publication \ crossed PROVE ServedOK(p)'
  <2>1. ServedOK(p)
    BY DEF ViewInv
  <2>2. pub'[p] = "active" <=> pub[p] = "active"
    OBVIOUS
  <2>3. pub'[p] \in Withdrawn => pub[p] \in Withdrawn
    BY DEF Withdrawn
  <2> QED
    BY <1>2, <2>1, <2>2, <2>3 DEF ServedOK
<1> QED
  BY <1>1, <1>3 DEF ViewInv

(* A step of one run.                                                      *)
LEMMA OneRunKeeps ==
  ASSUME GoldInv, NEW r \in GoldRun, HandlersOK', OnlyEvent(r), AnyFault, GoldRowsOK', GoldRunInv(r)',
         \A k \in GoldRun \ {r} : grun'[k] = grun[k] /\ (k \in internal' <=> k \in internal),
         \A p \in Publication : pub[p] # "absent" => pub'[p] # "absent"
  PROVE  \A k \in GoldRun : GoldRunInv(k)'
<1>1. faults' = 0 => faults = 0
  BY FaultsGrow DEF GoldInv, HandlersOK
<1>2. ASSUME NEW k \in GoldRun \ {r} PROVE GoldRunInv(k)'
  <2>1. GoldRunInv(k)
    BY DEF GoldInv
  <2>2. /\ fate'[k] = fate[k] /\ tries'[k] = tries[k] /\ ok'[k] = ok[k] /\ at'[k] = at[k]
        /\ grun'[k] = grun[k] /\ (k \in internal' <=> k \in internal)
    BY GoldTypes DEF OnlyEvent
  <2> QED
    BY <1>1, <2>1, <2>2 DEF GoldRunInv, Attended, InHand, Deliverable
<1> QED
  BY <1>2

(* A step of one run, or of no run, that neither edits nor replaces the    *)
(* view, unless it is a fault.                                             *)
LEMMA GoldRunStep ==
  ASSUME GoldInv, NEW r \in GoldRun, HandlersOK', OnlyEvent(r), AnyFault, GoldRowsOK', GoldRunInv(r)',
         \A k \in GoldRun \ {r} : grun'[k] = grun[k] /\ (k \in internal' <=> k \in internal),
         grun[r].status # "absent" => grun'[r].pub = grun[r].pub,
         grun[r].status = "completed" => grun'[r].status = "completed",
         \A p \in Publication : \/ pub'[p] = pub[p]
                                \/ pub[p] # "active" /\ pub'[p] \in {"pending", "failed"},
         faults' = 0 => /\ UNCHANGED <<view, edit, crossed>>
                        /\ at[r] \in HalfStep <=> at'[r] \in HalfStep
                        /\ at[r] = "complete" => at'[r] = "complete" \/ grun'[r].status = "completed"
  PROVE  GoldInv'
<1>1. \A k \in GoldRun : GoldRunInv(k)'
  BY OneRunKeeps
<1>2. \A k \in GoldRun : Completed(k, grun[k].pub) => Completed(k, grun[k].pub)'
  BY DEF Completed
<1>3. ActiveOK'
  <2> SUFFICES ASSUME NEW p \in Publication, pub'[p] = "active"
               PROVE  \E k \in GoldRun : Completed(k, p)'
    BY DEF ActiveOK
  <2>1. pub[p] = "active"
    OBVIOUS
  <2>2. PICK k \in GoldRun : Completed(k, p)
    BY <2>1, GoldTypes DEF ActiveOK
  <2> QED
    BY <1>2, <2>2 DEF Completed
<1>4. ASSUME faults' = 0 PROVE ViewInv'
  <2>1. faults = 0 /\ ViewInv
    BY <1>4, FaultsGrow DEF GoldInv, HandlersOK
  <2>2. ASSUME NEW x \in GoldRun
        PROVE  /\ at[x] \in HalfStep <=> at'[x] \in HalfStep
               /\ grun[x].status # "absent" => grun'[x].pub = grun[x].pub
               /\ grun[x].status = "completed" => grun'[x].status = "completed"
               /\ at[x] = "complete" => at'[x] = "complete" \/ grun'[x].status = "completed"
    <3>1. CASE x = r
      BY <1>4, <3>1
    <3>2. CASE x # r
      BY <3>2, GoldTypes DEF OnlyEvent
    <3> QED
      BY <3>1, <3>2
  <2> QED
    BY <1>4, <2>1, <2>2, ViewFrame
<1> QED
  BY <1>1, <1>3, <1>4 DEF GoldInv

(* A step of a request alone.                                              *)
LEMMA RunsKept ==
  ASSUME GoldInv, UNCHANGED <<eventVars, at, grun, internal>>, AnyFault,
         \A p \in Publication : pub[p] # "absent" => pub'[p] # "absent"
  PROVE  /\ HandlersOK' /\ \A k \in GoldRun : GoldRunInv(k)'
         /\ faults' = 0 => faults = 0 /\ ~Fault /\ ViewInv
         /\ \A p \in Publication : Half(p)' <=> Half(p)
<1>1. HandlersOK' /\ UNCHANGED <<fate, tries, ok, at>>
  BY NoEventKeeps, GoldTypes
<1>2. faults' = 0 => faults = 0 /\ ~Fault /\ ViewInv
  BY FaultsGrow DEF GoldInv, HandlersOK
<1>3. ASSUME NEW k \in GoldRun PROVE GoldRunInv(k)'
  BY <1>1, <1>2, GoldTypes DEF GoldRunInv, Attended, InHand, Deliverable
<1>4. \A p \in Publication : Half(p)' <=> Half(p)
  BY <1>1 DEF Half
<1> QED
  BY <1>1, <1>2, <1>3, <1>4

LEMMA CreateRunInv ==
  ASSUME GoldInv, NEW p \in Publication, CreateRun(p), AnyFault, faults' = faults,
         UNCHANGED <<edit, internal, view, crossed>>,
         \/ pub' = [pub EXCEPT ![p] = "pending"] /\ pub[p] = "absent" /\ asked' = asked
         \/ pub' = pub /\ pub[p] # "absent" /\ asked' \subseteq asked
  PROVE  GoldInv'
<1>1. PICK r \in GoldRun : /\ grun[r].status = "absent" /\ Enqueue(r)
                          /\ grun' = [grun EXCEPT ![r] = [status |-> "pending", pub |-> p]]
  BY DEF CreateRun
<1>2. /\ HandlersOK' /\ OnlyEvent(r) /\ fate[r] = "absent" /\ fate'[r] = "open" /\ ~ok'[r] /\ tries'[r] = 0
      /\ at'[r] = "idle" /\ tries[r] = 0 /\ Deliverable(r)' /\ at[r] = "idle"
  BY <1>1, EnqueueKeeps, GoldTypes DEF EventOK
<1>3. /\ grun' \in [GoldRun -> GoldRunRow] /\ \A k \in GoldRun \ {r} : grun'[k] = grun[k]
      /\ grun'[r].status = "pending" /\ grun'[r].pub = p
  BY <1>1, GoldTypes DEF GoldRunRow
<1>4. /\ pub' \in [Publication -> PubStatus] /\ pub'[p] # "absent"
      /\ \A q \in Publication : pub'[q] = pub[q] \/ (pub[q] # "active" /\ pub'[q] \in {"pending", "failed"})
  BY GoldTypes DEF PubStatus
<1>5. GoldRowsOK'
  BY <1>3, <1>4, GoldTypes DEF GoldRowsOK
<1>6. GoldRunInv(r)'
  BY <1>2, <1>3, <1>4 DEF GoldRunInv, Attended, HalfStep
<1>7. at[r] \notin HalfStep /\ at'[r] \notin HalfStep
  BY <1>2 DEF HalfStep
<1> QED
  BY <1>1, <1>2, <1>3, <1>4, <1>5, <1>6, <1>7, GoldRunStep DEF HalfStep

LEMMA GoldRequestInv ==
  ASSUME GoldInv, NEW p \in Publication,
         RequestGoldPublication(p) \/ CheckRefresh(p) \/ RequestGoldRefresh(p)
  PROVE  GoldInv'
<1>1. CASE RequestGoldPublication(p)
  <2>1. /\ CreateRun(p) /\ AnyFault /\ faults' = faults /\ UNCHANGED <<asked, edit, internal, view, crossed>>
        /\ pub' = [pub EXCEPT ![p] = "pending"] /\ pub[p] = "absent"
    BY <1>1 DEF RequestGoldPublication, AnyFault, Unfailing
  <2> QED
    BY <2>1, CreateRunInv
<1>2. ASSUME UNCHANGED <<handlerVars, pub, grun, edit, internal, view, crossed>>,
             asked' \subseteq asked \cup {p}, p \in asked' => pub[p] # "absent"
      PROVE  GoldInv'
  <2>1. UNCHANGED <<eventVars, at, grun, internal>> /\ AnyFault /\ UNCHANGED <<fate, tries, ok, at, faults>>
    BY <1>2 DEF handlerVars, eventVars, AnyFault, Unfailing
  <2>2. HandlersOK' /\ \A k \in GoldRun : GoldRunInv(k)'
    BY <1>2, <2>1, RunsKept
  <2>3. GoldRowsOK'
    <3>1. asked' \subseteq Publication /\ \A q \in asked' : pub'[q] # "absent"
      BY <1>2, GoldTypes DEF GoldRowsOK
    <3> QED
      BY <1>2, <3>1, GoldTypes DEF GoldRowsOK
  <2>4. ActiveOK'
    BY <1>2, GoldTypes DEF ActiveOK, Completed
  <2>5. faults' = 0 => ViewInv'
    BY <1>2, <2>1 DEF GoldInv, ViewInv, ServedOK, Half, Shows
  <2> QED
    BY <2>2, <2>3, <2>4, <2>5 DEF GoldInv
<1>3. CASE CheckRefresh(p)
  <2>1. pub[p] # "absent" /\ asked' = asked \cup {p} /\ UNCHANGED <<handlerVars, pub, grun, edit, internal, view, crossed>>
    BY <1>3 DEF CheckRefresh
  <2> QED
    BY <1>2, <2>1
<1>4. CASE RequestGoldRefresh(p)
  <2>1. /\ p \in asked /\ asked' = asked \ {p} /\ UNCHANGED <<pub, edit, internal, view, crossed>>
        /\ UNCHANGED <<grun, handlerVars>> \/ (CreateRun(p) /\ Unfailing)
    BY <1>4 DEF RequestGoldRefresh
  <2>2. pub[p] # "absent"
    BY <2>1, GoldTypes DEF GoldRowsOK
  <2>3. CASE UNCHANGED <<grun, handlerVars>>
    BY <1>2, <2>1, <2>2, <2>3
  <2>4. CASE CreateRun(p) /\ Unfailing
    <3>1. AnyFault /\ faults' = faults /\ asked' \subseteq asked
      BY <2>1, <2>4 DEF AnyFault, Unfailing
    <3> QED
      BY <2>1, <2>2, <2>4, <3>1, CreateRunInv
  <2> QED
    BY <2>1, <2>3, <2>4
<1> QED
  BY <1>1, <1>3, <1>4

-----------------------------------------------------------------------------
(* Unpublishing and archiving.                                             *)
LEMMA ReadForEditInv ==
  ASSUME GoldInv, NEW e \in Editor, NEW p \in Publication, NEW to \in Withdrawn, ReadForEdit(e, p, to)
  PROVE  GoldInv'
<1>1. /\ edit[e] = NoEdit /\ pub[p] # "absent" /\ crossed' = crossed \cup ({p} \cap HalfPublished)
      /\ UNCHANGED <<handlerVars, pub, grun, asked, internal, view>>
  BY DEF ReadForEdit
<1>2. edit' = [edit EXCEPT ![e] = [at |-> IF pub[p] = "active" THEN "drop" ELSE "update", pub |-> p, to |-> to]]
  BY DEF ReadForEdit
<1>3. UNCHANGED <<eventVars, at, grun, internal>> /\ AnyFault /\ UNCHANGED <<fate, tries, ok, at, faults>>
  BY <1>1 DEF handlerVars, eventVars, AnyFault, Unfailing
<1>4. /\ HandlersOK' /\ \A k \in GoldRun : GoldRunInv(k)'
      /\ faults' = 0 => faults = 0 /\ ~Fault /\ ViewInv
      /\ \A q \in Publication : Half(q)' <=> Half(q)
  <2>1. \A q \in Publication : pub[q] # "absent" => pub'[q] # "absent"
    BY <1>1
  <2> QED
    BY <1>3, <2>1, RunsKept
<1>5. /\ edit' \in [Editor -> EditRow] /\ \A f \in Editor \ {e} : edit'[f] = edit[f]
      /\ edit'[e].pub = p /\ edit[e].at = "idle"
      /\ edit'[e].at = "update" => pub[p] # "active"
  <2> DEFINE new == [at |-> IF pub[p] = "active" THEN "drop" ELSE "update", pub |-> p, to |-> to]
  <2>1. new \in EditRow /\ new.pub = p /\ (new.at = "update" => pub[p] # "active")
    BY DEF EditRow
  <2>2. edit' = [edit EXCEPT ![e] = new]
    BY <1>2
  <2>3. edit[e].at = "idle"
    BY <1>1 DEF NoEdit
  <2> HIDE DEF new
  <2> QED
    BY <2>1, <2>2, <2>3, GoldTypes
<1>6. GoldRowsOK'
  BY <1>1, <1>5, GoldTypes DEF GoldRowsOK
<1>7. ActiveOK'
  BY <1>1, GoldTypes DEF ActiveOK, Completed
<1>8. ASSUME faults' = 0 PROVE ViewInv'
  <2>1. ViewInv
    BY <1>4, <1>8
  <2>2. ASSUME NEW q \in Publication, q \notin crossed' PROVE ServedOK(q)'
    <3>1. q \notin crossed /\ ServedOK(q) /\ (Shows(q)' <=> Shows(q)) /\ (Half(q)' <=> Half(q))
      BY <1>1, <1>4, <2>1, <2>2 DEF ViewInv, Shows
    <3>2. Half(p) => p \in HalfPublished
      BY DEF Half, HalfPublished, HalfStep, PubOf
    <3>3. q = p => ~Half(q)
      BY <1>1, <2>2, <3>2
    <3>4. Half(q)' => \A f \in Editor : edit'[f].pub # q
      BY <1>5, <3>1, <3>3 DEF ServedOK
    <3>5. pub'[q] = "active" => Shows(q)' \/ \E f \in Editor : edit'[f].at = "update" /\ edit'[f].pub = q
      <4>1. \A f \in Editor : edit[f].at = "update" => f # e
        BY <1>5
      <4> QED
        BY <1>1, <1>5, <3>1, <4>1 DEF ServedOK
    <3>6. \A f \in Editor : edit'[f].at = "update" /\ edit'[f].pub = q => ~Shows(q)'
      <4>1. ASSUME q = p, edit'[e].at = "update" PROVE ~Shows(q)
        BY <1>5, <3>1, <3>3, <4>1 DEF ServedOK
      <4> QED
        BY <1>5, <3>1, <4>1 DEF ServedOK
    <3> QED
      BY <1>1, <3>1, <3>4, <3>5, <3>6 DEF ServedOK
  <2> QED
    BY <1>1, <1>3, <2>1, <2>2 DEF ViewInv
<1> QED
  BY <1>4, <1>6, <1>7, <1>8 DEF GoldInv

LEMMA DropViewInv ==
  ASSUME GoldInv, NEW e \in Editor, DropView(e) PROVE GoldInv'
<1>1. /\ edit[e].at = "drop" /\ view' = NoJob /\ edit' = [edit EXCEPT ![e].at = "update"]
      /\ crossed' = crossed \cup HalfPublished \cup (Named \ {edit[e].pub})
      /\ UNCHANGED <<handlerVars, pub, grun, asked, internal>>
  BY DEF DropView
<1>3. UNCHANGED <<eventVars, at, grun, internal>> /\ AnyFault /\ UNCHANGED <<fate, tries, ok, at, faults>>
  BY <1>1 DEF handlerVars, eventVars, AnyFault, Unfailing
<1>4. /\ HandlersOK' /\ \A k \in GoldRun : GoldRunInv(k)'
      /\ faults' = 0 => faults = 0 /\ ~Fault /\ ViewInv
      /\ \A q \in Publication : Half(q)' <=> Half(q)
  <2>1. \A q \in Publication : pub[q] # "absent" => pub'[q] # "absent"
    BY <1>1
  <2> QED
    BY <1>3, <2>1, RunsKept
<1>5. /\ edit' \in [Editor -> EditRow] /\ \A f \in Editor \ {e} : edit'[f] = edit[f]
      /\ edit'[e].pub = edit[e].pub /\ edit'[e].at = "update"
  BY <1>1, GoldTypes DEF EditRow
<1>6. GoldRowsOK'
  <2>1. HalfPublished \subseteq Publication
    <3>1. ASSUME NEW r \in GoldRun, at[r] \in {"complete", "activate"} PROVE PubOf(r) \in Publication
      BY <3>1, GoldTypes DEF GoldRunInv, PubOf
    <3> QED
      BY <3>1 DEF HalfPublished
  <2>2. crossed' \subseteq Publication
    BY <1>1, <2>1, GoldTypes DEF GoldRowsOK, Named
  <2> QED
    BY <1>1, <1>5, <2>2, GoldTypes DEF GoldRowsOK
<1>7. ActiveOK'
  BY <1>1, GoldTypes DEF ActiveOK, Completed
<1>8. ASSUME faults' = 0 PROVE ViewInv'
  <2>1. ViewInv
    BY <1>4, <1>8
  <2>2. ASSUME NEW q \in Publication, q \notin crossed' PROVE ServedOK(q)'
    <3>1. q \notin crossed /\ ServedOK(q) /\ ~Shows(q)' /\ (Half(q)' <=> Half(q))
      BY <1>1, <1>4, <2>1, <2>2 DEF ViewInv, Shows
    <3>2. Half(q) => q \in HalfPublished
      BY DEF Half, HalfPublished, HalfStep, PubOf
    <3>3. ~Half(q)'
      BY <1>1, <2>2, <3>1, <3>2
    <3>4. pub'[q] = "active" => q = edit[e].pub
      BY <1>1, <2>2 DEF Named
    <3> QED
      BY <1>5, <3>1, <3>3, <3>4 DEF ServedOK
  <2> QED
    BY <1>1, <2>2 DEF ViewInv
<1> QED
  BY <1>4, <1>6, <1>7, <1>8 DEF GoldInv

LEMMA UpdateStatusInv ==
  ASSUME GoldInv, NEW e \in Editor, UpdateStatus(e) PROVE GoldInv'
<1>1. /\ edit[e].at = "update" /\ edit' = [edit EXCEPT ![e] = NoEdit]
      /\ pub' = [pub EXCEPT ![edit[e].pub] = IF @ = "archived" THEN @ ELSE edit[e].to]
      /\ UNCHANGED <<handlerVars, grun, asked, internal, view, crossed>>
  BY DEF UpdateStatus
<1>2. /\ pub' \in [Publication -> PubStatus]
      /\ \A q \in Publication : \/ pub'[q] = pub[q] /\ q # edit[e].pub
                                \/ q = edit[e].pub /\ pub'[q] \in Withdrawn
  <2>1. edit[e].to \in Withdrawn
    BY GoldTypes DEF EditRow
  <2> QED
    BY <1>1, <2>1, GoldTypes DEF PubStatus, Withdrawn
<1>3. UNCHANGED <<eventVars, at, grun, internal>> /\ AnyFault /\ UNCHANGED <<fate, tries, ok, at, faults>>
  BY <1>1 DEF handlerVars, eventVars, AnyFault, Unfailing
<1>4. /\ HandlersOK' /\ \A k \in GoldRun : GoldRunInv(k)'
      /\ faults' = 0 => faults = 0 /\ ~Fault /\ ViewInv
      /\ \A q \in Publication : Half(q)' <=> Half(q)
  <2>1. \A q \in Publication : pub[q] # "absent" => pub'[q] # "absent"
    BY <1>2 DEF Withdrawn
  <2> QED
    BY <1>3, <2>1, RunsKept
<1>5. /\ edit' \in [Editor -> EditRow] /\ \A f \in Editor \ {e} : edit'[f] = edit[f]
      /\ edit'[e].pub = NoPublication /\ edit'[e].at = "idle"
  BY <1>1, GoldTypes DEF EditRow, NoEdit, Withdrawn
<1>6. GoldRowsOK'
  <2>1. \A q \in asked : pub'[q] # "absent"
    BY <1>2, GoldTypes DEF GoldRowsOK, Withdrawn
  <2> QED
    BY <1>1, <1>2, <1>5, <2>1, GoldTypes DEF GoldRowsOK
<1>7. ActiveOK'
  BY <1>1, <1>2, GoldTypes DEF ActiveOK, Completed, Withdrawn
<1>8. ASSUME faults' = 0 PROVE ViewInv'
  <2>1. ViewInv
    BY <1>4, <1>8
  <2>2. ASSUME NEW q \in Publication, q \notin crossed' PROVE ServedOK(q)'
    <3>1. q \notin crossed /\ ServedOK(q) /\ (Shows(q)' <=> Shows(q)) /\ (Half(q)' <=> Half(q))
      BY <1>1, <1>4, <2>1, <2>2 DEF ViewInv, Shows
    <3>2. CASE q = edit[e].pub
      <4>1. ~Half(q) /\ ~Shows(q) /\ pub'[q] # "active"
        BY <1>1, <1>2, <3>1, <3>2 DEF ServedOK, Withdrawn
      <4> QED
        BY <3>1, <4>1 DEF ServedOK
    <3>3. CASE q # edit[e].pub
      <4>1. pub'[q] = pub[q] /\ \A f \in Editor : edit[f].pub = q => edit'[f] = edit[f]
        BY <1>2, <1>5, <3>3
      <4>2. \A f \in Editor : edit'[f].pub = q => edit'[f] = edit[f]
        BY <1>5, GoldTypes
      <4> QED
        BY <3>1, <4>1, <4>2 DEF ServedOK
    <3> QED
      BY <3>2, <3>3
  <2> QED
    BY <1>1, <1>3, <2>1, <2>2 DEF ViewInv
<1> QED
  BY <1>4, <1>6, <1>7, <1>8 DEF GoldInv

LEMMA AbandonEditInv ==
  ASSUME GoldInv, NEW e \in Editor, AbandonEdit(e) PROVE GoldInv'
<1>1. /\ edit' = [edit EXCEPT ![e] = NoEdit] /\ Fault /\ AnyFault
      /\ UNCHANGED <<eventVars, at, pub, grun, asked, internal, view, crossed>>
  BY DEF AbandonEdit, AnyFault
<1>2. HandlersOK' /\ (\A k \in GoldRun : GoldRunInv(k)') /\ faults' # 0
  <2>1. \A q \in Publication : pub[q] # "absent" => pub'[q] # "absent"
    BY <1>1
  <2>2. UNCHANGED <<eventVars, at, grun, internal>>
    BY <1>1
  <2> QED
    BY <1>1, <2>1, <2>2, RunsKept
<1>3. edit' \in [Editor -> EditRow]
  BY <1>1, GoldTypes DEF EditRow, NoEdit, Withdrawn
<1>4. GoldRowsOK'
  BY <1>1, <1>3, GoldTypes DEF GoldRowsOK
<1>5. ActiveOK'
  BY <1>1, GoldTypes DEF ActiveOK, Completed
<1> QED
  BY <1>2, <1>4, <1>5 DEF GoldInv

-----------------------------------------------------------------------------
(* The steps of a run's handler.                                           *)

LEMMA SetRunShows ==
  ASSUME GoldInv, NEW r \in GoldRun, NEW s \in {"processing", "completed", "failed"}, SetRun(r, s)
  PROVE  /\ grun' \in [GoldRun -> GoldRunRow] /\ \A k \in GoldRun \ {r} : grun'[k] = grun[k]
         /\ grun'[r].status = s /\ grun'[r].pub = grun[r].pub
<1>1. s \in {"absent", "pending", "processing", "completed", "failed"}
  OBVIOUS
<1> QED
  BY <1>1, GoldTypes DEF SetRun, GoldRunRow

(* A step that touches at most its row and its table.                      *)
LEMMA GoldQuietStep ==
  ASSUME GoldInv, NEW r \in GoldRun, HandlersOK', OnlyEvent(r), AnyFault,
         UNCHANGED <<pub, asked, edit, view, crossed>>, GoldRunInv(r)',
         internal' \subseteq GoldRun, \A k \in GoldRun \ {r} : k \in internal' <=> k \in internal,
         grun' = grun \/ \E s \in {"processing", "completed", "failed"} : SetRun(r, s),
         grun[r].status = "completed" => grun'[r].status = "completed",
         faults' = 0 => /\ at[r] \in HalfStep <=> at'[r] \in HalfStep
                        /\ at[r] = "complete" => grun'[r].status = "completed"
  PROVE  GoldInv'
<1>1. /\ grun' \in [GoldRun -> GoldRunRow] /\ \A k \in GoldRun \ {r} : grun'[k] = grun[k]
      /\ grun'[r].pub = grun[r].pub
  BY GoldTypes, SetRunShows
<1>2. GoldRowsOK'
  BY <1>1, GoldTypes DEF GoldRowsOK
<1>3. \A p \in Publication : pub'[p] = pub[p]
  OBVIOUS
<1> QED
  BY <1>1, <1>2, <1>3, GoldRunStep

(* A call or a step that moves on with nothing else changed.               *)
LEMMA GoldEventInv ==
  ASSUME GoldInv, NEW r \in GoldRun, UNCHANGED goldVars,
         CheckPublishable(r) \/ ExpireGold(r) \/ OutboxStep(r)
  PROVE  GoldInv'
<1>a. UNCHANGED <<pub, grun, asked, edit, internal, view, crossed>>
  BY DEF goldVars
<1>b. internal' \subseteq GoldRun /\ GoldRunInv(r) /\ EventOK(r) /\ grun[r] \in GoldRunRow
  BY <1>a, GoldTypes DEF GoldRowsOK
<1>1. CASE CheckPublishable(r)
  <2>1. PICK s \in {"drop", "fail"} : Goto(r, s)
    BY <1>1 DEF CheckPublishable
  <2>2. at[r] = "check" /\ InHand(r) /\ AnyFault /\ faults' = faults
    BY <1>1 DEF CheckPublishable, InHand, AnyFault, Unfailing
  <2>3. /\ HandlersOK' /\ OnlyEvent(r) /\ at'[r] = s /\ fate'[r] = fate[r]
    BY <2>1, <2>2, MoveKeeps, GoldTypes
  <2>4. GoldRunInv(r)'
    BY <1>a, <1>b, <2>2, <2>3 DEF GoldRunInv, GoldStep, Attended, InHand, HalfStep
  <2>5. at[r] \notin HalfStep /\ at'[r] \notin HalfStep
    BY <2>2, <2>3 DEF HalfStep
  <2> QED
    BY <1>a, <1>b, <2>2, <2>3, <2>4, <2>5, GoldQuietStep
<1>2. CASE ExpireGold(r)
  <2>1. at[r] \in {"check", "drop", "create", "view"} /\ InHand(r) /\ Return(r, TRUE) /\ Fault /\ AnyFault
    BY <1>2 DEF ExpireGold, InHand, AnyFault
  <2>2. /\ HandlersOK' /\ OnlyEvent(r) /\ at'[r] = "idle" /\ fate[r] = "open" /\ fate'[r] = "open"
    BY <2>1, ReturnKeeps, GoldTypes
  <2>3. faults' # 0
    BY <2>1, FaultsGrow, GoldTypes DEF HandlersOK
  <2>4. GoldRunInv(r)'
    BY <1>a, <1>b, <2>2, <2>3 DEF GoldRunInv, HalfStep
  <2> QED
    BY <1>a, <1>b, <2>1, <2>2, <2>3, <2>4, GoldQuietStep
<1>3. CASE Crash(r) \/ LoseEvent(r)
  <2>1. /\ HandlersOK' /\ OnlyEvent(r) /\ AnyFault /\ faults' > 0
        /\ at'[r] = "lost" /\ fate'[r] = fate[r]
    BY <1>3, LostKeeps, GoldTypes
  <2>2. faults' # 0
    BY <2>1, FaultsGrow, GoldTypes DEF HandlersOK
  <2>3. GoldRunInv(r)'
    BY <1>a, <1>b, <2>1, <2>2 DEF GoldRunInv, HalfStep
  <2> QED
    BY <1>a, <1>b, <2>1, <2>2, <2>3, GoldQuietStep
<1>4. CASE SettleEvent(r)
  <2>1. /\ HandlersOK' /\ OnlyEvent(r) /\ UNCHANGED <<tries, ok, at, faults>>
        /\ fate[r] = "open" /\ fate'[r] \in {"sent", "dead"} /\ at[r] = "idle"
        /\ ok[r] \/ tries[r] = MaxAttempts
    BY <1>4, SettleKeeps, GoldTypes
  <2>2. AnyFault
    BY <2>1 DEF AnyFault, Unfailing
  <2>3. ~Attended(r)
    BY <2>1, GoldTypes DEF Attended, InHand, Deliverable
  <2>4. GoldRunInv(r)'
    BY <1>a, <1>b, <2>1, <2>3 DEF GoldRunInv, HalfStep
  <2> QED
    BY <1>a, <1>b, <2>1, <2>2, <2>4, GoldQuietStep DEF HalfStep
<1> QED
  BY <1>1, <1>2, <1>3, <1>4 DEF OutboxStep

LEMMA BeginGoldInv ==
  ASSUME GoldInv, NEW r \in GoldRun, BeginGold(r) \/ BeginGoldError(r) PROVE GoldInv'
<1>b. internal \subseteq GoldRun /\ GoldRunInv(r) /\ EventOK(r) /\ grun[r] \in GoldRunRow
  BY GoldTypes DEF GoldRowsOK
<1>a. UNCHANGED <<pub, asked, edit, internal, view, crossed>> /\ AnyFault
  BY DEF BeginGold, BeginGoldError, Requests, Stores, AnyFault
<1>1. ASSUME grun[r].status \in GoldActive, Begin(r, "check"), SetRun(r, "processing")
      PROVE  GoldInv'
  <2>1. /\ HandlersOK' /\ OnlyEvent(r) /\ at'[r] = "check" /\ fate'[r] = fate[r] /\ fate[r] = "open"
    BY <1>1, <1>a, MoveKeeps, GoldTypes
  <2>2. at[r] = "idle"
    BY <1>1 DEF Begin, Deliverable
  <2>3. grun'[r].status = "processing" /\ grun'[r].pub = grun[r].pub
    BY <1>1, SetRunShows
  <2>4. GoldRunInv(r)'
    BY <1>1, <1>a, <1>b, <2>1, <2>3 DEF GoldRunInv, GoldStep, GoldActive, Attended, InHand, HalfStep
  <2>5. grun[r].status # "completed"
    BY <1>1 DEF GoldActive
  <2> QED
    BY <1>1, <1>a, <1>b, <2>1, <2>2, <2>4, <2>5, GoldQuietStep DEF HalfStep
<1>2. ASSUME NEW nil \in BOOLEAN, Answer(r, nil),
             \/ grun' = grun /\ (Fault \/ grun[r].status \notin GoldActive)
             \/ grun[r].status \in GoldActive /\ SetRun(r, "processing") /\ Fault
      PROVE  GoldInv'
  <2>1. /\ HandlersOK' /\ OnlyEvent(r) /\ at'[r] = "idle" /\ fate[r] = "open" /\ fate'[r] = "open"
    BY <1>2, <1>a, ReturnKeeps, GoldTypes
  <2>2. at[r] = "idle"
    BY <1>2 DEF Answer, Deliverable
  <2>3. faults' = 0 => grun' = grun /\ grun[r].status \notin GoldActive
    BY <1>2, <1>a, FaultsGrow, GoldTypes DEF HandlersOK
  <2>4. /\ grun'[r].pub = grun[r].pub
        /\ grun'[r].status = grun[r].status \/ (grun[r].status \in GoldActive /\ grun'[r].status = "processing")
    BY <1>2, SetRunShows
  <2>5. GoldRunInv(r)'
    <3>1. faults' = 0 => grun'[r].status \notin GoldActive
      BY <2>3
    <3> QED
      BY <1>a, <1>b, <2>1, <2>4, <3>1 DEF GoldRunInv, GoldActive, HalfStep
  <2>6. grun[r].status = "completed" => grun'[r].status = "completed"
    BY <2>4 DEF GoldActive
  <2> QED
    BY <1>2, <1>a, <1>b, <2>1, <2>2, <2>5, <2>6, GoldQuietStep DEF HalfStep
<1>3. CASE BeginGold(r)
  BY <1>1, <1>2, <1>3 DEF BeginGold
<1>4. CASE BeginGoldError(r)
  BY <1>2, <1>4 DEF BeginGoldError
<1> QED
  BY <1>3, <1>4

LEMMA CopyTableInv ==
  ASSUME GoldInv, NEW r \in GoldRun, DropInternal(r) \/ CreateInternal(r) PROVE GoldInv'
<1>b. internal \subseteq GoldRun /\ GoldRunInv(r) /\ EventOK(r) /\ grun[r] \in GoldRunRow
  BY GoldTypes DEF GoldRowsOK
<1>a. /\ UNCHANGED <<pub, grun, asked, edit, view, crossed>> /\ AnyFault /\ faults' = faults
      /\ at[r] \in {"drop", "create"} /\ InHand(r)
  BY DEF DropInternal, CreateInternal, Requests, AnyFault, Unfailing, InHand
<1>1. PICK s \in {"create", "fail", "view"} : Goto(r, s) /\ (s = "view" => r \in internal')
  BY DEF DropInternal, CreateInternal
<1>2. /\ HandlersOK' /\ OnlyEvent(r) /\ at'[r] = s /\ fate'[r] = fate[r]
  BY <1>1, <1>a, MoveKeeps, GoldTypes
<1>3. internal' \subseteq GoldRun /\ \A k \in GoldRun \ {r} : k \in internal' <=> k \in internal
  BY <1>b DEF DropInternal, CreateInternal
<1>4. grun[r].status = "processing"
  BY <1>a, <1>b DEF GoldRunInv
<1>5. GoldRunInv(r)'
  BY <1>a, <1>b, <1>1, <1>2, <1>4 DEF GoldRunInv, GoldStep, Attended, InHand, HalfStep
<1>6. at[r] \notin HalfStep /\ at'[r] \notin HalfStep
  BY <1>a, <1>2 DEF HalfStep
<1> QED
  BY <1>a, <1>2, <1>3, <1>5, <1>6, GoldQuietStep DEF HalfStep

LEMMA FinishRunInv ==
  ASSUME GoldInv, NEW r \in GoldRun, CompleteRun(r) \/ FailRun(r) PROVE GoldInv'
<1>b. internal \subseteq GoldRun /\ GoldRunInv(r) /\ EventOK(r) /\ grun[r] \in GoldRunRow
  BY GoldTypes DEF GoldRowsOK
<1>a. /\ UNCHANGED <<pub, asked, edit, internal, view, crossed>> /\ AnyFault /\ at[r] \in {"complete", "fail"} /\ InHand(r)
  BY DEF CompleteRun, FailRun, Requests, Stores, AnyFault, InHand
<1>f. faults' = 0 => faults = 0 /\ ~Fault
  BY <1>a, FaultsGrow, GoldTypes DEF HandlersOK
<1>s. grun[r].status = "processing"
  BY <1>a, <1>b DEF GoldRunInv
<1>1. ASSUME NEW s \in {"activate", "failpub"}, Goto(r, s), s = "activate" <=> at[r] = "complete",
             \/ SetRun(r, IF s = "activate" THEN "completed" ELSE "failed")
             \/ grun' = grun /\ Fault /\ s = "failpub"
      PROVE  GoldInv'
  <2>1. /\ HandlersOK' /\ OnlyEvent(r) /\ at'[r] = s /\ fate'[r] = fate[r]
    BY <1>1, <1>a, MoveKeeps, GoldTypes
  <2>2. /\ grun'[r].pub = grun[r].pub
        /\ \/ s = "activate" /\ grun'[r].status = "completed"
           \/ s = "failpub" /\ grun'[r].status = "failed"
           \/ s = "failpub" /\ grun'[r].status = "processing" /\ Fault
    BY <1>1, <1>s, SetRunShows
  <2>3. GoldRunInv(r)'
    BY <1>1, <1>a, <1>b, <1>f, <1>s, <2>1, <2>2 DEF GoldRunInv, GoldStep, GoldActive, Attended, InHand, HalfStep
  <2>4. \E t \in {"processing", "completed", "failed"} : grun' = grun \/ SetRun(r, t)
    BY <1>1
  <2>5. at[r] \in HalfStep <=> at'[r] \in HalfStep
    BY <1>1, <1>a, <2>1 DEF HalfStep
  <2>6. at[r] = "complete" => grun'[r].status = "completed"
    BY <1>1, <2>2
  <2> QED
    BY <1>1, <1>a, <1>b, <1>s, <2>1, <2>3, <2>4, <2>5, <2>6, GoldQuietStep
<1>2. ASSUME Return(r, FALSE), Fault, at[r] = "complete", grun' = grun \/ SetRun(r, "completed")
      PROVE  GoldInv'
  <2>1. /\ HandlersOK' /\ OnlyEvent(r) /\ at'[r] = "idle" /\ fate[r] = "open" /\ fate'[r] = "open"
    BY <1>2, <1>a, ReturnKeeps, GoldTypes
  <2>2. grun'[r].pub = grun[r].pub /\ grun'[r].status \in {"processing", "completed"}
    BY <1>2, <1>s, SetRunShows
  <2>3. r \in internal
    BY <1>2, <1>b DEF GoldRunInv, HalfStep
  <2>4. GoldRunInv(r)'
    BY <1>2, <1>a, <1>b, <1>f, <1>s, <2>1, <2>2, <2>3 DEF GoldRunInv, HalfStep
  <2> QED
    BY <1>2, <1>a, <1>b, <1>f, <1>s, <2>1, <2>2, <2>4, GoldQuietStep
<1>3. CASE CompleteRun(r)
  BY <1>1, <1>2, <1>3 DEF CompleteRun
<1>4. CASE FailRun(r)
  BY <1>1, <1>4 DEF FailRun
<1> QED
  BY <1>3, <1>4

LEMMA FailPublicationInv ==
  ASSUME GoldInv, NEW r \in GoldRun, FailPublication(r) PROVE GoldInv'
<1>b. internal \subseteq GoldRun /\ GoldRunInv(r) /\ EventOK(r) /\ grun[r] \in GoldRunRow /\ GoldRowsOK
  BY GoldTypes DEF GoldRowsOK
<1>a. /\ UNCHANGED <<grun, asked, edit, internal, view, crossed>> /\ AnyFault /\ at[r] = "failpub" /\ InHand(r)
      /\ Return(r, TRUE)
  BY DEF FailPublication, Requests, Stores, AnyFault, InHand
<1>f. faults' = 0 => faults = 0 /\ ~Fault
  BY <1>a, FaultsGrow, GoldTypes DEF HandlersOK
<1>1. /\ HandlersOK' /\ OnlyEvent(r) /\ at'[r] = "idle" /\ fate[r] = "open" /\ fate'[r] = "open"
  BY <1>a, ReturnKeeps, GoldTypes
<1>2. /\ pub' \in [Publication -> PubStatus]
      /\ \A p \in Publication : pub'[p] = pub[p] \/ (pub[p] # "active" /\ pub'[p] \in {"pending", "failed"})
  BY GoldTypes DEF FailPublication, PubStatus
<1>3. GoldRowsOK'
  <2>1. \A p \in asked : pub'[p] # "absent"
    BY <1>2, <1>b DEF GoldRowsOK
  <2> QED
    BY <1>a, <1>b, <1>2, <2>1 DEF GoldRowsOK
<1>4. GoldRunInv(r)'
  <2>1. grun[r].status \in {"processing", "failed"} /\ (faults' = 0 => grun[r].status = "failed")
    BY <1>a, <1>b, <1>f DEF GoldRunInv
  <2>2. grun[r].pub \in Publication /\ pub'[grun[r].pub] # "absent"
    BY <1>b, <1>2, <2>1 DEF GoldRunInv
  <2> QED
    BY <1>a, <1>1, <2>1, <2>2 DEF GoldRunInv, GoldActive, HalfStep
<1> QED
  BY <1>a, <1>1, <1>2, <1>3, <1>4, GoldRunStep DEF HalfStep

LEMMA ReplaceViewInv ==
  ASSUME GoldInv, NEW r \in GoldRun, ReplaceView(r) PROVE GoldInv'
<1>b. internal \subseteq GoldRun /\ GoldRunInv(r) /\ EventOK(r) /\ grun[r] \in GoldRunRow /\ GoldRowsOK
  BY GoldTypes DEF GoldRowsOK
<1>a. /\ UNCHANGED <<pub, grun, asked, edit>> /\ AnyFault /\ at[r] = "view" /\ InHand(r)
  BY DEF ReplaceView, Requests, AnyFault, InHand
<1>f. faults' = 0 => faults = 0 /\ ~Fault
  BY <1>a, FaultsGrow, GoldTypes DEF HandlersOK
<1>s. /\ grun[r].status = "processing" /\ grun[r].pub \in Publication /\ r \in internal
      /\ pub[grun[r].pub] # "absent"
  BY <1>a, <1>b DEF GoldRunInv, HalfStep
<1>1. CASE internal' = internal \ {r} /\ UNCHANGED <<view, crossed>> /\ Goto(r, "fail")
  <2>1. /\ HandlersOK' /\ OnlyEvent(r) /\ at'[r] = "fail" /\ fate'[r] = fate[r]
    BY <1>1, <1>a, MoveKeeps, GoldTypes
  <2>2. GoldRunInv(r)'
    BY <1>a, <1>b, <1>f, <1>s, <2>1 DEF GoldRunInv, GoldStep, Attended, InHand, HalfStep
  <2>3. internal' \subseteq GoldRun /\ \A k \in GoldRun \ {r} : k \in internal' <=> k \in internal
    BY <1>1, <1>b
  <2>4. at[r] \notin HalfStep /\ at'[r] \notin HalfStep
    BY <1>a, <2>1 DEF HalfStep
  <2> QED
    BY <1>1, <1>a, <1>s, <2>1, <2>2, <2>3, <2>4, GoldQuietStep DEF HalfStep
<1>c. Crosses(grun[r].pub) \subseteq Publication
  BY <1>s DEF Crosses, Named
<1>2. CASE /\ view' = r /\ crossed' = crossed \cup Crosses(PubOf(r)) /\ internal' = internal \ {r}
           /\ Goto(r, "fail") /\ Fault
  <2>1. /\ HandlersOK' /\ OnlyEvent(r) /\ at'[r] = "fail" /\ fate'[r] = fate[r]
    BY <1>2, <1>a, MoveKeeps, GoldTypes
  <2>2. GoldRunInv(r)'
    BY <1>a, <1>b, <1>f, <1>s, <2>1 DEF GoldRunInv, GoldStep, Attended, InHand, HalfStep
  <2>3. GoldRowsOK'
    BY <1>2, <1>a, <1>b, <1>c DEF GoldRowsOK, PubOf
  <2> QED
    BY <1>2, <1>a, <1>f, <1>s, <2>1, <2>2, <2>3, GoldRunStep
<1>3. CASE /\ view' = r /\ crossed' = crossed \cup Crosses(PubOf(r)) /\ internal' = internal
           /\ Goto(r, "complete")
  <2> DEFINE p == grun[r].pub
  <2>1. /\ HandlersOK' /\ OnlyEvent(r) /\ at'[r] = "complete" /\ fate'[r] = fate[r]
    BY <1>3, <1>a, MoveKeeps, GoldTypes
  <2>2. GoldRunInv(r)'
    BY <1>3, <1>a, <1>b, <1>f, <1>s, <2>1 DEF GoldRunInv, GoldStep, Attended, InHand, HalfStep
  <2>3. GoldRowsOK'
    BY <1>3, <1>a, <1>b, <1>c DEF GoldRowsOK, PubOf
  <2>4. \A k \in GoldRun : GoldRunInv(k)'
    BY <1>3, <1>a, <2>1, <2>2, <2>3, OneRunKeeps
  <2>5. ActiveOK'
    BY <1>a, GoldTypes DEF ActiveOK, Completed
  <2>6. ASSUME faults' = 0 PROVE ViewInv'
    <3>1. ViewInv
      BY <1>f, <2>6 DEF GoldInv
    <3>2. \A q \in Publication : Shows(q)' <=> q = p
      BY <1>3, <1>a, GoldTypes DEF Shows
    <3>3. ASSUME NEW q \in Publication PROVE Half(q)' <=> (Half(q) \/ q = p)
      <4>1. ASSUME NEW x \in GoldRun
            PROVE  at'[x] \in HalfStep <=> (at[x] \in HalfStep \/ x = r)
        BY <2>1, GoldTypes DEF OnlyEvent, HalfStep
      <4> QED
        BY <1>a, <4>1 DEF Half
    <3>4. ASSUME NEW q \in Publication, q \notin crossed' PROVE ServedOK(q)'
      <4>1. q \notin crossed /\ q \notin Crosses(p) /\ ServedOK(q)
        BY <1>3, <3>1, <3>4 DEF ViewInv, PubOf
      <4>2. CASE q = p
        <5>1. pub[q] \notin Withdrawn /\ \A e \in Editor : edit[e].pub # q
          BY <4>1, <4>2 DEF Crosses
        <5> QED
          BY <1>a, <3>2, <3>3, <4>2, <5>1 DEF ServedOK
      <4>3. CASE q # p
        <5>1. pub[q] \in {"absent", "archived"}
          BY <4>1, <4>3 DEF Crosses, Named
        <5>2. ~Half(q)
          <6>1. ASSUME NEW x \in GoldRun, at[x] \in HalfStep, grun[x].pub = q PROVE FALSE
            <7>1. grun[x].status # "absent"
              BY <6>1, GoldTypes DEF GoldRunInv, HalfStep
            <7>2. pub[q] # "absent"
              BY <6>1, <7>1, GoldTypes DEF GoldRunInv
            <7>3. Half(q)
              BY <6>1 DEF Half
            <7> QED
              BY <4>1, <5>1, <7>2, <7>3 DEF ServedOK, Withdrawn
          <6> QED
            BY <6>1 DEF Half
        <5> QED
          BY <1>a, <3>2, <3>3, <4>3, <5>1, <5>2 DEF ServedOK
      <4> QED
        BY <4>2, <4>3
    <3> QED
      BY <1>3, <2>1, <3>4 DEF ViewInv
  <2> QED
    BY <2>1, <2>3, <2>4, <2>5, <2>6 DEF GoldInv
<1> QED
  BY <1>1, <1>2, <1>3 DEF ReplaceView

LEMMA ActivateInv ==
  ASSUME GoldInv, NEW r \in GoldRun, Activate(r) PROVE GoldInv'
<1>b. internal \subseteq GoldRun /\ GoldRunInv(r) /\ EventOK(r) /\ grun[r] \in GoldRunRow /\ GoldRowsOK
  BY GoldTypes DEF GoldRowsOK
<1>a. /\ UNCHANGED <<grun, asked, edit, internal, view, crossed>> /\ AnyFault /\ at[r] = "activate" /\ InHand(r)
  BY DEF Activate, Requests, Stores, AnyFault, InHand
<1>f. faults' = 0 => faults = 0 /\ ~Fault
  BY <1>a, FaultsGrow, GoldTypes DEF HandlersOK
<1>s. grun[r].status = "completed" /\ grun[r].pub \in Publication
  BY <1>a, <1>b DEF GoldRunInv
<1> DEFINE p == grun[r].pub
<1>1. PICK nil \in BOOLEAN : Return(r, nil)
  BY DEF Activate
<1>2. \/ pub' = [pub EXCEPT ![p] = "active"]
      \/ pub' = pub /\ (Fault \/ pub[p] = "archived")
  BY DEF Activate, PubOf
<1>3. /\ HandlersOK' /\ OnlyEvent(r) /\ at'[r] = "idle" /\ fate[r] = "open" /\ fate'[r] = "open"
  BY <1>1, <1>a, ReturnKeeps, GoldTypes
<1>4. /\ pub' \in [Publication -> PubStatus] /\ \A q \in Publication \ {p} : pub'[q] = pub[q]
      /\ pub'[p] = "active" \/ (pub'[p] = pub[p] /\ (Fault \/ pub[p] = "archived"))
  BY <1>s, <1>2, GoldTypes DEF PubStatus
<1>5. \A q \in Publication : pub[q] # "absent" => pub'[q] # "absent"
  BY <1>4
<1>6. GoldRowsOK'
  <2>1. \A q \in asked : pub'[q] # "absent"
    BY <1>5, <1>b DEF GoldRowsOK
  <2> QED
    BY <1>a, <1>b, <1>4, <2>1 DEF GoldRowsOK
<1>7. GoldRunInv(r)'
  BY <1>a, <1>b, <1>3, <1>5, <1>s DEF GoldRunInv, GoldActive, HalfStep
<1>8. \A k \in GoldRun : GoldRunInv(k)'
  BY <1>a, <1>3, <1>5, <1>6, <1>7, OneRunKeeps
<1>9. ActiveOK'
  <2> SUFFICES ASSUME NEW q \in Publication, pub'[q] = "active" PROVE \E k \in GoldRun : Completed(k, q)'
    BY DEF ActiveOK
  <2>1. CASE q = p
    BY <1>a, <1>s, <2>1 DEF Completed
  <2>2. CASE q # p
    BY <1>a, <1>4, <2>2, GoldTypes DEF ActiveOK, Completed
  <2> QED
    BY <2>1, <2>2
<1>10. ASSUME faults' = 0 PROVE ViewInv'
  <2>1. ViewInv
    BY <1>f, <1>10 DEF GoldInv
  <2>2. \A q \in Publication : Shows(q)' <=> Shows(q)
    BY <1>a DEF Shows
  <2>3. ASSUME NEW q \in Publication PROVE /\ Half(q)' => Half(q)
                                           /\ q # p => (Half(q)' <=> Half(q))
    <3>1. ASSUME NEW x \in GoldRun, x # r PROVE at'[x] = at[x]
      BY <1>3, <3>1, GoldTypes DEF OnlyEvent
    <3>2. at'[r] \notin HalfStep
      BY <1>3 DEF HalfStep
    <3> QED
      BY <1>a, <3>1, <3>2 DEF Half
  <2>4. Half(p)
    BY <1>a DEF Half, HalfStep
  <2>5. ASSUME NEW q \in Publication \ crossed PROVE ServedOK(q)'
    <3>1. ServedOK(q)
      BY <2>1 DEF ViewInv
    <3>2. CASE q # p
      BY <1>a, <1>4, <2>2, <2>3, <3>1, <3>2 DEF ServedOK
    <3>3. CASE q = p
      <4>1. pub[q] \notin Withdrawn /\ Shows(q) /\ \A e \in Editor : edit[e].pub # q
        BY <2>4, <3>1, <3>3 DEF ServedOK
      <4>2. pub'[q] = "active"
        BY <1>f, <1>10, <1>4, <3>3, <4>1 DEF Withdrawn
      <4> QED
        BY <1>a, <2>2, <4>1, <4>2 DEF ServedOK, Withdrawn
    <3> QED
      BY <3>2, <3>3
  <2>6. view # NoJob => grun'[view].status = "completed" \/ at'[view] = "complete"
    <3>1. ASSUME view # NoJob, view # r PROVE at'[view] = at[view]
      BY <1>3, <3>1, GoldTypes DEF OnlyEvent
    <3> QED
      BY <1>a, <1>s, <2>1, <3>1 DEF ViewInv
  <2> QED
    BY <1>a, <2>5, <2>6 DEF ViewInv
<1> QED
  BY <1>3, <1>6, <1>8, <1>9, <1>10 DEF GoldInv

LEMMA GoldStepInv ==
  ASSUME GoldInv, GoldNext PROVE GoldInv'
<1>1. ASSUME NEW e \in Editor, EditorStep(e) \/ AbandonEdit(e) PROVE GoldInv'
  BY <1>1, ReadForEditInv, DropViewInv, UpdateStatusInv, AbandonEditInv DEF EditorStep
<1>2. ASSUME NEW r \in GoldRun,
             \/ GoldHandlerStep(r) \/ BeginGoldError(r) \/ ExpireGold(r)
             \/ OutboxStep(r) /\ UNCHANGED goldVars
      PROVE  GoldInv'
  <2>1. CheckPublishable(r) \/ ExpireGold(r) => UNCHANGED goldVars
    BY DEF CheckPublishable, ExpireGold
  <2> QED
    BY <1>2, <2>1, BeginGoldInv, GoldEventInv, CopyTableInv, ReplaceViewInv, FinishRunInv, ActivateInv,
      FailPublicationInv DEF GoldHandlerStep
<1> QED
  BY <1>1, <1>2, GoldRequestInv DEF GoldNext

LEMMA GoldInvShows ==
  GoldInv => GoldTypeOK /\ PublicationServed /\ GoldRunAttended
<1> SUFFICES ASSUME GoldInv PROVE GoldTypeOK /\ PublicationServed /\ GoldRunAttended
  OBVIOUS
<1>1. HandlersTypeOK(GoldRun, GoldStep)
  BY DEF HandlersTypeOK, GoldInv, HandlersOK, GoldRunInv
<1>2. GoldTypeOK
  <2>1. \A r \in GoldRun : /\ grun[r].status # "absent" <=> fate[r] # "absent"
                           /\ grun[r].status # "absent" => grun[r].pub \in Publication
    BY GoldTypes DEF GoldRunInv
  <2> QED
    BY <1>1, <2>1, GoldTypes DEF GoldTypeOK, GoldRowsOK, GoldRunRow, EditRow
<1>3. CompletedKeepsTable
  BY GoldTypes DEF CompletedKeepsTable, GoldRunInv, ActiveOK, Completed
<1>4. ViewTellsStatus
  <2> SUFFICES ASSUME NEW p \in Publication \ crossed, faults = 0
               PROVE  /\ pub[p] = "active" =>
                            \/ view \in internal /\ grun[view].pub = p
                            \/ \E e \in Editor : edit[e].at = "update" /\ edit[e].pub = p
                      /\ pub[p] \in Withdrawn => view = NoJob \/ grun[view].pub # p
    BY DEF ViewTellsStatus
  <2>1. ViewInv /\ ServedOK(p)
    BY DEF GoldInv, ViewInv
  <2>2. Shows(p) => view \in internal
    BY <2>1, GoldTypes DEF ViewInv, Shows, GoldRunInv, HalfStep
  <2> QED
    BY <2>1, <2>2 DEF ServedOK, Shows, Withdrawn
<1>5. GoldRunAttended
  <2> SUFFICES ASSUME NEW r \in GoldRun, grun[r].status \in GoldActive, faults = 0 PROVE Attended(r)
    BY GoldTypes DEF GoldRunAttended
  <2> QED
    BY GoldTypes DEF GoldRunInv
<1> QED
  BY <1>2, <1>3, <1>4, <1>5 DEF PublicationServed

-----------------------------------------------------------------------------
(* OCR runs.                                                               *)

(* Where a handler or a pipeline step is, and the places where it has the  *)
(* advisory lock.                                                          *)
Where(r) == IF r \in OcrEvent THEN at[r] ELSE step[r]

Holding == {"mark", "extract", "replace", "write", "fail", "index", "schedule", "leave"}

PageOf(n, r) == page[n] = r \/ (ocrPast.reset /\ page[n] = NoOne)

(* Only the holder of the lock executes; the run is not completed while it *)
(* replaces the pages, and the pages it has passed are its own.            *)
LockOK(r) ==
    /\ Where(r) \in Holding => lock = r
    /\ lock = r => Where(r) \in Holding \cup {"skip", "list"}
    /\ lock = r /\ Where(r) \in {"extract", "replace", "write", "fail"} => ocr.status # "completed"
    /\ lock = r /\ Where(r) = "write" => \A n \in 1..Pages : n < next => PageOf(n, r)
    /\ lock = r /\ Where(r) = "list" => \A n \in 1..Pages : PageOf(n, r)

CompletedOK ==
    ocr.status = "completed" => ocr.by \in Runner /\ \A n \in 1..Pages : PageOf(n, ocr.by)

(* An extraction that is to insert has deleted all there was.              *)
ItemsOK ==
    /\ \A x \in ExtractEvent : item[x] <= 1 /\ (at[x] = "items" => item[x] = 0)
    /\ \A x, y \in ExtractEvent :
          (at[x] = "items" \/ item[x] > 0) /\ (at[y] = "items" \/ item[y] > 0) => x = y \/ ocrPast.overlap

(* Whoever will leave the run completed, failed or skipped.                *)
Unsettled == {"pending", "running"}

Busy(r) == Where(r) \in ExecutionStep \cup {"skip"} \/ (r \in OcrEvent /\ Deliverable(r))

Asking(m) == asks[m] \in {"reset", "enqueue"}

AttendOK ==
    faults = 0 /\ ~ocrPast.left /\ ocr.status \in Unsettled =>
        (\E r \in Runner : Busy(r)) \/ (\E m \in Manual : Asking(m))

OcrRow == [status : {"absent", "pending", "running", "completed", "failed", "skipped"},
           reason : {"user", "data_pipeline"}, by : Runner \cup {NoOne}]

PastRow == [reset : BOOLEAN, left : BOOLEAN, overlap : BOOLEAN]

OcrRowsOK ==
    /\ ocr \in OcrRow
    /\ page \in [1..Pages -> Runner \cup {NoOne}]
    /\ item \in [ExtractEvent -> 0..MaxAttempts]
    /\ lock \in Runner \cup {NoOne}
    /\ next \in 1..(Pages + 1)
    /\ step \in [PipelineStep -> ExecutionStep \cup {"new", "list", "done"}]
    /\ asks \in [Manual -> {"new", "reset", "enqueue", "done"}]
    /\ extracts \in BOOLEAN
    /\ ocrPast \in PastRow

PlacesOK ==
    /\ \A e \in OcrEvent : at[e] \in OcrStep \cup {"idle", "lost"}
    /\ \A x \in ExtractEvent : at[x] \in ExtractStep \cup {"idle", "lost"}

OcrInv ==
    /\ HandlersOK /\ OcrRowsOK /\ PlacesOK
    /\ \A r \in Runner : LockOK(r)
    /\ CompletedOK /\ ItemsOK /\ AttendOK

LEMMA OcrInvInit == HandlersInit /\ OcrInit => OcrInv
<1> SUFFICES ASSUME HandlersInit, OcrInit PROVE OcrInv
  OBVIOUS
<1> USE HandlerAssumption, DriveOCRAssumption
<1>1. HandlersOK
  BY HandlersOKInit
<1>2. /\ at = [j \in Job |-> "idle"]
  BY DEF HandlersInit
<1>3. OcrRowsOK
  <2>1. ocr \in OcrRow /\ ocrPast \in PastRow
    BY DEF OcrInit, OcrRow, PastRow
  <2>2. page \in [1..Pages -> Runner \cup {NoOne}] /\ item \in [ExtractEvent -> 0..MaxAttempts]
    BY DEF OcrInit, NoPages, NoItems
  <2>3. lock \in Runner \cup {NoOne} /\ next \in 1..(Pages + 1)
    BY DEF OcrInit
  <2>4. /\ step \in [PipelineStep -> ExecutionStep \cup {"new", "list", "done"}]
        /\ asks \in [Manual -> {"new", "reset", "enqueue", "done"}] /\ extracts \in BOOLEAN
    BY DEF OcrInit
  <2> QED
    BY <2>1, <2>2, <2>3, <2>4 DEF OcrRowsOK
<1>4. PlacesOK
  BY <1>2 DEF PlacesOK
<1>5. ASSUME NEW r \in Runner PROVE LockOK(r)
  <2>1. lock # r
    BY DEF OcrInit, Runner
  <2>2. Where(r) \in {"idle", "new", "done"}
    BY <1>2 DEF OcrInit, Where, Runner
  <2> QED
    BY <2>1, <2>2 DEF LockOK, Holding
<1>6. CompletedOK /\ AttendOK
  BY DEF OcrInit, CompletedOK, AttendOK, Unsettled
<1>7. ItemsOK
  BY <1>2 DEF OcrInit, ItemsOK, NoItems
<1> QED
  BY <1>1, <1>3, <1>4, <1>5, <1>6, <1>7 DEF OcrInv

LEMMA OcrTypes ==
  ASSUME OcrInv
  PROVE  /\ HandlersOK /\ OcrRowsOK /\ PlacesOK /\ CompletedOK /\ ItemsOK /\ AttendOK
         /\ \A r \in Runner : LockOK(r) /\ r # NoOne
         /\ \A j \in OcrEvent \cup ExtractEvent : j \in Job /\ EventOK(j)
         /\ \A x \in ExtractEvent : x \notin Runner
         /\ ocr \in OcrRow /\ ocrPast \in PastRow /\ lock \in Runner \cup {NoOne} /\ faults \in Nat
         /\ page \in [1..Pages -> Runner \cup {NoOne}]
         /\ step \in [PipelineStep -> ExecutionStep \cup {"new", "list", "done"}]
         /\ Pages \in Nat /\ next \in Nat /\ MaxAttempts \in Nat /\ MaxAttempts > 0
  BY DriveOCRAssumption, HandlerAssumption, FaultsAssumption
  DEF OcrInv, OcrRowsOK, HandlersOK, FaultsTypeOK, Runner

(* Runners other than r, and extractions, stay where they are.             *)
OnlyRunner(r) ==
    /\ \A q \in Runner \ {r} : Where(q)' = Where(q) /\ (Busy(q)' <=> Busy(q))
    /\ \A x \in ExtractEvent : at'[x] = at[x]

LEMMA EventMoves ==
  ASSUME NEW e \in OcrEvent, OnlyEvent(e), UNCHANGED step PROVE OnlyRunner(e)
  BY DriveOCRAssumption DEF OnlyEvent, OnlyRunner, Runner, Where, Busy, Deliverable

LEMMA StepMoves ==
  ASSUME NEW p \in PipelineStep, UNCHANGED <<at, eventVars>>, OcrRowsOK,
         \A q \in PipelineStep \ {p} : step'[q] = step[q]
  PROVE  OnlyRunner(p)
  BY DriveOCRAssumption DEF OnlyRunner, Runner, Where, Busy, Deliverable, eventVars

LEMMA CompletedKept ==
  ASSUME CompletedOK, page' = page, ocrPast'.reset = ocrPast.reset,
         ocr'.status = "completed" => ocr.status = "completed" /\ ocr'.by = ocr.by
  PROVE  CompletedOK'
  BY DEF CompletedOK, PageOf

(* A step of one runner: the others cannot have the lock it takes, has or  *)
(* releases, and nobody else writes pages.                                 *)
LEMMA OneRunnerKeeps ==
  ASSUME OcrInv, NEW r \in Runner, HandlersOK', AnyFault, OnlyRunner(r), OcrRowsOK', PlacesOK',
         UNCHANGED <<item, asks>>, ocrPast'.reset = ocrPast.reset, ocrPast'.overlap = ocrPast.overlap,
         ocrPast.left => ocrPast'.left,
         lock' = lock \/ (lock \in {NoOne, r} /\ lock' \in {NoOne, r}),
         (page' = page /\ next' = next) \/ lock = r,
         ocr'.status = "completed" => ocr.status = "completed" \/ lock = r,
         LockOK(r)', CompletedOK',
         faults' = 0 /\ ~ocrPast'.left /\ ocr'.status \in Unsettled =>
             Busy(r)' \/ (ocr.status \in Unsettled /\ ~Busy(r))
  PROVE  OcrInv'
<1>1. ASSUME NEW q \in Runner \ {r} PROVE LockOK(q)'
  <2>1. LockOK(q) /\ q # NoOne /\ Where(q)' = Where(q)
    BY OcrTypes DEF OnlyRunner
  <2>2. lock = q => lock' = q
    BY <2>1
  <2>3. lock' = q => lock = q /\ page' = page /\ next' = next /\ (ocr'.status = "completed" => ocr.status = "completed")
    BY <2>1
  <2> QED
    BY <2>1, <2>2, <2>3 DEF LockOK, PageOf
<1>2. ItemsOK'
  BY OcrTypes DEF ItemsOK, OnlyRunner
<1>3. AttendOK'
  <2> SUFFICES ASSUME faults' = 0, ~ocrPast'.left, ocr'.status \in Unsettled
               PROVE  (\E q \in Runner : Busy(q)') \/ (\E m \in Manual : Asking(m)')
    BY DEF AttendOK
  <2>1. CASE Busy(r)'
    BY <2>1
  <2>2. CASE ocr.status \in Unsettled /\ ~Busy(r)
    <3>1. faults = 0 /\ ~ocrPast.left
      BY FaultsGrow, OcrTypes DEF HandlersOK
    <3>2. (\E q \in Runner : Busy(q)) \/ (\E m \in Manual : Asking(m))
      BY <2>2, <3>1, OcrTypes DEF AttendOK
    <3>3. \A m \in Manual : Asking(m) => Asking(m)'
      BY DEF Asking
    <3> QED
      BY <2>2, <3>2, <3>3 DEF OnlyRunner
  <2> QED
    BY <2>1, <2>2
<1> QED
  BY <1>1, <1>2, <1>3 DEF OcrInv

(* A runner goes on to another place.                                      *)
LEMMA RunnerGoes ==
  ASSUME OcrInv, NEW r \in Runner, AnyFault, NEW s, GoOn(r, s), Where(r) \notin {"idle", "lost"},
         s \in IF r \in OcrEvent THEN OcrStep ELSE ExecutionStep \cup {"list", "done"}
  PROVE  /\ HandlersOK' /\ OnlyRunner(r) /\ PlacesOK' /\ Where(r)' = s
         /\ step' \in [PipelineStep -> ExecutionStep \cup {"new", "list", "done"}]
         /\ s \in ExecutionStep \cup {"skip"} => Busy(r)'
<1> USE DriveOCRAssumption
<1>1. CASE r \in OcrEvent
  <2>1. Goto(r, s) /\ UNCHANGED step /\ InHand(r) /\ r \in Job /\ s \in OcrStep /\ s \notin {"idle", "lost"}
    BY <1>1 DEF GoOn, Where, InHand, OcrStep, ExecutionStep
  <2>2. HandlersOK' /\ OnlyEvent(r) /\ at'[r] = s
    BY <2>1, MoveKeeps, OcrTypes
  <2>3. OnlyRunner(r)
    BY <1>1, <2>1, <2>2, EventMoves
  <2>4. PlacesOK'
    BY <1>1, <2>1, <2>2, OcrTypes DEF PlacesOK, OnlyEvent
  <2>5. Where(r)' = s
    BY <1>1, <2>2 DEF Where
  <2> QED
    BY <2>1, <2>2, <2>3, <2>4, <2>5, OcrTypes DEF Busy
<1>2. CASE r \notin OcrEvent
  <2>1. /\ r \in PipelineStep /\ step' = [step EXCEPT ![r] = s] /\ UNCHANGED <<at, eventVars>>
        /\ s \in ExecutionStep \cup {"list", "done"}
    BY <1>2 DEF GoOn, Runner
  <2>2. /\ step' \in [PipelineStep -> ExecutionStep \cup {"new", "list", "done"}] /\ step'[r] = s
        /\ \A q \in PipelineStep \ {r} : step'[q] = step[q]
    BY <2>1, OcrTypes
  <2>3. HandlersOK'
    BY <2>1, NoEventKeeps, OcrTypes
  <2>4. OnlyRunner(r)
    BY <2>1, <2>2, StepMoves, OcrTypes
  <2>5. PlacesOK'
    BY <2>1, OcrTypes DEF PlacesOK
  <2>6. Where(r)' = s
    BY <1>2, <2>2 DEF Where
  <2> QED
    BY <2>2, <2>3, <2>4, <2>5, <2>6 DEF Busy
<1> QED
  BY <1>1, <1>2

(* A handler returns.                                                      *)
LEMMA EventLeaves ==
  ASSUME OcrInv, NEW e \in OcrEvent, AnyFault, NEW nil \in BOOLEAN, UNCHANGED step,
         (Return(e, nil) /\ InHand(e)) \/ Answer(e, nil)
  PROVE  HandlersOK' /\ OnlyRunner(e) /\ PlacesOK' /\ Where(e)' = "idle"
<1>1. HandlersOK' /\ OnlyEvent(e) /\ at'[e] = "idle"
  BY ReturnKeeps, OcrTypes
<1>2. OnlyRunner(e)
  BY <1>1, EventMoves
<1>3. PlacesOK'
  BY <1>1, OcrTypes DEF PlacesOK, OnlyEvent
<1> QED
  BY <1>1, <1>2, <1>3 DEF Where

LEMMA RunnerGivesUp ==
  ASSUME OcrInv, NEW r \in Runner, AnyFault, GiveUp(r), Where(r) \notin {"idle", "lost"}
  PROVE  /\ HandlersOK' /\ OnlyRunner(r) /\ PlacesOK' /\ Where(r)' \in {"idle", "done"}
         /\ step' \in [PipelineStep -> ExecutionStep \cup {"new", "list", "done"}]
         /\ lock' = IF lock = r THEN NoOne ELSE lock
<1> USE DriveOCRAssumption
<1>1. CASE r \in OcrEvent
  <2>1. Return(r, FALSE) /\ UNCHANGED step /\ InHand(r)
    BY <1>1 DEF GiveUp, Where, InHand
  <2> QED
    BY <1>1, <2>1, EventLeaves, OcrTypes DEF GiveUp, Unlocked
<1>2. CASE r \notin OcrEvent
  <2>1. GoOn(r, "done") /\ lock' = IF lock = r THEN NoOne ELSE lock
    BY <1>2 DEF GiveUp, GoOn, Unlocked
  <2> QED
    BY <1>2, <2>1, RunnerGoes
<1> QED
  BY <1>1, <1>2

(* A runner that has no lock and no work says nothing.                     *)
LEMMA RunnerGone ==
  ASSUME OcrInv, NEW r \in Runner, Where(r)' \in {"idle", "lost", "new", "done"}, lock' # r
  PROVE  LockOK(r)'
  BY DEF LockOK, Holding

-----------------------------------------------------------------------------
(* An execution.                                                           *)
LEMMA AcquireLockInv ==
  ASSUME OcrInv, NEW r \in Runner, AcquireLock(r) PROVE OcrInv'
<1>a. /\ Where(r) = "lock" /\ UNCHANGED <<ocr, page, item, next, asks, extracts, ocrPast>> /\ AnyFault
  BY DEF AcquireLock, IsAt, Where, AnyFault
<1>b. LockOK(r) /\ lock # r /\ r # NoOne
  BY <1>a, OcrTypes DEF LockOK, Holding
<1>c. CompletedOK'
  BY <1>a, CompletedKept, OcrTypes
<1>1. CASE lock = NoOne /\ lock' = r /\ GoOn(r, "mark")
  <2>1. /\ HandlersOK' /\ OnlyRunner(r) /\ PlacesOK' /\ Where(r)' = "mark" /\ Busy(r)'
        /\ step' \in [PipelineStep -> ExecutionStep \cup {"new", "list", "done"}]
    BY <1>1, <1>a, RunnerGoes DEF OcrStep, ExecutionStep
  <2>2. OcrRowsOK'
    BY <1>1, <1>a, <2>1, OcrTypes DEF OcrRowsOK
  <2>3. LockOK(r)'
    BY <1>1, <2>1 DEF LockOK, Holding
  <2> QED
    BY <1>1, <1>a, <1>c, <2>1, <2>2, <2>3, OneRunnerKeeps
<1>2. CASE GiveUp(r) /\ Fault
  <2>1. /\ HandlersOK' /\ OnlyRunner(r) /\ PlacesOK' /\ Where(r)' \in {"idle", "done"}
        /\ step' \in [PipelineStep -> ExecutionStep \cup {"new", "list", "done"}]
        /\ lock' = lock
    BY <1>2, <1>a, <1>b, RunnerGivesUp
  <2>2. OcrRowsOK'
    BY <1>a, <2>1, OcrTypes DEF OcrRowsOK
  <2>3. LockOK(r)'
    BY <1>b, <2>1, RunnerGone
  <2>4. faults' # 0
    BY <1>2, <1>a, FaultsGrow, OcrTypes DEF HandlersOK
  <2> QED
    BY <1>a, <1>c, <2>1, <2>2, <2>3, <2>4, OneRunnerKeeps
<1> QED
  BY <1>1, <1>2 DEF AcquireLock

(* A step of the holder: it keeps the lock and goes on, or gives it up.    *)
LEMMA HolderGoes ==
  ASSUME OcrInv, NEW r \in Runner, AnyFault, Where(r) \in Holding, NEW s, GoOn(r, s),
         s \in IF r \in OcrEvent THEN OcrStep ELSE ExecutionStep \cup {"list", "done"},
         s \in Holding \cup {"skip", "list"}, UNCHANGED <<lock, item, asks, extracts, ocrPast>>,
         ocr' \in OcrRow, page' \in [1..Pages -> Runner \cup {NoOne}], next' \in 1..(Pages + 1),
         s \in {"extract", "replace", "write", "fail"} => ocr'.status # "completed",
         s = "write" => \A n \in 1..Pages : n < next' => PageOf(n, r)',
         s = "list" => \A n \in 1..Pages : PageOf(n, r)',
         CompletedOK',
         faults' = 0 => s \in ExecutionStep \cup {"skip"} \/ ocr'.status \notin Unsettled
                        \/ (ocr.status \in Unsettled /\ ~Busy(r))
  PROVE  OcrInv'
<1>1. Where(r) \notin {"idle", "lost"} /\ lock = r
  BY OcrTypes DEF Holding, LockOK
<1>2. /\ HandlersOK' /\ OnlyRunner(r) /\ PlacesOK' /\ Where(r)' = s
      /\ step' \in [PipelineStep -> ExecutionStep \cup {"new", "list", "done"}]
      /\ s \in ExecutionStep \cup {"skip"} => Busy(r)'
  BY <1>1, RunnerGoes
<1>3. OcrRowsOK'
  BY <1>2, OcrTypes DEF OcrRowsOK
<1>4. LockOK(r)'
  BY <1>1, <1>2 DEF LockOK
<1> QED
  BY <1>1, <1>2, <1>3, <1>4, OneRunnerKeeps

LEMMA HolderLeaves ==
  ASSUME OcrInv, NEW r \in Runner, AnyFault, Where(r) \in Holding, GiveUp(r),
         UNCHANGED <<item, asks, extracts, ocrPast, page, next>>, ocr' \in OcrRow, CompletedOK',
         faults' = 0 => ocr'.status \notin Unsettled
  PROVE  OcrInv'
<1>1. Where(r) \notin {"idle", "lost"} /\ lock = r
  BY OcrTypes DEF Holding, LockOK
<1>2. /\ HandlersOK' /\ OnlyRunner(r) /\ PlacesOK' /\ Where(r)' \in {"idle", "done"}
      /\ step' \in [PipelineStep -> ExecutionStep \cup {"new", "list", "done"}]
      /\ lock' = NoOne
  BY <1>1, RunnerGivesUp
<1>3. OcrRowsOK'
  BY <1>2, OcrTypes DEF OcrRowsOK
<1>4. LockOK(r)'
  BY <1>2, RunnerGone, OcrTypes
<1> QED
  BY <1>1, <1>2, <1>3, <1>4, OneRunnerKeeps

LEMMA MarkRunningInv ==
  ASSUME OcrInv, NEW r \in Runner, MarkRunning(r) PROVE OcrInv'
<1>a. /\ Where(r) = "mark" /\ UNCHANGED <<page, item, next, asks, extracts, ocrPast>> /\ AnyFault
      /\ SetOcr("running")
  BY DEF MarkRunning, IsAt, Where, AnyFault
<1>b. ocr' \in OcrRow /\ ocr'.status = "running"
  BY <1>a, OcrTypes DEF SetOcr, OcrRow
<1>c. CompletedOK' /\ Where(r) \in Holding
  BY <1>a, <1>b DEF CompletedOK, Holding
<1>1. CASE GoOn(r, "extract") /\ UNCHANGED lock
  <2>1. "extract" \in OcrStep \cap Holding \cap ExecutionStep
    BY DEF OcrStep, ExecutionStep, Holding
  <2>2. next' \in 1..(Pages + 1) /\ page' \in [1..Pages -> Runner \cup {NoOne}]
    BY <1>a, OcrTypes DEF OcrRowsOK
  <2> QED
    BY <1>1, <1>a, <1>b, <1>c, <2>1, <2>2, HolderGoes
<1>2. CASE GiveUp(r) /\ Fault
  <2>1. faults' # 0
    BY <1>2, <1>a, FaultsGrow, OcrTypes DEF HandlersOK
  <2> QED
    BY <1>2, <1>a, <1>b, <1>c, <2>1, HolderLeaves
<1> QED
  BY <1>1, <1>2 DEF MarkRunning

LEMMA ExtractInv ==
  ASSUME OcrInv, NEW r \in Runner, Extract(r) PROVE OcrInv'
<1>a. /\ Where(r) = "extract" /\ UNCHANGED <<ocr, page, item, lock, next, asks, extracts, ocrPast>> /\ AnyFault
  BY DEF Extract, IsAt, Where, AnyFault, Unfailing
<1>b. /\ Where(r) \in Holding /\ ocr.status # "completed" /\ ocr' \in OcrRow /\ CompletedOK'
      /\ next' \in 1..(Pages + 1) /\ page' \in [1..Pages -> Runner \cup {NoOne}]
  BY <1>a, OcrTypes DEF Holding, LockOK, CompletedOK, OcrRowsOK
<1>1. PICK s \in {"replace", "fail", "skip"} : GoOn(r, s) /\ (s = "skip" => r \in OcrEvent)
  BY DEF Extract
<1>2. /\ s \in IF r \in OcrEvent THEN OcrStep ELSE ExecutionStep \cup {"list", "done"}
      /\ s \in Holding \cup {"skip", "list"} /\ s \in ExecutionStep \cup {"skip"} /\ s \notin {"write", "list"}
  BY <1>1 DEF OcrStep, ExecutionStep, Holding
<1> QED
  BY <1>a, <1>b, <1>1, <1>2, HolderGoes

LEMMA DropPagesInv ==
  ASSUME OcrInv, NEW r \in Runner, DropPages(r) PROVE OcrInv'
<1>a. /\ Where(r) = "replace" /\ UNCHANGED <<ocr, item, lock, asks, extracts, ocrPast>> /\ AnyFault /\ next' = 1
  BY DEF DropPages, IsAt, Where, AnyFault
<1>b. Where(r) \in Holding /\ ocr.status # "completed" /\ ocr' \in OcrRow /\ CompletedOK' /\ lock = r
  BY <1>a, OcrTypes DEF Holding, LockOK, CompletedOK
<1>c. /\ next' \in 1..(Pages + 1)
      /\ \A n \in 1..Pages : ~(n < next')
  BY <1>a, OcrTypes
<1>1. PICK s \in {"write", "fail"} : GoOn(r, s) /\ (page' = page \/ page' = NoPages)
  BY DEF DropPages
<1>2. page' \in [1..Pages -> Runner \cup {NoOne}]
  BY <1>1, OcrTypes DEF NoPages
<1>3. s \in OcrStep \cap Holding \cap ExecutionStep /\ s # "list"
  BY DEF OcrStep, ExecutionStep, Holding
<1> QED
  BY <1>a, <1>b, <1>c, <1>1, <1>2, <1>3, HolderGoes

LEMMA WritePageInv ==
  ASSUME OcrInv, NEW r \in Runner, WritePage(r) PROVE OcrInv'
<1>a. /\ Where(r) = "write" /\ UNCHANGED <<ocr, item, lock, asks, extracts, ocrPast>> /\ AnyFault
      /\ next <= Pages /\ next' = next + 1
  BY DEF WritePage, IsAt, Where, AnyFault
<1>b. Where(r) \in Holding /\ ocr.status # "completed" /\ ocr' \in OcrRow /\ CompletedOK' /\ lock = r
  BY <1>a, OcrTypes DEF Holding, LockOK, CompletedOK
<1>c. next' \in 1..(Pages + 1) /\ next \in 1..Pages
  <2>1. next \in 1..(Pages + 1)
    BY OcrTypes DEF OcrRowsOK
  <2> QED
    BY <1>a, <2>1, OcrTypes
<1>1. CASE GoOn(r, "fail") /\ (page' = page \/ page' = [page EXCEPT ![next] = r])
  <2>1. page' \in [1..Pages -> Runner \cup {NoOne}]
    BY <1>1, <1>c, OcrTypes
  <2>2. "fail" \in OcrStep \cap Holding \cap ExecutionStep
    BY DEF OcrStep, ExecutionStep, Holding
  <2> QED
    BY <1>a, <1>b, <1>c, <1>1, <2>1, <2>2, HolderGoes
<1>2. CASE page' = [page EXCEPT ![next] = r] /\ UNCHANGED <<step, at, eventVars>> /\ Unfailing
  <2>1. /\ page' \in [1..Pages -> Runner \cup {NoOne}] /\ page'[next] = r
        /\ \A n \in 1..Pages : n # next => page'[n] = page[n]
    BY <1>2, <1>c, OcrTypes
  <2>2. HandlersOK' /\ Where(r)' = "write"
    BY <1>2, <1>a, NoEventKeeps, OcrTypes DEF Where
  <2>3. OnlyRunner(r) /\ PlacesOK'
    BY <1>2, OcrTypes DEF OnlyRunner, Where, Busy, Deliverable, PlacesOK, eventVars
  <2>4. OcrRowsOK'
    BY <1>2, <1>a, <1>b, <1>c, <2>1, OcrTypes DEF OcrRowsOK
  <2>5. LockOK(r)'
    <3>1. ASSUME NEW n \in 1..Pages, n < next' PROVE PageOf(n, r)'
      <4>1. n = next \/ n < next
        BY <1>a, <3>1, OcrTypes
      <4>2. CASE n = next
        BY <2>1, <4>2 DEF PageOf
      <4>3. CASE n < next
        <5>1. PageOf(n, r) /\ n # next
          BY <1>a, <1>b, <1>c, <4>3, OcrTypes DEF LockOK
        <5> QED
          BY <1>a, <2>1, <5>1 DEF PageOf
      <4> QED
        BY <4>1, <4>2, <4>3
    <3> QED
      BY <1>a, <1>b, <2>2, <3>1 DEF LockOK, Holding
  <2>6. Busy(r)'
    BY <2>2 DEF Busy, ExecutionStep
  <2> QED
    BY <1>2, <1>a, <1>b, <2>2, <2>3, <2>4, <2>5, <2>6, OneRunnerKeeps
<1> QED
  BY <1>1, <1>2 DEF WritePage

LEMMA MarkCompletedInv ==
  ASSUME OcrInv, NEW r \in Runner, MarkCompleted(r) PROVE OcrInv'
<1>a. /\ Where(r) = "write" /\ UNCHANGED <<page, item, next, asks, extracts, ocrPast>> /\ AnyFault
      /\ next > Pages
  BY DEF MarkCompleted, IsAt, Where, AnyFault
<1>b. Where(r) \in Holding /\ lock = r
  BY <1>a, OcrTypes DEF Holding, LockOK
<1>c. \A n \in 1..Pages : PageOf(n, r) /\ PageOf(n, r)'
  <2>1. ASSUME NEW n \in 1..Pages PROVE PageOf(n, r)
    <3>1. n < next
      BY <1>a, OcrTypes
    <3> QED
      BY <1>a, <1>b, <3>1, OcrTypes DEF LockOK
  <2> QED
    BY <1>a, <2>1 DEF PageOf
<1>d. next' \in 1..(Pages + 1) /\ page' \in [1..Pages -> Runner \cup {NoOne}]
  BY <1>a, OcrTypes DEF OcrRowsOK
<1>1. ASSUME ocr' = [ocr EXCEPT !.status = "completed", !.by = r]
      PROVE  ocr' \in OcrRow /\ ocr'.status = "completed" /\ ocr'.by = r /\ CompletedOK'
  <2>1. ocr' \in OcrRow /\ ocr'.status = "completed" /\ ocr'.by = r
    BY <1>1, OcrTypes DEF OcrRow
  <2> QED
    BY <1>a, <1>c, <2>1 DEF CompletedOK, PageOf
<1>2. CASE /\ ocr' = [ocr EXCEPT !.status = "completed", !.by = r]
           /\ GoOn(r, IF r \in OcrEvent THEN "index" ELSE "list") /\ UNCHANGED lock
  <2> DEFINE s == IF r \in OcrEvent THEN "index" ELSE "list"
  <2>1. /\ s \in IF r \in OcrEvent THEN OcrStep ELSE ExecutionStep \cup {"list", "done"}
        /\ s \in Holding \cup {"skip", "list"} /\ s \notin {"extract", "replace", "write", "fail"}
    BY DEF OcrStep, Holding
  <2>2. GoOn(r, s) /\ ocr'.status \notin Unsettled
    BY <1>1, <1>2 DEF Unsettled
  <2> HIDE DEF s
  <2> QED
    BY <1>1, <1>2, <1>a, <1>b, <1>c, <1>d, <2>1, <2>2, HolderGoes
<1>3. CASE GiveUp(r) /\ Fault /\ (ocr' = [ocr EXCEPT !.status = "completed", !.by = r] \/ ocr' = ocr)
  <2>1. faults' # 0
    BY <1>3, <1>a, FaultsGrow, OcrTypes DEF HandlersOK
  <2>2. ocr' \in OcrRow /\ CompletedOK'
    BY <1>1, <1>3, <1>a, CompletedKept, OcrTypes
  <2> QED
    BY <1>3, <1>a, <1>b, <2>1, <2>2, HolderLeaves
<1> QED
  BY <1>2, <1>3 DEF MarkCompleted

LEMMA MarkRunFailedInv ==
  ASSUME OcrInv, NEW r \in Runner, MarkRunFailed(r) PROVE OcrInv'
<1>a. /\ Where(r) = "fail" /\ UNCHANGED <<page, item, next, asks, extracts, ocrPast>> /\ AnyFault /\ GiveUp(r)
      /\ SetOcr("failed") \/ (ocr' = ocr /\ Fault)
  BY DEF MarkRunFailed, IsAt, Where, AnyFault
<1>b. Where(r) \in Holding /\ ocr.status # "completed"
  BY <1>a, OcrTypes DEF Holding, LockOK
<1>c. ocr' \in OcrRow /\ (ocr'.status = "failed" \/ (ocr' = ocr /\ Fault))
  BY <1>a, OcrTypes DEF SetOcr, OcrRow
<1>d. CompletedOK'
  BY <1>b, <1>c DEF CompletedOK
<1>e. faults' = 0 => ocr'.status \notin Unsettled
  BY <1>a, <1>c, FaultsGrow, OcrTypes DEF HandlersOK, Unsettled
<1> QED
  BY <1>a, <1>b, <1>c, <1>d, <1>e, HolderLeaves

-----------------------------------------------------------------------------
(* The rest of a handler.                                                  *)

(* A handler that returns, with or without the lock.                       *)
LEMMA HandlerReturns ==
  ASSUME OcrInv, NEW e \in OcrEvent, AnyFault, NEW nil \in BOOLEAN, UNCHANGED step,
         (Return(e, nil) /\ InHand(e)) \/ Answer(e, nil),
         lock' = IF lock = e THEN NoOne ELSE lock,
         UNCHANGED <<page, next, item, asks, extracts, ocrPast>>, ocr' \in OcrRow, CompletedOK',
         ocr'.status = "completed" => ocr.status = "completed",
         faults' = 0 => ocr'.status \notin Unsettled \/ (ocr.status \in Unsettled /\ ~Busy(e))
  PROVE  OcrInv'
<1>1. HandlersOK' /\ OnlyRunner(e) /\ PlacesOK' /\ Where(e)' = "idle" /\ e \in Runner
  BY EventLeaves DEF Runner
<1>2. lock' # e
  BY <1>1, OcrTypes
<1>3. OcrRowsOK'
  BY OcrTypes DEF OcrRowsOK
<1>4. LockOK(e)'
  BY <1>1, <1>2, RunnerGone
<1> QED
  BY <1>1, <1>3, <1>4, OneRunnerKeeps

LEMMA SkipRunInv ==
  ASSUME OcrInv, NEW e \in OcrEvent, SkipRun(e) PROVE OcrInv'
<1>a. /\ at[e] = "skip" /\ InHand(e) /\ AnyFault
      /\ UNCHANGED <<page, item, next, step, asks, extracts, ocrPast>>
  BY DEF SkipRun, AnyFault, InHand
<1>b. PICK nil \in BOOLEAN : /\ Return(e, nil)
                            /\ Unlocked(e)
                            /\ (SetOcr("skipped") \/ (ocr' = ocr /\ Fault))
  BY DEF SkipRun, Leave
<1>c. ocr' \in OcrRow /\ (ocr'.status = "skipped" \/ (ocr' = ocr /\ Fault))
  BY <1>b, OcrTypes DEF SetOcr, OcrRow
<1>d. CompletedOK'
  BY <1>a, <1>c, CompletedKept, OcrTypes
<1>e. faults' = 0 => ocr'.status \notin Unsettled
  BY <1>a, <1>c, FaultsGrow, OcrTypes DEF HandlersOK, Unsettled
<1> QED
  BY <1>a, <1>b, <1>c, <1>d, <1>e, HandlerReturns DEF Unlocked

(* Steps after the text is there: they return, or go on with the lock.     *)
LEMMA AfterTextInv ==
  ASSUME OcrInv, NEW e \in OcrEvent, Reindex(e) \/ IndexText(e) \/ ReturnDone(e) PROVE OcrInv'
<1>a. /\ at[e] \in {"reindex", "index", "leave"} /\ InHand(e) /\ AnyFault
      /\ UNCHANGED <<ocr, page, item, next, step, asks, extracts, ocrPast>>
  BY DEF Reindex, IndexText, ReturnDone, AnyFault, InHand
<1>b. CompletedOK' /\ ocr' \in OcrRow /\ ~Busy(e) /\ e \in Runner /\ Where(e) = at[e]
      /\ next' \in 1..(Pages + 1) /\ page' \in [1..Pages -> Runner \cup {NoOne}]
  BY <1>a, CompletedKept, OcrTypes DEF OcrRowsOK, Busy, Where, ExecutionStep, Deliverable, Runner, InHand
<1>1. ASSUME NEW nil \in BOOLEAN, Leave(e, nil) PROVE OcrInv'
  <2>1. lock' = IF lock = e THEN NoOne ELSE lock
    BY <1>1 DEF Leave, Unlocked
  <2>2. Return(e, nil)
    BY <1>1 DEF Leave
  <2> QED
    BY <1>a, <1>b, <2>1, <2>2, HandlerReturns
<1>2. CASE at[e] = "index" /\ Goto(e, "schedule") /\ UNCHANGED lock
  <2>1. GoOn(e, "schedule") /\ Where(e) \in Holding
    BY <1>2, <1>a, <1>b DEF GoOn, Holding
  <2>2. "schedule" \in OcrStep \cap Holding
    BY DEF OcrStep, Holding
  <2> QED
    BY <1>2, <1>a, <1>b, <2>1, <2>2, HolderGoes
<1> QED
  BY <1>1, <1>2 DEF Reindex, IndexText, ReturnDone

LEMMA CreatedShows ==
  ASSUME OcrInv, NEW reason \in {"user", "data_pipeline"}, ocr' = Created(reason), page' = page,
         ocrPast'.reset = ocrPast.reset
  PROVE  /\ ocr' \in OcrRow /\ CompletedOK'
         /\ ocr'.status = "completed" <=> ocr.status = "completed"
<1>1. ocr' \in OcrRow /\ ocr'.by = ocr.by /\ (ocr'.status = "completed" <=> ocr.status = "completed")
  BY OcrTypes DEF OcrRow, Created
<1> QED
  BY <1>1, CompletedKept, OcrTypes

(* A step that starts: its runner has no lock yet.                         *)
LEMMA RunnerBegins ==
  ASSUME OcrInv, NEW r \in Runner, HandlersOK', AnyFault, OnlyRunner(r), OcrRowsOK', PlacesOK',
         Where(r) \in {"idle", "lost", "new", "done"},
         Where(r)' \notin Holding, UNCHANGED <<item, asks, lock, page, next>>,
         ocrPast'.reset = ocrPast.reset, ocrPast'.overlap = ocrPast.overlap,
         ocrPast.left => ocrPast'.left,
         ocr'.status = "completed" => ocr.status = "completed", CompletedOK',
         faults' = 0 /\ ~ocrPast'.left /\ ocr'.status \in Unsettled =>
             Busy(r)' \/ (ocr.status \in Unsettled /\ ~Busy(r))
  PROVE  OcrInv'
<1>1. lock # r
  BY OcrTypes DEF LockOK, Holding
<1>2. LockOK(r)'
  BY <1>1 DEF LockOK
<1> QED
  BY <1>2, OneRunnerKeeps

LEMMA RequestOnUploadInv ==
  ASSUME OcrInv, NEW e \in OcrEvent, RequestOnUpload(e) PROVE OcrInv'
<1>a. UNCHANGED <<ocr, page, item, lock, next, step, asks, extracts, ocrPast>> /\ Enqueue(e) /\ AnyFault
  BY DEF RequestOnUpload, ocrVars, AnyFault
<1>1. HandlersOK' /\ OnlyEvent(e) /\ at'[e] = "idle" /\ fate[e] = "absent" /\ Deliverable(e)'
  BY <1>a, EnqueueKeeps, OcrTypes
<1>2. OnlyRunner(e) /\ at[e] = "idle"
  BY <1>a, <1>1, EventMoves, OcrTypes DEF EventOK
<1>3. PlacesOK' /\ OcrRowsOK' /\ CompletedOK'
  BY <1>a, <1>1, OcrTypes DEF PlacesOK, OnlyEvent, OcrRowsOK, CompletedOK, PageOf
<1>4. e \in Runner /\ Where(e) = "idle" /\ Where(e)' = "idle" /\ Busy(e)'
  BY <1>1, <1>2 DEF Runner, Where, Busy
<1>5. "idle" \notin Holding
  BY DEF Holding
<1> QED
  BY <1>a, <1>1, <1>2, <1>3, <1>4, <1>5, RunnerBegins

LEMMA BeginOcrInv ==
  ASSUME OcrInv, NEW e \in OcrEvent, BeginOcr(e) PROVE OcrInv'
<1>a. /\ UNCHANGED <<page, item, lock, next, step, asks, extracts, ocrPast>> /\ AnyFault
      /\ ocr' = Created("user") \/ ocr' = ocr
  BY DEF BeginOcr, AnyFault
<1>b. ocr' \in OcrRow /\ CompletedOK' /\ (ocr'.status = "completed" <=> ocr.status = "completed")
  BY <1>a, CreatedShows, CompletedKept, OcrTypes
<1>c. Deliverable(e) /\ at[e] = "idle" /\ e \in Runner
  BY DEF BeginOcr, Begin, Answer, Deliverable, Runner
<1>d. OcrRowsOK'
  BY <1>a, <1>b, OcrTypes DEF OcrRowsOK
<1>1. CASE Answer(e, FALSE) /\ Fault
  <2>1. lock # e
    BY <1>c, OcrTypes DEF LockOK, Holding, Where
  <2>2. faults' # 0
    BY <1>1, <1>a, FaultsGrow, OcrTypes DEF HandlersOK
  <2> QED
    BY <1>1, <1>a, <1>b, <2>1, <2>2, HandlerReturns
<1>2. CASE \E s \in {"reindex", "lock", "skip"} :
              Begin(e, s) /\ (s = "reindex" => ocr.status = "completed")
  <2>1. PICK s \in {"reindex", "lock", "skip"} : Begin(e, s) /\ (s = "reindex" => ocr.status = "completed")
    BY <1>2
  <2>2. HandlersOK' /\ OnlyEvent(e) /\ at'[e] = s
    BY <2>1, <1>a, MoveKeeps, OcrTypes
  <2>3. OnlyRunner(e)
    BY <1>a, <2>2, EventMoves
  <2>6. PlacesOK'
    BY <2>2, OcrTypes, DriveOCRAssumption DEF PlacesOK, OnlyEvent, OcrStep, ExecutionStep
  <2>4. Where(e) = "idle" /\ Where(e)' = s /\ s \notin Holding
    BY <1>c, <2>2 DEF Where, Holding
  <2>5. Busy(e)' \/ ocr'.status \notin Unsettled
    BY <1>b, <2>1, <2>4 DEF Busy, ExecutionStep, Unsettled
  <2> QED
    BY <1>a, <1>b, <1>c, <1>d, <2>2, <2>3, <2>6, <2>4, <2>5, RunnerBegins
<1> QED
  BY <1>1, <1>2 DEF BeginOcr

LEMMA BeginPipelineInv ==
  ASSUME OcrInv, NEW p \in PipelineStep, BeginPipeline(p) PROVE OcrInv'
<1>a. /\ UNCHANGED <<page, item, lock, next, asks, extracts>> /\ AnyFault /\ step[p] = "new"
      /\ ocr' = Created("data_pipeline") \/ ocr' = ocr
      /\ ocrPast' = ocrPast \/ ocrPast' = [ocrPast EXCEPT !.left = TRUE]
  BY DEF BeginPipeline, AnyFault
<1>b. /\ ocrPast' \in PastRow /\ ocrPast'.reset = ocrPast.reset /\ ocrPast'.overlap = ocrPast.overlap
      /\ ocrPast.left => ocrPast'.left
  BY <1>a, OcrTypes DEF PastRow
<1>c. ocr' \in OcrRow /\ CompletedOK' /\ (ocr'.status = "completed" <=> ocr.status = "completed")
  BY <1>a, <1>b, CreatedShows, CompletedKept, OcrTypes
<1>d. p \in Runner /\ p \notin OcrEvent /\ Where(p) = "new"
  BY <1>a, DriveOCRAssumption DEF Runner, Where
<1>1. PICK s \in {"list", "lock", "done"} :
         GoOn(p, s) /\ (s = "list" => ocr.status = "completed") /\ (s = "done" => ocrPast'.left)
  <2>1. CASE ocr.status = "completed" /\ GoOn(p, "list")
    BY <2>1
  <2>2. CASE GoOn(p, "lock")
    BY <2>2
  <2>3. CASE GoOn(p, "done") /\ ocrPast' = [ocrPast EXCEPT !.left = TRUE]
    <3>1. ocrPast'.left
      BY <2>3, OcrTypes DEF PastRow
    <3> QED
      BY <2>3, <3>1
  <2> QED
    BY <2>1, <2>2, <2>3 DEF BeginPipeline
<1>2. s \in ExecutionStep \cup {"list", "done"} /\ s \notin Holding
  BY DEF ExecutionStep, Holding
<1>3. /\ HandlersOK' /\ OnlyRunner(p) /\ PlacesOK' /\ Where(p)' = s
      /\ step' \in [PipelineStep -> ExecutionStep \cup {"new", "list", "done"}]
      /\ s \in ExecutionStep \cup {"skip"} => Busy(p)'
  BY <1>a, <1>d, <1>1, <1>2, RunnerGoes
<1>4. OcrRowsOK'
  BY <1>a, <1>b, <1>c, <1>3, OcrTypes DEF OcrRowsOK
<1>5. Busy(p)' \/ ocr'.status \notin Unsettled \/ ocrPast'.left
  BY <1>c, <1>1, <1>3 DEF ExecutionStep, Unsettled
<1> QED
  BY <1>a, <1>b, <1>c, <1>d, <1>2, <1>3, <1>4, <1>5, RunnerBegins

(* A pipeline step that ends, having read the pages or not.                *)
LEMMA PipelineEndsInv ==
  ASSUME OcrInv, NEW p \in PipelineStep, ListPages(p) \/ StopPipeline(p) PROVE OcrInv'
<1>a. /\ UNCHANGED <<ocr, page, item, next, asks, extracts, ocrPast>> /\ AnyFault
      /\ step[p] \notin {"new", "done"} /\ (step[p] = "list" \/ Fault)
  BY DEF ListPages, StopPipeline, AnyFault
<1>b. p \in Runner /\ p \notin OcrEvent /\ Where(p) = step[p] /\ p # NoOne
  BY DriveOCRAssumption DEF Runner, Where
<1>c. CompletedOK' /\ ocr' \in OcrRow
  BY <1>a, CompletedKept, OcrTypes
<1>1. GoOn(p, "done") /\ lock' = IF lock = p THEN NoOne ELSE lock
  BY <1>b DEF ListPages, StopPipeline, GiveUp, GoOn, Unlocked
<1>2. Where(p) \notin {"idle", "lost"}
  <2>1. step[p] \in ExecutionStep \cup {"new", "list", "done"}
    BY OcrTypes
  <2> QED
    BY <1>b, <2>1 DEF ExecutionStep
<1>3. /\ HandlersOK' /\ OnlyRunner(p) /\ PlacesOK' /\ Where(p)' = "done"
      /\ step' \in [PipelineStep -> ExecutionStep \cup {"new", "list", "done"}]
  BY <1>a, <1>b, <1>1, <1>2, RunnerGoes
<1>4. OcrRowsOK'
  BY <1>a, <1>1, <1>3, OcrTypes DEF OcrRowsOK
<1>5. LockOK(p)'
  BY <1>b, <1>1, <1>3, RunnerGone, OcrTypes
<1>6. faults' = 0 => ~Busy(p)
  BY <1>a, <1>b, FaultsGrow, OcrTypes DEF HandlersOK, Busy, ExecutionStep
<1> QED
  BY <1>a, <1>b, <1>c, <1>1, <1>3, <1>4, <1>5, <1>6, OneRunnerKeeps

LEMMA ScheduleProductExtractionInv ==
  ASSUME OcrInv, NEW e \in OcrEvent, ScheduleProductExtraction(e) PROVE OcrInv'
<1>a. /\ at[e] = "schedule" /\ InHand(e) /\ AnyFault /\ at' = [at EXCEPT ![e] = "leave"]
      /\ UNCHANGED <<ocr, page, item, lock, next, step, asks, extracts, ocrPast>>
  BY DEF ScheduleProductExtraction, AnyFault, InHand, ocrVars
<1>b. CompletedOK' /\ ocr' \in OcrRow /\ ~Busy(e) /\ e \in Runner /\ Where(e) = "schedule"
      /\ Where(e) \in Holding /\ next' \in 1..(Pages + 1) /\ page' \in [1..Pages -> Runner \cup {NoOne}]
  BY <1>a, CompletedKept, OcrTypes
  DEF OcrRowsOK, Busy, Where, ExecutionStep, Deliverable, Runner, InHand, Holding
<1>1. CASE UNCHANGED eventVars
  <2>1. GoOn(e, "leave")
    BY <1>a, <1>1 DEF GoOn, Goto
  <2>2. "leave" \in OcrStep \cap Holding
    BY DEF OcrStep, Holding
  <2> QED
    BY <1>a, <1>b, <2>1, <2>2, HolderGoes
<1>2. CASE \E x \in ExtractEvent : Queue!Publish(x)
  <2>1. PICK x \in ExtractEvent : Queue!Publish(x)
    BY <1>2
  <2>2. e \in Job /\ x \in Job /\ x \notin OcrEvent /\ EventOK(x)
    BY OcrTypes, DriveOCRAssumption
  <2>3. /\ HandlersOK'
        /\ \A i \in Job \ {e, x} : /\ fate'[i] = fate[i] /\ tries'[i] = tries[i]
                                   /\ ok'[i] = ok[i] /\ at'[i] = at[i]
        /\ at'[e] = "leave" /\ fate[x] = "absent" /\ at'[x] = "idle"
    BY <1>a, <2>1, <2>2, PublishKeeps, OcrTypes
  <2>4. at[x] = "idle"
    BY <2>2, <2>3 DEF EventOK
  <2>5. OnlyRunner(e)
    BY <1>a, <2>2, <2>3, <2>4, DriveOCRAssumption DEF OnlyRunner, Runner, Where, Busy, Deliverable
  <2>6. PlacesOK'
    BY <2>2, <2>3, <2>4, OcrTypes, DriveOCRAssumption DEF PlacesOK, OcrStep
  <2>7. OcrRowsOK'
    BY <1>a, OcrTypes DEF OcrRowsOK
  <2>8. LockOK(e)'
    <3>1. Where(e)' = "leave" /\ lock = e
      BY <1>b, <2>3, OcrTypes DEF Where, LockOK
    <3> QED
      BY <1>a, <3>1 DEF LockOK, Holding
  <2> QED
    BY <1>a, <1>b, <2>3, <2>5, <2>6, <2>7, <2>8, OneRunnerKeeps
<1> QED
  BY <1>1, <1>2 DEF ScheduleProductExtraction

(* What the outbox does to the event of a handler.                         *)
LEMMA OcrEventLostInv ==
  ASSUME OcrInv, NEW e \in OcrEvent,
         \/ CrashOcr(e) \/ ExpireOcr(e)
         \/ (LoseEvent(e) \/ SettleEvent(e)) /\ UNCHANGED ocrVars
  PROVE  OcrInv'
<1>a. /\ UNCHANGED <<ocr, page, item, next, step, asks, extracts, ocrPast>> /\ AnyFault
      /\ lock' = (IF lock = e THEN NoOne ELSE lock) \/ (lock' = lock /\ at[e] = "idle")
  BY DEF CrashOcr, ExpireOcr, LoseEvent, SettleEvent, Crash, ocrVars, AnyFault, Unfailing, Unlocked
<1>b. CompletedOK' /\ ocr' \in OcrRow /\ e \in Runner /\ Where(e) = at[e] /\ OcrRowsOK'
  BY <1>a, CompletedKept, OcrTypes DEF Runner, Where, OcrRowsOK
<1>c. at[e] = "idle" => lock # e
  BY <1>b, OcrTypes DEF LockOK, Holding
<1>d. lock' # e /\ lock' = IF lock = e THEN NoOne ELSE lock
  BY <1>a, <1>b, <1>c, OcrTypes
<1>1. CASE ExpireOcr(e)
  <2>1. Return(e, FALSE) /\ InHand(e) /\ Fault
    BY <1>1 DEF ExpireOcr
  <2>2. faults' # 0
    BY <1>a, <2>1, FaultsGrow, OcrTypes DEF HandlersOK
  <2> QED
    BY <1>a, <1>b, <1>d, <2>1, <2>2, HandlerReturns
<1>2. ASSUME HandlersOK', OnlyEvent(e), at'[e] \in {"idle", "lost"}, faults' = 0 => ~Busy(e)
      PROVE  OcrInv'
  <2>1. OnlyRunner(e)
    BY <1>a, <1>2, EventMoves
  <2>2. PlacesOK'
    BY <1>2, OcrTypes DEF PlacesOK, OnlyEvent
  <2>3. LockOK(e)'
    <3>1. Where(e)' \in {"idle", "lost"}
      BY <1>2 DEF Where
    <3> QED
      BY <1>b, <1>d, <3>1, RunnerGone
  <2> QED
    BY <1>a, <1>b, <1>d, <1>2, <2>1, <2>2, <2>3, OneRunnerKeeps
<1>3. CASE Crash(e) \/ LoseEvent(e)
  <2>1. HandlersOK' /\ OnlyEvent(e) /\ at'[e] = "lost" /\ faults' > 0
    BY <1>3, LostKeeps, OcrTypes
  <2>2. faults' # 0
    BY <1>a, <2>1, FaultsGrow, OcrTypes DEF HandlersOK
  <2> QED
    BY <1>2, <2>1, <2>2
<1>4. CASE SettleEvent(e)
  <2>1. HandlersOK' /\ OnlyEvent(e) /\ at'[e] = "idle" /\ at[e] = "idle" /\ (ok[e] \/ tries[e] = MaxAttempts)
    BY <1>4, SettleKeeps, OcrTypes
  <2>2. ~Busy(e)
    BY <1>b, <2>1, OcrTypes DEF Busy, ExecutionStep, Deliverable
  <2> QED
    BY <1>2, <2>1, <2>2
<1> QED
  BY <1>1, <1>3, <1>4 DEF CrashOcr

-----------------------------------------------------------------------------
(* Manual requests.                                                        *)

(* A request that moves no runner, and after which somebody is to work.    *)
LEMMA RequestKeeps ==
  ASSUME OcrInv, HandlersOK', OcrRowsOK', PlacesOK', AnyFault, UNCHANGED <<step, lock, next>>,
         \A e \in OcrEvent : at'[e] = at[e],
         \A r \in Runner : lock = r /\ Where(r) \in {"extract", "replace", "write", "fail"} =>
             ocr'.status # "completed",
         \A r \in Runner, n \in 1..Pages : lock = r /\ PageOf(n, r) => PageOf(n, r)',
         CompletedOK', ItemsOK', AttendOK'
  PROVE  OcrInv'
<1>1. ASSUME NEW r \in Runner PROVE LockOK(r)'
  <2>1. LockOK(r) /\ Where(r)' = Where(r)
    BY OcrTypes DEF Where
  <2> QED
    BY <2>1 DEF LockOK
<1> QED
  BY <1>1 DEF OcrInv

LEMMA RequestJobInv ==
  ASSUME OcrInv, NEW m \in Manual, RequestJob(m) PROVE OcrInv'
<1>a. /\ UNCHANGED <<at, eventVars, page, item, lock, next, step, extracts, ocrPast>> /\ AnyFault
      /\ ocr' = Created("user")
      /\ asks' = [asks EXCEPT ![m] = IF ocr.status = "completed" THEN "reset" ELSE "enqueue"]
  BY DEF RequestJob, AnyFault
<1>1. ocr' \in OcrRow /\ CompletedOK' /\ (ocr'.status = "completed" <=> ocr.status = "completed")
  BY <1>a, CreatedShows
<1>2. asks' \in [Manual -> {"new", "reset", "enqueue", "done"}] /\ Asking(m)'
  BY <1>a, OcrTypes DEF OcrRowsOK, Asking
<1>3. HandlersOK' /\ PlacesOK' /\ ItemsOK'
  BY <1>a, NoEventKeeps, OcrTypes DEF PlacesOK, ItemsOK
<1>4. OcrRowsOK'
  BY <1>a, <1>1, <1>2, OcrTypes DEF OcrRowsOK
<1>5. \A r \in Runner : lock = r /\ Where(r) \in {"extract", "replace", "write", "fail"} => ocr'.status # "completed"
  BY <1>1, OcrTypes DEF LockOK
<1>6. AttendOK'
  BY <1>2 DEF AttendOK
<1> QED
  BY <1>a, <1>1, <1>3, <1>4, <1>5, <1>6, RequestKeeps DEF PageOf

LEMMA ResetCompletedInv ==
  ASSUME OcrInv, NEW m \in Manual, ResetCompleted(m) PROVE OcrInv'
<1>a. UNCHANGED <<at, eventVars, lock, next, step, extracts>> /\ AnyFault
  BY DEF ResetCompleted, AnyFault
<1>b. HandlersOK' /\ PlacesOK'
  BY <1>a, NoEventKeeps, OcrTypes DEF PlacesOK
<1>1. CASE /\ ResetOcr /\ page' = NoPages /\ item' = NoItems
           /\ ocrPast' = [ocrPast EXCEPT !.reset = @ \/ lock # NoOne]
           /\ asks' = [asks EXCEPT ![m] = "enqueue"]
  <2>1. ocr' \in OcrRow /\ ocr'.status # "completed"
    BY <1>1, OcrTypes DEF ResetOcr, OcrRow
  <2>2. page' \in [1..Pages -> Runner \cup {NoOne}] /\ \A n \in 1..Pages : page'[n] = NoOne
    BY <1>1 DEF NoPages
  <2>3. /\ ocrPast' \in PastRow /\ ocrPast'.overlap = ocrPast.overlap
        /\ lock # NoOne => ocrPast'.reset
    BY <1>1, OcrTypes DEF PastRow
  <2>4. asks' \in [Manual -> {"new", "reset", "enqueue", "done"}] /\ Asking(m)'
    BY <1>1, OcrTypes DEF OcrRowsOK, Asking
  <2>5. item' \in [ExtractEvent -> 0..MaxAttempts] /\ ItemsOK'
    BY <1>1, <1>a, <2>3, OcrTypes DEF NoItems, ItemsOK
  <2>6. OcrRowsOK'
    BY <1>a, <2>1, <2>2, <2>3, <2>4, <2>5, OcrTypes DEF OcrRowsOK
  <2>7. \A r \in Runner, n \in 1..Pages : lock = r /\ PageOf(n, r) => PageOf(n, r)'
    BY <2>2, <2>3, OcrTypes DEF PageOf
  <2>8. CompletedOK' /\ AttendOK'
    BY <2>1, <2>4 DEF CompletedOK, AttendOK
  <2> QED
    BY <1>a, <1>b, <2>1, <2>5, <2>6, <2>7, <2>8, RequestKeeps
<1>2. CASE /\ UNCHANGED <<ocr, page, item, ocrPast>>
           /\ asks' = [asks EXCEPT ![m] = "done"] /\ Fault
  <2>1. asks' \in [Manual -> {"new", "reset", "enqueue", "done"}]
    BY <1>2, OcrTypes DEF OcrRowsOK
  <2>2. OcrRowsOK'
    BY <1>a, <1>2, <2>1, OcrTypes DEF OcrRowsOK
  <2>3. CompletedOK' /\ ItemsOK'
    BY <1>a, <1>2, OcrTypes DEF CompletedOK, ItemsOK, PageOf
  <2>4. faults' # 0
    BY <1>a, <1>2, FaultsGrow, OcrTypes DEF HandlersOK
  <2>5. AttendOK' /\ ocr' = ocr
    BY <1>2, <2>4 DEF AttendOK
  <2>6. \A r \in Runner : lock = r /\ Where(r) \in {"extract", "replace", "write", "fail"} => ocr'.status # "completed"
    BY <2>5, OcrTypes DEF LockOK
  <2> QED
    BY <1>a, <1>b, <1>2, <2>2, <2>3, <2>5, <2>6, RequestKeeps DEF PageOf
<1> QED
  BY <1>1, <1>2 DEF ResetCompleted

LEMMA EnqueueManualInv ==
  ASSUME OcrInv, NEW m \in Manual, EnqueueManual(m) PROVE OcrInv'
<1>a. /\ UNCHANGED <<ocr, page, item, lock, next, step, extracts, ocrPast>> /\ AnyFault
      /\ asks' = [asks EXCEPT ![m] = "done"]
  BY DEF EnqueueManual, AnyFault
<1>1. asks' \in [Manual -> {"new", "reset", "enqueue", "done"}]
  BY <1>a, OcrTypes DEF OcrRowsOK
<1>2. OcrRowsOK' /\ CompletedOK'
  BY <1>a, <1>1, OcrTypes DEF OcrRowsOK, CompletedOK, PageOf
<1>3. \A r \in Runner : lock = r /\ Where(r) \in {"extract", "replace", "write", "fail"} => ocr'.status # "completed"
  BY <1>a, OcrTypes DEF LockOK
<1>4. ASSUME HandlersOK', \A j \in OcrEvent \cup ExtractEvent : at'[j] = at[j], AttendOK'
      PROVE  OcrInv'
  <2>1. PlacesOK' /\ ItemsOK'
    BY <1>a, <1>4, OcrTypes DEF PlacesOK, ItemsOK
  <2> QED
    BY <1>a, <1>2, <1>3, <1>4, <2>1, RequestKeeps DEF PageOf
<1>5. CASE \E e \in OcrEvent : Enqueue(e)
  <2>1. PICK e \in OcrEvent : Enqueue(e)
    BY <1>5
  <2>2. HandlersOK' /\ OnlyEvent(e) /\ Deliverable(e)' /\ UNCHANGED at
    BY <1>a, <2>1, EnqueueKeeps, OcrTypes DEF Enqueue
  <2>3. e \in Runner /\ Busy(e)'
    BY <2>2 DEF Runner, Busy
  <2>4. AttendOK'
    BY <2>3 DEF AttendOK
  <2> QED
    BY <1>4, <2>2, <2>4
<1>6. CASE UNCHANGED <<at, eventVars>> /\ Fault
  <2>1. faults' # 0
    BY <1>a, <1>6, FaultsGrow, OcrTypes DEF HandlersOK
  <2>2. HandlersOK' /\ AttendOK'
    BY <1>a, <1>6, <2>1, NoEventKeeps, OcrTypes DEF AttendOK
  <2> QED
    BY <1>4, <1>6, <2>2
<1> QED
  BY <1>5, <1>6 DEF EnqueueManual

-----------------------------------------------------------------------------
(* Extractions: no runner moves, and the run stays as it is.               *)
LEMMA ExtractionKeeps ==
  ASSUME OcrInv, NEW x \in ExtractEvent, HandlersOK', OnlyEvent(x), AnyFault,
         UNCHANGED <<ocr, page, lock, next, step, asks, extracts>>,
         ocrPast' \in PastRow, ocrPast'.reset = ocrPast.reset, ocrPast'.left = ocrPast.left,
         at'[x] \in ExtractStep \cup {"idle", "lost"}, item' \in [ExtractEvent -> 0..MaxAttempts],
         ItemsOK'
  PROVE  OcrInv'
<1>1. OcrRowsOK' /\ CompletedOK'
  BY OcrTypes DEF OcrRowsOK, CompletedOK, PageOf
<1>2. PlacesOK'
  BY OcrTypes, DriveOCRAssumption DEF PlacesOK, OnlyEvent
<1>3. \A r \in Runner : Where(r)' = Where(r) /\ (Busy(r)' <=> Busy(r))
  BY DriveOCRAssumption DEF OnlyEvent, Runner, Where, Busy, Deliverable
<1>4. \A r \in Runner : LockOK(r)'
  BY <1>3, OcrTypes DEF LockOK, PageOf
<1>5. faults' = 0 => faults = 0
  BY FaultsGrow, OcrTypes DEF HandlersOK
<1>6. AttendOK'
  BY <1>3, <1>5, OcrTypes DEF AttendOK, Asking
<1> QED
  BY <1>1, <1>2, <1>4, <1>6 DEF OcrInv

(* A step that inserts nothing.                                            *)
LEMMA ExtractionQuiet ==
  ASSUME OcrInv, NEW x \in ExtractEvent, HandlersOK', OnlyEvent(x), AnyFault, UNCHANGED ocrVars,
         at'[x] \in {"products", "idle", "lost"}
  PROVE  OcrInv'
<1>1. UNCHANGED <<ocr, page, lock, next, step, asks, extracts, item, ocrPast>>
  BY DEF ocrVars
<1>2. item' \in [ExtractEvent -> 0..MaxAttempts] /\ ocrPast' \in PastRow
  BY <1>1, OcrTypes DEF OcrRowsOK
<1>3. ItemsOK'
  <2>1. \A y \in ExtractEvent : at'[y] = "items" => at[y] = "items"
    BY OcrTypes, DriveOCRAssumption DEF OnlyEvent
  <2> QED
    BY <1>1, <2>1, OcrTypes DEF ItemsOK
<1> QED
  BY <1>1, <1>2, <1>3, ExtractionKeeps DEF ExtractStep

LEMMA ExtractionEventInv ==
  ASSUME OcrInv, NEW x \in ExtractEvent,
         \/ RequestExtraction(x) \/ BeginExtraction(x)
         \/ CrashOcr(x) \/ ExpireOcr(x)
         \/ (LoseEvent(x) \/ SettleEvent(x)) /\ UNCHANGED ocrVars
  PROVE  OcrInv'
<1>a. x \in Job /\ (lock = x => lock = NoOne)
  BY OcrTypes, DriveOCRAssumption
<1>b. AnyFault
  BY DEF RequestExtraction, BeginExtraction, CrashOcr, ExpireOcr, LoseEvent, SettleEvent, Crash,
         AnyFault, Unfailing
<1>c. UNCHANGED ocrVars
  BY <1>a DEF RequestExtraction, BeginExtraction, CrashOcr, ExpireOcr, Unlocked, ocrVars
<1>1. CASE Enqueue(x)
  BY <1>1, <1>a, <1>b, <1>c, EnqueueKeeps, ExtractionQuiet, OcrTypes
<1>2. CASE Begin(x, "products")
  <2>1. HandlersOK' /\ OnlyEvent(x) /\ at'[x] = "products"
    BY <1>2, <1>a, <1>b, MoveKeeps, OcrTypes
  <2> QED
    BY <1>b, <1>c, <2>1, ExtractionQuiet
<1>3. CASE \E nil \in BOOLEAN : Answer(x, nil) \/ Return(x, nil)
  <2>1. PICK nil \in BOOLEAN : Answer(x, nil) \/ Return(x, nil)
    BY <1>3
  <2>2. HandlersOK' /\ OnlyEvent(x) /\ at'[x] = "idle"
    BY <2>1, <1>a, <1>b, ReturnKeeps, OcrTypes
  <2> QED
    BY <1>b, <1>c, <2>2, ExtractionQuiet
<1>4. CASE Crash(x) \/ LoseEvent(x)
  BY <1>4, <1>a, <1>b, <1>c, LostKeeps, ExtractionQuiet, OcrTypes
<1>5. CASE SettleEvent(x)
  <2>1. HandlersOK' /\ OnlyEvent(x) /\ at'[x] = "idle"
    BY <1>5, <1>a, SettleKeeps, OcrTypes
  <2> QED
    BY <1>b, <1>c, <2>1, ExtractionQuiet
<1> QED
  BY <1>1, <1>2, <1>3, <1>4, <1>5 DEF RequestExtraction, BeginExtraction, CrashOcr, ExpireOcr

LEMMA DropItemsInv ==
  ASSUME OcrInv, NEW x \in ExtractEvent, DropItems(x) PROVE OcrInv'
<1>a. /\ UNCHANGED <<ocr, page, lock, next, step, asks, extracts>> /\ AnyFault
      /\ at[x] = "products" /\ InHand(x) /\ x \in Job
  BY OcrTypes DEF DropItems, AnyFault, InHand
<1>1. CASE /\ item' = NoItems /\ Goto(x, "items")
           /\ ocrPast' = [ocrPast EXCEPT !.overlap = @ \/ \E y \in ExtractEvent : at[y] = "items"]
  <2>1. HandlersOK' /\ OnlyEvent(x) /\ at'[x] = "items"
    BY <1>1, <1>a, MoveKeeps, OcrTypes
  <2>2. /\ ocrPast' \in PastRow /\ ocrPast'.reset = ocrPast.reset /\ ocrPast'.left = ocrPast.left
        /\ (\E y \in ExtractEvent : at[y] = "items") => ocrPast'.overlap
    BY <1>1, OcrTypes DEF PastRow
  <2>3. item' \in [ExtractEvent -> 0..MaxAttempts] /\ \A y \in ExtractEvent : item'[y] = 0
    BY <1>1, OcrTypes DEF NoItems
  <2>4. \A y \in ExtractEvent : at'[y] = "items" => y = x \/ at[y] = "items"
    BY <2>1, OcrTypes DEF OnlyEvent
  <2>5. ItemsOK'
    BY <2>2, <2>3, <2>4 DEF ItemsOK
  <2> QED
    BY <1>a, <2>1, <2>2, <2>3, <2>5, ExtractionKeeps DEF ExtractStep
<1>2. CASE Return(x, FALSE) /\ UNCHANGED <<item, ocrPast>>
  <2>1. HandlersOK' /\ OnlyEvent(x) /\ at'[x] = "idle"
    BY <1>2, <1>a, ReturnKeeps, OcrTypes
  <2>2. UNCHANGED ocrVars
    BY <1>2, <1>a DEF ocrVars
  <2> QED
    BY <1>a, <2>1, <2>2, ExtractionQuiet
<1> QED
  BY <1>1, <1>2 DEF DropItems

LEMMA AddItemsInv ==
  ASSUME OcrInv, NEW x \in ExtractEvent, AddItems(x) PROVE OcrInv'
<1>a. /\ UNCHANGED <<ocr, page, lock, next, step, asks, extracts, ocrPast>> /\ AnyFault
      /\ at[x] = "items" /\ x \in Job
      /\ item' = item \/ item' = [item EXCEPT ![x] = item[x] + 1]
  BY OcrTypes DEF AddItems, AnyFault
<1>1. PICK nil \in BOOLEAN : Return(x, nil)
  BY DEF AddItems
<1>2. HandlersOK' /\ OnlyEvent(x) /\ at'[x] = "idle"
  BY <1>1, <1>a, ReturnKeeps, OcrTypes
<1>3. item[x] = 0 /\ item \in [ExtractEvent -> 0..MaxAttempts]
  BY <1>a, OcrTypes DEF ItemsOK, OcrRowsOK
<1>4. /\ item' \in [ExtractEvent -> 0..MaxAttempts] /\ item'[x] \in {0, 1}
      /\ \A y \in ExtractEvent \ {x} : item'[y] = item[y]
  BY <1>a, <1>3, OcrTypes
<1>5. \A y \in ExtractEvent : at'[y] = "items" => y # x /\ at[y] = "items"
  BY <1>2, OcrTypes DEF OnlyEvent
<1>6. ItemsOK'
  <2>1. \A y \in ExtractEvent : item'[y] <= 1 /\ (at'[y] = "items" => item'[y] = 0)
    BY <1>4, <1>5, OcrTypes DEF ItemsOK
  <2>2. \A y \in ExtractEvent : at'[y] = "items" \/ item'[y] > 0 => at[y] = "items" \/ item[y] > 0
    BY <1>a, <1>4, <1>5
  <2> QED
    BY <1>a, <2>1, <2>2, OcrTypes DEF ItemsOK
<1>7. ocrPast' \in PastRow
  BY <1>a, OcrTypes
<1> QED
  BY <1>a, <1>2, <1>4, <1>6, <1>7, ExtractionKeeps

-----------------------------------------------------------------------------
LEMMA OcrStepInv == OcrInv /\ OcrNext => OcrInv'
<1> SUFFICES ASSUME OcrInv, OcrNext PROVE OcrInv'
  OBVIOUS
<1>1. ASSUME NEW r \in Runner, Execute(r) PROVE OcrInv'
  BY <1>1, AcquireLockInv, MarkRunningInv, ExtractInv, DropPagesInv, WritePageInv, MarkCompletedInv,
     MarkRunFailedInv DEF Execute
<1>2. CASE \E e \in OcrEvent :
              \/ RequestOnUpload(e) \/ BeginOcr(e) \/ SkipRun(e) \/ Reindex(e)
              \/ Execute(e) \/ IndexText(e) \/ ScheduleProductExtraction(e) \/ ReturnDone(e)
  BY <1>1, <1>2, RequestOnUploadInv, BeginOcrInv, SkipRunInv, AfterTextInv, ScheduleProductExtractionInv
  DEF Runner
<1>3. CASE \E p \in PipelineStep : BeginPipeline(p) \/ Execute(p) \/ ListPages(p) \/ StopPipeline(p)
  BY <1>1, <1>3, BeginPipelineInv, PipelineEndsInv DEF Runner
<1>4. CASE \E m \in Manual : RequestJob(m) \/ ResetCompleted(m) \/ EnqueueManual(m)
  BY <1>4, RequestJobInv, ResetCompletedInv, EnqueueManualInv
<1>5. CASE \E x \in ExtractEvent :
              RequestExtraction(x) \/ BeginExtraction(x) \/ DropItems(x) \/ AddItems(x)
  BY <1>5, ExtractionEventInv, DropItemsInv, AddItemsInv
<1>6. CASE \E j \in OcrEvent \cup ExtractEvent :
              \/ CrashOcr(j) \/ ExpireOcr(j)
              \/ (LoseEvent(j) \/ SettleEvent(j)) /\ UNCHANGED ocrVars
  BY <1>6, OcrEventLostInv, ExtractionEventInv
<1> QED
  BY <1>2, <1>3, <1>4, <1>5, <1>6 DEF OcrNext

LEMMA OcrInvShows ==
  OcrInv => OcrTypeOK /\ PagesOfOneExecution /\ ItemsOfOneExtraction /\ OcrAttended
<1> SUFFICES ASSUME OcrInv PROVE OcrTypeOK /\ PagesOfOneExecution /\ ItemsOfOneExtraction /\ OcrAttended
  OBVIOUS
<1>1. OcrTypeOK
  <2>1. HandlersTypeOK(OcrEvent, OcrStep) /\ HandlersTypeOK(ExtractEvent, ExtractStep)
    BY OcrTypes DEF HandlersTypeOK, HandlersOK, PlacesOK
  <2>2. ocr.status = "completed" => ocr.by # NoOne
    BY OcrTypes DEF CompletedOK
  <2> QED
    BY <2>1, <2>2, OcrTypes DEF OcrTypeOK, OcrRowsOK, OcrRow, PastRow
<1>2. PagesOfOneExecution
  <2>1. \A p \in PipelineStep : p \in Runner /\ Where(p) = step[p]
    BY DriveOCRAssumption DEF Runner, Where
  <2> QED
    BY <2>1, OcrTypes DEF PagesOfOneExecution, CompletedOK, LockOK, PageOf
<1>3. ItemsOfOneExtraction
  BY OcrTypes DEF ItemsOfOneExtraction, ItemsOK
<1>4. OcrAttended
  <2> SUFFICES ASSUME faults = 0, ~ocrPast.left, ocr.status \in Unsettled
               PROVE  \/ \E e \in OcrEvent : Attended(e)
                      \/ \E p \in PipelineStep : step[p] \in ExecutionStep
                      \/ \E m \in Manual : asks[m] \in {"reset", "enqueue"}
    BY OcrTypes DEF OcrAttended, Unsettled
  <2>1. \A e \in OcrEvent : Busy(e) => Attended(e)
    BY DEF Busy, Where, Attended, InHand, ExecutionStep
  <2>2. ASSUME NEW p \in PipelineStep, Busy(p) PROVE step[p] \in ExecutionStep
    <3>1. p \notin OcrEvent /\ step[p] \in ExecutionStep \cup {"new", "list", "done"}
      BY OcrTypes, DriveOCRAssumption
    <3> QED
      BY <2>2, <3>1 DEF Busy, Where
  <2> QED
    BY <2>1, <2>2, OcrTypes DEF AttendOK, Runner, Asking
<1> QED
  BY <1>1, <1>2, <1>3, <1>4

-----------------------------------------------------------------------------
(* Local search.                                                           *)

SearchJobStatus == {"absent", "asking", "queued", "processing", "failed", "done"}

IndexPlace == {"idle", "lost", "read", "write", "ask", "complete", "flawed", "fail"}
EmbedPlace == {"idle", "lost", "read", "drop", "upsert", "complete", "fail"}

SearchRowsOK ==
    /\ row \in [rev : Nat, active : BOOLEAN] /\ (row.active => row.rev > 0)
    /\ doc \in [id : Nat, rev : 0..row.rev]
    /\ chunks \subseteq (1..Chunks) \X (1..row.rev)
    /\ doc.rev = Undocumented => chunks = {}
    /\ sjob \in [SearchJob -> SearchJobStatus]
    /\ rebuilds \subseteq IndexJob
    /\ seen \in [SearchJob -> [rev : 0..row.rev, active : BOOLEAN, id : 0..doc.id]]
    /\ ordinal \in [EmbedJob -> 0..Chunks]
    /\ newest \in [doc : 0..row.rev, emb : 0..row.rev] /\ overtaken \in BOOLEAN
    /\ newest.emb <= newest.doc /\ doc.rev <= newest.doc

(* A job, and without faults who attends to it.                            *)
SearchJobOK(j) ==
    /\ at[j] \in IF j \in IndexJob THEN IndexPlace ELSE EmbedPlace
    /\ fate[j] = "absent" <=> sjob[j] \in {"absent", "asking"}
    /\ InHand(j) => sjob[j] = "processing"
    /\ j \in EmbedJob => sjob[j] # "asking"
    /\ at[j] = "write" => /\ seen[j].active => seen[j].rev > 0
                          /\ seen[j].rev = row.rev => seen[j].active = row.active
    /\ at[j] \in {"drop", "upsert"} => seen[j].rev > 0 /\ seen[j].rev <= newest.doc
    /\ at[j] = "upsert" => ordinal[j] < Chunks /\ seen[j].rev <= newest.emb

SearchJobUnfailing(j) ==
    faults = 0 => /\ sjob[j] \in {"queued", "processing"} => Attended(j)
                  /\ sjob[j] = "failed" => j \in EmbedJob /\ (Attended(j) \/ tries[j] = MaxAttempts)
                  /\ at[j] # "flawed" /\ (j \in IndexJob => at[j] # "fail")

(* While no handler is overtaken, the document is that of the latest       *)
(* revision written, if it is active, and so are the chunks of the latest; *)
(* revisions that handlers have read are not newer than they think.        *)
DocOK ==
    /\ doc.rev \in {Undocumented, newest.doc}
    /\ newest.doc = row.rev => (row.active <=> doc.rev # Undocumented)
    /\ newest.emb = doc.rev => chunks \subseteq (1..Chunks) \X {doc.rev}

SeenOK(j) ==
    /\ at[j] = "write" /\ seen[j].rev = newest.doc => (seen[j].active <=> doc.rev # Undocumented)
    /\ at[j] \in {"drop", "upsert"} =>
          seen[j].rev < newest.doc \/ (seen[j].rev = doc.rev /\ seen[j].id = doc.id)

SameSeen(j, k) ==
    at[j] = "write" /\ at[k] = "write" /\ seen[j].rev = seen[k].rev => seen[j].active = seen[k].active

InOrder == ~overtaken => /\ DocOK
                         /\ \A j \in SearchJob : SeenOK(j)
                         /\ \A j, k \in IndexJob : SameSeen(j, k)

(* Who will write the row's revision, and the chunks of the document.      *)
Indexing(j) ==
    sjob[j] \in {"asking", "queued"} \/ at[j] = "read" \/ (at[j] = "write" /\ seen[j].rev = row.rev)

Embedding(x) ==
    \/ sjob[x] \in {"queued", "failed"}
    \/ at[x] \in {"read", "fail"}
    \/ at[x] = "drop" /\ seen[x].rev = doc.rev
    \/ at[x] = "upsert" /\ seen[x].rev = doc.rev /\ \A c \in 1..ordinal[x] : <<c, doc.rev>> \in chunks

Covered == newest.emb = doc.rev /\ \A c \in 1..Chunks : <<c, doc.rev>> \in chunks

IndexDue == faults = 0 => newest.doc = row.rev \/ \E j \in IndexJob : Indexing(j)

EmbedDue ==
    faults = 0 /\ ~overtaken /\ doc.rev # Undocumented =>
        Covered \/ (\E j \in IndexJob : at[j] = "ask") \/ (\E x \in EmbedJob : Embedding(x))

SearchInv ==
    /\ HandlersOK /\ SearchRowsOK
    /\ \A j \in SearchJob : SearchJobOK(j) /\ SearchJobUnfailing(j)
    /\ InOrder /\ IndexDue /\ EmbedDue

LEMMA SearchInvInit == HandlersInit /\ LocalSearchInit => SearchInv
<1> SUFFICES ASSUME HandlersInit, LocalSearchInit PROVE SearchInv
  OBVIOUS
<1> USE HandlerAssumption, LocalSearchAssumption
<1>1. HandlersOK
  BY HandlersOKInit
<1>2. /\ fate = [j \in Job |-> "absent"] /\ at = [j \in Job |-> "idle"]
  BY DEF HandlersInit, Queue!Init
<1>3. SearchRowsOK
  <2>1. /\ row.rev = 0 /\ ~row.active /\ row \in [rev : Nat, active : BOOLEAN]
        /\ doc.id = 0 /\ doc.rev = 0 /\ doc \in [id : Nat, rev : 0..row.rev] /\ chunks = {}
    BY DEF LocalSearchInit, Undocumented
  <2>2. sjob \in [SearchJob -> SearchJobStatus] /\ rebuilds \subseteq IndexJob
    BY DEF LocalSearchInit, SearchJobStatus
  <2>3. /\ seen \in [SearchJob -> [rev : 0..row.rev, active : BOOLEAN, id : 0..doc.id]]
        /\ ordinal \in [EmbedJob -> 0..Chunks]
    <3>1. 0 \in 0..row.rev /\ 0 \in 0..doc.id /\ 0 \in 0..Chunks
      BY <2>1
    <3>2. [rev |-> 0, active |-> FALSE, id |-> 0] \in [rev : 0..row.rev, active : BOOLEAN, id : 0..doc.id]
      BY <3>1
    <3> QED
      BY <3>1, <3>2 DEF LocalSearchInit
  <2>4. /\ newest \in [doc : 0..row.rev, emb : 0..row.rev] /\ overtaken \in BOOLEAN
        /\ newest.emb <= newest.doc /\ doc.rev <= newest.doc
    <3>1. newest = [doc |-> 0, emb |-> 0] /\ overtaken = FALSE
      BY DEF LocalSearchInit
    <3>2. 0 \in 0..row.rev
      BY <2>1
    <3>3. newest \in [doc : 0..row.rev, emb : 0..row.rev]
      BY <3>1, <3>2
    <3>4. overtaken \in BOOLEAN
      BY <3>1
    <3>5. newest.emb <= newest.doc /\ doc.rev <= newest.doc
      BY <2>1, <3>1
    <3> QED
      BY <3>3, <3>4, <3>5
  <2> QED
    BY <2>1, <2>2, <2>3, <2>4 DEF SearchRowsOK
<1>4. ASSUME NEW j \in SearchJob PROVE SearchJobOK(j) /\ SearchJobUnfailing(j) /\ SeenOK(j)
  <2>1. at[j] = "idle" /\ fate[j] = "absent" /\ sjob[j] = "absent"
    BY <1>2 DEF LocalSearchInit
  <2> QED
    BY <2>1 DEF SearchJobOK, SearchJobUnfailing, SeenOK, IndexPlace, EmbedPlace, InHand
<1>5. InOrder
  <2>1. DocOK
    BY DEF LocalSearchInit, DocOK, Undocumented
  <2>2. \A j, k \in IndexJob : SameSeen(j, k)
    BY <1>2 DEF SameSeen, SearchJob
  <2> QED
    BY <1>4, <2>1, <2>2 DEF InOrder
<1>6. IndexDue /\ EmbedDue
  BY DEF LocalSearchInit, IndexDue, EmbedDue, Undocumented
<1> QED
  BY <1>1, <1>3, <1>4, <1>5, <1>6 DEF SearchInv

LEMMA SearchTypes ==
  ASSUME SearchInv
  PROVE  /\ HandlersOK /\ SearchRowsOK /\ FaultsTypeOK /\ faults \in Nat
         /\ \A j \in SearchJob : /\ j \in Job /\ EventOK(j) /\ SearchJobOK(j) /\ SearchJobUnfailing(j)
                                 /\ seen[j].rev \in Nat /\ seen[j].id \in Nat
                                 /\ seen[j].rev <= row.rev /\ sjob[j] \in SearchJobStatus
         /\ Chunks \in Nat /\ Chunks > 0 /\ SearchJob = IndexJob \cup EmbedJob
         /\ \A j \in IndexJob : j \notin EmbedJob
         /\ row.rev \in Nat /\ doc.rev \in Nat /\ doc.id \in Nat /\ newest.doc \in Nat /\ newest.emb \in Nat
         /\ newest.doc <= row.rev /\ newest.emb <= newest.doc /\ doc.rev <= newest.doc
         /\ InOrder /\ IndexDue /\ EmbedDue
<1>1. /\ HandlersOK /\ SearchRowsOK /\ FaultsTypeOK /\ faults \in Nat /\ InOrder /\ IndexDue /\ EmbedDue
  BY FaultsAssumption DEF SearchInv, HandlersOK, FaultsTypeOK
<1>2. row.rev \in Nat /\ doc.rev \in Nat /\ doc.id \in Nat /\ newest.doc \in Nat /\ newest.emb \in Nat
      /\ newest.doc <= row.rev /\ newest.emb <= newest.doc /\ doc.rev <= newest.doc
  BY <1>1 DEF SearchRowsOK
<1>3. ASSUME NEW j \in SearchJob
      PROVE  /\ j \in Job /\ EventOK(j) /\ SearchJobOK(j) /\ SearchJobUnfailing(j)
             /\ seen[j].rev \in Nat /\ seen[j].id \in Nat
             /\ seen[j].rev <= row.rev /\ sjob[j] \in SearchJobStatus
  <2>1. j \in Job
    BY LocalSearchAssumption
  <2>2. seen[j] \in [rev : 0..row.rev, active : BOOLEAN, id : 0..doc.id]
    BY <1>1 DEF SearchRowsOK
  <2> QED
    BY <1>1, <1>2, <2>1, <2>2 DEF SearchInv, HandlersOK, SearchRowsOK
<1> QED
  BY <1>1, <1>2, <1>3, LocalSearchAssumption DEF SearchJob

(* A step of one job that writes neither the row nor the index.            *)
LEMMA OneSearchKeeps ==
  ASSUME SearchInv, NEW j \in SearchJob, HandlersOK', OnlyEvent(j), AnyFault, UNCHANGED <<row, index>>,
         SearchRowsOK',
         \A k \in SearchJob \ {j} : sjob'[k] = sjob[k] /\ seen'[k] = seen[k],
         \A k \in EmbedJob \ {j} : ordinal'[k] = ordinal[k],
         SearchJobOK(j)', SearchJobUnfailing(j)',
         at'[j] = "write" => seen'[j].rev = row.rev /\ seen'[j].active = row.active,
         at'[j] \in {"drop", "upsert"} =>
             doc.rev # Undocumented /\ seen'[j].rev = doc.rev /\ seen'[j].id = doc.id,
         faults' = 0 /\ j \in IndexJob =>
             (Indexing(j) => Indexing(j)') /\ (at[j] = "ask" => at'[j] = "ask"),
         faults' = 0 /\ j \in EmbedJob /\ doc.rev # Undocumented /\ Embedding(j) => Embedding(j)'
  PROVE  SearchInv'
<1>a. UNCHANGED <<row, doc, chunks, newest, overtaken>>
  BY DEF index
<1>b. faults' = 0 => faults = 0
  BY FaultsGrow, SearchTypes
<1>1. ASSUME NEW k \in SearchJob \ {j} PROVE SearchJobOK(k)' /\ SearchJobUnfailing(k)' /\ (SeenOK(k) => SeenOK(k)')
  <2>1. /\ fate'[k] = fate[k] /\ tries'[k] = tries[k] /\ ok'[k] = ok[k] /\ at'[k] = at[k]
        /\ sjob'[k] = sjob[k] /\ seen'[k] = seen[k] /\ (k \in EmbedJob => ordinal'[k] = ordinal[k])
    BY SearchTypes DEF OnlyEvent
  <2>2. SearchJobOK(k) /\ SearchJobUnfailing(k)
    BY SearchTypes
  <2>3. SearchJobOK(k)'
    <3>1. at[k] = "upsert" => k \in EmbedJob
      BY <2>2, SearchTypes DEF SearchJobOK, IndexPlace
    <3> QED
      BY <1>a, <2>1, <2>2, <3>1 DEF SearchJobOK, InHand
  <2>4. SearchJobUnfailing(k)'
    BY <1>b, <2>1, <2>2 DEF SearchJobUnfailing, Attended, InHand, Deliverable
  <2> QED
    BY <1>a, <2>1, <2>3, <2>4 DEF SeenOK
<1>2. InOrder'
  <2> SUFFICES ASSUME ~overtaken
               PROVE  /\ DocOK' /\ (\A k \in SearchJob : SeenOK(k)')
                      /\ \A i, k \in IndexJob : SameSeen(i, k)'
    BY <1>a DEF InOrder
  <2>1. DocOK /\ (\A k \in SearchJob : SeenOK(k)) /\ (\A i, k \in IndexJob : SameSeen(i, k))
    BY SearchTypes DEF InOrder
  <2>2. DocOK'
    BY <1>a, <2>1 DEF DocOK
  <2>3. SeenOK(j)'
    BY <1>a, <2>1 DEF SeenOK, DocOK
  <2>4. ASSUME NEW i \in IndexJob, NEW k \in IndexJob PROVE SameSeen(i, k)'
    <3>1. i \in SearchJob /\ k \in SearchJob
      BY SearchTypes
    <3>2. ASSUME NEW n \in IndexJob, n # j PROVE at'[n] = at[n] /\ seen'[n] = seen[n]
      BY <3>2, SearchTypes DEF OnlyEvent
    <3>3. ASSUME NEW n \in IndexJob, n # j, at'[n] = "write", seen'[n].rev = row.rev
          PROVE  seen'[n].active = row.active
      <4>1. SearchJobOK(n) /\ at[n] = "write" /\ seen[n].rev = row.rev
        BY <3>3, <3>2, SearchTypes
      <4> QED
        BY <3>3, <3>2, <4>1 DEF SearchJobOK
    <3>4. CASE i # j /\ k # j
      BY <2>1, <3>2, <3>4 DEF SameSeen
    <3>5. CASE i = j \/ k = j
      BY <3>3, <3>5 DEF SameSeen
    <3> QED
      BY <3>4, <3>5
  <2> QED
    BY <1>1, <2>1, <2>2, <2>3, <2>4
<1>3. IndexDue'
  <2>1. ASSUME NEW k \in IndexJob, k # j, Indexing(k) PROVE Indexing(k)'
    <3>1. k \in SearchJob /\ at'[k] = at[k] /\ sjob'[k] = sjob[k] /\ seen'[k] = seen[k]
      BY <2>1, SearchTypes DEF OnlyEvent
    <3> QED
      BY <1>a, <2>1, <3>1 DEF Indexing
  <2> QED
    BY <1>a, <1>b, <2>1, SearchTypes DEF IndexDue
<1>4. EmbedDue'
  <2> SUFFICES ASSUME faults' = 0, ~overtaken, doc.rev # Undocumented
               PROVE  Covered' \/ (\E k \in IndexJob : at'[k] = "ask") \/ (\E x \in EmbedJob : Embedding(x)')
    BY <1>a DEF EmbedDue
  <2>1. Covered \/ (\E k \in IndexJob : at[k] = "ask") \/ (\E x \in EmbedJob : Embedding(x))
    BY <1>b, SearchTypes DEF EmbedDue
  <2>2. Covered => Covered'
    BY <1>a DEF Covered
  <2>3. ASSUME NEW k \in IndexJob, at[k] = "ask" PROVE at'[k] = "ask"
    BY <2>3, SearchTypes DEF OnlyEvent
  <2>4. ASSUME NEW x \in EmbedJob, x # j, Embedding(x) PROVE Embedding(x)'
    <3>1. x \in SearchJob /\ at'[x] = at[x] /\ sjob'[x] = sjob[x] /\ seen'[x] = seen[x] /\ ordinal'[x] = ordinal[x]
      BY <2>4, SearchTypes DEF OnlyEvent
    <3> QED
      BY <1>a, <2>4, <3>1 DEF Embedding
  <2> QED
    BY <2>1, <2>2, <2>3, <2>4
<1> QED
  BY <1>1, <1>2, <1>3, <1>4 DEF SearchInv

(* One that does not lead to a write.                                      *)
LEMMA SearchQuiet ==
  ASSUME SearchInv, NEW j \in SearchJob, HandlersOK', OnlyEvent(j), AnyFault,
         UNCHANGED <<row, index, seen, ordinal>>, rebuilds' \subseteq IndexJob,
         NEW s \in SearchJobStatus, sjob' = [sjob EXCEPT ![j] = s],
         at'[j] \in IF j \in IndexJob THEN IndexPlace ELSE EmbedPlace,
         at'[j] \notin {"write", "drop", "upsert"},
         fate'[j] = "absent" <=> s \in {"absent", "asking"},
         InHand(j)' => s = "processing", j \in EmbedJob => s # "asking",
         SearchJobUnfailing(j)',
         faults' = 0 /\ j \in IndexJob =>
             (Indexing(j) => Indexing(j)') /\ (at[j] = "ask" => at'[j] = "ask"),
         faults' = 0 /\ j \in EmbedJob /\ doc.rev # Undocumented /\ Embedding(j) => Embedding(j)'
  PROVE  SearchInv'
<1>1. sjob' \in [SearchJob -> SearchJobStatus] /\ sjob'[j] = s /\ \A k \in SearchJob \ {j} : sjob'[k] = sjob[k]
  BY SearchTypes DEF SearchRowsOK
<1>2. UNCHANGED <<row, doc, chunks, newest, overtaken>>
  BY DEF index
<1>3. SearchRowsOK'
  BY <1>1, <1>2, SearchTypes DEF SearchRowsOK
<1>4. SearchJobOK(j)'
  BY <1>1 DEF SearchJobOK
<1> QED
  BY <1>1, <1>3, <1>4, OneSearchKeeps

-----------------------------------------------------------------------------
(* What the handlers have in common, and the requests.                     *)
LEMMA SjobKept ==
  ASSUME SearchInv, NEW j \in SearchJob, sjob' = sjob
  PROVE  sjob' = [sjob EXCEPT ![j] = sjob[j]] /\ sjob[j] \in SearchJobStatus
  BY SearchTypes DEF SearchRowsOK

(* A step that fails: what it leaves has only to be in its place.          *)
LEMMA SearchFaulty ==
  ASSUME SearchInv, NEW j \in SearchJob, HandlersOK', OnlyEvent(j), AnyFault, faults' # 0,
         UNCHANGED <<row, index, seen, ordinal, rebuilds>>,
         NEW s \in SearchJobStatus, sjob' = [sjob EXCEPT ![j] = s],
         at'[j] \in IF j \in IndexJob THEN IndexPlace ELSE EmbedPlace,
         at'[j] \notin {"write", "drop", "upsert"},
         fate'[j] = "absent" <=> s \in {"absent", "asking"},
         InHand(j)' => s = "processing", j \in EmbedJob => s # "asking"
  PROVE  SearchInv'
<1>1. rebuilds' \subseteq IndexJob
  BY SearchTypes DEF SearchRowsOK
<1>2. SearchJobUnfailing(j)'
  BY DEF SearchJobUnfailing
<1> QED
  BY <1>1, <1>2, SearchQuiet

LEMMA SearchRequestInv ==
  ASSUME SearchInv, NEW j \in IndexJob, RequestIndex(j) \/ RequestRebuild(j) PROVE SearchInv'
<1>a. /\ UNCHANGED <<row, index, seen, ordinal>> /\ AnyFault /\ rebuilds' \subseteq rebuilds \cup {j}
      /\ sjob[j] \in {"absent", "asking"} /\ j \in SearchJob
  BY SearchTypes DEF RequestIndex, RequestRebuild, AnyFault, Unfailing
<1>b. SearchJobOK(j) /\ EventOK(j) /\ j \in Job
  BY <1>a, SearchTypes
<1>c. fate[j] = "absent" /\ at[j] = "idle"
  BY <1>a, <1>b DEF SearchJobOK, EventOK
<1>d. rebuilds' \subseteq IndexJob
  BY <1>a, SearchTypes DEF SearchRowsOK
<1>1. CASE sjob' = [sjob EXCEPT ![j] = "queued"] /\ Enqueue(j)
  <2>1. HandlersOK' /\ OnlyEvent(j) /\ at'[j] = "idle" /\ fate'[j] = "open" /\ Deliverable(j)'
    BY <1>1, <1>a, <1>b, EnqueueKeeps, SearchTypes
  <2>2. sjob'[j] = "queued"
    BY <1>1, <1>a, SearchTypes DEF SearchRowsOK
  <2>3. SearchJobUnfailing(j)'
    BY <2>1, <2>2 DEF SearchJobUnfailing, Attended
  <2>4. Indexing(j)' /\ at[j] # "ask" /\ "queued" \in SearchJobStatus
    BY <1>c, <2>2 DEF Indexing, SearchJobStatus
  <2>5. at'[j] \in IF j \in IndexJob THEN IndexPlace ELSE EmbedPlace
    BY <2>1 DEF IndexPlace, EmbedPlace
  <2>6. ~InHand(j)' /\ j \notin EmbedJob
    BY <2>1, SearchTypes DEF InHand
  <2> QED
    BY <1>1, <1>a, <1>d, <2>1, <2>3, <2>4, <2>5, <2>6, SearchQuiet
<1>2. CASE /\ sjob' = [sjob EXCEPT ![j] = "absent"] /\ Fault /\ UNCHANGED <<eventVars, at, rebuilds>>
  <2>1. HandlersOK' /\ OnlyEvent(j) /\ at'[j] = "idle" /\ fate'[j] = "absent"
    BY <1>2, <1>a, <1>b, <1>c, NoEventKeeps, SearchTypes
  <2>2. faults' # 0
    BY <1>2, <1>a, FaultsGrow, SearchTypes
  <2>3. "absent" \in SearchJobStatus /\ "idle" \in IndexPlace \cap EmbedPlace /\ ~InHand(j)' /\ j \notin EmbedJob
    BY <2>1, SearchTypes DEF SearchJobStatus, IndexPlace, EmbedPlace, InHand
  <2> QED
    BY <1>2, <1>a, <2>1, <2>2, <2>3, SearchFaulty
<1> QED
  BY <1>1, <1>2 DEF RequestIndex, RequestRebuild

LEMMA ChangeRowInv ==
  ASSUME SearchInv, NEW j \in IndexJob, ChangeRow(j) PROVE SearchInv'
<1>a. UNCHANGED <<fate, tries, ok, at, faults, doc, chunks, newest, overtaken, rebuilds, seen, ordinal>>
      /\ sjob[j] = "absent" /\ sjob' = [sjob EXCEPT ![j] = "asking"]
  BY DEF ChangeRow, handlerVars, index
<1>b. row' \in [rev : Nat, active : BOOLEAN] /\ row'.rev = row.rev + 1
  BY SearchTypes DEF ChangeRow
<1>c. j \in SearchJob /\ j \notin EmbedJob /\ EventOK(j) /\ SearchJobOK(j)
  BY SearchTypes
<1>d. fate[j] = "absent" /\ at[j] = "idle"
  BY <1>a, <1>c DEF SearchJobOK, EventOK
<1>e. sjob' \in [SearchJob -> SearchJobStatus] /\ sjob'[j] = "asking" /\ \A k \in SearchJob \ {j} : sjob'[k] = sjob[k]
  BY <1>a, <1>c, SearchTypes DEF SearchRowsOK, SearchJobStatus
<1>1. HandlersOK'
  BY <1>a, SearchTypes DEF HandlersOK, EventOK, InHand, FaultsTypeOK
<1>2. SearchRowsOK'
  <2>1. 0..row.rev \subseteq 0..row'.rev /\ 1..row.rev \subseteq 1..row'.rev /\ row'.rev > 0
    BY <1>b, SearchTypes
  <2>2. doc \in [id : Nat, rev : 0..row'.rev]
    BY <2>1, SearchTypes DEF SearchRowsOK
  <2>3. seen \in [SearchJob -> [rev : 0..row'.rev, active : BOOLEAN, id : 0..doc.id]]
    <3>1. [rev : 0..row.rev, active : BOOLEAN, id : 0..doc.id]
              \subseteq [rev : 0..row'.rev, active : BOOLEAN, id : 0..doc.id]
      BY <2>1
    <3> QED
      BY <3>1, SearchTypes DEF SearchRowsOK
  <2>4. newest \in [doc : 0..row'.rev, emb : 0..row'.rev]
    BY <2>1, SearchTypes DEF SearchRowsOK
  <2>5. chunks \subseteq (1..Chunks) \X (1..row'.rev)
    BY <2>1, SearchTypes DEF SearchRowsOK
  <2> QED
    BY <1>a, <1>b, <1>e, <2>1, <2>2, <2>3, <2>4, <2>5, SearchTypes DEF SearchRowsOK
<1>3. ASSUME NEW k \in SearchJob PROVE SearchJobOK(k)' /\ SearchJobUnfailing(k)'
  <2>1. SearchJobOK(k) /\ SearchJobUnfailing(k) /\ seen[k].rev # row'.rev
    BY <1>b, SearchTypes
  <2>2. CASE k = j
    BY <1>a, <1>c, <1>d, <1>e, <2>1, <2>2 DEF SearchJobOK, SearchJobUnfailing, InHand
  <2>3. CASE k # j
    BY <1>a, <1>e, <2>1, <2>3 DEF SearchJobOK, SearchJobUnfailing, Attended, Deliverable, InHand
  <2> QED
    BY <2>2, <2>3
<1>4. InOrder'
  <2>1. newest.doc # row'.rev
    BY <1>b, SearchTypes
  <2> QED
    BY <1>a, <2>1, SearchTypes DEF InOrder, DocOK, SeenOK, SameSeen
<1>5. IndexDue'
  BY <1>e DEF IndexDue, Indexing
<1>6. EmbedDue'
  <2>1. \A x \in EmbedJob : Embedding(x) => Embedding(x)'
    BY <1>a, <1>c, <1>e, SearchTypes DEF Embedding
  <2> QED
    BY <1>a, <2>1, SearchTypes DEF EmbedDue, Covered
<1> QED
  BY <1>1, <1>2, <1>3, <1>4, <1>5, <1>6 DEF SearchInv

LEMMA BeginSearchInv ==
  ASSUME SearchInv, NEW j \in SearchJob, BeginSearch(j) \/ BeginSearchError(j) PROVE SearchInv'
<1>a. UNCHANGED <<row, index, rebuilds, seen, ordinal>> /\ AnyFault /\ Deliverable(j)
  BY DEF BeginSearch, BeginSearchError, AnyFault, Begin, Answer
<1>b. /\ SearchJobOK(j) /\ SearchJobUnfailing(j) /\ j \in Job /\ fate[j] = "open" /\ at[j] = "idle"
      /\ sjob[j] \in SearchJobStatus /\ sjob[j] \notin {"absent", "asking"} /\ rebuilds' \subseteq IndexJob
  BY <1>a, SearchTypes DEF Deliverable, SearchJobOK, SearchRowsOK
<1>1. ASSUME Answer(j, FALSE) PROVE HandlersOK' /\ OnlyEvent(j) /\ at'[j] = "idle" /\ fate'[j] = "open"
  BY <1>1, <1>a, <1>b, ReturnKeeps, SearchTypes
<1>2. CASE Answer(j, FALSE) /\ sjob[j] = "done" /\ UNCHANGED sjob
  <2>1. SearchJobUnfailing(j)'
    BY <1>1, <1>2 DEF SearchJobUnfailing
  <2>2. /\ at'[j] \in IF j \in IndexJob THEN IndexPlace ELSE EmbedPlace
        /\ at'[j] \notin {"write", "drop", "upsert"} /\ ~InHand(j)'
    BY <1>1, <1>2 DEF IndexPlace, EmbedPlace, InHand
  <2>3. ~Indexing(j) /\ at[j] # "ask" /\ ~Embedding(j)
    BY <1>b, <1>2 DEF Indexing, Embedding
  <2> QED
    BY <1>1, <1>2, <1>a, <1>b, <2>1, <2>2, <2>3, SjobKept, SearchQuiet
<1>3. CASE Begin(j, "read") /\ sjob' = [sjob EXCEPT ![j] = "processing"]
  <2>1. HandlersOK' /\ OnlyEvent(j) /\ at'[j] = "read" /\ fate'[j] = "open"
    BY <1>3, <1>a, <1>b, MoveKeeps, SearchTypes
  <2>2. sjob'[j] = "processing" /\ InHand(j)'
    BY <1>3, <2>1, SearchTypes DEF SearchRowsOK, InHand
  <2>3. SearchJobUnfailing(j)'
    BY <2>1, <2>2 DEF SearchJobUnfailing, Attended
  <2>4. /\ at'[j] \in IF j \in IndexJob THEN IndexPlace ELSE EmbedPlace
        /\ Indexing(j)' /\ at[j] # "ask" /\ Embedding(j)' /\ "processing" \in SearchJobStatus
    BY <1>b, <2>1 DEF IndexPlace, EmbedPlace, Indexing, Embedding, SearchJobStatus
  <2> QED
    BY <1>3, <1>a, <1>b, <2>1, <2>3, <2>4, SearchQuiet
<1>4. CASE Answer(j, FALSE) /\ Fault /\ (UNCHANGED sjob \/ sjob' = [sjob EXCEPT ![j] = "processing"])
  <2>1. PICK s \in SearchJobStatus : sjob' = [sjob EXCEPT ![j] = s] /\ s \notin {"absent", "asking"}
    BY <1>b, <1>4, SjobKept DEF SearchJobStatus
  <2>2. faults' # 0
    BY <1>4, <1>a, FaultsGrow, SearchTypes
  <2>3. /\ at'[j] \in IF j \in IndexJob THEN IndexPlace ELSE EmbedPlace
        /\ at'[j] \notin {"write", "drop", "upsert"} /\ ~InHand(j)'
    BY <1>1, <1>4 DEF IndexPlace, EmbedPlace, InHand
  <2> QED
    BY <1>1, <1>4, <1>a, <2>1, <2>2, <2>3, SearchFaulty
<1> QED
  BY <1>2, <1>3, <1>4 DEF BeginSearch, BeginSearchError

(* A handler that returns, having set its job to s.                        *)
LEMMA SearchReturns ==
  ASSUME SearchInv, NEW j \in SearchJob, InHand(j), AnyFault, NEW nil \in BOOLEAN, Return(j, nil),
         UNCHANGED <<row, index, seen, ordinal, rebuilds>>,
         NEW s \in {"processing", "failed", "done"}, sjob' = [sjob EXCEPT ![j] = s],
         faults' = 0 => /\ s = "done" \/ (s = "failed" /\ j \in EmbedJob /\ ~nil)
                        /\ ~Indexing(j) /\ at[j] # "ask" /\ (Embedding(j) => s = "failed")
  PROVE  SearchInv'
<1>1. /\ HandlersOK' /\ OnlyEvent(j) /\ at'[j] = "idle" /\ fate'[j] = "open" /\ ok'[j] = nil
      /\ tries'[j] = tries[j] + 1 /\ tries[j] < MaxAttempts
  BY ReturnKeeps, SearchTypes
<1>2. sjob'[j] = s /\ s \in SearchJobStatus
  BY SearchTypes DEF SearchRowsOK, SearchJobStatus
<1>3. SearchJobUnfailing(j)'
  <2>1. CASE faults' = 0 /\ s = "done"
    BY <1>1, <1>2, <2>1 DEF SearchJobUnfailing
  <2>2. CASE faults' = 0 /\ s = "failed" /\ j \in EmbedJob /\ ~nil
    <3>1. tries'[j] = MaxAttempts \/ tries'[j] < MaxAttempts
      <4>1. tries[j] \in Nat /\ MaxAttempts \in Nat
        BY SearchTypes, HandlerAssumption DEF HandlersOK
      <4> QED
        BY <1>1, <4>1
    <3>2. Deliverable(j)' \/ tries'[j] = MaxAttempts
      BY <1>1, <2>2, <3>1 DEF Deliverable
    <3> QED
      BY <1>1, <1>2, <2>2, <3>2 DEF SearchJobUnfailing, Attended
  <2> QED
    BY <2>1, <2>2 DEF SearchJobUnfailing
<1>4. /\ at'[j] \in IF j \in IndexJob THEN IndexPlace ELSE EmbedPlace
      /\ at'[j] \notin {"write", "drop", "upsert"} /\ ~InHand(j)'
  BY <1>1 DEF IndexPlace, EmbedPlace, InHand
<1>5. rebuilds' \subseteq IndexJob
  BY SearchTypes DEF SearchRowsOK
<1>6. s = "failed" => Embedding(j)'
  BY <1>2 DEF Embedding
<1>7. fate'[j] = "absent" <=> s \in {"absent", "asking"}
  BY <1>1
<1> QED
  BY <1>1, <1>2, <1>3, <1>4, <1>5, <1>6, <1>7, SearchQuiet

LEMMA SearchFinishInv ==
  ASSUME SearchInv, NEW j \in SearchJob, CompleteIndexJob(j) \/ FailIndexJob(j) \/ ExpireSearch(j)
  PROVE  SearchInv'
<1>a. /\ UNCHANGED <<row, index, rebuilds, seen, ordinal>> /\ AnyFault /\ InHand(j)
  BY DEF CompleteIndexJob, FailIndexJob, ExpireSearch, AnyFault, InHand, searchVars
<1>b. /\ SearchJobOK(j) /\ SearchJobUnfailing(j) /\ sjob[j] = "processing" /\ j \in Job
      /\ sjob' = sjob => sjob' = [sjob EXCEPT ![j] = "processing"]
  BY <1>a, SearchTypes DEF SearchJobOK, SearchRowsOK
<1>c. faults' = 0 => faults = 0 /\ ~Fault
  BY <1>a, FaultsGrow, SearchTypes
<1>1. CASE Fault /\ \E nil \in BOOLEAN : Return(j, nil) /\
              \E s \in {"processing", "failed", "done"} : sjob' = [sjob EXCEPT ![j] = s]
  <2>1. PICK nil \in BOOLEAN, s \in {"processing", "failed", "done"} :
           Return(j, nil) /\ sjob' = [sjob EXCEPT ![j] = s]
    BY <1>1
  <2> QED
    BY <1>1, <1>a, <1>c, <2>1, SearchReturns
<1>2. CASE /\ at[j] \in {"complete", "flawed"} /\ Return(j, TRUE)
           /\ sjob' = [sjob EXCEPT ![j] = IF at[j] = "flawed" THEN "failed" ELSE "done"]
  <2>1. PICK s \in {"failed", "done"} : sjob' = [sjob EXCEPT ![j] = s] /\ (at[j] # "flawed" => s = "done")
    BY <1>2
  <2>2. faults' = 0 => at[j] # "flawed"
    BY <1>b, <1>c DEF SearchJobUnfailing
  <2>3. ~Indexing(j) /\ at[j] # "ask" /\ ~Embedding(j)
    BY <1>b, <1>2 DEF Indexing, Embedding
  <2> QED
    BY <1>2, <1>a, <2>1, <2>2, <2>3, SearchReturns
<1>3. CASE /\ at[j] = "fail" /\ sjob' = [sjob EXCEPT ![j] = "failed"]
           /\ Return(j, j \in rebuilds)
  <2>1. faults' = 0 => j \in EmbedJob
    BY <1>b, <1>c, <1>3, SearchTypes DEF SearchJobUnfailing
  <2>2. j \in EmbedJob => j \notin rebuilds
    BY SearchTypes DEF SearchRowsOK
  <2>3. ~Indexing(j) /\ at[j] # "ask"
    BY <1>b, <1>3 DEF Indexing
  <2> DEFINE nil == j \in rebuilds
  <2>4. nil \in BOOLEAN /\ (j \in EmbedJob => ~nil)
    BY <2>2
  <2>5. Return(j, nil)
    BY <1>3
  <2> HIDE DEF nil
  <2> QED
    BY <1>3, <1>a, <2>1, <2>3, <2>4, <2>5, SearchReturns
<1> QED
  <2>1. CASE ExpireSearch(j)
    <3>1. Fault /\ Return(j, FALSE) /\ sjob' = sjob
      BY <2>1 DEF ExpireSearch, searchVars
    <3> QED
      BY <1>1, <1>b, <3>1
  <2>2. CASE FailIndexJob(j)
    BY <1>1, <1>3, <1>b, <2>2 DEF FailIndexJob
  <2>3. CASE CompleteIndexJob(j)
    <3>1. CASE /\ sjob' = [sjob EXCEPT ![j] = IF at[j] = "flawed" THEN "failed" ELSE "done"]
               /\ Return(j, FALSE) /\ Fault
      <4>1. \E s \in {"processing", "failed", "done"} : sjob' = [sjob EXCEPT ![j] = s]
        BY <3>1
      <4> QED
        BY <1>1, <3>1, <4>1
    <3>2. CASE UNCHANGED sjob /\ Return(j, FALSE) /\ Fault
      BY <1>1, <1>b, <3>2
    <3> QED
      BY <1>2, <2>3, <3>1, <3>2 DEF CompleteIndexJob
  <2> QED
    BY <2>1, <2>2, <2>3

LEMMA SearchEventInv ==
  ASSUME SearchInv, NEW j \in SearchJob, OutboxStep(j), UNCHANGED searchVars PROVE SearchInv'
<1>a. UNCHANGED <<row, index, sjob, rebuilds, seen, ordinal>>
  BY DEF searchVars
<1>b. /\ SearchJobOK(j) /\ SearchJobUnfailing(j) /\ j \in Job /\ sjob[j] \in SearchJobStatus
      /\ sjob' = [sjob EXCEPT ![j] = sjob[j]] /\ rebuilds' \subseteq IndexJob
  BY <1>a, SearchTypes, SjobKept DEF SearchRowsOK
<1>1. CASE Crash(j) \/ LoseEvent(j)
  <2>1. HandlersOK' /\ OnlyEvent(j) /\ AnyFault /\ faults' > 0 /\ at'[j] = "lost" /\ fate'[j] = "open" /\ fate[j] = "open"
    BY <1>1, <1>b, LostKeeps, SearchTypes
  <2>2. faults' # 0
    BY <2>1, FaultsGrow, SearchTypes
  <2>3. /\ at'[j] \in IF j \in IndexJob THEN IndexPlace ELSE EmbedPlace
        /\ at'[j] \notin {"write", "drop", "upsert"} /\ ~InHand(j)'
    BY <2>1 DEF IndexPlace, EmbedPlace, InHand
  <2>4. sjob[j] \notin {"absent", "asking"}
    BY <1>b, <2>1 DEF SearchJobOK
  <2>5. fate'[j] = "absent" <=> sjob[j] \in {"absent", "asking"}
    BY <2>1, <2>4
  <2>6. j \in EmbedJob => sjob[j] # "asking"
    BY <2>4
  <2> QED
    BY <1>a, <1>b, <2>1, <2>2, <2>3, <2>5, <2>6, SearchFaulty
<1>2. CASE SettleEvent(j)
  <2>1. /\ HandlersOK' /\ OnlyEvent(j) /\ UNCHANGED <<tries, ok, at, faults>>
        /\ fate[j] = "open" /\ fate'[j] \in {"sent", "dead"} /\ at[j] = "idle"
        /\ ok[j] \/ tries[j] = MaxAttempts
    BY <1>2, <1>b, SettleKeeps, SearchTypes
  <2>2. AnyFault /\ ~InHand(j) /\ ~InHand(j)' /\ ~Attended(j)
    <3>1. AnyFault /\ ~InHand(j) /\ ~InHand(j)'
      BY <2>1 DEF AnyFault, Unfailing, InHand
    <3>2. ~Deliverable(j)
      <4>1. tries[j] \in Nat /\ MaxAttempts \in Nat
        BY <1>b, SearchTypes, HandlerAssumption DEF HandlersOK
      <4> QED
        BY <2>1, <4>1 DEF Deliverable
    <3> QED
      BY <3>1, <3>2 DEF Attended
  <2>3. SearchJobUnfailing(j)'
    BY <1>a, <1>b, <2>1, <2>2 DEF SearchJobUnfailing
  <2>4. sjob[j] \notin {"absent", "asking"}
    BY <1>b, <2>1 DEF SearchJobOK
  <2>5. /\ at'[j] \in IF j \in IndexJob THEN IndexPlace ELSE EmbedPlace
        /\ at'[j] \notin {"write", "drop", "upsert"}
    BY <2>1 DEF IndexPlace, EmbedPlace
  <2>6. (Indexing(j) => Indexing(j)') /\ at[j] # "ask"
    BY <1>a, <2>1 DEF Indexing
  <2>7. Embedding(j) => Embedding(j)'
    BY <1>a, <2>1 DEF Embedding
  <2>8. fate'[j] = "absent" <=> sjob[j] \in {"absent", "asking"}
    BY <2>1, <2>4
  <2>9. j \in EmbedJob => sjob[j] # "asking"
    BY <2>4
  <2> QED
    BY <1>a, <1>b, <2>1, <2>2, <2>3, <2>5, <2>6, <2>7, <2>8, <2>9, SearchQuiet
<1> QED
  BY <1>1, <1>2 DEF OutboxStep

-----------------------------------------------------------------------------
(* The handlers.                                                           *)

(* A handler that goes on to a place where it does not write.              *)
LEMMA SearchGoes ==
  ASSUME SearchInv, NEW j \in SearchJob, InHand(j), AnyFault, NEW p, Goto(j, p),
         p \in {"ask", "complete", "flawed", "fail"},
         p \in IF j \in IndexJob THEN IndexPlace ELSE EmbedPlace,
         UNCHANGED <<row, index, seen, ordinal, sjob, rebuilds>>,
         faults' = 0 => /\ p # "flawed" /\ (j \in IndexJob => p # "fail" /\ ~Indexing(j) /\ at[j] # "ask")
                        /\ j \in EmbedJob /\ doc.rev # Undocumented /\ Embedding(j) => p = "fail"
  PROVE  SearchInv'
<1>1. /\ HandlersOK' /\ OnlyEvent(j) /\ at'[j] = p /\ fate'[j] = fate[j] /\ fate[j] = "open"
  BY MoveKeeps, SearchTypes
<1>2. SearchJobOK(j) /\ SearchJobUnfailing(j) /\ sjob[j] = "processing" /\ InHand(j)'
  BY <1>1, SearchTypes DEF SearchJobOK, InHand
<1>3. sjob' = [sjob EXCEPT ![j] = "processing"] /\ "processing" \in SearchJobStatus /\ rebuilds' \subseteq IndexJob
  BY <1>2, SjobKept, SearchTypes DEF SearchRowsOK
<1>4. SearchJobUnfailing(j)'
  BY <1>1, <1>2, <1>3 DEF SearchJobUnfailing, Attended
<1>5. p = "fail" => Embedding(j)'
  BY <1>1 DEF Embedding
<1>6. /\ at'[j] \in IF j \in IndexJob THEN IndexPlace ELSE EmbedPlace
      /\ at'[j] \notin {"write", "drop", "upsert"} /\ fate'[j] # "absent"
  BY <1>1
<1> QED
  BY <1>1, <1>2, <1>3, <1>4, <1>5, <1>6, SearchQuiet

(* One that has read what it is to write.                                  *)
LEMMA SearchReads ==
  ASSUME SearchInv, NEW j \in SearchJob, at[j] = "read", AnyFault, NEW p, Goto(j, p),
         IF j \in IndexJob THEN p = "write" ELSE p = "drop" /\ doc.rev # Undocumented,
         NEW s \in [rev : 0..row.rev, active : BOOLEAN, id : 0..doc.id], seen' = [seen EXCEPT ![j] = s],
         j \in IndexJob => s.rev = row.rev /\ s.active = row.active,
         j \in EmbedJob => s.rev = doc.rev /\ s.id = doc.id,
         UNCHANGED <<row, index, ordinal, sjob, rebuilds>>
  PROVE  SearchInv'
<1>a. UNCHANGED <<row, doc, chunks, newest, overtaken>>
  BY DEF index
<1>b. p \notin {"idle", "lost"} /\ InHand(j)
  BY DEF InHand
<1>1. /\ HandlersOK' /\ OnlyEvent(j) /\ at'[j] = p /\ fate'[j] = fate[j] /\ fate[j] = "open" /\ InHand(j)'
  BY <1>b, MoveKeeps, SearchTypes DEF InHand
<1>2. SearchJobOK(j) /\ SearchJobUnfailing(j) /\ sjob[j] = "processing"
  BY <1>b, SearchTypes DEF SearchJobOK
<1>3. /\ seen' \in [SearchJob -> [rev : 0..row.rev, active : BOOLEAN, id : 0..doc.id]] /\ seen'[j] = s
      /\ \A k \in SearchJob \ {j} : seen'[k] = seen[k]
  BY SearchTypes DEF SearchRowsOK
<1>4. SearchRowsOK'
  BY <1>a, <1>3, SearchTypes DEF SearchRowsOK
<1>5. SearchJobOK(j)'
  <2>1. j \in IndexJob \/ j \in EmbedJob
    BY SearchTypes
  <2>2. CASE j \in IndexJob
    BY <1>a, <1>1, <1>2, <1>3, <2>2, SearchTypes DEF SearchJobOK, IndexPlace, SearchRowsOK
  <2>3. CASE j \in EmbedJob /\ j \notin IndexJob
    <3>1. seen'[j].rev > 0 /\ seen'[j].rev <= newest.doc
      BY <1>3, <2>3, SearchTypes DEF Undocumented
    <3> QED
      BY <1>a, <1>1, <1>2, <1>3, <2>3, <3>1 DEF SearchJobOK, EmbedPlace
  <2> QED
    BY <2>1, <2>2, <2>3, SearchTypes
<1>6. SearchJobUnfailing(j)'
  BY <1>1, <1>2 DEF SearchJobUnfailing, Attended
<1>7. /\ at'[j] = "write" => seen'[j].rev = row.rev /\ seen'[j].active = row.active
      /\ at'[j] \in {"drop", "upsert"} => doc.rev # Undocumented /\ seen'[j].rev = doc.rev /\ seen'[j].id = doc.id
  BY <1>1, <1>3, SearchTypes
<1>8. /\ j \in IndexJob => Indexing(j)' /\ at[j] # "ask"
      /\ j \in EmbedJob => Embedding(j)'
  BY <1>a, <1>1, <1>3, SearchTypes DEF Indexing, Embedding
<1> QED
  BY <1>1, <1>3, <1>4, <1>5, <1>6, <1>7, <1>8, OneSearchKeeps

LEMMA ReadRowInv ==
  ASSUME SearchInv, NEW j \in IndexJob, ReadRow(j) PROVE SearchInv'
<1>a. /\ UNCHANGED <<row, index, sjob, rebuilds, ordinal>> /\ AnyFault /\ at[j] = "read" /\ InHand(j)
      /\ j \in SearchJob /\ j \notin EmbedJob
  BY SearchTypes DEF ReadRow, AnyFault, InHand
<1>1. CASE /\ seen' = [seen EXCEPT ![j] = [@ EXCEPT !.rev = row.rev, !.active = row.active]]
           /\ Goto(j, "write")
  <2> DEFINE s == [seen[j] EXCEPT !.rev = row.rev, !.active = row.active]
  <2>1. seen[j] \in [rev : 0..row.rev, active : BOOLEAN, id : 0..doc.id]
        /\ row.rev \in 0..row.rev /\ row.active \in BOOLEAN
    BY <1>a, SearchTypes DEF SearchRowsOK
  <2>2. s \in [rev : 0..row.rev, active : BOOLEAN, id : 0..doc.id]
    BY <2>1
  <2>3. s.rev = row.rev
    BY <2>1
  <2>4. s.active = row.active
    BY <2>1
  <2>5. seen' = [seen EXCEPT ![j] = s]
    BY <1>1
  <2> HIDE DEF s
  <2> QED
    BY <1>1, <1>a, <2>2, <2>3, <2>4, <2>5, SearchReads
<1>2. CASE UNCHANGED seen /\ Goto(j, "fail") /\ Fault
  <2>1. faults' # 0 /\ "fail" \in IndexPlace
    BY <1>2, <1>a, FaultsGrow, SearchTypes DEF IndexPlace
  <2> QED
    BY <1>2, <1>a, <2>1, SearchGoes
<1> QED
  BY <1>1, <1>2 DEF ReadRow

LEMMA ReadDocumentInv ==
  ASSUME SearchInv, NEW x \in EmbedJob, ReadDocument(x) PROVE SearchInv'
<1>a. /\ UNCHANGED <<row, index, sjob, rebuilds, ordinal>> /\ AnyFault /\ at[x] = "read" /\ InHand(x)
      /\ x \in SearchJob /\ x \notin IndexJob
  BY SearchTypes DEF ReadDocument, AnyFault, InHand, Unfailing
<1>1. CASE /\ doc.rev # Undocumented /\ Goto(x, "drop")
           /\ seen' = [seen EXCEPT ![x] = [rev |-> doc.rev, active |-> TRUE, id |-> doc.id]]
  <2> DEFINE s == [rev |-> doc.rev, active |-> TRUE, id |-> doc.id]
  <2>1. doc.rev \in 0..row.rev /\ doc.id \in 0..doc.id
    BY SearchTypes
  <2>2. s \in [rev : 0..row.rev, active : BOOLEAN, id : 0..doc.id] /\ s.rev = doc.rev /\ s.id = doc.id
    BY <2>1
  <2>3. seen' = [seen EXCEPT ![x] = s]
    BY <1>1
  <2> HIDE DEF s
  <2> QED
    BY <1>1, <1>a, <2>2, <2>3, SearchReads
<1>2. CASE doc.rev = Undocumented /\ UNCHANGED seen /\ Goto(x, "complete")
  <2>1. "complete" \in EmbedPlace
    BY DEF EmbedPlace
  <2> QED
    BY <1>2, <1>a, <2>1, SearchGoes
<1>3. CASE UNCHANGED seen /\ Goto(x, "fail") /\ Fault
  <2>1. faults' # 0 /\ "fail" \in EmbedPlace
    BY <1>3, <1>a, FaultsGrow, SearchTypes DEF EmbedPlace
  <2> QED
    BY <1>3, <1>a, <2>1, SearchGoes
<1> QED
  BY <1>1, <1>2, <1>3 DEF ReadDocument

LEMMA RequestEmbeddingInv ==
  ASSUME SearchInv, NEW j \in IndexJob, RequestEmbedding(j) PROVE SearchInv'
<1>a. /\ UNCHANGED <<row, index, rebuilds, seen, ordinal>> /\ AnyFault /\ at[j] = "ask" /\ InHand(j)
      /\ j \in SearchJob /\ j \notin EmbedJob /\ at' = [at EXCEPT ![j] = "complete"]
  BY SearchTypes DEF RequestEmbedding, AnyFault, InHand
<1>b. UNCHANGED <<row, doc, chunks, newest, overtaken>>
  BY <1>a DEF index
<1>1. CASE UNCHANGED <<sjob, eventVars>> /\ Fault
  <2>1. faults' # 0 /\ "complete" \in IndexPlace /\ Goto(j, "complete")
    BY <1>1, <1>a, FaultsGrow, SearchTypes DEF IndexPlace, Goto
  <2> QED
    BY <1>1, <1>a, <2>1, SearchGoes
<1>2. ASSUME NEW x \in EmbedJob, sjob[x] = "absent", sjob' = [sjob EXCEPT ![x] = "queued"],
             Queue!Publish(x), Unfailing
      PROVE  SearchInv'
  <2>1. x \in SearchJob /\ x \in Job /\ j \in Job /\ x \notin IndexJob /\ EventOK(x) /\ SearchJobOK(x) /\ SearchJobOK(j)
    BY <1>a, SearchTypes
  <2>2. /\ HandlersOK' /\ j # x
        /\ \A i \in Job \ {j, x} : /\ fate'[i] = fate[i] /\ tries'[i] = tries[i]
                                   /\ ok'[i] = ok[i] /\ at'[i] = at[i]
        /\ UNCHANGED <<tries, ok>>
        /\ at'[j] = "complete" /\ fate'[j] = fate[j] /\ fate[j] = "open" /\ fate[x] = "absent"
        /\ fate'[x] = "open" /\ at'[x] = "idle" /\ Deliverable(x)'
    BY <1>a, <1>2, <2>1, PublishKeeps, SearchTypes
  <2>3. at[x] = "idle"
    BY <2>1, <2>2 DEF EventOK
  <2>4. /\ sjob' \in [SearchJob -> SearchJobStatus] /\ sjob'[x] = "queued"
        /\ \A k \in SearchJob \ {x} : sjob'[k] = sjob[k]
    BY <1>2, <2>1, SearchTypes DEF SearchRowsOK, SearchJobStatus
  <2>5. SearchRowsOK'
    BY <1>a, <1>b, <2>4, SearchTypes DEF SearchRowsOK
  <2>6. ASSUME NEW k \in SearchJob PROVE SearchJobOK(k)' /\ SearchJobUnfailing(k)'
    <3>1. SearchJobOK(k) /\ SearchJobUnfailing(k) /\ k \in Job
      BY SearchTypes
    <3>2. CASE k = j
      BY <1>a, <1>b, <2>1, <2>2, <2>4, <3>1, <3>2 DEF SearchJobOK, SearchJobUnfailing, Attended, InHand, IndexPlace
    <3>3. CASE k = x
      BY <1>a, <1>b, <2>1, <2>2, <2>3, <2>4, <3>1, <3>3 DEF SearchJobOK, SearchJobUnfailing, Attended, InHand
    <3>4. CASE k \notin {j, x}
      <4>1. faults' = faults
        BY <1>2 DEF Unfailing
      <4> QED
        BY <1>a, <1>b, <2>2, <2>4, <3>1, <3>4, <4>1
        DEF SearchJobOK, SearchJobUnfailing, Attended, Deliverable, InHand
    <3> QED
      BY <3>2, <3>3, <3>4
  <2>7. InOrder'
    <3>1. \A k \in SearchJob : at'[k] \in {"write", "drop", "upsert"} => at[k] = at'[k]
      BY <2>2, SearchTypes
    <3> QED
      BY <1>a, <1>b, <3>1, SearchTypes DEF InOrder, DocOK, SeenOK, SameSeen
  <2>8. IndexDue'
    <3>1. ASSUME NEW k \in IndexJob, Indexing(k) PROVE Indexing(k)'
      <4>1. sjob[j] = "processing"
        BY <1>a, <2>1 DEF SearchJobOK
      <4>2. k # j /\ k # x /\ k \in SearchJob
        BY <1>a, <2>1, <3>1, <4>1, SearchTypes DEF Indexing
      <4> QED
        BY <1>a, <1>b, <2>2, <2>4, <3>1, <4>2, SearchTypes DEF Indexing
    <3>2. faults' = 0 => faults = 0
      BY <1>a, FaultsGrow, SearchTypes
    <3> QED
      BY <1>b, <3>1, <3>2, SearchTypes DEF IndexDue
  <2>9. EmbedDue'
    BY <2>4 DEF EmbedDue, Embedding
  <2> QED
    BY <2>2, <2>5, <2>6, <2>7, <2>8, <2>9 DEF SearchInv
<1> QED
  BY <1>1, <1>2 DEF RequestEmbedding

(* What a write notes.                                                     *)
LEMMA NoteShows ==
  ASSUME SearchInv, NEW j \in SearchJob, NEW store \in {"doc", "emb"}, Note(store, j)
  PROVE  /\ newest' \in [doc : 0..row.rev, emb : 0..row.rev] /\ overtaken' \in BOOLEAN
         /\ newest'.doc = IF store = "doc" /\ seen[j].rev > newest.doc THEN seen[j].rev ELSE newest.doc
         /\ newest'.emb = IF store = "emb" /\ seen[j].rev > newest.emb THEN seen[j].rev ELSE newest.emb
         /\ ~overtaken' => /\ ~overtaken
                           /\ store = "doc" => seen[j].rev >= newest.doc
                           /\ store = "emb" => seen[j].rev >= newest.emb
<1>1. /\ newest \in [doc : 0..row.rev, emb : 0..row.rev] /\ seen[j].rev \in 0..row.rev
  BY SearchTypes DEF SearchRowsOK
<1>2. CASE store = "doc"
  <2>1. newest' = [newest EXCEPT !["doc"] = IF seen[j].rev > newest.doc THEN seen[j].rev ELSE newest.doc]
    BY <1>2 DEF Note
  <2>2. overtaken' = (overtaken \/ seen[j].rev < newest.doc)
    BY <1>2 DEF Note
  <2>3. overtaken' \in BOOLEAN
    BY <2>2
  <2>4. ~overtaken' => ~overtaken /\ ~(seen[j].rev < newest.doc)
    BY <2>2, Zenon
  <2>5. ~(seen[j].rev < newest.doc) => seen[j].rev >= newest.doc
    BY SearchTypes
  <2>6. /\ newest' \in [doc : 0..row.rev, emb : 0..row.rev] /\ newest'.emb = newest.emb
        /\ newest'.doc = IF seen[j].rev > newest.doc THEN seen[j].rev ELSE newest.doc
    BY <1>1, <2>1
  <2> QED
    BY <1>2, <2>3, <2>4, <2>5, <2>6
<1>3. CASE store = "emb"
  <2>1. newest' = [newest EXCEPT !["emb"] = IF seen[j].rev > newest.emb THEN seen[j].rev ELSE newest.emb]
    BY <1>3 DEF Note
  <2>2. overtaken' = (overtaken \/ seen[j].rev < newest.emb)
    BY <1>3 DEF Note
  <2>3. overtaken' \in BOOLEAN
    BY <2>2
  <2>4. ~overtaken' => ~overtaken /\ ~(seen[j].rev < newest.emb)
    BY <2>2, Zenon
  <2>5. ~(seen[j].rev < newest.emb) => seen[j].rev >= newest.emb
    BY SearchTypes
  <2>6. /\ newest' \in [doc : 0..row.rev, emb : 0..row.rev] /\ newest'.doc = newest.doc
        /\ newest'.emb = IF seen[j].rev > newest.emb THEN seen[j].rev ELSE newest.emb
    BY <1>1, <2>1
  <2> QED
    BY <1>3, <2>3, <2>4, <2>5, <2>6
<1> QED
  BY <1>2, <1>3

(* A document is written, or deleted with its chunks.                      *)
LEMMA DocumentWritten ==
  ASSUME SearchInv, NEW j \in IndexJob, at[j] = "write", AnyFault, Note("doc", j),
         UNCHANGED <<row, sjob, rebuilds, seen, ordinal>>,
         NEW p \in {"ask", "complete", "flawed"}, Goto(j, p),
         faults' = 0 => p = IF seen[j].active THEN "ask" ELSE "complete",
         IF seen[j].active THEN UpsertDocument(j) /\ chunks' = chunks
                           ELSE doc' = [doc EXCEPT !.rev = Undocumented] /\ chunks' = {}
  PROVE  SearchInv'
<1>a. /\ j \in SearchJob /\ j \in Job /\ j \notin EmbedJob /\ SearchJobOK(j) /\ InHand(j)
      /\ seen[j].rev \in Nat /\ seen[j].rev <= row.rev /\ (seen[j].active => seen[j].rev > 0)
  BY SearchTypes DEF SearchJobOK, InHand
<1>b. /\ HandlersOK' /\ OnlyEvent(j) /\ at'[j] = p /\ fate'[j] = fate[j] /\ fate[j] = "open" /\ InHand(j)'
  BY <1>a, MoveKeeps, SearchTypes DEF InHand
<1>c. /\ newest' \in [doc : 0..row.rev, emb : 0..row.rev] /\ overtaken' \in BOOLEAN
      /\ newest'.doc = (IF seen[j].rev > newest.doc THEN seen[j].rev ELSE newest.doc)
      /\ newest'.emb = newest.emb
      /\ ~overtaken' => ~overtaken /\ seen[j].rev >= newest.doc
  BY <1>a, NoteShows
<1>d. /\ doc' \in [id : Nat, rev : 0..row.rev] /\ doc'.id >= doc.id
      /\ doc'.rev = (IF seen[j].active THEN seen[j].rev ELSE Undocumented)
      /\ doc.rev # Undocumented \/ ~seen[j].active => doc'.id = doc.id
      /\ doc'.rev = Undocumented => chunks' = {}
      /\ chunks' = chunks \/ chunks' = {}
  <2>1. doc \in [id : Nat, rev : 0..row.rev]
    BY SearchTypes DEF SearchRowsOK
  <2>2. CASE seen[j].active
    BY <1>a, <2>1, <2>2, SearchTypes DEF UpsertDocument, Undocumented
  <2>3. CASE ~seen[j].active
    BY <1>a, <2>1, <2>3, SearchTypes DEF Undocumented
  <2> QED
    BY <2>2, <2>3
<1>e. faults' = 0 => faults = 0
  BY FaultsGrow, SearchTypes
<1>f. \A k \in SearchJob \ {j} : at'[k] = at[k] /\ fate'[k] = fate[k] /\ tries'[k] = tries[k] /\ ok'[k] = ok[k]
  BY <1>b, SearchTypes DEF OnlyEvent
<1>g. newest'.doc \in Nat /\ newest'.doc >= newest.doc /\ newest'.doc >= seen[j].rev /\ newest'.doc <= row.rev
  BY <1>a, <1>c, SearchTypes
<1>1. SearchRowsOK'
  <2>1. seen \in [SearchJob -> [rev : 0..row.rev, active : BOOLEAN, id : 0..doc'.id]]
    <3>1. 0..doc.id \subseteq 0..doc'.id
      BY <1>d, SearchTypes
    <3>2. [rev : 0..row.rev, active : BOOLEAN, id : 0..doc.id]
              \subseteq [rev : 0..row.rev, active : BOOLEAN, id : 0..doc'.id]
      BY <3>1
    <3> QED
      BY <3>2, SearchTypes DEF SearchRowsOK
  <2>2. newest'.emb <= newest'.doc /\ doc'.rev <= newest'.doc
    BY <1>a, <1>c, <1>d, <1>g, SearchTypes DEF Undocumented
  <2>3. chunks' \subseteq (1..Chunks) \X (1..row.rev)
    BY <1>d, SearchTypes DEF SearchRowsOK
  <2> QED
    BY <1>c, <1>d, <2>1, <2>2, <2>3, SearchTypes DEF SearchRowsOK
<1>2. ASSUME NEW k \in SearchJob PROVE SearchJobOK(k)' /\ SearchJobUnfailing(k)'
  <2>1. SearchJobOK(k) /\ SearchJobUnfailing(k) /\ seen[k].rev \in Nat
    BY SearchTypes
  <2>2. CASE k = j
    BY <1>a, <1>b, <2>1, <2>2 DEF SearchJobOK, SearchJobUnfailing, Attended, InHand, IndexPlace
  <2>3. CASE k # j
    <3>1. seen[k].rev <= newest.doc => seen[k].rev <= newest'.doc
      BY <1>g, <2>1, SearchTypes
    <3>2. SearchJobOK(k)'
      BY <1>c, <1>f, <2>1, <2>3, <3>1 DEF SearchJobOK, InHand
    <3>3. SearchJobUnfailing(k)'
      BY <1>e, <1>f, <2>1, <2>3 DEF SearchJobUnfailing, Attended, Deliverable, InHand
    <3> QED
      BY <3>2, <3>3
  <2> QED
    BY <2>2, <2>3
<1>3. InOrder'
  <2> SUFFICES ASSUME ~overtaken'
               PROVE  /\ DocOK' /\ (\A k \in SearchJob : SeenOK(k)')
                      /\ \A i, k \in IndexJob : SameSeen(i, k)'
    BY DEF InOrder
  <2>1. DocOK /\ (\A k \in SearchJob : SeenOK(k)) /\ (\A i, k \in IndexJob : SameSeen(i, k))
    BY <1>c, SearchTypes DEF InOrder
  <2>2. newest'.doc = seen[j].rev
    BY <1>a, <1>c, SearchTypes
  <2>3. doc'.rev # Undocumented <=> seen[j].active
    BY <1>a, <1>d DEF Undocumented
  <2>4. seen[j].rev = newest.doc => doc'.rev = doc.rev /\ doc'.id = doc.id /\ chunks' = chunks
    <3>1. CASE seen[j].rev = newest.doc /\ seen[j].active
      BY <1>d, <2>1, <3>1, <1>a DEF SeenOK, DocOK
    <3>2. CASE seen[j].rev = newest.doc /\ ~seen[j].active
      BY <1>d, <2>1, <3>2, <1>a, SearchTypes DEF SeenOK, SearchRowsOK
    <3> QED
      BY <3>1, <3>2
  <2>5. DocOK'
    <3>1. doc'.rev \in {Undocumented, newest'.doc}
      BY <1>d, <2>2
    <3>2. newest'.doc = row.rev => (row.active <=> doc'.rev # Undocumented)
      BY <1>a, <2>2, <2>3 DEF SearchJobOK
    <3>3. newest'.emb = doc'.rev => chunks' \subseteq (1..Chunks) \X {doc'.rev}
      <4>1. CASE seen[j].rev = newest.doc
        BY <1>c, <2>1, <2>4, <4>1 DEF DocOK
      <4>2. CASE seen[j].rev # newest.doc
        <5>1. newest.emb # seen[j].rev
          BY <1>a, <1>c, <4>2, SearchTypes
        <5> QED
          BY <1>c, <1>d, <5>1
      <4> QED
        BY <4>1, <4>2
    <3> QED
      BY <3>1, <3>2, <3>3 DEF DocOK
  <2>6. ASSUME NEW k \in SearchJob PROVE SeenOK(k)'
    <3>1. CASE k = j
      BY <1>b, <3>1 DEF SeenOK
    <3>2. CASE k # j /\ at[k] = "write"
      <4>1. k \in IndexJob
        BY <3>2, SearchTypes DEF SearchJobOK, EmbedPlace
      <4>2. seen[k].rev = seen[j].rev => seen[k].active = seen[j].active
        BY <2>1, <3>2, <4>1 DEF SameSeen
      <4> QED
        BY <1>f, <2>2, <2>3, <3>2, <4>2 DEF SeenOK
    <3>3. CASE k # j /\ at[k] \in {"drop", "upsert"}
      <4>1. seen[k].rev <= newest.doc /\ seen[k].rev \in Nat
        BY <3>3, SearchTypes DEF SearchJobOK
      <4>2. CASE seen[j].rev = newest.doc
        BY <1>f, <2>1, <2>2, <2>4, <3>3, <4>2 DEF SeenOK
      <4>3. CASE seen[j].rev # newest.doc
        <5>1. seen[k].rev < newest'.doc
          BY <1>a, <1>c, <2>2, <4>1, <4>3, SearchTypes
        <5> QED
          BY <1>f, <3>3, <5>1 DEF SeenOK
      <4> QED
        BY <4>2, <4>3
    <3>4. CASE k # j /\ at[k] \notin {"write", "drop", "upsert"}
      BY <1>f, <3>4 DEF SeenOK
    <3> QED
      BY <3>1, <3>2, <3>3, <3>4
  <2>7. ASSUME NEW i \in IndexJob, NEW k \in IndexJob PROVE SameSeen(i, k)'
    <3>1. i \in SearchJob /\ k \in SearchJob
      BY SearchTypes
    <3>2. at'[i] = "write" => at[i] = "write"
      BY <1>b, <1>f, <3>1
    <3>3. at'[k] = "write" => at[k] = "write"
      BY <1>b, <1>f, <3>1
    <3> QED
      BY <2>1, <3>2, <3>3 DEF SameSeen
  <2> QED
    BY <2>5, <2>6, <2>7
<1>4. IndexDue'
  <2> SUFFICES ASSUME faults' = 0, newest'.doc # row.rev PROVE \E k \in IndexJob : Indexing(k)'
    BY DEF IndexDue
  <2>1. seen[j].rev # row.rev /\ newest.doc # row.rev
    BY <1>a, <1>c, <1>g, SearchTypes
  <2>2. PICK k \in IndexJob : Indexing(k)
    BY <1>e, <2>1, SearchTypes DEF IndexDue
  <2>3. sjob[j] = "processing"
    BY <1>a DEF SearchJobOK
  <2>4. k # j
    BY <2>1, <2>2, <2>3 DEF Indexing
  <2>5. Indexing(k)'
    BY <1>f, <2>2, <2>4, SearchTypes DEF Indexing
  <2> QED
    BY <2>5
<1>5. EmbedDue'
  <2>1. faults' = 0 /\ doc'.rev # Undocumented => at'[j] = "ask"
    BY <1>b, <1>d
  <2> QED
    BY <2>1 DEF EmbedDue
<1> QED
  BY <1>b, <1>1, <1>2, <1>3, <1>4, <1>5 DEF SearchInv

LEMMA WriteDocumentInv ==
  ASSUME SearchInv, NEW j \in IndexJob, WriteDocument(j) PROVE SearchInv'
<1>a. /\ UNCHANGED <<row, sjob, rebuilds, seen, ordinal>> /\ AnyFault /\ at[j] = "write" /\ InHand(j)
      /\ j \in SearchJob /\ j \notin EmbedJob
  BY SearchTypes DEF WriteDocument, AnyFault, InHand
<1>b. Fault => faults' # 0
  BY <1>a, FaultsGrow, SearchTypes
<1>1. CASE seen[j].active /\ UpsertDocument(j) /\ UNCHANGED chunks /\ Note("doc", j)
  <2>1. PICK p \in {"ask", "complete", "flawed"} : Goto(j, p) /\ (Fault \/ p = "ask")
    BY <1>1, <1>a DEF WriteDocument
  <2> QED
    BY <1>1, <1>a, <1>b, <2>1, DocumentWritten
<1>2. CASE /\ ~seen[j].active
           /\ doc' = [doc EXCEPT !.rev = Undocumented] /\ chunks' = {}
           /\ Goto(j, "complete") /\ Note("doc", j)
  BY <1>2, <1>a, DocumentWritten
<1>3. CASE Fault /\ UNCHANGED index /\ \E p \in {"complete", "flawed"} : Goto(j, p)
  <2>1. PICK p \in {"complete", "flawed"} : Goto(j, p)
    BY <1>3
  <2>2. {"complete", "flawed"} \subseteq IndexPlace
    BY DEF IndexPlace
  <2> QED
    BY <1>3, <1>a, <1>b, <2>1, <2>2, SearchGoes
<1> QED
  BY <1>1, <1>2, <1>3 DEF WriteDocument

(* A job that drops chunks, or adds one.                                   *)
LEMMA ChunksWritten ==
  ASSUME SearchInv, NEW x \in EmbedJob, at[x] \in {"drop", "upsert"}, AnyFault, Note("emb", x),
         UNCHANGED <<row, doc, sjob, rebuilds, seen>>,
         NEW p \in {"upsert", "complete", "fail"}, Goto(x, p), p = "fail" => faults' # 0,
         NEW c \in 0..Chunks, ordinal' = [ordinal EXCEPT ![x] = c], p = "upsert" => c < Chunks,
         chunks' \subseteq (1..Chunks) \X (1..row.rev), doc.rev = Undocumented => chunks' = {},
         ~overtaken /\ DocOK /\ SeenOK(x) /\ seen[x].rev >= newest.emb /\ seen[x].rev = doc.rev =>
             chunks' \subseteq (1..Chunks) \X {doc.rev},
         ~overtaken /\ DocOK /\ SeenOK(x) /\ seen[x].rev >= newest.emb /\ doc.rev # Undocumented
           /\ faults' = 0 /\ (Covered \/ (\E k \in IndexJob : at[k] = "ask") \/ (\E y \in EmbedJob : Embedding(y))) =>
             \/ Covered' \/ (\E k \in IndexJob : at[k] = "ask") \/ Embedding(x)'
             \/ \E y \in EmbedJob \ {x} :
                   Embedding(y) /\ (at[y] = "upsert" /\ sjob[y] \notin {"queued", "failed"} => chunks \subseteq chunks')
  PROVE  SearchInv'
<1>a. /\ x \in SearchJob /\ x \in Job /\ x \notin IndexJob /\ SearchJobOK(x) /\ InHand(x)
      /\ seen[x].rev \in Nat /\ seen[x].rev <= row.rev /\ seen[x].rev > 0 /\ seen[x].rev <= newest.doc
  BY SearchTypes DEF SearchJobOK, InHand
<1>b. /\ HandlersOK' /\ OnlyEvent(x) /\ at'[x] = p /\ fate'[x] = fate[x] /\ fate[x] = "open" /\ InHand(x)'
  BY <1>a, MoveKeeps, SearchTypes DEF InHand
<1>c. /\ newest' \in [doc : 0..row.rev, emb : 0..row.rev] /\ overtaken' \in BOOLEAN
      /\ newest'.emb = (IF seen[x].rev > newest.emb THEN seen[x].rev ELSE newest.emb)
      /\ newest'.doc = newest.doc
      /\ ~overtaken' => ~overtaken /\ seen[x].rev >= newest.emb
  BY <1>a, NoteShows
<1>d. /\ ordinal' \in [EmbedJob -> 0..Chunks] /\ ordinal'[x] = c
      /\ \A y \in EmbedJob \ {x} : ordinal'[y] = ordinal[y]
  BY SearchTypes DEF SearchRowsOK
<1>e. faults' = 0 => faults = 0
  BY FaultsGrow, SearchTypes
<1>f. \A k \in SearchJob \ {x} : at'[k] = at[k] /\ fate'[k] = fate[k] /\ tries'[k] = tries[k] /\ ok'[k] = ok[k]
  BY <1>b, SearchTypes DEF OnlyEvent
<1>g. newest'.emb \in Nat /\ newest'.emb >= newest.emb /\ newest'.emb >= seen[x].rev /\ newest'.emb <= newest.doc
  BY <1>a, <1>c, SearchTypes
<1>1. SearchRowsOK'
  BY <1>c, <1>d, <1>g, SearchTypes DEF SearchRowsOK
<1>2. ASSUME NEW k \in SearchJob PROVE SearchJobOK(k)' /\ SearchJobUnfailing(k)'
  <2>1. SearchJobOK(k) /\ SearchJobUnfailing(k) /\ seen[k].rev \in Nat
    BY SearchTypes
  <2>2. CASE k = x
    <3>1. SearchJobOK(x)'
      BY <1>a, <1>b, <1>c, <1>d, <1>g DEF SearchJobOK, InHand, EmbedPlace
    <3>2. SearchJobUnfailing(x)'
      BY <1>a, <1>b, <1>e, <2>1, <2>2 DEF SearchJobOK, SearchJobUnfailing, Attended, InHand
    <3> QED
      BY <2>2, <3>1, <3>2
  <2>3. CASE k # x
    <3>1. seen[k].rev <= newest.emb => seen[k].rev <= newest'.emb
      BY <1>g, <2>1, SearchTypes
    <3>2. at[k] = "upsert" => k \in EmbedJob
      BY <2>1, SearchTypes DEF SearchJobOK, IndexPlace
    <3>3. SearchJobOK(k)'
      BY <1>c, <1>d, <1>f, <2>1, <2>3, <3>1, <3>2 DEF SearchJobOK, InHand
    <3>4. SearchJobUnfailing(k)'
      BY <1>e, <1>f, <2>1, <2>3 DEF SearchJobUnfailing, Attended, Deliverable, InHand
    <3> QED
      BY <3>3, <3>4
  <2> QED
    BY <2>2, <2>3
<1>3. InOrder'
  <2> SUFFICES ASSUME ~overtaken'
               PROVE  /\ DocOK' /\ (\A k \in SearchJob : SeenOK(k)')
                      /\ \A i, k \in IndexJob : SameSeen(i, k)'
    BY DEF InOrder
  <2>1. DocOK /\ (\A k \in SearchJob : SeenOK(k)) /\ (\A i, k \in IndexJob : SameSeen(i, k))
    BY <1>c, SearchTypes DEF InOrder
  <2>2. newest'.emb = seen[x].rev /\ seen[x].rev >= newest.emb /\ ~overtaken
    BY <1>a, <1>c, SearchTypes
  <2>3. DocOK'
    BY <1>a, <1>c, <2>1, <2>2 DEF DocOK
  <2>4. \A k \in SearchJob : at'[k] \in {"write", "drop", "upsert"} => k = x \/ at[k] = at'[k]
    BY <1>f
  <2>5. ASSUME NEW k \in SearchJob PROVE SeenOK(k)'
    <3>1. CASE k = x
      BY <1>a, <1>b, <1>c, <2>1, <3>1 DEF SeenOK
    <3>2. CASE k # x
      BY <1>c, <1>f, <2>1, <3>2 DEF SeenOK
    <3> QED
      BY <3>1, <3>2
  <2>6. \A i, k \in IndexJob : SameSeen(i, k)'
    BY <1>a, <1>f, <2>1, SearchTypes DEF SameSeen
  <2> QED
    BY <2>3, <2>5, <2>6
<1>4. IndexDue'
  <2>1. \A k \in IndexJob : Indexing(k) => Indexing(k)'
    BY <1>a, <1>f, SearchTypes DEF Indexing
  <2> QED
    BY <1>c, <1>e, <2>1, SearchTypes DEF IndexDue
<1>5. EmbedDue'
  <2> SUFFICES ASSUME faults' = 0, ~overtaken', doc.rev # Undocumented
               PROVE  Covered' \/ (\E k \in IndexJob : at'[k] = "ask") \/ (\E y \in EmbedJob : Embedding(y)')
    BY DEF EmbedDue
  <2>1. DocOK /\ SeenOK(x) /\ ~overtaken /\ seen[x].rev >= newest.emb
    BY <1>a, <1>c, SearchTypes DEF InOrder
  <2>2. Covered \/ (\E k \in IndexJob : at[k] = "ask") \/ (\E y \in EmbedJob : Embedding(y))
    BY <1>e, <2>1, SearchTypes DEF EmbedDue
  <2>3. ASSUME NEW y \in EmbedJob \ {x}, Embedding(y),
               at[y] = "upsert" /\ sjob[y] \notin {"queued", "failed"} => chunks \subseteq chunks'
        PROVE  Embedding(y)'
    BY <1>d, <1>f, <2>3, SearchTypes DEF Embedding
  <2>4. \A k \in IndexJob : at[k] = "ask" => at'[k] = "ask"
    BY <1>a, <1>f, SearchTypes
  <2> QED
    BY <2>1, <2>2, <2>3, <2>4
<1> QED
  BY <1>b, <1>1, <1>2, <1>3, <1>4, <1>5 DEF SearchInv

LEMMA DropChunksInv ==
  ASSUME SearchInv, NEW x \in EmbedJob, DropChunks(x) PROVE SearchInv'
<1>a. /\ UNCHANGED <<row, doc, sjob, rebuilds, seen>> /\ AnyFault /\ at[x] = "drop" /\ InHand(x)
      /\ x \in SearchJob /\ x \notin IndexJob /\ ordinal' = [ordinal EXCEPT ![x] = 0]
  BY SearchTypes DEF DropChunks, AnyFault, InHand
<1>b. Fault => faults' # 0
  BY <1>a, FaultsGrow, SearchTypes
<1>c. /\ SearchJobOK(x) /\ sjob[x] = "processing" /\ seen[x].rev > 0 /\ seen[x].rev <= newest.doc
      /\ seen[x].rev \in Nat
  BY <1>a, SearchTypes DEF SearchJobOK
<1>d. /\ ordinal' \in [EmbedJob -> 0..Chunks] /\ ordinal'[x] = 0
      /\ \A y \in EmbedJob \ {x} : ordinal'[y] = ordinal[y]
  BY <1>a, SearchTypes DEF SearchRowsOK
<1>1. CASE chunks' = (IF Exists(x) THEN {} ELSE chunks) /\ Note("emb", x)
  <2>1. PICK p \in {"upsert", "fail"} : Goto(x, p) /\ (p = "fail" => faults' # 0)
    BY <1>1, <1>a, <1>b DEF DropChunks
  <2>2. chunks' \subseteq (1..Chunks) \X (1..row.rev) /\ (doc.rev = Undocumented => chunks' = {})
    BY <1>1, SearchTypes DEF SearchRowsOK
  <2>3. ASSUME DocOK, SeenOK(x), seen[x].rev = doc.rev PROVE chunks' = {}
    <3>1. doc.rev # Undocumented /\ doc.rev = newest.doc
      BY <1>c, <2>3 DEF DocOK, Undocumented
    <3>2. seen[x].id = doc.id
      BY <1>a, <1>c, <2>3, <3>1, SearchTypes DEF SeenOK
    <3> QED
      BY <1>1, <3>1, <3>2 DEF Exists
  <2>4. ASSUME seen[x].rev >= newest.emb, doc.rev # Undocumented, seen[x].rev # doc.rev, DocOK,
               Covered \/ (\E k \in IndexJob : at[k] = "ask") \/ (\E y \in EmbedJob : Embedding(y))
        PROVE  \/ \E k \in IndexJob : at[k] = "ask"
               \/ \E y \in EmbedJob \ {x} :
                     Embedding(y) /\ ~(at[y] = "upsert" /\ sjob[y] \notin {"queued", "failed"})
    <3>1. newest.emb < doc.rev
      BY <1>c, <2>4, SearchTypes DEF DocOK
    <3>2. ~Covered
      BY <3>1, SearchTypes DEF Covered
    <3>3. ~Embedding(x)
      BY <1>a, <1>c, <2>4 DEF Embedding
    <3>4. ASSUME NEW y \in EmbedJob, Embedding(y), at[y] = "upsert", sjob[y] \notin {"queued", "failed"} PROVE FALSE
      <4>1. seen[y].rev = doc.rev
        BY <3>4 DEF Embedding
      <4>2. seen[y].rev <= newest.emb
        BY <3>4, SearchTypes DEF SearchJobOK
      <4> QED
        BY <3>1, <4>1, <4>2, SearchTypes
    <3> QED
      BY <2>4, <3>2, <3>3, <3>4
  <2>5. ASSUME seen[x].rev = doc.rev, faults' = 0 PROVE Embedding(x)'
    <3>1. p = "upsert" /\ at'[x] = "upsert"
      BY <1>a, <2>1, <2>5, MoveKeeps, SearchTypes
    <3> QED
      BY <1>a, <1>d, <2>5, <3>1 DEF Embedding
  <2>6. 0 \in 0..Chunks /\ 0 < Chunks
    BY SearchTypes
  <2> QED
    BY <1>1, <1>a, <2>1, <2>2, <2>3, <2>4, <2>5, <2>6, ChunksWritten
<1>2. CASE UNCHANGED <<chunks, newest, overtaken>> /\ Goto(x, "fail") /\ Fault
  <2>1. HandlersOK' /\ OnlyEvent(x) /\ at'[x] = "fail" /\ fate'[x] = fate[x] /\ fate[x] = "open" /\ InHand(x)'
    BY <1>2, <1>a, MoveKeeps, SearchTypes DEF InHand
  <2>2. UNCHANGED index /\ UNCHANGED <<sjob, seen>>
    BY <1>2, <1>a DEF index
  <2>3. SearchRowsOK'
    BY <1>2, <1>a, <1>d, SearchTypes DEF SearchRowsOK
  <2>4. SearchJobOK(x)' /\ SearchJobUnfailing(x)'
    BY <1>a, <1>b, <1>c, <1>2, <2>1 DEF SearchJobOK, SearchJobUnfailing, EmbedPlace, InHand
  <2> QED
    BY <1>2, <1>a, <1>b, <1>d, <2>1, <2>2, <2>3, <2>4, OneSearchKeeps
<1> QED
  BY <1>1, <1>2 DEF DropChunks

LEMMA UpsertChunkInv ==
  ASSUME SearchInv, NEW x \in EmbedJob, UpsertChunk(x) PROVE SearchInv'
<1>a. /\ UNCHANGED <<row, doc, sjob, rebuilds, seen>> /\ AnyFault /\ at[x] = "upsert" /\ InHand(x)
      /\ x \in SearchJob /\ x \notin IndexJob
  BY SearchTypes DEF UpsertChunk, AnyFault, InHand, Unfailing
<1>b. Fault => faults' # 0
  BY <1>a, FaultsGrow, SearchTypes
<1>c. /\ SearchJobOK(x) /\ seen[x].rev > 0 /\ seen[x].rev <= newest.doc /\ sjob[x] = "processing"
      /\ seen[x].rev \in Nat /\ seen[x].rev <= row.rev /\ seen[x].rev <= newest.emb
      /\ ordinal[x] < Chunks /\ ordinal[x] \in Nat
  BY <1>a, SearchTypes DEF SearchJobOK, SearchRowsOK
<1>d. ordinal[x] + 1 \in 1..Chunks /\ ordinal[x] + 1 \in 0..Chunks
  BY <1>c, SearchTypes
<1>1. CASE /\ Exists(x) /\ chunks' = chunks \cup {<<ordinal[x] + 1, seen[x].rev>>}
           /\ ordinal' = [ordinal EXCEPT ![x] = ordinal[x] + 1] /\ Note("emb", x)
  <2>1. PICK p \in {"upsert", "complete", "fail"} :
           /\ Goto(x, p) /\ (p = "fail" => faults' # 0)
           /\ p = "upsert" => ordinal[x] + 1 # Chunks
           /\ p = "complete" => ordinal[x] + 1 = Chunks
    BY <1>1, <1>a, <1>b DEF UpsertChunk
  <2>2. chunks' \subseteq (1..Chunks) \X (1..row.rev)
    BY <1>1, <1>c, <1>d, SearchTypes DEF SearchRowsOK
  <2>3. doc.rev # Undocumented
    BY <1>1 DEF Exists
  <2>4. ASSUME DocOK, seen[x].rev >= newest.emb, seen[x].rev = doc.rev PROVE chunks' \subseteq (1..Chunks) \X {doc.rev}
    <3>1. newest.emb = doc.rev
      BY <1>c, <2>4, SearchTypes
    <3> QED
      BY <1>1, <1>d, <2>4, <3>1 DEF DocOK
  <2>5. newest'.emb = newest.emb
    <3>1. newest'.emb = IF seen[x].rev > newest.emb THEN seen[x].rev ELSE newest.emb
      BY <1>1, <1>a, NoteShows
    <3> QED
      BY <3>1, <1>c, SearchTypes
  <2>6. ASSUME Embedding(x), faults' = 0, seen[x].rev >= newest.emb PROVE Covered' \/ Embedding(x)'
    <3>1. seen[x].rev = doc.rev /\ \A n \in 1..ordinal[x] : <<n, doc.rev>> \in chunks
      BY <1>a, <1>c, <2>6 DEF Embedding
    <3>2. \A n \in 1..(ordinal[x] + 1) : <<n, doc.rev>> \in chunks'
      <4>1. \A n \in 1..(ordinal[x] + 1) : n \in 1..ordinal[x] \/ n = ordinal[x] + 1
        BY <1>c
      <4> QED
        BY <1>1, <3>1, <4>1
    <3>3. at'[x] = p
      BY <1>a, <2>1, MoveKeeps, SearchTypes
    <3>4. CASE p = "upsert"
      <4>1. ordinal'[x] = ordinal[x] + 1
        BY <1>1, SearchTypes DEF SearchRowsOK
      <4> QED
        BY <1>a, <3>1, <3>2, <3>3, <3>4, <4>1 DEF Embedding
    <3>5. CASE p = "complete"
      <4>1. newest'.emb = doc.rev
        BY <1>c, <2>5, <2>6, <3>1, SearchTypes
      <4> QED
        BY <1>a, <2>1, <3>2, <3>5, <4>1 DEF Covered
    <3> QED
      BY <2>1, <2>6, <3>4, <3>5
  <2>7. chunks \subseteq chunks' /\ (Covered => Covered')
    BY <1>1, <1>a, <2>5 DEF Covered
  <2>8. p = "upsert" => ordinal[x] + 1 < Chunks
    BY <1>c, <2>1, SearchTypes
  <2> QED
    BY <1>1, <1>a, <1>d, <2>1, <2>2, <2>3, <2>4, <2>6, <2>7, <2>8, ChunksWritten
<1>2. CASE Goto(x, "fail") /\ UNCHANGED <<chunks, ordinal, newest, overtaken>>
  <2>1. "fail" \in EmbedPlace /\ UNCHANGED index
    BY <1>2, <1>a DEF EmbedPlace, index
  <2> QED
    BY <1>2, <1>a, <2>1, SearchGoes
<1> QED
  BY <1>1, <1>2 DEF UpsertChunk

-----------------------------------------------------------------------------
LEMMA SearchStepInv == SearchInv /\ LocalSearchNext => SearchInv'
<1> SUFFICES ASSUME SearchInv, LocalSearchNext PROVE SearchInv'
  OBVIOUS
<1>1. CASE \E j \in IndexJob :
              \/ ChangeRow(j) \/ RequestIndex(j) \/ RequestRebuild(j)
              \/ ReadRow(j) \/ WriteDocument(j) \/ RequestEmbedding(j)
  BY <1>1, ChangeRowInv, SearchRequestInv, ReadRowInv, WriteDocumentInv, RequestEmbeddingInv
<1>2. CASE \E x \in EmbedJob : ReadDocument(x) \/ DropChunks(x) \/ UpsertChunk(x)
  BY <1>2, ReadDocumentInv, DropChunksInv, UpsertChunkInv
<1>3. CASE \E j \in SearchJob :
              \/ BeginSearch(j) \/ BeginSearchError(j)
              \/ CompleteIndexJob(j) \/ FailIndexJob(j) \/ ExpireSearch(j)
              \/ OutboxStep(j) /\ UNCHANGED searchVars
  BY <1>3, BeginSearchInv, SearchFinishInv, SearchEventInv
<1> QED
  BY <1>1, <1>2, <1>3 DEF LocalSearchNext

LEMMA SearchInvShows == SearchInv => LocalSearchTypeOK /\ SearchFollowsRow /\ SearchAttended
<1> SUFFICES ASSUME SearchInv PROVE LocalSearchTypeOK /\ SearchFollowsRow /\ SearchAttended
  OBVIOUS
<1>1. LocalSearchTypeOK
  <2>1. HandlersTypeOK(SearchJob, SearchStep)
    BY SearchTypes DEF HandlersTypeOK, HandlersOK, SearchJobOK, IndexPlace, EmbedPlace, SearchStep
  <2>2. \A j \in SearchJob : fate[j] = "absent" <=> sjob[j] \in {"absent", "asking"}
    BY SearchTypes DEF SearchJobOK
  <2> QED
    BY <2>1, <2>2, SearchTypes DEF LocalSearchTypeOK, SearchRowsOK, SearchJobStatus
<1>2. SearchFollowsRow
  <2> SUFFICES ASSUME faults = 0, ~overtaken, \A j \in SearchJob : sjob[j] \in {"absent", "done"}
               PROVE  /\ doc.rev = IF row.active THEN row.rev ELSE Undocumented
                      /\ chunks = IF row.active THEN (1..Chunks) \X {row.rev} ELSE {}
    BY DEF SearchFollowsRow
  <2>1. \A j \in SearchJob : ~InHand(j)
    BY SearchTypes DEF SearchJobOK
  <2>2. newest.doc = row.rev
    BY <2>1, SearchTypes DEF IndexDue, Indexing, InHand
  <2>3. DocOK /\ EmbedDue
    BY SearchTypes DEF InOrder
  <2>4. doc.rev = IF row.active THEN row.rev ELSE Undocumented
    BY <2>2, <2>3 DEF DocOK
  <2>5. CASE row.active
    <3>1. doc.rev = row.rev /\ doc.rev # Undocumented
      BY <2>2, <2>3, <2>4, <2>5 DEF DocOK
    <3>2. Covered
      BY <2>1, <2>3, <3>1, SearchTypes DEF EmbedDue, Embedding, InHand
    <3>3. chunks \subseteq (1..Chunks) \X {row.rev}
      BY <2>3, <3>1, <3>2 DEF Covered, DocOK
    <3>4. \A c \in 1..Chunks : <<c, row.rev>> \in chunks
      BY <3>1, <3>2 DEF Covered
    <3> QED
      BY <2>4, <2>5, <3>3, <3>4
  <2>6. CASE ~row.active
    BY <2>4, <2>6, SearchTypes DEF SearchRowsOK
  <2> QED
    BY <2>5, <2>6
<1>3. SearchAttended
  BY SearchTypes DEF SearchAttended, SearchJobUnfailing
<1> QED
  BY <1>1, <1>2, <1>3

-----------------------------------------------------------------------------
(* SystemJobs: a stop holds as far as the handler of the job allows it,    *)
(* and no open row is forgotten.                                           *)

(* A worker has the event in hand only while the event is processing, or   *)
(* dead because somebody stopped it; nothing precedes the row.             *)
HandOK(j) ==
    /\ hand[j] # "none" => jobEvent[j] \in {"processing", "dead"}
    /\ jobEvent[j] = "absent" <=> jobRow[j] = "absent"
    /\ jobEvent[j] \in {"absent", "pending"} => claims[j] = 0
    /\ jobRow[j] = "absent" => stop[j] = "never"

(* A handler that returned nil has left its row, and so has one that       *)
(* returned an error, if nothing was lost.                                 *)
LeftOK(j) ==
    /\ hand[j] = "ok" \/ jobEvent[j] = "sent" => jobRow[j] \notin OpenRow
    /\ hand[j] = "err" /\ faults = 0 => jobRow[j] \notin OpenRow

(* What a stop has ended, by how much the handler checks.                  *)
StopOK(j) ==
    /\ stop[j] = "none" => jobRow[j] = "failed" /\ jobEvent[j] = "dead" /\ hand[j] = "none"
    /\ Stopped(j) /\ kind[j] = "checked" => jobRow[j] = "failed"
    /\ Stopped(j) /\ kind[j] = "begun" =>
          /\ jobRow[j] \in {"failed", "done"}
          /\ jobRow[j] = "done" \/ hand[j] = "working" => stop[j] = "working"

(* A row that is open again after a stop is in the hand of the worker that *)
(* opened it.                                                              *)
AttendedOK(j) ==
    \/ faults > 0 \/ stop[j] = "event"
    \/ jobRow[j] \in OpenRow =>
          \/ hand[j] # "none"
          \/ stop[j] = "never" /\ jobEvent[j] \in {"pending", "failed"} /\ claims[j] < MaxClaims

JobInv(j) == HandOK(j) /\ LeftOK(j) /\ StopOK(j) /\ AttendedOK(j)

SystemJobsInv ==
    /\ SystemJobsTypeOK
    /\ \A j \in SysJob : JobInv(j)

-----------------------------------------------------------------------------
(* The invariant holds when there is no job yet.                           *)
LEMMA SystemJobsInvInit == SystemJobsInit /\ FaultsInit => SystemJobsInv
<1> SUFFICES ASSUME SystemJobsInit, FaultsInit PROVE SystemJobsInv
  OBVIOUS
<1>1. SystemJobsTypeOK
  BY SystemJobsAssumption, FaultsAssumption
  DEF SystemJobsInit, FaultsInit, SystemJobsTypeOK, FaultsTypeOK, Kind, Hand, OpenRow
<1>2. ASSUME NEW j \in SysJob PROVE JobInv(j)
  BY DEF SystemJobsInit, JobInv, HandOK, LeftOK, StopOK, AttendedOK, Stopped, OpenRow
<1> QED
  BY <1>1, <1>2 DEF SystemJobsInv

(* One action at a time: it writes the columns of its own job, and the     *)
(* other jobs keep what they had; faults only grow.                        *)
LEMMA SystemJobsStepInv ==
  ASSUME SystemJobsInv, SystemJobsNext PROVE SystemJobsInv'
<1> USE SystemJobsAssumption, FaultsAssumption
<1>1. PICK i \in SysJob : \/ CreateJob(i) \/ ClaimJob(i) \/ BeginJob(i) \/ FinishJob(i)
                         \/ MarkJob(i) \/ LoseJob(i) \/ StopJob(i) \/ StopEvent(i)
  BY DEF SystemJobsNext
<1>2. SystemJobsTypeOK /\ JobInv(i)
  BY DEF SystemJobsInv
<1>3. faults \in Nat /\ faults' \in Nat /\ faults' >= faults
  BY <1>1, <1>2 DEF SystemJobsTypeOK, FaultsTypeOK, CreateJob, ClaimJob, BeginJob, FinishJob,
    MarkJob, LoseJob, StopJob, StopEvent, Fault, Unfailing
<1>4. ASSUME NEW j \in SysJob, j # i
      PROVE  /\ kind'[j] = kind[j] /\ jobRow'[j] = jobRow[j] /\ jobEvent'[j] = jobEvent[j]
             /\ claims'[j] = claims[j] /\ hand'[j] = hand[j] /\ stop'[j] = stop[j]
  BY <1>1, <1>2, <1>4 DEF SystemJobsTypeOK, CreateJob, ClaimJob, BeginJob, FinishJob, MarkJob,
    LoseJob, StopJob, StopEvent, KillEvent
<1>5. ASSUME NEW j \in SysJob, j # i PROVE JobInv(j)'
  BY <1>3, <1>4, <1>5 DEF SystemJobsInv, JobInv, HandOK, LeftOK, StopOK, AttendedOK, Stopped
<1>6. SystemJobsTypeOK' /\ JobInv(i)'
  <2>1. CASE CreateJob(i)
    <3>1. SystemJobsTypeOK'
      BY <1>2, <2>1 DEF CreateJob, SystemJobsTypeOK, FaultsTypeOK, Fault, Unfailing, Kind, Hand, OpenRow, OpenEvent
    <3>2. JobInv(i)'
      BY <1>2, <1>3, <2>1 DEF CreateJob, SystemJobsTypeOK, FaultsTypeOK, Fault, Unfailing, Kind, Hand, OpenRow, OpenEvent,
        JobInv, HandOK, LeftOK, StopOK, AttendedOK, Stopped
    <3> QED
      BY <3>1, <3>2
  <2>2. CASE ClaimJob(i)
    <3>1. SystemJobsTypeOK'
      BY <1>2, <2>2 DEF ClaimJob, SystemJobsTypeOK, FaultsTypeOK, Fault, Unfailing, Kind, Hand, OpenRow, OpenEvent
    <3>2. JobInv(i)'
      BY <1>2, <1>3, <2>2 DEF ClaimJob, SystemJobsTypeOK, FaultsTypeOK, Fault, Unfailing, Kind, Hand, OpenRow, OpenEvent,
        JobInv, HandOK, LeftOK, StopOK, AttendedOK, Stopped
    <3> QED
      BY <3>1, <3>2
  <2>3. CASE BeginJob(i)
    <3>1. SystemJobsTypeOK'
      BY <1>2, <2>3 DEF BeginJob, MayBegin, SystemJobsTypeOK, FaultsTypeOK, Fault, Unfailing, Kind, Hand, OpenRow, OpenEvent
    <3>2. JobInv(i)'
      BY <1>2, <1>3, <2>3 DEF BeginJob, MayBegin, SystemJobsTypeOK, FaultsTypeOK, Fault, Unfailing, Kind, Hand, OpenRow, OpenEvent,
        JobInv, HandOK, LeftOK, StopOK, AttendedOK, Stopped
    <3> QED
      BY <3>1, <3>2
  <2>4. CASE FinishJob(i)
    <3>1. SystemJobsTypeOK'
      BY <1>2, <2>4 DEF FinishJob, MayFinish, SystemJobsTypeOK, FaultsTypeOK, Fault, Unfailing, Kind, Hand, OpenRow, OpenEvent
    <3>2. JobInv(i)'
      BY <1>2, <1>3, <2>4 DEF FinishJob, MayFinish, SystemJobsTypeOK, FaultsTypeOK, Fault, Unfailing, Kind, Hand, OpenRow, OpenEvent,
        JobInv, HandOK, LeftOK, StopOK, AttendedOK, Stopped
    <3> QED
      BY <3>1, <3>2
  <2>5. CASE MarkJob(i)
    <3>1. SystemJobsTypeOK'
      BY <1>2, <2>5 DEF MarkJob, SystemJobsTypeOK, FaultsTypeOK, Fault, Unfailing, Kind, Hand, OpenRow, OpenEvent
    <3>2. JobInv(i)'
      BY <1>2, <1>3, <2>5 DEF MarkJob, SystemJobsTypeOK, FaultsTypeOK, Fault, Unfailing, Kind, Hand, OpenRow, OpenEvent,
        JobInv, HandOK, LeftOK, StopOK, AttendedOK, Stopped
    <3> QED
      BY <3>1, <3>2
  <2>6. CASE LoseJob(i)
    <3>1. SystemJobsTypeOK'
      BY <1>2, <2>6 DEF LoseJob, SystemJobsTypeOK, FaultsTypeOK, Fault, Unfailing, Kind, Hand, OpenRow, OpenEvent
    <3>2. JobInv(i)'
      BY <1>2, <1>3, <2>6 DEF LoseJob, SystemJobsTypeOK, FaultsTypeOK, Fault, Unfailing, Kind, Hand, OpenRow, OpenEvent,
        JobInv, HandOK, LeftOK, StopOK, AttendedOK, Stopped
    <3> QED
      BY <3>1, <3>2
  <2>7. CASE StopJob(i)
    <3>1. SystemJobsTypeOK'
      BY <1>2, <2>7 DEF StopJob, KillEvent, SystemJobsTypeOK, FaultsTypeOK, Fault, Unfailing, Kind, Hand, OpenRow, OpenEvent
    <3>2. JobInv(i)'
      BY <1>2, <1>3, <2>7 DEF StopJob, KillEvent, SystemJobsTypeOK, FaultsTypeOK, Fault, Unfailing, Kind, Hand, OpenRow, OpenEvent,
        JobInv, HandOK, LeftOK, StopOK, AttendedOK, Stopped
    <3> QED
      BY <3>1, <3>2
  <2>8. CASE StopEvent(i)
    <3>1. SystemJobsTypeOK'
      BY <1>2, <2>8 DEF StopEvent, KillEvent, SystemJobsTypeOK, FaultsTypeOK, Fault, Unfailing, Kind, Hand, OpenRow, OpenEvent
    <3>2. JobInv(i)'
      BY <1>2, <1>3, <2>8 DEF StopEvent, KillEvent, SystemJobsTypeOK, FaultsTypeOK, Fault, Unfailing, Kind, Hand, OpenRow, OpenEvent,
        JobInv, HandOK, LeftOK, StopOK, AttendedOK, Stopped
    <3> QED
      BY <3>1, <3>2
  <2> QED
    BY <1>1, <2>1, <2>2, <2>3, <2>4, <2>5, <2>6, <2>7, <2>8
<1> QED
  BY <1>5, <1>6 DEF SystemJobsInv

LEMMA SystemJobsInvShows ==
  SystemJobsInv => SystemJobsTypeOK /\ StopHolds /\ SystemJobsAttended
<1>1. SystemJobsInv => StopHolds
  BY DEF SystemJobsInv, JobInv, StopOK, StopHolds, Stopped
<1>2. SystemJobsInv => SystemJobsAttended
  BY DEF SystemJobsInv, SystemJobsTypeOK, FaultsTypeOK, JobInv, AttendedOK, SystemJobsAttended
<1> QED
  BY <1>1, <1>2 DEF SystemJobsInv

-----------------------------------------------------------------------------
(* The component that is at work keeps its invariant, and the others are   *)
(* as they began: whatever the outbox and the faults do, which they share, *)
(* is told of the one at work only.                                        *)

AtWork ==
    /\ part \in {"gold", "export", "tenant", "ocr", "search", "stop"}
    /\ part = "gold" => GoldInv
    /\ part = "export" => ExportsInv
    /\ part = "tenant" => TenantInv
    /\ part = "ocr" => OcrInv
    /\ part = "search" => SearchInv
    /\ part = "stop" => SystemJobsInv

AtRest ==
    /\ part = "gold" \/ GoldInit
    /\ part = "export" \/ ExportInit
    /\ part = "tenant" \/ TenantInit
    /\ part = "ocr" \/ OcrInit
    /\ part = "search" \/ LocalSearchInit
    /\ part = "stop" \/ SystemJobsInit

EventJobsInv == AtWork /\ AtRest

LEMMA EventJobsInvInit == Init => EventJobsInv
<1> SUFFICES ASSUME Init PROVE EventJobsInv
  OBVIOUS
<1>1. /\ HandlersInit /\ FaultsInit
      /\ GoldInit /\ ExportInit /\ TenantInit /\ OcrInit /\ LocalSearchInit /\ SystemJobsInit
      /\ part \in {"gold", "export", "tenant", "ocr", "search", "stop"}
  BY DEF Init, HandlersInit
<1> QED
  BY <1>1, GoldInvInit, ExportsInvInit, TenantInvInit, OcrInvInit, SearchInvInit, SystemJobsInvInit
  DEF EventJobsInv, AtWork, AtRest

(* A component at rest stays there.                                        *)
LEMMA RestStays ==
  /\ GoldInit /\ UNCHANGED goldVars => GoldInit'
  /\ ExportInit /\ UNCHANGED exportVars => ExportInit'
  /\ TenantInit /\ UNCHANGED tenantVars => TenantInit'
  /\ OcrInit /\ UNCHANGED ocrVars => OcrInit'
  /\ LocalSearchInit /\ UNCHANGED searchVars => LocalSearchInit'
  /\ SystemJobsInit /\ UNCHANGED sysVars => SystemJobsInit'
<1>1. GoldInit /\ UNCHANGED goldVars => GoldInit'
  BY DEF GoldInit, goldVars
<1>2. ExportInit /\ UNCHANGED exportVars => ExportInit'
  BY DEF ExportInit, exportVars
<1>3. TenantInit /\ UNCHANGED tenantVars => TenantInit'
  BY DEF TenantInit, tenantVars
<1>4. OcrInit /\ UNCHANGED ocrVars => OcrInit'
  BY DEF OcrInit, ocrVars
<1>5. LocalSearchInit /\ UNCHANGED searchVars => LocalSearchInit'
  BY DEF LocalSearchInit, searchVars, index
<1>6. SystemJobsInit /\ UNCHANGED sysVars => SystemJobsInit'
  BY DEF SystemJobsInit, sysVars
<1> QED
  BY <1>1, <1>2, <1>3, <1>4, <1>5, <1>6

LEMMA EventJobsStepInv == EventJobsInv /\ Next => EventJobsInv'
<1> SUFFICES ASSUME EventJobsInv, Next PROVE EventJobsInv'
  OBVIOUS
<1>1. /\ part' = part /\ part \in {"gold", "export", "tenant", "ocr", "search", "stop"}
      /\ \/ part = "gold" /\ GoldNext
         \/ part = "export" /\ ExportNext
         \/ part = "tenant" /\ TenantNext
         \/ part = "ocr" /\ OcrNext
         \/ part = "search" /\ LocalSearchNext
         \/ part = "stop" /\ SystemJobsNext
      /\ part = "gold" \/ UNCHANGED goldVars
      /\ part = "export" \/ UNCHANGED exportVars
      /\ part = "tenant" \/ UNCHANGED tenantVars
      /\ part = "ocr" \/ UNCHANGED ocrVars
      /\ part = "search" \/ UNCHANGED searchVars
      /\ part = "stop" \/ UNCHANGED sysVars
  BY DEF Next, EventJobsInv, AtWork
<1>2. AtWork'
  BY <1>1, GoldStepInv, ExportsStepInv, TenantStepInv, OcrStepInv, SearchStepInv, SystemJobsStepInv
  DEF EventJobsInv, AtWork
<1>3. AtRest'
  BY <1>1, RestStays DEF EventJobsInv, AtRest
<1> QED
  BY <1>2, <1>3 DEF EventJobsInv

LEMMA EventJobsStutter == EventJobsInv /\ UNCHANGED allVars => EventJobsInv'
<1> SUFFICES ASSUME EventJobsInv, UNCHANGED allVars PROVE EventJobsInv'
  OBVIOUS
<1>1. /\ UNCHANGED <<fate, tries, ok, at, faults, part>>
      /\ UNCHANGED goldVars /\ UNCHANGED exportVars /\ UNCHANGED tenantVars
      /\ UNCHANGED ocrVars /\ UNCHANGED searchVars /\ UNCHANGED sysVars
  BY DEF allVars, handlerVars
<1>2. HandlersOK => HandlersOK'
  BY <1>1 DEF HandlersOK, EventOK, FaultsTypeOK, InHand
<1>3. GoldInv => GoldInv'
  BY <1>1, <1>2 DEF goldVars, GoldInv, ViewInv, GoldRowsOK, ActiveOK, GoldRunInv, ServedOK, EditRow,
    GoldRunRow, Completed, Attended, GoldStep, Half, Shows, InHand, Deliverable
<1>4. ExportsInv => ExportsInv'
  BY <1>1, <1>2 DEF exportVars, ExportsInv, ExportRowsOK, ScheduleInv, ExportInv, ExportUnfailing,
    ExportOK, LastOK, InHand, Outcome, Attended, Deliverable
<1>5. TenantInv => TenantInv'
  BY <1>1, <1>2 DEF tenantVars, TenantInv, TenantExportInv, ImportInv, TenantRowsOK, Attended, ImportOK,
    ImportShare, ImportUnfailing, InHand, Deliverable
<1>6. OcrInv => OcrInv'
  BY <1>1, <1>2 DEF ocrVars, OcrInv, PlacesOK, CompletedOK, LockOK, OcrRowsOK, AttendOK, ItemsOK, OcrStep,
    PageOf, Where, Holding, ExecutionStep, Busy, Asking, InHand, Deliverable, Attended
<1>7. SearchInv => SearchInv'
  BY <1>1, <1>2 DEF searchVars, index, SearchInv, SearchJobUnfailing, IndexDue, EmbedDue, SearchJobOK,
    SearchRowsOK, InOrder, Attended, Indexing, Embedding, Covered, InHand, SearchJobStatus, DocOK,
    SeenOK, SameSeen, Deliverable
<1>8. SystemJobsInv => SystemJobsInv'
  BY <1>1 DEF sysVars, SystemJobsInv, SystemJobsTypeOK, JobInv, Hand, FaultsTypeOK, LeftOK, HandOK, StopOK,
    AttendedOK, Stopped
<1>9. AtWork'
  BY <1>1, <1>3, <1>4, <1>5, <1>6, <1>7, <1>8 DEF EventJobsInv, AtWork
<1>10. AtRest'
  BY <1>1, RestStays DEF EventJobsInv, AtRest
<1> QED
  BY <1>9, <1>10 DEF EventJobsInv

LEMMA EventJobsInvHolds == Spec => []EventJobsInv
<1>1. EventJobsInv /\ [Next]_allVars => EventJobsInv'
  BY EventJobsStepInv, EventJobsStutter
<1> QED
  BY <1>1, EventJobsInvInit, PTL DEF Spec

(* What the components promise outside their types is true of them at rest.*)
LEMMA GoldRests == GoldInit => PublicationServed /\ GoldRunAttended
  BY GoldAssumption
  DEF GoldInit, PublicationServed, CompletedKeepsTable, ViewTellsStatus, GoldRunAttended, GoldActive

LEMMA ExportsRest ==
  ExportInit => LastStatusTruthful /\ OneFilePerExport /\ ScheduleStaysOff /\ ExportsAttended
  BY DEF ExportInit, LastStatusTruthful, OneFilePerExport, ScheduleStaysOff, ExportsAttended, Undone

LEMMA TenantRests == TenantInit => ImportAccounted /\ TenantFileRecorded /\ TenantJobsAttended
  BY TenantJobsAssumption
  DEF TenantInit, ImportAccounted, TenantFileRecorded, TenantJobsAttended, Open

LEMMA OcrRests == OcrInit => PagesOfOneExecution /\ ItemsOfOneExtraction /\ OcrAttended
  BY DriveOCRAssumption
  DEF OcrInit, PagesOfOneExecution, ItemsOfOneExtraction, OcrAttended, NoItems

LEMMA SearchRests == LocalSearchInit => SearchFollowsRow /\ SearchAttended
  BY DEF LocalSearchInit, SearchFollowsRow, SearchAttended

LEMMA SystemJobsRest == SystemJobsInit => StopHolds /\ SystemJobsAttended
  BY DEF SystemJobsInit, StopHolds, Stopped, SystemJobsAttended, OpenRow

-----------------------------------------------------------------------------
(* The rows, views, files and handlers stay in their types, and the rows   *)
(* have the events that the transactions that write them promise.          *)
THEOREM EventJobTypesHold == Spec => []EventJobsTypeOK
<1>1. EventJobsInv => EventJobsTypeOK
  BY GoldInvShows, ExportsInvShows, TenantInvShows, OcrInvShows, SearchInvShows, SystemJobsInvShows
  DEF EventJobsInv, AtWork, EventJobsTypeOK
<1> QED
  BY <1>1, EventJobsInvHolds, PTL

(* A publication that a completed run has filled keeps its table, and the  *)
(* view that readers use is there as its status says, whatever order the   *)
(* publish and the edits come in.                                          *)
THEOREM GoldIsServed == Spec => []PublicationServed
<1>1. EventJobsInv => PublicationServed
  BY GoldInvShows, GoldRests DEF EventJobsInv, AtWork, AtRest
<1> QED
  BY <1>1, EventJobsInvHolds, PTL

(* The status a schedule shows of its last export is that of the export.   *)
THEOREM ScheduleTellsTheTruth == Spec => []LastStatusTruthful
<1>1. EventJobsInv => LastStatusTruthful
  BY ExportsInvShows, ExportsRest DEF EventJobsInv, AtWork, AtRest
<1> QED
  BY <1>1, EventJobsInvHolds, PTL

(* What the handlers do outside their rows is done once, and is what the   *)
(* rows say, for any number of jobs, attempts, rows and pages.             *)
THEOREM EffectsMatchRows == Spec => []EffectsAccounted
<1>1. EventJobsInv => EffectsAccounted
  <2> SUFFICES ASSUME EventJobsInv PROVE EffectsAccounted
    OBVIOUS
  <2>1. OneFilePerExport
    BY ExportsInvShows, ExportsRest DEF EventJobsInv, AtWork, AtRest
  <2>2. TenantFileRecorded /\ ImportAccounted
    BY TenantInvShows, TenantRests DEF EventJobsInv, AtWork, AtRest
  <2>3. PagesOfOneExecution /\ ItemsOfOneExtraction
    BY OcrInvShows, OcrRests DEF EventJobsInv, AtWork, AtRest
  <2>4. SearchFollowsRow
    BY SearchInvShows, SearchRests DEF EventJobsInv, AtWork, AtRest
  <2> QED
    BY <2>1, <2>2, <2>3, <2>4 DEF EffectsAccounted
<1> QED
  BY <1>1, EventJobsInvHolds, PTL

(* A schedule that was disabled is not enabled by a late write, and what   *)
(* an administrator has stopped stays stopped, as far as the handler of    *)
(* the job looks at its row.                                               *)
THEOREM OffHolds == Spec => []OffStaysOff
<1>1. EventJobsInv => OffStaysOff
  BY ExportsInvShows, ExportsRest, SystemJobsInvShows, SystemJobsRest
  DEF EventJobsInv, AtWork, AtRest, OffStaysOff
<1> QED
  BY <1>1, EventJobsInvHolds, PTL

(* No row is left pending or processing without a handler or an event that *)
(* will give it one, unless a fault struck.                                *)
THEOREM JobsAttended == Spec => []EventJobsAttended
<1>1. EventJobsInv => EventJobsAttended
  <2> SUFFICES ASSUME EventJobsInv PROVE EventJobsAttended
    OBVIOUS
  <2>1. GoldRunAttended
    BY GoldInvShows, GoldRests DEF EventJobsInv, AtWork, AtRest
  <2>2. ExportsAttended
    BY ExportsInvShows, ExportsRest DEF EventJobsInv, AtWork, AtRest
  <2>3. TenantJobsAttended
    BY TenantInvShows, TenantRests DEF EventJobsInv, AtWork, AtRest
  <2>4. OcrAttended
    BY OcrInvShows, OcrRests DEF EventJobsInv, AtWork, AtRest
  <2>5. SearchAttended
    BY SearchInvShows, SearchRests DEF EventJobsInv, AtWork, AtRest
  <2>6. SystemJobsAttended
    BY SystemJobsInvShows, SystemJobsRest DEF EventJobsInv, AtWork, AtRest
  <2> QED
    BY <2>1, <2>2, <2>3, <2>4, <2>5, <2>6 DEF EventJobsAttended
<1> QED
  BY <1>1, EventJobsInvHolds, PTL
==============================================================================
