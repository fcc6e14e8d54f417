------------------------------ MODULE DriveFile ------------------------------
(***************************************************************************)
(* One Drive file: its file_objects row, the bodies that file storage      *)
(* keeps for it, the requests that change it and the data lifecycle job    *)
(* that purges bodies out of the trash.  Row and storage are changed by    *)
(* separate statements, and a request reads the row (and its legal hold)   *)
(* in statements that precede its write.                                   *)
(*                                                                         *)
(* A storage key is named by its turn: every upload draws a new one.  A    *)
(* fault is a process that dies in the middle of an operation, a storage   *)
(* deletion that fails, or a commit whose reply is lost.                   *)
(***************************************************************************)
EXTENDS Faults

CONSTANTS Request,    \* concurrent API requests
          Purger,     \* DataLifecycleJob processes
          Ops,        \* the operations the requests may be
          MaxKeys     \* bound on the bodies ever stored

Creates == {"upload", "copy"}
Writes  == {"overwrite", "public", "save"}
OnTrash == {"restore", "permanent"}
AllOps  == Creates \cup Writes \cup OnTrash \cup {"delete", "hold"}

ASSUME DriveFileAssumption ==
    /\ Ops \subseteq AllOps
    /\ MaxKeys \in Nat

VARIABLES
    stat,    \* the row: "none", "active", or "deleted" (deleted_at is set)
    key,     \* storage_key of the row
    held,    \* legal_hold_at is set
    overdue, \* deleted_at is before the purge cutoff
    purged,  \* purged_at is set
    lock,    \* purge_locked_at: "none", "fresh", or "stale" (past the timeout)
    stored,  \* keys whose body is in storage
    req,     \* [Request -> Req]: the operation, its next statement, the storage
             \* key of the row it read, the one it wrote a body under
    job,     \* [Purger -> Sweep]: its next statement, the key of the row it claimed
    puts,    \* bodies stored so far
    doomed   \* history: keys that a purge, a permanent delete or the undoing
             \* of a failed operation has set out to delete

row  == <<stat, key, held, overdue, purged, lock>>
vars == <<stat, key, held, overdue, purged, lock, stored, req, job, puts,
          doomed, faults>>

Stage == {"idle", "check", "put", "write", "tuples", "discard", "erase", "drop"}

(* early, history: it was past its check when a hold was committed.        *)
Req == [op : AllOps, pc : Stage, snap : 0..puts, fresh : 0..puts, early : BOOLEAN]
Sweep == [pc : {"idle", "erase", "mark", "release"}, key : 0..puts]

NoReq == [op |-> "upload", pc |-> "idle", snap |-> 0, fresh |-> 0, early |-> FALSE]
NoSweep == [pc |-> "idle", key |-> 0]

TypeOK ==
    /\ stat \in {"none", "active", "deleted"}
    /\ lock \in {"none", "fresh", "stale"}
    /\ held \in BOOLEAN /\ overdue \in BOOLEAN /\ purged \in BOOLEAN
    /\ puts \in 0..MaxKeys
    /\ key \in 0..puts
    /\ stored \subseteq 1..puts /\ doomed \subseteq 1..puts
    /\ req \in [Request -> Req]
    /\ job \in [Purger -> Sweep]
    /\ FaultsTypeOK

Init ==
    /\ stat = "none" /\ key = 0 /\ lock = "none"
    /\ held = FALSE /\ overdue = FALSE /\ purged = FALSE
    /\ stored = {} /\ doomed = {}
    /\ req = [r \in Request |-> NoReq]
    /\ job = [p \in Purger |-> NoSweep]
    /\ puts = 0 /\ FaultsInit

(* storage.Delete, which may fail.  No request looks at its error.          *)
Delete(k) ==
    \/ stored' = stored \ {k} /\ UNCHANGED faults
    \/ Fault /\ UNCHANGED stored

(* The request, or the purger, moves to its next statement or is done.     *)
Go(r, stage) ==
    req' = [req EXCEPT ![r] = IF stage = "idle" THEN NoReq ELSE [@ EXCEPT !.pc = stage]]

GoJob(p, stage) ==
    job' = [job EXCEPT ![p] = IF stage = "idle" THEN NoSweep ELSE [@ EXCEPT !.pc = stage]]

-----------------------------------------------------------------------------
(* Requests.                                                               *)

(* UploadFile and copyDriveFile make the file; one request makes this one. *)
Create(r) ==
    /\ req[r].pc = "idle" /\ stat = "none"
    /\ \A q \in Request : req[q].pc = "idle"
    /\ \E o \in Creates \cap Ops :
          req' = [req EXCEPT ![r] = [NoReq EXCEPT !.op = o, !.pc = "put"]]
    /\ UNCHANGED <<row, stored, job, puts, doomed, faults>>

(* The other operations read the row first: a live one, or one in the      *)
(* trash for a restore and a permanent delete.                             *)
Visible(o) == IF o \in OnTrash THEN stat = "deleted" /\ ~purged
                               ELSE stat = "active"

ReadRow(r) ==
    /\ req[r].pc = "idle"
    /\ \E o \in Ops \ Creates :
          /\ Visible(o)
          /\ req' = [req EXCEPT ![r] =
                        [op |-> o, snap |-> key, fresh |-> 0, early |-> FALSE,
                         pc |-> IF o \in {"restore", "hold"} THEN "write" ELSE "check"]]
    /\ UNCHANGED <<row, stored, job, puts, doomed, faults>>

(* ensureFileMutationAllowed, a query of its own.                          *)
Checked(r) == CASE req[r].op = "delete"    -> "write"
                [] req[r].op = "permanent" -> "erase"
                [] OTHER               -> "put"

CheckHold_Skipped(r) ==
    /\ req[r].pc = "check"
    /\ Go(r, Checked(r))
    /\ doomed' = IF req[r].op = "permanent" THEN doomed \cup {req[r].snap} ELSE doomed
    /\ UNCHANGED <<row, stored, job, puts, faults>>

CheckHold(r) ==
    /\ req[r].pc = "check"
    /\ Go(r, IF held THEN "idle" ELSE Checked(r))
    /\ doomed' = IF req[r].op = "permanent" /\ ~held THEN doomed \cup {req[r].snap} ELSE doomed
    /\ UNCHANGED <<row, stored, job, puts, faults>>

(* The new body goes to storage before any row names it.                   *)
PutObject_SameKey(r) ==
    /\ req[r].pc = "put" /\ puts < MaxKeys
    /\ req' = [req EXCEPT ![r].fresh = puts + 1, ![r].pc = "write"]
    /\ stored' = stored \cup {puts + 1}
    /\ UNCHANGED <<row, job, puts, doomed, faults>>

PutObject(r) ==
    /\ req[r].pc = "put" /\ puts < MaxKeys
    /\ puts' = puts + 1
    /\ req' = [req EXCEPT ![r].fresh = puts + 1, ![r].pc = "write"]
    /\ stored' = stored \cup {puts + 1}
    /\ UNCHANGED <<row, job, doomed, faults>>

(* Permission, quota, size and database errors before the write: a body    *)
(* that is already stored is deleted again.                                *)
Refuse(r) ==
    /\ req[r].pc \in {"check", "put", "write"}
    /\ Go(r, "idle")
    /\ IF req[r].pc = "write" /\ req[r].op \in Creates \cup Writes
       THEN Delete(req[r].fresh)
       ELSE UNCHANGED <<stored, faults>>
    /\ UNCHANGED <<row, job, puts, doomed>>

(* CreateDriveFileObject and its commit; the permission tuples follow.     *)
InsertRow(r) ==
    /\ stat' = "active" /\ key' = req[r].fresh
    /\ UNCHANGED <<held, overdue, purged, lock>>

(* UpdateDriveFileObjectMetadata.  (The revision that an anonymous         *)
(* editor's overwrite and a save insert with it is data nobody reads.)     *)
SwapKey(r) ==
    /\ stat = "active"
    /\ key' = req[r].fresh
    /\ UNCHANGED <<stat, held, overdue, purged, lock>>

Insert(r) ==
    /\ req[r].pc = "write" /\ req[r].op \in Creates
    /\ InsertRow(r)
    /\ Go(r, "tuples")
    /\ UNCHANGED <<stored, job, puts, doomed, faults>>

(* The owner's overwrite and the editor's save then drop the body that was *)
(* current when they read the row.                                         *)
Overwrite(r) ==
    /\ req[r].pc = "write" /\ req[r].op \in Writes
    /\ \/ /\ SwapKey(r)
          /\ Go(r, IF req[r].op = "public" THEN "idle" ELSE "drop")
          /\ UNCHANGED <<stored, faults>>
       \/ /\ stat # "active"
          /\ Delete(req[r].fresh)
          /\ Go(r, "idle")
          /\ UNCHANGED row
    /\ UNCHANGED <<job, puts, doomed>>

(* The write commits, its reply is lost and the error path deletes the     *)
(* new body.                                                               *)
ReplyLost(r) ==
    /\ Fault
    /\ req[r].pc = "write"
    /\ \/ req[r].op \in Creates /\ InsertRow(r)
       \/ req[r].op \in Writes /\ SwapKey(r)
    /\ stored' = stored \ {req[r].fresh}
    /\ doomed' = doomed \cup {req[r].fresh}
    /\ Go(r, "idle")
    /\ UNCHANGED <<job, puts>>

DropOld_Current(r) ==
    /\ req[r].pc = "drop"
    /\ Delete(key)
    /\ Go(r, "idle")
    /\ UNCHANGED <<row, job, puts, doomed>>

DropOld(r) ==
    /\ req[r].pc = "drop"
    /\ Delete(req[r].snap)
    /\ Go(r, "idle")
    /\ UNCHANGED <<row, job, puts, doomed>>

(* Writing the OpenFGA tuples of a new file; when it fails a copy deletes  *)
(* the body, and then both put the row in the trash.                       *)
WriteTuples(r) ==
    /\ req[r].pc = "tuples"
    /\ \/ Go(r, "idle") /\ UNCHANGED <<stored, doomed, faults>>
       \/ req[r].op = "upload" /\ Go(r, "discard") /\ UNCHANGED <<stored, doomed, faults>>
       \/ /\ req[r].op = "copy"
          /\ Delete(req[r].fresh)
          /\ doomed' = doomed \cup {req[r].fresh}
          /\ Go(r, "discard")
    /\ UNCHANGED <<row, job, puts>>

(* SoftDeleteDriveFile: only of a live row, and blind to its hold.         *)
Trash(r) ==
    /\ req[r].pc = "discard" \/ (req[r].pc = "write" /\ req[r].op = "delete")
    /\ IF stat = "active" THEN stat' = "deleted" /\ overdue' = FALSE
                          ELSE UNCHANGED <<stat, overdue>>
    /\ Go(r, "idle")
    /\ UNCHANGED <<key, held, purged, lock, stored, job, puts, doomed, faults>>

(* RestoreDriveFile.                                                       *)
Restorable_Purged == stat = "deleted"

Restorable == stat = "deleted" /\ ~purged

Restore(r) ==
    /\ req[r].pc = "write" /\ req[r].op = "restore"
    /\ IF Restorable
       THEN stat' = "active" /\ overdue' = FALSE /\ lock' = "none"
       ELSE UNCHANGED <<stat, overdue, lock>>
    /\ Go(r, "idle")
    /\ UNCHANGED <<key, held, purged, stored, job, puts, doomed, faults>>

(* permanentlyDeleteDriveFile deletes the body, whatever comes of it, and  *)
(* then tries MarkDriveFilePermanentlyDeleted.                             *)
Erase(r) ==
    /\ req[r].pc = "erase"
    /\ Delete(req[r].snap)
    /\ Go(r, "write")
    /\ UNCHANGED <<row, job, puts, doomed>>

Bury(r) ==
    /\ req[r].pc = "write" /\ req[r].op = "permanent"
    /\ IF stat = "deleted" /\ ~purged /\ ~held
       THEN purged' = TRUE /\ lock' = "none"
       ELSE UNCHANGED <<purged, lock>>
    /\ Go(r, "idle")
    /\ UNCHANGED <<stat, key, held, overdue, stored, job, puts, doomed, faults>>

(* AddLegalCaseFile's transaction does not look at deleted_at again.       *)
Hold(r) ==
    /\ req[r].pc = "write" /\ req[r].op = "hold"
    /\ held' = TRUE
    /\ req' = [q \in Request |->
                   IF q = r THEN NoReq
                   ELSE [req[q] EXCEPT !.early = @ \/ req[q].pc \notin {"idle", "check"}]]
    /\ UNCHANGED <<stat, key, overdue, purged, lock, stored, job, puts, doomed, faults>>

CrashRequest(r) ==
    /\ Fault
    /\ req[r].pc # "idle"
    /\ Go(r, "idle")
    /\ UNCHANGED <<row, stored, job, puts, doomed>>

-----------------------------------------------------------------------------
(* The purge of the data lifecycle job.                                    *)

(* ClaimDeletedFileObjectsForPurge: the hold is not among its conditions.  *)
Claimable_Held == stat = "deleted" /\ overdue /\ ~purged /\ lock = "none"

Claimable == stat = "deleted" /\ overdue /\ ~purged /\ lock # "fresh"

Claim(p) ==
    /\ job[p].pc = "idle" /\ Claimable
    /\ lock' = "fresh"
    /\ job' = [job EXCEPT ![p] = [pc |-> "erase", key |-> key]]
    /\ doomed' = doomed \cup {key}
    /\ UNCHANGED <<stat, key, held, overdue, purged, stored, req, puts, faults>>

(* storage.Delete, and what purgeDeletedBody does with its error.          *)
PurgeBody_ErrorIgnored(p) ==
    /\ job[p].pc = "erase"
    /\ Delete(job[p].key)
    /\ GoJob(p, "mark")
    /\ UNCHANGED <<row, req, puts, doomed>>

PurgeBody(p) ==
    /\ job[p].pc = "erase"
    /\ \/ /\ stored' = stored \ {job[p].key}
          /\ GoJob(p, "mark")
          /\ UNCHANGED faults
       \/ /\ Fault
          /\ GoJob(p, "release")
          /\ UNCHANGED stored
    /\ UNCHANGED <<row, req, puts, doomed>>

(* MarkFileObjectBodyPurged.                                               *)
MarkPurged(p) ==
    /\ job[p].pc = "mark"
    /\ IF stat = "deleted" /\ ~purged
       THEN purged' = TRUE /\ lock' = "none"
       ELSE UNCHANGED <<purged, lock>>
    /\ GoJob(p, "idle")
    /\ UNCHANGED <<stat, key, held, overdue, stored, req, puts,
                   doomed, faults>>

(* MarkFileObjectPurgeFailed.                                              *)
MarkFailed(p) ==
    /\ job[p].pc = "release"
    /\ lock' = IF purged THEN lock ELSE "none"
    /\ GoJob(p, "idle")
    /\ UNCHANGED <<stat, key, held, overdue, purged, stored, req, puts,
                   doomed, faults>>

PurgerCrash(p) ==
    /\ Fault
    /\ job[p].pc # "idle"
    /\ GoJob(p, "idle")
    /\ UNCHANGED <<row, stored, req, puts, doomed>>

(* Time: the retention of a deleted file, the timeout of a purge lock.     *)
RetentionEnds ==
    /\ stat = "deleted" /\ ~overdue
    /\ overdue' = TRUE
    /\ UNCHANGED <<stat, key, held, purged, lock, stored, req, job, puts,
                   doomed, faults>>

LockTimeout ==
    /\ lock = "fresh"
    /\ lock' = "stale"
    /\ UNCHANGED <<stat, key, held, overdue, purged, stored, req, job, puts, doomed, faults>>

-----------------------------------------------------------------------------
RequestStep(r) ==
    \/ Create(r) \/ ReadRow(r) \/ CheckHold(r) \/ PutObject(r) \/ Refuse(r)
    \/ Insert(r) \/ Overwrite(r) \/ ReplyLost(r) \/ DropOld(r) \/ WriteTuples(r)
    \/ Trash(r) \/ Restore(r) \/ Erase(r) \/ Bury(r) \/ Hold(r) \/ CrashRequest(r)

Purge(p) == Claim(p) \/ PurgeBody(p) \/ MarkPurged(p) \/ MarkFailed(p)

Next ==
    \/ \E r \in Request : RequestStep(r)
    \/ \E p \in Purger : Purge(p) \/ PurgerCrash(p)
    \/ RetentionEnds
    \/ LockTimeout

Spec == Init /\ [][Next]_vars

(* The job runs on a ticker and claims by age; clocks advance.             *)
Fairness ==
    /\ \A p \in Purger : WF_vars(Purge(p))
    /\ WF_vars(LockTimeout)

-----------------------------------------------------------------------------
(* A live file has its body, unless the body was already being removed:    *)
(* the file was restored under a purge or a permanent delete, or made by   *)
(* an operation that was undone.  However overwrites, saves, deletes and   *)
(* restores overlap and wherever they crash, what one of them cleans up is *)
(* never the body another one put in place.                                *)
BodyKept == stat = "active" /\ key \notin doomed => key \in stored

(* purged_at says the body is gone, whichever purger won the lock, crashed *)
(* or failed to delete.                                                    *)
TombstoneEmpty == purged => key \notin stored

(* A purged file is a tombstone: it never leaves the trash, and its row    *)
(* never names another body.                                               *)
PurgedIsFinal == [][purged => purged' /\ stat' = "deleted" /\ key' = key]_vars

(* A hold freezes a live file and its body against every operation that    *)
(* had not passed its check when the hold was committed, or had not begun  *)
(* to remove the body.                                                     *)
HoldProtects ==
    [][ held /\ stat = "active" /\ key \notin doomed /\ (\A r \in Request : ~req[r].early)
        => stat' = stat /\ key' = key /\ key' \in stored' ]_vars

(* A file left in the trash past its retention is purged, unless it is     *)
(* restored; a purger that dies or cannot delete the body is retried.      *)
TrashIsEmptied == (stat = "deleted" /\ overdue) ~> (purged \/ stat = "active")

(* TUTORIAL_OPENFGA_P6_REMAINING_TASKS.md: a file under legal hold refuses *)
(* to be purged.                                                           *)
HeldNotPurged == [][held /\ ~purged => ~purged']_vars
=============================================================================
