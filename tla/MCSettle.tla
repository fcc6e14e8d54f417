------------------------------ MODULE MCSettle ------------------------------
(* Two components whose background processes settle what is left open: the *)
(* purge of one file's body by the lifecycle job, and the handlers of one  *)
(* dataset's jobs.  They share no row, so one of them is at work in each   *)
(* behaviour.                                                              *)
EXTENDS MCDriveFile, DatasetTables

CONSTANT DatasetFaults \* how many of the faults may come to a dataset

VARIABLE part

fileVars   == <<stat, key, held, overdue, purged, lock, stored, req, job, puts, doomed>>
jobVars    == <<fate, tries, ok, at, datasetVars>>
settleVars == <<vars, jobVars, part>>

SettleInit == Init /\ DatasetInit /\ part \in {"file", "dataset"}

SettleNext ==
    /\ UNCHANGED part
    /\ \/ part = "file" /\ Next /\ UNCHANGED jobVars
       \/ part = "dataset" /\ DatasetNext /\ faults' <= DatasetFaults /\ UNCHANGED fileVars

SettleSpec == SettleInit /\ [][SettleNext]_settleVars /\ Fairness /\ DatasetFairness
=============================================================================
