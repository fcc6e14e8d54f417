--------------------------- MODULE PipelinePublish ---------------------------
(***************************************************************************)
(* PublishVersion, statement by statement, for several requests at once.   *)
(* The transaction runs at read committed: a statement sees what was       *)
(* committed when it began, an UPDATE waits for the lock of each row it    *)
(* changes and then looks at the row again, and nobody sees anything of    *)
(* the transaction before it commits.                                      *)
(***************************************************************************)
CONSTANTS Version,    \* rows of data_pipeline_versions of the pipeline
          Publisher,  \* requests that publish a version
          NoVersion   \* NULL

ASSUME PublishAssumption == NoVersion \notin Version

VARIABLES vstatus,    \* [Version -> VersionStatus], the committed status column
          current,    \* the committed published_version_id of the pipeline
          tx          \* [Publisher -> the state of its request]

vars == <<vstatus, current, tx>>

Committed == INSTANCE PipelineVersions

(* pc is the next statement; mine the version to publish; todo the rows    *)
(* the archive statement has still to change, arch those it has changed.   *)
TxState == [pc   : {"idle", "update", "snapshot", "archive", "commit"},
            mine : Version \cup {NoVersion},
            todo : SUBSET Version,
            arch : SUBSET Version]

NoTx == [pc |-> "idle", mine |-> NoVersion, todo |-> {}, arch |-> {}]

TypeOK == /\ Committed!VersionTypeOK
          /\ tx \in [Publisher -> TxState]
          /\ \A p \in Publisher : tx[p].pc # "idle" => tx[p].mine \in Version

Init == /\ Committed!VersionInit
        /\ tx = [p \in Publisher |-> NoTx]

SaveDraft(v) == Committed!SaveDraft(v) /\ UNCHANGED tx

(* The version rows whose lock p's transaction holds.                      *)
LockedRows(p) ==
    tx[p].arch \cup (IF tx[p].pc \in {"idle", "update"} THEN {} ELSE {tx[p].mine})

Free_Always(p, v) == TRUE

Free(p, v) == \A q \in Publisher \ {p} : v \notin LockedRows(q)

(* The version is read, of whatever status, and its graph is validated.    *)
ReadVersion(p, v) ==
    /\ tx[p].pc = "idle"
    /\ vstatus[v] # "absent"
    /\ tx' = [tx EXCEPT ![p] = [NoTx EXCEPT !.pc = "update", !.mine = v]]
    /\ UNCHANGED <<vstatus, current>>

MarkPublished_RowUnchecked(p) ==
    /\ tx[p].pc = "update"
    /\ Free(p, tx[p].mine)
    /\ tx' = [tx EXCEPT ![p].pc = "snapshot",
                        ![p].mine = IF vstatus[@] = "archived" THEN NoVersion ELSE @]
    /\ UNCHANGED <<vstatus, current>>

(* PublishDataPipelineVersion; an archived version matches no row, and the *)
(* transaction is rolled back.                                             *)
MarkPublished(p) ==
    /\ tx[p].pc = "update"
    /\ Free(p, tx[p].mine)
    /\ tx' = [tx EXCEPT ![p] = IF vstatus[tx[p].mine] = "archived" THEN NoTx
                               ELSE [@ EXCEPT !.pc = "snapshot"]]
    /\ UNCHANGED <<vstatus, current>>

(* The rows ArchivePublishedDataPipelineVersionsExcept finds as it begins. *)
OtherPublished_Own(p) == {v \in Version : vstatus[v] = "published"} \cup {tx[p].mine}

OtherPublished(p) == {v \in Version \ {tx[p].mine} : vstatus[v] = "published"}

FindOthers(p) ==
    /\ tx[p].pc = "snapshot"
    /\ tx' = [tx EXCEPT ![p].pc = "archive", ![p].todo = OtherPublished(p)]
    /\ UNCHANGED <<vstatus, current>>

(* It changes a row it found once the row's lock is free, if the row is    *)
(* still published by then.                                                *)
ArchiveOther(p, v) ==
    /\ v \in tx[p].todo
    /\ Free(p, v)
    /\ tx' = [tx EXCEPT ![p].todo = @ \ {v},
                        ![p].arch = IF vstatus[v] = "published" THEN @ \cup {v} ELSE @]
    /\ UNCHANGED <<vstatus, current>>

(* SetDataPipelinePublishedVersion takes the lock of the pipeline's row.   *)
SetCurrent(p) ==
    /\ tx[p].pc = "archive" /\ tx[p].todo = {}
    /\ \A q \in Publisher : tx[q].pc # "commit"
    /\ tx' = [tx EXCEPT ![p].pc = "commit"]
    /\ UNCHANGED <<vstatus, current>>

Commit(p) ==
    /\ tx[p].pc = "commit"
    /\ vstatus' = [v \in Version |-> IF v \in tx[p].arch THEN "archived"
                                     ELSE IF v = tx[p].mine THEN "published"
                                     ELSE vstatus[v]]
    /\ current' = tx[p].mine
    /\ tx' = [tx EXCEPT ![p] = NoTx]

(* A failed statement, a cancelled request, the victim of a deadlock.      *)
Rollback(p) ==
    /\ tx[p].pc # "idle"
    /\ tx' = [tx EXCEPT ![p] = NoTx]
    /\ UNCHANGED <<vstatus, current>>

PublishVersion(p) ==
    \/ \E v \in Version : ReadVersion(p, v) \/ ArchiveOther(p, v)
    \/ MarkPublished(p)
    \/ FindOthers(p)
    \/ SetCurrent(p)
    \/ Commit(p)
    \/ Rollback(p)

Next == \/ \E v \in Version : SaveDraft(v)
        \/ \E p \in Publisher : PublishVersion(p)

Spec == Init /\ [][Next]_vars

-----------------------------------------------------------------------------
(* Properties.                                                             *)

(* The version the pipeline points at is published: no interleaving of the *)
(* publish transactions, which archive each other's versions and set the   *)
(* pointer under different row locks, leaves it at an archived version,    *)
(* which RequestRun refuses (data_pipeline_service.go:1361-1370).          *)
CurrentIsPublished == current # NoVersion => vstatus[current] = "published"

(* A version once archived is never published again, also when its publish *)
(* request had read it before it was archived: schedules pinned to it stay *)
(* off for good.                                                           *)
ArchivedStays ==
    [][\A v \in Version : vstatus[v] = "archived" => vstatus'[v] = "archived"]_vars

(* To everyone else a publication is one step of PipelineVersions.         *)
ImplementsVersions == Committed!VersionSpec
=============================================================================
