# Verification of HaoHao

TLA+ models of the parts of HaoHao where concurrent processes, several
stores and partial failures meet, the TLC configurations that check them on
small instances, and TLAPS proofs of what matters most for instances of any
size. Source paths are relative to the repository; `service/`, `jobs/`,
`auth/`, `api/` and `middleware/` are under `src/backend/internal/`.

## 1. The system

HaoHao is a multi-tenant web application: a Go server (Gin, sqlc, PostgreSQL,
Redis, ClickHouse, OpenFGA, S3 or local file storage) with a Vue frontend. The
server is stateless but for its background jobs, which every process starts
(`cmd/main/main.go:275-369`). PostgreSQL transactions run at read committed.
Work that must follow a business change is written as a row of `outbox_events`
in the transaction of the change, and a polling worker calls the handler of
its type.

| Component | State | Operations | What makes it correct | Hard part |
|---|---|---|---|---|
| Outbox (`outbox_service.go`, `outbox_worker.go`) | `outbox_events` rows; a worker's claimed batch | enqueue, claim, handle, mark sent/retry/failed/dead, retention | one worker has a row at a time; a settled row tells what its runs returned; every row settles | several workers, crashes, run timeout, marks by id alone |
| Webhooks (`webhook_service.go`) | endpoints, deliveries | enqueue event, deliver, manual retry, update endpoint | the status tells what the receiver answered; an open delivery has somebody to post it | retry against a running delivery, two counters of attempts |
| Drive files (`drive_service*.go`, `data_lifecycle.go`) | `file_objects` row, body in storage, legal hold, purge lock | upload, copy, overwrite, public edit, save, trash, restore, permanent delete, hold, purge | a live row has its body; a purged row has none; a hold freezes | two stores without a common transaction; checks before writes |
| Drive sharing (`drive_service.go`, `drive_external_access_service.go`) | share rows; OpenFGA tuples | share, accept, change role, revoke, repair | rows and tuples agree | two stores with compensation |
| Edit sessions (`drive_collaboration_governance_service.go`) | sessions, one lock per file with a lease, revisions | start, heartbeat, save, end | sessions do not overwrite each other unseen | the save's transaction looks at nothing it checked before |
| Drive folders | rows of folders; OpenFGA parent tuples | create, move, inheritance, delete, restore, purge | the tree stays a tree; access is inherited from where a folder is | checks outside the transaction, tuples before rows |
| Data pipelines: versions | versions, `published_version_id` | save draft, publish | the pointer names a published version | overlapping transactions under row locks |
| Data pipelines: runs (`data_pipeline_service.go`, `data_pipeline_compile.go`, `data_pipeline_scheduler.go`) | runs, schedules, the output table in ClickHouse | request, schedule, run due schedules, handle | one active run per schedule; finished is final; no run is orphaned; output survives | scheduler processes, outbox retries, drop and rename of a table |
| Datasets (`dataset_service.go`, `dataset_gold_service.go`) | datasets, import, sync and export jobs, raw tables, gold publications and views | import, promote, sync, delete, publish, unpublish, export, export schedules | job, dataset, tables and views agree; no lost or doubled table or file | job status and effect in different statements and stores |
| Customer signal imports, tenant exports | job rows, generated files | request, handle | a retry repeats no effect | handlers without a status guard |
| OCR (`drive_ocr_service.go`) | OCR runs, pages, product items, an advisory lock | request, execute, extract items, execute in a pipeline | a completed run has the pages of one execution | the decision to execute is taken before the lock |
| Local search (`local_search_service.go`) | documents, embeddings, index jobs | index, rebuild, embed, search | the index follows the rows | readers that write later than they read |
| System jobs (`system_job_service.go`) | none of its own: rows and events of the others | list, stop | a stopped job stays stopped | the worker that has the event in hand |
| Sessions (`auth/session_store.go`) | session records and a per-user index in Redis | create, rotate, set tenant or support access, delete one or all | a deleted session stays deleted; delete-all misses none | commands of several keys, read-modify-write |
| Delegated OAuth grants | grant with encrypted refresh token | connect, refresh, revoke | a usable grant is not revoked; a rotated token is not lost | a provider that rotates tokens |
| Idempotency keys | key rows | begin, complete, fail, expire | one effect per key | crash between begin and complete |
| Invitations, memberships, provisioning | invitations, memberships, users | invite, accept, revoke, renew, reconcile | an invitation is settled once | concurrent accept and revoke |
| Pipeline graphs (`data_pipeline_graph.go`, `data_pipeline_compile.go`, `data_pipeline_unstructured.go`) | the graph of a version; rows of outputs and steps; tables of nodes in ClickHouse | save, publish, preview, run | what validation accepts can be executed; the rows of a run tell what was computed; no table is left | two ways of execution, errors of outputs, steps and run, dropped errors of the clean-up |
| RAG | | retrieve | results match their source | external engines |
| Rate limit, notifications, realtime, entitlements, settings, audit | counters, rows | single statements | | |
| HTTP API, frontend, platform | none of its own | | | |

How they interact. API handlers call services; services write rows and outbox
events in one transaction. The outbox worker calls webhook deliveries, pipeline
runs, dataset and gold jobs, imports, exports, OCR, search and notifications
(`outbox_handler.go`). The pipeline and export schedulers create jobs with
their outbox events. OCR and gold publications ask for search index jobs. The
data lifecycle job deletes settled events and expired keys and purges Drive
bodies; the reconcile job deactivates users, which ends their sessions and
grants. Drive writes OpenFGA tuples and storage bodies beside its rows. The
administrator's job list stops jobs of all tables.

## 2. Modules

| Module | Models |
|---|---|
| `DeliveryQueue` | what the outbox promises a producer, with no worker, lock or clock; `Outbox` implements it, `WebhookDelivery`, `PipelineRun` and `OutboxHandlers` rely on it |
| `Outbox` | table, workers, batches, marks, backoff, run timeout, faults, retention |
| `WebhookDelivery` | one delivery, its endpoint, the receiver, the events that ask for it, manual retry |
| `Faults` | the bounded number of failing statements and dying processes, for the modules below |
| `DriveFile` | one file: row, bodies, requests statement by statement, purge |
| `DriveSharing` | the shares of an item with one user and the tuples of that user |
| `DriveTree` | the folders: rows, parent tuples, moves, trash |
| `PipelineVersions`, `PipelinePublish` | the committed versions of a pipeline and the one atomic step `Publish`; the transaction under read committed and row locks that implements it |
| `DriveEditing` | the edit sessions of a file: lock, lease, revisions, saves |
| `PipelineGraph` | the graph of a version: validation, previews, one run of several outputs, the statuses of outputs, steps and run |
| `PipelineRun` | requests, schedules, schedulers and the handler of a run with its output table |
| `OutboxHandlers` | workers in the middle of handlers, over `DeliveryQueue`; the next six extend it |
| `GoldPublication` | publications, publish runs, internal tables, the view |
| `DatasetTables` | a dataset's row and raw tables under import, promotion, sync and deletion |
| `Exports` | work table exports, their schedule and generated files |
| `TenantJobs` | customer signal imports and tenant exports |
| `DriveOCR` | the OCR run of a revision: handlers and pipelines under the lock, pages, product items |
| `LocalSearch` | the search document of a publication, its embeddings, index, rebuild and embedding jobs |
| `SystemJobs` | the stop of a job against the worker of its event |
| `SessionStore` | a user's sessions in Redis command by command |
| `DelegatedGrant` | a grant, its callers, the provider |
| `Invitations` | invitations and the idempotency keys of the requests that change them |

`OutboxProofs`, `WebhookProofs`, `RequestsProofs` (over `MCRequests`),
`PipelineProofs` (over `MCPipeline`), `HandlerProofs`, `EventJobsProofs` (over
`MCEventJobs`), `DatasetProofs` and `DriveProofs` (over `MCDrive`) hold the
theorems. The `MC` modules instantiate: `MCOutbox`, `MCWebhook` and
`MCDriveFile` one component each; `MCDrive` (four), `MCPipeline` (`PipelineRun`
and `PipelineGraph`), `MCSettle` (`DriveFile` and `DatasetTables`), `MCRequests`
and `MCEventJobs` several components that
share no row, of which one, chosen initially, is at work in each behaviour, so
that one run asks the same question of all.

The composition follows the calls: a component that uses another is modelled
against the other's promise (`INSTANCE DeliveryQueue`, `EXTENDS
PipelineVersions`), and the promise is shown to be kept by the detailed module
(the properties `ImplementsQueue` and `ImplementsVersions`, each checked by TLC
and proved).

### How state and actions correspond to the code

*Outbox.* `status`, `attempts`, `wait` are columns of the row (`wait` is what
is left of `available_at`, in ticks of the backoff); `held` and `cur` are the
batch and the row a worker is at; `runs` and `ok` are history. `Claim` is
`ClaimOutboxEvents` (one statement with `SKIP LOCKED`), `Handle` one call of
`HandleOutboxEvent`, `Mark` the mark chosen from its result, `Expire` the end
of the run's context: the worker still calls the handlers left in its batch,
which return what they like, an error at their first statement or nil without
one, and marks have a context of their own (`outbox_worker.go:154-185`).
`ClaimLost`, `MarkError` and `Crash` are a claim whose reply is lost, a mark
that fails, and a process that dies. `Outbox` has no administrator; stops are
in `SystemJobs`.

*WebhookDelivery.* A run of the handler is `ReadRow` (delivery and endpoint),
`Post`, and `MarkDelivered` or `MarkFailed`: the code awaits between them. The
manual retry resets the row (`ResetForRetry`) and enqueues a new event in a
second statement (`EnqueueRetry`); `AbandonRetry` is the failure between. `api`
counts the retries that have reset and not yet enqueued: they may overlap. The
row's own `attempt_count` and the outbox's attempts are separate counters.

*DriveFile.* `stat`, `key`, `held`, `overdue`, `purged`, `lock` are columns of
`file_objects`; `stored` the bodies in storage; a request's `pc` names its next
statement, `snap` the storage key of the row it read, `fresh` the key it wrote.
`Delete` is `storage.Delete`, which may fail. Each operation of the code is the
path of one `op` through the statements; the shared statements (`CheckHold`,
`PutObject`, `Overwrite`, `Trash`) are shared actions, as in the code they are
shared functions. `Claim`, `PurgeBody`, `MarkPurged`, `MarkFailed` are
`purgeDeletedBody` and its statements.

*DriveSharing.* `share` holds the rows, `tuples` what OpenFGA has for the user
(a tuple names user, role and item, not the row), `task` a request's next step
with the role it read and the role it is to give, `repair` the rows that the
OpenFGA repair has listed and not yet looked at. Every compensation (the tuple
removed when the row cannot be marked active, the old tuple written back when a
change of role fails) is a step of its own. The repair writes a tuple unless
OpenFGA has answered that the access is there, so also when it did not answer.

*DriveTree.* `place` holds the rows, `parents` the tuples. A request looks at
the tree (the look-ups of one request are one step), writes tuples, then the
row, and undoes the tuples if the row's UPDATE finds nothing.

*DriveEditing.* `session` and `editLock` are rows, `revisions` counts those of
the file, apart from each other the ones saved under the lock and the others,
which only the properties tell apart. A request is `editSessionFile` (`Usable`)
and then one step per statement: the save compares revisions, stores the body
(in `DriveFile`) and commits. `LeaseEnds` is the clock past `expires_at`. A
heartbeat and an end of a session send two statements with arguments in one
`Exec`, which works with the simple protocol only (`simple`).

*PipelineGraph.* `graph` is what the editor has drawn, loops and dangling edges
included. `Valid`, `Acyclic` and the checks of save, preview and publish are
operators over it; `sub`, `goal`, `rel` are the subgraph an execution works on,
the node it is to compute and the nodes computed; `made` the tables of nodes,
which in a hybrid execution have the same name for every output of the run;
`result`, `outRow`, `stepRow`, `runRow` what the run knows and records. The
nodes are computed in the order of `dataPipelineTopologicalOrder`, one statement
each, after what a run needs before its first output (`StartFails`, `OpenHybrid`:
a hybrid run must know who asked for it); a statement may fail, and so may each DROP of the clean-up, whose error
the code drops.

*PipelinePublish.* `tx[p]` is the transaction of a request: the versions it has
still to archive and those it has archived but not committed. `LockedRows` are
the row locks PostgreSQL holds for it; an UPDATE of a locked row waits.
`vstatus` and `current` are the committed state others see.

*PipelineRun.* `run` and `sched` are rows, `job` the scheduler's open
transaction with its decision about each claimed schedule, `wrk` the handler
call of each outbox worker: `stage`, `drop`, `rename`, `finish` are the
ClickHouse and PostgreSQL statements of `executeRun`. `table` is the run whose
rows the output table holds. `ExpireRun` is a context that is done in the middle
of a handler; the statement it was at may have been applied (`CutShort`). A
schedule whose cron or time zone cannot be read (`mistimed`) is disabled and keeps
the time it was due at.

*OutboxHandlers.* `at[j]` is the next statement of the handler of job `j`'s
event; `Begin`, `Goto` and `Return` move it; what becomes of the event is
`DeliveryQueue`'s. A fault is a statement that fails, applied or not, a context
that is done, a crash, or a claim or mark that goes wrong. The guards by status
in the SQL are the guards of the actions; where a handler has none
(`TenantJobs`, `CompleteIndexJob`) neither has the model.

*GoldPublication*, *DatasetTables*, *Exports*, *TenantJobs.* PostgreSQL rows
(`pub`, `grun`; `ds`, `import`, `sync`; `exp`, `schedule`; `imp`, `texp`) and
what the handlers make outside them (`internal` tables and `view`; `tables` and
`full`; `files`; `signals` and `tfiles`). An import reads the dataset
(`ReadDataset`) and marks it `importing` (`MarkImporting`) in two statements,
between which it may be deleted or synced. Requests that read first and write
later (`edit`, `ask`, `update`) keep what they read.

*DriveOCR.* `ocr` is the run's row, with `by`, whose text it has, `page` who
wrote each page, `lock` the holder of `pg_advisory_lock`. Handlers (`at`),
pipelines (`step`) and manual requests (`asks`) look at the run, then wait for
the lock, then execute.

*LocalSearch.* `row` counts the changes of the publication; `doc` and `chunks`
say from which revision document and embeddings were made; `seen[j]` is what a
handler read. The document's id changes when it is deleted and written again,
and an embedding of a document that is gone violates its foreign key
(`Exists`).

*SystemJobs.* A row, its event and the `hand` of the worker; `kind` says what
the handlers of the row's table check before they begin and finish it. `StopJob`
is the transaction that fails the row and kills the event, `StopEvent` the stop
of an event by itself.

*SessionStore.* `life` and `ilife` are the TTLs of the records and of the set
`index`; a request is GET and TTL, then SET, SADD, EXPIRE; `Tick` is time. Redis
answers a TTL in rounded seconds, so a record in its last moment may answer
nothing left (`TTLAnswers`) and is saved as a new one.
`admin` is the deactivation: SMEMBERS, DEL.

*DelegatedGrant.* `grant` is the row; a caller's step is a statement or a call
of the provider (`valid`, `spent`, `rotates` are the provider's and external).

*Invitations.* `keys` are rows of `idempotency_keys`, `invite` the invitations,
`work` a request between its three transactions (begin the key, change the
invitation, complete the key).

## 3. What is checked

| Run | Instance | Properties and what they show |
|---|---|---|
| `outbox` | 2 workers, 3 events (one of unknown type), 2 attempts, batches of 2, 1 fault, fair | `ExclusiveClaim`, `SettledAsHandled`; `ImplementsQueue` (refinement: no run follows a success); `EventsSettle` (liveness) |
| `outbox_crash` | 1 worker, 2 events, 1 fault | `RecoversFromCrash`, violated: see findings |
| `webhook` | 1 or 2 workers, 3 events, 2 manual retries, 1 fault, fair | `StatusTruthful` under any interleaving; `OpenIsQueued` and `DeliverySettles` without a fault; `SettledIsFinal` with the one worker the runbook prescribes |
| `drive` | 1 fault, 2 requests at a time: a file with all operations, 1 purger, 3 bodies; 2 shares of one user; 2 folders; 2 edit sessions, 2 revisions | `BodyKept`, `PurgedIsFinal`, `HoldProtects`; `AccessFollowsShares`; `FoldersAgree`; `EditsBuildOnLast` |
| `settle` | a file without restore and permanent delete, 2 requests, 2 purgers, 2 faults; or a dataset with 1 import or promotion, 2 syncs, 1 caller, 2 attempts, 1 fault; fair | `TombstoneEmpty`, `TablesAccounted`; `TrashIsEmptied`, `JobsSettle` (liveness) |
| `drive_hold` | upload, delete, hold; 2 requests | `HeldNotPurged`, violated |
| `drive_tombstone` | upload, delete, permanent delete; 1 fault | `TombstoneEmpty`, violated |
| `pipeline` | 2 versions, 2 runs, 1 schedule, 1 requester, 2 schedulers, 2 workers, 1 fault or 1 expiry or both in one step; or one execution, with 1 failing statement, of any graph of 4 nodes and 3 edges with as many joins as its inputs need, or of 3 nodes and up to 2 edges with loops, double and dangling ones | `OneActiveRunPerSchedule`, `NoRunWhileDisabled`, `FinishedIsFinal`, `OutputStays`, `NoOrphanRun`; `GraphRuns` |
| `pipeline_timeout` | 1 scheduler, 1 worker, no fault, 2 expiries | `ProcessingIsHandled`, violated |
| `pipeline_manual` | one execution of small graphs, no fault | `RunsAsInManual`, violated |
| `event_jobs` | handlers with 2 attempts and 1 fault; per part: 2 gold runs of 2 publications with 1 editor; 2 exports, 1 owner; an import of 2 rows and a tenant export; an OCR run of 2 pages under 2 events with 2 extractions, or with a pipeline and a manual request; 2 index jobs or rebuilds with 2 embedding jobs of 2 chunks; a stopped job of any kind, claimed twice | `PublicationServed`, `LastStatusTruthful`, `EffectsAccounted`, `OffStaysOff`, `EventJobsAttended` |
| `requests` | 1 fault; per part: 3 versions and 3 publishers; 2 sessions with a life of 2 ticks, 2 clients, a deactivation; a grant with 3 tokens, 2 callers; 2 key rows, 2 invitations, 2 requests | `CurrentIsPublished`, `ImplementsVersions` (refinement); `EndedStaysEnded`; `GrantMatchesProvider`; `KeyTellsEffect`, `InvitationSettledOnce` |

`TypeOK`, `DriveTypeOK`, `PipelineTypeOK`, `EventJobsTypeOK` and
`RequestsTypeOK` are the type invariants. Some names stand for one question asked of several components:

- `PublicationServed`: `CompletedKeepsTable` (no retry or failure drops a
  completed run's table), `ViewTellsStatus` (the view is there while active
  and gone afterwards);
- `FoldersAgree`: `TreeStaysTree`, `TuplesFollowPlaces`;
- `EditsBuildOnLast`: a session has the lock until it or its lease has ended,
  and no other that has it saves between a save's comparison and its commit;
- `GraphRuns`: no accepted graph stops for its shape; a completed run has
  written every output, stored its review items and computed every step that it
  reports; no more tables of nodes stay than statements failed;
- `TablesAccounted`: `ReadyIsFull`, `ServedTableCommitted`, `NoStrayTable`;
- `JobsSettle`: a dataset that is being filled and a sync under way are settled
  whatever fails, but for what no attempt can make good (`FillForsaken`,
  `SyncForsaken`): a dead worker, attempts used up, and the two orders of
  statements of section 5 in which a retry returns at once;
- `EffectsAccounted`: `OneFilePerExport`, `TenantFileRecorded`,
  `ImportAccounted`, `PagesOfOneExecution`, `ItemsOfOneExtraction`,
  `SearchFollowsRow`;
- `OffStaysOff`: `ScheduleStaysOff`, `StopHolds`;
- `EventJobsAttended`: an open row has a handler or will be given one, in each
  of the six parts.

`settle` and `drive_tombstone` check the same invariant with different
operations: the purge job keeps it, the permanent delete breaks it.

Many properties name the window in which the code does not keep them, by a
history variable (`crossed`, `raced`, `clashed`, `forsaken`, `overtaken`,
`astray`, `ocrPast`): outside these windows the property holds under every
interleaving, and each window is listed in section 5 as behaviour.

### Bounds

Counters that only grow (attempts, bodies, faults, expiries, manual retries)
are bounded by guards named in CONSTANTS. The bounds are the smallest at which
every action fires and the cases the properties are about occur: two workers,
purgers or requests to contend, two attempts so that a retry and a last attempt
exist, three bodies so that two overwrites overlap after an upload, two runs so
that a schedule can wrongly have two, one expiry fewer than the attempts so that
a retry follows it (and as many as attempts in `pipeline_timeout`, where that is
the point). In `outbox` three events make a batch that does not fit. Three
versions are two to be published at once and one that both archive. Three
tokens are the first and one for each caller. Two folders are the least that
close a cycle. Two revisions let a save follow another, or an anonymous
editor's. Four nodes are a join with its two inputs and an output, or an input
with two outputs and a step; every order of their ids is there. Two pages, rows and chunks are a prefix and a rest: a failure or
another handler comes between.

Symmetry is used over identical model values where no liveness is checked:
sessions, clients and callers (`requests`), requests, purgers, folders and
edit sessions (`drive`), gold runs, publications and extractions, with the jobs of the other
parts that have the same names (`event_jobs`), and processes (`pipeline`; the
nodes of a graph are numbers and keep their order).
Fresh tokens, keys and rows are taken by CHOOSE.

`CHECK_DEADLOCK FALSE` is set everywhere because the bounds let each instance
come to rest: all events settled, all bodies used.

### Fairness

- `Outbox!FairSpec`: a worker is driven by a ticker, a handler runs in a
  context with a timeout and marks are issued in sequence, so a worker whose
  next step is enabled takes it (weak fairness of `WorkerStep`); time passes
  (`Tick`). Nothing is assumed of faults, expiry or retention.
- `WebhookDelivery!FairSpec`: the same for each event, and a retry request that
  has reset the row goes on to enqueue. Whether it fails instead is left open.
- `DatasetTables!DatasetFairness`: the workers poll, so a handler with a runnable
  event begins, and one that has begun goes on to its next statement, for the
  import and each sync. Nothing is assumed of requests, deletion or faults.
- `DriveFile!Fairness` (with the former in `SettleSpec` of `MCSettle`): the lifecycle job's ticker,
  and the clock past the lock timeout. Requests are not fair: a client may go
  away.
- The other modules have no fairness and only safety. That nothing is
  forgotten in them is stated as safety: `EventJobsAttended`, `NoOrphanRun`.

## 4. What is proved

All theorems are for every value of the constants that the assumptions beside
them allow: any number of workers, events, requests, purgers, versions, shares,
folders, sessions, tokens, keys and jobs, and any bounds. Every invariant and
every action property that a passing run checks is proved; only liveness is left
to the runs. The theorems on a composed specification (`DriveSpec` and the `Spec`
of `MCEventJobs`) go by an invariant that the component at work keeps, while the
others stay as they began; for `AllSpec` and `PipelineSpec`, by those of all the
components.

*OutboxProofs*: `TypeCorrect`, `ClaimsExclusive`, `SettledTruthfully`,
`SuccessIsLast` and `Refinement` (every step of the outbox is a step of
`DeliveryQueue` or invisible to it). The marks of the code name a row by id
alone, so exclusiveness cannot be read off them; the inductive invariant says
that a row in a worker's hand is `processing` and that only `pending` and
`failed` rows are claimable, and ties the attempts counter to the number of
runs, with one run of slack while the result of a run is not yet marked.

*WebhookProofs*: `WebhookTypesHold`, `RowsTruthful` (`StatusTruthful`),
`SettledStays` (`SettledIsFinal`) and `OpenDeliveriesQueued` (`OpenIsQueued`).
`WebhookInv` relates the place of an event's run to what the outbox knows of the
event (`EventOK`), bounds the row's count by the runs there have been, as the
cardinality of a set of pairs (`RowTruthful`), and keeps a single worker to one
run (`OneRun`). `OpenDeliveriesQueued` adds `QueuedInv`, that every failed run
was counted, and has the hypothesis `MaxAttempts <= QueueAttempts`: both default
to 8 (`webhook_service.go:38`, `config.go:359`), but the second is configurable,
and an outbox with fewer attempts than a delivery would leave it open without an
event.

*RequestsProofs*, the components that requests change. `RequestTypesHold`
states the types of all; `RequestsHold` and `RequestsImplementVersions` carry what
each promises to the specification that the run checks, where any may be at work.
- Publishing: `PublishTypesHold`, `PublishedPointerCorrect`,
  `ArchivedStaysArchived` and `PublishImplementsVersions`. A transaction past its
  first statement holds its own version's row, which is not archived
  (`MineInv`); what it has archived in its own eyes is still published in
  everybody else's and never its own version (`ArchInv`); no row is locked twice
  (`LockInv`). A commit then changes only rows no other transaction relies on.
- Sessions: `SessionTypesHold` and `SessionsStayEnded`. `SessionInv` says which
  requests may still write a session that has ended, that the user's set covers
  the live sessions it has not lost (`IndexCovers`), and what a deactivation has
  read and has still to delete (`AdminOK`).
- Idempotency keys and invitations: `KeysTellEffects` and
  `InvitationsSettledOnce`. A request that has begun a key is alone with the row
  (`Alone`) and knows what has been done under it (`BusyOK`), the row's status
  says so (`KeyOK`), and an invitation's row, members and history agree
  (`InviteOK`).
- Delegated grants: `GrantsMatchProvider`. `GrantInv` says that every token
  spoken of has been issued (`TokensOK`), what a caller at each of its steps knows
  of its tokens (`CallOK`), and that a token on its way from the provider to the
  row works and nobody else has it (`FreshOK`).

*PipelineProofs*, runs: `RunTypesHold`, `OneRunForEachSchedule`, `OutputIsThere`
(`OutputStays`), `NoRunIsOrphaned` (`NoOrphanRun`), `NoRunForDisabledSchedule`
and `FinishedRunsStay` (`FinishedIsFinal`); `PipelineHolds` carries them to the
specification the run checks. `RunInv` says what the fate of a run's event and
the run's row tell of each other (`RunOK`, `UnlostOK`), that a handler has a
processing run whose event is open, and has it alone (`CallOK`, `OneHandler`),
that a run which is or is about to be completed has its table (`TableOK`), and
that a schedule is in one transaction at a time, which makes a run only if there
is none (`ScheduleOK`).

*PipelineProofs*, graphs: `GraphsRun` (`GraphRuns`) and `PipelineTypesHold`.
`GraphInv` says that an execution has computed a prefix of the order of its
graph and has its goal before it (`WalkOK`), that the results of an output that
was written cover all nodes before it (`ResultOK`), and that every table too
many is due to a failed statement (`MadeOK`). What it rests on is that the order respects the
edges (`OrderSound`) and, if it is as long as the graph, has every node
(`OrderComplete`), and that a graph whose nodes all lead to outputs has an output
after each of them (`ValidLeadsOn`); hence no step of a completed run lacks a
result. `Order` and `Reachable` are recursive functions. That such a function
exists and what it computes is proved by induction on numbers, for each function
in its own lemma, from the library's fact that a well-founded relation has
minimal elements (`HasLeast`).

*HandlerProofs* holds what the components over `OutboxHandlers` share: that a
job with a handler has an open event with attempts left (`HandlersOK`), and what
each step of the outbox leaves alone.

*EventJobsProofs*: `EventJobTypesHold`, `GoldIsServed` (`PublicationServed`),
`ScheduleTellsTheTruth` (`LastStatusTruthful`), `EffectsMatchRows`
(`EffectsAccounted`), `OffHolds` (`OffStaysOff`) and `JobsAttended`
(`EventJobsAttended`), by one invariant for each component:
- `GoldInv`: how far the handler of a publish run has come against its row and
  table (`GoldRunInv`); the view is a publication's own only while it is active
  or a run of it has replaced the view and not said so (`ServedOK`).
- `ExportsInv` and `TenantInv`: the handler against row and files, and the status
  that the schedule shows (`LastOK`).
- `OcrInv`: only the holder of the advisory lock executes, and the pages it has
  passed are its own (`LockOK`); an extraction about to insert has deleted all
  there was (`ItemsOK`); somebody will leave the run settled (`AttendOK`).
- `SearchInv`: while no handler is overtaken, document and chunks are those of
  the latest revision written (`DocOK`, `SeenOK`), and somebody will write the
  row's revision (`IndexDue`) and its chunks (`EmbedDue`).
- `SystemJobsInv`: the worker's position against row and event (`HandOK`), what a
  handler that has returned left behind (`LeftOK`), what a stop has ended
  (`StopOK`) and who attends an open row (`AttendedOK`).

*DatasetProofs*: `DatasetTypesHold` and `TablesMatchRows` (`TablesAccounted`).
`DatasetInv`: no sync is about to make a table that is or was the dataset's
(`ServedOK`), one sync is active (`OneSync`), a sync that is about to commit has
copied and what it drops is not served (`SyncOK`), the dataset's table is full or
being filled (`FullOK`), and every table has a reason (`StrayOK`).

*DriveProofs*, one component after the other, then all (`DriveTypesHold`,
`DriveHolds` and `DriveKeeps`, the latter for what a step may not do to a purged or
a held file).
- Files: `FileTypesHold`, `BodyStays` (`BodyKept`), `PurgedStays`
  (`PurgedIsFinal`) and `HoldIsKept` (`HoldProtects`). A pending body is in
  storage and its key is known to its request alone (`PendingInv`); what a
  request or purger is about to delete is either not the key of the row or
  already doomed (`DropInv`); the row has its body in the trash too (`BodyInv`);
  while a file is being created no other request is under way (`CreateInv`); a
  request past its check when a hold lands is marked (`EarlyInv`). Two lemmas
  carry most actions: `MoveIInv` for a request that takes no new body into the
  row, `SwapIInv` for one that does.
- Tombstones: `PurgedHasNoBody` (`TombstoneEmpty`) for any operations but the two
  that work on the trash, restore and permanent delete. The second marks the row
  whether or not the body went, which is finding 3; a restore can race a purge.
  Without them a purger works on the row's own body and marks it when it is gone
  (`TombInv`).
- Editing: `EditsNeverLost` (`EditsBuildOnLast`). That a session has the lock
  says nothing of what was saved before, so `EditingInv` adds what a base
  revision counts: no more of the sessions' revisions than there are, and of the
  others' no more than there are now (`Counts`), whence a base equal to the
  current revision has seen every save (`BaseInv`); that a save which has
  compared is up to date while its session holds the lock (`SaveInv`); and that
  nobody else works on a session being started (`CallInv`).
- Sharing: `AccessIsShared` (`AccessFollowsShares`). Every tuple is that of a
  live share that no request is clearing (`TupleInv`), which without faults goes
  both ways (`FaultlessInv`), and a repair that nothing disturbs has on its list
  what has no access yet (`RepairInv`).
- Folders: `AccessFollowsTree` (`FoldersAgree`). The folders are a tree, a request
  that has looked at it is still right (`OrderlyInv`), and a folder agrees with
  its tuples (`Settled`) or its one request has got as far as its next step says
  (`WorkedOn`). What lies below a folder is the least set closed under children,
  so that `TreeMove` and its like need no induction: a set that is closed before
  a move is shown to be closed after it.

Two things the runs did not show and a failed proof did: an embedding job whose
document is deleted meanwhile fails on every attempt without any fault, so
`SearchAttended` has to except it; and the proofs about OCR need that
`ExtractEvent` and `PipelineStep` are disjoint, which is now assumed in
`DriveOCR`.

Only model-checked: liveness under fairness (`EventsSettle`, `DeliverySettles`,
`TrashIsEmptied`, `JobsSettle`), which is beyond the proof system. What the
folds of the community modules compute (`Upstreams` counts edges with one) is
never used: validation and compilation count with the same operator, and the
proofs need no more than that.

## 5. Findings

1. *A claimed outbox row is never recovered* (`outbox_crash`).
   `ClaimOutboxEvents` takes `pending` and `failed` rows; a row whose worker
   died before its mark stays `processing`. The tutorial says it may be sent
   again.
2. *A held file can be purged* (`drive_hold`). The purge does not look at
   `legal_hold_at`, and a delete that passed its check before the hold leaves a
   held file in the trash. The tutorial says a held file refuses to be purged.
3. *`purged_at` without deletion* (`drive_tombstone`). The permanent delete
   ignores the error of the storage and sets `purged_at`, and nothing deletes
   the body later. The tutorial says `purged_at` is when deletion succeeded.
4. *A run stuck in `processing`* (`pipeline_timeout`). A handler whose context
   has expired cannot mark its run failed in that context; at the last attempt
   the event is dead, the run stays `processing` for ever, and its schedule
   skips every turn.
5. *Runs that are not as the manual has them* (`pipeline_manual`, two findings).
   A completed run gives each step the count of its own node, where the manual
   has at line 1569 the count of the output on every step; and a graph of several
   outputs is accepted and completes, where the manual wants at line 1551 exactly
   one output (and at line 266 one or more). The violating run has two outputs and
   steps with counts of their own, and so contradicts both lines.

### Where the docs say otherwise, without a run

These were met while modelling too, and are read off the code; no run is spent on
them. A property of a passing run that meets one of them excepts it, some by the
history variable named here.

- *A deactivation can miss a session* (`astray`). Saving an old session gives the
  per-user set the old session's remaining life (`session_store.go:238`); when the
  set expires first, a deactivation finds nothing of the newer sessions.
  `docs/TUTORIAL_ZITADEL.md:10581` has the set so that all are found.
- *A deleted session can live again*. An update that has loaded the record writes
  it back after a logout has deleted it (`session_store.go:136`).
  `docs/TUTORIAL.md:1881` says that the value of a deleted cookie answers 401.
- *Signals imported twice*. An import inserts row by row without a transaction
  (`customer_signal_import_service.go:227`), so the retry of one that failed
  half-way inserts the first rows again.
  `docs/TUTORIAL_P7_WEB_SERVICE_COMMON.md:2128-2130` asks that handlers be
  idempotent.
- *A cycle of folders* (`raced`). Two moves at once each find no cycle
  (`drive_service_api.go:1155`) and together close one.
  `docs/DRIVE_OPENFGA_PERMISSIONS_SPEC.md:300` says moves are controlled so that
  there is none.
- *A save on another revision*. The commit of a save
  (`drive_collaboration_governance_service.go:539`) does not look at the revision
  again, and the storage of the body lies between.
  `docs/TUTORIAL_OPENFGA_P8_DRIVE_PRODUCT_EXPANSION.md:282` has the expected
  revision be the current one, or a conflict.
- *Access that is pending*. A share is marked `pending_sync` for any error of the
  write of its tuple (`drive_service.go:354`), one that was applied included.
  `docs/TUTORIAL_OPENFGA_P3_BACKEND_SERVICES.md:240` says that such a share gives
  no access.

### Behaviour worth knowing

Met while modelling, and set against no doc here; where a property has a window,
this is why.

- *Sharing.* Two revokes of one share at once, with a new share of the same
  role in between, remove the new share's tuple. A repair writes the tuple of a
  share that was revoked after it was listed. A `pending_sync` share whose
  tuple exists (see above) stays `pending_sync`. A share invitation that is revoked while
  it is accepted ends accepted: the UPDATE names the id only.
- *Folders.* A delete that is crossed by a move leaves a live folder in the
  trash. Moving a folder out of a
  trashed parent leaves the old parent tuple. Restoring a folder with stopped
  inheritance to another place fails, and its rollback writes the old tuple
  back. A restore does not change `inheritance_enabled`.
- *Edit sessions.* Heartbeats and ends of sessions fail under the protocol pgx
  uses by default. A session that met a conflict keeps its lock until the lease
  ends. A second save of one session that was under way, and a save that
  outlives its lease, overwrite unseen whatever their client expects. `OverwriteFile` looks at no lock and
  adds no revision. The revision rows of saves name bodies that the save
  deletes.
- *Graphs.* When `executeRun` fails as a whole, rows of outputs stay `pending`.
  A structured run fails when the rows of one step cannot be counted; a hybrid
  one computes the nodes of the whole graph for each output, so a node of an
  unrelated branch fails outputs that come after it in the order. Node ids that
  differ only in characters the compiler replaces (`a-b`, `a_b`) get one name.
  Table names of nodes keep 18 digits of the run's id. A preview that cannot
  connect for its clean-up leaves all its tables. Of two versions published at
  once, both can stay `published` (the pointer names one).
- *Search.* A handler that read earlier and writes later overwrites a newer
  document, or mixes embeddings of two revisions; a rebuild, which lists all
  rows first, has the widest window. An index job whose upsert failed is
  completed with a count and not retried. A job that is done but whose
  completion was not answered makes each retry fail until its event is dead. A
  Drive file that is trashed asks for no index job; its document stays and is
  hidden by the join of the search.
- *OCR.* A reset in the middle of an execution can leave a completed run
  without pages; a pipeline about to list the pages of its own execution can
  find none. A pipeline whose policy skips a file leaves the run `pending`. Two
  extractions that overlap double the items.
- *Datasets.* When the import job is completed and the statement that makes the
  dataset ready fails, the retry finds the job completed and returns, and the
  dataset stays `importing`. A sync whose context is done cannot record its
  failure and returns nil: it stays `processing`.
- *Stops.* An import, export, OCR run or index job that was stopped in a
  worker's hand may still be run, and retried. A pipeline run that was being
  executed may still become `completed`. Stopping only an event leaves its row
  open.

## 6. What is not modelled, and the plan

Left out of the modelled components: message and file contents, signatures and
encryption, authorisation decisions, audit and metrics, which rows `ORDER BY ...
LIMIT` prefers.

- Drive: quotas, the place of files (moved like folders, without the check of
  descent), workspaces, office locks, share links, groups,
  approvals; the look-ups of one move are one step.
- Pipelines: what the steps do with rows, names of tables and columns, work on
  stored review items, medallion records, archiving a whole pipeline.
- Datasets: sandbox queries, renaming, linking and truncating work tables,
  previews, the medallion catalogue.
- Sessions: the fields of a record, so that of two concurrent updates one is
  lost is not stated; support access rows; the login state (one GETDEL).
- Grants: revocation and expiry that the provider decides by itself.
- OCR and search: files deleted meanwhile, a lost connection of the advisory
  lock, documents of other kinds than gold publications, queries, RAG and the
  engines.
- System jobs: jobs without an event, each stopped by one guarded UPDATE.
- Components of single statements, text processing or pure input and output
  are listed with the reason in `PROJECT.json`.

Hazards listed without a property have a note saying why.

Plan: the places of files in the folders, with the composition of `DriveFile`
and `DriveTree` it needs; work on stored review items; a proof that
`DriveOCR` and `PipelineRun` agree on the pages a pipeline lists, for which the
two would have to be composed; and, of what has no property yet, the update of a
schedule that writes back the flag it read.
