----------------------------- MODULE LocalSearch -----------------------------
(***************************************************************************)
(* The local search index of one gold publication: its document, the       *)
(* embeddings of the document's chunks, and the jobs that bring both up to *)
(* date.  A change of the row asks for an index job after it is committed, *)
(* a job that writes the document asks for an embedding job, and a rebuild *)
(* indexes every row it has listed.  Documents of the other kinds are      *)
(* written by the same code from other rows.                               *)
(*                                                                         *)
(* Embeddings are switched on; the embedding runtime is external.          *)
(***************************************************************************)
EXTENDS OutboxHandlers

CONSTANTS IndexJob,   \* rows of local_search_index_jobs, for a change or a rebuild
          EmbedJob,   \* those for embeddings
          Chunks      \* chunks of a document

SearchJob == IndexJob \cup EmbedJob

ASSUME LocalSearchAssumption ==
    /\ SearchJob \subseteq Job
    /\ IndexJob \cap EmbedJob = {}
    /\ Chunks \in Nat \ {0}

VARIABLES
    row,      \* [rev, active], the publication: how often it was changed
    doc,      \* [id, rev], its document, made from that revision, or from 0
    chunks,   \* {<<ordinal, rev>>}, embeddings of the document
    sjob,     \* [SearchJob -> status]
    rebuilds, \* the index jobs that are rebuilds
    seen,     \* [SearchJob -> [rev, active, id] its handler has read]
    ordinal,  \* [EmbedJob -> chunks its handler has stored]
    newest,   \* history: [doc, emb], the latest revision written to each
    overtaken \* history: a handler wrote an older one after it

index      == <<doc, chunks, newest, overtaken>>
searchVars == <<row, index, sjob, rebuilds, seen, ordinal>>

SearchStep == {"read", "write", "ask", "drop", "upsert", "complete", "flawed", "fail"}

Undocumented == 0  \* the revision of a document that does not exist

LocalSearchTypeOK ==
    /\ HandlersTypeOK(SearchJob, SearchStep)
    /\ row \in [rev : Nat, active : BOOLEAN]
    /\ doc \in [id : Nat, rev : 0..row.rev]
    /\ chunks \subseteq (1..Chunks) \X (1..row.rev)
    /\ sjob \in [SearchJob -> {"absent", "asking", "queued", "processing", "failed", "done"}]
    /\ rebuilds \subseteq IndexJob
    /\ seen \in [SearchJob -> [rev : 0..row.rev, active : BOOLEAN, id : 0..doc.id]]
    /\ ordinal \in [EmbedJob -> 0..Chunks]
    /\ newest \in [doc : 0..row.rev, emb : 0..row.rev] /\ overtaken \in BOOLEAN
    /\ doc.rev = Undocumented => chunks = {}
    /\ \A j \in SearchJob : fate[j] = "absent" <=> sjob[j] \in {"absent", "asking"}

LocalSearchInit ==
    /\ row = [rev |-> 0, active |-> FALSE]
    /\ doc = [id |-> 0, rev |-> Undocumented]
    /\ chunks = {}
    /\ sjob = [j \in SearchJob |-> "absent"]
    /\ rebuilds = {}
    /\ seen = [j \in SearchJob |-> [rev |-> 0, active |-> FALSE, id |-> 0]]
    /\ ordinal = [x \in EmbedJob |-> 0]
    /\ newest = [doc |-> 0, emb |-> 0] /\ overtaken = FALSE

-----------------------------------------------------------------------------
(* Requests.                                                               *)

(* A publish run, an unpublish or an archive commits the row.              *)
ChangeRow(j) ==
    /\ sjob[j] = "absent"
    /\ \E a \in BOOLEAN : row' = [rev |-> row.rev + 1, active |-> a]
    /\ sjob' = [sjob EXCEPT ![j] = "asking"]
    /\ UNCHANGED <<handlerVars, index, rebuilds, seen, ordinal>>

(* RequestIndexBestEffort: the error of a request is dropped, and a        *)
(* process that dies never makes it.                                       *)
RequestIndex(j) ==
    /\ sjob[j] = "asking"
    /\ \/ sjob' = [sjob EXCEPT ![j] = "queued"] /\ Enqueue(j) /\ Unfailing
       \/ sjob' = [sjob EXCEPT ![j] = "absent"] /\ Fault /\ UNCHANGED <<eventVars, at>>
    /\ UNCHANGED <<row, index, rebuilds, seen, ordinal>>

RequestRebuild(j) ==
    /\ sjob[j] = "absent"
    /\ sjob' = [sjob EXCEPT ![j] = "queued"] /\ Enqueue(j)
    /\ rebuilds' = rebuilds \cup {j}
    /\ UNCHANGED <<row, index, seen, ordinal, faults>>

-----------------------------------------------------------------------------
(* What the handlers have in common.                                       *)

(* MarkLocalSearchIndexJobProcessing finds no row that is done, which is   *)
(* an error.                                                               *)
BeginSearch(j) ==
    /\ IF sjob[j] = "done"
       THEN Answer(j, FALSE) /\ UNCHANGED sjob
       ELSE Begin(j, "read") /\ sjob' = [sjob EXCEPT ![j] = "processing"]
    /\ UNCHANGED <<row, index, rebuilds, seen, ordinal>> /\ Unfailing

BeginSearchError(j) ==
    /\ Answer(j, FALSE) /\ Fault
    /\ UNCHANGED sjob \/ (sjob[j] # "done" /\ sjob' = [sjob EXCEPT ![j] = "processing"])
    /\ UNCHANGED <<row, index, rebuilds, seen, ordinal>>

(* The job is completed or skipped; a rebuild that could not write has     *)
(* failed, with the same statement.                                        *)
CompleteIndexJob(j) ==
    /\ at[j] \in {"complete", "flawed"}
    /\ \/ /\ sjob' = [sjob EXCEPT ![j] = IF at[j] = "flawed" THEN "failed" ELSE "done"]
          /\ \/ Return(j, TRUE) /\ Unfailing
             \/ Return(j, FALSE) /\ Fault
       \/ UNCHANGED sjob /\ Return(j, FALSE) /\ Fault
    /\ UNCHANGED <<row, index, rebuilds, seen, ordinal>>

(* failJob: the handler of a rebuild then returns nil, the others theirs.  *)
FailIndexJob(j) ==
    /\ at[j] = "fail"
    /\ \/ /\ sjob' = [sjob EXCEPT ![j] = "failed"]
          /\ Return(j, j \in rebuilds) /\ Unfailing
       \/ UNCHANGED sjob /\ Return(j, FALSE) /\ Fault
    /\ UNCHANGED <<row, index, rebuilds, seen, ordinal>>

(* Whoever writes what it read before another wrote what it read later     *)
(* crosses it.                                                             *)
Note(store, j) ==
    /\ newest' = [newest EXCEPT ![store] = IF seen[j].rev > @ THEN seen[j].rev ELSE @]
    /\ overtaken' = (overtaken \/ seen[j].rev < newest[store])

-----------------------------------------------------------------------------
(* HandleIndexRequested and HandleRebuildRequested.                        *)

ReadRow(j) ==
    /\ at[j] = "read"
    /\ \/ /\ seen' = [seen EXCEPT ![j] = [@ EXCEPT !.rev = row.rev, !.active = row.active]]
          /\ Goto(j, "write") /\ Unfailing
       \/ UNCHANGED seen /\ Goto(j, "fail") /\ Fault
    /\ UNCHANGED <<row, index, sjob, rebuilds, ordinal>>

UpsertDocument(j) ==
    doc' = [id |-> IF doc.rev = Undocumented THEN doc.id + 1 ELSE doc.id, rev |-> seen[j].rev]

WriteDocument_KeepsHidden(j) ==
    /\ at[j] = "write"
    /\ IF seen[j].active THEN UpsertDocument(j) /\ Goto(j, "ask")
                         ELSE UNCHANGED doc /\ Goto(j, "complete")
    /\ Note("doc", j) /\ Unfailing
    /\ UNCHANGED <<row, chunks, sjob, rebuilds, seen, ordinal>>

(* The embeddings go with a document that is deleted.  An error of the     *)
(* upsert is counted, one of the deletion ignored, and the job goes on.    *)
WriteDocument(j) ==
    LET next == IF seen[j].active /\ j \in rebuilds THEN "flawed" ELSE "complete" IN
    /\ at[j] = "write"
    /\ \/ /\ seen[j].active
          /\ UpsertDocument(j) /\ UNCHANGED chunks /\ Note("doc", j)
          /\ \/ Goto(j, "ask") /\ Unfailing
             \/ Goto(j, next) /\ Fault
       \/ /\ ~seen[j].active
          /\ doc' = [doc EXCEPT !.rev = Undocumented] /\ chunks' = {}
          /\ Goto(j, "complete") /\ Note("doc", j) /\ Unfailing
       \/ /\ Goto(j, next) /\ Fault
          /\ UNCHANGED index
    /\ UNCHANGED <<row, sjob, rebuilds, seen, ordinal>>

(* requestEmbeddingBestEffort.                                             *)
RequestEmbedding(j) ==
    /\ at[j] = "ask"
    /\ at' = [at EXCEPT ![j] = "complete"]
    /\ \/ \E x \in EmbedJob :
             /\ sjob[x] = "absent"
             /\ sjob' = [sjob EXCEPT ![x] = "queued"] /\ Queue!Publish(x) /\ Unfailing
       \/ UNCHANGED <<sjob, eventVars>> /\ Fault
    /\ UNCHANGED <<row, index, rebuilds, seen, ordinal>>

-----------------------------------------------------------------------------
(* HandleEmbeddingRequested.                                               *)

ReadDocument(x) ==
    /\ at[x] = "read"
    /\ \/ /\ doc.rev # Undocumented
          /\ seen' = [seen EXCEPT ![x] = [rev |-> doc.rev, active |-> TRUE, id |-> doc.id]]
          /\ Goto(x, "drop") /\ Unfailing
       \/ doc.rev = Undocumented /\ UNCHANGED seen /\ Goto(x, "complete") /\ Unfailing
       \/ UNCHANGED seen /\ Goto(x, "fail") /\ Fault
    /\ UNCHANGED <<row, index, sjob, rebuilds, ordinal>>

Exists(x) == doc.rev # Undocumented /\ doc.id = seen[x].id

(* After the runtime has answered.                                         *)
DropChunks(x) ==
    /\ at[x] = "drop"
    /\ ordinal' = [ordinal EXCEPT ![x] = 0]
    /\ \/ /\ chunks' = IF Exists(x) THEN {} ELSE chunks
          /\ Note("emb", x)
          /\ \/ Goto(x, "upsert") /\ Unfailing
             \/ Goto(x, "fail") /\ Fault
       \/ UNCHANGED <<chunks, newest, overtaken>> /\ Goto(x, "fail") /\ Fault
    /\ UNCHANGED <<row, doc, sjob, rebuilds, seen>>

UpsertChunk_Short(x) ==
    LET c == ordinal[x] + 1 IN
    /\ at[x] = "upsert" /\ Exists(x)
    /\ chunks' = chunks \cup {<<c, seen[x].rev>>}
    /\ ordinal' = [ordinal EXCEPT ![x] = c] /\ Note("emb", x)
    /\ Goto(x, IF c + 1 >= Chunks THEN "complete" ELSE "upsert") /\ Unfailing
    /\ UNCHANGED <<row, doc, sjob, rebuilds, seen>>

(* One statement for each chunk; the document must still be there.         *)
UpsertChunk(x) ==
    LET c == ordinal[x] + 1 IN
    /\ at[x] = "upsert"
    /\ \/ /\ Exists(x)
          /\ chunks' = chunks \cup {<<c, seen[x].rev>>}
          /\ ordinal' = [ordinal EXCEPT ![x] = c] /\ Note("emb", x)
          /\ \/ Goto(x, IF c = Chunks THEN "complete" ELSE "upsert") /\ Unfailing
             \/ Goto(x, "fail") /\ Fault
       \/ /\ Goto(x, "fail") /\ IF Exists(x) THEN Fault ELSE Unfailing
          /\ UNCHANGED <<chunks, ordinal, newest, overtaken>>
    /\ UNCHANGED <<row, doc, sjob, rebuilds, seen>>

(* The context is done, as in the other handlers.                          *)
ExpireSearch(j) == InHand(j) /\ Return(j, FALSE) /\ Fault /\ UNCHANGED searchVars

-----------------------------------------------------------------------------
LocalSearchNext ==
    \/ \E j \in IndexJob :
          \/ ChangeRow(j) \/ RequestIndex(j) \/ RequestRebuild(j)
          \/ ReadRow(j) \/ WriteDocument(j) \/ RequestEmbedding(j)
    \/ \E x \in EmbedJob : ReadDocument(x) \/ DropChunks(x) \/ UpsertChunk(x)
    \/ \E j \in SearchJob :
          \/ BeginSearch(j) \/ BeginSearchError(j)
          \/ CompleteIndexJob(j) \/ FailIndexJob(j) \/ ExpireSearch(j)
          \/ OutboxStep(j) /\ UNCHANGED searchVars

-----------------------------------------------------------------------------
(* Properties.                                                             *)

(* When every job is done, the document is the row's, or gone with a row   *)
(* that is not active, and its embeddings are those of the document, each  *)
(* chunk once, unless something failed, or a handler was overtaken by one  *)
(* that read later, which nothing in the code prevents.                    *)
SearchFollowsRow ==
    faults = 0 /\ ~overtaken /\ (\A j \in SearchJob : sjob[j] \in {"absent", "done"}) =>
        /\ doc.rev = IF row.active THEN row.rev ELSE Undocumented
        /\ chunks = IF row.active THEN (1..Chunks) \X {row.rev} ELSE {}

(* A job that is not done has a handler or will be given one, unless       *)
(* something failed.  Embedding a document that is deleted meanwhile is a  *)
(* failure of the job alone, which is retried as often as its event is.    *)
SearchAttended ==
    faults > 0 \/ \A j \in SearchJob :
        sjob[j] \in {"queued", "processing", "failed"} =>
            Attended(j) \/ (j \in EmbedJob /\ sjob[j] = "failed" /\ tries[j] = MaxAttempts)
==============================================================================
