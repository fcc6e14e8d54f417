--------------------------- MODULE GoldPublication ---------------------------
(***************************************************************************)
(* Publishing a work table as a gold table: publication rows and publish   *)
(* runs in PostgreSQL, and in ClickHouse the internal copy of each run and *)
(* the view that readers query.  Every publication wants the same gold     *)
(* table name, the hard case, so there is one view.                        *)
(***************************************************************************)
EXTENDS OutboxHandlers

CONSTANTS Publication,  \* rows of dataset_gold_publications
          GoldRun,      \* rows of dataset_gold_publish_runs
          Editor,       \* requests that unpublish or archive
          NoPublication

ASSUME GoldAssumption ==
    /\ GoldRun \subseteq Job
    /\ NoPublication \notin Publication

VARIABLES
    pub,      \* [Publication -> status]
    grun,     \* [GoldRun -> [status, pub]]
    asked,    \* publications a refresh request has found publishable
    edit,     \* [Editor -> [at, pub, to]], an unpublish or archive under way
    internal, \* runs whose internal table exists
    view,     \* the run whose internal table the view selects from
    crossed   \* history: publications whose view an edit and a run crossed on

goldVars == <<pub, grun, asked, edit, internal, view, crossed>>

PubStatus == {"absent", "pending", "active", "failed", "unpublished", "archived"}
Withdrawn == {"unpublished", "archived"}
GoldActive == {"pending", "processing"}
GoldStep == {"check", "drop", "create", "view", "complete", "activate", "fail", "failpub"}

NoEdit == [at |-> "idle", pub |-> NoPublication, to |-> "archived"]

GoldTypeOK ==
    /\ HandlersTypeOK(GoldRun, GoldStep)
    /\ pub \in [Publication -> PubStatus]
    /\ grun \in [GoldRun -> [status : {"absent", "pending", "processing", "completed", "failed"},
                             pub : Publication \cup {NoPublication}]]
    /\ asked \subseteq Publication
    /\ edit \in [Editor -> [at : {"idle", "drop", "update"},
                            pub : Publication \cup {NoPublication}, to : Withdrawn]]
    /\ internal \subseteq GoldRun
    /\ view \in GoldRun \cup {NoJob}
    /\ crossed \subseteq Publication
    /\ \A r \in GoldRun : /\ grun[r].status # "absent" <=> fate[r] # "absent"
                          /\ grun[r].status # "absent" => grun[r].pub \in Publication

GoldInit ==
    /\ pub = [p \in Publication |-> "absent"]
    /\ grun = [r \in GoldRun |-> [status |-> "absent", pub |-> NoPublication]]
    /\ asked = {}
    /\ edit = [e \in Editor |-> NoEdit]
    /\ internal = {} /\ view = NoJob
    /\ crossed = {}

(* The publications that have the gold table's name: the unique index.     *)
Named == {p \in Publication : pub[p] \notin {"absent", "archived"}}

PubOf(r) == grun[r].pub

-----------------------------------------------------------------------------
(* Requests.                                                               *)

CreateRun_NoEvent(p) ==
    \E r \in GoldRun :
        /\ grun[r].status = "absent"
        /\ grun' = [grun EXCEPT ![r] = [status |-> "pending", pub |-> p]]
        /\ UNCHANGED <<eventVars, at>>

CreateRun(p) ==
    \E r \in GoldRun :
        /\ grun[r].status = "absent"
        /\ grun' = [grun EXCEPT ![r] = [status |-> "pending", pub |-> p]]
        /\ Enqueue(r)

(* RequestGoldPublication: publication, run and event in one transaction.  *)
RequestGoldPublication(p) ==
    /\ pub[p] = "absent"
    /\ Named = {}
    /\ pub' = [pub EXCEPT ![p] = "pending"]
    /\ CreateRun(p)
    /\ UNCHANGED <<asked, edit, internal, view, crossed, faults>>

(* RequestGoldRefresh reads the publication ...                            *)
CheckRefresh(p) ==
    /\ pub[p] \in {"pending", "active", "failed"}
    /\ asked' = asked \cup {p}
    /\ UNCHANGED <<handlerVars, pub, grun, edit, internal, view, crossed>>

(* ... and creates a run, unless one is active: the unique index.          *)
RequestGoldRefresh(p) ==
    /\ p \in asked
    /\ asked' = asked \ {p}
    /\ IF \E r \in GoldRun : grun[r].pub = p /\ grun[r].status \in GoldActive
       THEN UNCHANGED <<grun, handlerVars>>
       ELSE CreateRun(p) /\ Unfailing
    /\ UNCHANGED <<pub, edit, internal, view, crossed>>

(* The publications of runs that have replaced the view and not yet said   *)
(* so in their rows.                                                       *)
HalfPublished == {PubOf(r) : r \in {x \in GoldRun : at[x] \in {"complete", "activate"}}}

ReadForEdit_NoDrop(e, p, to) ==
    /\ edit[e] = NoEdit
    /\ pub[p] # "absent"
    /\ edit' = [edit EXCEPT ![e] = [at |-> "update", pub |-> p, to |-> to]]
    /\ crossed' = crossed \cup ({p} \cap HalfPublished)
    /\ UNCHANGED <<handlerVars, pub, grun, asked, internal, view>>

(* UnpublishGoldPublication and ArchiveGoldPublication: the row is read,   *)
(* the view dropped if the row said 'active', the row updated.             *)
ReadForEdit(e, p, to) ==
    /\ edit[e] = NoEdit
    /\ pub[p] # "absent"
    /\ edit' = [edit EXCEPT ![e] = [at |-> IF pub[p] = "active" THEN "drop" ELSE "update",
                                    pub |-> p, to |-> to]]
    /\ crossed' = crossed \cup ({p} \cap HalfPublished)
    /\ UNCHANGED <<handlerVars, pub, grun, asked, internal, view>>

DropView(e) ==
    LET p == edit[e].pub IN
    /\ edit[e].at = "drop"
    /\ view' = NoJob
    /\ edit' = [edit EXCEPT ![e].at = "update"]
    /\ crossed' = crossed \cup HalfPublished \cup (Named \ {p})
    /\ UNCHANGED <<handlerVars, pub, grun, asked, internal>>

(* An archived row stays as it is; an edit of it finds nothing.            *)
UpdateStatus(e) ==
    /\ edit[e].at = "update"
    /\ pub' = [pub EXCEPT ![edit[e].pub] = IF @ = "archived" THEN @ ELSE edit[e].to]
    /\ edit' = [edit EXCEPT ![e] = NoEdit]
    /\ UNCHANGED <<handlerVars, grun, asked, internal, view, crossed>>

(* The edit stops: a statement fails, or its process dies.                 *)
AbandonEdit(e) ==
    /\ edit[e] # NoEdit
    /\ edit' = [edit EXCEPT ![e] = NoEdit]
    /\ Fault
    /\ UNCHANGED <<eventVars, at, pub, grun, asked, internal, view, crossed>>

-----------------------------------------------------------------------------
(* HandleGoldPublishRequested.                                             *)

SetRun(r, s) == grun' = [grun EXCEPT ![r].status = s]

Requests == <<asked, edit>>  \* what no handler changes

Stores == <<internal, view, crossed>>

BeginGold_AnyStatus(r) ==
    /\ Begin(r, "check")
    /\ SetRun(r, "processing")
    /\ UNCHANGED <<pub, Requests, Stores>> /\ Unfailing

(* A run of before that has finished is not done again; any other is       *)
(* marked processing.                                                      *)
BeginGold(r) ==
    /\ \/ /\ grun[r].status \in GoldActive
          /\ Begin(r, "check")
          /\ SetRun(r, "processing")
       \/ /\ grun[r].status \notin GoldActive
          /\ Answer(r, TRUE)
          /\ UNCHANGED grun
    /\ UNCHANGED <<pub, Requests, Stores>> /\ Unfailing

BeginGoldError(r) ==
    /\ Answer(r, FALSE)
    /\ \/ grun[r].status \in GoldActive /\ SetRun(r, "processing")
       \/ UNCHANGED grun
    /\ Fault
    /\ UNCHANGED <<pub, Requests, Stores>>

CheckPublishable_Silent(r) ==
    /\ at[r] = "check"
    /\ \/ pub[PubOf(r)] \notin Withdrawn /\ Goto(r, "drop")
       \/ Return(r, TRUE)
    /\ UNCHANGED goldVars /\ Unfailing

(* The publication is read, and the work table, which may be gone.         *)
CheckPublishable(r) ==
    /\ at[r] = "check"
    /\ \/ pub[PubOf(r)] \notin Withdrawn /\ Goto(r, "drop")
       \/ Goto(r, "fail")
    /\ UNCHANGED goldVars /\ Unfailing

(* copyWorkTableToGoldInternal: DROP TABLE IF EXISTS, CREATE TABLE AS.     *)
DropInternal(r) ==
    /\ at[r] = "drop"
    /\ internal' = internal \ {r}
    /\ Goto(r, "create") \/ Goto(r, "fail")
    /\ UNCHANGED <<pub, grun, Requests, view, crossed>> /\ Unfailing

CreateInternal(r) ==
    /\ at[r] = "create"
    /\ \/ internal' = internal \cup {r} /\ Goto(r, "view")
       \/ UNCHANGED internal /\ Goto(r, "fail")
    /\ UNCHANGED <<pub, grun, Requests, view, crossed>> /\ Unfailing

(* Publications whose view this replacement crosses: its own if an edit of *)
(* it is under way or done, and the one that has the name if another does. *)
Crosses(p) ==
    (IF pub[p] \in Withdrawn \/ \E e \in Editor : edit[e].pub = p THEN {p} ELSE {})
    \cup (Named \ {p})

(* replaceGoldView.  If it fails the internal table is dropped, and that   *)
(* is wrong when the statement was applied.                                *)
ReplaceView(r) ==
    /\ at[r] = "view"
    /\ \/ /\ view' = r
          /\ crossed' = crossed \cup Crosses(PubOf(r))
          /\ Goto(r, "complete") /\ Unfailing
          /\ UNCHANGED internal
       \/ /\ internal' = internal \ {r}
          /\ Goto(r, "fail") /\ Unfailing
          /\ UNCHANGED <<view, crossed>>
       \/ /\ view' = r
          /\ crossed' = crossed \cup Crosses(PubOf(r))
          /\ internal' = internal \ {r}
          /\ Goto(r, "fail") /\ Fault
    /\ UNCHANGED <<pub, grun, Requests>>

CompleteRun(r) ==
    /\ at[r] = "complete"
    /\ \/ SetRun(r, "completed") /\ Goto(r, "activate") /\ Unfailing
       \/ SetRun(r, "completed") /\ Return(r, FALSE) /\ Fault
       \/ UNCHANGED grun /\ Return(r, FALSE) /\ Fault
    /\ UNCHANGED <<pub, Requests, Stores>>

(* An archived publication is not made active, which is an error.          *)
Activate(r) ==
    /\ at[r] = "activate"
    /\ \/ /\ pub[PubOf(r)] # "archived"
          /\ pub' = [pub EXCEPT ![PubOf(r)] = "active"]
          /\ \/ Return(r, TRUE) /\ Unfailing
             \/ Return(r, FALSE) /\ Fault
       \/ /\ pub[PubOf(r)] = "archived"
          /\ UNCHANGED pub
          /\ Return(r, FALSE) /\ Unfailing
       \/ UNCHANGED pub /\ Return(r, FALSE) /\ Fault
    /\ UNCHANGED <<grun, Requests, Stores>>

(* failGoldPublishRun: two statements whose errors are dropped; the        *)
(* handler returns nil.                                                    *)
FailRun(r) ==
    /\ at[r] = "fail"
    /\ Goto(r, "failpub")
    /\ \/ SetRun(r, "failed") /\ Unfailing
       \/ UNCHANGED grun /\ Fault
    /\ UNCHANGED <<pub, Requests, Stores>>

FailPublication(r) ==
    /\ at[r] = "failpub"
    /\ Return(r, TRUE)
    /\ \/ /\ pub' = [pub EXCEPT ![PubOf(r)] = IF @ \in {"active", "archived"} THEN @ ELSE "failed"]
          /\ Unfailing
       \/ UNCHANGED pub /\ Fault
    /\ UNCHANGED <<grun, Requests, Stores>>

(* The context is done: whatever comes next fails, marking the failure too.*)
ExpireGold(r) ==
    /\ at[r] \in {"check", "drop", "create", "view"}
    /\ Return(r, TRUE)
    /\ Fault
    /\ UNCHANGED goldVars

-----------------------------------------------------------------------------
EditorStep(e) == \/ \E p \in Publication, to \in Withdrawn : ReadForEdit(e, p, to)
                 \/ DropView(e)
                 \/ UpdateStatus(e)

GoldHandlerStep(r) == \/ BeginGold(r)
                      \/ CheckPublishable(r)
                      \/ DropInternal(r)
                      \/ CreateInternal(r)
                      \/ ReplaceView(r)
                      \/ CompleteRun(r)
                      \/ Activate(r)
                      \/ FailRun(r)
                      \/ FailPublication(r)

GoldNext ==
    \/ \E p \in Publication : \/ RequestGoldPublication(p)
                              \/ CheckRefresh(p)
                              \/ RequestGoldRefresh(p)
    \/ \E e \in Editor : EditorStep(e) \/ AbandonEdit(e)
    \/ \E r \in GoldRun : \/ GoldHandlerStep(r)
                          \/ BeginGoldError(r) \/ ExpireGold(r)
                          \/ OutboxStep(r) /\ UNCHANGED goldVars

-----------------------------------------------------------------------------
(* Properties.                                                             *)

(* A completed run keeps its internal table whatever is retried, failed or *)
(* repeated afterwards, so a view that selects from a table that is not    *)
(* there is never a completed run's; and a publication is active only if   *)
(* some run of it has completed.                                           *)
CompletedKeepsTable ==
    /\ \A r \in GoldRun : grun[r].status = "completed" => r \in internal
    /\ \A p \in Publication : pub[p] = "active" =>
          \E r \in GoldRun : grun[r].pub = p /\ grun[r].status = "completed"

(* Readers of an active publication find its own rows: the view is there   *)
(* and selects from a table of one of its runs, unless an edit is between  *)
(* dropping the view and updating the row; and once unpublished or         *)
(* archived it is not served any more.  An edit and a run that cross, or a *)
(* failure, break it.                                                      *)
ViewTellsStatus ==
    \A p \in Publication \ crossed : faults = 0 =>
        /\ pub[p] = "active" =>
              \/ view \in internal /\ grun[view].pub = p
              \/ \E e \in Editor : edit[e].at = "update" /\ edit[e].pub = p
        /\ pub[p] \in Withdrawn => view = NoJob \/ grun[view].pub # p

(* What readers of a publication see is what its row and its runs say.     *)
PublicationServed == CompletedKeepsTable /\ ViewTellsStatus

(* A run that is pending or processing has a handler or will be given one, *)
(* unless something failed: otherwise its publication, which allows one    *)
(* active run, could never be refreshed again.                             *)
GoldRunAttended ==
    \A r \in GoldRun : grun[r].status \in GoldActive => Attended(r) \/ faults > 0
=============================================================================
