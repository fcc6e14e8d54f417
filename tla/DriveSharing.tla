---------------------------- MODULE DriveSharing ----------------------------
(***************************************************************************)
(* The shares of one Drive item with one user: rows in PostgreSQL, and the *)
(* tuples in OpenFGA that give the access.  No transaction spans the two:  *)
(* requests write them one after the other and compensate, and a repair    *)
(* writes the tuples of the rows it has listed.  A tuple names the user,   *)
(* the role and the item, not the row.  OpenFGA fails closed, and the user *)
(* has no access by a group, a folder or a workspace.                      *)
(***************************************************************************)
EXTENDS Faults

CONSTANTS Share,   \* rows of drive_resource_shares
          Sharer,  \* requests
          NoShare

ASSUME SharingAssumption == NoShare \notin Share

VARIABLES
    share,   \* [Share -> [status, role]], status "none" before it is created
    tuples,  \* the roles the user has by tuples
    task,    \* [Sharer -> [op, at, share, old, role]]: the next step of a
             \* request, the role it has read and the role it is to give
    invited, \* status of an invitation of the user
    repair,  \* [listed, mend, alone]: rows (with roles) still to look at, the
             \* row to mark synchronised, and whether no request and no fault
             \* came since they were listed
    crossed  \* history: a tuple was written or removed for a row as it had been
             \* read, which was no longer so or not the only live one, or a
             \* repair wrote the tuple of a row that a request had in hand

sharingVars == <<share, tuples, task, invited, repair, crossed>>

Role == {"viewer", "editor"}
Live(s) == share[s].status \in {"active", "pending_sync"}
Done    == [op |-> "none", at |-> "idle", share |-> NoShare, old |-> "viewer", role |-> "viewer"]
NoList  == [listed |-> {}, mend |-> NoShare, alone |-> FALSE]

SharingTypeOK ==
    /\ share \in [Share -> [status : {"none", "active", "pending_sync", "revoked"}, role : Role]]
    /\ tuples \subseteq Role
    /\ task \in [Sharer -> [op : {"none", "create", "accept", "update", "revoke"},
                            at : {"idle", "insert", "delete", "row", "grant", "mark", "undo", "spend"},
                            share : Share \cup {NoShare}, old : Role, role : Role]]
    /\ invited \in {"pending", "accepted", "revoked"}
    /\ repair \in [listed : SUBSET [share : Share, role : Role], mend : Share \cup {NoShare},
                   alone : BOOLEAN]
    /\ crossed \in BOOLEAN
    /\ \A a \in Sharer : task[a].at \in {"delete", "row", "grant", "mark", "undo", "spend"} =>
                             task[a].share \in Share /\ share[task[a].share].status # "none"

SharingInit ==
    /\ share = [s \in Share |-> [status |-> "none", role |-> "viewer"]]
    /\ tuples = {}
    /\ task = [a \in Sharer |-> Done]
    /\ invited = "pending"
    /\ repair = NoList
    /\ crossed = FALSE

-----------------------------------------------------------------------------
At(a, step) == task[a].at = step
Become(a, step) == task' = [task EXCEPT ![a].at = step]
Finish(a)       == task' = [task EXCEPT ![a] = Done]

\* A row is in hand from the removal of its tuple, or from its creation,
\* until its request has written the tuple it is to have.
InHand(s) == \E a \in Sharer : task[a].share = s /\ task[a].at \in {"row", "grant", "mark", "undo"}

Disturb == repair' = [repair EXCEPT !.alone = FALSE]

\* WriteShareTuple; duplicates are ignored.
Write(role) == tuples' = tuples \cup {role}

\* A tuple is written or removed for a row as it was when it was read.
AsRead(s, role) ==
    crossed' = (\/ crossed
                \/ ~Live(s) \/ share[s].role # role
                \/ \E t \in Share \ {s} : Live(t))

\* A call of OpenFGA or a statement that fails, applied or not.
Fails(effect, vs) == Fault /\ (effect \/ UNCHANGED vs)

\* drive_resource_shares_active_key
Unique(s) == \A t \in Share \ {s} : share[t].status # "active"

-----------------------------------------------------------------------------
(* CreateShare and AcceptShareInvitation: the row, then the tuple; if that *)
(* fails, the row is marked for the repair.                                *)

\* The handler of the acceptance reads the invitation, locking nothing.
ReadInvitation(a, role) ==
    /\ At(a, "idle") /\ invited = "pending"
    /\ task' = [task EXCEPT ![a] = [Done EXCEPT !.op = "accept", !.at = "insert", !.role = role]]
    /\ UNCHANGED <<share, tuples, invited, crossed>> /\ Unfailing

InsertShare(a, s, op, role) ==
    /\ share[s].status = "none"
    /\ IF Unique(s)
       THEN /\ share' = [share EXCEPT ![s] = [status |-> "active", role |-> role]]
            /\ task' = [task EXCEPT ![a] = [Done EXCEPT !.op = op, !.at = "grant", !.share = s,
                                                        !.role = role]]
       ELSE Finish(a) /\ UNCHANGED share
    /\ UNCHANGED <<tuples, invited, crossed>> /\ Unfailing

CreateShare(a, s, role) == At(a, "idle") /\ InsertShare(a, s, "create", role)
InsertAccepted(a, s)    == At(a, "insert") /\ InsertShare(a, s, "accept", task[a].role)

GrantAccess(a) ==
    /\ At(a, "grant")
    /\ \/ /\ Write(task[a].role) /\ Unfailing
          /\ IF task[a].op = "accept" THEN Become(a, "spend") ELSE Finish(a)
       \/ Fails(Write(task[a].role), tuples) /\ Become(a, "mark")
    /\ UNCHANGED <<share, invited, crossed>>

MarkPending(a) ==
    /\ At(a, "mark")
    /\ LET s == task[a].share
       IN  share' = IF share[s].status = "revoked" THEN share
                    ELSE [share EXCEPT ![s].status = "pending_sync"]
    /\ Finish(a) /\ Unfailing
    /\ UNCHANGED <<tuples, invited, crossed>>

SpendInvitation(a) ==
    /\ At(a, "spend")
    /\ invited' = "accepted"
    /\ Finish(a) /\ Unfailing
    /\ UNCHANGED <<share, tuples, crossed>>

RevokeInvitation ==
    /\ invited = "pending" /\ invited' = "revoked"
    /\ UNCHANGED <<share, tuples, task, crossed>> /\ Unfailing

-----------------------------------------------------------------------------
(* RevokeShare and UpdateShareRole: the tuple of the row as it was read is *)
(* removed first, and a tuple that is not there ends the request.          *)

ReadShare(a, s, op, role) ==
    /\ At(a, "idle") /\ Live(s)
    /\ task' = [task EXCEPT ![a] = [op |-> op, at |-> "delete", share |-> s,
                                    old |-> share[s].role, role |-> role]]
    /\ UNCHANGED <<share, tuples, invited, crossed>> /\ Unfailing

DeleteTuple_MissingIgnored(a) ==
    /\ At(a, "delete")
    /\ LET delete == tuples' = tuples \ {task[a].old} /\ AsRead(task[a].share, task[a].old)
       IN  (delete /\ Become(a, "row") /\ Unfailing) \/ (Fails(delete, <<tuples, crossed>>) /\ Finish(a))
    /\ UNCHANGED <<share, invited>>

DeleteTuple(a) ==
    /\ At(a, "delete")
    /\ LET there  == task[a].old \in tuples
           delete == tuples' = tuples \ {task[a].old} /\ AsRead(task[a].share, task[a].old)
       IN  \/ there /\ delete /\ Become(a, "row") /\ Unfailing
           \/ ~there /\ Finish(a) /\ UNCHANGED <<tuples, crossed>> /\ Unfailing
           \/ there /\ Fails(delete, <<tuples, crossed>>) /\ Finish(a)
    /\ UNCHANGED <<share, invited>>

RevokeRow(a) ==
    /\ At(a, "row") /\ task[a].op = "revoke"
    /\ LET s == task[a].share
           revoke == share' = [share EXCEPT ![s].status = "revoked"]
       IN  (revoke /\ Unfailing) \/ Fails(revoke, share)
    /\ Finish(a)
    /\ UNCHANGED <<tuples, invited, crossed>>

\* The update also makes a row active that was waiting for the repair.
UpdateRow(a) ==
    /\ At(a, "row") /\ task[a].op = "update"
    /\ LET s == task[a].share
           update == share' = [share EXCEPT ![s] = [status |-> "active", role |-> task[a].role]]
           can == Live(s) /\ Unique(s)
       IN  \/ can /\ update /\ Become(a, "grant") /\ Unfailing
           \/ ~can /\ UNCHANGED share /\ Become(a, "undo") /\ Unfailing
           \/ can /\ Fails(update, share) /\ Become(a, "undo")
    /\ UNCHANGED <<tuples, invited, crossed>>

\* The removed tuple is written back; its error is ignored.
UndoDelete(a) ==
    /\ At(a, "undo") /\ Finish(a)
    /\ LET write == Write(task[a].old) /\ AsRead(task[a].share, task[a].old)
       IN  (write /\ Unfailing) \/ Fails(write, <<tuples, crossed>>)
    /\ UNCHANGED <<share, invited>>

\* A process stops.
StopSharing(a) ==
    /\ ~At(a, "idle") /\ Fault /\ Finish(a)
    /\ UNCHANGED <<share, tuples, invited, crossed>>

Fresh == {s \in Share : share[s].status = "none"}
NextShare == CHOOSE s \in Fresh : TRUE

SharerStep(a) ==
    \/ \E role \in Role : Fresh # {} /\ CreateShare(a, NextShare, role)
    \/ \E role \in Role : ReadInvitation(a, role)
    \/ Fresh # {} /\ InsertAccepted(a, NextShare)
    \/ GrantAccess(a) \/ MarkPending(a) \/ SpendInvitation(a)
    \/ \E s \in Share : ReadShare(a, s, "revoke", "viewer")
    \/ \E s \in Share, role \in Role : ReadShare(a, s, "update", role)
    \/ DeleteTuple(a) \/ RevokeRow(a) \/ UpdateRow(a) \/ UndoDelete(a)
    \/ StopSharing(a)

-----------------------------------------------------------------------------
(* openFGASync, not as a dry run.                                          *)

ListShares ==
    /\ repair.listed = {} /\ repair.mend = NoShare
    /\ \E s \in Share : Live(s)
    /\ repair' = [listed |-> {[share |-> s, role |-> share[s].role] : s \in {t \in Share : Live(t)}},
                  mend |-> NoShare, alone |-> \A a \in Sharer : At(a, "idle")]
    /\ UNCHANGED <<share, tuples, task, invited, crossed>> /\ Unfailing

\* What OpenFGA answers: an editor may view.
Grants(role) == role \in tuples \/ (role = "viewer" /\ "editor" \in tuples)

\* CheckShareTuple, and WriteShareTuple unless it answers that the access is
\* there: also when it fails.
CheckShare(item) ==
    /\ item \in repair.listed /\ repair.mend = NoShare
    /\ LET rest == [repair EXCEPT !.listed = @ \ {item}]
           write == /\ Write(item.role)
                    /\ IF InHand(item.share) THEN crossed' = TRUE
                                              ELSE AsRead(item.share, item.role)
       IN  \/ /\ Grants(item.role) /\ repair' = rest /\ Unfailing
              /\ UNCHANGED <<tuples, crossed>>
           \/ /\ ~Grants(item.role) /\ write /\ Unfailing
              /\ repair' = [rest EXCEPT !.mend = item.share]
           \/ /\ write /\ Fault
              /\ repair' = [rest EXCEPT !.mend = item.share, !.alone = FALSE]
           \/ /\ Fails(write, <<tuples, crossed>>)
              /\ repair' = [rest EXCEPT !.alone = FALSE]
    /\ UNCHANGED <<share, task, invited>>

MarkSynced ==
    /\ repair.mend # NoShare
    /\ share' = IF share[repair.mend].status = "pending_sync" /\ Unique(repair.mend)
                THEN [share EXCEPT ![repair.mend].status = "active"] ELSE share
    /\ repair' = [repair EXCEPT !.mend = NoShare]
    /\ UNCHANGED <<tuples, task, invited, crossed>> /\ Unfailing

RepairStep == ListShares \/ (\E item \in repair.listed : CheckShare(item)) \/ MarkSynced

SharingNext ==
    \/ ((\E a \in Sharer : SharerStep(a)) \/ RevokeInvitation) /\ Disturb
    \/ RepairStep

SharingSpec == SharingInit /\ FaultsInit /\ [][SharingNext]_<<sharingVars, faults>>

-----------------------------------------------------------------------------
(* The user's access follows the shares.  A tuple belongs to a live share  *)
(* with its role, and an active share has its tuple unless a request is    *)
(* about to write it or one has failed: requests that change a share at    *)
(* once exclude each other, because only one of them can remove the tuple. *)
(* A tuple written or removed for a share as it was read before, when that *)
(* is no longer so, can break both.  When a repair has gone through its    *)
(* list undisturbed, every live share has access again.                    *)
AccessFollowsShares ==
    /\ crossed \/ \A role \in tuples : \E s \in Share : Live(s) /\ share[s].role = role
    /\ \A s \in Share : share[s].status = "active" =>
           share[s].role \in tuples \/ InHand(s) \/ faults > 0 \/ crossed
    /\ repair.alone /\ repair.listed = {} => \A s \in Share : Live(s) => Grants(share[s].role)
=============================================================================
