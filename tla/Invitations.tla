---------------------------- MODULE Invitations ----------------------------
(***************************************************************************)
(* Requests that create and accept tenant invitations under idempotency    *)
(* keys.  A key is begun, the invitation changed and the key completed in  *)
(* three transactions, so that other requests, the job that deletes what   *)
(* has expired, and crashes come in between.  All requests here use one    *)
(* key; a scope (method, path, user and tenant) has a row of its own.      *)
(***************************************************************************)
EXTENDS Faults, FiniteSets

CONSTANTS KeyRow,      \* ids of idempotency_keys, none used twice
          Invitation,  \* rows of tenant_invitations of one invitee
          Request,     \* requests under way at once
          Payload,     \* request bodies that create an invitation
          NoRow, NoInvitation, NoBody

ASSUME InvitationsAssumption ==
    NoRow \notin KeyRow /\ NoInvitation \notin Invitation /\ NoBody \notin Payload

VARIABLES
    keys,     \* [KeyRow -> KeyState]
    invite,   \* [Invitation -> InviteState]
    members,  \* the invitations whose roles the invitee has been given
    work,     \* [Request -> WorkState]
    did,      \* history: [KeyRow -> the invitations its request has changed]
    fates     \* history: [Invitation -> its settled statuses]

invitationVars == <<keys, invite, members, work, did, fates>>

(* A token names an invitation and whether it was renewed since.           *)
InviteToken == [inv : Invitation, renewed : BOOLEAN]

Scope == {"create", "accept"}

Body(scope) == IF scope = "create" THEN Payload ELSE InviteToken

KeyState == [scope   : Scope,
             body    : Payload \cup InviteToken \cup {NoBody},
             status  : {"none", "processing", "completed", "failed", "deleted"},
             expired : BOOLEAN,
             reply   : Invitation \cup {NoInvitation}]

InviteState == [status  : {"none", "pending", "accepted", "revoked", "expired"},
                late    : BOOLEAN,   \* expires_at has passed
                renewed : BOOLEAN]   \* the token hash is the second one

WorkState == [at    : {"idle", "lookup", "work", "accept", "complete", "fail", "replay"},
              scope : Scope,
              body  : Payload \cup InviteToken \cup {NoBody},
              key   : KeyRow \cup {NoRow},
              inv   : Invitation \cup {NoInvitation}]

NoKey  == [scope |-> "create", body |-> NoBody, status |-> "none",
           expired |-> FALSE, reply |-> NoInvitation]
NoWork == [at |-> "idle", scope |-> "create", body |-> NoBody,
           key |-> NoRow, inv |-> NoInvitation]

Present(k) == keys[k].status \notin {"none", "deleted"}

(* idempotency_keys has a unique index on scope and key.                   *)
InvitationsTypeOK ==
    /\ keys \in [KeyRow -> KeyState] /\ invite \in [Invitation -> InviteState]
    /\ work \in [Request -> WorkState]
    /\ members \in SUBSET Invitation
    /\ did \in [KeyRow -> SUBSET Invitation]
    /\ DOMAIN fates = Invitation
    /\ \A k, l \in KeyRow : Present(k) /\ Present(l) /\ keys[k].scope = keys[l].scope => k = l

InvitationsInit ==
    /\ keys = [k \in KeyRow |-> NoKey]
    /\ invite = [i \in Invitation |-> [status |-> "none", late |-> FALSE, renewed |-> FALSE]]
    /\ members = {} /\ work = [r \in Request |-> NoWork]
    /\ did = [k \in KeyRow |-> {}] /\ fates = [i \in Invitation |-> {}]

-----------------------------------------------------------------------------
RowOf(scope) == {k \in KeyRow : Present(k) /\ keys[k].scope = scope}

WorkAt(r, step) == work[r].at = step
WorkTo(r, step) == work' = [work EXCEPT ![r].at = step]
Answer(r)       == work' = [work EXCEPT ![r] = NoWork]

Started(r, step, scope, body, k) ==
    work' = [work EXCEPT ![r] = [at |-> step, scope |-> scope, body |-> body,
                                 key |-> k, inv |-> NoInvitation]]

(* Ids are new; which one it is makes no difference.                       *)
Unused(k) == keys[k].status = "none" /\ k = CHOOSE l \in KeyRow : keys[l].status = "none"

Uninvited(i) == invite[i].status = "none" /\ i = CHOOSE j \in Invitation : invite[j].status = "none"

invites == <<invite, members, fates>>

(* Begin inserts the row; the unique index refuses a second one.           *)
BeginKey(r, scope, body, k) ==
    /\ WorkAt(r, "idle") /\ RowOf(scope) = {} /\ Unused(k)
    /\ keys' = [keys EXCEPT ![k] = [NoKey EXCEPT !.scope = scope, !.body = body,
                                                 !.status = "processing"]]
    /\ Started(r, "work", scope, body, k)
    /\ UNCHANGED <<invites, did>>

BeginRefused(r, scope, body) ==
    /\ WorkAt(r, "idle") /\ RowOf(scope) # {}
    /\ Started(r, "lookup", scope, body, NoRow)
    /\ UNCHANGED <<keys, invites, did>>

Replayable_AnyBody(r, k) == keys[k].status = "completed" /\ ~keys[k].expired

(* The row found, in another statement, may be of the same request and     *)
(* completed: its response is the answer.                                  *)
Replayable(r, k) ==
    keys[k].status = "completed" /\ ~keys[k].expired /\ keys[k].body = work[r].body

Replay(r) ==
    /\ WorkAt(r, "lookup")
    /\ \E k \in RowOf(work[r].scope) :
           /\ Replayable(r, k)
           /\ work' = [work EXCEPT ![r].at = "replay", ![r].inv = keys[k].reply]
    /\ UNCHANGED <<keys, invites, did>>

(* In progress, failed, a conflict, or a row that has expired meanwhile:   *)
(* refused.                                                                *)
Refuse(r) ==
    /\ WorkAt(r, "lookup")
    /\ \A k \in RowOf(work[r].scope) : ~Replayable(r, k)
    /\ Answer(r)
    /\ UNCHANGED <<keys, invites, did>>

Replayed(r) == WorkAt(r, "replay") /\ Answer(r) /\ UNCHANGED <<keys, invites, did>>

-----------------------------------------------------------------------------
Works(r, scope) == WorkAt(r, "work") /\ work[r].scope = scope

Do(r, i, step) ==
    /\ did' = [did EXCEPT ![work[r].key] = @ \cup {i}]
    /\ work' = [work EXCEPT ![r].at = step, ![r].inv = i]

SetStatus(i, status) == invite' = [invite EXCEPT ![i].status = status]

(* TenantInvitationService.Create commits, or returns an error; a commit   *)
(* whose reply is lost does both.                                          *)
Create(r, i, step) ==
    /\ Works(r, "create") /\ Uninvited(i)
    /\ SetStatus(i, "pending")
    /\ Do(r, i, step)
    /\ UNCHANGED <<keys, members, fates>>

CreateFails(r) ==
    /\ Works(r, "create")
    /\ WorkTo(r, "fail")
    /\ UNCHANGED <<keys, invites, did>>

(* TenantInvitationService.Accept: the pending invitation of the token is  *)
(* read; the roles are given and the invitation is marked if it is pending *)
(* still, in one transaction.  A refusal leaves the key as it is.          *)
Pending(i) == invite[i].status = "pending"

Tokens(r) == work[r].body

ReadPending(r) ==
    /\ Works(r, "accept")
    /\ LET i == Tokens(r).inv
       IN  IF Pending(i) /\ ~invite[i].late /\ invite[i].renewed = Tokens(r).renewed
           THEN WorkTo(r, "accept") ELSE Answer(r)
    /\ UNCHANGED <<keys, invites, did>>

Acceptable_AsRead(i) == TRUE

Acceptable(i) == Pending(i)

Settle(i, status) == SetStatus(i, status) /\ fates' = [fates EXCEPT ![i] = @ \cup {status}]

AcceptInvitation(r) ==
    /\ WorkAt(r, "accept")
    /\ LET i == Tokens(r).inv
       IN  IF Acceptable(i)
           THEN Settle(i, "accepted") /\ members' = members \cup {i} /\ Do(r, i, "complete")
           ELSE Answer(r) /\ UNCHANGED <<invites, did>>
    /\ UNCHANGED keys

(* Complete and Fail go by the id of the row, which may have expired and   *)
(* been deleted: then the request is answered with an error.               *)
SetKey(r, status, reply) ==
    keys' = IF Present(work[r].key)
            THEN [keys EXCEPT ![work[r].key].status = status, ![work[r].key].reply = reply]
            ELSE keys

CompleteKey(r) ==
    /\ WorkAt(r, "complete")
    /\ SetKey(r, "completed", work[r].inv)
    /\ Answer(r)
    /\ UNCHANGED <<invites, did>>

FailKey(r) ==
    /\ WorkAt(r, "fail")
    /\ SetKey(r, "failed", NoInvitation)
    /\ Answer(r)
    /\ UNCHANGED <<invites, did>>

RequestStops(r) ==
    /\ WorkAt(r, "work") \/ WorkAt(r, "accept") \/ WorkAt(r, "complete") \/ WorkAt(r, "fail")
    /\ Answer(r)
    /\ UNCHANGED <<keys, invites, did>>

-----------------------------------------------------------------------------
Revoke(i) ==
    /\ Pending(i)
    /\ Settle(i, "revoked")
    /\ UNCHANGED <<keys, members, work, did>>

(* ProvisionIdentityForInvitation gives the invitation another token.      *)
RenewToken(i) ==
    /\ Pending(i) /\ ~invite[i].late /\ ~invite[i].renewed
    /\ invite' = [invite EXCEPT ![i].renewed = TRUE]
    /\ UNCHANGED <<keys, members, work, did, fates>>

(* Time passes; then the data lifecycle job.                               *)
InvitationLapses(i) ==
    /\ Pending(i) /\ ~invite[i].late
    /\ invite' = [invite EXCEPT ![i].late = TRUE]
    /\ UNCHANGED <<keys, members, work, did, fates>>

ExpireInvitations ==
    /\ \E i \in Invitation : Pending(i) /\ invite[i].late
    /\ LET gone == {i \in Invitation : Pending(i) /\ invite[i].late}
       IN  /\ invite' = [i \in Invitation |->
                            IF i \in gone THEN [invite[i] EXCEPT !.status = "expired"] ELSE invite[i]]
           /\ fates' = [i \in Invitation |-> IF i \in gone THEN fates[i] \cup {"expired"} ELSE fates[i]]
    /\ UNCHANGED <<keys, members, work, did>>

KeyExpires(k) ==
    /\ Present(k) /\ ~keys[k].expired
    /\ keys' = [keys EXCEPT ![k].expired = TRUE]
    /\ UNCHANGED <<invites, work, did>>

DeleteExpiredKeys ==
    /\ \E k \in KeyRow : Present(k) /\ keys[k].expired
    /\ keys' = [k \in KeyRow |-> IF Present(k) /\ keys[k].expired
                                 THEN [keys[k] EXCEPT !.status = "deleted"] ELSE keys[k]]
    /\ UNCHANGED <<invites, work, did>>

RequestStep(r) ==
    \/ \E scope \in Scope : \E body \in Body(scope) :
           \/ \E k \in KeyRow : BeginKey(r, scope, body, k)
           \/ BeginRefused(r, scope, body)
    \/ Replay(r) \/ Refuse(r) \/ Replayed(r)
    \/ \E i \in Invitation : Create(r, i, "complete")
    \/ CreateFails(r)
    \/ ReadPending(r) \/ AcceptInvitation(r)
    \/ CompleteKey(r) \/ FailKey(r)

RequestFaults(r) == RequestStops(r) \/ \E i \in Invitation : Create(r, i, "fail")

InvitationsNext ==
    \/ \E r \in Request : RequestStep(r) /\ Unfailing
    \/ \E r \in Request : RequestFaults(r) /\ Fault
    \/ \E i \in Invitation : (Revoke(i) \/ RenewToken(i) \/ InvitationLapses(i)) /\ Unfailing
    \/ \E k \in KeyRow : KeyExpires(k) /\ Unfailing
    \/ (ExpireInvitations \/ DeleteExpiredKeys) /\ Unfailing

InvitationsSpec ==
    InvitationsInit /\ FaultsInit /\ [][InvitationsNext]_<<invitationVars, faults>>

-----------------------------------------------------------------------------
InProgress(k) == \E r \in Request : work[r].key = k /\ work[r].at # "idle"

(* A key is the account of one request.  Its request changes one           *)
(* invitation at most; a completed key answers with the one it changed; a  *)
(* failed one has changed none, unless the reply of a commit was lost; and *)
(* a retry is answered with what the same request body has done.  A key is *)
(* left 'processing' only by a request that died, or by an accept that was *)
(* refused, whose handler does not fail the key.                           *)
KeyTellsEffect ==
    /\ \A k \in KeyRow :
           /\ Cardinality(did[k]) <= 1
           /\ keys[k].status = "completed" => did[k] = {keys[k].reply}
           /\ keys[k].status = "failed" => did[k] = {} \/ faults > 0
           /\ keys[k].status = "processing" =>
                  InProgress(k) \/ faults > 0 \/ (keys[k].scope = "accept" /\ did[k] = {})
    /\ \A r \in Request : WorkAt(r, "replay") =>
           \E k \in KeyRow : /\ keys[k].scope = work[r].scope /\ keys[k].body = work[r].body
                             /\ did[k] = {work[r].inv}

(* Accepting, revoking and expiring race for a pending invitation: one of  *)
(* them settles it, for good, and the invitee has the roles exactly if it  *)
(* was accepted, be it with a token that was renewed or had expired since  *)
(* it was read.                                                            *)
InvitationSettledOnce ==
    \A i \in Invitation :
        /\ Cardinality(fates[i]) <= 1
        /\ fates[i] # {} => invite[i].status \in fates[i]
        /\ i \in members <=> invite[i].status = "accepted"
=============================================================================
