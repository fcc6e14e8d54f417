--------------------------- MODULE DelegatedGrant ---------------------------
(***************************************************************************)
(* The delegated OAuth grant of a user at a tenant: one row with a refresh *)
(* token, which requests renew, connect anew, mark revoked or delete while *)
(* the provider, in calls of their own, issues, rotates and revokes the    *)
(* token.  No statement locks the row across a call to the provider.       *)
(***************************************************************************)
EXTENDS Faults

CONSTANTS Token,   \* refresh tokens the provider may issue, each once
          Caller,  \* requests under way at once
          NoToken

ASSUME GrantAssumption == NoToken \notin Token

VARIABLES
    grant,      \* the row, see GrantRow
    grantee,    \* the user's deactivated_at is NULL
    call,       \* [Caller -> CallState]
    leaving,    \* the deactivation of the user: CallState without a source
    rotates,    \* external: a refresh gives a new token and ends the old one
    spent,      \* external: the tokens issued so far
    valid,      \* external: those the provider accepts
    forsaken,   \* history: the row's tokens that a call made invalid, which
                \* stopped before it wrote that down
    withdrawn   \* history: tokens the requests that delete have removed

grantVars == <<grant, grantee, call, leaving, rotates, spent, valid, forsaken, withdrawn>>

MaybeToken == Token \cup {NoToken}

(* stale: refreshTTL has passed.  refused: last_error_code is              *)
(* 'invalid_grant', of that token, which may be one before the row's.      *)
GrantRow == [state   : {"none", "active", "revoked"},
             token   : MaybeToken,
             stale   : BOOLEAN,
             refused : MaybeToken]

(* token is what the call will write, revoke or has revoked; source the    *)
(* token the row had when it was read.                                     *)
CallState == [at     : {"idle", "exchange", "upsert", "refresh", "store", "mark",
                        "list", "withdraw", "delete", "again"},
              token  : MaybeToken,
              source : MaybeToken]

NoCall  == [at |-> "idle", token |-> NoToken, source |-> NoToken]
NoGrant == [state |-> "none", token |-> NoToken, stale |-> FALSE, refused |-> NoToken]

Granted(t) == [state |-> "active", token |-> t, stale |-> FALSE, refused |-> NoToken]

Live == grant.state = "active"

GrantTypeOK ==
    /\ grant \in GrantRow /\ (grant.state = "none" <=> grant.token = NoToken)
    /\ grantee \in BOOLEAN /\ rotates \in BOOLEAN
    /\ call \in [Caller -> CallState] /\ leaving \in CallState
    /\ spent \in SUBSET Token /\ valid \in SUBSET spent
    /\ forsaken \in SUBSET spent /\ withdrawn \in SUBSET spent

GrantInit ==
    /\ grant = NoGrant /\ grantee = TRUE
    /\ call = [c \in Caller |-> NoCall] /\ leaving = NoCall
    /\ rotates \in BOOLEAN /\ spent = {} /\ valid = {}
    /\ forsaken = {} /\ withdrawn = {}

-----------------------------------------------------------------------------
CallAt(c, step) == call[c].at = step
Proceed(c, step, token, source) ==
    call' = [call EXCEPT ![c] = [at |-> step, token |-> token, source |-> source]]
Answered(c) == call' = [call EXCEPT ![c] = NoCall]

external == <<rotates, spent, valid>>
history  == <<forsaken, withdrawn>>

(* External: a token the provider has not issued, whichever it is.         *)
Unspent(t) == t \notin spent /\ t = CHOOSE u \in Token : u \notin spent

(* Every request has authenticated: its user is not deactivated.           *)
Arrives(c) == CallAt(c, "idle") /\ grantee

(* SaveGrantFromCallback: the state is consumed; the code is exchanged for *)
(* a token; the token is saved over whatever the row was.                  *)
Callback(c) ==
    /\ Arrives(c)
    /\ Proceed(c, "exchange", NoToken, NoToken)
    /\ UNCHANGED <<grant, grantee, leaving, external, history>>

ExchangeCode(c, t) ==
    /\ CallAt(c, "exchange") /\ Unspent(t)
    /\ spent' = spent \cup {t} /\ valid' = valid \cup {t}
    /\ Proceed(c, "upsert", t, NoToken)
    /\ UNCHANGED <<grant, grantee, leaving, rotates, history>>

SaveGrant(c) ==
    /\ CallAt(c, "upsert")
    /\ grant' = Granted(call[c].token)
    /\ Answered(c)
    /\ UNCHANGED <<grantee, leaving, external, history>>

-----------------------------------------------------------------------------
(* GetAccessTokenForTenant: an active grant is read; one that is too old   *)
(* is marked revoked.                                                      *)
LoadGrant(c) ==
    /\ Arrives(c) /\ Live
    /\ IF grant.stale THEN Proceed(c, "mark", NoToken, grant.token)
                      ELSE Proceed(c, "refresh", grant.token, grant.token)
    /\ UNCHANGED <<grant, grantee, leaving, external, history>>

RefreshRotates(c, t) ==
    /\ CallAt(c, "refresh") /\ call[c].token \in valid
    /\ rotates /\ Unspent(t)
    /\ spent' = spent \cup {t}
    /\ valid' = (valid \ {call[c].token}) \cup {t}
    /\ Proceed(c, "store", t, call[c].source)
    /\ UNCHANGED <<grant, grantee, leaving, rotates, history>>

RefreshKeeps(c) ==
    /\ CallAt(c, "refresh") /\ call[c].token \in valid
    /\ ~rotates
    /\ Proceed(c, "store", call[c].token, call[c].source)
    /\ UNCHANGED <<grant, grantee, leaving, external, history>>

(* invalid_grant.                                                          *)
RefreshRefused(c) ==
    /\ CallAt(c, "refresh") /\ call[c].token \notin valid
    /\ Proceed(c, "mark", call[c].token, call[c].source)
    /\ UNCHANGED <<grant, grantee, leaving, external, history>>

(* UPDATE ... WHERE revoked_at IS NULL; no row is an error.                *)
Updatable == Live

NextToken_Source(c) == call[c].source

NextToken(c) == call[c].token

StoreRefreshed(c) ==
    /\ CallAt(c, "store")
    /\ grant' = IF Updatable THEN Granted(NextToken(c)) ELSE grant
    /\ Answered(c)
    /\ UNCHANGED <<grantee, leaving, external, history>>

(* UPDATE without a condition on the token that was refused.               *)
MarkRevoked(c) ==
    /\ CallAt(c, "mark")
    /\ grant' = IF grant.state = "none" THEN grant
                ELSE [grant EXCEPT !.state = "revoked", !.refused = call[c].token]
    /\ Answered(c)
    /\ UNCHANGED <<grantee, leaving, external, history>>

-----------------------------------------------------------------------------
(* DeleteGrantForTenant: the token of an active grant is revoked at the    *)
(* provider, then the row is deleted, be it still the one that was read.   *)
Seen == IF Live THEN grant.token ELSE NoToken

BeginDelete(c) ==
    /\ Arrives(c)
    /\ Proceed(c, IF Live THEN "withdraw" ELSE "delete", Seen, Seen)
    /\ UNCHANGED <<grant, grantee, leaving, external, history>>

RevokeRefreshToken(t) == valid' = valid \ {t}

Withdraw(c) ==
    /\ CallAt(c, "withdraw")
    /\ RevokeRefreshToken(call[c].token)
    /\ Proceed(c, "delete", call[c].token, call[c].source)
    /\ UNCHANGED <<grant, grantee, leaving, rotates, spent, history>>

(* The row is gone; its token counts as withdrawn if it is the one read.   *)
RemoveRow(source) ==
    /\ grant' = NoGrant
    /\ withdrawn' = IF grant.token = source /\ source # NoToken
                    THEN withdrawn \cup {source} ELSE withdrawn

DeleteGrant(c) ==
    /\ CallAt(c, "delete")
    /\ RemoveRow(call[c].source)
    /\ Answered(c)
    /\ UNCHANGED <<grantee, leaving, external, forsaken>>

(* DeleteAllGrantsForUser, after the user was deactivated and its sessions *)
(* were deleted; deactivateSideEffects then deletes the rows once more.    *)
DeactivateGrantee ==
    /\ leaving = NoCall
    /\ grantee' = FALSE
    /\ leaving' = [NoCall EXCEPT !.at = "list"]
    /\ UNCHANGED <<grant, call, external, history>>

ReactivateGrantee ==
    /\ ~grantee /\ grantee' = TRUE
    /\ UNCHANGED <<grant, call, leaving, external, history>>

(* ListDeactivatedUsersWithActiveGrants.                                   *)
ReconcileGrantee ==
    /\ ~grantee /\ Live /\ leaving = NoCall
    /\ leaving' = [NoCall EXCEPT !.at = "list"]
    /\ UNCHANGED <<grant, grantee, call, external, history>>

ListActiveGrants ==
    /\ leaving.at = "list"
    /\ leaving' = [at |-> IF Live THEN "withdraw" ELSE "delete", token |-> Seen, source |-> Seen]
    /\ UNCHANGED <<grant, grantee, call, external, history>>

WithdrawListed ==
    /\ leaving.at = "withdraw"
    /\ RevokeRefreshToken(leaving.token)
    /\ leaving' = [leaving EXCEPT !.at = "delete"]
    /\ UNCHANGED <<grant, grantee, call, rotates, spent, history>>

DeleteAllGrants ==
    /\ leaving.at \in {"delete", "again"}
    /\ RemoveRow(leaving.source)
    /\ leaving' = IF leaving.at = "delete" THEN [leaving EXCEPT !.at = "again"] ELSE NoCall
    /\ UNCHANGED <<grantee, call, external, forsaken>>

-----------------------------------------------------------------------------
GrantAges ==
    /\ Live /\ ~grant.stale
    /\ grant' = [grant EXCEPT !.stale = TRUE]
    /\ UNCHANGED <<grantee, call, leaving, external, history>>

(* A call fails or the process dies.  If the provider had answered, the    *)
(* row may keep a token that the provider no longer accepts.               *)
Forsakes(cs) == forsaken' = forsaken \cup ({cs.source} \cap (spent \ valid))

CallStops(c) ==
    /\ ~CallAt(c, "idle")
    /\ Forsakes(call[c])
    /\ Answered(c)
    /\ UNCHANGED <<grant, grantee, leaving, external, withdrawn>>

LeavingStops ==
    /\ leaving # NoCall
    /\ Forsakes(leaving)
    /\ leaving' = NoCall
    /\ UNCHANGED <<grant, grantee, call, external, withdrawn>>

GrantStep ==
    \/ \E c \in Caller :
        \/ Callback(c) \/ SaveGrant(c)
        \/ LoadGrant(c) \/ RefreshKeeps(c) \/ RefreshRefused(c) \/ StoreRefreshed(c)
        \/ MarkRevoked(c)
        \/ BeginDelete(c) \/ Withdraw(c) \/ DeleteGrant(c)
        \/ \E t \in Token : ExchangeCode(c, t) \/ RefreshRotates(c, t)
    \/ DeactivateGrantee \/ ReactivateGrantee \/ ReconcileGrantee
    \/ ListActiveGrants \/ WithdrawListed \/ DeleteAllGrants
    \/ GrantAges

GrantNext == \/ GrantStep /\ Unfailing
             \/ ((\E c \in Caller : CallStops(c)) \/ LeavingStops) /\ Fault

GrantSpec == GrantInit /\ FaultsInit /\ [][GrantNext]_<<grantVars, faults>>

-----------------------------------------------------------------------------
(* Whoever made the row's token invalid and has still to write the row.    *)
BeingReplaced(t) == \E cs \in {call[c] : c \in Caller} \cup {leaving} :
                        cs.source = t /\ cs.at \in {"store", "delete", "again"}

(* The grant and the provider agree: an active grant's token works, except *)
(* while the request that has replaced or revoked it is about to write the *)
(* row, or when that request stopped before; a token whose grant was       *)
(* deleted does not work; and a grant is marked 'invalid_grant' only for a *)
(* token that does not work (if it is not the row's, two requests have     *)
(* used one token, and the second has undone the first).  (A provider that *)
(* does not rotate tokens can be answered twice with one token, of which   *)
(* one answer comes after the token was revoked and the user has connected *)
(* anew.)                                                                  *)
GrantMatchesProvider ==
    /\ rotates /\ Live /\ grant.token \notin valid =>
           BeingReplaced(grant.token) \/ grant.token \in forsaken
    /\ withdrawn \cap valid = {}
    /\ grant.refused \notin valid
=============================================================================
