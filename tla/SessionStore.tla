---------------------------- MODULE SessionStore ----------------------------
(***************************************************************************)
(* The browser sessions of one user in Redis, command by command: a key    *)
(* per session that expires, and the set of the user's sessions that       *)
(* deactivating the user goes by, a key that expires by itself.  No        *)
(* operation is a transaction: a load is GET and TTL, a save SET, SADD and *)
(* EXPIRE, and other requests run in between.                              *)
(***************************************************************************)
EXTENDS Faults

CONSTANTS Session,   \* session ids, random: none is issued twice
          Client,    \* requests under way at once
          Life,      \* ticks a new session lives
          NoSession

ASSUME SessionAssumption == NoSession \notin Session /\ Life \in Nat \ {0}

VARIABLES
    active,   \* the user's deactivated_at is NULL
    issued,   \* the ids handed out
    life,     \* [Session -> the TTL of its key], 0 if there is none
    index,    \* the members of the user's set
    ilife,    \* its TTL; 0 if there is no set
    request,  \* [Client -> RequestState]
    admin,    \* what deactivating the user has come to
    closed,   \* history: sessions that have ended while no update held them
    astray    \* history: live sessions that the set has lost

sessionVars == <<active, issued, life, index, ilife, request, admin, closed, astray>>

NoExpiry == Life + 1  \* a set without a TTL, as SADD creates it

(* new is the session a request saves, old the one it loads or deletes.    *)
RequestState == [op  : {"idle", "login", "update", "refresh", "logout"},
                 at  : {"idle", "load", "ttl", "set", "sadd", "expire",
                        "find", "del", "delonly", "srem", "audit"},
                 new : Session \cup {NoSession},
                 old : Session \cup {NoSession},
                 ttl : 0..Life]

AdminState == [at : {"idle", "list", "del"}, listed : SUBSET Session, promised : SUBSET Session]

NoRequest == [op |-> "idle", at |-> "idle", new |-> NoSession, old |-> NoSession, ttl |-> 0]
NoAdmin   == [at |-> "idle", listed |-> {}, promised |-> {}]

SessionTypeOK ==
    /\ active \in BOOLEAN
    /\ issued \in SUBSET Session /\ index \in SUBSET issued
    /\ life \in [Session -> 0..Life] /\ \A s \in Session \ issued : life[s] = 0
    /\ ilife \in 0..NoExpiry /\ (ilife = 0 <=> index = {})
    /\ request \in [Client -> RequestState] /\ admin \in AdminState
    /\ closed \in SUBSET issued /\ astray \in SUBSET issued

SessionInit ==
    /\ active = TRUE
    /\ issued = {} /\ index = {} /\ ilife = 0
    /\ life = [s \in Session |-> 0]
    /\ request = [c \in Client |-> NoRequest] /\ admin = NoAdmin
    /\ closed = {} /\ astray = {}

-----------------------------------------------------------------------------
Alive(s) == life[s] > 0

(* Somebody has loaded s and will save it again, whatever becomes of it.   *)
Held == {request[c].new : c \in {d \in Client : request[d].at \in {"ttl", "set"}}}

Saving == {request[c].new : c \in {d \in Client : request[d].at = "sadd"}}

Strays(S) == astray' = {s \in S : life'[s] > 0}

End(S) == /\ life' = [s \in Session |-> IF s \in S THEN 0 ELSE life[s]]
          /\ closed' = closed \cup (S \ Held)
          /\ Strays(astray)

(* An empty set is no key.                                                 *)
SetIndex(S, ttl) == /\ index' = S
                    /\ ilife' = IF S = {} THEN 0 ELSE ttl

Starts(c, op, step, new, old, ttl) ==
    /\ request[c] = NoRequest
    /\ request' = [request EXCEPT ![c] =
           [op |-> op, at |-> step, new |-> new, old |-> old, ttl |-> ttl]]

At(c, step) == request[c].at = step
To(c, step) == request' = [request EXCEPT ![c].at = step]
Done(c)     == request' = [request EXCEPT ![c] = NoRequest]

Mine(c) == request[c].new

-----------------------------------------------------------------------------
(* Login: the credentials are checked and the user loaded; then Create.    *)
Login(c, s) ==
    /\ active /\ s \notin issued
    /\ issued' = issued \cup {s}
    /\ Starts(c, "login", "set", s, NoSession, Life)
    /\ UNCHANGED <<active, life, index, ilife, admin, closed, astray>>

(* The requests below have authenticated with the session.                 *)
Authenticated(s) == active /\ Alive(s)

(* SetActiveTenant, ReissueCSRF, SetSupportAccess and ClearSupportAccess.  *)
Update(c, s) ==
    /\ Authenticated(s)
    /\ Starts(c, "update", "load", s, s, 0)
    /\ UNCHANGED <<active, issued, life, index, ilife, admin, closed, astray>>

RefreshSession(c, s) ==
    /\ Authenticated(s)
    /\ Starts(c, "refresh", "load", NoSession, s, 0)
    /\ UNCHANGED <<active, issued, life, index, ilife, admin, closed, astray>>

(* Logout does not mind a user that it cannot load.                        *)
Logout(c, s) ==
    /\ Alive(s)
    /\ Starts(c, "logout", "find", NoSession, s, 0)
    /\ UNCHANGED <<active, issued, life, index, ilife, admin, closed, astray>>

Found_Always(s) == TRUE

(* GET: a missing key is ErrSessionNotFound.                               *)
Found(s) == Alive(s)

LoadMissing(c) ==
    /\ At(c, "load") /\ ~Found(request[c].old)
    /\ Done(c)
    /\ UNCHANGED <<active, issued, life, index, ilife, admin, closed, astray>>

LoadToUpdate(c) ==
    /\ At(c, "load") /\ request[c].op = "update" /\ Found(request[c].old)
    /\ To(c, "ttl")
    /\ UNCHANGED <<active, issued, life, index, ilife, admin, closed, astray>>

(* A key that has expired since GET is taken for a new one; so may be a    *)
(* key in its last tick, as Redis rounds the TTL it answers.               *)
TTLAnswers(s) == {n \in 1..Life : n = life[s] \/ (n = Life /\ life[s] <= 1)}

ReadTTL(c) ==
    /\ At(c, "ttl")
    /\ \E left \in TTLAnswers(Mine(c)) :
          request' = [request EXCEPT ![c].at = "set", ![c].ttl = left]
    /\ UNCHANGED <<active, issued, life, index, ilife, admin, closed, astray>>

(* Rotate takes nothing but the record from the old session.               *)
LoadToRotate(c, s) ==
    /\ At(c, "load") /\ request[c].op = "refresh" /\ Found(request[c].old)
    /\ s \notin issued /\ issued' = issued \cup {s}
    /\ request' = [request EXCEPT ![c].at = "set", ![c].new = s, ![c].ttl = Life]
    /\ UNCHANGED <<active, life, index, ilife, admin, closed, astray>>

-----------------------------------------------------------------------------
(* save.                                                                   *)
Set(c) ==
    /\ At(c, "set")
    /\ life' = [life EXCEPT ![Mine(c)] = request[c].ttl]
    /\ To(c, "sadd")
    /\ UNCHANGED <<active, issued, index, ilife, admin, closed, astray>>

SAdd(c) ==
    /\ At(c, "sadd")
    /\ SetIndex(index \cup {Mine(c)}, IF index = {} THEN NoExpiry ELSE ilife)
    /\ astray' = astray \ {Mine(c)}
    /\ To(c, "expire")
    /\ UNCHANGED <<active, issued, life, admin, closed>>

NextAfterSave(c) == CASE request[c].op = "login"   -> To(c, "audit")
                      [] request[c].op = "refresh" -> To(c, "find")
                      [] request[c].op = "update"  -> Done(c)

(* The set gets the TTL of the session saved, be it less than it had.      *)
Expire(c) ==
    /\ At(c, "expire")
    /\ SetIndex(index, request[c].ttl)
    /\ NextAfterSave(c)
    /\ UNCHANGED <<active, issued, life, admin, closed, astray>>

-----------------------------------------------------------------------------
(* Delete: the load tells only whose set to take the session from.         *)
Find(c) ==
    /\ At(c, "find")
    /\ To(c, IF Alive(request[c].old) THEN "del" ELSE "delonly")
    /\ UNCHANGED <<active, issued, life, index, ilife, admin, closed, astray>>

NextAfterDelete(c) ==
    IF request[c].op = "refresh" /\ request[c].old # Mine(c) THEN To(c, "audit") ELSE Done(c)

Del(c) ==
    /\ request[c].at \in {"del", "delonly"}
    /\ End({request[c].old})
    /\ IF At(c, "del") THEN To(c, "srem") ELSE NextAfterDelete(c)
    /\ UNCHANGED <<active, issued, index, ilife, admin>>

SRem(c) ==
    /\ At(c, "srem")
    /\ SetIndex(index \ {request[c].old}, ilife)
    /\ UNCHANGED <<active, issued, life, admin, closed>>
    /\ Strays(astray \cup {request[c].old})
    /\ NextAfterDelete(c)

(* A new session that cannot be recorded in the audit log is deleted.      *)
Audit(c) ==
    /\ At(c, "audit")
    /\ \/ Done(c) /\ Unfailing
       \/ request' = [request EXCEPT ![c].at = "find", ![c].old = Mine(c)] /\ Fault
    /\ UNCHANGED <<active, issued, life, index, ilife, admin, closed, astray>>

(* A command fails, or the process dies: what was done stays.  A session   *)
(* saved and not yet added to the set is none of its members.              *)
Stop(c) ==
    /\ request[c] # NoRequest
    /\ Fault
    /\ Done(c)
    /\ UNCHANGED <<active, issued, life, index, ilife, admin, closed>>
    /\ Strays(IF At(c, "sadd") THEN astray \cup ({Mine(c)} \ index) ELSE astray)

-----------------------------------------------------------------------------
(* DeactivateUser, and UpsertUser with a user that is not active: the row  *)
(* first, then DeleteUserSessions.                                         *)
Deactivate ==
    /\ admin = NoAdmin
    /\ active' = FALSE
    /\ admin' = [NoAdmin EXCEPT !.at = "list"]
    /\ UNCHANGED <<issued, life, index, ilife, request, closed, astray>>

(* UpsertUser with an active user.                                         *)
Reactivate ==
    /\ ~active /\ active' = TRUE
    /\ UNCHANGED <<issued, life, index, ilife, request, admin, closed, astray>>

(* The reconcile job lists the user as deactivated.                        *)
Reconcile ==
    /\ ~active /\ admin = NoAdmin
    /\ admin' = [NoAdmin EXCEPT !.at = "list"]
    /\ UNCHANGED <<active, issued, life, index, ilife, request, closed, astray>>

(* SMEMBERS.  The sessions that are to end are those that live, except for *)
(* those astray and those a request is still adding.                       *)
ListSessions ==
    /\ admin.at = "list"
    /\ admin' = [at |-> "del", listed |-> index,
                 promised |-> {s \in Session : Alive(s)} \ (astray \cup Saving)]
    /\ UNCHANGED <<active, issued, life, index, ilife, request, closed, astray>>

(* DEL of the keys listed and of the set, with what was added since.       *)
DeleteListed ==
    /\ admin.at = "del"
    /\ life' = [s \in Session |-> IF s \in admin.listed THEN 0 ELSE life[s]]
    /\ closed' = closed \cup (admin.promised \ Held)
    /\ SetIndex({}, 0)
    /\ Strays(astray \cup index)
    /\ admin' = NoAdmin
    /\ UNCHANGED <<active, issued, request>>

DeactivationStops ==
    /\ admin # NoAdmin
    /\ Fault
    /\ admin' = NoAdmin
    /\ UNCHANGED <<active, issued, life, index, ilife, request, closed, astray>>

-----------------------------------------------------------------------------
Down(n) == IF n = 0 THEN 0 ELSE n - 1

IndexLeft == IF ilife = NoExpiry THEN NoExpiry ELSE Down(ilife)

(* Time passes, and keys whose TTL has run out are gone.                   *)
Tick ==
    /\ \E s \in Session : Alive(s)
    /\ life' = [s \in Session |-> Down(life[s])]
    /\ closed' = closed \cup ({s \in Session : life[s] = 1} \ Held)
    /\ ilife' = IndexLeft
    /\ index' = IF IndexLeft = 0 THEN {} ELSE index
    /\ Strays(astray \cup (index \ index'))
    /\ UNCHANGED <<active, issued, request, admin>>

ClientStep(c) ==
    \/ \E s \in Session : \/ Login(c, s) \/ Update(c, s) \/ RefreshSession(c, s)
                          \/ Logout(c, s) \/ LoadToRotate(c, s)
    \/ LoadMissing(c) \/ LoadToUpdate(c) \/ ReadTTL(c)
    \/ Set(c) \/ SAdd(c) \/ Expire(c)
    \/ Find(c) \/ Del(c) \/ SRem(c)

AdminStep == Deactivate \/ Reactivate \/ Reconcile \/ ListSessions \/ DeleteListed

SessionNext ==
    \/ \E c \in Client : ClientStep(c) /\ Unfailing
    \/ \E c \in Client : Audit(c) \/ Stop(c)
    \/ (AdminStep \/ Tick) /\ Unfailing
    \/ DeactivationStops

SessionSpec == SessionInit /\ FaultsInit /\ [][SessionNext]_<<sessionVars, faults>>

-----------------------------------------------------------------------------
(* A session that has expired, that logout, refresh or a failed login has  *)
(* deleted, or whose user was deactivated, never lives again: unless an    *)
(* update had loaded it before and saves it afterwards, or the user's set  *)
(* had lost it while it lived (astray), which deactivation then misses.    *)
EndedStaysEnded == \A s \in closed : ~Alive(s)
=============================================================================
