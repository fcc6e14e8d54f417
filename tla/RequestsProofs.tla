--------------------------- MODULE RequestsProofs ---------------------------
(***************************************************************************)
(* Proofs about the components whose requests run concurrently over rows   *)
(* and keys of their own: sessions, delegated grants, invitations with     *)
(* their idempotency keys, and the publishing of pipeline versions, each   *)
(* for any number of rows, requests and faults; and about their union.     *)
(***************************************************************************)
EXTENDS MCRequests, FiniteSetTheorems, TLAPS

-----------------------------------------------------------------------------
(* Sessions.                                                               *)
-----------------------------------------------------------------------------

(* What a request knows at each of its steps, ids being those issued.      *)
RequestShape(q, ids) ==
    /\ q.at \in {"ttl", "set", "sadd", "expire"} => q.op \in {"login", "update", "refresh"}
    /\ q.at \in {"ttl", "set", "sadd", "expire", "audit"} => q.new \in ids
    /\ q.at \in {"set", "sadd", "expire"} => q.ttl # 0
    /\ q.at \in {"load", "find", "del", "delonly", "srem"} => q.old \in ids
    /\ q.op = "refresh" => q.old \in ids /\ (q.at # "load" => q.new \in ids)
    /\ q.op = "update" => q.new = q.old

RequestsOK ==
    /\ request \in [Client -> RequestState]
    /\ \A c \in Client : RequestShape(request[c], issued)

(* The keys and the user's set.                                            *)
KeysOK ==
    /\ issued \in SUBSET Session /\ index \in SUBSET issued
    /\ life \in [Session -> 0..Life] /\ \A s \in Session \ issued : life[s] = 0
    /\ ilife \in 0..NoExpiry /\ (ilife = 0 <=> index = {})
    /\ closed \in SUBSET issued /\ astray \in SUBSET issued

(* Why deactivation ends what it promises: the set has every live session, *)
(* but for those astray and those about to be added.                       *)
IndexCovers == \A s \in Session : Alive(s) => s \in index \cup astray \cup Saving

AdminOK == admin.at = "del" => /\ admin.promised \subseteq admin.listed
                               /\ admin.listed \subseteq issued

SessionInv ==
    /\ active \in BOOLEAN /\ admin \in AdminState
    /\ RequestsOK /\ KeysOK
    /\ EndedStaysEnded
    /\ closed \cap Held = {}
    /\ IndexCovers
    /\ AdminOK

-----------------------------------------------------------------------------
(* One request moves on, to q.                                             *)
RequestMoves(c, q) == request' = [request EXCEPT ![c] = q]

(* The requests stay as they are described if the one that moves does.     *)
LEMMA RequestsStay ==
    ASSUME RequestsOK, issued \subseteq issued',
           NEW c \in Client, NEW q \in RequestState, RequestMoves(c, q), RequestShape(q, issued')
    PROVE  RequestsOK'
<1>1. request' \in [Client -> RequestState]
  BY DEF RequestsOK, RequestMoves
<1>2. ASSUME NEW d \in Client PROVE RequestShape(request'[d], issued')
  BY <1>2 DEF RequestsOK, RequestMoves, RequestShape
<1> QED BY <1>1, <1>2 DEF RequestsOK

(* What a move adds to the sessions held, and takes from those saving.     *)
LEMMA HeldAndSaving ==
    ASSUME RequestsOK,
           NEW c \in Client, NEW q \in RequestState, RequestMoves(c, q)
    PROVE  /\ \A s \in Held' : s \in Held \/ (q.at \in {"ttl", "set"} /\ s = q.new)
           /\ \A s \in Saving : s \in Saving' \/ (request[c].at = "sadd" /\ s = request[c].new)
           /\ q.at = "sadd" => q.new \in Saving'
<1>1. \A d \in Client : request'[d] = IF d = c THEN q ELSE request[d]
  BY DEF RequestMoves, RequestsOK
<1>2. ASSUME NEW s \in Held' PROVE s \in Held \/ (q.at \in {"ttl", "set"} /\ s = q.new)
  BY <1>1, <1>2 DEF Held
<1>3. ASSUME NEW s \in Saving
      PROVE  s \in Saving' \/ (request[c].at = "sadd" /\ s = request[c].new)
  BY <1>1, <1>3 DEF Saving
<1>4. q.at = "sadd" => q.new \in Saving'
  BY <1>1 DEF Saving
<1> QED BY <1>2, <1>3, <1>4

LEMMA SessionNoChange ==
    ASSUME request' = request PROVE Held' = Held /\ Saving' = Saving
BY DEF Held, Saving

LEMMA SessionInvInit == SessionInit => SessionInv
<1> SUFFICES ASSUME SessionInit PROVE SessionInv
  OBVIOUS
<1> USE SessionAssumption
<1>1. NoRequest \in RequestState /\ NoAdmin \in AdminState
  BY DEF NoRequest, RequestState, NoAdmin, AdminState
<1>2. active \in BOOLEAN /\ admin \in AdminState /\ KeysOK
  BY <1>1 DEF SessionInit, KeysOK, NoExpiry
<1>3. RequestsOK
  BY <1>1 DEF SessionInit, RequestsOK, RequestShape, NoRequest
<1>4. EndedStaysEnded /\ closed \cap Held = {} /\ IndexCovers /\ AdminOK
  BY DEF SessionInit, EndedStaysEnded, IndexCovers, Alive, AdminOK, NoAdmin
<1> QED BY <1>2, <1>3, <1>4 DEF SessionInv

-----------------------------------------------------------------------------
(* A step of a request that leaves the keys alone, but may take a new id.  *)
LEMMA QuietMove ==
    ASSUME SessionInv, UNCHANGED <<active, life, index, ilife, admin, closed, astray>>,
           issued \subseteq issued', issued' \in SUBSET Session,
           NEW c \in Client, NEW q \in RequestState, RequestMoves(c, q), RequestShape(q, issued'),
           q.at \in {"ttl", "set"} => q.new \notin closed,
           request[c].at # "sadd"
    PROVE  SessionInv'
<1>1. RequestsOK'
  BY RequestsStay DEF SessionInv
<1>2. KeysOK'
  BY DEF SessionInv, KeysOK
<1>3. closed' \cap Held' = {}
  BY HeldAndSaving DEF SessionInv
<1>4. IndexCovers'
  BY HeldAndSaving DEF SessionInv, IndexCovers, Alive
<1>5. EndedStaysEnded' /\ AdminOK'
  BY DEF SessionInv, EndedStaysEnded, Alive, AdminOK
<1> QED BY <1>1, <1>2, <1>3, <1>4, <1>5 DEF SessionInv

(* The steps that are such moves.                                          *)
QuietStep(c) ==
    \/ \E s \in Session : Login(c, s) \/ Update(c, s) \/ RefreshSession(c, s)
                          \/ Logout(c, s) \/ LoadToRotate(c, s)
    \/ LoadMissing(c) \/ LoadToUpdate(c) \/ ReadTTL(c) \/ Find(c) \/ Audit(c)

LEMMA QuietStepInv ==
    ASSUME SessionInv, NEW c \in Client, QuietStep(c) PROVE SessionInv'
<1> USE SessionAssumption
<1> DEFINE r == request[c]
           Quietly(q) == /\ UNCHANGED <<active, life, index, ilife, admin, closed, astray>>
                         /\ issued \subseteq issued' /\ issued' \in SUBSET Session
                         /\ q \in RequestState /\ RequestMoves(c, q) /\ RequestShape(q, issued')
                         /\ q.at \in {"ttl", "set"} => q.new \notin closed
                         /\ r.at # "sadd"
<1>1. /\ r \in RequestState /\ RequestShape(r, issued) /\ issued \in SUBSET Session
      /\ life \in [Session -> 0..Life] /\ \A s \in Session : s \notin issued => life[s] = 0
      /\ closed \subseteq issued /\ \A s \in closed : life[s] = 0
      /\ \A s \in closed : s \notin Held
  BY DEF SessionInv, RequestsOK, KeysOK, EndedStaysEnded, Alive
<1> SUFFICES \E q \in RequestState : Quietly(q)
  BY QuietMove
<1>2. NoRequest \in RequestState /\ RequestShape(NoRequest, issued) /\ NoRequest.at = "idle"
  BY DEF NoRequest, RequestState, RequestShape
<1>3. ASSUME NEW s \in Session, Login(c, s) PROVE \E q \in RequestState : Quietly(q)
  <2> DEFINE q == [op |-> "login", at |-> "set", new |-> s, old |-> NoSession, ttl |-> Life]
  <2>1. q \in RequestState
    BY DEF RequestState
  <2>2. Quietly(q)
    BY <1>1, <1>2, <1>3, <2>1 DEF Login, Starts, RequestMoves, RequestShape
  <2> QED BY <2>1, <2>2
<1>4. ASSUME NEW s \in Session, Update(c, s) \/ RefreshSession(c, s) \/ Logout(c, s)
      PROVE  \E q \in RequestState : Quietly(q)
  <2>1. life[s] # 0 /\ s \in issued
    BY <1>1, <1>4 DEF Update, RefreshSession, Logout, Authenticated, Alive
  <2>2. CASE Update(c, s)
    <3> DEFINE q == [op |-> "update", at |-> "load", new |-> s, old |-> s, ttl |-> 0]
    <3>1. q \in RequestState
      BY DEF RequestState
    <3>2. Quietly(q)
      BY <1>1, <1>2, <2>1, <2>2, <3>1 DEF Update, Starts, RequestMoves, RequestShape
    <3> QED BY <3>1, <3>2
  <2>3. CASE RefreshSession(c, s)
    <3> DEFINE q == [op |-> "refresh", at |-> "load", new |-> NoSession, old |-> s, ttl |-> 0]
    <3>1. q \in RequestState
      BY DEF RequestState
    <3>2. Quietly(q)
      BY <1>1, <1>2, <2>1, <2>3, <3>1 DEF RefreshSession, Starts, RequestMoves, RequestShape
    <3> QED BY <3>1, <3>2
  <2>4. CASE Logout(c, s)
    <3> DEFINE q == [op |-> "logout", at |-> "find", new |-> NoSession, old |-> s, ttl |-> 0]
    <3>1. q \in RequestState
      BY DEF RequestState
    <3>2. Quietly(q)
      BY <1>1, <1>2, <2>1, <2>4, <3>1 DEF Logout, Starts, RequestMoves, RequestShape
    <3> QED BY <3>1, <3>2
  <2> QED BY <1>4, <2>2, <2>3, <2>4
<1>5. ASSUME NEW s \in Session, LoadToRotate(c, s) PROVE \E q \in RequestState : Quietly(q)
  <2> DEFINE q == [r EXCEPT !.at = "set", !.new = s, !.ttl = Life]
  <2>0. r.op = "refresh" /\ r.at = "load" /\ Life \in 0..Life /\ Life # 0
    BY <1>5 DEF LoadToRotate, At
  <2>1. q \in RequestState /\ q.op = r.op /\ q.at = "set" /\ q.new = s /\ q.old = r.old
        /\ q.ttl = Life
    BY <1>1, <2>0 DEF RequestState
  <2>2. RequestMoves(c, q) /\ issued' = issued \cup {s} /\ s \notin issued
        /\ UNCHANGED <<active, life, index, ilife, admin, closed, astray>>
    BY <1>5 DEF LoadToRotate, RequestMoves
  <2>3. RequestShape(q, issued')
    BY <1>1, <2>0, <2>1, <2>2 DEF RequestShape
  <2> HIDE DEF q
  <2> QED BY <1>1, <2>0, <2>1, <2>2, <2>3
<1>6. CASE LoadMissing(c)
  BY <1>1, <1>2, <1>6 DEF LoadMissing, At, Done, RequestMoves
<1>7. ASSUME NEW step \in {"ttl", "del", "delonly"}, RequestMoves(c, [r EXCEPT !.at = step]),
             IF step = "ttl" THEN r.at = "load" /\ r.op = "update" /\ Alive(r.old)
                             ELSE r.at = "find",
             UNCHANGED <<active, issued, life, index, ilife, admin, closed, astray>>
      PROVE  \E q \in RequestState : Quietly(q)
  <2> DEFINE q == [r EXCEPT !.at = step]
  <2>1. q \in RequestState /\ q.op = r.op /\ q.at = step /\ q.new = r.new /\ q.old = r.old
        /\ q.ttl = r.ttl
    BY <1>1 DEF RequestState
  <2>2. RequestMoves(c, q) /\ r.at \in {"load", "find"}
    BY <1>7
  <2>3. RequestShape(q, issued)
    BY <1>1, <1>7, <2>1 DEF RequestShape
  <2>4. q.at \in {"ttl", "set"} => q.new \notin closed
    BY <1>1, <1>7, <2>1 DEF RequestShape, Alive
  <2> HIDE DEF q
  <2> QED BY <1>1, <1>7, <2>1, <2>2, <2>3, <2>4
<1>8. CASE LoadToUpdate(c)
  BY <1>7, <1>8 DEF LoadToUpdate, At, To, Found, RequestMoves
<1>9. CASE Find(c)
  BY <1>7, <1>9 DEF Find, At, To, RequestMoves
<1>10. ASSUME NEW left \in 1..Life, ReadTTL(c), RequestMoves(c, [r EXCEPT !.at = "set", !.ttl = left])
      PROVE  \E q \in RequestState : Quietly(q)
  <2> DEFINE q == [r EXCEPT !.at = "set", !.ttl = left]
  <2>1. r.at = "ttl" /\ r.new \in issued /\ r.new \in Held
    BY <1>1, <1>10 DEF ReadTTL, At, RequestShape, Held
  <2>2. left \in 0..Life /\ left # 0
    OBVIOUS
  <2>3. q \in RequestState /\ q.op = r.op /\ q.at = "set" /\ q.new = r.new /\ q.old = r.old
        /\ q.ttl = left
    BY <1>1, <2>2 DEF RequestState
  <2>4. RequestMoves(c, q) /\ UNCHANGED <<active, issued, life, index, ilife, admin, closed, astray>>
    BY <1>10 DEF ReadTTL
  <2>5. RequestShape(q, issued) /\ q.new \notin closed
    BY <1>1, <2>1, <2>2, <2>3 DEF RequestShape
  <2> HIDE DEF q
  <2> QED BY <1>1, <2>1, <2>3, <2>4, <2>5
<1>12. CASE ReadTTL(c)
  <2>1. PICK left \in 1..Life : RequestMoves(c, [r EXCEPT !.at = "set", !.ttl = left])
    BY <1>12 DEF ReadTTL, TTLAnswers, RequestMoves
  <2> QED BY <1>10, <1>12, <2>1
<1>11. CASE Audit(c)
  <2>1. CASE Done(c)
    BY <1>1, <1>2, <1>11, <2>1 DEF Audit, At, Done, RequestMoves
  <2>2. CASE RequestMoves(c, [r EXCEPT !.at = "find", !.old = Mine(c)])
    <3> DEFINE q == [r EXCEPT !.at = "find", !.old = Mine(c)]
    <3>1. q \in RequestState /\ q.op = r.op /\ q.at = "find" /\ q.new = r.new /\ q.old = r.new
          /\ r.at = "audit"
      BY <1>1, <1>11 DEF RequestState, Mine, Audit, At
    <3>2. RequestShape(q, issued)
      BY <1>1, <3>1 DEF RequestShape
    <3>3. RequestMoves(c, q) /\ UNCHANGED <<active, issued, life, index, ilife, admin, closed, astray>>
      BY <1>11, <2>2 DEF Audit
    <3> HIDE DEF q
    <3> QED BY <1>1, <3>1, <3>2, <3>3
  <2> QED BY <1>11, <2>1, <2>2 DEF Audit, RequestMoves
<1> QED BY <1>3, <1>4, <1>5, <1>6, <1>8, <1>9, <1>11, <1>12 DEF QuietStep

-----------------------------------------------------------------------------
(* The facts of SessionInv about one request and the keys, at hand.        *)
LEMMA SessionFacts ==
    ASSUME SessionInv, NEW c \in Client
    PROVE  /\ request[c] \in RequestState /\ RequestShape(request[c], issued)
           /\ issued \in SUBSET Session /\ index \subseteq issued
           /\ life \in [Session -> 0..Life]
           /\ \A s \in Session : s \notin issued => life[s] = 0
           /\ ilife \in 0..NoExpiry /\ (ilife = 0 <=> index = {})
           /\ closed \subseteq issued /\ astray \subseteq issued
           /\ \A s \in closed : life[s] = 0
           /\ \A s \in closed : s \notin Held
           /\ \A s \in Session : life[s] # 0 => s \in index \/ s \in astray \/ s \in Saving
BY DEF SessionInv, RequestsOK, KeysOK, EndedStaysEnded, IndexCovers, Alive

LEMMA IndexTTL ==
    ASSUME SessionInv
    PROVE  /\ ilife \in Nat /\ ilife <= NoExpiry /\ (ilife = 0 <=> index = {})
           /\ NoExpiry \in Nat /\ NoExpiry # 0
BY SessionAssumption DEF SessionInv, KeysOK, NoExpiry

LEMMA SetInv ==
    ASSUME SessionInv, NEW c \in Client, Set(c) PROVE SessionInv'
<1> USE SessionAssumption
<1> DEFINE r == request[c]
           q == [r EXCEPT !.at = "sadd"]
<1>1. r.at = "set" /\ RequestMoves(c, q)
      /\ life' = [life EXCEPT ![r.new] = r.ttl]
      /\ UNCHANGED <<active, issued, index, ilife, admin, closed, astray>>
  BY DEF Set, At, To, Mine, RequestMoves
<1>2. q \in RequestState /\ q.op = r.op /\ q.at = "sadd" /\ q.new = r.new /\ q.old = r.old
      /\ q.ttl = r.ttl /\ r.ttl \in 0..Life
  BY SessionFacts DEF RequestState
<1>3. RequestShape(q, issued) /\ r.new \in issued /\ r.new \in Held /\ r.ttl # 0
  BY <1>1, <1>2, SessionFacts DEF RequestShape, Held
<1> HIDE DEF q
<1>4. RequestsOK'
  BY <1>1, <1>2, <1>3, RequestsStay DEF SessionInv
<1>5. KeysOK'
  BY <1>1, <1>2, <1>3, SessionFacts DEF KeysOK
<1>6. EndedStaysEnded'
  BY <1>1, <1>3, SessionFacts DEF EndedStaysEnded, Alive
<1>7. closed' \cap Held' = {}
  BY <1>1, <1>2, HeldAndSaving, SessionFacts DEF SessionInv
<1>8. \A s \in Saving : s \in Saving'
  BY <1>1, <1>2, HeldAndSaving DEF SessionInv
<1>9. r.new \in Saving'
  BY <1>1, <1>2, HeldAndSaving DEF SessionInv
<1>10. IndexCovers'
  BY <1>1, <1>8, <1>9, SessionFacts DEF IndexCovers, Alive
<1> QED BY <1>1, <1>4, <1>5, <1>6, <1>7, <1>10 DEF SessionInv, AdminOK

LEMMA SAddInv ==
    ASSUME SessionInv, NEW c \in Client, SAdd(c) PROVE SessionInv'
<1> USE SessionAssumption
<1> DEFINE r == request[c]
           q == [r EXCEPT !.at = "expire"]
<1>1. /\ r.at = "sadd" /\ RequestMoves(c, q)
      /\ index' = index \cup {r.new} /\ astray' = astray \ {r.new}
      /\ ilife' = IF index = {} THEN NoExpiry ELSE ilife
      /\ UNCHANGED <<active, issued, life, admin, closed>>
  BY DEF SAdd, SetIndex, At, To, Mine, RequestMoves
<1>2. q \in RequestState /\ q.op = r.op /\ q.at = "expire" /\ q.new = r.new /\ q.old = r.old
      /\ q.ttl = r.ttl
  BY SessionFacts DEF RequestState
<1>3. RequestShape(q, issued) /\ r.new \in issued
  BY <1>1, <1>2, SessionFacts DEF RequestShape
<1> HIDE DEF q
<1>4. RequestsOK'
  BY <1>1, <1>2, <1>3, RequestsStay DEF SessionInv
<1>5. KeysOK'
  <2>1. index' \in SUBSET issued /\ astray' \in SUBSET issued /\ index' # {}
    BY <1>1, <1>3, SessionFacts
  <2>2. ilife' \in 0..NoExpiry /\ ilife' # 0
    BY <1>1, IndexTTL
  <2> QED BY <1>1, <2>1, <2>2, SessionFacts DEF KeysOK
<1>6. EndedStaysEnded'
  BY <1>1, SessionFacts DEF EndedStaysEnded, Alive
<1>7. closed' \cap Held' = {}
  BY <1>1, <1>2, HeldAndSaving, SessionFacts DEF SessionInv
<1>8. \A s \in Saving : s \in Saving' \/ s = r.new
  BY <1>1, <1>2, HeldAndSaving DEF SessionInv
<1>9. IndexCovers'
  BY <1>1, <1>8, SessionFacts DEF IndexCovers, Alive
<1> QED BY <1>1, <1>4, <1>5, <1>6, <1>7, <1>9 DEF SessionInv, AdminOK

LEMMA ExpireInv ==
    ASSUME SessionInv, NEW c \in Client, Expire(c) PROVE SessionInv'
<1> USE SessionAssumption
<1> DEFINE r == request[c]
<1>1. r.at = "expire" /\ r.ttl # 0 /\ r.new \in issued /\ r.ttl \in 0..Life
      /\ r.op \in {"login", "update", "refresh"}
  BY SessionFacts DEF Expire, At, RequestShape, RequestState
<1>2. /\ index' = index
      /\ ilife' = IF index = {} THEN 0 ELSE r.ttl
      /\ UNCHANGED <<active, issued, life, admin, closed, astray>> /\ NextAfterSave(c)
  BY DEF Expire, SetIndex
<1>3. PICK q \in RequestState : RequestMoves(c, q) /\ RequestShape(q, issued)
                                /\ q.at \in {"idle", "audit", "find"}
  <2>1. NoRequest \in RequestState /\ RequestShape(NoRequest, issued) /\ NoRequest.at = "idle"
    BY DEF NoRequest, RequestState, RequestShape
  <2>2. ASSUME NEW step \in {"audit", "find"}, RequestMoves(c, [r EXCEPT !.at = step]),
               step = "find" => r.op = "refresh"
        PROVE  \E q \in RequestState : RequestMoves(c, q) /\ RequestShape(q, issued)
                                       /\ q.at \in {"idle", "audit", "find"}
    <3> DEFINE q == [r EXCEPT !.at = step]
    <3>1. q \in RequestState /\ q.op = r.op /\ q.at = step /\ q.new = r.new /\ q.old = r.old
          /\ q.ttl = r.ttl
      BY SessionFacts DEF RequestState
    <3>2. RequestShape(q, issued)
      BY <1>1, <2>2, <3>1, SessionFacts DEF RequestShape
    <3> QED BY <2>2, <3>1, <3>2
  <2>3. CASE r.op = "login"
    BY <1>2, <2>2, <2>3 DEF NextAfterSave, To, RequestMoves
  <2>4. CASE r.op = "refresh"
    BY <1>2, <2>2, <2>4 DEF NextAfterSave, To, RequestMoves
  <2>5. CASE r.op = "update"
    BY <1>2, <2>1, <2>5 DEF NextAfterSave, Done, RequestMoves
  <2> QED BY <1>1, <2>3, <2>4, <2>5
<1>4. RequestsOK'
  BY <1>2, <1>3, RequestsStay DEF SessionInv
<1>5. KeysOK'
  BY <1>1, <1>2, SessionFacts DEF KeysOK, NoExpiry
<1>6. EndedStaysEnded'
  BY <1>2, SessionFacts DEF EndedStaysEnded, Alive
<1>7. closed' \cap Held' = {}
  BY <1>2, <1>3, HeldAndSaving, SessionFacts DEF SessionInv
<1>8. \A s \in Saving : s \in Saving'
  BY <1>1, <1>3, HeldAndSaving DEF SessionInv
<1>9. IndexCovers'
  BY <1>2, <1>8, SessionFacts DEF IndexCovers, Alive
<1> QED BY <1>2, <1>4, <1>5, <1>6, <1>7, <1>9 DEF SessionInv, AdminOK

-----------------------------------------------------------------------------
(* Delete.                                                                 *)
LEMMA AfterDelete ==
    ASSUME SessionInv, NEW c \in Client, issued' = issued,
           request[c].at \in {"del", "delonly", "srem"},
           NextAfterDelete(c) \/ (To(c, "srem") /\ At(c, "del"))
    PROVE  \E q \in RequestState : RequestMoves(c, q) /\ RequestShape(q, issued)
                                   /\ q.at \in {"idle", "audit", "srem"}
<1> DEFINE r == request[c]
<1>1. NoRequest \in RequestState /\ RequestShape(NoRequest, issued) /\ NoRequest.at = "idle"
  BY SessionAssumption DEF NoRequest, RequestState, RequestShape
<1>2. r \in RequestState /\ RequestShape(r, issued)
  BY SessionFacts
<1>3. ASSUME To(c, "audit"), r.new \in issued
      PROVE  \E q \in RequestState : RequestMoves(c, q) /\ RequestShape(q, issued) /\ q.at = "audit"
  <2> DEFINE q == [r EXCEPT !.at = "audit"]
  <2>1. q \in RequestState /\ q.op = r.op /\ q.at = "audit" /\ q.new = r.new /\ q.old = r.old
        /\ q.ttl = r.ttl
    BY <1>2 DEF RequestState
  <2>2. RequestShape(q, issued) /\ RequestMoves(c, q)
    BY <1>2, <1>3, <2>1 DEF RequestShape, To, RequestMoves
  <2> QED BY <2>1, <2>2
<1>4. CASE To(c, "srem") /\ At(c, "del")
  <2> DEFINE q == [r EXCEPT !.at = "srem"]
  <2>1. q \in RequestState /\ q.op = r.op /\ q.at = "srem" /\ q.new = r.new /\ q.old = r.old
        /\ q.ttl = r.ttl
    BY <1>2 DEF RequestState
  <2>2. RequestShape(q, issued) /\ RequestMoves(c, q)
    BY <1>2, <1>4, <2>1 DEF RequestShape, To, RequestMoves, At
  <2> QED BY <2>1, <2>2
<1>5. CASE NextAfterDelete(c)
  <2>1. r.op = "refresh" => r.new \in issued
    BY <1>2 DEF RequestShape
  <2> QED BY <1>1, <1>3, <1>5, <2>1 DEF NextAfterDelete, Done, RequestMoves
<1> QED BY <1>4, <1>5

LEMMA DelInv ==
    ASSUME SessionInv, NEW c \in Client, Del(c) PROVE SessionInv'
<1> USE SessionAssumption
<1> DEFINE old == request[c].old
<1>1. /\ request[c].at \in {"del", "delonly"} /\ old \in issued
      /\ life' = [s \in Session |-> IF s = old THEN 0 ELSE life[s]]
      /\ closed' = closed \cup ({old} \ Held)
      /\ astray' = {s \in astray : life'[s] > 0}
      /\ UNCHANGED <<active, issued, index, ilife, admin>>
      /\ NextAfterDelete(c) \/ (To(c, "srem") /\ At(c, "del"))
  BY SessionFacts DEF Del, End, Strays, RequestShape
<1>2. PICK q \in RequestState : RequestMoves(c, q) /\ RequestShape(q, issued)
                                /\ q.at \in {"idle", "audit", "srem"}
  BY <1>1, AfterDelete
<1> HIDE DEF old
<1>3. RequestsOK'
  BY <1>1, <1>2, RequestsStay DEF SessionInv
<1>4. KeysOK'
  BY <1>1, SessionFacts DEF KeysOK
<1>5. EndedStaysEnded'
  BY <1>1, SessionFacts DEF EndedStaysEnded, Alive
<1>6. closed' \cap Held' = {}
  BY <1>1, <1>2, HeldAndSaving, SessionFacts DEF SessionInv
<1>7. \A s \in Saving : s \in Saving'
  BY <1>1, <1>2, HeldAndSaving DEF SessionInv
<1>8. IndexCovers'
  BY <1>1, <1>7, SessionFacts DEF IndexCovers, Alive
<1> QED BY <1>1, <1>3, <1>4, <1>5, <1>6, <1>8 DEF SessionInv, AdminOK

LEMMA SRemInv ==
    ASSUME SessionInv, NEW c \in Client, SRem(c) PROVE SessionInv'
<1> USE SessionAssumption
<1> DEFINE old == request[c].old
<1>1. /\ request[c].at = "srem" /\ old \in issued
      /\ index' = index \ {old}
      /\ ilife' = IF index \ {old} = {} THEN 0 ELSE ilife
      /\ astray' = {s \in astray \cup {old} : life'[s] > 0}
      /\ UNCHANGED <<active, issued, life, admin, closed>>
      /\ NextAfterDelete(c)
  BY SessionFacts DEF SRem, SetIndex, Strays, RequestShape, At
<1>2. PICK q \in RequestState : RequestMoves(c, q) /\ RequestShape(q, issued)
                                /\ q.at \in {"idle", "audit", "srem"}
  BY <1>1, AfterDelete
<1> HIDE DEF old
<1>3. RequestsOK'
  BY <1>1, <1>2, RequestsStay DEF SessionInv
<1>4. KeysOK'
  <2>1. index' \in SUBSET issued /\ astray' \in SUBSET issued
    BY <1>1, SessionFacts
  <2>2. ilife' \in 0..NoExpiry /\ (ilife' = 0 <=> index' = {})
    BY <1>1, IndexTTL
  <2> QED BY <1>1, <2>1, <2>2, SessionFacts DEF KeysOK
<1>5. EndedStaysEnded'
  BY <1>1, SessionFacts DEF EndedStaysEnded, Alive
<1>6. closed' \cap Held' = {}
  BY <1>1, <1>2, HeldAndSaving, SessionFacts DEF SessionInv
<1>7. \A s \in Saving : s \in Saving'
  BY <1>1, <1>2, HeldAndSaving DEF SessionInv
<1>8. IndexCovers'
  BY <1>1, <1>7, SessionFacts DEF IndexCovers, Alive
<1> QED BY <1>1, <1>3, <1>4, <1>5, <1>6, <1>8 DEF SessionInv, AdminOK

LEMMA StopInv ==
    ASSUME SessionInv, NEW c \in Client, Stop(c) PROVE SessionInv'
<1> USE SessionAssumption
<1> DEFINE r == request[c]
           lost == IF r.at = "sadd" THEN astray \cup ({r.new} \ index) ELSE astray
<1>1. /\ r.at = "sadd" => r.new \in issued
      /\ RequestMoves(c, NoRequest)
      /\ astray' = {s \in lost : life'[s] > 0}
      /\ UNCHANGED <<active, issued, life, index, ilife, admin, closed>>
  BY SessionFacts DEF Stop, Strays, RequestShape, At, Done, Mine, RequestMoves
<1>2. NoRequest \in RequestState /\ RequestShape(NoRequest, issued) /\ NoRequest.at = "idle"
  BY DEF NoRequest, RequestState, RequestShape
<1>3. RequestsOK'
  BY <1>1, <1>2, RequestsStay DEF SessionInv
<1>4. KeysOK'
  BY <1>1, SessionFacts DEF KeysOK
<1>5. EndedStaysEnded'
  BY <1>1, SessionFacts DEF EndedStaysEnded, Alive
<1>6. closed' \cap Held' = {}
  BY <1>1, <1>2, HeldAndSaving, SessionFacts DEF SessionInv
<1>7. \A s \in Saving : s \in Saving' \/ (r.at = "sadd" /\ s = r.new)
  BY <1>1, <1>2, HeldAndSaving DEF SessionInv
<1>8. IndexCovers'
  BY <1>1, <1>7, SessionFacts DEF IndexCovers, Alive
<1> QED BY <1>1, <1>3, <1>4, <1>5, <1>6, <1>8 DEF SessionInv, AdminOK

-----------------------------------------------------------------------------
LEMMA AdminInv ==
    ASSUME SessionInv, AdminStep \/ DeactivationStops PROVE SessionInv'
<1> USE SessionAssumption
<1> USE DEF AdminState, NoAdmin
<1>1. UNCHANGED <<issued, request>>
  BY DEF AdminStep, Deactivate, Reactivate, Reconcile, ListSessions, DeleteListed,
     DeactivationStops
<1>2. RequestsOK' /\ Held' = Held /\ Saving' = Saving
  BY <1>1, SessionNoChange DEF SessionInv, RequestsOK
<1>3. CASE Deactivate \/ Reactivate \/ Reconcile \/ DeactivationStops
  <2>1. UNCHANGED <<life, index, ilife, closed, astray>>
    BY <1>3 DEF Deactivate, Reactivate, Reconcile, DeactivationStops
  <2>2. active' \in BOOLEAN /\ admin' \in {admin, NoAdmin, [NoAdmin EXCEPT !.at = "list"]}
    BY <1>3 DEF Deactivate, Reactivate, Reconcile, DeactivationStops, SessionInv
  <2>3. admin' \in AdminState /\ AdminOK'
    BY <1>1, <2>2 DEF SessionInv, AdminOK
  <2> QED BY <1>1, <1>2, <2>1, <2>2, <2>3
          DEF SessionInv, KeysOK, EndedStaysEnded, Alive, IndexCovers
<1>4. CASE ListSessions
  <2>1. UNCHANGED <<active, life, index, ilife, closed, astray>>
    BY <1>4 DEF ListSessions
  <2>2. {s \in Session : Alive(s)} \ (astray \cup Saving) \subseteq index
    BY DEF SessionInv, IndexCovers
  <2>3. index \in SUBSET Session /\ index \subseteq issued
    BY DEF SessionInv, KeysOK
  <2>4. admin' \in AdminState /\ AdminOK'
    BY <1>1, <1>4, <2>2, <2>3 DEF ListSessions, AdminOK
  <2> QED BY <1>1, <1>2, <2>1, <2>4
          DEF SessionInv, KeysOK, EndedStaysEnded, Alive, IndexCovers
<1>5. CASE DeleteListed
  <2>1. /\ admin.promised \subseteq admin.listed /\ admin.listed \subseteq issued
        /\ admin \in AdminState
        /\ life' = [s \in Session |-> IF s \in admin.listed THEN 0 ELSE life[s]]
        /\ closed' = closed \cup (admin.promised \ Held)
        /\ index' = {} /\ ilife' = 0
        /\ astray' = {s \in astray \cup index : life'[s] > 0}
        /\ admin' = NoAdmin /\ active' = active
    BY <1>5 DEF DeleteListed, SetIndex, Strays, SessionInv, AdminOK
  <2>2. KeysOK'
    <3>1. life' \in [Session -> 0..Life] /\ \A s \in Session \ issued : life'[s] = 0
      BY <2>1 DEF SessionInv, KeysOK
    <3>2. closed' \subseteq issued /\ astray' \subseteq issued
      BY <2>1 DEF SessionInv, KeysOK
    <3>3. index' \in SUBSET issued' /\ ilife' \in 0..NoExpiry /\ (ilife' = 0 <=> index' = {})
      BY <2>1, IndexTTL
    <3> QED BY <1>1, <3>1, <3>2, <3>3 DEF SessionInv, KeysOK
  <2>3. EndedStaysEnded'
    BY <2>1 DEF SessionInv, KeysOK, EndedStaysEnded, Alive
  <2>4. closed' \cap Held' = {}
    BY <1>2, <2>1 DEF SessionInv
  <2>5. IndexCovers'
    BY <1>1, <1>2, <2>1 DEF SessionInv, KeysOK, IndexCovers, Alive
  <2>6. active' \in BOOLEAN /\ admin' \in AdminState /\ AdminOK'
    BY <2>1 DEF SessionInv, AdminOK
  <2> QED BY <1>2, <2>2, <2>3, <2>4, <2>5, <2>6 DEF SessionInv
<1> QED BY <1>3, <1>4, <1>5 DEF AdminStep

LEMMA SessionTick ==
    ASSUME SessionInv, Tick PROVE SessionInv'
<1> USE SessionAssumption
<1>1. /\ life' = [s \in Session |-> IF life[s] = 0 THEN 0 ELSE life[s] - 1]
      /\ closed' = closed \cup ({s \in Session : life[s] = 1} \ Held)
      /\ ilife' = IndexLeft
      /\ index' = IF IndexLeft = 0 THEN {} ELSE index
      /\ astray' = {s \in astray \cup (index \ index') : life'[s] > 0}
      /\ UNCHANGED <<active, issued, request, admin>>
  BY DEF Tick, Down, Strays
<1>2. RequestsOK' /\ Held' = Held /\ Saving' = Saving
  BY <1>1, SessionNoChange DEF SessionInv, RequestsOK
<1>3. IndexLeft \in 0..NoExpiry /\ (index = {} => IndexLeft = 0)
  BY IndexTTL DEF IndexLeft, Down
<1>4. KeysOK'
  <2>1. life' \in [Session -> 0..Life] /\ \A s \in Session \ issued : life'[s] = 0
    BY <1>1 DEF SessionInv, KeysOK
  <2>2. \A s \in Session : life[s] = 1 => s \in issued
    BY DEF SessionInv, KeysOK
  <2> QED BY <1>1, <1>3, <2>1, <2>2 DEF SessionInv, KeysOK
<1>5. EndedStaysEnded'
  BY <1>1 DEF SessionInv, KeysOK, EndedStaysEnded, Alive
<1>6. closed' \cap Held' = {}
  BY <1>1, <1>2 DEF SessionInv
<1>7. IndexCovers'
  BY <1>1, <1>2 DEF SessionInv, KeysOK, IndexCovers, Alive
<1> QED BY <1>1, <1>2, <1>4, <1>5, <1>6, <1>7 DEF SessionInv, AdminOK

-----------------------------------------------------------------------------
LEMMA SessionStepInv ==
    ASSUME SessionInv, [SessionNext]_<<sessionVars, faults>> PROVE SessionInv'
<1>1. CASE UNCHANGED <<sessionVars, faults>>
  BY <1>1 DEF sessionVars, SessionInv, RequestsOK, KeysOK, EndedStaysEnded, Alive, Held,
     IndexCovers, Saving, AdminOK
<1>2. CASE SessionNext
  BY <1>2, QuietStepInv, SetInv, SAddInv, ExpireInv, DelInv, SRemInv, StopInv, AdminInv, SessionTick
  DEF SessionNext, ClientStep, QuietStep
<1> QED BY <1>1, <1>2

(* The requests, the keys and the user's set stay in their types.          *)
THEOREM SessionTypesHold == SessionSpec => []SessionTypeOK
<1>1. SessionInv => SessionTypeOK
  BY DEF SessionInv, SessionTypeOK, RequestsOK, KeysOK
<1> QED BY <1>1, SessionInvInit, SessionStepInv, PTL DEF SessionSpec

(* What has ended stays ended: no key of Redis that has expired or was     *)
(* deleted comes back, however logins, updates, refreshes, logouts,        *)
(* deactivations and failures interleave.                                  *)
THEOREM SessionsStayEnded == SessionSpec => []EndedStaysEnded
<1>1. SessionInv => EndedStaysEnded
  BY DEF SessionInv
<1> QED BY <1>1, SessionInvInit, SessionStepInv, PTL DEF SessionSpec

-----------------------------------------------------------------------------
(* Delegated grants.                                                       *)
-----------------------------------------------------------------------------

(* Every token that is spoken of has been issued.                          *)
Known(t, ids) == t \in ids \/ t = NoToken

(* What a request, or the deactivation, knows at its steps.                *)
CallOK(cs, ids, good) ==
    /\ cs \in CallState /\ Known(cs.token, ids) /\ Known(cs.source, ids)
    /\ cs.at \in {"refresh", "withdraw"} => cs.token = cs.source
    /\ cs.at \in {"upsert", "store"} => cs.token # NoToken
    /\ cs.at \in {"delete", "again"} => cs.source \notin good
    /\ cs.at = "mark" => cs.token \notin good

(* A token that the provider has answered with, on its way to the row.     *)
Fresh(c) == call[c].at = "upsert" \/ (call[c].at = "store" /\ rotates)

(* It works, and nobody else has it: so nobody else can end it.            *)
FreshOK(c) == /\ call[c].token \in valid
              /\ \A d \in Caller : d # c => call[d].token # call[c].token
              /\ leaving.token # call[c].token
              /\ grant.token # call[c].token

TokensOK ==
    /\ grant \in GrantRow /\ (grant.state = "none" <=> grant.token = NoToken)
    /\ Known(grant.token, spent) /\ Known(grant.refused, spent)
    /\ grantee \in BOOLEAN /\ rotates \in BOOLEAN
    /\ spent \in SUBSET Token /\ valid \in SUBSET spent
    /\ forsaken \in SUBSET spent /\ withdrawn \in SUBSET spent

CallsOK == /\ call \in [Caller -> CallState]
           /\ \A c \in Caller : CallOK(call[c], spent, valid)
           /\ CallOK(leaving, spent, valid)

AllFreshOK == \A c \in Caller : Fresh(c) => FreshOK(c)

GrantInv == TokensOK /\ CallsOK /\ AllFreshOK /\ GrantMatchesProvider

(* The witnesses of BeingReplaced, one by one.                             *)
Replaces(cs, t) == cs.source = t /\ cs.at \in {"store", "delete", "again"}

LEMMA BeingReplacedBy ==
    ASSUME NEW t
    PROVE  BeingReplaced(t) <=> (\E c \in Caller : Replaces(call[c], t)) \/ Replaces(leaving, t)
BY DEF BeingReplaced, Replaces

LEMMA GrantInvInit == GrantInit => GrantInv
<1> SUFFICES ASSUME GrantInit PROVE GrantInv
  OBVIOUS
<1>1. NoCall \in CallState /\ NoGrant \in GrantRow
  BY DEF NoCall, NoGrant, CallState, GrantRow, MaybeToken
<1>2. TokensOK
  BY <1>1 DEF GrantInit, TokensOK, Known, NoGrant
<1>3. CallOK(NoCall, spent, valid)
  BY <1>1 DEF CallOK, Known, NoCall
<1>4. CallsOK
  BY <1>1, <1>3 DEF GrantInit, CallsOK
<1>5. AllFreshOK
  BY DEF GrantInit, AllFreshOK, Fresh, NoCall
<1>6. GrantMatchesProvider
  BY DEF GrantInit, GrantMatchesProvider, Live, NoGrant
<1> QED BY <1>2, <1>4, <1>5, <1>6 DEF GrantInv

-----------------------------------------------------------------------------
(* A request moves on, and the row stays: it arrives, reads the row, is    *)
(* answered, or learns that its token is refused.                          *)
LEMMA CallMoves ==
    ASSUME GrantInv, UNCHANGED <<grant, rotates, spent, valid, withdrawn, leaving>>,
           grantee' \in BOOLEAN, forsaken' \in SUBSET spent, forsaken \subseteq forsaken',
           NEW c \in Caller, NEW q, call' = [call EXCEPT ![c] = q], CallOK(q, spent, valid),
           q.token \in {NoToken, grant.token, call[c].token},
           q.at # "upsert" /\ (q.at = "store" => ~rotates),
           Replaces(call[c], grant.token) /\ grant.token \notin valid =>
               grant.token \in forsaken' \/ grant.state # "active"
    PROVE  GrantInv'
<1> USE GrantAssumption
<1>1. \A d \in Caller : call'[d] = IF d = c THEN q ELSE call[d]
  BY DEF GrantInv, CallsOK
<1>2. TokensOK'
  BY DEF GrantInv, TokensOK, Known
<1>3. CallsOK'
  <2>1. call' \in [Caller -> CallState]
    BY DEF GrantInv, CallsOK, CallOK
  <2> QED BY <1>1, <2>1 DEF GrantInv, CallsOK, CallOK, Known
<1>4. ASSUME NEW d \in Caller, Fresh(d)' PROVE FreshOK(d)'
  <2>1. d # c /\ Fresh(d)
    BY <1>1, <1>4 DEF Fresh
  <2>2. FreshOK(d)
    BY <2>1 DEF GrantInv, AllFreshOK
  <2>3. call[d].token # NoToken
    BY <2>1 DEF GrantInv, CallsOK, CallOK, Fresh
  <2> QED BY <1>1, <2>1, <2>2, <2>3 DEF FreshOK
<1>5. GrantMatchesProvider'
  <2>1. ASSUME rotates, Live, grant.token \notin valid
        PROVE  BeingReplaced(grant.token)' \/ grant.token \in forsaken'
    <3>1. BeingReplaced(grant.token) \/ grant.token \in forsaken
      BY <2>1 DEF GrantInv, GrantMatchesProvider
    <3>2. CASE grant.token \in forsaken \/ Replaces(call[c], grant.token)
      BY <2>1, <3>2 DEF Live
    <3>3. CASE Replaces(leaving, grant.token)
      BY <3>3, BeingReplacedBy DEF BeingReplaced, Replaces
    <3>4. ASSUME NEW d \in Caller, d # c, Replaces(call[d], grant.token)
          PROVE  BeingReplaced(grant.token)'
      BY <1>1, <3>4 DEF BeingReplaced, Replaces
    <3> QED BY <3>1, <3>2, <3>3, <3>4, BeingReplacedBy
  <2> QED BY <2>1 DEF GrantInv, GrantMatchesProvider, Live
<1> QED BY <1>2, <1>3, <1>4, <1>5 DEF GrantInv, AllFreshOK

(* The steps of a request that are such moves.                             *)
LEMMA CallMoveSteps ==
    ASSUME GrantInv, NEW c \in Caller,
           Callback(c) \/ LoadGrant(c) \/ RefreshKeeps(c) \/ RefreshRefused(c) \/ BeginDelete(c)
           \/ CallStops(c)
    PROVE  GrantInv'
<1> USE GrantAssumption
<1>1. /\ CallOK(call[c], spent, valid) /\ call[c] \in CallState
      /\ TokensOK /\ Known(grant.token, spent) /\ valid \in SUBSET spent /\ spent \in SUBSET Token
      /\ Known(NoToken, spent) /\ NoToken \notin valid /\ forsaken \in SUBSET spent
  BY DEF GrantInv, CallsOK, TokensOK, CallOK, Known
<1>2. ASSUME NEW step \in {"exchange", "refresh", "mark", "withdraw", "delete", "idle"},
             NEW t \in {NoToken, grant.token},
             step = "mark" => t \notin valid, step = "delete" => t \notin valid
      PROVE  \A s \in {t, grant.token} :
                 (step # "mark" => s = t) => CallOK([at |-> step, token |-> t, source |-> s], spent, valid)
  BY <1>1, <1>2 DEF CallOK, CallState, MaybeToken, TokensOK, GrantRow, Known
<1>3. ASSUME call[c].at = "idle", UNCHANGED <<grant, grantee, leaving, external, history>>,
             NEW step \in {"exchange", "refresh", "mark", "withdraw", "delete"},
             NEW t \in {NoToken, grant.token}, NEW s \in {t, grant.token},
             step # "mark" => s = t, step \in {"mark", "delete"} => t \notin valid,
             Proceed(c, step, t, s)
      PROVE  GrantInv'
  <2> DEFINE q == [at |-> step, token |-> t, source |-> s]
  <2>1. CallOK(q, spent, valid) /\ q.token \in {NoToken, grant.token, call[c].token}
        /\ q.at \notin {"upsert", "store"}
    BY <1>2, <1>3
  <2>2. /\ UNCHANGED <<grant, rotates, spent, valid, withdrawn, leaving>>
        /\ grantee' \in BOOLEAN /\ forsaken' \in SUBSET spent /\ forsaken \subseteq forsaken'
        /\ call' = [call EXCEPT ![c] = q] /\ ~Replaces(call[c], grant.token)
    BY <1>1, <1>3 DEF external, history, Proceed, Replaces, TokensOK
  <2> HIDE DEF q
  <2> QED BY <2>1, <2>2, CallMoves
<1>4. CASE Callback(c)
  BY <1>3, <1>4 DEF Callback, Arrives, CallAt
<1>5. CASE LoadGrant(c)
  BY <1>1, <1>3, <1>5 DEF LoadGrant, Arrives, CallAt
<1>6. CASE BeginDelete(c)
  BY <1>1, <1>3, <1>6 DEF BeginDelete, Arrives, CallAt, Seen
<1>7. CASE RefreshKeeps(c) \/ RefreshRefused(c)
  <2> DEFINE q == [at |-> IF RefreshKeeps(c) THEN "store" ELSE "mark",
                   token |-> call[c].token, source |-> call[c].source]
  <2>1. /\ call[c].at = "refresh"
        /\ call' = [call EXCEPT ![c] = q]
        /\ IF q.at = "store" THEN call[c].token \in valid /\ ~rotates
                             ELSE call[c].token \notin valid
        /\ UNCHANGED <<grant, grantee, leaving, rotates, spent, valid, forsaken, withdrawn>>
    BY <1>7 DEF RefreshKeeps, RefreshRefused, CallAt, Proceed, external, history
  <2>2. q \in CallState /\ q.token = call[c].token /\ q.source = call[c].source
        /\ q.at \in {"store", "mark"}
    BY <1>1 DEF CallState
  <2> HIDE DEF q
  <2>3. CallOK(q, spent, valid)
    BY <1>1, <2>1, <2>2 DEF CallOK
  <2> QED BY <1>1, <2>1, <2>2, <2>3, CallMoves DEF TokensOK, Replaces
<1>8. CASE CallStops(c)
  <2>1. CallOK(NoCall, spent, valid) /\ NoCall.token = NoToken /\ NoCall.at = "idle"
    BY <1>1 DEF NoCall, CallOK, CallState, MaybeToken
  <2>2. /\ UNCHANGED <<grant, grantee, leaving, rotates, spent, valid, withdrawn>>
        /\ forsaken' = forsaken \cup ({call[c].source} \cap (spent \ valid))
        /\ call' = [call EXCEPT ![c] = NoCall]
    BY <1>8 DEF CallStops, Answered, Forsakes, external
  <2>3. Replaces(call[c], grant.token) /\ grant.token \notin valid =>
            grant.token \in forsaken' \/ grant.state # "active"
    BY <1>1, <2>2 DEF Replaces, Known, TokensOK
  <2> QED BY <1>1, <2>1, <2>2, <2>3, CallMoves DEF TokensOK
<1> QED BY <1>4, <1>5, <1>6, <1>7, <1>8

-----------------------------------------------------------------------------
(* The provider answers with a new token t, and ends the source of q.      *)
LEMMA NewToken ==
    ASSUME GrantInv, UNCHANGED <<grant, grantee, leaving, rotates, forsaken, withdrawn>>,
           NEW c \in Caller, NEW t \in Token \ spent, spent' = spent \cup {t},
           NEW q, CallOK(q, spent', valid'), call' = [call EXCEPT ![c] = q],
           q.token = t, q.at = "upsert" \/ (q.at = "store" /\ rotates),
           ~Fresh(c), call[c].at \notin {"delete", "again", "store"},
           \/ valid' = valid \cup {t}
           \/ /\ valid' = (valid \ {q.source}) \cup {t} /\ q.at = "store"
              /\ q.source = call[c].token
    PROVE  GrantInv'
<1> USE GrantAssumption
<1>1. \A d \in Caller : call'[d] = IF d = c THEN q ELSE call[d]
  BY DEF GrantInv, CallsOK
<1>2. TokensOK'
  BY DEF GrantInv, TokensOK, Known
<1>3. CallsOK'
  <2>1. call' \in [Caller -> CallState]
    BY DEF GrantInv, CallsOK, CallOK
  <2>2. ASSUME NEW cs, CallOK(cs, spent, valid) PROVE CallOK(cs, spent', valid')
    BY <2>2 DEF CallOK, Known
  <2>3. \A d \in Caller : CallOK(call[d], spent, valid) /\ CallOK(leaving, spent, valid)
    BY DEF GrantInv, CallsOK
  <2> QED BY <1>1, <2>1, <2>2, <2>3 DEF CallsOK
<1>4. ASSUME NEW d \in Caller, Fresh(d)' PROVE FreshOK(d)'
  <2>1. /\ \A e \in Caller : Known(call[e].token, spent) /\ Known(leaving.token, spent) /\ Known(grant.token, spent)
    BY DEF GrantInv, CallsOK, CallOK, TokensOK
  <2>2. CASE d = c
    BY <1>1, <2>1, <2>2 DEF FreshOK, Known
  <2>3. CASE d # c
    <3>1. FreshOK(d) /\ Known(call[d].token, spent)
      BY <1>1, <1>4, <2>1, <2>3 DEF Fresh, GrantInv, AllFreshOK
    <3>2. call[d].token \in valid /\ call[d].token # call[c].token /\ call[d].token # t
      BY <2>3, <3>1 DEF FreshOK, GrantInv, TokensOK
    <3> QED BY <1>1, <2>3, <3>1, <3>2 DEF FreshOK
  <2> QED BY <2>2, <2>3
<1>5. GrantMatchesProvider'
  <2>1. ASSUME rotates, Live, grant.token \notin valid'
        PROVE  BeingReplaced(grant.token)' \/ grant.token \in forsaken
    <3>1. CASE grant.token = q.source /\ q.at = "store"
      BY <1>1, <3>1 DEF BeingReplaced
    <3>2. CASE ~(grant.token = q.source /\ q.at = "store")
      <4>1. BeingReplaced(grant.token) \/ grant.token \in forsaken
        BY <2>1, <3>2 DEF GrantInv, GrantMatchesProvider
      <4>2. CASE grant.token \in forsaken
        BY <4>2
      <4>3. CASE Replaces(leaving, grant.token)
        BY <4>3 DEF BeingReplaced, Replaces
      <4>4. ASSUME NEW d \in Caller, Replaces(call[d], grant.token)
            PROVE  BeingReplaced(grant.token)'
        <5>1. d # c
          BY <4>4 DEF Replaces
        <5> QED BY <1>1, <4>4, <5>1 DEF BeingReplaced, Replaces
      <4> QED BY <4>1, <4>2, <4>3, <4>4, BeingReplacedBy
    <3> QED BY <3>1, <3>2
  <2>2. withdrawn \cap valid' = {} /\ grant.refused \notin valid'
    BY DEF GrantInv, GrantMatchesProvider, TokensOK, Known
  <2> QED BY <2>1, <2>2 DEF GrantMatchesProvider, Live
<1> QED BY <1>2, <1>3, <1>4, <1>5 DEF GrantInv, AllFreshOK

LEMMA NewTokenSteps ==
    ASSUME GrantInv, NEW c \in Caller, NEW t \in Token, ExchangeCode(c, t) \/ RefreshRotates(c, t)
    PROVE  GrantInv'
<1> USE GrantAssumption
<1>1. CallOK(call[c], spent, valid) /\ call[c] \in CallState /\ t \notin spent /\ TokensOK
  BY DEF GrantInv, CallsOK, CallOK, ExchangeCode, RefreshRotates, Unspent
<1>2. CASE ExchangeCode(c, t)
  <2> DEFINE q == [at |-> "upsert", token |-> t, source |-> NoToken]
  <2>1. /\ call[c].at = "exchange" /\ spent' = spent \cup {t} /\ valid' = valid \cup {t}
        /\ call' = [call EXCEPT ![c] = q]
        /\ UNCHANGED <<grant, grantee, leaving, rotates, forsaken, withdrawn>>
    BY <1>2 DEF ExchangeCode, CallAt, Proceed, history
  <2>2. CallOK(q, spent', valid') /\ q.token = t /\ q.at = "upsert"
    BY <2>1 DEF CallOK, CallState, MaybeToken, Known
  <2> HIDE DEF q
  <2> QED BY <1>1, <2>1, <2>2, NewToken DEF Fresh
<1>3. CASE RefreshRotates(c, t)
  <2> DEFINE q == [at |-> "store", token |-> t, source |-> call[c].source]
  <2>1. /\ call[c].at = "refresh" /\ spent' = spent \cup {t} /\ rotates
        /\ valid' = (valid \ {call[c].token}) \cup {t}
        /\ call' = [call EXCEPT ![c] = q]
        /\ UNCHANGED <<grant, grantee, leaving, rotates, forsaken, withdrawn>>
    BY <1>3 DEF RefreshRotates, CallAt, Proceed, history
  <2>2. call[c].source = call[c].token
    BY <1>1, <2>1 DEF CallOK
  <2>3. CallOK(q, spent', valid') /\ q.token = t /\ q.at = "store" /\ q.source = call[c].token
    BY <1>1, <2>1, <2>2 DEF CallOK, CallState, MaybeToken, Known
  <2> HIDE DEF q
  <2>4. /\ valid' = (valid \ {q.source}) \cup {t} /\ t \in Token \ spent
        /\ ~Fresh(c) /\ call[c].at \notin {"delete", "again", "store"}
    BY <1>1, <2>1, <2>3 DEF Fresh
  <2> QED BY <2>1, <2>3, <2>4, NewToken
<1> QED BY <1>2, <1>3

-----------------------------------------------------------------------------
(* A request writes the row, or finds none to write, and is answered.      *)
LEMMA RowWritten ==
    ASSUME GrantInv, UNCHANGED <<grantee, leaving, rotates, spent, valid, forsaken>>,
           NEW c \in Caller, call' = [call EXCEPT ![c] = NoCall],
           TokensOK', GrantMatchesProvider',
           grant'.token \in {NoToken, grant.token, call[c].token}
    PROVE  GrantInv'
<1> USE GrantAssumption
<1>1. \A d \in Caller : call'[d] = IF d = c THEN NoCall ELSE call[d]
  BY DEF GrantInv, CallsOK
<1>2. CallOK(NoCall, spent, valid) /\ NoCall.token = NoToken /\ NoCall.at = "idle"
  BY DEF NoCall, CallOK, CallState, MaybeToken, Known
<1>3. CallsOK'
  <2>1. call' \in [Caller -> CallState]
    BY <1>2 DEF GrantInv, CallsOK, CallOK
  <2> QED BY <1>1, <1>2, <2>1 DEF GrantInv, CallsOK, CallOK, Known
<1>4. ASSUME NEW d \in Caller, Fresh(d)' PROVE FreshOK(d)'
  <2>1. d # c /\ Fresh(d)
    BY <1>1, <1>2, <1>4 DEF Fresh
  <2>2. FreshOK(d) /\ call[d].token # NoToken
    BY <2>1 DEF GrantInv, AllFreshOK, CallsOK, CallOK, Fresh
  <2> QED BY <1>1, <1>2, <2>1, <2>2 DEF FreshOK
<1> QED BY <1>3, <1>4 DEF GrantInv, AllFreshOK

LEMMA RowSteps ==
    ASSUME GrantInv, NEW c \in Caller,
           SaveGrant(c) \/ StoreRefreshed(c) \/ MarkRevoked(c) \/ DeleteGrant(c)
    PROVE  GrantInv'
<1> USE GrantAssumption
<1>1. /\ CallOK(call[c], spent, valid) /\ call[c] \in CallState /\ TokensOK /\ GrantMatchesProvider
      /\ Fresh(c) => FreshOK(c)
  BY DEF GrantInv, CallsOK, CallOK, AllFreshOK
<1>2. /\ UNCHANGED <<grantee, leaving, rotates, spent, valid, forsaken>>
      /\ call' = [call EXCEPT ![c] = NoCall]
  BY DEF SaveGrant, StoreRefreshed, MarkRevoked, DeleteGrant, Answered, external, history
<1>3. ASSUME NEW t \in Token \cap spent, grant' = Granted(t), t \in valid \/ ~rotates,
             withdrawn' = withdrawn
      PROVE  TokensOK' /\ GrantMatchesProvider'
  <2>1. Granted(t) \in GrantRow /\ Granted(t).token = t /\ Granted(t).refused = NoToken
        /\ Granted(t).state = "active"
    BY <1>3 DEF Granted, GrantRow, MaybeToken
  <2>2. TokensOK'
    BY <1>1, <1>2, <1>3, <2>1 DEF TokensOK, Known
  <2>3. GrantMatchesProvider'
    BY <1>1, <1>2, <1>3, <2>1 DEF GrantMatchesProvider, TokensOK
  <2> QED BY <2>2, <2>3
<1>4. CASE SaveGrant(c)
  <2>1. /\ call[c].at = "upsert" /\ grant' = Granted(call[c].token) /\ withdrawn' = withdrawn
        /\ call[c].token \in valid
    BY <1>1, <1>4 DEF SaveGrant, CallAt, history, Fresh, FreshOK
  <2>2. call[c].token \in Token \cap spent /\ grant'.token = call[c].token
    BY <1>1, <2>1 DEF TokensOK, Granted
  <2> QED BY <1>2, <1>3, <2>1, <2>2, RowWritten
<1>5. CASE StoreRefreshed(c)
  <2>1. /\ call[c].at = "store" /\ withdrawn' = withdrawn
        /\ grant' = IF Live THEN Granted(call[c].token) ELSE grant
        /\ rotates => call[c].token \in valid
    BY <1>1, <1>5 DEF StoreRefreshed, CallAt, Updatable, NextToken, history, Fresh, FreshOK
  <2>2. CASE Live
    <3>1. call[c].token \in Token \cap spent
      BY <1>1, <2>1 DEF CallOK, CallState, MaybeToken, Known
    <3>2. grant' = Granted(call[c].token) /\ grant'.token = call[c].token
      BY <2>1, <2>2 DEF Granted
    <3> QED BY <1>2, <1>3, <2>1, <3>1, <3>2, RowWritten
  <2>3. CASE ~Live
    <3>1. grant' = grant
      BY <2>1, <2>3
    <3>2. TokensOK' /\ GrantMatchesProvider'
      BY <1>1, <1>2, <2>1, <2>3, <3>1 DEF TokensOK, Known, GrantMatchesProvider, Live
    <3> QED BY <1>2, <3>1, <3>2, RowWritten
  <2> QED BY <2>2, <2>3
<1>6. CASE MarkRevoked(c)
  <2>1. /\ call[c].at = "mark" /\ withdrawn' = withdrawn /\ call[c].token \notin valid
        /\ grant' = IF grant.state = "none" THEN grant
                    ELSE [grant EXCEPT !.state = "revoked", !.refused = call[c].token]
    BY <1>1, <1>6 DEF MarkRevoked, CallAt, history, CallOK
  <2>2. /\ grant' \in GrantRow /\ grant'.token = grant.token /\ grant'.state # "active"
        /\ grant'.state = "none" <=> grant.state = "none"
        /\ grant'.refused \in {grant.refused, call[c].token}
    BY <1>1, <2>1 DEF TokensOK, GrantRow, CallState
  <2>3. TokensOK'
    BY <1>1, <1>2, <2>1, <2>2 DEF TokensOK, Known, CallOK
  <2>4. GrantMatchesProvider'
    BY <1>1, <1>2, <2>1, <2>2 DEF GrantMatchesProvider, Live
  <2> QED BY <1>2, <2>2, <2>3, <2>4, RowWritten
<1>7. CASE DeleteGrant(c)
  <2>1. /\ call[c].at = "delete" /\ call[c].source \notin valid
        /\ grant' = NoGrant
        /\ withdrawn' \in {withdrawn, withdrawn \cup ({call[c].source} \ {NoToken})}
    BY <1>1, <1>7 DEF DeleteGrant, CallAt, RemoveRow, CallOK
  <2>2. NoGrant \in GrantRow /\ NoGrant.token = NoToken /\ NoGrant.refused = NoToken
        /\ NoGrant.state = "none"
    BY DEF NoGrant, GrantRow, MaybeToken
  <2>3. TokensOK'
    BY <1>1, <1>2, <2>1, <2>2 DEF TokensOK, Known, CallOK
  <2>4. GrantMatchesProvider'
    BY <1>1, <1>2, <2>1, <2>2 DEF GrantMatchesProvider, Live, TokensOK
  <2> QED BY <1>2, <2>1, <2>2, <2>3, <2>4, RowWritten
<1> QED BY <1>4, <1>5, <1>6, <1>7

-----------------------------------------------------------------------------
(* Withdraw and WithdrawListed: the provider revokes a token of the row,   *)
(* which who asked for it is about to delete.                              *)
LEMMA TokenEnds ==
    ASSUME GrantInv, UNCHANGED <<grant, grantee, rotates, spent, forsaken, withdrawn>>,
           NEW t, valid' = valid \ {t}, CallsOK',
           \A c \in Caller : Fresh(c)' => /\ Fresh(c) /\ call'[c] = call[c] /\ call[c].token # t
                                          /\ \A d \in Caller : call'[d].token = call[d].token,
           leaving'.token = leaving.token,
           BeingReplaced(t)',
           \A u : BeingReplaced(u) => BeingReplaced(u)'
    PROVE  GrantInv'
<1>1. TokensOK'
  BY DEF GrantInv, TokensOK, Known
<1>2. AllFreshOK'
  BY DEF GrantInv, AllFreshOK, FreshOK
<1>3. GrantMatchesProvider'
  BY DEF GrantInv, GrantMatchesProvider, Live
<1> QED BY <1>1, <1>2, <1>3 DEF GrantInv

LEMMA WithdrawSteps ==
    ASSUME GrantInv, WithdrawListed \/ \E c \in Caller : Withdraw(c)
    PROVE  GrantInv'
<1>1. TokensOK /\ CallsOK /\ AllFreshOK
  BY DEF GrantInv
<1>2. CASE WithdrawListed
  <2> DEFINE q == [leaving EXCEPT !.at = "delete"]
             t == leaving.token
  <2>1. /\ leaving.at = "withdraw" /\ leaving' = q /\ valid' = valid \ {t}
        /\ UNCHANGED <<grant, grantee, call, rotates, spent, forsaken, withdrawn>>
    BY <1>2 DEF WithdrawListed, RevokeRefreshToken, history
  <2>2. CallOK(leaving, spent, valid) /\ leaving \in CallState /\ leaving.source = t
    BY <1>1, <2>1 DEF CallsOK, CallOK
  <2>3. q \in CallState /\ q.at = "delete" /\ q.token = t /\ q.source = t
    BY <2>2 DEF CallState
  <2> HIDE DEF q
  <2>4. CallOK(q, spent', valid')
    BY <2>1, <2>2, <2>3 DEF CallOK, Known
  <2>5. CallsOK'
    BY <1>1, <2>1, <2>4 DEF CallsOK, CallOK, Known
  <2>6. \A c \in Caller : Fresh(c)' => Fresh(c) /\ call[c].token # t
    BY <1>1, <2>1 DEF Fresh, AllFreshOK, FreshOK
  <2>7. BeingReplaced(t)'
    BY <2>1, <2>3 DEF BeingReplaced
  <2>8. ASSUME NEW u, BeingReplaced(u) PROVE BeingReplaced(u)'
    BY <2>1, <2>8 DEF BeingReplaced
  <2> QED BY <2>1, <2>3, <2>5, <2>6, <2>7, <2>8, TokenEnds
<1>3. ASSUME NEW c \in Caller, Withdraw(c) PROVE GrantInv'
  <2>0. PICK t : t = call[c].token
    OBVIOUS
  <2> DEFINE q == [at |-> "delete", token |-> t, source |-> call[c].source]
  <2>1. /\ call[c].at = "withdraw" /\ call' = [call EXCEPT ![c] = q] /\ valid' = valid \ {t}
        /\ UNCHANGED <<grant, grantee, leaving, rotates, spent, forsaken, withdrawn>>
    BY <1>3, <2>0 DEF Withdraw, CallAt, Proceed, RevokeRefreshToken, history
  <2>2. CallOK(call[c], spent, valid) /\ call[c] \in CallState /\ call[c].source = t
    BY <1>1, <2>0, <2>1 DEF CallsOK, CallOK
  <2>3. q \in CallState /\ q.at = "delete" /\ q.token = t /\ q.source = t
    BY <2>2 DEF CallState
  <2> HIDE DEF q
  <2>4. CallOK(q, spent', valid')
    BY <2>1, <2>2, <2>3 DEF CallOK, Known
  <2>5. \A d \in Caller : call'[d] = IF d = c THEN q ELSE call[d]
    BY <1>1, <2>1 DEF CallsOK
  <2>6. CallsOK'
    <3>1. call' \in [Caller -> CallState]
      BY <1>1, <2>1, <2>3 DEF CallsOK
    <3>2. ASSUME NEW cs, CallOK(cs, spent, valid) PROVE CallOK(cs, spent', valid')
      BY <2>1, <3>2 DEF CallOK, Known
    <3> QED BY <1>1, <2>1, <2>4, <2>5, <3>1, <3>2 DEF CallsOK
  <2>7. \A d \in Caller : Fresh(d)' => /\ Fresh(d) /\ call'[d] = call[d] /\ call[d].token # t
                                       /\ \A e \in Caller : call'[e].token = call[e].token
    BY <1>1, <2>0, <2>1, <2>3, <2>5 DEF Fresh, AllFreshOK, FreshOK
  <2>8. BeingReplaced(t)'
    BY <2>3, <2>5 DEF BeingReplaced
  <2>9. ASSUME NEW u, BeingReplaced(u) PROVE BeingReplaced(u)'
    <3>1. CASE Replaces(leaving, u)
      BY <2>1, <3>1 DEF BeingReplaced, Replaces
    <3>2. ASSUME NEW d \in Caller, Replaces(call[d], u) PROVE BeingReplaced(u)'
      <4>1. d # c
        BY <2>1, <3>2 DEF Replaces
      <4> QED BY <2>5, <3>2, <4>1 DEF BeingReplaced, Replaces
    <3> QED BY <2>9, <3>1, <3>2, BeingReplacedBy
  <2>10. /\ UNCHANGED <<grant, grantee, rotates, spent, forsaken, withdrawn>>
         /\ valid' = valid \ {t} /\ leaving'.token = leaving.token
    BY <2>1
  <2> QED BY <2>6, <2>7, <2>8, <2>9, <2>10, TokenEnds
<1> QED BY <1>2, <1>3

-----------------------------------------------------------------------------
(* The deactivation moves on, and the row stays.                           *)
LEMMA LeavingMoves ==
    ASSUME GrantInv, UNCHANGED <<grant, call, rotates, spent, valid, withdrawn>>,
           grantee' \in BOOLEAN, forsaken' \in SUBSET spent, forsaken \subseteq forsaken',
           CallOK(leaving', spent, valid), leaving'.token \in {NoToken, grant.token},
           Replaces(leaving, grant.token) /\ grant.token \notin valid =>
               grant.token \in forsaken' \/ ~Live
    PROVE  GrantInv'
<1>1. TokensOK'
  BY DEF GrantInv, TokensOK, Known
<1>2. CallsOK'
  BY DEF GrantInv, CallsOK
<1>3. ASSUME NEW d \in Caller, Fresh(d)' PROVE FreshOK(d)'
  <2>1. Fresh(d) /\ FreshOK(d) /\ call[d].token # NoToken
    BY <1>3 DEF Fresh, GrantInv, AllFreshOK, CallsOK, CallOK
  <2> QED BY <2>1 DEF FreshOK
<1>4. GrantMatchesProvider'
  <2>1. ASSUME rotates, Live, grant.token \notin valid
        PROVE  BeingReplaced(grant.token)' \/ grant.token \in forsaken'
    <3>1. BeingReplaced(grant.token) \/ grant.token \in forsaken
      BY <2>1 DEF GrantInv, GrantMatchesProvider
    <3>2. ASSUME NEW d \in Caller, Replaces(call[d], grant.token)
          PROVE  BeingReplaced(grant.token)'
      BY <3>2 DEF BeingReplaced, Replaces
    <3> QED BY <2>1, <3>1, <3>2, BeingReplacedBy
  <2> QED BY <2>1 DEF GrantInv, GrantMatchesProvider, Live
<1> QED BY <1>1, <1>2, <1>3, <1>4 DEF GrantInv, AllFreshOK

LEMMA LeavingMoveSteps ==
    ASSUME GrantInv,
           DeactivateGrantee \/ ReconcileGrantee \/ ListActiveGrants \/ LeavingStops
    PROVE  GrantInv'
<1> USE GrantAssumption
<1>1. /\ CallOK(leaving, spent, valid) /\ TokensOK /\ NoToken \notin valid
      /\ NoCall.token = NoToken /\ NoCall.at = "idle" /\ NoCall.source = NoToken
      /\ NoCall \in CallState
  BY DEF GrantInv, CallsOK, TokensOK, NoCall, CallState, MaybeToken
<1>2. /\ UNCHANGED <<grant, call, rotates, spent, valid, withdrawn>> /\ grantee' \in BOOLEAN
  BY <1>1 DEF DeactivateGrantee, ReconcileGrantee, ListActiveGrants, LeavingStops, external,
     history, TokensOK
<1>3. CASE DeactivateGrantee \/ ReconcileGrantee
  <2> DEFINE q == [NoCall EXCEPT !.at = "list"]
  <2>1. leaving = NoCall /\ leaving' = q /\ forsaken' = forsaken
    BY <1>3 DEF DeactivateGrantee, ReconcileGrantee, history
  <2>2. q \in CallState /\ q.at = "list" /\ q.token = NoToken /\ q.source = NoToken
    BY <1>1 DEF CallState
  <2> HIDE DEF q
  <2>3. CallOK(leaving', spent, valid) /\ leaving'.token = NoToken
    BY <2>1, <2>2 DEF CallOK, Known
  <2>4. ~Replaces(leaving, grant.token) /\ forsaken' \in SUBSET spent
    BY <1>1, <2>1 DEF Replaces, TokensOK
  <2> QED BY <1>2, <2>1, <2>3, <2>4, LeavingMoves
<1>4. CASE ListActiveGrants
  <2> DEFINE q == [at |-> IF Live THEN "withdraw" ELSE "delete", token |-> Seen, source |-> Seen]
  <2>1. leaving.at = "list" /\ leaving' = q /\ forsaken' = forsaken
    BY <1>4 DEF ListActiveGrants, history
  <2>2. /\ q \in CallState /\ q.token \in {NoToken, grant.token} /\ q.source = q.token
        /\ q.at \in {"withdraw", "delete"} /\ Known(q.token, spent)
        /\ q.at = "delete" => q.source = NoToken
    BY <1>1 DEF CallState, MaybeToken, Seen, TokensOK, GrantRow, Known
  <2> HIDE DEF q
  <2>3. CallOK(leaving', spent, valid) /\ leaving'.token \in {NoToken, grant.token}
    BY <1>1, <2>1, <2>2 DEF CallOK, Known
  <2>4. ~Replaces(leaving, grant.token) /\ forsaken' \in SUBSET spent
    BY <1>1, <2>1 DEF Replaces, TokensOK
  <2> QED BY <1>2, <2>1, <2>3, <2>4, LeavingMoves
<1>5. CASE LeavingStops
  <2>1. leaving' = NoCall /\ forsaken' = forsaken \cup ({leaving.source} \cap (spent \ valid))
    BY <1>5 DEF LeavingStops, Forsakes
  <2>2. CallOK(leaving', spent, valid) /\ leaving'.token = NoToken
    BY <1>1, <2>1 DEF CallOK, Known
  <2>3. grant.token \in spent \/ ~Live
    BY <1>1 DEF TokensOK, Known, Live
  <2> QED BY <1>1, <1>2, <2>1, <2>2, <2>3, LeavingMoves DEF TokensOK, Replaces
<1> QED BY <1>3, <1>4, <1>5

LEMMA DeleteAllStep ==
    ASSUME GrantInv, DeleteAllGrants PROVE GrantInv'
<1> USE GrantAssumption
<1>1. /\ CallOK(leaving, spent, valid) /\ leaving \in CallState /\ TokensOK
      /\ GrantMatchesProvider
  BY DEF GrantInv, CallsOK, CallOK
<1>2. /\ leaving.source \notin valid
      /\ grant' = NoGrant
      /\ withdrawn' \in {withdrawn, withdrawn \cup ({leaving.source} \ {NoToken})}
      /\ leaving' = IF leaving.at = "delete" THEN [leaving EXCEPT !.at = "again"] ELSE NoCall
      /\ UNCHANGED <<grantee, call, rotates, spent, valid, forsaken>>
  BY <1>1 DEF DeleteAllGrants, RemoveRow, CallOK, external
<1>3. /\ NoGrant \in GrantRow /\ NoGrant.token = NoToken /\ NoGrant.refused = NoToken
      /\ NoGrant.state = "none"
  BY DEF NoGrant, GrantRow, MaybeToken
<1>4. CallOK(leaving', spent, valid) /\ leaving'.token \in {NoToken, leaving.token}
  <2>1. CallOK(NoCall, spent, valid) /\ NoCall.token = NoToken
    BY DEF NoCall, CallOK, CallState, MaybeToken, Known
  <2> DEFINE q == [leaving EXCEPT !.at = "again"]
  <2>2. q \in CallState /\ q.at = "again" /\ q.token = leaving.token /\ q.source = leaving.source
    BY <1>1 DEF CallState
  <2>3. CallOK(q, spent, valid)
    BY <1>1, <1>2, <2>2 DEF CallOK
  <2> QED BY <1>2, <2>1, <2>2, <2>3
<1>5. TokensOK'
  BY <1>1, <1>2, <1>3 DEF TokensOK, Known, CallOK
<1>6. CallsOK'
  BY <1>2, <1>4 DEF GrantInv, CallsOK
<1>7. ASSUME NEW d \in Caller, Fresh(d)' PROVE FreshOK(d)'
  <2>1. Fresh(d) /\ FreshOK(d) /\ call[d].token # NoToken
    BY <1>2, <1>7 DEF Fresh, GrantInv, AllFreshOK, CallsOK, CallOK
  <2> QED BY <1>2, <1>3, <1>4, <2>1 DEF FreshOK
<1>8. GrantMatchesProvider'
  BY <1>1, <1>2, <1>3 DEF GrantMatchesProvider, Live, TokensOK
<1> QED BY <1>5, <1>6, <1>7, <1>8 DEF GrantInv, AllFreshOK

LEMMA AgeAndReactivate ==
    ASSUME GrantInv, GrantAges \/ ReactivateGrantee PROVE GrantInv'
<1>1. UNCHANGED <<call, leaving, rotates, spent, valid, forsaken, withdrawn>>
      /\ grantee' \in BOOLEAN
  BY DEF GrantAges, ReactivateGrantee, external, history, GrantInv, TokensOK
<1>2. /\ grant' \in GrantRow /\ grant'.state = grant.state /\ grant'.token = grant.token
      /\ grant'.refused = grant.refused
  <2> DEFINE q == [grant EXCEPT !.stale = TRUE]
  <2>1. grant \in GrantRow /\ grant' \in {grant, q}
    BY DEF GrantAges, ReactivateGrantee, GrantInv, TokensOK
  <2>2. q \in GrantRow /\ q.state = grant.state /\ q.token = grant.token
        /\ q.refused = grant.refused
    BY <2>1 DEF GrantRow
  <2> QED BY <2>1, <2>2
<1>3. TokensOK'
  BY <1>1, <1>2 DEF GrantInv, TokensOK, Known
<1>4. CallsOK' /\ AllFreshOK'
  BY <1>1, <1>2 DEF GrantInv, CallsOK, AllFreshOK, Fresh, FreshOK
<1>5. GrantMatchesProvider'
  BY <1>1, <1>2 DEF GrantInv, GrantMatchesProvider, Live, BeingReplaced
<1> QED BY <1>3, <1>4, <1>5 DEF GrantInv

-----------------------------------------------------------------------------
LEMMA GrantInvStep ==
    ASSUME GrantInv, [GrantNext]_<<grantVars, faults>> PROVE GrantInv'
<1>1. CASE UNCHANGED <<grantVars, faults>>
  <2>1. UNCHANGED <<grant, grantee, call, leaving, rotates, spent, valid, forsaken, withdrawn>>
    BY <1>1 DEF grantVars
  <2>2. TokensOK' /\ CallsOK' /\ AllFreshOK'
    BY <2>1 DEF GrantInv, TokensOK, CallsOK, AllFreshOK, Fresh, FreshOK
  <2>3. GrantMatchesProvider'
    BY <2>1 DEF GrantInv, GrantMatchesProvider, Live, BeingReplaced
  <2> QED BY <2>2, <2>3 DEF GrantInv
<1>2. CASE GrantNext
  BY <1>2, CallMoveSteps, NewTokenSteps, RowSteps, WithdrawSteps, LeavingMoveSteps, DeleteAllStep,
     AgeAndReactivate
  DEF GrantNext, GrantStep
<1> QED BY <1>1, <1>2

(* The rows and what the provider knows agree, however renewals, callbacks *)
(* and deletions of one grant interleave and stop.                         *)
THEOREM GrantsMatchProvider == GrantSpec => []GrantMatchesProvider
<1>1. GrantInv => GrantMatchesProvider
  BY DEF GrantInv
<1> QED BY <1>1, GrantInvInit, GrantInvStep, PTL DEF GrantSpec

-----------------------------------------------------------------------------
(* Invitations and idempotency keys.                                       *)
-----------------------------------------------------------------------------

SettledInvite == {"accepted", "revoked", "expired"}

RowsOK ==
    /\ keys \in [KeyRow -> KeyState] /\ invite \in [Invitation -> InviteState]
    /\ work \in [Request -> WorkState]
    /\ members \in SUBSET Invitation
    /\ did \in [KeyRow -> SUBSET Invitation]
    /\ fates \in [Invitation -> SUBSET SettledInvite]
    /\ faults \in Nat

(* An invitation that is not open has come to its status only.             *)
InviteOK(i) ==
    /\ invite[i].status \in {"none", "pending"} => fates[i] = {}
    /\ invite[i].status \notin {"none", "pending"} => fates[i] = {invite[i].status}
    /\ i \in members <=> invite[i].status = "accepted"

(* A request that has begun a key, and has still to complete or fail it.   *)
BusyRequest(r) == work[r].at \in {"work", "accept", "complete", "fail"}

(* It alone has the key, and knows what the key's request has changed.     *)
BusyOK(r) ==
    /\ work[r].key \in KeyRow
    /\ keys[work[r].key].status \in {"processing", "deleted"}
    /\ keys[work[r].key].scope = work[r].scope
    /\ work[r].scope = "accept" => work[r].body \in InviteToken
    /\ work[r].at = "accept" => work[r].scope = "accept"
    /\ work[r].at \in {"work", "accept"} => did[work[r].key] = {}
    /\ work[r].at = "complete" => did[work[r].key] = {work[r].inv}
    /\ work[r].at = "fail" => did[work[r].key] = {} \/ faults > 0

ReplayOK(r) == \E k \in KeyRow : /\ keys[k].scope = work[r].scope /\ keys[k].body = work[r].body
                                 /\ did[k] = {work[r].inv}

RequestOK(r) == /\ BusyRequest(r) => BusyOK(r)
                /\ work[r].at = "replay" => ReplayOK(r)

Alone == \A r, s \in Request : BusyRequest(r) /\ BusyRequest(s) /\ work[r].key = work[s].key => r = s

KeyOK(k) ==
    /\ did[k] = {} \/ \E i \in Invitation : did[k] = {i}
    /\ keys[k].status = "none" => did[k] = {}
    /\ keys[k].status = "completed" => did[k] = {keys[k].reply}
    /\ keys[k].status = "failed" => did[k] = {} \/ faults > 0
    /\ keys[k].status = "processing" => \/ \E r \in Request : BusyRequest(r) /\ work[r].key = k
                                        \/ faults > 0
                                        \/ keys[k].scope = "accept" /\ did[k] = {}

InvitesOK == \A i \in Invitation : InviteOK(i)
AllRequestsOK == Alone /\ \A r \in Request : RequestOK(r)
AllKeysOK == \A k \in KeyRow : KeyOK(k)

InvitationsInv == RowsOK /\ InvitesOK /\ AllRequestsOK /\ AllKeysOK

LEMMA InvitesInit == InvitationsInit /\ FaultsInit => InvitationsInv
<1> SUFFICES ASSUME InvitationsInit, FaultsInit PROVE InvitationsInv
  OBVIOUS
<1>1. NoKey \in KeyState /\ NoWork \in WorkState
  BY DEF NoKey, NoWork, KeyState, WorkState, Scope
<1>2. [status |-> "none", late |-> FALSE, renewed |-> FALSE] \in InviteState
  BY DEF InviteState
<1>3. RowsOK
  BY <1>1, <1>2 DEF RowsOK, InvitationsInit, FaultsInit
<1>4. InvitesOK
  BY DEF InvitationsInit, InvitesOK, InviteOK
<1>5. AllRequestsOK
  BY DEF InvitationsInit, AllRequestsOK, Alone, RequestOK, BusyRequest, NoWork
<1>6. AllKeysOK
  BY DEF InvitationsInit, AllKeysOK, KeyOK, NoKey
<1> QED BY <1>3, <1>4, <1>5, <1>6 DEF InvitationsInv

-----------------------------------------------------------------------------
(* What KeyTellsEffect and InvitationSettledOnce need of the invariant.    *)
LEMMA AtMostOne == ASSUME NEW S, S = {} \/ \E x : S = {x} PROVE Cardinality(S) <= 1
<1>1. Cardinality(S) \in {0, 1}
  BY FS_EmptySet, FS_Singleton, Zenon
<1> QED BY <1>1, SMT

LEMMA InvSettled == InvitationsInv => InvitationSettledOnce
<1> SUFFICES ASSUME InvitationsInv, NEW i \in Invitation
             PROVE  /\ Cardinality(fates[i]) <= 1
                    /\ fates[i] # {} => invite[i].status \in fates[i]
                    /\ i \in members <=> invite[i].status = "accepted"
  BY DEF InvitationSettledOnce
<1>1. InviteOK(i)
  BY DEF InvitationsInv, InvitesOK
<1>2. fates[i] = {} \/ fates[i] = {invite[i].status}
  BY <1>1 DEF InviteOK
<1>3. Cardinality(fates[i]) <= 1
  BY <1>2, AtMostOne
<1> QED BY <1>1, <1>2, <1>3 DEF InviteOK

LEMMA InvKeyTells == InvitationsInv => KeyTellsEffect
<1> SUFFICES ASSUME InvitationsInv PROVE KeyTellsEffect
  OBVIOUS
<1>1. ASSUME NEW k \in KeyRow
      PROVE  /\ Cardinality(did[k]) <= 1
             /\ keys[k].status = "completed" => did[k] = {keys[k].reply}
             /\ keys[k].status = "failed" => did[k] = {} \/ faults > 0
             /\ keys[k].status = "processing" =>
                    InProgress(k) \/ faults > 0 \/ (keys[k].scope = "accept" /\ did[k] = {})
  <2>1. KeyOK(k)
    BY DEF InvitationsInv, AllKeysOK
  <2>2. Cardinality(did[k]) <= 1
    BY <2>1, AtMostOne DEF KeyOK
  <2> QED BY <2>1, <2>2 DEF KeyOK, InProgress, BusyRequest
<1>2. ASSUME NEW r \in Request, WorkAt(r, "replay") PROVE ReplayOK(r)
  BY <1>2 DEF InvitationsInv, AllRequestsOK, RequestOK, WorkAt
<1> QED BY <1>1, <1>2 DEF KeyTellsEffect, ReplayOK

-----------------------------------------------------------------------------
(* Steps that change invitations only.                                     *)
LEMMA InviteSteps ==
    ASSUME InvitationsInv, Unfailing,
           ExpireInvitations
           \/ \E i \in Invitation : Revoke(i) \/ RenewToken(i) \/ InvitationLapses(i)
    PROVE  InvitationsInv'
<1>1. UNCHANGED <<keys, members, work, did, faults>>
  BY DEF Unfailing, ExpireInvitations, Revoke, RenewToken, InvitationLapses
<1>2. AllRequestsOK' /\ AllKeysOK'
  BY <1>1 DEF InvitationsInv, AllRequestsOK, Alone, RequestOK, BusyRequest, BusyOK, ReplayOK, AllKeysOK,
     KeyOK
<1>3. RowsOK' /\ InvitesOK'
  <2>1. RowsOK /\ InvitesOK
    BY DEF InvitationsInv
  <2>2. CASE ExpireInvitations
    <3> DEFINE gone == {i \in Invitation : Pending(i) /\ invite[i].late}
    <3>1. invite' = [i \in Invitation |-> IF i \in gone THEN [invite[i] EXCEPT !.status = "expired"]
                                                       ELSE invite[i]]
          /\ fates' = [i \in Invitation |-> IF i \in gone THEN fates[i] \cup {"expired"} ELSE fates[i]]
      BY <2>2 DEF ExpireInvitations
    <3>2. \A i \in gone : fates[i] = {} /\ i \notin members
      BY <2>1 DEF InvitesOK, InviteOK, Pending
    <3>3. RowsOK'
      BY <1>1, <2>1, <3>1 DEF RowsOK, InviteState, SettledInvite
    <3>4. ASSUME NEW i \in Invitation PROVE InviteOK(i)'
      BY <1>1, <2>1, <3>1, <3>2 DEF RowsOK, InviteState, InvitesOK, InviteOK
    <3> QED BY <3>3, <3>4 DEF InvitesOK
  <2>3. ASSUME NEW i \in Invitation, Revoke(i) PROVE RowsOK' /\ InvitesOK'
    <3>1. /\ invite[i].status = "pending"
          /\ invite' = [invite EXCEPT ![i].status = "revoked"]
          /\ fates' = [fates EXCEPT ![i] = fates[i] \cup {"revoked"}]
      BY <2>3 DEF Revoke, Pending, Settle, SetStatus
    <3>2. fates[i] = {} /\ i \notin members
      BY <2>1, <3>1 DEF InvitesOK, InviteOK
    <3>3. RowsOK'
      BY <1>1, <2>1, <3>1 DEF RowsOK, InviteState, SettledInvite
    <3>4. ASSUME NEW j \in Invitation PROVE InviteOK(j)'
      BY <1>1, <2>1, <3>1, <3>2 DEF RowsOK, InviteState, InvitesOK, InviteOK
    <3> QED BY <3>3, <3>4 DEF InvitesOK
  <2>4. ASSUME NEW i \in Invitation, RenewToken(i) \/ InvitationLapses(i) PROVE RowsOK' /\ InvitesOK'
    <3>1. /\ invite' \in [Invitation -> InviteState] /\ fates' = fates
          /\ \A j \in Invitation : invite'[j].status = invite[j].status
      <4>1. CASE RenewToken(i)
        BY <2>1, <4>1 DEF RenewToken, RowsOK, InviteState
      <4>2. CASE InvitationLapses(i)
        <5> DEFINE q == [invite[i] EXCEPT !.late = TRUE]
        <5>1. /\ invite[i] \in InviteState /\ invite' = [invite EXCEPT ![i] = q]
              /\ fates' = fates
          BY <2>1, <4>2 DEF InvitationLapses, RowsOK
        <5>2. q \in InviteState /\ q.status = invite[i].status
          BY <5>1 DEF InviteState
        <5> HIDE DEF q
        <5> QED BY <2>1, <5>1, <5>2 DEF RowsOK
      <4> QED BY <2>4, <4>1, <4>2
    <3> QED BY <1>1, <2>1, <3>1 DEF RowsOK, InvitesOK, InviteOK
  <2> QED BY <2>2, <2>3, <2>4
<1> QED BY <1>2, <1>3 DEF InvitationsInv

(* Keys expire and are deleted.                                            *)
LEMMA ExpirySteps ==
    ASSUME InvitationsInv, Unfailing, DeleteExpiredKeys \/ \E k \in KeyRow : KeyExpires(k)
    PROVE  InvitationsInv'
<1>1. UNCHANGED <<invite, members, fates, work, did, faults>>
  BY DEF Unfailing, DeleteExpiredKeys, KeyExpires, invites
<1>2. RowsOK
  BY DEF InvitationsInv
<1>3. /\ keys' \in [KeyRow -> KeyState]
      /\ \A k \in KeyRow : /\ keys'[k].scope = keys[k].scope /\ keys'[k].body = keys[k].body
                           /\ keys'[k].reply = keys[k].reply
                           /\ \/ keys'[k].status = keys[k].status
                              \/ keys'[k].status = "deleted"
  <2>1. CASE DeleteExpiredKeys
    BY <1>2, <2>1 DEF DeleteExpiredKeys, RowsOK, KeyState
  <2>2. ASSUME NEW k \in KeyRow, KeyExpires(k)
        PROVE  /\ keys' \in [KeyRow -> KeyState]
               /\ \A l \in KeyRow : /\ keys'[l].scope = keys[l].scope
                                    /\ keys'[l].body = keys[l].body
                                    /\ keys'[l].reply = keys[l].reply
                                    /\ keys'[l].status = keys[l].status
    <3> DEFINE q == [keys[k] EXCEPT !.expired = TRUE]
    <3>1. keys' = [keys EXCEPT ![k] = q] /\ keys[k] \in KeyState
      BY <1>2, <2>2 DEF KeyExpires, RowsOK
    <3>2. /\ q \in KeyState /\ q.scope = keys[k].scope /\ q.body = keys[k].body
          /\ q.reply = keys[k].reply /\ q.status = keys[k].status
      BY <3>1 DEF KeyState
    <3> HIDE DEF q
    <3> QED BY <1>2, <3>1, <3>2 DEF RowsOK
  <2> QED BY <2>1, <2>2
<1>4. RowsOK' /\ InvitesOK'
  BY <1>1, <1>2, <1>3 DEF InvitationsInv, RowsOK, InvitesOK, InviteOK
<1>5. AllRequestsOK'
  <2>1. Alone'
    BY <1>1 DEF InvitationsInv, AllRequestsOK, Alone, BusyRequest
  <2>2. ASSUME NEW r \in Request PROVE RequestOK(r)'
    <3>1. RequestOK(r)
      BY DEF InvitationsInv, AllRequestsOK
    <3>2. BusyRequest(r) => BusyOK(r)'
      BY <1>1, <1>3, <3>1 DEF RequestOK, BusyOK
    <3>3. work[r].at = "replay" => ReplayOK(r)'
      BY <1>1, <1>3, <3>1 DEF RequestOK, ReplayOK
    <3> QED BY <1>1, <3>2, <3>3 DEF RequestOK, BusyRequest
  <2> QED BY <2>1, <2>2 DEF AllRequestsOK
<1>6. AllKeysOK'
  BY <1>1, <1>3 DEF InvitationsInv, AllKeysOK, KeyOK, BusyRequest
<1> QED BY <1>4, <1>5, <1>6 DEF InvitationsInv

-----------------------------------------------------------------------------
(* A request that has no key, or gives up the one it has, moves on.        *)
LEMMA WorkMove ==
    ASSUME InvitationsInv, UNCHANGED <<keys, invite, members, fates, did>>,
           faults' \in Nat, faults' >= faults,
           NEW r \in Request, NEW q \in WorkState, work' = [work EXCEPT ![r] = q],
           q.at \in {"idle", "lookup", "replay"},
           q.at = "replay" => \E k \in KeyRow : /\ keys[k].scope = q.scope /\ keys[k].body = q.body
                                                /\ did[k] = {q.inv},
           BusyRequest(r) => faults' > 0 \/ (work[r].scope = "accept" /\ did[work[r].key] = {})
    PROVE  InvitationsInv'
<1>1. \A s \in Request : work'[s] = IF s = r THEN q ELSE work[s]
  BY DEF InvitationsInv, RowsOK
<1>2. RowsOK' /\ InvitesOK'
  BY DEF InvitationsInv, RowsOK, InvitesOK, InviteOK
<1>3. faults > 0 => faults' > 0
  BY DEF InvitationsInv, RowsOK
<1>4. AllRequestsOK'
  <2>1. Alone'
    BY <1>1 DEF InvitationsInv, AllRequestsOK, Alone, BusyRequest
  <2>2. ASSUME NEW s \in Request PROVE RequestOK(s)'
    <3>1. CASE s = r
      BY <1>1, <3>1 DEF RequestOK, BusyRequest, ReplayOK
    <3>2. CASE s # r
      BY <1>1, <1>3, <3>2 DEF InvitationsInv, AllRequestsOK, RequestOK, BusyRequest, BusyOK, ReplayOK
    <3> QED BY <3>1, <3>2
  <2> QED BY <2>1, <2>2 DEF AllRequestsOK
<1>5. ASSUME NEW k \in KeyRow PROVE KeyOK(k)'
  <2>1. KeyOK(k)
    BY DEF InvitationsInv, AllKeysOK
  <2>2. ASSUME NEW s \in Request, BusyRequest(s), work[s].key = k
        PROVE  (BusyRequest(s) /\ work[s].key = k)' \/ faults' > 0
               \/ (keys[k].scope = "accept" /\ did[k] = {})
    <3>1. BusyOK(s)
      BY <2>2 DEF InvitationsInv, AllRequestsOK, RequestOK
    <3>2. CASE s = r
      BY <2>2, <3>1, <3>2 DEF BusyOK
    <3>3. CASE s # r
      BY <1>1, <2>2, <3>3 DEF BusyRequest
    <3> QED BY <3>2, <3>3
  <2> QED BY <1>3, <2>1, <2>2 DEF KeyOK
<1> QED BY <1>2, <1>4, <1>5 DEF InvitationsInv, AllKeysOK

(* A request that keeps its key goes to another step.                      *)
LEMMA WorkStep ==
    ASSUME InvitationsInv, UNCHANGED <<keys, invite, members, fates, did, faults>>,
           NEW r \in Request, NEW step \in {"accept", "fail"},
           work' = [work EXCEPT ![r].at = step],
           work[r].at = "work", step = "accept" => work[r].scope = "accept"
    PROVE  InvitationsInv'
<1> DEFINE q == [work[r] EXCEPT !.at = step]
<1>1. work[r] \in WorkState /\ work' = [work EXCEPT ![r] = q]
  BY DEF InvitationsInv, RowsOK
<1>2. /\ q \in WorkState /\ q.at = step /\ q.scope = work[r].scope /\ q.body = work[r].body
      /\ q.key = work[r].key /\ q.inv = work[r].inv
  BY <1>1 DEF WorkState
<1> HIDE DEF q
<1>3. \A s \in Request : work'[s] = IF s = r THEN q ELSE work[s]
  BY <1>1 DEF InvitationsInv, RowsOK
<1>4. RowsOK' /\ InvitesOK'
  BY <1>1, <1>2 DEF InvitationsInv, RowsOK, InvitesOK, InviteOK
<1>5. \A s \in Request : (BusyRequest(s)' <=> BusyRequest(s)) /\ work'[s].key = work[s].key
  BY <1>2, <1>3 DEF BusyRequest
<1>6. AllRequestsOK'
  <2>1. Alone'
    BY <1>5 DEF InvitationsInv, AllRequestsOK, Alone
  <2>2. ASSUME NEW s \in Request PROVE RequestOK(s)'
    <3>1. RequestOK(s)
      BY DEF InvitationsInv, AllRequestsOK
    <3>2. CASE s = r
      BY <1>2, <1>3, <3>1, <3>2 DEF RequestOK, BusyRequest, BusyOK
    <3>3. CASE s # r
      BY <1>3, <3>1, <3>3 DEF RequestOK, BusyRequest, BusyOK, ReplayOK
    <3> QED BY <3>2, <3>3
  <2> QED BY <2>1, <2>2 DEF AllRequestsOK
<1>7. AllKeysOK'
  BY <1>5 DEF InvitationsInv, AllKeysOK, KeyOK
<1> QED BY <1>4, <1>6, <1>7 DEF InvitationsInv

LEMMA WorkSteps ==
    ASSUME InvitationsInv, NEW r \in Request,
           \/ /\ Unfailing
              /\ \/ \E scope \in Scope : \E body \in Body(scope) : BeginRefused(r, scope, body)
                 \/ Replay(r) \/ Refuse(r) \/ Replayed(r)
                 \/ CreateFails(r) \/ ReadPending(r)
           \/ RequestStops(r) /\ Fault
    PROVE  InvitationsInv'
<1>1. UNCHANGED <<keys, invite, members, fates, did>> /\ work[r] \in WorkState /\ faults \in Nat
  BY DEF BeginRefused, Replay, Refuse, Replayed, CreateFails, ReadPending, RequestStops, invites,
     InvitationsInv, RowsOK
<1>2. NoWork \in WorkState /\ NoWork.at = "idle"
  BY DEF NoWork, WorkState, Scope
<1>3. Unfailing => faults' = faults /\ faults' \in Nat /\ faults' >= faults
  BY <1>1 DEF Unfailing
<1>4. ASSUME NEW scope \in Scope, NEW body \in Body(scope), BeginRefused(r, scope, body), Unfailing
      PROVE  InvitationsInv'
  <2> DEFINE q == [at |-> "lookup", scope |-> scope, body |-> body, key |-> NoRow,
                   inv |-> NoInvitation]
  <2>1. q \in WorkState /\ q.at = "lookup"
    BY DEF WorkState, Body
  <2>2. work' = [work EXCEPT ![r] = q] /\ ~BusyRequest(r)
    BY <1>4 DEF BeginRefused, Started, WorkAt, BusyRequest
  <2> HIDE DEF q
  <2> QED BY <1>1, <1>3, <1>4, <2>1, <2>2, WorkMove
<1>5. ASSUME Replay(r), Unfailing PROVE InvitationsInv'
  <2>1. PICK k \in RowOf(work[r].scope) :
             /\ Replayable(r, k)
             /\ work' = [work EXCEPT ![r].at = "replay", ![r].inv = keys[k].reply]
    BY <1>5 DEF Replay
  <2>2. /\ k \in KeyRow /\ keys[k] \in KeyState /\ keys[k].scope = work[r].scope
        /\ keys[k].body = work[r].body
        /\ did[k] = {keys[k].reply}
    BY <2>1 DEF RowOf, Replayable, InvitationsInv, RowsOK, AllKeysOK, KeyOK
  <2> DEFINE q == [work[r] EXCEPT !.at = "replay", !.inv = keys[k].reply]
  <2>3. /\ q \in WorkState /\ q.at = "replay" /\ q.scope = work[r].scope
        /\ q.body = work[r].body /\ q.inv = keys[k].reply
    BY <1>1, <2>2 DEF WorkState, KeyState
  <2>4. work' = [work EXCEPT ![r] = q] /\ ~BusyRequest(r)
    BY <1>5, <2>1 DEF Replay, WorkAt, BusyRequest
  <2> HIDE DEF q
  <2> QED BY <1>1, <1>3, <1>5, <2>2, <2>3, <2>4, WorkMove
<1>6. ASSUME Answer(r), faults' \in Nat, faults' >= faults,
             BusyRequest(r) => faults' > 0 \/ (work[r].scope = "accept" /\ did[work[r].key] = {})
      PROVE  InvitationsInv'
  BY <1>1, <1>2, <1>6, WorkMove DEF Answer
<1>7. ASSUME Refuse(r) \/ Replayed(r), Unfailing PROVE InvitationsInv'
  BY <1>3, <1>6, <1>7 DEF Refuse, Replayed, WorkAt, BusyRequest
<1>8. ASSUME RequestStops(r), Fault PROVE InvitationsInv'
  BY <1>1, <1>6, <1>8 DEF RequestStops, Fault
<1>9. ASSUME CreateFails(r), Unfailing PROVE InvitationsInv'
  BY <1>1, <1>9, WorkStep DEF CreateFails, Works, WorkAt, WorkTo, Unfailing
<1>10. ASSUME ReadPending(r), Unfailing PROVE InvitationsInv'
  <2>1. work[r].at = "work" /\ work[r].scope = "accept" /\ (WorkTo(r, "accept") \/ Answer(r))
    BY <1>10 DEF ReadPending, Works, WorkAt
  <2>2. did[work[r].key] = {}
    BY <2>1 DEF InvitationsInv, AllRequestsOK, RequestOK, BusyRequest, BusyOK
  <2>3. CASE WorkTo(r, "accept")
    BY <1>1, <1>3, <1>10, <2>1, <2>3, WorkStep DEF WorkTo
  <2>4. CASE Answer(r)
    BY <1>3, <1>6, <1>10, <2>1, <2>2, <2>4
  <2> QED BY <2>1, <2>3, <2>4
<1> QED BY <1>4, <1>5, <1>7, <1>8, <1>9, <1>10

-----------------------------------------------------------------------------
(* A replay's key has changed an invitation, and a busy request's key,     *)
(* while it is at work, has not: no step of that request is about both.    *)
LEMMA ReplayStays ==
    ASSUME NEW r \in Request, ReplayOK(r), work'[r] = work[r],
           NEW k \in KeyRow, did[k] = {} \/ did'[k] = did[k],
           did[k] = {} \/ (keys'[k].scope = keys[k].scope /\ keys'[k].body = keys[k].body),
           \A l \in KeyRow : l # k => keys'[l] = keys[l] /\ did'[l] = did[l]
    PROVE  ReplayOK(r)'
<1>1. PICK l \in KeyRow : /\ keys[l].scope = work[r].scope /\ keys[l].body = work[r].body
                          /\ did[l] = {work[r].inv}
  BY DEF ReplayOK
<1>2. /\ keys'[l].scope = work'[r].scope /\ keys'[l].body = work'[r].body
      /\ did'[l] = {work'[r].inv}
  BY <1>1
<1> QED BY <1>2 DEF ReplayOK

LEMMA BeginStep ==
    ASSUME InvitationsInv, Unfailing,
           NEW r \in Request, NEW scope \in Scope, NEW body \in Body(scope), NEW k \in KeyRow,
           BeginKey(r, scope, body, k)
    PROVE  InvitationsInv'
<1> DEFINE row == [NoKey EXCEPT !.scope = scope, !.body = body, !.status = "processing"]
           q == [at |-> "work", scope |-> scope, body |-> body, key |-> k, inv |-> NoInvitation]
<1>1. /\ keys' = [keys EXCEPT ![k] = row] /\ work' = [work EXCEPT ![r] = q]
      /\ UNCHANGED <<invite, members, fates, did, faults>>
      /\ keys[k].status = "none" /\ ~BusyRequest(r)
  BY DEF BeginKey, Started, Unfailing, Unused, invites, WorkAt, BusyRequest
<1>2. /\ q \in WorkState /\ q.at = "work" /\ q.key = k /\ q.scope = scope
      /\ scope = "accept" => q.body \in InviteToken
  BY DEF WorkState, Body
<1>3. row \in KeyState /\ row.status = "processing" /\ row.scope = scope
  BY DEF KeyState, NoKey, Body, Scope
<1> HIDE DEF row, q
<1>4. /\ \A s \in Request : work'[s] = IF s = r THEN q ELSE work[s]
      /\ \A l \in KeyRow : keys'[l] = IF l = k THEN row ELSE keys[l]
  BY <1>1 DEF InvitationsInv, RowsOK
<1>5. did[k] = {}
  BY <1>1 DEF InvitationsInv, AllKeysOK, KeyOK
<1>6. \A s \in Request : BusyRequest(s) => work[s].key # k
  BY <1>1 DEF InvitationsInv, AllRequestsOK, RequestOK, BusyOK
<1>7. RowsOK' /\ InvitesOK'
  BY <1>1, <1>2, <1>3 DEF InvitationsInv, RowsOK, InvitesOK, InviteOK
<1>8. \A s \in Request : BusyRequest(s)' <=> s = r \/ BusyRequest(s)
  BY <1>2, <1>4 DEF BusyRequest
<1>9. AllRequestsOK'
  <2>1. Alone'
    BY <1>2, <1>4, <1>6, <1>8 DEF InvitationsInv, AllRequestsOK, Alone
  <2>2. ASSUME NEW s \in Request PROVE RequestOK(s)'
    <3>1. RequestOK(s)
      BY DEF InvitationsInv, AllRequestsOK
    <3>2. CASE s = r
      BY <1>1, <1>2, <1>3, <1>4, <1>5, <3>2 DEF RequestOK, BusyOK
    <3>3. CASE s # r
      <4>1. BusyRequest(s) => BusyOK(s)'
        BY <1>1, <1>4, <1>6, <3>1, <3>3 DEF RequestOK, BusyOK
      <4>2. work[s].at = "replay" => ReplayOK(s)'
        BY <1>1, <1>4, <1>5, <3>1, <3>3, ReplayStays DEF RequestOK
      <4> QED BY <1>4, <1>8, <3>3, <4>1, <4>2 DEF RequestOK
    <3> QED BY <3>2, <3>3
  <2> QED BY <2>1, <2>2 DEF AllRequestsOK
<1>10. ASSUME NEW l \in KeyRow PROVE KeyOK(l)'
  <2>1. KeyOK(l)
    BY DEF InvitationsInv, AllKeysOK
  <2>2. CASE l = k
    BY <1>1, <1>2, <1>3, <1>4, <1>5, <1>8, <2>2 DEF KeyOK
  <2>3. CASE l # k
    BY <1>1, <1>4, <1>8, <2>1, <2>3 DEF KeyOK, BusyRequest
  <2> QED BY <2>2, <2>3
<1> QED BY <1>7, <1>9, <1>10 DEF InvitationsInv, AllKeysOK

(* A busy request changes an invitation, or settles its key's account: it  *)
(* becomes q, the key row, and the key's changes D.                        *)
Settles(r, k, q, row, D) ==
    /\ work' = [work EXCEPT ![r] = q]
    /\ keys' = [keys EXCEPT ![k] = row]
    /\ did' = [did EXCEPT ![k] = D]
    /\ row.scope = keys[k].scope /\ row.body = keys[k].body
    /\ q.at \in {"idle", "complete", "fail"}
    /\ IF q.at = "idle" THEN row.status \in {"completed", "failed", "deleted"}
       ELSE /\ q.key = k /\ q.scope = work[r].scope /\ q.body = work[r].body
            /\ row.status = keys[k].status
    /\ D = {} \/ \E i \in Invitation : D = {i}
    /\ did[k] = {} \/ D = did[k]
    /\ q.at = "complete" => D = {q.inv}
    /\ q.at = "fail" \/ row.status = "failed" => D = {} \/ faults' > 0
    /\ row.status = "completed" => D = {row.reply}

LEMMA KeyStep ==
    ASSUME InvitationsInv, RowsOK', InvitesOK', faults' >= faults,
           NEW r \in Request, BusyRequest(r), NEW k, k = work[r].key,
           NEW q \in WorkState, NEW row \in KeyState, NEW D, Settles(r, k, q, row, D)
    PROVE  InvitationsInv'
<1> USE DEF Settles
<1>1. BusyOK(r)
  BY DEF InvitationsInv, AllRequestsOK, RequestOK
<1>2. /\ \A s \in Request : work'[s] = IF s = r THEN q ELSE work[s]
      /\ \A l \in KeyRow : keys'[l] = IF l = k THEN row ELSE keys[l]
      /\ \A l \in KeyRow : did'[l] = IF l = k THEN D ELSE did[l]
      /\ k \in KeyRow
  BY <1>1 DEF InvitationsInv, RowsOK, BusyOK
<1>3. \A s \in Request : s # r /\ BusyRequest(s) => work[s].key # k
  BY DEF InvitationsInv, AllRequestsOK, Alone
<1>4. \A s \in Request : BusyRequest(s)' <=> IF s = r THEN q.at # "idle" ELSE BusyRequest(s)
  BY <1>2 DEF BusyRequest
<1>5. faults > 0 => faults' > 0
  BY DEF InvitationsInv, RowsOK
<1>6. Alone'
  BY <1>2, <1>3, <1>4 DEF InvitationsInv, AllRequestsOK, Alone
<1>7. ASSUME NEW s \in Request PROVE RequestOK(s)'
  <2>1. RequestOK(s)
    BY DEF InvitationsInv, AllRequestsOK
  <2>2. CASE s = r
    BY <1>1, <1>2, <1>4, <2>2 DEF RequestOK, BusyOK
  <2>3. CASE s # r
    <3>1. BusyRequest(s) => BusyOK(s)'
      BY <1>2, <1>3, <1>5, <2>1, <2>3 DEF RequestOK, BusyOK
    <3>2. work[s].at = "replay" => ReplayOK(s)'
      BY <1>2, <2>1, <2>3, ReplayStays DEF RequestOK
    <3> QED BY <1>2, <1>4, <2>3, <3>1, <3>2 DEF RequestOK
  <2> QED BY <2>2, <2>3
<1>8. ASSUME NEW l \in KeyRow PROVE KeyOK(l)'
  <2>1. KeyOK(l)
    BY DEF InvitationsInv, AllKeysOK
  <2>2. CASE l = k
    BY <1>1, <1>2, <1>4, <2>2 DEF KeyOK, BusyOK
  <2>3. CASE l # k
    BY <1>2, <1>4, <1>5, <2>1, <2>3 DEF KeyOK, BusyRequest
  <2> QED BY <2>2, <2>3
<1> QED BY <1>6, <1>7, <1>8 DEF InvitationsInv, AllRequestsOK, AllKeysOK

LEMMA CreateStep ==
    ASSUME InvitationsInv, NEW r \in Request, NEW i \in Invitation,
           NEW step \in {"complete", "fail"}, Create(r, i, step),
           IF step = "complete" THEN Unfailing ELSE Fault
    PROVE  InvitationsInv'
<1> DEFINE k == work[r].key
           q == [work[r] EXCEPT !.at = step, !.inv = i]
<1>1. /\ work[r].at = "work" /\ invite[i].status = "none"
      /\ invite' = [invite EXCEPT ![i].status = "pending"]
      /\ did' = [did EXCEPT ![k] = did[k] \cup {i}]
      /\ work' = [work EXCEPT ![r] = q]
      /\ UNCHANGED <<keys, members, fates>>
  BY DEF Create, Works, WorkAt, Uninvited, SetStatus, Do
<1>2. RowsOK /\ work[r] \in WorkState /\ keys \in [KeyRow -> KeyState]
      /\ did \in [KeyRow -> SUBSET Invitation]
  BY DEF InvitationsInv, RowsOK
<1>3. /\ q \in WorkState /\ q.at = step /\ q.inv = i /\ q.key = k
      /\ q.scope = work[r].scope /\ q.body = work[r].body
  BY <1>2 DEF WorkState
<1>4. BusyOK(r) /\ BusyRequest(r)
  BY <1>1 DEF InvitationsInv, AllRequestsOK, RequestOK, BusyRequest
<1>5. k \in KeyRow /\ did[k] = {}
  BY <1>1, <1>4 DEF BusyOK
<1>6. did' = [did EXCEPT ![k] = {i}] /\ keys' = [keys EXCEPT ![k] = keys[k]] /\ keys[k] \in KeyState
  BY <1>1, <1>2, <1>5
<1>7. /\ faults' \in Nat /\ faults' >= faults
      /\ step = "fail" => faults' > 0
  BY <1>2 DEF RowsOK, Unfailing, Fault
<1>8. RowsOK'
  <2>1. invite' \in [Invitation -> InviteState]
    BY <1>1, <1>2 DEF RowsOK, InviteState
  <2>2. work' \in [Request -> WorkState] /\ did' \in [KeyRow -> SUBSET Invitation]
    BY <1>1, <1>2, <1>3, <1>6 DEF RowsOK
  <2> QED BY <1>1, <1>2, <1>7, <2>1, <2>2 DEF RowsOK
<1>9. InvitesOK'
  <2>1. \A j \in Invitation : invite'[j].status = IF j = i THEN "pending" ELSE invite[j].status
    BY <1>1, <1>2 DEF RowsOK, InviteState
  <2> QED BY <1>1, <2>1 DEF InvitationsInv, InvitesOK, InviteOK
<1>10. keys[k].status \in {"processing", "deleted"}
  BY <1>4 DEF BusyOK
<1> HIDE DEF q
<1>11. Settles(r, k, q, keys[k], {i})
  BY <1>1, <1>3, <1>5, <1>6, <1>7, <1>10 DEF Settles
<1> QED BY <1>3, <1>4, <1>6, <1>7, <1>8, <1>9, <1>11, KeyStep

LEMMA AcceptStep ==
    ASSUME InvitationsInv, NEW r \in Request, AcceptInvitation(r), Unfailing
    PROVE  InvitationsInv'
<1> DEFINE i == work[r].body.inv
           k == work[r].key
           q == [work[r] EXCEPT !.at = "complete", !.inv = i]
<1>1. work[r].at = "accept" /\ RowsOK /\ work[r] \in WorkState /\ keys \in [KeyRow -> KeyState]
      /\ did \in [KeyRow -> SUBSET Invitation] /\ faults' = faults /\ faults \in Nat
  BY DEF AcceptInvitation, WorkAt, InvitationsInv, RowsOK, Unfailing
<1>2. BusyOK(r) /\ BusyRequest(r)
  BY <1>1 DEF InvitationsInv, AllRequestsOK, RequestOK, BusyRequest
<1>3. /\ work[r].scope = "accept" /\ i \in Invitation /\ k \in KeyRow /\ did[k] = {}
      /\ keys[k].status \in {"processing", "deleted"}
  BY <1>1, <1>2 DEF BusyOK, InviteToken
<1>4. CASE Pending(i)
  <2>1. /\ invite[i].status = "pending"
        /\ invite' = [invite EXCEPT ![i].status = "accepted"]
        /\ fates' = [fates EXCEPT ![i] = fates[i] \cup {"accepted"}]
        /\ members' = members \cup {i}
        /\ did' = [did EXCEPT ![k] = did[k] \cup {i}]
        /\ work' = [work EXCEPT ![r] = q]
        /\ keys' = keys
    BY <1>4 DEF AcceptInvitation, Tokens, Acceptable, Pending, Settle, SetStatus, Do
  <2>2. /\ q \in WorkState /\ q.at = "complete" /\ q.inv = i /\ q.key = k
        /\ q.scope = work[r].scope /\ q.body = work[r].body
    BY <1>1, <1>3 DEF WorkState
  <2>3. did' = [did EXCEPT ![k] = {i}] /\ keys' = [keys EXCEPT ![k] = keys[k]] /\ keys[k] \in KeyState
    BY <1>1, <1>3, <2>1
  <2>4. fates[i] = {}
    BY <1>3, <2>1 DEF InvitationsInv, InvitesOK, InviteOK
  <2>5. /\ \A j \in Invitation : invite'[j].status = IF j = i THEN "accepted" ELSE invite[j].status
        /\ \A j \in Invitation : fates'[j] = IF j = i THEN {"accepted"} ELSE fates[j]
        /\ invite' \in [Invitation -> InviteState] /\ fates' \in [Invitation -> SUBSET SettledInvite]
    <3>1. /\ \A j \in Invitation : invite'[j].status = IF j = i THEN "accepted" ELSE invite[j].status
          /\ invite' \in [Invitation -> InviteState]
      BY <1>1, <1>3, <2>1 DEF RowsOK, InviteState
    <3>2. /\ \A j \in Invitation : fates'[j] = IF j = i THEN {"accepted"} ELSE fates[j]
          /\ fates' \in [Invitation -> SUBSET SettledInvite]
      BY <1>1, <1>3, <2>1, <2>4 DEF RowsOK, SettledInvite
    <3> QED BY <3>1, <3>2
  <2>6. RowsOK'
    <3>1. work' \in [Request -> WorkState] /\ did' \in [KeyRow -> SUBSET Invitation]
          /\ members' \in SUBSET Invitation
      BY <1>1, <1>3, <2>1, <2>2, <2>3 DEF RowsOK
    <3> QED BY <1>1, <2>1, <2>5, <3>1 DEF RowsOK
  <2>7. InvitesOK'
    BY <2>1, <2>5 DEF InvitationsInv, InvitesOK, InviteOK
  <2> HIDE DEF q, i
  <2>8. Settles(r, k, q, keys[k], {i})
    BY <1>3, <2>1, <2>2, <2>3 DEF Settles
  <2>9. faults' >= faults
    BY <1>1
  <2> QED BY <1>2, <2>2, <2>3, <2>6, <2>7, <2>8, <2>9, KeyStep
<1>5. CASE ~Pending(i)
  <2>1. Answer(r) /\ UNCHANGED <<keys, invite, members, fates, did>>
    BY <1>5 DEF AcceptInvitation, Tokens, Acceptable, invites
  <2>2. NoWork \in WorkState /\ NoWork.at = "idle"
    BY DEF NoWork, WorkState, Scope
  <2>3. faults' \in Nat /\ faults' >= faults /\ work' = [work EXCEPT ![r] = NoWork]
    BY <1>1, <2>1 DEF Answer
  <2> QED BY <1>3, <2>1, <2>2, <2>3, WorkMove
<1> QED BY <1>4, <1>5

LEMMA SettleKeyStep ==
    ASSUME InvitationsInv, NEW r \in Request, CompleteKey(r) \/ FailKey(r), Unfailing
    PROVE  InvitationsInv'
<1> DEFINE k == work[r].key
           status == IF WorkAt(r, "complete") THEN "completed" ELSE "failed"
           reply == IF WorkAt(r, "complete") THEN work[r].inv ELSE NoInvitation
           row == IF Present(k) THEN [keys[k] EXCEPT !.status = status, !.reply = reply] ELSE keys[k]
<1>1. /\ work[r].at = IF WorkAt(r, "complete") THEN "complete" ELSE "fail"
      /\ SetKey(r, status, reply) /\ Answer(r)
      /\ UNCHANGED <<invite, members, fates, did, faults>>
  BY DEF CompleteKey, FailKey, WorkAt, invites, Unfailing
<1>2. RowsOK /\ work[r] \in WorkState /\ keys \in [KeyRow -> KeyState]
      /\ did \in [KeyRow -> SUBSET Invitation] /\ faults \in Nat
  BY DEF InvitationsInv, RowsOK
<1>3. BusyOK(r) /\ BusyRequest(r)
  BY <1>1 DEF InvitationsInv, AllRequestsOK, RequestOK, BusyRequest
<1>4. k \in KeyRow /\ keys[k] \in KeyState /\ keys[k].status \in {"processing", "deleted"}
  BY <1>2, <1>3 DEF BusyOK
<1>5. /\ work[r].at = "complete" => did[k] = {work[r].inv}
      /\ work[r].at = "fail" => did[k] = {} \/ faults > 0
  BY <1>3 DEF BusyOK
<1>6. /\ row \in KeyState /\ row.scope = keys[k].scope /\ row.body = keys[k].body
      /\ IF Present(k) THEN row.status = status /\ row.reply = reply ELSE row.status = "deleted"
  <2>1. CASE Present(k)
    <3> DEFINE x == [keys[k] EXCEPT !.status = status, !.reply = reply]
    <3>1. reply \in Invitation \cup {NoInvitation} /\ status \in {"completed", "failed"}
      BY <1>2 DEF WorkState
    <3> HIDE DEF status, reply
    <3>2. /\ x \in KeyState /\ x.scope = keys[k].scope /\ x.body = keys[k].body
          /\ x.status = status /\ x.reply = reply
      BY <1>4, <3>1 DEF KeyState
    <3> QED BY <2>1, <3>2
  <2>2. CASE ~Present(k)
    BY <1>4, <2>2 DEF Present
  <2> QED BY <2>1, <2>2
<1>7. keys' = [keys EXCEPT ![k] = row]
  <2>1. CASE Present(k)
    <3>1. keys' = [keys EXCEPT ![k].status = status, ![k].reply = reply]
      BY <1>1, <2>1 DEF SetKey
    <3> HIDE DEF status, reply
    <3> QED BY <1>2, <1>4, <2>1, <3>1
  <2>2. CASE ~Present(k)
    BY <1>1, <1>2, <1>4, <2>2 DEF SetKey
  <2> QED BY <2>1, <2>2
<1>8. NoWork \in WorkState /\ NoWork.at = "idle"
  BY DEF NoWork, WorkState, Scope
<1>9. /\ did' = [did EXCEPT ![k] = did[k]] /\ did[k] \in SUBSET Invitation
      /\ did[k] = {} \/ \E i \in Invitation : did[k] = {i}
  BY <1>1, <1>2, <1>4 DEF InvitationsInv, AllKeysOK, KeyOK
<1>10. /\ row.status \in {"completed", "failed", "deleted"}
       /\ row.status = "completed" => did[k] = {row.reply}
       /\ row.status = "failed" => did[k] = {} \/ faults > 0
  BY <1>1, <1>5, <1>6
<1> HIDE DEF row, status, reply
<1>11. RowsOK' /\ InvitesOK'
  BY <1>1, <1>2, <1>6, <1>7, <1>8 DEF RowsOK, Answer, InvitationsInv, InvitesOK, InviteOK
<1>12. work' = [work EXCEPT ![r] = NoWork] /\ faults' \in Nat /\ faults' >= faults
  BY <1>1, <1>2 DEF Answer
<1>13. Settles(r, k, NoWork, row, did[k])
  BY <1>1, <1>6, <1>7, <1>8, <1>9, <1>10, <1>12 DEF Settles
<1> QED BY <1>3, <1>6, <1>8, <1>11, <1>12, <1>13, KeyStep

-----------------------------------------------------------------------------
LEMMA InvitationsStep ==
    ASSUME InvitationsInv, [InvitationsNext]_<<invitationVars, faults>> PROVE InvitationsInv'
<1>1. CASE UNCHANGED <<invitationVars, faults>>
  <2>1. UNCHANGED <<keys, invite, members, work, did, fates, faults>>
    BY <1>1 DEF invitationVars
  <2>2. RowsOK' /\ InvitesOK'
    BY <2>1 DEF InvitationsInv, RowsOK, InvitesOK, InviteOK
  <2>3. AllRequestsOK'
    BY <2>1 DEF InvitationsInv, AllRequestsOK, Alone, RequestOK, BusyRequest, BusyOK, ReplayOK
  <2>4. AllKeysOK'
    BY <2>1 DEF InvitationsInv, AllKeysOK, KeyOK, BusyRequest
  <2> QED BY <2>2, <2>3, <2>4 DEF InvitationsInv
<1>2. CASE InvitationsNext
  <2>1. ASSUME NEW r \in Request, RequestStep(r), Unfailing PROVE InvitationsInv'
    BY <2>1, WorkSteps, BeginStep, CreateStep, AcceptStep, SettleKeyStep DEF RequestStep
  <2>2. ASSUME NEW r \in Request, RequestFaults(r), Fault PROVE InvitationsInv'
    BY <2>2, WorkSteps, CreateStep DEF RequestFaults
  <2> QED BY <1>2, <2>1, <2>2, InviteSteps, ExpirySteps DEF InvitationsNext
<1> QED BY <1>1, <1>2

(* A retry of a request is answered with what the request has done, and no *)
(* key stands for more than one change: the account that the rows of       *)
(* idempotency_keys keep is true.                                          *)
THEOREM KeysTellEffects == InvitationsSpec => []KeyTellsEffect
BY InvitesInit, InvitationsStep, InvKeyTells, PTL DEF InvitationsSpec

(* An invitation is settled once, and its roles are given exactly if it is *)
(* accepted, however acceptances, revocations, renewals and expiry race.   *)
THEOREM InvitationsSettledOnce == InvitationsSpec => []InvitationSettledOnce
BY InvitesInit, InvitationsStep, InvSettled, PTL DEF InvitationsSpec

-----------------------------------------------------------------------------
(* Publishing a pipeline version.                                          *)
-----------------------------------------------------------------------------

Writing(p) == tx[p].pc \in {"snapshot", "archive", "commit"}

(* A transaction past its first statement holds the lock of a version that *)
(* is not archived; a request has read a version that exists.              *)
MineInv ==
    \A p \in Publisher :
        /\ Writing(p) => vstatus[tx[p].mine] \in {"draft", "published"}
        /\ tx[p].pc = "update" => vstatus[tx[p].mine] # "absent"

(* The rows it has archived, in its own eyes, are published in everyone    *)
(* else's, and its own version is not one of them.                         *)
ArchInv ==
    \A p \in Publisher :
        /\ \A v \in tx[p].arch : vstatus[v] = "published"
        /\ tx[p].mine \notin tx[p].todo \cup tx[p].arch
        /\ tx[p].pc \in {"idle", "update", "snapshot"} =>
              tx[p].todo = {} /\ tx[p].arch = {}

(* No row is locked twice.                                                 *)
LockInv ==
    \A p, q \in Publisher : p # q => LockedRows(p) \cap LockedRows(q) = {}

PublishInv == TypeOK /\ MineInv /\ ArchInv /\ LockInv /\ CurrentIsPublished

USE PublishAssumption

LEMMA PublishInvInit == Init => PublishInv
BY DEF Init, PublishInv, TypeOK, MineInv, ArchInv, LockInv, CurrentIsPublished, LockedRows,
       Writing, NoTx, TxState, Committed!VersionInit, Committed!VersionTypeOK,
       Committed!VersionStatus

(* Statements change the state of their own request alone.                 *)
LEMMA SaveDraftPublishInv == ASSUME PublishInv, NEW v \in Version, SaveDraft(v) PROVE PublishInv'
<1> USE DEF SaveDraft, Committed!SaveDraft
<1>1. TypeOK'
  BY DEF PublishInv, TypeOK, Committed!VersionTypeOK, Committed!VersionStatus
<1>2. MineInv' /\ ArchInv' /\ CurrentIsPublished'
  BY DEF PublishInv, TypeOK, MineInv, ArchInv, CurrentIsPublished, Writing,
         TxState, Committed!VersionTypeOK, Committed!VersionStatus
<1>3. LockInv'
  BY DEF PublishInv, LockInv, LockedRows
<1> QED BY <1>1, <1>2, <1>3 DEF PublishInv

LEMMA ReadVersionPublishInv ==
    ASSUME PublishInv, NEW p \in Publisher, NEW v \in Version, ReadVersion(p, v) PROVE PublishInv'
<1> USE DEF ReadVersion, NoTx
<1>1. TypeOK'
  BY DEF PublishInv, TypeOK, TxState, Committed!VersionTypeOK
<1>2. MineInv' /\ ArchInv' /\ CurrentIsPublished'
  BY DEF PublishInv, TypeOK, TxState, MineInv, ArchInv, CurrentIsPublished, Writing
<1>3. LockInv'
  BY DEF PublishInv, TypeOK, TxState, LockInv, LockedRows
<1> QED BY <1>1, <1>2, <1>3 DEF PublishInv

LEMMA MarkPublishedPublishInv ==
    ASSUME PublishInv, NEW p \in Publisher, MarkPublished(p) PROVE PublishInv'
<1> USE DEF MarkPublished, NoTx
<1>1. TypeOK'
  BY DEF PublishInv, TypeOK, TxState, Committed!VersionTypeOK
<1>2. MineInv' /\ ArchInv' /\ CurrentIsPublished'
  BY DEF PublishInv, TypeOK, TxState, MineInv, ArchInv, CurrentIsPublished, Writing,
         Committed!VersionTypeOK, Committed!VersionStatus
<1>3. LockInv'
  <2> SUFFICES ASSUME NEW a \in Publisher, NEW b \in Publisher, a # b
               PROVE  LockedRows(a)' \cap LockedRows(b)' = {}
    BY DEF LockInv
  <2>1. LockedRows(p)' \subseteq {tx[p].mine}
    BY DEF PublishInv, TypeOK, TxState, ArchInv, LockedRows
  <2>2. \A q \in Publisher \ {p} : LockedRows(q)' = LockedRows(q)
    BY DEF PublishInv, TypeOK, TxState, LockedRows
  <2>3. \A q \in Publisher \ {p} : tx[p].mine \notin LockedRows(q)
    BY DEF Free
  <2> QED BY <2>1, <2>2, <2>3 DEF PublishInv, LockInv
<1> QED BY <1>1, <1>2, <1>3 DEF PublishInv

LEMMA FindOthersPublishInv ==
    ASSUME PublishInv, NEW p \in Publisher, FindOthers(p) PROVE PublishInv'
<1> USE DEF FindOthers, OtherPublished
<1>1. TypeOK'
  BY DEF PublishInv, TypeOK, TxState, Committed!VersionTypeOK
<1>2. MineInv' /\ ArchInv' /\ CurrentIsPublished'
  BY DEF PublishInv, TypeOK, TxState, MineInv, ArchInv, CurrentIsPublished, Writing
<1>3. LockInv'
  BY DEF PublishInv, TypeOK, TxState, LockInv, LockedRows
<1> QED BY <1>1, <1>2, <1>3 DEF PublishInv

LEMMA ArchiveOtherPublishInv ==
    ASSUME PublishInv, NEW p \in Publisher, NEW v \in Version, ArchiveOther(p, v) PROVE PublishInv'
<1> USE DEF ArchiveOther
<1>1. TypeOK'
  BY DEF PublishInv, TypeOK, TxState, Committed!VersionTypeOK
<1>2. MineInv' /\ ArchInv' /\ CurrentIsPublished'
  BY DEF PublishInv, TypeOK, TxState, MineInv, ArchInv, CurrentIsPublished, Writing
<1>3. LockInv'
  <2> SUFFICES ASSUME NEW a \in Publisher, NEW b \in Publisher, a # b
               PROVE  LockedRows(a)' \cap LockedRows(b)' = {}
    BY DEF LockInv
  <2>1. LockedRows(p)' \subseteq LockedRows(p) \cup {v}
    BY DEF PublishInv, TypeOK, TxState, LockedRows
  <2>2. \A q \in Publisher \ {p} : LockedRows(q)' = LockedRows(q) /\ v \notin LockedRows(q)
    BY DEF PublishInv, TypeOK, TxState, LockedRows, Free
  <2> QED BY <2>1, <2>2 DEF PublishInv, LockInv
<1> QED BY <1>1, <1>2, <1>3 DEF PublishInv

LEMMA SetCurrentPublishInv ==
    ASSUME PublishInv, NEW p \in Publisher, SetCurrent(p) PROVE PublishInv'
<1> USE DEF SetCurrent
<1>1. TypeOK'
  BY DEF PublishInv, TypeOK, TxState, Committed!VersionTypeOK
<1>2. MineInv' /\ ArchInv' /\ CurrentIsPublished'
  BY DEF PublishInv, TypeOK, TxState, MineInv, ArchInv, CurrentIsPublished, Writing
<1>3. LockInv'
  BY DEF PublishInv, TypeOK, TxState, LockInv, LockedRows
<1> QED BY <1>1, <1>2, <1>3 DEF PublishInv

(* A commit changes only rows its transaction has locked, so what the      *)
(* others rely on is untouched.                                            *)
LEMMA CommitPublishInv == ASSUME PublishInv, NEW p \in Publisher, Commit(p) PROVE PublishInv'
<1> USE DEF Commit, NoTx
<1>1. TypeOK'
  BY DEF PublishInv, TypeOK, TxState, Committed!VersionTypeOK, Committed!VersionStatus
<1>2. \A v \in Version : v \notin LockedRows(p) => vstatus'[v] = vstatus[v]
  BY DEF LockedRows
<1>3. \A v \in Version : vstatus[v] # "absent" => vstatus'[v] # "absent"
  OBVIOUS
<1>4. ASSUME NEW q \in Publisher, q # p
      PROVE  /\ tx'[q] = tx[q]
             /\ \A v \in LockedRows(q) : v \in Version /\ vstatus'[v] = vstatus[v]
  <2>1. tx'[q] = tx[q]
    BY <1>4 DEF PublishInv, TypeOK
  <2>2. LockedRows(q) \subseteq Version
    BY DEF PublishInv, TypeOK, TxState, LockedRows
  <2> QED BY <2>1, <2>2, <1>2, <1>4 DEF PublishInv, LockInv
<1>5. tx'[p] = NoTx
  BY DEF PublishInv, TypeOK
<1>6. MineInv'
  <2> SUFFICES ASSUME NEW q \in Publisher, q # p
               PROVE  /\ Writing(q)' => vstatus'[tx'[q].mine] \in {"draft", "published"}
                      /\ tx'[q].pc = "update" => vstatus'[tx'[q].mine] # "absent"
    BY <1>5 DEF MineInv, Writing
  <2>1. Writing(q) => tx[q].mine \in LockedRows(q)
    BY DEF Writing, LockedRows
  <2>2. tx[q].pc = "update" => tx[q].mine \in Version
    BY DEF PublishInv, TypeOK
  <2> QED BY <2>1, <2>2, <1>3, <1>4 DEF PublishInv, MineInv, Writing
<1>7. ArchInv'
  <2> SUFFICES ASSUME NEW q \in Publisher, q # p
               PROVE  /\ \A v \in tx'[q].arch : vstatus'[v] = "published"
                      /\ tx'[q].mine \notin tx'[q].todo \cup tx'[q].arch
                      /\ tx'[q].pc \in {"idle", "update", "snapshot"} =>
                            tx'[q].todo = {} /\ tx'[q].arch = {}
    BY <1>5 DEF ArchInv
  <2>1. tx[q].arch \subseteq LockedRows(q)
    BY DEF LockedRows
  <2> QED BY <2>1, <1>4 DEF PublishInv, ArchInv
<1>8. LockInv'
  BY <1>4, <1>5 DEF PublishInv, LockInv, LockedRows
<1>9. CurrentIsPublished'
  BY DEF PublishInv, TypeOK, ArchInv, CurrentIsPublished
<1> QED BY <1>1, <1>6, <1>7, <1>8, <1>9 DEF PublishInv

LEMMA RollbackPublishInv == ASSUME PublishInv, NEW p \in Publisher, Rollback(p) PROVE PublishInv'
<1> USE DEF Rollback, NoTx
<1>1. TypeOK'
  BY DEF PublishInv, TypeOK, TxState, Committed!VersionTypeOK
<1>2. MineInv' /\ ArchInv' /\ CurrentIsPublished'
  BY DEF PublishInv, TypeOK, TxState, MineInv, ArchInv, CurrentIsPublished, Writing
<1>3. LockInv'
  BY DEF PublishInv, TypeOK, TxState, LockInv, LockedRows
<1> QED BY <1>1, <1>2, <1>3 DEF PublishInv

LEMMA StutterPublishInv == ASSUME PublishInv, UNCHANGED vars PROVE PublishInv'
BY DEF vars, PublishInv, TypeOK, MineInv, ArchInv, LockInv, CurrentIsPublished, LockedRows,
       Writing, Committed!VersionTypeOK

LEMMA StepPublishInv == PublishInv /\ [Next]_vars => PublishInv'
BY SaveDraftPublishInv, ReadVersionPublishInv, MarkPublishedPublishInv, FindOthersPublishInv, ArchiveOtherPublishInv,
   SetCurrentPublishInv, CommitPublishInv, RollbackPublishInv, StutterPublishInv DEF Next, PublishVersion

LEMMA PublishInvHolds == Spec => []PublishInv
BY PublishInvInit, StepPublishInv, PTL DEF Spec

(* The statuses of the rows and of the requests stay in their ranges, and  *)
(* a request past its first read always has a version.                     *)
THEOREM PublishTypesHold == Spec => []TypeOK
<1>1. PublishInv => TypeOK
  BY DEF PublishInv
<1> QED BY PublishInvHolds, <1>1, PTL

(* However many requests publish at once, published_version_id is NULL or  *)
(* names a published version.                                              *)
THEOREM PublishedPointerCorrect == Spec => []CurrentIsPublished
<1>1. PublishInv => CurrentIsPublished
  BY DEF PublishInv
<1> QED BY PublishInvHolds, <1>1, PTL

-----------------------------------------------------------------------------
(* Every statement is a step of PipelineVersions or invisible to it: a     *)
(* commit publishes the version, and archives rows that are published at   *)
(* that moment.                                                            *)
LEMMA CommitPublishes ==
    ASSUME PublishInv, NEW p \in Publisher, Commit(p)
    PROVE  tx[p].mine \in Version /\ Committed!Publish(tx[p].mine)
<1>1. tx[p].mine \in Version /\ vstatus[tx[p].mine] \in {"draft", "published"}
  BY DEF PublishInv, TypeOK, MineInv, Writing, Commit
<1>2. tx[p].arch \in SUBSET {x \in Version \ {tx[p].mine} : vstatus[x] = "published"}
  BY DEF PublishInv, TypeOK, TxState, ArchInv
<1> QED BY <1>1, <1>2 DEF Commit, Committed!Publish

LEMMA StepRefines ==
    PublishInv /\ [Next]_vars => [Committed!VersionNext]_(Committed!versionVars)
<1> SUFFICES ASSUME PublishInv, [Next]_vars
             PROVE  Committed!VersionNext \/ UNCHANGED <<vstatus, current>>
  BY DEF Committed!versionVars
<1>1. ASSUME NEW v \in Version, SaveDraft(v) PROVE Committed!VersionNext
  BY <1>1 DEF SaveDraft, Committed!VersionNext
<1>2. ASSUME NEW p \in Publisher, Commit(p) PROVE Committed!VersionNext
  BY <1>2, CommitPublishes DEF Committed!VersionNext
<1>3. ASSUME NEW p \in Publisher, PublishVersion(p), ~Commit(p)
      PROVE  UNCHANGED <<vstatus, current>>
  BY <1>3 DEF PublishVersion, ReadVersion, MarkPublished, FindOthers, ArchiveOther,
              SetCurrent, Rollback
<1> QED BY <1>1, <1>2, <1>3 DEF Next, vars

(* Publishing, statement by statement and under row locks, implements the  *)
(* one atomic step the rest of the system sees.                            *)
THEOREM PublishImplementsVersions == Spec => ImplementsVersions
<1>1. Init => Committed!VersionInit
  BY DEF Init
<1> QED BY <1>1, PublishInvHolds, StepRefines, PTL
        DEF Spec, ImplementsVersions, Committed!VersionSpec

(* An archived version is never published again, whatever a request that   *)
(* read it earlier goes on to do.                                          *)
THEOREM ArchivedStaysArchived == Spec => ArchivedStays
<1>1. PublishInv /\ [Next]_vars =>
         [\A v \in Version : vstatus[v] = "archived" => vstatus'[v] = "archived"]_vars
  <2> SUFFICES ASSUME PublishInv, [Next]_vars, NEW v \in Version, vstatus[v] = "archived"
               PROVE  vstatus'[v] = "archived"
    OBVIOUS
  <2>1. ASSUME Committed!VersionNext PROVE vstatus'[v] = "archived"
    BY <2>1 DEF Committed!VersionNext, Committed!SaveDraft, Committed!Publish, PublishInv,
                TypeOK, Committed!VersionTypeOK
  <2> QED BY <2>1, StepRefines DEF Committed!versionVars
<1> QED BY <1>1, PublishInvHolds, PTL DEF Spec, ArchivedStays

-----------------------------------------------------------------------------
(* All requests together.                                                  *)
-----------------------------------------------------------------------------

(* idempotency_keys has one row of a scope at a time.                      *)
OneKeyPerScope ==
    \A k, l \in KeyRow : Present(k) /\ Present(l) /\ keys[k].scope = keys[l].scope => k = l

(* A row that is not new keeps its scope, and is not there again once it   *)
(* is gone.                                                                *)
LEMMA KeysRemainUnique ==
  ASSUME InvitationsInv, InvitationsNext, OneKeyPerScope PROVE OneKeyPerScope'
<1>a. RowsOK
  BY DEF InvitationsInv
<1>b. keys \in [KeyRow -> KeyState]
  BY <1>a DEF RowsOK
<1>1. ASSUME \A k \in KeyRow : keys'[k].scope = keys[k].scope /\ (Present(k)' => Present(k))
      PROVE  OneKeyPerScope'
  BY <1>1 DEF OneKeyPerScope
<1>2. CASE keys' = keys
  BY <1>1, <1>2 DEF Present
<1>3. ASSUME NEW r \in Request, NEW scope \in Scope, NEW body \in Body(scope), NEW k \in KeyRow,
             BeginKey(r, scope, body, k)
      PROVE  OneKeyPerScope'
  <2>1. keys'[k].scope = scope /\ \A l \in KeyRow \ {k} : keys'[l] = keys[l]
    BY <1>b, <1>3 DEF BeginKey, NoKey, KeyState
  <2>2. \A l \in KeyRow : Present(l) => keys[l].scope # scope
    BY <1>3 DEF BeginKey, RowOf
  <2>3. \A l \in KeyRow \ {k} : Present(l)' <=> Present(l)
    BY <2>1 DEF Present
  <2> QED
    BY <2>1, <2>2, <2>3 DEF OneKeyPerScope
<1>4. ASSUME NEW r \in Request, NEW status \in {"completed", "failed"},
             NEW reply \in Invitation \cup {NoInvitation}, SetKey(r, status, reply)
      PROVE  OneKeyPerScope'
  <2>1. CASE ~Present(work[r].key)
    BY <1>2, <1>4, <2>1 DEF SetKey
  <2>2. CASE Present(work[r].key)
    <3>1. keys' = [keys EXCEPT ![work[r].key].status = status, ![work[r].key].reply = reply]
      BY <1>4, <2>2 DEF SetKey
    <3> QED
      BY <1>b, <1>1, <2>2, <3>1 DEF Present, KeyState
  <2> QED
    BY <2>1, <2>2
<1>5. ASSUME NEW k \in KeyRow, KeyExpires(k) PROVE OneKeyPerScope'
  <2>1. keys' = [keys EXCEPT ![k].expired = TRUE]
    BY <1>5 DEF KeyExpires
  <2> QED
    BY <1>b, <1>1, <2>1 DEF Present, KeyState
<1>6. CASE DeleteExpiredKeys
  <2>1. keys' = [k \in KeyRow |-> IF Present(k) /\ keys[k].expired
                                  THEN [keys[k] EXCEPT !.status = "deleted"] ELSE keys[k]]
    BY <1>6 DEF DeleteExpiredKeys
  <2>2. ASSUME NEW k \in KeyRow PROVE keys'[k].scope = keys[k].scope /\ (Present(k)' => Present(k))
    BY <1>b, <2>1 DEF Present, KeyState
  <2> QED
    BY <1>1, <2>2
<1>7. ASSUME NEW r \in Request, RequestStep(r) PROVE OneKeyPerScope'
  <2>1. ASSUME NEW scope \in Scope, NEW body \in Body(scope), BeginRefused(r, scope, body)
        PROVE  OneKeyPerScope'
    BY <1>2, <2>1 DEF BeginRefused
  <2>2. CASE Replay(r) \/ Refuse(r) \/ Replayed(r) \/ CreateFails(r) \/ ReadPending(r)
    BY <1>2, <2>2 DEF Replay, Refuse, Replayed, CreateFails, ReadPending
  <2>3. CASE AcceptInvitation(r) \/ \E i \in Invitation : Create(r, i, "complete")
    BY <1>2, <2>3 DEF AcceptInvitation, Create
  <2>4. CASE CompleteKey(r)
    <3>1. work[r].inv \in Invitation \cup {NoInvitation}
      BY <1>a DEF RowsOK, WorkState
    <3> QED
      BY <1>4, <2>4, <3>1 DEF CompleteKey
  <2>5. CASE FailKey(r)
    BY <1>4, <2>5 DEF FailKey
  <2> QED
    BY <1>3, <1>7, <2>1, <2>2, <2>3, <2>4, <2>5 DEF RequestStep
<1>8. ASSUME NEW r \in Request, RequestFaults(r) PROVE OneKeyPerScope'
  BY <1>2, <1>8 DEF RequestFaults, RequestStops, Create
<1>9. ASSUME NEW i \in Invitation, Revoke(i) \/ RenewToken(i) \/ InvitationLapses(i)
      PROVE  OneKeyPerScope'
  BY <1>2, <1>9 DEF Revoke, RenewToken, InvitationLapses
<1>10. CASE ExpireInvitations
  BY <1>2, <1>10 DEF ExpireInvitations
<1> QED
  BY <1>5, <1>6, <1>7, <1>8, <1>9, <1>10 DEF InvitationsNext

(* What holds of every component while one of them is at work.             *)
RequestsInv ==
    /\ FaultsTypeOK
    /\ PublishInv /\ SessionInv /\ GrantInv /\ InvitationsInv /\ OneKeyPerScope

LEMMA RequestsInvInit == AllInit => RequestsInv
<1> SUFFICES ASSUME AllInit PROVE RequestsInv
  OBVIOUS
<1>1. FaultsTypeOK
  BY FaultsAssumption DEF AllInit, FaultsInit, FaultsTypeOK
<1>2. OneKeyPerScope
  BY DEF AllInit, InvitationsInit, OneKeyPerScope, Present, NoKey
<1> QED
  BY <1>1, <1>2, PublishInvInit, SessionInvInit, GrantInvInit, InvitesInit DEF AllInit, RequestsInv

(* A component at rest keeps its invariant, though another meets faults.   *)
LEMMA OthersRest ==
  ASSUME RequestsInv, faults' \in Nat, faults' >= faults
  PROVE  /\ UNCHANGED vars => PublishInv'
         /\ UNCHANGED sessionVars => SessionInv'
         /\ UNCHANGED grantVars => GrantInv'
         /\ UNCHANGED invitationVars => InvitationsInv' /\ OneKeyPerScope'
<1>1. UNCHANGED vars => PublishInv'
  BY StutterPublishInv DEF RequestsInv
<1>2. UNCHANGED sessionVars => SessionInv'
  BY DEF RequestsInv, sessionVars, SessionInv, RequestsOK, KeysOK, EndedStaysEnded, Alive, Held,
     IndexCovers, Saving, AdminOK
<1>3. ASSUME UNCHANGED grantVars PROVE GrantInv'
  <2>1. UNCHANGED <<grant, grantee, call, leaving, rotates, spent, valid, forsaken, withdrawn>>
    BY <1>3 DEF grantVars
  <2>2. TokensOK' /\ CallsOK' /\ AllFreshOK'
    BY <2>1 DEF RequestsInv, GrantInv, TokensOK, CallsOK, AllFreshOK, Fresh, FreshOK
  <2>3. GrantMatchesProvider'
    BY <2>1 DEF RequestsInv, GrantInv, GrantMatchesProvider, Live, BeingReplaced
  <2> QED
    BY <2>2, <2>3 DEF GrantInv
<1>4. ASSUME UNCHANGED invitationVars PROVE InvitationsInv' /\ OneKeyPerScope'
  <2>1. UNCHANGED <<keys, invite, members, work, did, fates>>
    BY <1>4 DEF invitationVars
  <2>2. faults \in Nat /\ (faults > 0 => faults' > 0)
    BY DEF RequestsInv, InvitationsInv, RowsOK
  <2>3. RowsOK' /\ InvitesOK'
    BY <2>1 DEF RequestsInv, InvitationsInv, RowsOK, InvitesOK, InviteOK
  <2>4. AllRequestsOK'
    BY <2>1, <2>2 DEF RequestsInv, InvitationsInv, AllRequestsOK, Alone, RequestOK, BusyRequest, BusyOK, ReplayOK
  <2>5. AllKeysOK'
    BY <2>1, <2>2 DEF RequestsInv, InvitationsInv, AllKeysOK, KeyOK, BusyRequest
  <2>6. OneKeyPerScope'
    BY <2>1 DEF RequestsInv, OneKeyPerScope, Present
  <2> QED
    BY <2>3, <2>4, <2>5, <2>6 DEF InvitationsInv
<1> QED
  BY <1>1, <1>2, <1>3, <1>4

LEMMA RequestsInvStep ==
  ASSUME RequestsInv, [AllNext]_allVars PROVE RequestsInv'
<1> USE DEF RequestsInv
<1>1. UNCHANGED faults \/ Fault
  BY DEF AllNext, Idle, allVars, Unfailing, Fault, SessionNext, Audit, Stop, DeactivationStops, GrantNext, InvitationsNext
<1>2. FaultsTypeOK' /\ faults' \in Nat /\ faults' >= faults
  BY <1>1, FaultsAssumption DEF Fault, FaultsTypeOK
<1>3. CASE UNCHANGED allVars
  <2>1. UNCHANGED <<vars, sessionVars, grantVars, invitationVars>>
    BY <1>3 DEF allVars
  <2> QED
    BY <1>2, <2>1, OthersRest
<1>4. CASE Next /\ Idle(<<sessionVars, grantVars, invitationVars, faults>>)
  <2>1. UNCHANGED <<sessionVars, grantVars, invitationVars>>
    BY <1>4 DEF Idle
  <2> QED
    BY <1>2, <1>4, <2>1, OthersRest, StepPublishInv
<1>5. CASE SessionNext /\ Idle(<<vars, grantVars, invitationVars>>)
  <2>1. UNCHANGED <<vars, grantVars, invitationVars>>
    BY <1>5 DEF Idle
  <2> QED
    BY <1>2, <1>5, <2>1, OthersRest, SessionStepInv
<1>6. CASE GrantNext /\ Idle(<<vars, sessionVars, invitationVars>>)
  <2>1. UNCHANGED <<vars, sessionVars, invitationVars>>
    BY <1>6 DEF Idle
  <2> QED
    BY <1>2, <1>6, <2>1, OthersRest, GrantInvStep
<1>7. CASE InvitationsNext /\ Idle(<<vars, sessionVars, grantVars>>)
  <2>1. UNCHANGED <<vars, sessionVars, grantVars>>
    BY <1>7 DEF Idle
  <2> QED
    BY <1>2, <1>7, <2>1, OthersRest, InvitationsStep, KeysRemainUnique
<1> QED
  BY <1>3, <1>4, <1>5, <1>6, <1>7 DEF AllNext

(* The rows, keys and requests of all four components stay in their types, *)
(* among them that no scope ever has two idempotency keys and that the     *)
(* user's set of sessions and its TTL agree.                               *)
THEOREM RequestTypesHold == AllSpec => []RequestsTypeOK
<1>1. RequestsInv => RequestsTypeOK
  <2> SUFFICES ASSUME RequestsInv PROVE RequestsTypeOK
    OBVIOUS
  <2>1. TypeOK /\ SessionTypeOK
    BY DEF RequestsInv, PublishInv, SessionInv, SessionTypeOK, RequestsOK, KeysOK
  <2>2. GrantTypeOK
    BY DEF RequestsInv, GrantInv, TokensOK, CallsOK, GrantTypeOK, CallOK
  <2>3. InvitationsTypeOK
    BY DEF RequestsInv, InvitationsInv, RowsOK, OneKeyPerScope, InvitationsTypeOK
  <2> QED
    BY <2>1, <2>2, <2>3 DEF RequestsInv, RequestsTypeOK
<1> QED
  BY <1>1, RequestsInvInit, RequestsInvStep, PTL DEF AllSpec

(* And each keeps what it promises, whichever of them is at work: the      *)
(* published pointer, the sessions that ended, the grants' tokens, the     *)
(* answers of the idempotency keys and the invitations.                    *)
THEOREM RequestsHold ==
    AllSpec => [](/\ CurrentIsPublished /\ EndedStaysEnded /\ GrantMatchesProvider
                  /\ KeyTellsEffect /\ InvitationSettledOnce)
<1>1. RequestsInv => /\ CurrentIsPublished /\ EndedStaysEnded /\ GrantMatchesProvider
                     /\ KeyTellsEffect /\ InvitationSettledOnce
  BY InvSettled, InvKeyTells
     DEF RequestsInv, PublishInv, CurrentIsPublished, SessionInv, GrantInv
<1> QED
  BY <1>1, RequestsInvInit, RequestsInvStep, PTL DEF AllSpec

(* Publishing is one atomic step to the other components as well.          *)
THEOREM RequestsImplementVersions == AllSpec => ImplementsVersions
<1>1. AllInit => Init
  BY DEF AllInit
<1>2. [AllNext]_allVars => [Next]_vars
  BY DEF AllNext, allVars, Idle
<1> QED
  BY <1>1, <1>2, PublishImplementsVersions, PTL DEF AllSpec, Spec

=============================================================================
